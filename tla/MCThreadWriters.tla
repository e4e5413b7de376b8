--------------------------- MODULE MCThreadWriters ---------------------------
(***************************************************************************)
(* Two processes and two runs: a careful team, a careful executor beside   *)
(* one of an unlisted operation and beside an eager one, and the latter    *)
(* two together.                                                           *)
(***************************************************************************)
EXTENDS ThreadWriters, TLC

CONSTANTS r1, r2

MCRuns == {r1, r2}
Pair(a, b) == r1 :> a @@ r2 :> b
MCTeams ==
    {[listed |-> MCRuns, policy |-> Pair("careful", "careful")],
     [listed |-> {r1}, policy |-> Pair("careful", "flag")],
     [listed |-> MCRuns, policy |-> Pair("careful", "eager")],
     [listed |-> {r2}, policy |-> Pair("flag", "eager")]}
=============================================================================
