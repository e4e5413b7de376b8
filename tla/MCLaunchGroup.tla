---------------------------- MODULE MCLaunchGroup ----------------------------
(***************************************************************************)
(* Two runs that share the group, and a run and a qualification attempt    *)
(* that compete for it, on a group with and without a readiness check.     *)
(***************************************************************************)
EXTENDS LaunchGroup

CONSTANTS s1, s2, a1

MCSessions == {s1, s2}
MCAttempts == {a1}

Two ==
  [readiness |-> FALSE, demand |-> FALSE, users |-> MCSessions, calls |-> 4, faults |-> 1]
Plain(s) ==
  [readiness |-> FALSE, demand |-> FALSE, users |-> {s, a1}, calls |-> 3, faults |-> 2]
Checked(s) ==
  [readiness |-> TRUE, demand |-> TRUE, users |-> {s, a1}, calls |-> 3, faults |-> 1]

MCSettings == {Two} \cup {Plain(s) : s \in MCSessions} \cup {Checked(s) : s \in MCSessions}

\* Containers and sessions are interchangeable: MCSettings is closed under
\* their permutations.
Alike == Permutations(Materials) \cup Permutations(MCSessions)
=============================================================================
