---------------------------- MODULE MCWorkArchive ----------------------------
(***************************************************************************)
(* Two conversations and three calls with results that share digests: with *)
(* reads and a rejected write, with a crash after or before it, with a     *)
(* crash of a sound store, and with room for two results per conversation. *)
(* "none" is no conversation, it owns the other saves.                     *)
(***************************************************************************)
EXTENDS WorkArchive, TLC

MCSettings ==
  {[keep |-> 1, capture |-> 3, touch |-> 1, read |-> 1,
    sound |-> FALSE, failure |-> 1, crash |-> 0],
   [keep |-> 1, capture |-> 2, touch |-> 1, read |-> 1,
    sound |-> FALSE, failure |-> 1, crash |-> 1],
   [keep |-> 1, capture |-> 3, touch |-> 1, read |-> 1,
    sound |-> TRUE, failure |-> 0, crash |-> 1],
   [keep |-> 2, capture |-> 4, touch |-> 0, read |-> 0,
    sound |-> TRUE, failure |-> 0, crash |-> 0]}

\* Conversations, calls and digests are interchangeable.
Alike == Permutations(Conversations) \cup Permutations(Calls) \cup Permutations(Digests)
==============================================================================
