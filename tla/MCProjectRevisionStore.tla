----------------------- MODULE MCProjectRevisionStore -----------------------
(***************************************************************************)
(* Small instance: a start and a seeding process race for revision 1,      *)
(* three mutations compete for revisions 2 and 3, and one of them reuses   *)
(* the command id of another.                                              *)
(***************************************************************************)
EXTENDS ProjectRevisionStore

Start(c) == [kind |-> "start", id |-> c, expected |-> 0]
Seed == [kind |-> "seed", id |-> "none", expected |-> 0]
Mutate(c, n) == [kind |-> "mutate", id |-> c, expected |-> n]

MCRequests ==
    {Start("c1"), Seed, Mutate("c2", 1), Mutate("c3", 1), Mutate("c2", 2)}
=============================================================================
