------------------------------ MODULE ThreadLog ------------------------------
(* What a Thread promises its readers: a line of revisions, each the       *)
(* result of one run, to which successors are appended and from which      *)
(* nothing is ever removed, replaced or declared twice.                    *)
EXTENDS Sequences

CONSTANT Runs

VARIABLES
    results,  \* the run that produced each declared revision, in order
    done      \* the runs reported as completed

Init == results = <<>> /\ done = {}

(* A run completes exactly when its own result becomes the head. *)
Declare(r) ==
    /\ r \notin done
    /\ results' = Append(results, r)
    /\ done' = done \cup {r}

Next == \E r \in Runs : Declare(r)

Spec == Init /\ [][Next]_<<results, done>>
=============================================================================
