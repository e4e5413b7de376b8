------------------------- MODULE MCAdmittedExecution -------------------------
(* Two invocations of one run, one of which retries the other's command;    *)
(* four failures leave both producer generations, and a third recovery of   *)
(* the same attempt, room to go wrong.                                      *)
EXTENDS AdmittedExecution
=============================================================================
