------------------------ MODULE MCRuntimeQualification -----------------------
(***************************************************************************)
(* An operator applies while another recovers, once past the deadline and  *)
(* once under a revocation; and one operator alone, revoked and past the   *)
(* deadline, with two faults and with the sessions that take the group   *)
(* over.                                                                   *)
(***************************************************************************)
EXTENDS RuntimeQualification

CONSTANTS o1, o2

MCOperators == {o1, o2}
MCSettings ==
  {[applicant |-> o1, operators |-> {o2}, revocable |-> FALSE, timely |-> FALSE,
    verdicts |-> {"qualified"}, sessions |-> FALSE, faults |-> 0],
   [applicant |-> o1, operators |-> {o2}, revocable |-> TRUE, timely |-> TRUE,
    verdicts |-> {"qualified"}, sessions |-> FALSE, faults |-> 0],
   [applicant |-> o1, operators |-> {o1}, revocable |-> TRUE, timely |-> FALSE,
    verdicts |-> {"qualified", "failed"}, sessions |-> TRUE, faults |-> 2]}
=============================================================================
