----------------------------- MODULE ProjectLog -----------------------------
(***************************************************************************)
(* What the project command services promise their callers: one atomic,    *)
(* append-only log of applied requests.                                    *)
(*                                                                         *)
(* `expectedRevision` is optimistic concurrency control, a durable receipt *)
(* binds a command id to its full request, an identical retry returns the  *)
(* original result and reusing the id with different arguments is refused. *)
(* The detailed specification, ProjectRevisionStore, has handlers in       *)
(* several processes, claim files, renames and crashes; it implements this *)
(* one under the mapping given there.                                      *)
(***************************************************************************)
EXTENDS Naturals

CONSTANT Requests   \* the requests callers may submit, see ProjectRevisionStore

VARIABLES
    head,       \* current revision, 0 while the project does not exist
    log,        \* receipts of the current revision
    answered    \* definite answers given to callers

logVars == <<head, log, answered>>

Init ==
    /\ head = 0
    /\ log = {}
    /\ answered = {}

Unused(r) == \A c \in log : c.request.id # r.id

(* project.start writes the first receipt, a seeded project has none. *)
Create(r) ==
    /\ r.kind \in {"start", "seed"}
    /\ head = 0
    /\ head' = 1
    /\ log' = IF r.kind = "seed" THEN {} ELSE {[request |-> r, revision |-> 1]}
    /\ UNCHANGED answered

(* A mutation applies at most once and only to the revision it expects. *)
Apply(r) ==
    /\ r.kind = "mutate"
    /\ head = r.expected
    /\ Unused(r)
    /\ head' = head + 1
    /\ log' = log \cup {[request |-> r, revision |-> head + 1]}
    /\ UNCHANGED answered

(* Success, first answer or replay, is answered only from a receipt. *)
AnswerApplied(r) ==
    /\ \E c \in log :
          /\ c.request = r
          /\ answered' = answered \cup
                {[request |-> r, outcome |-> "ok", revision |-> c.revision]}
    /\ UNCHANGED <<head, log>>

(* Staleness is answered only when the request is not in the log. *)
AnswerStale(r) ==
    /\ r.kind = "mutate"
    /\ r.expected # head
    /\ Unused(r)
    /\ answered' = answered \cup
          {[request |-> r, outcome |-> "stale", revision |-> head]}
    /\ UNCHANGED <<head, log>>

Next ==
    \E r \in Requests :
        Create(r) \/ Apply(r) \/ AnswerApplied(r) \/ AnswerStale(r)

Spec == Init /\ [][Next]_logVars
=============================================================================
