------------------------ MODULE ProjectRevisionStore ------------------------
(***************************************************************************)
(* The command boundary of one engineering project and the immutable file  *)
(* store behind it.                                                        *)
(*                                                                         *)
(* EngineeringProjectCommandService.apply, ProjectBriefCommandService.apply *)
(* and .startProject, and the seeding in                                   *)
(* createEngineeringProjectCommandRuntime all read the current revision,   *)
(* build a successor and commit it through                                 *)
(* FileEngineeringProjectRevisionStore.  A commit creates the file         *)
(* NNNNNNNNNN.claim with createNew (the compare-and-swap that works across *)
(* processes), writes a pending file and renames it to NNNNNNNNNN.json.    *)
(*                                                                         *)
(* A handler is one invocation running in some process; handlers of        *)
(* several processes interleave at every await.  A request stands for the  *)
(* caller's type, origin and arguments, so that equality of requests is    *)
(* equality of request fingerprints.  The domain rules of the commands are *)
(* the subject of ProjectLedger: here an update is accepted or refused.    *)
(***************************************************************************)
EXTENDS Naturals

CONSTANTS
    Handlers,     \* concurrent invocations
    Requests,     \* records [kind, id, expected]; id is the caller's commandId
    Mortal,       \* the handlers whose process may die, or whose writes may fail
    NoRequest, NoSnapshot

Kinds == {"start", "seed", "mutate"}

ASSUME RequestsAssumption ==
    \A r \in Requests :
        /\ r.kind \in Kinds
        /\ r.expected \in Nat
        /\ r.kind = "mutate" => r.expected >= 1

ASSUME MortalAssumption == Mortal \subseteq Handlers

VARIABLES
    claims,    \* revisions whose .claim file exists
    json,      \* published snapshots, at most one file per revision number
    pc,        \* where each handler is
    req,       \* the request each handler serves
    draft,     \* the successor snapshot each handler builds
    answers    \* definite answers that reached a caller

files == <<claims, json>>
vars == <<claims, json, pc, req, draft, answers>>

Receipt == [request : Requests, revision : Nat]
SnapshotId == [revision : Nat, request : Requests]
Snapshot ==
    [revision : Nat, request : Requests,
     previous : SnapshotId \cup {NoSnapshot}, receipts : SUBSET Receipt]
Answer == [request : Requests, outcome : {"ok", "stale"}, revision : Nat]

PcState == {"idle", "get", "update", "commit", "claim", "wait", "winner",
            "publish", "return"}

-----------------------------------------------------------------------------
(* The store as its readers see it. *)

(* The snapshot id is derived from the revision and the request. *)
IdOf(s) == [revision |-> s.revision, request |-> s.request]

(* Mutant: the claim files are not looked at. *)
UnpublishedClaimIgnored == FALSE

(* A claim above every published revision: get refuses to answer. *)
UnpublishedClaim == \E n \in claims : \A s \in json : s.revision < n

(* The highest published revision; get returns it. *)
IsHead(s) ==
    /\ ~UnpublishedClaim
    /\ s \in json
    /\ \A t \in json : t.revision <= s.revision

Absent == json = {} /\ ~UnpublishedClaim

(* Mutant: a receipt is looked up by the whole request. *)
KnownByRequest(s, r) == \E c \in s.receipts : c.request = r

(* The command id already has a receipt. *)
Known(s, r) == \E c \in s.receipts : c.request.id = r.id

Receipts(r, n) ==
    IF r.kind = "seed" THEN {} ELSE {[request |-> r, revision |-> n]}

InitialSnapshot(r) ==
    [revision |-> 1, request |-> r, previous |-> NoSnapshot,
     receipts |-> Receipts(r, 1)]

Successor(s, r) ==
    [revision |-> s.revision + 1, request |-> r, previous |-> IdOf(s),
     receipts |-> s.receipts \cup Receipts(r, s.revision + 1)]

-----------------------------------------------------------------------------
Init ==
    /\ claims = {}
    /\ json = {}
    /\ pc = [p \in Handlers |-> "idle"]
    /\ req = [p \in Handlers |-> NoRequest]
    /\ draft = [p \in Handlers |-> NoSnapshot]
    /\ answers = {}

Goto(p, label) ==
    /\ pc' = [pc EXCEPT ![p] = label]
    /\ UNCHANGED <<req, draft>>

(* Mutant: the handler's slot is freed but not its label. *)
FinishKeepsLabel(p) ==
    /\ req' = [req EXCEPT ![p] = NoRequest]
    /\ draft' = [draft EXCEPT ![p] = NoSnapshot]
    /\ UNCHANGED pc

(* The invocation ends; an error answer or a lost answer leaves no trace. *)
Finish(p) ==
    /\ pc' = [pc EXCEPT ![p] = "idle"]
    /\ req' = [req EXCEPT ![p] = NoRequest]
    /\ draft' = [draft EXCEPT ![p] = NoSnapshot]

FinishWith(p, outcome, n) ==
    /\ answers' = answers \cup
          {[request |-> req[p], outcome |-> outcome, revision |-> n]}
    /\ Finish(p)

(* A caller submits a request; it may submit the same one again, from any  *)
(* process, whether or not an earlier attempt was answered.                *)
Invoke(p, r) ==
    /\ pc[p] = "idle"
    /\ pc' = [pc EXCEPT ![p] = "get"]
    /\ req' = [req EXCEPT ![p] = r]
    /\ UNCHANGED <<claims, json, draft, answers>>

(* store.get throws while the highest claim is unpublished.  The same read *)
(* inside store.commit sends the handler to the winner's branch.           *)
GetFailsClosed(p) ==
    /\ UnpublishedClaim
    /\ \/ pc[p] \in {"get", "winner"} /\ Finish(p)
       \/ pc[p] = "commit" /\ Goto(p, "winner")
    /\ UNCHANGED <<claims, json, answers>>

(* project_not_found, and the winner's branch that finds no project. *)
NotFound(p) ==
    /\ pc[p] \in {"get", "winner"}
    /\ Absent
    /\ pc[p] = "get" => req[p].kind = "mutate"
    /\ Finish(p)
    /\ UNCHANGED <<claims, json, answers>>

(* Mutant: the fingerprint of the request is not compared. *)
ReplayById(p) ==
    /\ pc[p] \in {"get", "winner"}
    /\ req[p].kind # "seed"
    /\ \E s \in json :
          /\ IsHead(s)
          /\ \E c \in s.receipts :
                c.request.id = req[p].id /\ FinishWith(p, "ok", c.revision)
    /\ UNCHANGED files

(* The command id has a receipt: the same request is answered with the     *)
(* revision it produced, any other request is a command_id_conflict.       *)
Replay(p) ==
    /\ pc[p] \in {"get", "winner"}
    /\ req[p].kind # "seed"
    /\ \E s \in json :
          /\ IsHead(s)
          /\ \E c \in s.receipts :
                /\ c.request.id = req[p].id
                /\ IF /\ c.request = req[p]
                      /\ \E t \in json : t.revision = c.revision /\ t.request = c.request
                   THEN FinishWith(p, "ok", c.revision)
                   ELSE Finish(p) /\ UNCHANGED answers
    /\ UNCHANGED files

(* stale_revision, before the draft is built or after a lost commit. *)
StaleRevision(p) ==
    /\ pc[p] \in {"get", "winner"}
    /\ req[p].kind = "mutate"
    /\ \E s \in json :
          /\ IsHead(s)
          /\ ~Known(s, req[p])
          /\ pc[p] = "get" => s.revision # req[p].expected
          /\ FinishWith(p, "stale", s.revision)
    /\ UNCHANGED files

(* A start or a seed meets a project that exists, or was just created. *)
AlreadyExists(p) ==
    /\ pc[p] \in {"get", "winner"}
    /\ req[p].kind # "mutate"
    /\ \E s \in json :
          /\ IsHead(s)
          /\ req[p].kind = "start" => ~Known(s, req[p])
    /\ Finish(p)
    /\ UNCHANGED <<claims, json, answers>>

(* The first revision goes to createInitial, which reads nothing again. *)
DraftInitial(p) ==
    /\ pc[p] = "get"
    /\ req[p].kind # "mutate"
    /\ Absent
    /\ draft' = [draft EXCEPT ![p] = InitialSnapshot(req[p])]
    /\ pc' = [pc EXCEPT ![p] = "claim"]
    /\ UNCHANGED <<claims, json, req, answers>>

(* A mutation clones the revision it expects and extends the clone. *)
DraftSuccessor(p) ==
    /\ pc[p] = "get"
    /\ req[p].kind = "mutate"
    /\ \E s \in json :
          /\ IsHead(s)
          /\ ~Known(s, req[p])
          /\ s.revision = req[p].expected
          /\ draft' = [draft EXCEPT ![p] = Successor(s, req[p])]
    /\ pc' = [pc EXCEPT ![p] = "update"]
    /\ UNCHANGED <<claims, json, req, answers>>

(* `await update(draft)`: the domain accepts the command. *)
UpdateAccepted(p) ==
    /\ pc[p] = "update"
    /\ Goto(p, "commit")
    /\ UNCHANGED <<claims, json, answers>>

(* The domain, the clock or the successor check refuses the command. *)
Refuse(p) ==
    /\ pc[p] \in {"update", "commit"}
    /\ Finish(p)
    /\ UNCHANGED <<claims, json, answers>>

(* store.commit reads the head again and compares revision and snapshot id *)
(* with what the draft extends.                                            *)
Commit(p) ==
    /\ pc[p] = "commit"
    /\ \E s \in json :
          /\ IsHead(s)
          /\ Goto(p, IF draft[p].previous = IdOf(s) THEN "claim" ELSE "winner")
    /\ UNCHANGED <<claims, json, answers>>

(* Mutant: the claim file is opened with create instead of createNew. *)
ClaimOverwrites(p) ==
    /\ pc[p] = "claim"
    /\ claims' = claims \cup {draft[p].revision}
    /\ Goto(p, "publish")
    /\ UNCHANGED <<json, answers>>

(* writeExclusive: createNew on the claim file decides between processes. *)
Claim(p) ==
    /\ pc[p] = "claim"
    /\ \/ /\ draft[p].revision \notin claims
          /\ claims' = claims \cup {draft[p].revision}
          /\ Goto(p, "publish")
       \/ /\ draft[p].revision \in claims
          /\ UNCHANGED claims
          /\ Goto(p, "wait")
    /\ UNCHANGED <<json, answers>>

(* Mutant: a handler that waited long enough takes the claim over. *)
StopWaitingTakesOver(p) ==
    /\ pc[p] = "wait"
    /\ Goto(p, "publish")
    /\ UNCHANGED <<claims, json, answers>>

(* waitUntilPublished gives up after its polls, published or not. *)
StopWaiting(p) ==
    /\ pc[p] = "wait"
    /\ Goto(p, "winner")
    /\ UNCHANGED <<claims, json, answers>>

(* Mutant: the pending file is never renamed. *)
PublishWithoutRename(p) ==
    /\ pc[p] = "publish"
    /\ Goto(p, "return")
    /\ UNCHANGED <<claims, json, answers>>

(* The pending file is invisible to every reader; the rename publishes and *)
(* would replace a file of the same name.                                  *)
Publish(p) ==
    /\ pc[p] = "publish"
    /\ json' = {s \in json : s.revision # draft[p].revision} \cup {draft[p]}
    /\ Goto(p, "return")
    /\ UNCHANGED <<claims, answers>>

(* The committed snapshot is returned to the caller; a seed has none. *)
Return(p) ==
    /\ pc[p] = "return"
    /\ IF req[p].kind = "seed"
       THEN Finish(p) /\ UNCHANGED answers
       ELSE FinishWith(p, "ok", draft[p].revision)
    /\ UNCHANGED files

(* The process dies, or a file operation fails, before the handler ends. *)
Crash(p) ==
    /\ p \in Mortal
    /\ pc[p] # "idle"
    /\ Finish(p)
    /\ UNCHANGED <<claims, json, answers>>

Step(p) ==
    \/ GetFailsClosed(p) \/ NotFound(p) \/ Replay(p) \/ StaleRevision(p)
    \/ AlreadyExists(p) \/ DraftInitial(p) \/ DraftSuccessor(p)
    \/ UpdateAccepted(p) \/ Refuse(p) \/ Commit(p) \/ Claim(p)
    \/ StopWaiting(p) \/ Publish(p) \/ Return(p)

Next ==
    \E p \in Handlers :
        \/ \E r \in Requests : Invoke(p, r)
        \/ Step(p)
        \/ Crash(p)

Spec == Init /\ [][Next]_vars

(* A running handler is never starved: every await in it is a local file   *)
(* operation or a 2 ms timer.                                              *)
FairSpec == Spec /\ \A p \in Handlers : WF_vars(Step(p))

-----------------------------------------------------------------------------
(* Properties. *)

(* Every variable keeps its shape; a handler that runs has a request and,  *)
(* from the moment it builds a successor, a draft of that request.         *)
TypeOK ==
    /\ claims \subseteq Nat
    /\ json \subseteq Snapshot
    /\ pc \in [Handlers -> PcState]
    /\ req \in [Handlers -> Requests \cup {NoRequest}]
    /\ draft \in [Handlers -> Snapshot \cup {NoSnapshot}]
    /\ answers \subseteq Answer
    /\ \A p \in Handlers : pc[p] # "idle" => req[p] \in Requests
    /\ \A p \in Handlers :
          pc[p] \in {"update", "commit", "claim", "wait", "winner", "publish", "return"}
             => draft[p] \in Snapshot /\ draft[p].request = req[p]

(* No update is lost: there is one file per revision number, and each one  *)
(* is exactly its predecessor plus the receipt of one request, although    *)
(* several processes draft successors of the same revision.                *)
RevisionChain ==
    /\ \A s, t \in json : s.revision = t.revision => s = t
    /\ \A s \in json :
          \/ s = InitialSnapshot(s.request)
          \/ \E t \in json : s = Successor(t, s.request)

(* A command id has at most one receipt, however often and from however    *)
(* many processes its request, or another request that reuses the id, is   *)
(* submitted.                                                              *)
AtMostOnce ==
    \A s \in json : \A c, d \in s.receipts :
        c.request.id = d.request.id => c = d

(* A successful answer names a revision that is published and whose        *)
(* receipt is kept by every later revision.                                *)
AcknowledgedIsDurable ==
    \A a \in answers : a.outcome = "ok" =>
        /\ \E s \in json : s.revision = a.revision /\ s.request = a.request
        /\ \A s \in json : s.revision >= a.revision =>
              [request |-> a.request, revision |-> a.revision] \in s.receipts

(* A caller that was told stale_revision for a revision that exists can    *)
(* plan again: the request it gave up, and every retry of it still under   *)
(* way in another process, is never applied.                               *)
StaleIsFinal ==
    \A a \in answers :
        a.outcome = "stale" /\ a.request.expected <= a.revision =>
            \A s \in json : s.request # a.request

(* A published revision is never rewritten or removed. *)
PublishedIsImmutable == [][json \subseteq json']_json

(* A claim whose writer died: get and commit fail closed for good, no later *)
(* handler takes the claim over or publishes beside it.                     *)
Orphaned == UnpublishedClaim /\ \A p \in Handlers : pc[p] # "publish"

OrphanFailsClosed == [][Orphaned => Orphaned' /\ UNCHANGED files]_vars

(* The window in which get fails closed ends: a handler that does not die  *)
(* publishes the claim it made, whatever becomes of the other processes.   *)
ClaimsResolve ==
    \A p \in Handlers \ Mortal :
        pc[p] = "publish" ~> ~UnpublishedClaim

(* The handlers and the files implement the atomic log. *)
HeadRevision ==
    IF json = {} THEN 0
    ELSE CHOOSE n \in {s.revision : s \in json} : \A s \in json : s.revision <= n

Log == INSTANCE ProjectLog WITH
    head <- HeadRevision,
    log <- UNION {s.receipts : s \in json},
    answered <- answers

(* Every step of a handler is one step of ProjectLog or invisible to it:   *)
(* commits and answers are atomic although they take many file operations. *)
ImplementsLog == Log!Spec
=============================================================================
