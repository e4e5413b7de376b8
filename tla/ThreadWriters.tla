---------------------------- MODULE ThreadWriters ----------------------------
(***************************************************************************)
(* Executors that append a revision to one Thread: the lease of the basis, *)
(* the basis guard they call while they hold it, the snapshot store with   *)
(* its claim file per revision, and the run commands, in processes that    *)
(* die at any step and in invocations that retry the exact command.        *)
(*                                                                         *)
(* What an executor computes is left out: its successor is determined by   *)
(* its run, so a snapshot is named by the run that builds it.  Executors   *)
(* differ in two ways that matter here, and a team says how each run's     *)
(* executor does.  Listed runs have an operation of THREAD_WRITE_OPERATIONS.*)
(* The policy says when a run is failed for an error:                      *)
(*   "careful"  only in the invocation that claimed it, before the save    *)
(*              (RecordSealPreSizingWorksheetRunExecutor);                 *)
(*   "flag"     in any invocation that has not dispatched the save itself  *)
(*              (BuySealConfigurationCostRunExecutor);                     *)
(*   "eager"    always (VerifyEvaluateSensitivityBaseRunExecutor).         *)
(* An invocation in the model is a process; the lease is advisory and goes *)
(* back when its owner dies.  Commands are atomic (ProjectRevisionStore).  *)
(***************************************************************************)
EXTENDS Naturals

CONSTANTS
    Procs, Runs,
    Teams,       \* records [listed, policy]: which executors serve the runs
    MaxRevision, \* bound on Thread revisions
    MaxFaults,   \* bound on crashes and failing calls
    None

Policies == {"careful", "flag", "eager"}

ASSUME WritersAssumption ==
    /\ Teams \subseteq [listed : SUBSET Runs, policy : [Runs -> Policies]]
    /\ MaxRevision \in Nat \ {0} /\ MaxFaults \in Nat
    /\ None \notin Procs \cup Runs

VARIABLES
    team,    \* the executors of this deployment
    status,  \* status of each run in the project, "absent" until queued
    basis,   \* the Thread revision a run was queued on
    head,    \* highest declared revision
    claim,   \* .revision-<subject>-r<n>.claim: the snapshot it names
    doc,     \* the snapshot durable for each revision
    lease,   \* owner of the lease of each basis
    pc, job, \* where each process is, and the run it executes
    fresh,   \* the process found its run queued
    faults

project == <<status, basis, head>>
store == <<claim, doc>>
vars == <<team, project, store, lease, pc, job, fresh, faults>>

Revisions == 1..MaxRevision
Executing == {"running", "publishing"}
Status == {"absent", "queued", "completed", "failed"} \cup Executing
Saving == {"lookup", "link", "write"}
Attaching == {"publish", "complete"}
Leased == {"open", "work", "leave"} \cup Saving \cup Attaching

Init ==
    /\ team \in Teams
    /\ status = [r \in Runs |-> "absent"]
    /\ basis = [r \in Runs |-> 0]
    /\ head = 1
    /\ claim = [n \in Revisions |-> None]
    /\ doc = [n \in Revisions |-> None]
    /\ lease = [n \in Revisions |-> None]
    /\ pc = [p \in Procs |-> "idle"]
    /\ job = [p \in Procs |-> None]
    /\ fresh = [p \in Procs |-> FALSE]
    /\ faults = 0

-----------------------------------------------------------------------------
(* Steps of an invocation. *)

Goto(p, label) == pc' = [pc EXCEPT ![p] = label]
SetStatus(r, s) == status' = [status EXCEPT ![r] = s]
Successor(r) == basis[r] + 1

(* queueRun: on a declared revision, which may no longer be the head when  *)
(* the run is executed.                                                    *)
QueueRun(r) ==
    /\ status[r] = "absent"
    /\ \E n \in 1..head :
          /\ n < MaxRevision
          /\ basis' = [basis EXCEPT ![r] = n]
    /\ SetStatus(r, "queued")
    /\ UNCHANGED <<team, head, store, lease, pc, job, fresh, faults>>

(* execute reads the project before the lease; an ended run has nothing to *)
(* do.                                                                     *)
Execute(p, r) ==
    /\ pc[p] = "idle"
    /\ status[r] \in {"queued"} \cup Executing
    /\ job' = [job EXCEPT ![p] = r]
    /\ Goto(p, "wait")
    /\ UNCHANGED <<team, project, store, lease, fresh, faults>>

(* withLease(threadWriteBasisLeaseScope(run)) *)
Acquire(p) ==
    /\ pc[p] = "wait"
    /\ lease[basis[job[p]]] = None
    /\ lease' = [lease EXCEPT ![basis[job[p]]] = p]
    /\ Goto(p, "open")
    /\ UNCHANGED <<team, project, store, job, fresh, faults>>

Release(p) ==
    /\ lease' = [n \in Revisions |-> IF lease[n] = p THEN None ELSE lease[n]]
    /\ Goto(p, "idle")
    /\ job' = [job EXCEPT ![p] = None]
    /\ fresh' = [fresh EXCEPT ![p] = FALSE]

(* Mutant: an invocation that is done keeps its lease. *)
LeaveKeepsLease(p) ==
    /\ pc[p] = "leave"
    /\ Goto(p, "idle")
    /\ UNCHANGED <<project, store, lease, job, fresh, faults>>

Leave(p) ==
    /\ pc[p] = "leave"
    /\ Release(p)
    /\ UNCHANGED <<project, store, faults>>

(* Mutant: the guard does not look at siblings. *)
BasisAvailableDespiteSiblings(r) == basis[r] = head

(* assertThreadWriteBasisAvailable: unlisted siblings are skipped, and no  *)
(* failure recorded by these executors has a terminal-uncertain code.      *)
BasisAvailable(r) ==
    /\ basis[r] = head
    /\ \A s \in team.listed \ {r} :
          basis[s] = basis[r] => status[s] \notin Executing \cup {"completed"}

(* Under the lease: the project is read again, the guard refuses or the    *)
(* run is claimed, or claimed again by replay.  Nobody else moves a run of *)
(* this basis between the guard and the claim.                             *)
GuardAndClaim(p) ==
    LET r == job[p]
        admitted == status[r] \in {"queued"} \cup Executing /\ BasisAvailable(r)
    IN  /\ pc[p] = "open"
        /\ IF admitted
           THEN /\ fresh' = [fresh EXCEPT ![p] = status[r] = "queued"]
                /\ SetStatus(r, IF status[r] = "queued" THEN "running" ELSE status[r])
                /\ Goto(p, "work")
           ELSE /\ UNCHANGED <<status, fresh>>
                /\ Goto(p, "leave")
        /\ UNCHANGED <<basis, head, store, lease, job, faults>>

(* The executor reopens its inputs and builds the successor. *)
Work(p) ==
    /\ pc[p] = "work"
    /\ Goto(p, "lookup")
    /\ UNCHANGED <<project, store, lease, job, fresh, faults>>

(* Mutant: a careful executor fails the run in any invocation. *)
FailsRunOnRetry(p) ==
    CASE team.policy[job[p]] = "careful" -> pc[p] = "work"
      [] team.policy[job[p]] = "flag" -> pc[p] = "work"
      [] team.policy[job[p]] = "eager" -> TRUE

(* Whether the error handler of the invocation fails the run. *)
FailsRun(p) ==
    CASE team.policy[job[p]] = "careful" -> pc[p] = "work" /\ fresh[p]
      [] team.policy[job[p]] = "flag" -> pc[p] = "work"
      [] team.policy[job[p]] = "eager" -> TRUE

(* The catch block: fail the run or leave it for a retry. *)
Catch(p) ==
    /\ SetStatus(job[p], IF FailsRun(p) /\ status[job[p]] \in Executing
                         THEN "failed" ELSE status[job[p]])
    /\ Goto(p, "leave")
    /\ UNCHANGED <<basis, head, lease, job, fresh>>

(* Mutant: a snapshot of the same revision is taken for the run's own. *)
LookupAdopts(p) ==
    /\ pc[p] = "lookup"
    /\ Goto(p, IF doc[Successor(job[p])] = None THEN "link" ELSE "publish")
    /\ UNCHANGED <<project, store, lease, job, fresh, faults>>

(* save, first half: the exact document is there already, or another       *)
(* snapshot has the revision, or neither.                                  *)
Lookup(p) ==
    LET n == Successor(job[p])
    IN  /\ pc[p] = "lookup"
        /\ IF doc[n] \in {None, job[p]}
           THEN /\ Goto(p, IF doc[n] = None THEN "link" ELSE "publish")
                /\ UNCHANGED <<project, lease, job, fresh>>
           ELSE Catch(p)
        /\ UNCHANGED <<store, faults>>

(* claimRevision: the claim file is linked once and only its snapshot may  *)
(* go on, however often that snapshot is saved.                            *)
LinkClaim(p) ==
    LET n == Successor(job[p])
    IN  claim' = [claim EXCEPT ![n] = IF @ = None THEN job[p] ELSE @]

(* Mutant: an existing claim is ignored. *)
ClaimRevisionUnchecked(p) ==
    /\ pc[p] = "link"
    /\ LinkClaim(p)
    /\ Goto(p, "write")
    /\ UNCHANGED <<project, doc, lease, job, fresh, faults>>

(* Mutant: the claim file must not exist, not even for this snapshot. *)
ClaimRevisionOnce(p) ==
    LET n == Successor(job[p])
    IN  /\ pc[p] = "link"
        /\ LinkClaim(p)
        /\ IF claim[n] = None
           THEN Goto(p, "write") /\ UNCHANGED <<project, lease, job, fresh>>
           ELSE Catch(p)
        /\ UNCHANGED <<doc, faults>>

ClaimRevision(p) ==
    /\ pc[p] = "link"
    /\ LinkClaim(p)
    /\ IF claim'[Successor(job[p])] = job[p]
       THEN Goto(p, "write") /\ UNCHANGED <<project, lease, job, fresh>>
       ELSE Catch(p)
    /\ UNCHANGED <<doc, faults>>

LinkDoc(p) == doc' = [doc EXCEPT ![Successor(job[p])] = job[p]]

(* writeNewDurably of the document, and the fresh read back. *)
WriteDocument(p) ==
    /\ pc[p] = "write"
    /\ LinkDoc(p)
    /\ Goto(p, "publish")
    /\ UNCHANGED <<project, claim, lease, job, fresh, faults>>

PublishRun(p) ==
    /\ pc[p] = "publish"
    /\ SetStatus(job[p], "publishing")
    /\ Goto(p, "complete")
    /\ UNCHANGED <<basis, head, store, lease, job, fresh, faults>>

(* Mutant: the successor is declared and the run left publishing. *)
CompleteRunDeclaresOnly(p) ==
    /\ pc[p] = "complete"
    /\ head' = Successor(job[p])
    /\ Goto(p, "leave")
    /\ UNCHANGED <<status, basis, store, lease, job, fresh, faults>>

(* completeRun declares the successor, which must extend the thread. *)
CompleteRun(p) ==
    /\ pc[p] = "complete"
    /\ IF head = basis[job[p]]
       THEN /\ SetStatus(job[p], "completed")
            /\ head' = Successor(job[p])
            /\ Goto(p, "leave")
            /\ UNCHANGED <<basis, lease, job, fresh>>
       ELSE Catch(p)
    /\ UNCHANGED <<store, faults>>

-----------------------------------------------------------------------------
(* Failing calls and dying processes, MaxFaults of them. *)

Fault == faults < MaxFaults /\ faults' = faults + 1

WorkFails(p) ==
    /\ pc[p] = "work"
    /\ Fault
    /\ Catch(p)
    /\ UNCHANGED store

(* A read, link or directory sync fails; a link may have taken effect. *)
SaveFails(p) ==
    /\ pc[p] \in Saving
    /\ Fault
    /\ \/ UNCHANGED store
       \/ pc[p] = "link" /\ LinkClaim(p) /\ UNCHANGED doc
       \/ pc[p] = "write" /\ LinkDoc(p) /\ UNCHANGED claim
    /\ Catch(p)

AttachFails(p) ==
    /\ pc[p] \in Attaching
    /\ Fault
    /\ Catch(p)
    /\ UNCHANGED store

(* The process dies; the operating system returns its lease. *)
Crash(p) ==
    /\ pc[p] # "idle"
    /\ Fault
    /\ Release(p)
    /\ UNCHANGED <<project, store>>

-----------------------------------------------------------------------------
Step(p) ==
    /\ \/ GuardAndClaim(p) \/ Work(p) \/ Lookup(p) \/ ClaimRevision(p)
       \/ WriteDocument(p) \/ PublishRun(p) \/ CompleteRun(p) \/ Leave(p)
    /\ UNCHANGED team

Failure(p) ==
    /\ WorkFails(p) \/ SaveFails(p) \/ AttachFails(p) \/ Crash(p)
    /\ UNCHANGED team

Next ==
    \/ \E r \in Runs : QueueRun(r)
    \/ \E p \in Procs, r \in Runs : Execute(p, r)
    \/ \E p \in Procs : Acquire(p) \/ Step(p) \/ Failure(p)

Spec == Init /\ [][Next]_vars

(* A live process goes on; waiters for the lease are served in turn by the *)
(* operating system; a caller told to retry the exact command does so.     *)
Fairness ==
    /\ \A p \in Procs : WF_vars(Step(p)) /\ SF_vars(Acquire(p))
    /\ \A r \in Runs : SF_vars(\E p \in Procs : Execute(p, r))
LiveSpec == Spec /\ Fairness

-----------------------------------------------------------------------------
(* The shape of the project, the store, the leases and the processes.      *)
TypeOK ==
    /\ team \in Teams
    /\ status \in [Runs -> Status]
    /\ basis \in [Runs -> 0..MaxRevision]
    /\ \A r \in Runs : status[r] # "absent" => basis[r] \in 1..(MaxRevision - 1)
    /\ head \in Revisions
    /\ claim \in [Revisions -> Runs \cup {None}]
    /\ doc \in [Revisions -> Runs \cup {None}]
    /\ lease \in [Revisions -> Procs \cup {None}]
    /\ pc \in [Procs -> {"idle", "wait"} \cup Leased]
    /\ job \in [Procs -> Runs \cup {None}]
    /\ \A p \in Procs : pc[p] = "idle" <=> job[p] = None
    /\ fresh \in [Procs -> BOOLEAN]
    /\ faults \in 0..MaxFaults

(* One writer per basis, also across process death: while a listed run of  *)
(* a basis executes, no other run of that basis is claimed, although the   *)
(* dead writer's lease went back.  The exception is the unlisted run that  *)
(* was claimed first: the guard does not see it.                           *)
OneExecutingPerBasis ==
    \A r, s \in Runs :
        r # s /\ status[r] \in Executing /\ status[s] \in Executing
            /\ basis[r] = basis[s] => {r, s} \ team.listed # {}

(* The declared thread is backed: every declared successor is durable, was *)
(* written by the run that completed for it and on the revision before it. *)
DeclaredIsBacked ==
    \A n \in 2..head :
        /\ doc[n] \in Runs
        /\ status[doc[n]] = "completed"
        /\ basis[doc[n]] = n - 1

(* Nothing durable is abandoned: a revision that is claimed or written but *)
(* not declared belongs to a run that a retry of its command can still     *)
(* attach, unless its executor fails runs without caring what it saved, and *)
(* it is always the next revision of the thread.                           *)
NoOrphanRevision ==
    \A n \in Revisions :
        n > head /\ claim[n] # None =>
            /\ \/ status[claim[n]] \in Executing
               \/ team.policy[claim[n]] # "careful"
            /\ basis[claim[n]] = n - 1 /\ n = head + 1

(* A revision has one owner: the snapshot whose claim was linked first is  *)
(* the only one ever written for it, also when its writer died and an      *)
(* unblocked sibling executes on the same basis.                           *)
RevisionsHaveOneOwner ==
    \A n \in Revisions : doc[n] # None => claim[n] = doc[n]

(* The declared thread as a log of results. *)
Thread == INSTANCE ThreadLog WITH
    results <- [n \in 1..(head - 1) |-> doc[n + 1]],
    done <- {r \in Runs : status[r] = "completed"}

(* Whatever mixture of executors writes, their project and store together  *)
(* implement an append-only log of results.                                *)
ImplementsThreadLog == Thread!Spec

(* Every executor of the team is listed and fails no run it may have saved. *)
CarefulTeam ==
    team.listed = Runs /\ \A r \in Runs : team.policy[r] = "careful"

(* In a careful team retrying the exact command is enough: a claimed run   *)
(* ends, whoever dies in between.                                          *)
ClaimedRunEnds ==
    \A r \in Runs :
        (CarefulTeam /\ status[r] \in Executing)
            ~> (status[r] \in {"completed", "failed"})

(* And the next writer gets its turn: a run queued on the head is executed *)
(* or finds that the head has moved on.                                    *)
QueuedRunIsServed ==
    \A r \in Runs :
        (CarefulTeam /\ status[r] = "queued" /\ basis[r] = head)
            ~> (status[r] # "queued" \/ basis[r] # head)

(* The project, the thread store and the leases agree.                     *)
ThreadIsBacked ==
    /\ TypeOK /\ OneExecutingPerBasis
    /\ DeclaredIsBacked /\ NoOrphanRevision /\ RevisionsHaveOneOwner

(* In a careful team nobody waits for ever.                                *)
WritersAreServed == ClaimedRunEnds /\ QueuedRunIsServed
=============================================================================
