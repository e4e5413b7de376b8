--------------------------- MODULE ProjectLedger ----------------------------
(***************************************************************************)
(* The content of an engineering project: its plan, human decisions, agent *)
(* runs and declared thread snapshots, and the commands that change them.  *)
(*                                                                         *)
(* A command is atomic here: ProjectRevisionStore shows that several       *)
(* processes applying commands produce one log of applied requests.        *)
(* Between two commands anything may happen, in any process, and a run     *)
(* whose executor died stays where its last command left it.               *)
(*                                                                         *)
(* Every command builds a draft, validates the whole draft and commits it  *)
(* as an extension of the current revision; a draft that fails either      *)
(* check is refused.  Successor states that the checks refuse are excluded *)
(* by ValidSuccessor, a conjunct of every command.                         *)
(*                                                                         *)
(* Texts, timestamps, actors, fingerprints and gate claims are left out.   *)
(* What each work item may be planned with (its operation, dependencies,   *)
(* decisions and predecessor revision) is constant; which of them a plan   *)
(* or a change declares is an input of the command.                        *)
(***************************************************************************)
EXTENDS Naturals

CONSTANTS
    WorkItems, Runs, Decisions,
    Operation,      \* the kind of operation a work item registers
    DependsOn,      \* dependsOnWorkItemIds
    DecisionIds,    \* decisionIds
    Predecessor,    \* predecessorRevisionId, None for a root revision
    Additive,       \* items whose operation requires an additive change
    MaxRevision,    \* bound on thread revisions
    None

Operations == {"baseline", "writer", "unlisted", "reconcile", "impact"}

ASSUME PlanAssumption ==
    /\ Operation \in [WorkItems -> Operations]
    /\ DependsOn \in [WorkItems -> SUBSET WorkItems]
    /\ DecisionIds \in [WorkItems -> SUBSET Decisions]
    /\ Predecessor \in [WorkItems -> WorkItems \cup {None}]
    /\ Additive \subseteq WorkItems
    /\ \A v, w \in WorkItems : v # w => DecisionIds[v] \cap DecisionIds[w] = {}
    /\ \A w \in WorkItems : Predecessor[w] # w

(* assertPlanDependenciesAreAcyclic *)
ASSUME AcyclicAssumption ==
    \A S \in SUBSET WorkItems :
        S # {} => \E w \in S : DependsOn[w] \cap S = {}

ASSUME IdsAssumption ==
    /\ MaxRevision \in Nat
    /\ Decisions \cap Runs = {}

VARIABLES
    work,        \* status of each work item, "absent" until declared
    superseded,  \* items whose successor reconciliation is recorded
    decision,    \* status of each decision; a run names its basis release
    proposal,    \* the uncertain write a decision's proposal resolves
    run,         \* the agent runs
    stored,      \* revisions durable in the thread snapshot store
    thread       \* revisions declared by the project

vars == <<work, superseded, decision, proposal, run, stored, thread>>

TerminalWork == {"completed", "cancelled", "abandoned"}
WorkStatus ==
    {"absent", "planned", "ready", "waiting-for-decision", "in-progress"}
        \cup TerminalWork
DecisionStatus ==
    {"none", "required", "proposed", "approved", "rejected", "abandoned"}
Executing == {"running", "publishing"}
ActiveRun == {"queued"} \cup Executing
TerminalRun == {"completed", "failed", "cancelled"}
Failure == {"plain", "uncertain", "local"}
Outcome == {"did-not-write", "accepted"}

ASSUME NoneAssumption == None \notin WorkItems \cup Failure \cup Outcome

AllDecisions == Decisions \cup Runs
Proposals == [target : Runs, outcome : Outcome] \cup {None}

(* basis 0 is the approved brief, basis n > 0 thread revision n; result 0   *)
(* is no result snapshot.                                                  *)
Run ==
    [status : {"absent"} \cup ActiveRun \cup TerminalRun,
     item : WorkItems \cup {None}, basis : Nat,
     failure : Failure \cup {None}, result : Nat, recon : Outcome \cup {None}]

NoRun == [status |-> "absent", item |-> None, basis |-> 0,
          failure |-> None, result |-> 0, recon |-> None]

-----------------------------------------------------------------------------
(* Reading the project. *)

Declared(w) == work[w] # "absent"

Head == IF thread = {} THEN 0
        ELSE CHOOSE n \in thread : \A k \in thread : k <= n

(* isActiveRunStatus, for some run of the item *)
HasActiveRun(w, rn) ==
    \E r \in Runs : rn[r].item = w /\ rn[r].status \in ActiveRun

DecisionsApproved(w, dec) == \A d \in DecisionIds[w] : dec[d] = "approved"

(* An accepted uncertain write blocks its item until the release. *)
BlockersResolved(w, dec, rn) ==
    \A r \in Runs :
        rn[r].item = w /\ rn[r].recon = "accepted" => dec[r] = "approved"

(* Completed, or cancelled with a successor that delivered the evidence. *)
DependenciesCompleted(w, wk, sup) ==
    \A v \in DependsOn[w] :
        wk[v] = "completed" \/ (wk[v] = "cancelled" /\ v \in sup)

(* Mutant: the dependencies are not looked at. *)
IsReadyWithoutDependencies(w, wk, sup, dec, rn) ==
    DecisionsApproved(w, dec) /\ BlockersResolved(w, dec, rn)

IsReady(w, wk, sup, dec, rn) ==
    /\ DecisionsApproved(w, dec)
    /\ BlockersResolved(w, dec, rn)
    /\ DependenciesCompleted(w, wk, sup)

AwaitsDecision(w, dec) ==
    \E d \in DecisionIds[w] : dec[d] \in {"required", "proposed", "rejected"}

NextIdleWorkStatus(w, wk, sup, dec, rn) ==
    IF IsReady(w, wk, sup, dec, rn) THEN "ready"
    ELSE IF AwaitsDecision(w, dec) THEN "waiting-for-decision"
    ELSE "planned"

RecomputeWorkReadiness(wk, sup, dec, rn) ==
    [w \in WorkItems |->
        IF wk[w] \in {"absent"} \cup TerminalWork \/ HasActiveRun(w, rn)
        THEN wk[w]
        ELSE NextIdleWorkStatus(w, wk, sup, dec, rn)]

-----------------------------------------------------------------------------
(* The checks every draft passes before it is committed. *)

(* Mutant: terminal work may be reopened. *)
TerminalWorkReopens == TRUE

(* work_terminal_reopened *)
TerminalWorkStays ==
    \A w \in WorkItems : work[w] \in TerminalWork => work'[w] = work[w]

(* work_item_not_ready and missing_decision *)
StatusJustified ==
    \A w \in WorkItems :
        /\ work'[w] = "ready" => IsReady(w, work', superseded', decision', run')
        /\ work'[w] = "waiting-for-decision" => AwaitsDecision(w, decision')

(* A run on the approved brief without a result is refused as soon as a     *)
(* thread snapshot is declared, whatever the status of the run.            *)
BriefRunsHaveResult ==
    \A r \in Runs :
        run'[r].status # "absent" /\ run'[r].basis = 0 /\ run'[r].result = 0
            => thread' = {}

ValidSuccessor ==
    TerminalWorkStays /\ StatusJustified /\ BriefRunsHaveResult

-----------------------------------------------------------------------------
Init ==
    /\ work = [w \in WorkItems |-> "absent"]
    /\ superseded = {}
    /\ decision = [d \in AllDecisions |-> "none"]
    /\ proposal = [d \in Decisions |-> None]
    /\ run = [r \in Runs |-> NoRun]
    /\ stored = {}
    /\ thread = {}

(* References of the declared items resolve; a new revision names an item  *)
(* of the project as its predecessor.                                      *)
ReferencesResolve(S, known) ==
    \A w \in S :
        /\ DependsOn[w] \subseteq known
        /\ Predecessor[w] \in known \cup {None}

(* Items and decisions as a plan or a change declares them; readiness is   *)
(* recomputed before the commit.                                           *)
DeclareWork(S, wk) ==
    [w \in WorkItems |->
        IF w \notin S THEN wk[w]
        ELSE IF DecisionIds[w] = {} THEN "planned" ELSE "waiting-for-decision"]

DeclareDecisions(S, dec) ==
    [d \in AllDecisions |->
        IF \E w \in S : d \in DecisionIds[w] THEN "required" ELSE dec[d]]

Declare(S, wk, dec) ==
    /\ decision' = DeclareDecisions(S, dec)
    /\ work' = RecomputeWorkReadiness(DeclareWork(S, wk), superseded, decision', run)

(* A plan may be replaced until a snapshot, a run, touched work or a       *)
(* concrete decision exists.                                               *)
PlanReplaceable ==
    /\ thread = {}
    /\ \A r \in Runs : run[r] = NoRun
    /\ \A w \in WorkItems : work[w] \notin {"in-progress", "completed", "cancelled"}
    /\ \A d \in AllDecisions : decision[d] \in {"none", "required"}

(* The initial plan cannot hold operations that need an additive change.   *)
PublishPlan(S) ==
    /\ S # {}
    /\ PlanReplaceable
    /\ S \cap Additive = {}
    /\ ReferencesResolve(S, S)
    /\ Declare(S, [w \in WorkItems |-> "absent"], [d \in AllDecisions |-> "none"])
    /\ UNCHANGED <<superseded, proposal, run, stored, thread>>
    /\ StatusJustified

(* A change is appended to a quiet project whose baseline has completed. *)
AppendChange(S) ==
    /\ S # {}
    /\ \E r \in Runs : run[r].status = "completed" /\ run[r].basis = 0
    /\ thread # {}
    /\ \A r \in Runs : run[r].status \notin ActiveRun
    /\ \A w \in S : ~Declared(w)
    /\ ReferencesResolve(S, S \cup {w \in WorkItems : Declared(w)})
    /\ Declare(S, work, decision)
    /\ UNCHANGED <<superseded, proposal, run, stored, thread>>
    /\ ValidSuccessor

-----------------------------------------------------------------------------
(* Human decisions. *)

(* The proposal names a declared snapshot, so none exists before the       *)
(* baseline has completed.                                                 *)
ProposeDecision(d, p) ==
    /\ decision[d] \in {"required", "rejected"}
    /\ thread # {}
    /\ decision' = [decision EXCEPT ![d] = "proposed"]
    /\ proposal' = IF d \in Decisions THEN [proposal EXCEPT ![d] = p] ELSE proposal
    /\ work' = RecomputeWorkReadiness(work, superseded, decision', run)
    /\ UNCHANGED <<superseded, run, stored, thread>>
    /\ ValidSuccessor

DecideDecision(d, status) ==
    /\ decision[d] = "proposed"
    /\ decision' = [decision EXCEPT ![d] = status]
    /\ work' = RecomputeWorkReadiness(work, superseded, decision', run)
    /\ UNCHANGED <<superseded, proposal, run, stored, thread>>
    /\ ValidSuccessor

(* Ready or waiting work without a run that was ever claimed, and any      *)
(* decisions still open; a pending approval is revoked with its decision.  *)
AbandonWorkItems(S, D) ==
    /\ S # {}
    /\ \A w \in S :
          /\ work[w] \in {"ready", "waiting-for-decision"}
          /\ \A r \in Runs : run[r].item = w => run[r].status = "cancelled"
    /\ \A d \in D : decision[d] \in {"required", "proposed"}
    /\ decision' = [d \in AllDecisions |-> IF d \in D THEN "abandoned" ELSE decision[d]]
    /\ work' = RecomputeWorkReadiness(
                  [w \in WorkItems |-> IF w \in S THEN "abandoned" ELSE work[w]],
                  superseded, decision', run)
    /\ UNCHANGED <<superseded, proposal, run, stored, thread>>
    /\ ValidSuccessor

-----------------------------------------------------------------------------
(* Agent runs. *)

(* Mutant: readiness is trusted without looking at the item's status. *)
QueueRunAnytime(r, w, b) ==
    /\ run[r] = NoRun
    /\ Declared(w) /\ work[w] \notin TerminalWork
    /\ b \in thread \cup {0}
    /\ run' = [run EXCEPT ![r] = [NoRun EXCEPT !.status = "queued", !.item = w, !.basis = b]]
    /\ work' = [work EXCEPT ![w] = "in-progress"]
    /\ UNCHANGED <<superseded, decision, proposal, stored, thread>>
    /\ ValidSuccessor

(* The approved brief is a basis for the baseline only, and only before    *)
(* the first snapshot; any declared revision is a basis for other work.    *)
QueueRun(r, w, b) ==
    /\ run[r] = NoRun
    /\ work[w] = "ready"
    /\ ~HasActiveRun(w, run)
    /\ DecisionsApproved(w, decision)
    /\ IF Operation[w] = "baseline" THEN b = 0 /\ thread = {} ELSE b \in thread
    /\ run' = [run EXCEPT ![r] = [NoRun EXCEPT !.status = "queued", !.item = w, !.basis = b]]
    /\ work' = [work EXCEPT ![w] = "in-progress"]
    /\ UNCHANGED <<superseded, decision, proposal, stored, thread>>
    /\ ValidSuccessor

(* A human cancels a run nobody has claimed. *)
CancelQueuedRun(r) ==
    /\ run[r].status = "queued"
    /\ run' = [run EXCEPT ![r].status = "cancelled"]
    /\ work' = RecomputeWorkReadiness(
                  [work EXCEPT ![run[r].item] =
                     NextIdleWorkStatus(run[r].item, work, superseded, decision, run)],
                  superseded, decision, run')
    /\ UNCHANGED <<superseded, decision, proposal, stored, thread>>
    /\ ValidSuccessor

(* THREAD_WRITE_OPERATIONS: the operations the basis guard knows. *)
ListedWriter(r) ==
    run[r].item # None /\ Operation[run[r].item] \in {"writer", "impact"}

(* Mutant: a reconciled write needs no release. *)
SiblingBlocksUntilReconciled(s) ==
    \/ run[s].status \in Executing \cup {"completed"}
    \/ /\ run[s].status = "failed"
       /\ \/ run[s].failure = "local"
          \/ run[s].failure = "uncertain" /\ run[s].recon = None

(* A sibling that executes, completed, or left a write whose outcome is    *)
(* unknown, not reconciled, or accepted and not released.                  *)
SiblingBlocks(s) ==
    \/ run[s].status \in Executing \cup {"completed"}
    \/ /\ run[s].status = "failed"
       /\ \/ run[s].failure = "local"
          \/ run[s].failure = "uncertain" /\ run[s].recon = None
          \/ run[s].recon = "accepted" /\ decision[s] # "approved"

(* Mutant: only the head is compared, siblings are not. *)
ClaimAllowedOnHead(r) == ListedWriter(r) => run[r].basis = Head

(* assertThreadWriteClaimAllowed: other operations pass through. *)
ClaimAllowed(r) ==
    ListedWriter(r) =>
        /\ run[r].basis = Head
        /\ \A s \in Runs \ {r} :
              ListedWriter(s) /\ run[s].basis = run[r].basis => ~SiblingBlocks(s)

ClaimRun(r) ==
    /\ run[r].status = "queued"
    /\ ClaimAllowed(r)
    /\ run' = [run EXCEPT ![r].status = "running"]
    /\ UNCHANGED <<work, superseded, decision, proposal, stored, thread>>
    /\ ValidSuccessor

PublishRun(r) ==
    /\ run[r].status = "running"
    /\ run' = [run EXCEPT ![r].status = "publishing"]
    /\ UNCHANGED <<work, superseded, decision, proposal, stored, thread>>
    /\ ValidSuccessor

(* An executor saves the successor of its basis; one snapshot per revision. *)
(* The impact decision is saved while its run is still queued, a closeout  *)
(* after the result it follows.                                            *)
SaveSnapshot(n) ==
    /\ n \notin stored
    /\ n <= MaxRevision
    /\ \E r \in Runs :
          \/ run[r].status \in Executing /\ n = run[r].basis + 1
          \/ /\ run[r].status = "queued" /\ n = run[r].basis + 1
             /\ Operation[run[r].item] = "impact"
          \/ run[r].status = "completed" /\ run[r].result > 0 /\ n = run[r].result + 1
    /\ stored' = stored \cup {n}
    /\ UNCHANGED <<work, superseded, decision, proposal, run, thread>>

(* Mutant: a result may be the basis itself. *)
ResultMayEqualBase(r, n) ==
    /\ n \in stored
    /\ n >= run[r].basis
    /\ run[r].basis = 0 => n = 1 /\ thread = {}

(* The result is durable and its chain of predecessors reaches the basis;  *)
(* on the approved brief it is the root and the project has none yet.      *)
ResultAdvancesBase(r, n) ==
    /\ n \in stored
    /\ n > run[r].basis
    /\ run[r].basis = 0 => n = 1 /\ thread = {}

(* Mutant: a result is declared without its completion. *)
CompletionKeepsStatus(r, n) ==
    /\ run' = [run EXCEPT ![r].result = n]
    /\ thread' = thread \cup {n}
    /\ work' = RecomputeWorkReadiness([work EXCEPT ![run[r].item] = "completed"],
                                      superseded, decision, run')

Completion(r, n) ==
    /\ run' = [run EXCEPT ![r].status = "completed", ![r].result = n]
    /\ thread' = thread \cup {n}
    /\ work' = RecomputeWorkReadiness([work EXCEPT ![run[r].item] = "completed"],
                                      superseded, decision, run')

CompleteRun(r, n) ==
    /\ run[r].status = "publishing"
    /\ ResultAdvancesBase(r, n)
    /\ Completion(r, n)
    /\ UNCHANGED <<superseded, decision, proposal, stored>>
    /\ ValidSuccessor

(* The item becomes idle again; other items are not recomputed. *)
FailRun(r, f) ==
    /\ run[r].status \in Executing
    /\ run' = [run EXCEPT ![r].status = "failed", ![r].failure = f]
    /\ work' = [work EXCEPT ![run[r].item] =
                  NextIdleWorkStatus(run[r].item, work, superseded, decision, run)]
    /\ UNCHANGED <<superseded, decision, proposal, stored, thread>>
    /\ ValidSuccessor

(* The human impact decision completes its queued run without a claim. *)
AcceptCrossDomainImpact(r, d, n) ==
    /\ run[r].status = "queued"
    /\ Operation[run[r].item] = "impact"
    /\ d \in DecisionIds[run[r].item] /\ decision[d] = "approved"
    /\ ResultAdvancesBase(r, n)
    /\ Completion(r, n)
    /\ UNCHANGED <<superseded, decision, proposal, stored>>
    /\ ValidSuccessor

-----------------------------------------------------------------------------
(* Recovery. *)

(* Mutant: the proposal's outcome is not compared with the command's. *)
ReconciliationOfAnyOutcome(q, r, d, o) ==
    /\ run[q].basis = run[r].basis /\ run[r].basis > 0
    /\ Operation[run[q].item] = "reconcile"
    /\ d \in DecisionIds[run[q].item]
    /\ decision[d] = "approved"
    /\ proposal[d] # None /\ proposal[d].target = r

(* An approved decision of the reconciliation run's item names the failed  *)
(* run, its basis, its failure code and the outcome.                       *)
ReconciliationApproved(q, r, d, o) ==
    /\ run[q].basis = run[r].basis /\ run[r].basis > 0
    /\ Operation[run[q].item] = "reconcile"
    /\ d \in DecisionIds[run[q].item]
    /\ decision[d] = "approved"
    /\ proposal[d] = [target |-> r, outcome |-> o]

(* A human resolves an uncertain write: the failed run is annotated, its    *)
(* item cancelled, an accepted write opens a blocker with its release      *)
(* decision, and the reconciliation run completes without a result.        *)
ReconcileAnnotationRun(q, r, d, o) ==
    /\ q # r
    /\ run[q].status = "queued"
    /\ run[r].status = "failed"
    /\ run[r].failure = "uncertain"
    /\ run[r].recon = None
    /\ ReconciliationApproved(q, r, d, o)
    /\ o = "accepted" => decision[r] = "none"
    /\ run' = [run EXCEPT ![r].recon = o, ![q].status = "completed"]
    /\ decision' = IF o = "accepted" THEN [decision EXCEPT ![r] = "required"] ELSE decision
    /\ work' = RecomputeWorkReadiness(
                  [work EXCEPT ![run[r].item] = "cancelled", ![run[q].item] = "completed"],
                  superseded, decision', run')
    /\ UNCHANGED <<superseded, proposal, stored, thread>>
    /\ ValidSuccessor

(* Mutant: the successor has been queued but not completed. *)
ReconcileWithQueuedSuccessor(w, r, s, closeout) ==
    /\ run[r].item = w
    /\ run[r].status \in {"failed", "cancelled"}
    /\ work[w] = "ready"
    /\ run[s].status = "queued"
    /\ Predecessor[run[s].item] = w
    /\ superseded' = superseded \cup {w}
    /\ work' = RecomputeWorkReadiness([work EXCEPT ![w] = "cancelled"],
                                      superseded', decision, run)
    /\ UNCHANGED <<decision, proposal, run, stored, thread>>
    /\ ValidSuccessor

(* The failed or cancelled run r of item w is superseded by the completed  *)
(* run s of w's successor revision; a closeout snapshot may follow it.     *)
ReconcileWithSuccessor(w, r, s, closeout) ==
    /\ run[r].item = w
    /\ run[r].status \in {"failed", "cancelled"}
    /\ \/ work[w] = "ready"
       \/ work[w] = "cancelled" /\ w \notin superseded /\ run[r].recon # None
    /\ run[s].status = "completed" /\ run[s].result > 0
    /\ run[s].result \in thread /\ run[s].basis \in thread
    /\ Predecessor[run[s].item] = w
    /\ Operation[run[s].item] = Operation[w]
    /\ work[run[s].item] = "completed"
    /\ IF closeout
       THEN /\ run[s].result = Head
            /\ run[s].result + 1 \in stored
            /\ thread' = thread \cup {run[s].result + 1}
       ELSE UNCHANGED thread
    /\ superseded' = superseded \cup {w}
    /\ work' = RecomputeWorkReadiness([work EXCEPT ![w] = "cancelled"],
                                      superseded', decision, run)
    /\ UNCHANGED <<decision, proposal, run, stored>>
    /\ ValidSuccessor

-----------------------------------------------------------------------------
Planning ==
    \E S \in SUBSET WorkItems : PublishPlan(S) \/ AppendChange(S)

(* The only items an abandoning command can name without being refused. *)
Abandonable == {w \in WorkItems : work[w] \in {"ready", "waiting-for-decision"}}

Deciding ==
    \/ \E d \in AllDecisions :
          \/ \E p \in Proposals : ProposeDecision(d, p)
          \/ \E status \in {"approved", "rejected"} : DecideDecision(d, status)
    \/ \E S \in SUBSET Abandonable, D \in SUBSET AllDecisions : AbandonWorkItems(S, D)

Running ==
    \/ \E n \in 1..MaxRevision : SaveSnapshot(n)
    \/ \E r \in Runs :
          \/ \E w \in WorkItems, b \in thread \cup {0} : QueueRun(r, w, b)
          \/ CancelQueuedRun(r) \/ ClaimRun(r) \/ PublishRun(r)
          \/ \E n \in stored : CompleteRun(r, n)
          \/ \E f \in Failure : FailRun(r, f)
          \/ \E d \in Decisions, n \in stored : AcceptCrossDomainImpact(r, d, n)

Recovering ==
    \E r, s \in Runs :
        \/ \E d \in Decisions, o \in Outcome : ReconcileAnnotationRun(s, r, d, o)
        \/ \E w \in WorkItems, c \in BOOLEAN : ReconcileWithSuccessor(w, r, s, c)

Next == Planning \/ Deciding \/ Running \/ Recovering

Spec == Init /\ [][Next]_vars

-----------------------------------------------------------------------------
(* Properties. *)

(* Every variable keeps its shape, and a run carries only the fields its   *)
(* status allows.                                                          *)
TypeOK ==
    /\ work \in [WorkItems -> WorkStatus]
    /\ superseded \subseteq WorkItems
    /\ decision \in [AllDecisions -> DecisionStatus]
    /\ proposal \in [Decisions -> Proposals]
    /\ run \in [Runs -> Run]
    /\ \A r \in Runs :
          /\ run[r].item = None <=> run[r].status = "absent"
          /\ run[r].status = "absent" => run[r] = NoRun
          /\ run[r].failure # None <=> run[r].status = "failed"
          /\ run[r].result # 0 => run[r].status = "completed"
          /\ run[r].recon # None => run[r].status = "failed"
    /\ stored \subseteq 1..MaxRevision
    /\ thread \subseteq 1..MaxRevision

(* A work item has at most one active run, whoever queued it; an item in   *)
(* progress has one, and an item with one is in progress unless an         *)
(* uncertain attempt of the same item was reconciled meanwhile.            *)
OneActiveRun ==
    /\ \A r, s \in Runs :
          /\ run[r].status \in ActiveRun /\ run[s].status \in ActiveRun
          /\ run[r].item = run[s].item
          => r = s
    /\ \A w \in WorkItems : work[w] = "in-progress" => HasActiveRun(w, run)
    /\ \A r \in Runs : run[r].status \in ActiveRun =>
          \/ work[run[r].item] = "in-progress"
          \/ /\ work[run[r].item] = "cancelled"
             /\ \E s \in Runs : run[s].item = run[r].item /\ run[s].recon # None

(* Whatever was ever queued had, and keeps, every decision of its item     *)
(* approved by a human and every dependency delivered: no later rejection, *)
(* abandonment or recovery takes the ground away from under a run.         *)
RunsAreAuthorised ==
    \A r \in Runs : run[r].status # "absent" =>
        /\ \A d \in DecisionIds[run[r].item] : decision[d] = "approved"
        /\ \A w \in DependsOn[run[r].item] : work[w] = "completed" \/ w \in superseded

(* Finished work rests on evidence: a completed item has a completed run   *)
(* whose result is declared (or a reconciliation, which has none), and a   *)
(* superseded item has a successor revision completed that way.            *)
FinishedWorkHasEvidence ==
    /\ \A w \in WorkItems : work[w] = "completed" =>
          \E r \in Runs :
             /\ run[r].item = w /\ run[r].status = "completed"
             /\ run[r].result \in thread \/ Operation[w] = "reconcile"
    /\ \A w \in superseded :
          /\ work[w] = "cancelled"
          /\ \E r, s \in Runs :
                /\ run[r].item = w /\ run[r].status \in {"failed", "cancelled"}
                /\ run[s].status = "completed" /\ run[s].result \in thread
                /\ Predecessor[run[s].item] = w

(* The thread is one line of revisions without gaps, at most one durable   *)
(* revision is ahead of it, every basis and result lies on it, and its     *)
(* root is the only result of a run on the approved brief.                 *)
ThreadIsLinear ==
    /\ thread = 1..Head
    /\ thread \subseteq stored /\ stored \subseteq 1..(Head + 1)
    /\ \A r \in Runs :
          /\ run[r].basis \in thread \cup {0}
          /\ run[r].result # 0 => run[r].result \in thread /\ run[r].result > run[r].basis
    /\ \A r, s \in Runs :
          /\ run[r].result # 0 /\ run[r].basis = 0
          /\ run[s].result # 0 /\ run[s].basis = 0
          => r = s

(* Two listed writers never execute on the same basis: one revision has    *)
(* one legal successor, so the loser's work would be thrown away.          *)
SingleWriterPerBasis ==
    \A r, s \in Runs :
        /\ ListedWriter(r) /\ run[r].status \in Executing
        /\ ListedWriter(s) /\ run[s].status \in Executing
        /\ run[r].basis = run[s].basis
        => r = s

(* No listed writer executes on a basis with a write of unknown outcome:   *)
(* every uncertain write there was reconciled by a human, and released if  *)
(* it was accepted, before the claim.                                      *)
QuarantineHolds ==
    \A r, s \in Runs :
        /\ ListedWriter(r) /\ run[r].status \in Executing
        /\ ListedWriter(s) /\ run[s].status = "failed"
        /\ run[r].basis = run[s].basis
        => /\ run[s].failure # "local"
           /\ run[s].failure = "uncertain" => run[s].recon # None
           /\ run[s].recon = "accepted" => decision[s] = "approved"

(* An uncertain write is resolved only through a completed reconciliation  *)
(* run on the same basis whose approved decision proposed that outcome for *)
(* that run, and the item it belonged to is closed.                        *)
ReconciliationHasAuthority ==
    \A r \in Runs : run[r].recon # None =>
        /\ run[r].status = "failed" /\ run[r].failure = "uncertain"
        /\ work[run[r].item] \in TerminalWork
        /\ run[r].recon = "accepted" => decision[r] # "none"
        /\ \E q \in Runs :
              /\ run[q].status = "completed" /\ run[q].basis = run[r].basis
              /\ Operation[run[q].item] = "reconcile"
              /\ \E d \in DecisionIds[run[q].item] :
                    /\ decision[d] = "approved"
                    /\ proposal[d] = [target |-> r, outcome |-> run[r].recon]

(* Once a run or a snapshot exists no command rewrites history: items stay *)
(* declared, terminal work and recorded successions stay, a finished run   *)
(* changes only by its one reconciliation, approvals and revisions stay.   *)
HistoryIsKept ==
    [][ (thread # {} \/ \E r \in Runs : run[r].status # "absent") =>
        /\ \A w \in WorkItems :
              /\ Declared(w) => work'[w] # "absent"
              /\ work[w] \in TerminalWork => work'[w] = work[w]
        /\ superseded \subseteq superseded'
        /\ \A r \in Runs : run[r].status \in TerminalRun =>
              /\ run'[r] = [run[r] EXCEPT !.recon = run'[r].recon]
              /\ run[r].recon # None => run'[r].recon = run[r].recon
        /\ \A d \in AllDecisions :
              decision[d] = "approved" => decision'[d] = "approved"
        /\ thread \subseteq thread' ]_vars

(* A baseline attempt that is publishing its durable root, with no other   *)
(* baseline attempt active, can be completed: a cancelled or failed first  *)
(* attempt leaves the item queueable and does not poison the retry.        *)
BaselineRetryCompletes ==
    \A r \in Runs :
        /\ run[r].status = "publishing" /\ run[r].basis = 0
        /\ 1 \in stored /\ thread = {}
        /\ \A s \in Runs \ {r} : run[s].status \notin ActiveRun
        => ENABLED CompleteRun(r, 1)

(* A run that is still queued can be cancelled by a human. *)
QueuedRunCancels ==
    \A r \in Runs : run[r].status = "queued" => ENABLED CancelQueuedRun(r)
=============================================================================
