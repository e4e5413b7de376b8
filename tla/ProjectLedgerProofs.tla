------------------------ MODULE ProjectLedgerProofs -------------------------
(***************************************************************************)
(* Theorems about ProjectLedger, for every plan, every set of runs and     *)
(* decisions and every bound on thread revisions.                          *)
(***************************************************************************)
EXTENDS ProjectLedger, TLAPS

(* What TypeOK asks of one run. *)
WellFormed(x) ==
    /\ x.item = None <=> x.status = "absent"
    /\ x.status = "absent" => x = NoRun
    /\ x.failure # None <=> x.status = "failed"
    /\ x.result # 0 => x.status = "completed"
    /\ x.recon # None => x.status = "failed"

-----------------------------------------------------------------------------
(* Lemmas about the operators. *)

(* A status recomputed by nextIdleWorkStatus is one of the three idle ones. *)
LEMMA IdleStatus ==
    ASSUME NEW w, NEW wk, NEW sup, NEW dec, NEW rn
    PROVE  NextIdleWorkStatus(w, wk, sup, dec, rn)
               \in {"ready", "waiting-for-decision", "planned"}
  BY DEF NextIdleWorkStatus

(* recomputeWorkReadiness keeps statuses in their type, keeps undeclared    *)
(* and terminal items and items with an active run, and makes the others   *)
(* idle.                                                                   *)
LEMMA Recompute ==
    ASSUME NEW wk \in [WorkItems -> WorkStatus], NEW sup, NEW dec, NEW rn
    PROVE  LET R == RecomputeWorkReadiness(wk, sup, dec, rn) IN
           /\ R \in [WorkItems -> WorkStatus]
           /\ \A w \in WorkItems :
                 /\ wk[w] = "absent" <=> R[w] = "absent"
                 /\ wk[w] \in TerminalWork \/ R[w] \in TerminalWork => R[w] = wk[w]
                 /\ HasActiveRun(w, rn) => R[w] = wk[w]
                 /\ R[w] = "in-progress" => wk[w] = "in-progress" /\ HasActiveRun(w, rn)
  <1> DEFINE R == RecomputeWorkReadiness(wk, sup, dec, rn)
  <1>1. ASSUME NEW w \in WorkItems
        PROVE  /\ R[w] \in WorkStatus
               /\ wk[w] = "absent" <=> R[w] = "absent"
               /\ wk[w] \in TerminalWork \/ R[w] \in TerminalWork => R[w] = wk[w]
               /\ HasActiveRun(w, rn) => R[w] = wk[w]
               /\ R[w] = "in-progress" => wk[w] = "in-progress" /\ HasActiveRun(w, rn)
    <2> DEFINE idle == NextIdleWorkStatus(w, wk, sup, dec, rn)
               act == HasActiveRun(w, rn)
    <2>1. R[w] = IF wk[w] \in {"absent"} \cup TerminalWork \/ act THEN wk[w] ELSE idle
      BY DEF RecomputeWorkReadiness
    <2>2. idle \in {"ready", "waiting-for-decision", "planned"}
      BY IdleStatus
    <2>3. wk[w] \in WorkStatus
      OBVIOUS
    <2>4. act \in BOOLEAN
      BY DEF HasActiveRun
    <2> HIDE DEF R, idle, act
    <2>5. /\ R[w] \in WorkStatus
          /\ wk[w] = "absent" <=> R[w] = "absent"
          /\ wk[w] \in TerminalWork \/ R[w] \in TerminalWork => R[w] = wk[w]
          /\ act => R[w] = wk[w]
          /\ R[w] = "in-progress" => wk[w] = "in-progress" /\ act
      BY <2>1, <2>2, <2>3, <2>4 DEF WorkStatus, TerminalWork
    <2> QED
      BY <2>5 DEF act
  <1>2. R \in [WorkItems -> WorkStatus]
    BY <1>1 DEF RecomputeWorkReadiness
  <1> QED
    BY <1>1, <1>2

-----------------------------------------------------------------------------
(* Type correctness. *)

LEMMA RunType ==
    TypeOK => \A r \in Runs : run[r] \in Run /\ WellFormed(run[r])
  BY DEF TypeOK, WellFormed

(* Replacing one run by a well-formed one keeps the runs well formed. *)
LEMMA OneRunChanges ==
    ASSUME TypeOK, NEW r \in Runs, NEW x \in Run, WellFormed(x),
           run' = [run EXCEPT ![r] = x]
    PROVE  run' \in [Runs -> Run] /\ \A s \in Runs : WellFormed(run'[s])
  BY RunType DEF TypeOK

(* The runs part of the type invariant in terms of WellFormed. *)
LEMMA TypeFromParts ==
    ASSUME work' \in [WorkItems -> WorkStatus],
           superseded' \subseteq WorkItems,
           decision' \in [AllDecisions -> DecisionStatus],
           proposal' \in [Decisions -> Proposals],
           run' \in [Runs -> Run] /\ \A s \in Runs : WellFormed(run'[s]),
           stored' \subseteq 1..MaxRevision,
           thread' \subseteq 1..MaxRevision
    PROVE  TypeOK'
  BY DEF TypeOK, WellFormed

(* The runs are well formed after each command that changes them. *)
LEMMA QueuedRunType ==
    ASSUME TypeOK, NEW r \in Runs, NEW w \in WorkItems, NEW b \in thread \cup {0},
           QueueRun(r, w, b)
    PROVE  LET x == [NoRun EXCEPT !.status = "queued", !.item = w, !.basis = b] IN
           x \in Run /\ WellFormed(x) /\ run' = [run EXCEPT ![r] = x]
  <1>0. thread \subseteq 1..MaxRevision
    BY DEF TypeOK
  <1>1. b \in Nat
    BY <1>0, IdsAssumption
  <1>2. w # None
    BY NoneAssumption
  <1> QED
    BY <1>1, <1>2 DEF QueueRun, NoRun, Run, WellFormed, ActiveRun, Executing, TerminalRun

LEMMA StatusMoves ==
    ASSUME TypeOK, NEW r \in Runs, run[r].status \in ActiveRun,
           NEW st \in ActiveRun \cup {"cancelled", "completed"},
           run' = [run EXCEPT ![r].status = st]
    PROVE  LET x == [run[r] EXCEPT !.status = st] IN
           x \in Run /\ WellFormed(x) /\ run' = [run EXCEPT ![r] = x]
  <1>1. run[r] \in Run /\ WellFormed(run[r])
    BY RunType
  <1> QED
    BY <1>1 DEF Run, WellFormed, NoRun, ActiveRun, Executing, TerminalRun

LEMMA CompletionMoves ==
    ASSUME TypeOK, NEW r \in Runs, run[r].status \in ActiveRun,
           NEW n \in Nat, n # 0,
           run' = [run EXCEPT ![r].status = "completed", ![r].result = n]
    PROVE  LET x == [run[r] EXCEPT !.status = "completed", !.result = n] IN
           x \in Run /\ WellFormed(x) /\ run' = [run EXCEPT ![r] = x]
  <1>1. run[r] \in Run /\ WellFormed(run[r])
    BY RunType
  <1>2. run \in [Runs -> Run]
    BY DEF TypeOK
  <1> QED
    BY <1>1, <1>2 DEF Run, WellFormed, NoRun, ActiveRun, Executing, TerminalRun

LEMMA FailureMoves ==
    ASSUME TypeOK, NEW r \in Runs, run[r].status \in Executing, NEW f \in Failure,
           run' = [run EXCEPT ![r].status = "failed", ![r].failure = f]
    PROVE  LET x == [run[r] EXCEPT !.status = "failed", !.failure = f] IN
           x \in Run /\ WellFormed(x) /\ run' = [run EXCEPT ![r] = x]
  <1>1. run[r] \in Run /\ WellFormed(run[r])
    BY RunType
  <1>2. run \in [Runs -> Run]
    BY DEF TypeOK
  <1>3. f # None
    BY NoneAssumption
  <1> QED
    BY <1>1, <1>2, <1>3 DEF Run, WellFormed, NoRun, ActiveRun, Executing, TerminalRun

(* A recorded outcome and the completion of the run that recorded it. *)
LEMMA AnnotationMoves ==
    ASSUME TypeOK, NEW q \in Runs, NEW r \in Runs, NEW d \in Decisions, NEW o \in Outcome,
           ReconcileAnnotationRun(q, r, d, o)
    PROVE  LET x == [run[r] EXCEPT !.recon = o]
               y == [run[q] EXCEPT !.status = "completed"] IN
           /\ x \in Run /\ WellFormed(x) /\ y \in Run /\ WellFormed(y)
           /\ run' = [run EXCEPT ![r] = x, ![q] = y]
  <1>1. /\ run[r] \in Run /\ WellFormed(run[r])
        /\ run[q] \in Run /\ WellFormed(run[q])
    BY RunType
  <1>2. run \in [Runs -> Run]
    BY DEF TypeOK
  <1>3. q # r /\ run[q].status = "queued" /\ run[r].status = "failed"
        /\ run' = [run EXCEPT ![r].recon = o, ![q].status = "completed"]
    BY DEF ReconcileAnnotationRun
  <1>4. o # None
    BY NoneAssumption
  <1> QED
    BY <1>1, <1>2, <1>3, <1>4 DEF Run, WellFormed, NoRun, ActiveRun, Executing, TerminalRun

(* Every command keeps the type invariant. *)
LEMMA TypeStep ==
    TypeOK /\ [Next]_vars => TypeOK'
  <1> SUFFICES ASSUME TypeOK, [Next]_vars PROVE TypeOK'
    OBVIOUS
  <1>t. /\ work \in [WorkItems -> WorkStatus]
        /\ superseded \subseteq WorkItems
        /\ decision \in [AllDecisions -> DecisionStatus]
        /\ proposal \in [Decisions -> Proposals]
        /\ run \in [Runs -> Run] /\ \A s \in Runs : WellFormed(run[s])
        /\ stored \subseteq 1..MaxRevision
        /\ thread \subseteq 1..MaxRevision
    BY RunType DEF TypeOK
  <1>i. ASSUME NEW r \in Runs, run[r].status # "absent"
        PROVE  run[r].item \in WorkItems
    BY <1>i, <1>t DEF Run, WellFormed
  <1>s. \A st \in {"planned", "ready", "waiting-for-decision", "in-progress",
                   "completed", "cancelled", "abandoned", "absent"} : st \in WorkStatus
    BY DEF WorkStatus, TerminalWork
  <1>0. CASE UNCHANGED vars
    BY <1>0, <1>t, TypeFromParts DEF vars
  <1>1. ASSUME NEW S \in SUBSET WorkItems, PublishPlan(S) \/ AppendChange(S)
        PROVE  TypeOK'
    <2>1. PICK wk \in [WorkItems -> WorkStatus], dec \in [AllDecisions -> DecisionStatus] :
             Declare(S, wk, dec)
      BY <1>1, <1>t, <1>s DEF PublishPlan, AppendChange, DecisionStatus
    <2>2. decision' \in [AllDecisions -> DecisionStatus]
      BY <2>1 DEF Declare, DeclareDecisions, DecisionStatus
    <2>3. DeclareWork(S, wk) \in [WorkItems -> WorkStatus]
      BY <1>s DEF DeclareWork
    <2>4. work' \in [WorkItems -> WorkStatus]
      BY <2>1, <2>3, Recompute DEF Declare
    <2>5. UNCHANGED <<superseded, proposal, run, stored, thread>>
      BY <1>1 DEF PublishPlan, AppendChange
    <2> QED
      BY <1>t, <2>2, <2>4, <2>5, TypeFromParts
  <1>2. ASSUME NEW d \in AllDecisions, NEW p \in Proposals, ProposeDecision(d, p)
        PROVE  TypeOK'
    <2>1. decision' \in [AllDecisions -> DecisionStatus]
      BY <1>2, <1>t DEF ProposeDecision, DecisionStatus
    <2>2. proposal' \in [Decisions -> Proposals]
      BY <1>2, <1>t DEF ProposeDecision
    <2>3. work' \in [WorkItems -> WorkStatus]
      BY <1>2, <1>t, Recompute DEF ProposeDecision
    <2> QED
      BY <1>2, <1>t, <2>1, <2>2, <2>3, TypeFromParts DEF ProposeDecision
  <1>3. ASSUME NEW d \in AllDecisions, NEW status \in {"approved", "rejected"},
               DecideDecision(d, status)
        PROVE  TypeOK'
    <2>1. decision' \in [AllDecisions -> DecisionStatus]
      BY <1>3, <1>t DEF DecideDecision, DecisionStatus
    <2>3. work' \in [WorkItems -> WorkStatus]
      BY <1>3, <1>t, Recompute DEF DecideDecision
    <2> QED
      BY <1>3, <1>t, <2>1, <2>3, TypeFromParts DEF DecideDecision
  <1>4. ASSUME NEW S \in SUBSET WorkItems, NEW D \in SUBSET AllDecisions,
               AbandonWorkItems(S, D)
        PROVE  TypeOK'
    <2>1. decision' \in [AllDecisions -> DecisionStatus]
      BY <1>4, <1>t DEF AbandonWorkItems, DecisionStatus
    <2>2. [w \in WorkItems |-> IF w \in S THEN "abandoned" ELSE work[w]]
             \in [WorkItems -> WorkStatus]
      BY <1>t, <1>s
    <2>3. work' \in [WorkItems -> WorkStatus]
      BY <1>4, <2>2, Recompute DEF AbandonWorkItems
    <2> QED
      BY <1>4, <1>t, <2>1, <2>3, TypeFromParts DEF AbandonWorkItems
  <1>5. ASSUME NEW n \in 1..MaxRevision, SaveSnapshot(n)
        PROVE  TypeOK'
    BY <1>5, <1>t, TypeFromParts DEF SaveSnapshot
  <1>6. ASSUME NEW r \in Runs, NEW w \in WorkItems, NEW b \in thread \cup {0},
               QueueRun(r, w, b)
        PROVE  TypeOK'
    <2>1. run' \in [Runs -> Run] /\ \A s \in Runs : WellFormed(run'[s])
      BY <1>6, QueuedRunType, OneRunChanges
    <2>2. work' \in [WorkItems -> WorkStatus]
      BY <1>6, <1>t, <1>s DEF QueueRun
    <2> QED
      BY <1>6, <1>t, <2>1, <2>2, TypeFromParts DEF QueueRun
  <1>7. ASSUME NEW r \in Runs, CancelQueuedRun(r)
        PROVE  TypeOK'
    <2>0. run[r].status = "queued" /\ run' = [run EXCEPT ![r].status = "cancelled"]
      BY <1>7 DEF CancelQueuedRun
    <2>1. run' \in [Runs -> Run] /\ \A s \in Runs : WellFormed(run'[s])
      BY <2>0, StatusMoves, OneRunChanges DEF ActiveRun
    <2> DEFINE idle == NextIdleWorkStatus(run[r].item, work, superseded, decision, run)
    <2>2. [work EXCEPT ![run[r].item] = idle] \in [WorkItems -> WorkStatus]
      <3>1. idle \in WorkStatus
        BY IdleStatus, <1>s
      <3> QED
        BY <3>1, <1>t
    <2>3. work' \in [WorkItems -> WorkStatus]
      BY <1>7, <2>2, Recompute DEF CancelQueuedRun
    <2> QED
      BY <1>7, <1>t, <2>1, <2>3, TypeFromParts DEF CancelQueuedRun
  <1>8. ASSUME NEW r \in Runs, ClaimRun(r) \/ PublishRun(r)
        PROVE  TypeOK'
    <2>1. PICK st \in ActiveRun : run' = [run EXCEPT ![r].status = st]
      BY <1>8 DEF ClaimRun, PublishRun, ActiveRun, Executing
    <2>2. run[r].status \in ActiveRun
      BY <1>8 DEF ClaimRun, PublishRun, ActiveRun, Executing
    <2>3. run' \in [Runs -> Run] /\ \A s \in Runs : WellFormed(run'[s])
      BY <2>1, <2>2, StatusMoves, OneRunChanges
    <2> QED
      BY <1>8, <1>t, <2>3, TypeFromParts DEF ClaimRun, PublishRun
  <1>9. ASSUME NEW r \in Runs, NEW n \in stored,
               CompleteRun(r, n) \/ \E d \in Decisions : AcceptCrossDomainImpact(r, d, n)
        PROVE  TypeOK'
    <2>1. /\ run[r].status \in ActiveRun
          /\ Completion(r, n)
          /\ UNCHANGED <<superseded, decision, proposal, stored>>
      BY <1>9 DEF CompleteRun, AcceptCrossDomainImpact, ActiveRun, Executing
    <2>2. n \in 1..MaxRevision /\ n \in Nat /\ n # 0
      BY <1>t, IdsAssumption
    <2>3. run' \in [Runs -> Run] /\ \A s \in Runs : WellFormed(run'[s])
      BY <2>1, <2>2, CompletionMoves, OneRunChanges DEF Completion
    <2>4. [work EXCEPT ![run[r].item] = "completed"] \in [WorkItems -> WorkStatus]
      BY <1>t, <1>s
    <2>5. work' \in [WorkItems -> WorkStatus]
      BY <2>1, <2>4, Recompute DEF Completion
    <2>6. thread' \subseteq 1..MaxRevision
      BY <2>1, <2>2, <1>t DEF Completion
    <2> QED
      BY <1>t, <2>1, <2>3, <2>5, <2>6, TypeFromParts
  <1>10. ASSUME NEW r \in Runs, NEW f \in Failure, FailRun(r, f)
         PROVE  TypeOK'
    <2>1. run' \in [Runs -> Run] /\ \A s \in Runs : WellFormed(run'[s])
      BY <1>10, FailureMoves, OneRunChanges DEF FailRun
    <2>2. work' \in [WorkItems -> WorkStatus]
      <3> DEFINE idle == NextIdleWorkStatus(run[r].item, work, superseded, decision, run)
      <3>1. idle \in WorkStatus
        BY IdleStatus, <1>s
      <3>2. work' = [work EXCEPT ![run[r].item] = idle]
        BY <1>10 DEF FailRun
      <3> HIDE DEF idle
      <3> QED
        BY <3>1, <3>2, <1>t
    <2> QED
      BY <1>10, <1>t, <2>1, <2>2, TypeFromParts DEF FailRun
  <1>11. ASSUME NEW r \in Runs, NEW q \in Runs, NEW d \in Decisions, NEW o \in Outcome,
                ReconcileAnnotationRun(q, r, d, o)
         PROVE  TypeOK'
    <2>1. run' \in [Runs -> Run] /\ \A s \in Runs : WellFormed(run'[s])
      <3> DEFINE x == [run[r] EXCEPT !.recon = o]
                 y == [run[q] EXCEPT !.status = "completed"]
      <3>1. /\ x \in Run /\ WellFormed(x) /\ y \in Run /\ WellFormed(y)
            /\ run' = [run EXCEPT ![r] = x, ![q] = y]
        BY <1>11, AnnotationMoves
      <3> HIDE DEF x, y
      <3> QED
        BY <3>1, <1>t
    <2>2. decision' \in [AllDecisions -> DecisionStatus]
      BY <1>11, <1>t DEF ReconcileAnnotationRun, DecisionStatus
    <2> DEFINE wk == [work EXCEPT ![run[r].item] = "cancelled", ![run[q].item] = "completed"]
    <2>3. wk \in [WorkItems -> WorkStatus]
      BY <1>t, <1>s
    <2>4. work' \in [WorkItems -> WorkStatus]
      <3>1. work' = RecomputeWorkReadiness(wk, superseded, decision', run')
        BY <1>11 DEF ReconcileAnnotationRun
      <3> HIDE DEF wk
      <3> QED
        BY <2>3, <3>1, Recompute
    <2>5. UNCHANGED <<superseded, proposal, stored, thread>>
      BY <1>11 DEF ReconcileAnnotationRun
    <2> QED
      BY <1>t, <2>1, <2>2, <2>4, <2>5, TypeFromParts
  <1>12. ASSUME NEW r \in Runs, NEW s \in Runs, NEW w \in WorkItems, NEW c \in BOOLEAN,
                ReconcileWithSuccessor(w, r, s, c)
         PROVE  TypeOK'
    <2>1. [work EXCEPT ![w] = "cancelled"] \in [WorkItems -> WorkStatus]
      BY <1>t, <1>s
    <2>2. work' \in [WorkItems -> WorkStatus]
      BY <1>12, <2>1, Recompute DEF ReconcileWithSuccessor
    <2>3. thread' \subseteq 1..MaxRevision
      BY <1>12, <1>t DEF ReconcileWithSuccessor
    <2>4. superseded' \subseteq WorkItems
      BY <1>12, <1>t DEF ReconcileWithSuccessor
    <2> QED
      BY <1>12, <1>t, <2>2, <2>3, <2>4, TypeFromParts DEF ReconcileWithSuccessor
  <1> QED
    BY <1>0, <1>1, <1>2, <1>3, <1>4, <1>5, <1>6, <1>7, <1>8, <1>9, <1>10, <1>11, <1>12
    DEF Next, Planning, Deciding, Abandonable, Running, Recovering

LEMMA TypeInit == Init => TypeOK
  <1> SUFFICES ASSUME Init PROVE TypeOK
    OBVIOUS
  <1>1. NoRun \in Run
    BY IdsAssumption DEF NoRun, Run
  <1> QED
    BY <1>1 DEF Init, TypeOK, WorkStatus, DecisionStatus, Proposals, NoRun

(* Every value of the project keeps the shape the domain declares for it:  *)
(* statuses from their enumerations, and on a run only the fields its      *)
(* status allows, whatever commands are applied.                           *)
THEOREM LedgerTypeCorrect == Spec => []TypeOK
  BY TypeInit, TypeStep, PTL DEF Spec

-----------------------------------------------------------------------------
(* What no command but a plan replacement undoes. *)

(* An item is ready only while its decisions, blockers and dependencies    *)
(* allow it; runs belong to declared items; the decisions of an undeclared *)
(* item are untouched.                                                     *)
ReadyJustified ==
    \A w \in WorkItems :
        work[w] = "ready" => IsReady(w, work, superseded, decision, run)

RunsOfDeclaredItems ==
    \A r \in Runs : run[r].status # "absent" => Declared(run[r].item)

UndeclaredDecisions ==
    \A w \in WorkItems :
        ~Declared(w) => \A d \in DecisionIds[w] : decision[d] = "none"

Support == ReadyJustified /\ RunsOfDeclaredItems /\ UndeclaredDecisions

(* How a run may differ after a step: its item and basis are fixed when it *)
(* is queued, and a finished run changes only by its reconciliation.       *)
RunKept(x, y) ==
    /\ x.status # "absent" => y.item = x.item /\ y.basis = x.basis /\ y.status # "absent"
    /\ x.status \in TerminalRun =>
          /\ y = [x EXCEPT !.recon = y.recon]
          /\ x.recon # None => y.recon = x.recon

RunsKept == \A r \in Runs : RunKept(run[r], run'[r])

WorkKept ==
    \A w \in WorkItems :
        /\ Declared(w) => work'[w] # "absent"
        /\ work[w] \in TerminalWork => work'[w] = work[w]

DecisionsKept ==
    /\ \A d \in AllDecisions : decision[d] = "approved" => decision'[d] = "approved"
    /\ \A r \in Runs : decision[r] # "none" => decision'[r] # "none"
    /\ \A d \in Decisions : decision[d] = "approved" => proposal'[d] = proposal[d]

ThreadKept == superseded \subseteq superseded' /\ thread \subseteq thread'

Kept == RunsKept /\ WorkKept /\ DecisionsKept /\ ThreadKept

LEMMA SameRunKept ==
    ASSUME NEW x \in Run
    PROVE  RunKept(x, x)
  BY DEF Run, RunKept

(* A step that changes one run within these limits. *)
LEMMA OneRunKept ==
    ASSUME TypeOK, NEW r \in Runs, NEW x, run' = [run EXCEPT ![r] = x], RunKept(run[r], x)
    PROVE  RunsKept
  BY SameRunKept, RunType DEF RunsKept, TypeOK

LEMMA ActiveRunKept ==
    ASSUME NEW x \in Run, NEW y \in Run, x.status \in ActiveRun,
           y.item = x.item, y.basis = x.basis, y.status # "absent"
    PROVE  RunKept(x, y)
  BY DEF RunKept, ActiveRun, Executing, TerminalRun

(* The work part, for a step that recomputes readiness of wk. *)
LEMMA WorkKeptByRecompute ==
    ASSUME TypeOK, NEW wk \in [WorkItems -> WorkStatus],
           NEW sup, NEW dec, NEW rn,
           work' = RecomputeWorkReadiness(wk, sup, dec, rn),
           \A w \in WorkItems : Declared(w) => wk[w] # "absent",
           TerminalWorkStays
    PROVE  WorkKept
  BY Recompute DEF WorkKept, TerminalWorkStays

LEMMA KeptStep ==
    ASSUME TypeOK, Support, [Next]_vars,
           \A S \in SUBSET WorkItems : ~PublishPlan(S)
    PROVE  Kept
  <1>t. /\ work \in [WorkItems -> WorkStatus]
        /\ decision \in [AllDecisions -> DecisionStatus]
        /\ proposal \in [Decisions -> Proposals]
        /\ run \in [Runs -> Run] /\ \A s \in Runs : WellFormed(run[s])
    BY RunType DEF TypeOK
  <1>s. \A st \in {"planned", "ready", "waiting-for-decision", "in-progress",
                   "completed", "cancelled", "abandoned", "absent"} : st \in WorkStatus
    BY DEF WorkStatus, TerminalWork
  <1>q. run' = run => RunsKept
    BY <1>t, SameRunKept DEF RunsKept
  <1>d. UNCHANGED <<decision, proposal>> => DecisionsKept
    BY DEF DecisionsKept
  <1>h. UNCHANGED <<superseded, thread>> => ThreadKept
    BY DEF ThreadKept
  <1>w. work' = work => WorkKept
    BY DEF WorkKept, Declared
  <1>i. ASSUME NEW r \in Runs, run[r].status # "absent"
        PROVE  run[r].item \in WorkItems /\ run[r] \in Run
    BY <1>i, <1>t DEF Run, WellFormed
  <1>0. CASE UNCHANGED vars
    BY <1>0, <1>q, <1>d, <1>h, <1>w DEF vars, Kept
  <1>1. ASSUME NEW S \in SUBSET WorkItems, AppendChange(S)
        PROVE  Kept
    <2>1. /\ UNCHANGED <<superseded, proposal, run, stored, thread>>
          /\ decision' = DeclareDecisions(S, decision)
          /\ work' = RecomputeWorkReadiness(DeclareWork(S, work), superseded, decision', run)
          /\ \A w \in S : ~Declared(w)
          /\ TerminalWorkStays
      BY <1>1 DEF AppendChange, Declare, ValidSuccessor
    <2>2. \A w \in S : \A d \in DecisionIds[w] : d \in Decisions /\ decision[d] = "none"
      BY <2>1, PlanAssumption DEF Support, UndeclaredDecisions
    <2>3. DecisionsKept
      BY <2>1, <2>2, IdsAssumption DEF DecisionsKept, DeclareDecisions, AllDecisions
    <2>4. /\ DeclareWork(S, work) \in [WorkItems -> WorkStatus]
          /\ \A w \in WorkItems : Declared(w) => DeclareWork(S, work)[w] # "absent"
      BY <1>t, <1>s DEF DeclareWork, Declared
    <2>5. WorkKept
      BY <2>1, <2>4, WorkKeptByRecompute
    <2> QED
      BY <2>1, <2>3, <2>5, <1>q, <1>h DEF Kept
  <1>2. ASSUME NEW d \in AllDecisions, NEW p \in Proposals, ProposeDecision(d, p)
        PROVE  Kept
    <2>1. /\ UNCHANGED <<superseded, run, stored, thread>>
          /\ decision[d] \in {"required", "rejected"}
          /\ decision' = [decision EXCEPT ![d] = "proposed"]
          /\ proposal' = IF d \in Decisions THEN [proposal EXCEPT ![d] = p] ELSE proposal
          /\ work' = RecomputeWorkReadiness(work, superseded, decision', run)
          /\ TerminalWorkStays
      BY <1>2 DEF ProposeDecision, ValidSuccessor
    <2>2. DecisionsKept
      BY <2>1, <1>t DEF DecisionsKept, AllDecisions
    <2>3. WorkKept
      BY <2>1, <1>t, WorkKeptByRecompute DEF Declared
    <2> QED
      BY <2>1, <2>2, <2>3, <1>q, <1>h DEF Kept
  <1>3. ASSUME NEW d \in AllDecisions, NEW status \in {"approved", "rejected"},
               DecideDecision(d, status)
        PROVE  Kept
    <2>1. /\ UNCHANGED <<superseded, proposal, run, stored, thread>>
          /\ decision[d] = "proposed"
          /\ decision' = [decision EXCEPT ![d] = status]
          /\ work' = RecomputeWorkReadiness(work, superseded, decision', run)
          /\ TerminalWorkStays
      BY <1>3 DEF DecideDecision, ValidSuccessor
    <2>2. DecisionsKept
      BY <2>1, <1>t DEF DecisionsKept, AllDecisions
    <2>3. WorkKept
      BY <2>1, <1>t, WorkKeptByRecompute DEF Declared
    <2> QED
      BY <2>1, <2>2, <2>3, <1>q, <1>h DEF Kept
  <1>4. ASSUME NEW S \in SUBSET WorkItems, NEW D \in SUBSET AllDecisions,
               AbandonWorkItems(S, D)
        PROVE  Kept
    <2> DEFINE wk == [w \in WorkItems |-> IF w \in S THEN "abandoned" ELSE work[w]]
    <2>1. /\ UNCHANGED <<superseded, proposal, run, stored, thread>>
          /\ \A d \in D : decision[d] \in {"required", "proposed"}
          /\ decision' = [d \in AllDecisions |-> IF d \in D THEN "abandoned" ELSE decision[d]]
          /\ work' = RecomputeWorkReadiness(wk, superseded, decision', run)
          /\ TerminalWorkStays
      BY <1>4 DEF AbandonWorkItems, ValidSuccessor
    <2>2. DecisionsKept
      BY <2>1, <1>t DEF DecisionsKept, AllDecisions
    <2>3. wk \in [WorkItems -> WorkStatus] /\ \A w \in WorkItems : Declared(w) => wk[w] # "absent"
      BY <1>t, <1>s DEF Declared
    <2> HIDE DEF wk
    <2>4. WorkKept
      BY <2>1, <2>3, WorkKeptByRecompute
    <2> QED
      BY <2>1, <2>2, <2>4, <1>q, <1>h DEF Kept
  <1>5. ASSUME NEW n \in 1..MaxRevision, SaveSnapshot(n)
        PROVE  Kept
    BY <1>5, <1>q, <1>d, <1>h, <1>w DEF SaveSnapshot, Kept
  <1>6. ASSUME NEW r \in Runs, NEW w \in WorkItems, NEW b \in thread \cup {0},
               QueueRun(r, w, b)
        PROVE  Kept
    <2>1. /\ UNCHANGED <<superseded, decision, proposal, stored, thread>>
          /\ run[r] = NoRun
          /\ work' = [work EXCEPT ![w] = "in-progress"]
          /\ TerminalWorkStays
      BY <1>6 DEF QueueRun, ValidSuccessor
    <2>2. RunsKept
      <3>1. PICK x \in Run : run' = [run EXCEPT ![r] = x]
        BY <1>6, QueuedRunType
      <3>2. RunKept(run[r], x)
        BY <2>1 DEF RunKept, NoRun, TerminalRun
      <3> QED
        BY <3>1, <3>2, OneRunKept
    <2>3. WorkKept
      BY <2>1, <1>t DEF WorkKept, TerminalWorkStays, Declared
    <2> QED
      BY <2>1, <2>2, <2>3, <1>d, <1>h DEF Kept
  <1>7. ASSUME NEW r \in Runs, CancelQueuedRun(r)
        PROVE  Kept
    <2> DEFINE idle == NextIdleWorkStatus(run[r].item, work, superseded, decision, run)
               wk == [work EXCEPT ![run[r].item] = idle]
    <2>1. /\ UNCHANGED <<superseded, decision, proposal, stored, thread>>
          /\ run[r].status = "queued"
          /\ run' = [run EXCEPT ![r].status = "cancelled"]
          /\ work' = RecomputeWorkReadiness(wk, superseded, decision, run')
          /\ TerminalWorkStays
      BY <1>7 DEF CancelQueuedRun, ValidSuccessor
    <2>2. RunsKept
      <3> DEFINE x == [run[r] EXCEPT !.status = "cancelled"]
      <3>1. x \in Run /\ run' = [run EXCEPT ![r] = x]
        BY <2>1, StatusMoves DEF ActiveRun
      <3>2. run[r].status \in ActiveRun /\ run[r] \in Run
        BY <2>1, <1>i DEF ActiveRun, Executing
      <3>3. x.item = run[r].item /\ x.basis = run[r].basis /\ x.status # "absent"
        BY <3>2 DEF Run, ActiveRun, Executing
      <3> HIDE DEF x
      <3> QED
        BY <3>1, <3>2, <3>3, OneRunKept, ActiveRunKept
    <2>3. wk \in [WorkItems -> WorkStatus] /\ \A w \in WorkItems : Declared(w) => wk[w] # "absent"
      <3>1. idle \in {"ready", "waiting-for-decision", "planned"}
        BY IdleStatus
      <3> HIDE DEF idle
      <3> QED
        BY <3>1, <1>t, <1>s DEF Declared
    <2> HIDE DEF wk
    <2>4. WorkKept
      BY <2>1, <2>3, WorkKeptByRecompute
    <2> QED
      BY <2>1, <2>2, <2>4, <1>d, <1>h DEF Kept
  <1>8. ASSUME NEW r \in Runs, ClaimRun(r) \/ PublishRun(r)
        PROVE  Kept
    <2>1. PICK st \in ActiveRun : run' = [run EXCEPT ![r].status = st]
      BY <1>8 DEF ClaimRun, PublishRun, ActiveRun, Executing
    <2>2. run[r].status \in ActiveRun /\ UNCHANGED <<work, superseded, decision, proposal, stored, thread>>
      BY <1>8 DEF ClaimRun, PublishRun, ActiveRun, Executing
    <2>3. RunsKept
      <3> DEFINE x == [run[r] EXCEPT !.status = st]
      <3>1. x \in Run /\ run' = [run EXCEPT ![r] = x]
        BY <2>1, <2>2, StatusMoves DEF ActiveRun
      <3>2. run[r].status \in ActiveRun /\ run[r] \in Run
        BY <2>1, <2>2, <1>i DEF ActiveRun, Executing
      <3>3. x.item = run[r].item /\ x.basis = run[r].basis /\ x.status # "absent"
        BY <3>2 DEF Run, ActiveRun, Executing
      <3> HIDE DEF x
      <3> QED
        BY <3>1, <3>2, <3>3, OneRunKept, ActiveRunKept
    <2> QED
      BY <2>2, <2>3, <1>w, <1>d, <1>h DEF Kept
  <1>9. ASSUME NEW r \in Runs, NEW n \in stored,
               CompleteRun(r, n) \/ \E d \in Decisions : AcceptCrossDomainImpact(r, d, n)
        PROVE  Kept
    <2> DEFINE wk == [work EXCEPT ![run[r].item] = "completed"]
    <2>1. /\ run[r].status \in ActiveRun
          /\ UNCHANGED <<superseded, decision, proposal, stored>>
          /\ run' = [run EXCEPT ![r].status = "completed", ![r].result = n]
          /\ thread' = thread \cup {n}
          /\ work' = RecomputeWorkReadiness(wk, superseded, decision, run')
          /\ TerminalWorkStays
      BY <1>9 DEF CompleteRun, AcceptCrossDomainImpact, ActiveRun, Executing, Completion,
                 ValidSuccessor
    <2>2. n \in Nat /\ n # 0
      BY IdsAssumption DEF TypeOK
    <2>3. RunsKept
      <3> DEFINE x == [run[r] EXCEPT !.status = "completed", !.result = n]
      <3>1. x \in Run /\ run' = [run EXCEPT ![r] = x]
        BY <2>1, <2>2, CompletionMoves DEF ActiveRun
      <3>2. run[r].status \in ActiveRun /\ run[r] \in Run
        BY <2>1, <2>2, <1>i DEF ActiveRun, Executing
      <3>3. x.item = run[r].item /\ x.basis = run[r].basis /\ x.status # "absent"
        BY <3>2 DEF Run, ActiveRun, Executing
      <3> HIDE DEF x
      <3> QED
        BY <3>1, <3>2, <3>3, OneRunKept, ActiveRunKept
    <2>4. wk \in [WorkItems -> WorkStatus] /\ \A w \in WorkItems : Declared(w) => wk[w] # "absent"
      BY <1>t, <1>s DEF Declared
    <2> HIDE DEF wk
    <2>5. WorkKept
      BY <2>1, <2>4, WorkKeptByRecompute
    <2>6. ThreadKept
      BY <2>1 DEF ThreadKept
    <2> QED
      BY <2>1, <2>3, <2>5, <2>6, <1>d DEF Kept
  <1>10. ASSUME NEW r \in Runs, NEW f \in Failure, FailRun(r, f)
         PROVE  Kept
    <2> DEFINE idle == NextIdleWorkStatus(run[r].item, work, superseded, decision, run)
    <2>1. /\ UNCHANGED <<superseded, decision, proposal, stored, thread>>
          /\ run[r].status \in Executing
          /\ run' = [run EXCEPT ![r].status = "failed", ![r].failure = f]
          /\ work' = [work EXCEPT ![run[r].item] = idle]
          /\ TerminalWorkStays
      BY <1>10 DEF FailRun, ValidSuccessor
    <2>2. RunsKept
      <3> DEFINE x == [run[r] EXCEPT !.status = "failed", !.failure = f]
      <3>1. x \in Run /\ run' = [run EXCEPT ![r] = x]
        BY <2>1, FailureMoves
      <3>2. run[r].status \in ActiveRun /\ run[r] \in Run
        BY <2>1, <1>i DEF ActiveRun, Executing
      <3>3. x.item = run[r].item /\ x.basis = run[r].basis /\ x.status # "absent"
        BY <3>2 DEF Run, ActiveRun, Executing
      <3> HIDE DEF x
      <3> QED
        BY <3>1, <3>2, <3>3, OneRunKept, ActiveRunKept
    <2>3. idle \in {"ready", "waiting-for-decision", "planned"}
      BY IdleStatus
    <2> HIDE DEF idle
    <2>4. WorkKept
      BY <2>1, <2>3, <1>t DEF WorkKept, TerminalWorkStays, Declared
    <2> QED
      BY <2>1, <2>2, <2>4, <1>d, <1>h DEF Kept
  <1>11. ASSUME NEW r \in Runs, NEW q \in Runs, NEW d \in Decisions, NEW o \in Outcome,
                ReconcileAnnotationRun(q, r, d, o)
         PROVE  Kept
    <2> DEFINE wk == [work EXCEPT ![run[r].item] = "cancelled", ![run[q].item] = "completed"]
               x == [run[r] EXCEPT !.recon = o]
               y == [run[q] EXCEPT !.status = "completed"]
    <2>1. /\ UNCHANGED <<superseded, proposal, stored, thread>>
          /\ q # r /\ run[q].status = "queued" /\ run[r].status = "failed" /\ run[r].recon = None
          /\ o = "accepted" => decision[r] = "none"
          /\ decision' = IF o = "accepted" THEN [decision EXCEPT ![r] = "required"] ELSE decision
          /\ work' = RecomputeWorkReadiness(wk, superseded, decision', run')
          /\ TerminalWorkStays
      BY <1>11 DEF ReconcileAnnotationRun, ValidSuccessor
    <2>2. /\ x \in Run /\ WellFormed(x) /\ y \in Run /\ WellFormed(y)
          /\ run' = [run EXCEPT ![r] = x, ![q] = y]
      BY <1>11, AnnotationMoves
    <2>3. RunKept(run[r], x) /\ RunKept(run[q], y)
      BY <2>1, <1>i DEF RunKept, Run, TerminalRun
    <2> HIDE DEF x, y
    <2>4. RunsKept
      BY <2>1, <2>2, <2>3, <1>t, SameRunKept DEF RunsKept
    <2>5. DecisionsKept
      BY <2>1, <1>t, IdsAssumption DEF DecisionsKept, AllDecisions
    <2>6. wk \in [WorkItems -> WorkStatus] /\ \A w \in WorkItems : Declared(w) => wk[w] # "absent"
      BY <1>t, <1>s DEF Declared
    <2> HIDE DEF wk
    <2>7. WorkKept
      BY <2>1, <2>6, WorkKeptByRecompute
    <2> QED
      BY <2>1, <2>4, <2>5, <2>7, <1>h DEF Kept
  <1>12. ASSUME NEW r \in Runs, NEW s \in Runs, NEW w \in WorkItems, NEW c \in BOOLEAN,
                ReconcileWithSuccessor(w, r, s, c)
         PROVE  Kept
    <2> DEFINE wk == [work EXCEPT ![w] = "cancelled"]
    <2>1. /\ UNCHANGED <<decision, proposal, run, stored>>
          /\ superseded' = superseded \cup {w}
          /\ thread \subseteq thread'
          /\ work' = RecomputeWorkReadiness(wk, superseded', decision, run)
          /\ TerminalWorkStays
      BY <1>12 DEF ReconcileWithSuccessor, ValidSuccessor
    <2>2. wk \in [WorkItems -> WorkStatus] /\ \A v \in WorkItems : Declared(v) => wk[v] # "absent"
      BY <1>t, <1>s DEF Declared
    <2> HIDE DEF wk
    <2>3. WorkKept
      BY <2>1, <2>2, WorkKeptByRecompute
    <2>4. ThreadKept
      BY <2>1 DEF ThreadKept
    <2> QED
      BY <2>1, <2>3, <2>4, <1>q, <1>d DEF Kept
  <1> QED
    BY <1>0, <1>1, <1>2, <1>3, <1>4, <1>5, <1>6, <1>7, <1>8, <1>9, <1>10, <1>11, <1>12
    DEF Next, Planning, Deciding, Abandonable, Running, Recovering

-----------------------------------------------------------------------------
(* What each command does to the runs, field by field. *)

(* Run r now has these fields and the other runs are as before. *)
Effect(r, st, it, ba, fa, re, rc) ==
    /\ run'[r].status = st /\ run'[r].item = it /\ run'[r].basis = ba
    /\ run'[r].failure = fa /\ run'[r].result = re /\ run'[r].recon = rc
    /\ \A s \in Runs : s # r => run'[s] = run[s]

LEMMA QueueEffect ==
    ASSUME TypeOK, NEW r \in Runs, NEW w \in WorkItems, NEW b \in thread \cup {0},
           QueueRun(r, w, b)
    PROVE  Effect(r, "queued", w, b, None, 0, None) /\ run[r].status = "absent"
  BY DEF QueueRun, NoRun, Effect, TypeOK

(* Cancelling, claiming and publishing change the status only. *)
LEMMA MoveEffect ==
    ASSUME TypeOK, NEW r \in Runs, NEW st, run' = [run EXCEPT ![r].status = st]
    PROVE  Effect(r, st, run[r].item, run[r].basis, run[r].failure, run[r].result,
                  run[r].recon)
  BY DEF Run, Effect, TypeOK

LEMMA CompleteEffect ==
    ASSUME TypeOK, NEW r \in Runs, NEW n,
           run' = [run EXCEPT ![r].status = "completed", ![r].result = n]
    PROVE  Effect(r, "completed", run[r].item, run[r].basis, run[r].failure, n,
                  run[r].recon)
  <1>1. run[r] \in Run /\ run \in [Runs -> Run]
    BY DEF TypeOK
  <1> QED
    BY <1>1 DEF Run, Effect

LEMMA FailEffect ==
    ASSUME TypeOK, NEW r \in Runs, NEW f,
           run' = [run EXCEPT ![r].status = "failed", ![r].failure = f]
    PROVE  Effect(r, "failed", run[r].item, run[r].basis, f, run[r].result, run[r].recon)
  <1>1. run[r] \in Run /\ run \in [Runs -> Run]
    BY DEF TypeOK
  <1> QED
    BY <1>1 DEF Run, Effect

LEMMA AnnotationEffect ==
    ASSUME TypeOK, NEW q \in Runs, NEW r \in Runs, NEW d \in Decisions, NEW o \in Outcome,
           ReconcileAnnotationRun(q, r, d, o)
    PROVE  /\ q # r
           /\ run'[r].status = "failed" /\ run'[r].item = run[r].item
           /\ run'[r].basis = run[r].basis /\ run'[r].failure = "uncertain"
           /\ run'[r].result = run[r].result /\ run'[r].recon = o
           /\ run'[q].status = "completed" /\ run'[q].item = run[q].item
           /\ run'[q].basis = run[q].basis /\ run'[q].failure = run[q].failure
           /\ run'[q].result = run[q].result /\ run'[q].recon = run[q].recon
           /\ \A s \in Runs : s # r /\ s # q => run'[s] = run[s]
  <1>1. run[r] \in Run /\ run[q] \in Run /\ run \in [Runs -> Run]
    BY DEF TypeOK
  <1>2. /\ q # r /\ run[r].status = "failed" /\ run[r].failure = "uncertain"
        /\ run' = [run EXCEPT ![r].recon = o, ![q].status = "completed"]
    BY DEF ReconcileAnnotationRun
  <1> QED
    BY <1>1, <1>2 DEF Run

(* The commands that touch runs. *)
RunCommands ==
    \/ run' = run
    \/ \E r \in Runs :
          \/ \E w \in WorkItems, b \in thread \cup {0} : QueueRun(r, w, b)
          \/ CancelQueuedRun(r) \/ ClaimRun(r) \/ PublishRun(r)
          \/ \E n \in stored : CompleteRun(r, n)
          \/ \E f \in Failure : FailRun(r, f)
          \/ \E d \in Decisions, n \in stored : AcceptCrossDomainImpact(r, d, n)
          \/ \E q \in Runs, d \in Decisions, o \in Outcome : ReconcileAnnotationRun(q, r, d, o)

LEMMA OnlyRunCommands == [Next]_vars => RunCommands
  <1> SUFFICES ASSUME [Next]_vars PROVE RunCommands
    OBVIOUS
  <1>1. CASE UNCHANGED vars
    BY <1>1 DEF vars, RunCommands
  <1>2. CASE Planning
    BY <1>2 DEF Planning, PublishPlan, AppendChange, RunCommands
  <1>3. CASE Deciding
    BY <1>3 DEF Deciding, ProposeDecision, DecideDecision, AbandonWorkItems, RunCommands
  <1>4. CASE Running
    <2>1. CASE \E n \in 1..MaxRevision : SaveSnapshot(n)
      BY <2>1 DEF SaveSnapshot, RunCommands
    <2> QED
      BY <1>4, <2>1 DEF Running, RunCommands
  <1>5. CASE Recovering
    <2>1. ASSUME NEW r \in Runs, NEW s \in Runs, NEW w \in WorkItems, NEW c \in BOOLEAN,
                 ReconcileWithSuccessor(w, r, s, c)
          PROVE  run' = run
      BY <2>1 DEF ReconcileWithSuccessor
    <2> QED
      BY <1>5, <2>1 DEF Recovering, RunCommands
  <1> QED
    BY <1>1, <1>2, <1>3, <1>4, <1>5 DEF Next

(* An executing or failed status, and a reconciliation, has one origin. *)
LEMMA Origins ==
    ASSUME TypeOK, RunCommands, NEW r \in Runs
    PROVE  /\ run[r].status = "absent" /\ run'[r].status # "absent" =>
                 \E w \in WorkItems, b \in thread \cup {0} : QueueRun(r, w, b)
           /\ run'[r].status \in Executing =>
                 \/ run[r].status \in Executing
                 \/ ClaimRun(r)
           /\ run'[r].status = "failed" =>
                 \/ run[r].status = "failed" /\ run'[r].failure = run[r].failure
                 \/ run[r].status \in Executing /\ \E f \in Failure : FailRun(r, f)
           /\ run'[r].recon # run[r].recon =>
                 /\ run[r].recon = None
                 /\ \E q \in Runs, d \in Decisions :
                       ReconcileAnnotationRun(q, r, d, run'[r].recon)
  <1>t. WellFormed(run[r])
    BY RunType
  <1>0. CASE run' = run
    BY <1>0
  <1>1. ASSUME NEW s \in Runs, NEW w \in WorkItems, NEW b \in thread \cup {0},
               QueueRun(s, w, b)
        PROVE  /\ s = r \/ run'[r] = run[r]
               /\ run[s].status = "absent" /\ run'[s].status = "queued"
               /\ run'[s].recon = None
    BY <1>1, QueueEffect DEF Effect
  <1>2. ASSUME NEW s \in Runs, CancelQueuedRun(s) \/ ClaimRun(s) \/ PublishRun(s)
        PROVE  /\ s = r \/ run'[r] = run[r]
               /\ run'[s].recon = run[s].recon
               /\ run[s].status # "absent" /\ run'[s].status # "failed"
               /\ \/ run'[s].status = "cancelled"
                  \/ ClaimRun(s)
                  \/ run[s].status \in Executing
    <2>1. PICK st \in {"cancelled", "running", "publishing"} :
             /\ run' = [run EXCEPT ![s].status = st]
             /\ run[s].status # "absent"
             /\ st = "cancelled" \/ ClaimRun(s) \/ run[s].status \in Executing
      BY <1>2 DEF CancelQueuedRun, ClaimRun, PublishRun, Executing
    <2> QED
      BY <2>1, MoveEffect DEF Effect
  <1>3. ASSUME NEW s \in Runs, NEW n \in stored,
               CompleteRun(s, n) \/ \E d \in Decisions : AcceptCrossDomainImpact(s, d, n)
        PROVE  /\ s = r \/ run'[r] = run[r]
               /\ run'[s].recon = run[s].recon
               /\ run[s].status # "absent" /\ run'[s].status = "completed"
    <2>1. /\ run' = [run EXCEPT ![s].status = "completed", ![s].result = n]
          /\ run[s].status # "absent"
      BY <1>3 DEF CompleteRun, AcceptCrossDomainImpact, Completion
    <2> QED
      BY <2>1, CompleteEffect DEF Effect
  <1>4. ASSUME NEW s \in Runs, NEW f \in Failure, FailRun(s, f)
        PROVE  /\ s = r \/ run'[r] = run[r]
               /\ run'[s].recon = run[s].recon
               /\ run[s].status \in Executing /\ run'[s].status = "failed"
    BY <1>4, FailEffect DEF Effect, FailRun
  <1>5. ASSUME NEW s \in Runs, NEW q \in Runs, NEW d \in Decisions, NEW o \in Outcome,
               ReconcileAnnotationRun(q, s, d, o)
        PROVE  /\ s = r \/ q = r \/ run'[r] = run[r]
               /\ run'[q].recon = run[q].recon /\ run'[q].status = "completed"
               /\ run[q].status # "absent"
               /\ run'[s].recon = o /\ run[s].recon = None
               /\ run[s].status = "failed" /\ run'[s].status = "failed"
               /\ run[s].failure = "uncertain" /\ run'[s].failure = "uncertain"
    <2>1. /\ run[q].status = "queued" /\ run[s].status = "failed"
          /\ run[s].failure = "uncertain" /\ run[s].recon = None
      BY <1>5 DEF ReconcileAnnotationRun
    <2> QED
      BY <1>5, <2>1, AnnotationEffect
  <1>6. CASE \E s \in Runs, w \in WorkItems, b \in thread \cup {0} : QueueRun(s, w, b)
    <2>1. PICK s \in Runs, w \in WorkItems, b \in thread \cup {0} : QueueRun(s, w, b)
      BY <1>6
    <2>2. CASE s = r
      <3>1. run[r].recon = None
        BY <1>1, <1>t, <2>1, <2>2 DEF WellFormed, NoRun
      <3> QED
        BY <1>1, <2>1, <2>2, <3>1 DEF Executing
    <2> QED
      BY <1>1, <2>1, <2>2 DEF Executing
  <1>7. CASE \E s \in Runs : CancelQueuedRun(s) \/ ClaimRun(s) \/ PublishRun(s)
    BY <1>7, <1>2 DEF Executing
  <1>8. CASE \E s \in Runs, n \in stored :
               CompleteRun(s, n) \/ \E d \in Decisions : AcceptCrossDomainImpact(s, d, n)
    BY <1>8, <1>3 DEF Executing
  <1>9. CASE \E s \in Runs, f \in Failure : FailRun(s, f)
    BY <1>9, <1>4 DEF Executing
  <1>10. CASE \E s \in Runs, q \in Runs, d \in Decisions, o \in Outcome :
                ReconcileAnnotationRun(q, s, d, o)
    <2>1. PICK s \in Runs, q \in Runs, d \in Decisions, o \in Outcome :
             ReconcileAnnotationRun(q, s, d, o)
      BY <1>10
    <2>2. CASE s = r
      BY <1>5, <2>1, <2>2 DEF Executing
    <2>3. CASE q = r
      BY <1>5, <2>1, <2>3 DEF Executing
    <2> QED
      BY <1>5, <2>1, <2>2, <2>3 DEF Executing
  <1> QED
    BY <1>0, <1>6, <1>7, <1>8, <1>9, <1>10 DEF RunCommands

-----------------------------------------------------------------------------
(* The supporting invariant. *)

(* A plan replacement happens only while no run exists. *)
LEMMA PlanHasNoRuns ==
    ASSUME NEW S, PublishPlan(S)
    PROVE  /\ run' = run /\ thread' = thread /\ thread = {} /\ \A r \in Runs : run[r] = NoRun
           /\ superseded' = superseded
           /\ \A w \in WorkItems : work[w] \notin {"in-progress", "completed", "cancelled"}
  BY DEF PublishPlan, PlanReplaceable

(* StatusJustified is a check on every committed draft. *)
LEMMA ReadyStep ==
    TypeOK /\ ReadyJustified /\ [Next]_vars => ReadyJustified'
  <1> SUFFICES ASSUME TypeOK, ReadyJustified, [Next]_vars PROVE ReadyJustified'
    OBVIOUS
  <1>1. StatusJustified => ReadyJustified'
    BY DEF StatusJustified, ReadyJustified
  <1>2. UNCHANGED <<work, superseded, decision, run>> => ReadyJustified'
    BY DEF ReadyJustified, IsReady, DecisionsApproved, BlockersResolved, DependenciesCompleted
  <1>3. CASE UNCHANGED vars
    BY <1>2, <1>3 DEF vars
  <1>4. CASE Planning
    BY <1>1, <1>4 DEF Planning, PublishPlan, AppendChange, ValidSuccessor
  <1>5. CASE Deciding
    BY <1>1, <1>5 DEF Deciding, ProposeDecision, DecideDecision, AbandonWorkItems,
                      ValidSuccessor
  <1>6. CASE Running
    BY <1>1, <1>2, <1>6 DEF Running, SaveSnapshot, QueueRun, CancelQueuedRun, ClaimRun,
          PublishRun, CompleteRun, FailRun, AcceptCrossDomainImpact, ValidSuccessor
  <1>7. CASE Recovering
    <2>1. ASSUME NEW r \in Runs, NEW q \in Runs, NEW d \in Decisions, NEW o \in Outcome,
                 ReconcileAnnotationRun(q, r, d, o)
          PROVE  StatusJustified
      BY <2>1 DEF ReconcileAnnotationRun, ValidSuccessor
    <2>2. ASSUME NEW r \in Runs, NEW s \in Runs, NEW w \in WorkItems, NEW c \in BOOLEAN,
                 ReconcileWithSuccessor(w, r, s, c)
          PROVE  StatusJustified
      BY <2>2 DEF ReconcileWithSuccessor, ValidSuccessor
    <2> QED
      BY <1>1, <1>7, <2>1, <2>2 DEF Recovering
  <1> QED
    BY <1>3, <1>4, <1>5, <1>6, <1>7 DEF Next

(* Only a plan or a change gives a decision of a work item its first status. *)
LEMMA UntouchedDecisions ==
    ASSUME TypeOK, [Next]_vars, ~Planning, NEW d \in Decisions, decision[d] = "none"
    PROVE  decision'[d] = "none"
  <1>t. decision \in [AllDecisions -> DecisionStatus] /\ d \in AllDecisions /\ d \notin Runs
    BY IdsAssumption DEF TypeOK, AllDecisions
  <1>1. CASE UNCHANGED decision
    BY <1>1
  <1>2. CASE Deciding
    <2>1. ASSUME NEW e \in AllDecisions, NEW p \in Proposals, ProposeDecision(e, p)
          PROVE  decision'[d] = "none"
      BY <2>1, <1>t DEF ProposeDecision
    <2>2. ASSUME NEW e \in AllDecisions, NEW st \in {"approved", "rejected"},
                 DecideDecision(e, st)
          PROVE  decision'[d] = "none"
      BY <2>2, <1>t DEF DecideDecision
    <2>3. ASSUME NEW S \in SUBSET WorkItems, NEW D \in SUBSET AllDecisions,
                 AbandonWorkItems(S, D)
          PROVE  decision'[d] = "none"
      BY <2>3, <1>t DEF AbandonWorkItems
    <2> QED
      BY <1>2, <2>1, <2>2, <2>3 DEF Deciding, Abandonable
  <1>3. CASE Running
    BY <1>1, <1>3 DEF Running, SaveSnapshot, QueueRun, CancelQueuedRun, ClaimRun,
          PublishRun, CompleteRun, FailRun, AcceptCrossDomainImpact
  <1>4. CASE Recovering
    <2>1. ASSUME NEW r \in Runs, NEW q \in Runs, NEW e \in Decisions, NEW o \in Outcome,
                 ReconcileAnnotationRun(q, r, e, o)
          PROVE  decision'[d] = "none"
      <3>1. decision' = IF o = "accepted" THEN [decision EXCEPT ![r] = "required"] ELSE decision
        BY <2>1 DEF ReconcileAnnotationRun
      <3> QED
        BY <3>1, <1>t
    <2>2. ASSUME NEW r \in Runs, NEW s \in Runs, NEW w \in WorkItems, NEW c \in BOOLEAN,
                 ReconcileWithSuccessor(w, r, s, c)
          PROVE  decision' = decision
      BY <2>2 DEF ReconcileWithSuccessor
    <2> QED
      BY <1>1, <1>4, <2>1, <2>2 DEF Recovering
  <1> QED
    BY <1>1, <1>2, <1>3, <1>4 DEF Next, vars

LEMMA SupportStep ==
    ASSUME TypeOK, Support, [Next]_vars
    PROVE  Support'
  <1>t. TypeOK'
    BY TypeStep
  <1>1. ReadyJustified'
    BY ReadyStep DEF Support
  <1>2. CASE \E S \in SUBSET WorkItems : PublishPlan(S)
    <2>1. PICK S \in SUBSET WorkItems : PublishPlan(S)
      BY <1>2
    <2>2. RunsOfDeclaredItems'
      BY <2>1, PlanHasNoRuns DEF RunsOfDeclaredItems, NoRun
    <2> DEFINE none == [d \in AllDecisions |-> "none"]
               absent == [w \in WorkItems |-> "absent"]
    <2>3. /\ decision' = DeclareDecisions(S, none)
          /\ work' = RecomputeWorkReadiness(DeclareWork(S, absent), superseded, decision', run)
      BY <2>1 DEF PublishPlan, Declare
    <2>4. /\ DeclareWork(S, absent) \in [WorkItems -> WorkStatus]
          /\ \A w \in S : DeclareWork(S, absent)[w] # "absent"
      BY DEF DeclareWork, WorkStatus, TerminalWork
    <2>5. \A w \in S : work'[w] # "absent"
      BY <2>3, <2>4, Recompute
    <2>6. UndeclaredDecisions'
      <3> SUFFICES ASSUME NEW w \in WorkItems, w \notin S, NEW d \in DecisionIds[w]
                   PROVE  decision'[d] = "none"
        BY <2>5 DEF UndeclaredDecisions, Declared
      <3>1. d \in AllDecisions /\ \A v \in S : d \notin DecisionIds[v]
        BY PlanAssumption DEF AllDecisions
      <3> QED
        BY <2>3, <3>1 DEF DeclareDecisions
    <2> QED
      BY <1>1, <2>2, <2>6 DEF Support
  <1>3. CASE \A S \in SUBSET WorkItems : ~PublishPlan(S)
    <2>k. Kept
      BY <1>3, KeptStep
    <2>1. RunsOfDeclaredItems'
      <3> SUFFICES ASSUME NEW r \in Runs, run'[r].status # "absent"
                   PROVE  work'[run'[r].item] # "absent"
        BY DEF RunsOfDeclaredItems, Declared
      <3>1. CASE run[r].status # "absent"
        <4>1. run[r].item \in WorkItems
          BY <3>1, RunType DEF WellFormed, Run
        <4> QED
          BY <2>k, <3>1, <4>1 DEF Kept, RunsKept, RunKept, WorkKept, Support,
                                  RunsOfDeclaredItems
      <3>2. CASE run[r].status = "absent"
        <4>1. PICK w \in WorkItems, b \in thread \cup {0} : QueueRun(r, w, b)
          BY <3>2, OnlyRunCommands, Origins
        <4>2. run'[r].item = w
          BY <4>1, QueueEffect DEF Effect
        <4>3. work' = [work EXCEPT ![w] = "in-progress"]
          BY <4>1 DEF QueueRun
        <4> QED
          BY <4>2, <4>3 DEF TypeOK
      <3> QED
        BY <3>1, <3>2
    <2>2. UndeclaredDecisions'
      <3> SUFFICES ASSUME NEW w \in WorkItems, work'[w] = "absent", NEW d \in DecisionIds[w]
                   PROVE  decision'[d] = "none"
        BY DEF UndeclaredDecisions, Declared
      <3>1. ~Declared(w) /\ d \in Decisions /\ decision[d] = "none"
        BY <2>k, PlanAssumption DEF Kept, WorkKept, Support, UndeclaredDecisions
      <3>2. CASE Planning
        <4>1. PICK S \in SUBSET WorkItems : AppendChange(S)
          BY <1>3, <3>2 DEF Planning
        <4>2. /\ decision' = DeclareDecisions(S, decision)
              /\ work' = RecomputeWorkReadiness(DeclareWork(S, work), superseded, decision', run)
          BY <4>1 DEF AppendChange, Declare
        <4>3. /\ DeclareWork(S, work) \in [WorkItems -> WorkStatus]
              /\ \A v \in S : DeclareWork(S, work)[v] # "absent"
          BY DEF DeclareWork, WorkStatus, TerminalWork, TypeOK
        <4>4. w \notin S
          BY <4>2, <4>3, Recompute
        <4>5. d \in AllDecisions /\ \A v \in S : d \notin DecisionIds[v]
          BY <4>4, PlanAssumption DEF AllDecisions
        <4> QED
          BY <3>1, <4>2, <4>5 DEF DeclareDecisions
      <3> QED
        BY <3>1, <3>2, UntouchedDecisions
    <2> QED
      BY <1>1, <2>1, <2>2 DEF Support
  <1> QED
    BY <1>2, <1>3

LEMMA SupportInit == Init => Support
  <1> SUFFICES ASSUME Init PROVE Support
    OBVIOUS
  <1>1. ReadyJustified /\ RunsOfDeclaredItems
    BY DEF Init, ReadyJustified, RunsOfDeclaredItems, NoRun
  <1>2. UndeclaredDecisions
    BY PlanAssumption DEF Init, UndeclaredDecisions, AllDecisions
  <1> QED
    BY <1>1, <1>2 DEF Support

-----------------------------------------------------------------------------
(* Single writer and quarantine. *)

(* The item and the basis of a run are fixed when it is queued. *)
LEMMA RunIdentity ==
    ASSUME TypeOK, Support, [Next]_vars, NEW r \in Runs, run[r].status # "absent"
    PROVE  run'[r].item = run[r].item /\ run'[r].basis = run[r].basis
  <1>1. CASE \E S \in SUBSET WorkItems : PublishPlan(S)
    BY <1>1, PlanHasNoRuns
  <1>2. CASE \A S \in SUBSET WorkItems : ~PublishPlan(S)
    BY <1>2, KeptStep DEF Kept, RunsKept, RunKept
  <1> QED
    BY <1>1, <1>2

(* A claim leaves the other runs and all decisions alone, and it looked at *)
(* every listed sibling on the basis.                                      *)
LEMMA ClaimLooks ==
    ASSUME TypeOK, NEW r \in Runs, NEW s \in Runs, r # s, ClaimRun(r),
           ListedWriter(r), ListedWriter(s), run[r].basis = run[s].basis
    PROVE  run'[s] = run[s] /\ decision' = decision /\ ~SiblingBlocks(s)
  <1>1. run' = [run EXCEPT ![r].status = "running"] /\ decision' = decision
    BY DEF ClaimRun
  <1>2. run'[s] = run[s]
    BY <1>1, MoveEffect DEF Effect
  <1>3. ~SiblingBlocks(s)
    BY DEF ClaimRun, ClaimAllowed
  <1> QED
    BY <1>1, <1>2, <1>3

Writers == SingleWriterPerBasis /\ QuarantineHolds

LEMMA WritersStep ==
    ASSUME TypeOK, Support, Writers, [Next]_vars
    PROVE  Writers'
  <1>t. \A r \in Runs : WellFormed(run[r])
    BY RunType
  <1>c. RunCommands
    BY OnlyRunCommands
  <1>e. ASSUME NEW r \in Runs, run'[r].status \in Executing
        PROVE  /\ run[r].status \in Executing \/ ClaimRun(r)
               /\ run'[r].item = run[r].item /\ run'[r].basis = run[r].basis
               /\ ListedWriter(r)' <=> ListedWriter(r)
    <2>1. run[r].status \in Executing \/ ClaimRun(r)
      BY <1>c, <1>e, Origins
    <2>2. run[r].status # "absent"
      BY <2>1 DEF ClaimRun, Executing
    <2> QED
      BY <2>1, <2>2, RunIdentity DEF ListedWriter
  <1>f. ASSUME NEW s \in Runs, run'[s].status = "failed"
        PROVE  /\ \/ run[s].status = "failed" /\ run'[s].failure = run[s].failure
                  \/ run[s].status \in Executing /\ \E f \in Failure : FailRun(s, f)
               /\ run'[s].item = run[s].item /\ run'[s].basis = run[s].basis
               /\ ListedWriter(s)' <=> ListedWriter(s)
    <2>1. \/ run[s].status = "failed" /\ run'[s].failure = run[s].failure
          \/ run[s].status \in Executing /\ \E f \in Failure : FailRun(s, f)
      BY <1>c, <1>f, Origins
    <2>2. run[s].status # "absent"
      BY <2>1 DEF Executing
    <2> QED
      BY <2>1, <2>2, RunIdentity DEF ListedWriter
  <1>1. SingleWriterPerBasis'
    <2> SUFFICES ASSUME NEW r \in Runs, NEW s \in Runs, r # s,
                        ListedWriter(r)', run'[r].status \in Executing,
                        ListedWriter(s)', run'[s].status \in Executing,
                        run'[r].basis = run'[s].basis
                 PROVE  FALSE
      BY DEF SingleWriterPerBasis
    <2>1. ListedWriter(r) /\ ListedWriter(s) /\ run[r].basis = run[s].basis
      BY <1>e
    <2>2. CASE ClaimRun(r)
      BY <2>1, <2>2, ClaimLooks DEF SiblingBlocks
    <2>3. CASE ClaimRun(s)
      BY <2>1, <2>3, ClaimLooks DEF SiblingBlocks
    <2>4. CASE run[r].status \in Executing /\ run[s].status \in Executing
      BY <2>1, <2>4 DEF Writers, SingleWriterPerBasis
    <2> QED
      BY <1>e, <2>2, <2>3, <2>4
  <1>2. QuarantineHolds'
    <2> SUFFICES ASSUME NEW r \in Runs, NEW s \in Runs,
                        ListedWriter(r)', run'[r].status \in Executing,
                        ListedWriter(s)', run'[s].status = "failed",
                        run'[r].basis = run'[s].basis
                 PROVE  /\ run'[s].failure # "local"
                        /\ run'[s].failure = "uncertain" => run'[s].recon # None
                        /\ run'[s].recon = "accepted" => decision'[s] = "approved"
      BY DEF QuarantineHolds
    <2>1. /\ ListedWriter(r) /\ ListedWriter(s) /\ run[r].basis = run[s].basis
          /\ r # s
      BY <1>e, <1>f DEF Executing
    <2>2. CASE \E f \in Failure : FailRun(s, f)
      <3>1. PICK f \in Failure : FailRun(s, f)
        BY <2>2
      <3>2. run[s].status \in Executing
            /\ run' = [run EXCEPT ![s].status = "failed", ![s].failure = f]
        BY <3>1 DEF FailRun
      <3>3. run'[r] = run[r]
        BY <2>1, <3>2, FailEffect DEF Effect
      <3> QED
        BY <2>1, <3>2, <3>3 DEF Writers, SingleWriterPerBasis
    <2>3. CASE run[s].status = "failed" /\ run'[s].failure = run[s].failure
      <3>1. CASE ClaimRun(r)
        BY <2>1, <2>3, <3>1, ClaimLooks DEF SiblingBlocks
      <3>2. CASE run[r].status \in Executing
        <4>1. /\ run[s].failure # "local"
              /\ run[s].failure = "uncertain" => run[s].recon # None
              /\ run[s].recon = "accepted" => decision[s] = "approved"
          BY <2>1, <2>3, <3>2 DEF Writers, QuarantineHolds
        <4>2. run'[s].recon = run[s].recon
          <5> SUFFICES ASSUME run'[s].recon # run[s].recon PROVE FALSE
            OBVIOUS
          <5>1. PICK q \in Runs, d \in Decisions : ReconcileAnnotationRun(q, s, d, run'[s].recon)
            BY <1>c, Origins
          <5>2. run[s].failure = "uncertain" /\ run[s].recon = None
            BY <5>1 DEF ReconcileAnnotationRun
          <5> QED
            BY <4>1, <5>2
        <4>3. decision[s] = "approved" => decision'[s] = "approved"
          <5>1. \A S \in SUBSET WorkItems : ~PublishPlan(S)
            BY <2>3, PlanHasNoRuns DEF NoRun
          <5> QED
            BY <5>1, KeptStep DEF Kept, DecisionsKept, AllDecisions
        <4> QED
          BY <2>3, <4>1, <4>2, <4>3
      <3> QED
        BY <1>e, <3>1, <3>2
    <2> QED
      BY <1>f, <2>2, <2>3
  <1> QED
    BY <1>1, <1>2 DEF Writers

-----------------------------------------------------------------------------
(* Authority and evidence. *)

LEMMA AuthorityStep ==
    ASSUME TypeOK, Support, RunsAreAuthorised, [Next]_vars
    PROVE  RunsAreAuthorised'
  <1> SUFFICES ASSUME NEW r \in Runs, run'[r].status # "absent"
               PROVE  /\ \A d \in DecisionIds[run'[r].item] : decision'[d] = "approved"
                      /\ \A w \in DependsOn[run'[r].item] :
                            work'[w] = "completed" \/ w \in superseded'
    BY DEF RunsAreAuthorised
  <1>1. CASE run[r].status # "absent"
    <2>1. Kept
      BY <1>1, PlanHasNoRuns, KeptStep DEF NoRun
    <2>2. run'[r].item = run[r].item /\ run[r].item \in WorkItems
      BY <1>1, RunIdentity, RunType DEF WellFormed, Run
    <2>3. DecisionIds[run[r].item] \subseteq AllDecisions /\ DependsOn[run[r].item] \subseteq WorkItems
      BY <2>2, PlanAssumption DEF AllDecisions
    <2> QED
      BY <1>1, <2>1, <2>2, <2>3
      DEF RunsAreAuthorised, Kept, DecisionsKept, WorkKept, ThreadKept, TerminalWork
  <1>2. CASE run[r].status = "absent"
    <2>1. PICK w \in WorkItems, b \in thread \cup {0} : QueueRun(r, w, b)
      BY <1>2, OnlyRunCommands, Origins
    <2>2. run'[r].item = w
      BY <2>1, QueueEffect DEF Effect
    <2>3. /\ work[w] = "ready" /\ UNCHANGED <<decision, superseded>>
          /\ work' = [work EXCEPT ![w] = "in-progress"]
      BY <2>1 DEF QueueRun
    <2>4. IsReady(w, work, superseded, decision, run)
      BY <2>3 DEF Support, ReadyJustified
    <2>5. \A v \in DependsOn[w] : v \in WorkItems
      BY PlanAssumption
    <2> QED
      BY <2>2, <2>3, <2>4, <2>5
      DEF IsReady, DecisionsApproved, DependenciesCompleted, TypeOK
  <1> QED
    BY <1>1, <1>2

LEMMA ReconciliationStep ==
    ASSUME TypeOK, Support, ReconciliationHasAuthority, [Next]_vars
    PROVE  ReconciliationHasAuthority'
  <1> SUFFICES ASSUME NEW r \in Runs, run'[r].recon # None
               PROVE  /\ run'[r].status = "failed" /\ run'[r].failure = "uncertain"
                      /\ work'[run'[r].item] \in TerminalWork
                      /\ run'[r].recon = "accepted" => decision'[r] # "none"
                      /\ \E q \in Runs :
                            /\ run'[q].status = "completed" /\ run'[q].basis = run'[r].basis
                            /\ Operation[run'[q].item] = "reconcile"
                            /\ \E d \in DecisionIds[run'[q].item] :
                                  /\ decision'[d] = "approved"
                                  /\ proposal'[d] = [target |-> r, outcome |-> run'[r].recon]
    BY DEF ReconciliationHasAuthority
  <1>t. \A s \in Runs : WellFormed(run[s]) /\ run[s] \in Run
    BY RunType
  <1>i. \A s \in Runs : run[s].status # "absent" =>
           run[s].item \in WorkItems /\ DecisionIds[run[s].item] \subseteq Decisions
    BY <1>t, PlanAssumption DEF WellFormed, Run
  <1>1. CASE run[r].recon # None
    <2>1. PICK q \in Runs :
             /\ run[q].status = "completed" /\ run[q].basis = run[r].basis
             /\ Operation[run[q].item] = "reconcile"
             /\ \E d \in DecisionIds[run[q].item] :
                   /\ decision[d] = "approved"
                   /\ proposal[d] = [target |-> r, outcome |-> run[r].recon]
      BY <1>1 DEF ReconciliationHasAuthority
    <2>2. /\ run[r].status = "failed" /\ run[r].failure = "uncertain"
          /\ work[run[r].item] \in TerminalWork
          /\ run[r].recon = "accepted" => decision[r] # "none"
      BY <1>1 DEF ReconciliationHasAuthority
    <2>3. Kept
      BY <2>1, PlanHasNoRuns, KeptStep DEF NoRun
    <2>4. run'[r] = run[r]
      <3>1. run'[r].recon = run[r].recon /\ run'[r] = [run[r] EXCEPT !.recon = run'[r].recon]
        BY <1>1, <2>2, <2>3 DEF Kept, RunsKept, RunKept, TerminalRun
      <3>2. run'[r] = [run[r] EXCEPT !.recon = run[r].recon]
        BY <3>1
      <3>3. run[r] \in Run
        BY <1>t
      <3> QED
        BY <3>2, <3>3 DEF Run
    <2>5. run'[q].status = "completed" /\ run'[q].basis = run[q].basis /\ run'[q].item = run[q].item
      BY <1>t, <2>1, <2>3 DEF Kept, RunsKept, RunKept, TerminalRun, Run
    <2>6. \A d \in DecisionIds[run[q].item] :
             decision[d] = "approved" => decision'[d] = "approved" /\ proposal'[d] = proposal[d]
      BY <1>i, <2>1, <2>3 DEF Kept, DecisionsKept, AllDecisions
    <2>7. work'[run[r].item] \in TerminalWork
      BY <1>i, <2>2, <2>3 DEF Kept, WorkKept
    <2>8. run[r].recon = "accepted" => decision'[r] # "none"
      BY <2>2, <2>3 DEF Kept, DecisionsKept
    <2> QED
      BY <2>1, <2>2, <2>4, <2>5, <2>6, <2>7, <2>8
  <1>2. CASE run[r].recon = None
    <2>1. PICK q \in Runs, d \in Decisions : ReconcileAnnotationRun(q, r, d, run'[r].recon)
      BY <1>2, OnlyRunCommands, Origins
    <2> DEFINE o == run'[r].recon
    <2>o. o \in Outcome
      BY TypeStep, NoneAssumption DEF TypeOK, Run
    <2>n. ReconcileAnnotationRun(q, r, d, o)
      BY <2>1
    <2> HIDE DEF o
    <2>2. /\ run'[r].status = "failed" /\ run'[r].item = run[r].item
          /\ run'[r].basis = run[r].basis /\ run'[r].failure = "uncertain"
          /\ run'[q].status = "completed" /\ run'[q].item = run[q].item
          /\ run'[q].basis = run[q].basis
      BY <2>n, <2>o, AnnotationEffect
    <2>3. /\ ReconciliationApproved(q, r, d, o)
          /\ decision' = IF o = "accepted" THEN [decision EXCEPT ![r] = "required"] ELSE decision
          /\ work' = RecomputeWorkReadiness(
                 [work EXCEPT ![run[r].item] = "cancelled", ![run[q].item] = "completed"],
                 superseded, decision', run')
          /\ proposal' = proposal
          /\ run[r].status = "failed" /\ run[q].status = "queued"
      BY <2>n DEF ReconcileAnnotationRun
    <2>4. decision'[d] = "approved" /\ proposal'[d] = [target |-> r, outcome |-> o]
      <3>1. d # r /\ d \in AllDecisions
        BY IdsAssumption DEF AllDecisions
      <3> QED
        BY <2>3, <3>1 DEF ReconciliationApproved, TypeOK
    <2>5. o = "accepted" => decision'[r] # "none"
      BY <2>3 DEF TypeOK, AllDecisions
    <2>6. work'[run[r].item] \in TerminalWork
      <3> DEFINE wk == [work EXCEPT ![run[r].item] = "cancelled", ![run[q].item] = "completed"]
      <3>1. wk \in [WorkItems -> WorkStatus] /\ wk[run[r].item] \in TerminalWork
            /\ run[r].item \in WorkItems
        BY <1>i, <2>3 DEF TypeOK, WorkStatus, TerminalWork
      <3>2. work' = RecomputeWorkReadiness(wk, superseded, decision', run')
        BY <2>3
      <3> HIDE DEF wk
      <3> QED
        BY <3>1, <3>2, Recompute
    <2>7. /\ run[q].basis = run[r].basis /\ Operation[run[q].item] = "reconcile"
          /\ d \in DecisionIds[run[q].item]
      BY <2>3 DEF ReconciliationApproved
    <2> QED
      BY <2>2, <2>4, <2>5, <2>6, <2>7 DEF o
  <1> QED
    BY <1>1, <1>2

-----------------------------------------------------------------------------
(* One active run per item. *)

(* Active runs in rn are active runs in run, and an item keeps its active   *)
(* runs.                                                                   *)
LEMMA ActiveBefore ==
    ASSUME TypeOK, Support, [Next]_vars, NEW r \in Runs, run'[r].status \in ActiveRun
    PROVE  \/ run[r].status \in ActiveRun /\ run'[r].item = run[r].item
           \/ \E w \in WorkItems, b \in thread \cup {0} : QueueRun(r, w, b)
  <1>1. CASE \E S \in SUBSET WorkItems : PublishPlan(S)
    BY <1>1, PlanHasNoRuns
  <1>2. CASE \A S \in SUBSET WorkItems : ~PublishPlan(S)
    <2>1. RunKept(run[r], run'[r])
      BY <1>2, KeptStep DEF Kept, RunsKept
    <2>2. run[r] \in Run
      BY RunType
    <2>3. run[r].status \notin TerminalRun
      <3> SUFFICES ASSUME run[r].status \in TerminalRun PROVE FALSE
        OBVIOUS
      <3>1. run'[r] = [run[r] EXCEPT !.recon = run'[r].recon]
        BY <2>1 DEF RunKept
      <3>2. run'[r].status = run[r].status
        BY <2>2, <3>1 DEF Run
      <3> QED
        BY <3>2 DEF ActiveRun, Executing, TerminalRun
    <2>4. CASE run[r].status = "absent"
      BY <2>4, OnlyRunCommands, Origins DEF ActiveRun, Executing
    <2>5. CASE run[r].status # "absent"
      BY <2>1, <2>2, <2>3, <2>5 DEF RunKept, Run
    <2> QED
      BY <2>4, <2>5
  <1> QED
    BY <1>1, <1>2

(* An item in progress keeps its status while readiness is recomputed for  *)
(* runs that still hold one of its active runs.                            *)
LEMMA InProgressStays ==
    ASSUME NEW wk \in [WorkItems -> WorkStatus], NEW sup, NEW dec,
           NEW r \in Runs, run'[r].status \in ActiveRun, run'[r].item \in WorkItems,
           work' = RecomputeWorkReadiness(wk, sup, dec, run')
    PROVE  work'[run'[r].item] = wk[run'[r].item]
  <1>1. HasActiveRun(run'[r].item, run')
    BY DEF HasActiveRun
  <1> QED
    BY <1>1, Recompute

UniqueActive ==
    \A r, s \in Runs :
        /\ run[r].status \in ActiveRun /\ run[s].status \in ActiveRun
        /\ run[r].item = run[s].item
        => r = s

ProgressHasRun ==
    \A w \in WorkItems : work[w] = "in-progress" => HasActiveRun(w, run)

RunHasProgress ==
    \A r \in Runs : run[r].status \in ActiveRun =>
        \/ work[run[r].item] = "in-progress"
        \/ /\ work[run[r].item] = "cancelled"
           /\ \E s \in Runs : run[s].item = run[r].item /\ run[s].recon # None

LEMMA UniqueStep ==
    ASSUME TypeOK, Support, UniqueActive, [Next]_vars
    PROVE  UniqueActive'
  <1> SUFFICES ASSUME NEW r \in Runs, NEW s \in Runs, r # s,
                      run'[r].status \in ActiveRun, run'[s].status \in ActiveRun,
                      run'[r].item = run'[s].item
               PROVE  FALSE
    BY DEF UniqueActive
  <1>1. ASSUME NEW p \in Runs, NEW q \in Runs, p # q, NEW w \in WorkItems,
               NEW b \in thread \cup {0}, QueueRun(p, w, b),
               run'[q].status \in ActiveRun, run'[p].item = run'[q].item
        PROVE  FALSE
    <2>1. run'[p].item = w /\ run'[q] = run[q]
      BY <1>1, QueueEffect DEF Effect
    <2>2. ~HasActiveRun(w, run)
      BY <1>1 DEF QueueRun
    <2> QED
      BY <1>1, <2>1, <2>2 DEF HasActiveRun
  <1>2. CASE /\ run[r].status \in ActiveRun /\ run'[r].item = run[r].item
             /\ run[s].status \in ActiveRun /\ run'[s].item = run[s].item
    BY <1>2 DEF UniqueActive
  <1> QED
    BY <1>1, <1>2, ActiveBefore

LEMMA ProgressStep ==
    ASSUME TypeOK, Support, UniqueActive, ProgressHasRun, RunHasProgress, [Next]_vars
    PROVE  ProgressHasRun' /\ RunHasProgress'
  <1>t. /\ work \in [WorkItems -> WorkStatus]
        /\ run \in [Runs -> Run] /\ \A s \in Runs : WellFormed(run[s])
    BY RunType DEF TypeOK
  <1>s. \A st \in {"planned", "ready", "waiting-for-decision", "in-progress",
                   "completed", "cancelled", "abandoned", "absent"} : st \in WorkStatus
    BY DEF WorkStatus, TerminalWork
  <1>d. decision \in [AllDecisions -> DecisionStatus]
    BY DEF TypeOK
  <1>i. ASSUME NEW r \in Runs, run[r].status \in ActiveRun
        PROVE  run[r].item \in WorkItems
    BY <1>i, <1>t DEF Run, WellFormed, ActiveRun, Executing
  <1>p. ASSUME NEW wk \in [WorkItems -> WorkStatus], NEW sup, NEW dec,
               work' = RecomputeWorkReadiness(wk, sup, dec, run')
        PROVE  ProgressHasRun'
    BY <1>p, Recompute DEF ProgressHasRun, HasActiveRun
  \* It remains to look at runs that were active on an item in progress.
  <1>a. ASSUME ASSUME NEW r \in Runs, run'[r].status \in ActiveRun,
                      run[r].status \in ActiveRun, run'[r].item = run[r].item,
                      run[r].item \in WorkItems, work[run[r].item] = "in-progress"
               PROVE  \/ work'[run[r].item] = "in-progress"
                      \/ /\ work'[run[r].item] = "cancelled"
                         /\ \E s \in Runs : run'[s].item = run[r].item /\ run'[s].recon # None
        PROVE  RunHasProgress'
    <2> SUFFICES ASSUME NEW r \in Runs, run'[r].status \in ActiveRun
                 PROVE  \/ work'[run'[r].item] = "in-progress"
                        \/ /\ work'[run'[r].item] = "cancelled"
                           /\ \E s \in Runs : run'[s].item = run'[r].item /\ run'[s].recon # None
      BY DEF RunHasProgress
    <2>1. CASE \E w \in WorkItems, b \in thread \cup {0} : QueueRun(r, w, b)
      <3>1. PICK w \in WorkItems, b \in thread \cup {0} : QueueRun(r, w, b)
        BY <2>1
      <3>2. run'[r].item = w /\ work' = [work EXCEPT ![w] = "in-progress"]
        BY <3>1, QueueEffect DEF Effect, QueueRun
      <3> QED
        BY <3>2, <1>t
    <2>2. CASE run[r].status \in ActiveRun /\ run'[r].item = run[r].item
      <3>1. run[r].item \in WorkItems
        BY <2>2, <1>i
      <3>2. CASE work[run[r].item] = "in-progress"
        BY <1>a, <2>2, <3>1, <3>2
      <3>3. CASE work[run[r].item] # "in-progress"
        <4>1. PICK s \in Runs : run[s].item = run[r].item /\ run[s].recon # None
          BY <2>2, <3>3 DEF RunHasProgress
        <4>2. work[run[r].item] = "cancelled"
          BY <2>2, <3>3 DEF RunHasProgress
        <4>3. Kept
          <5>1. run[r] # NoRun
            BY <2>2 DEF NoRun, ActiveRun, Executing
          <5> QED
            BY <5>1, PlanHasNoRuns, KeptStep
        <4>4. work'[run[r].item] = "cancelled"
          BY <3>1, <4>2, <4>3 DEF Kept, WorkKept, TerminalWork
        <4>5. run[s].status = "failed"
          BY <1>t, <4>1 DEF WellFormed
        <4>6. run'[s].recon # None /\ run'[s].item = run[s].item
          BY <4>1, <4>3, <4>5 DEF Kept, RunsKept, RunKept, TerminalRun
        <4> QED
          BY <2>2, <4>1, <4>4, <4>6
      <3> QED
        BY <3>2, <3>3
    <2> QED
      BY <2>1, <2>2, ActiveBefore
  <1>0. CASE UNCHANGED vars
    BY <1>0, <1>a DEF vars, ProgressHasRun, HasActiveRun
  <1>1. ASSUME NEW S \in SUBSET WorkItems, PublishPlan(S) \/ AppendChange(S)
        PROVE  ProgressHasRun' /\ RunHasProgress'
    <2>1. PICK wk \in [WorkItems -> WorkStatus], dec \in [AllDecisions -> DecisionStatus] :
             Declare(S, wk, dec)
      BY <1>1, <1>t, <1>s, <1>d DEF PublishPlan, AppendChange, DecisionStatus
    <2>2. run' = run /\ \A r \in Runs : run[r].status \notin ActiveRun
      BY <1>1 DEF PublishPlan, PlanReplaceable, AppendChange, NoRun, ActiveRun, Executing
    <2>3. DeclareWork(S, wk) \in [WorkItems -> WorkStatus]
      BY <1>s DEF DeclareWork
    <2>4. work' = RecomputeWorkReadiness(DeclareWork(S, wk), superseded, decision', run')
      BY <2>1, <2>2 DEF Declare
    <2>5. ProgressHasRun'
      BY <1>p, <2>3, <2>4
    <2>6. RunHasProgress'
      BY <2>2 DEF RunHasProgress
    <2> QED
      BY <2>5, <2>6
  <1>2. ASSUME NEW d \in AllDecisions,
               \/ \E p \in Proposals : ProposeDecision(d, p)
               \/ \E status \in {"approved", "rejected"} : DecideDecision(d, status)
        PROVE  ProgressHasRun' /\ RunHasProgress'
    <2>1. work' = RecomputeWorkReadiness(work, superseded, decision', run') /\ run' = run
      BY <1>2 DEF ProposeDecision, DecideDecision
    <2>2. RunHasProgress'
      BY <1>a, <1>t, <2>1, InProgressStays
    <2> QED
      BY <1>p, <1>t, <2>1, <2>2
  <1>4. ASSUME NEW S \in SUBSET WorkItems, NEW D \in SUBSET AllDecisions,
               AbandonWorkItems(S, D)
        PROVE  ProgressHasRun' /\ RunHasProgress'
    <2> DEFINE wk == [w \in WorkItems |-> IF w \in S THEN "abandoned" ELSE work[w]]
    <2>1. /\ work' = RecomputeWorkReadiness(wk, superseded, decision', run')
          /\ run' = run
          /\ \A w \in S : work[w] \in {"ready", "waiting-for-decision"}
      BY <1>4 DEF AbandonWorkItems
    <2>2. /\ wk \in [WorkItems -> WorkStatus]
          /\ \A w \in WorkItems : work[w] = "in-progress" => wk[w] = "in-progress"
      BY <2>1, <1>t, <1>s
    <2> HIDE DEF wk
    <2>3. RunHasProgress'
      BY <1>a, <2>1, <2>2, InProgressStays
    <2> QED
      BY <1>p, <2>1, <2>2, <2>3
  <1>5. ASSUME NEW n \in 1..MaxRevision, SaveSnapshot(n)
        PROVE  ProgressHasRun' /\ RunHasProgress'
    <2>1. UNCHANGED <<work, run>>
      BY <1>5 DEF SaveSnapshot
    <2> QED
      BY <2>1, <1>a DEF ProgressHasRun, HasActiveRun
  <1>6. ASSUME NEW r \in Runs, NEW w \in WorkItems, NEW b \in thread \cup {0},
               QueueRun(r, w, b)
        PROVE  ProgressHasRun' /\ RunHasProgress'
    <2>1. Effect(r, "queued", w, b, None, 0, None) /\ run[r].status = "absent"
      BY <1>6, QueueEffect
    <2>2. work' = [work EXCEPT ![w] = "in-progress"]
      BY <1>6 DEF QueueRun
    <2>3. ProgressHasRun'
      BY <2>1, <2>2, <1>t DEF ProgressHasRun, HasActiveRun, Effect, ActiveRun, Executing
    <2>4. RunHasProgress'
      BY <1>a, <1>t, <2>2
    <2> QED
      BY <2>3, <2>4
  <1>7. ASSUME NEW q \in Runs, CancelQueuedRun(q)
        PROVE  ProgressHasRun' /\ RunHasProgress'
    <2> DEFINE idle == NextIdleWorkStatus(run[q].item, work, superseded, decision, run)
               wk == [work EXCEPT ![run[q].item] = idle]
    <2>1. /\ run[q].status = "queued"
          /\ run' = [run EXCEPT ![q].status = "cancelled"]
          /\ work' = RecomputeWorkReadiness(wk, superseded, decision, run')
      BY <1>7 DEF CancelQueuedRun
    <2>2. idle \in WorkStatus
      BY IdleStatus, <1>s
    <2> HIDE DEF idle
    <2>3. wk \in [WorkItems -> WorkStatus]
      BY <2>2, <1>t
    <2>4. ASSUME NEW r \in Runs, run'[r].status \in ActiveRun,
                 run[r].status \in ActiveRun, run'[r].item = run[r].item,
                 run[r].item \in WorkItems, work[run[r].item] = "in-progress"
          PROVE  work'[run[r].item] = "in-progress"
      <3>1. run'[q].status = "cancelled"
        BY <2>1, MoveEffect DEF Effect
      <3>2. run[r].item # run[q].item
        BY <2>1, <2>4, <3>1 DEF UniqueActive, ActiveRun, Executing
      <3>3. wk[run[r].item] = "in-progress"
        BY <2>4, <3>2, <1>t
      <3> HIDE DEF wk
      <3> QED
        BY <2>1, <2>3, <2>4, <3>3, InProgressStays
    <2>5. RunHasProgress'
      BY <1>a, <2>4
    <2> HIDE DEF wk
    <2> QED
      BY <1>p, <2>1, <2>3, <2>5
  <1>8. ASSUME NEW r \in Runs, ClaimRun(r) \/ PublishRun(r)
        PROVE  ProgressHasRun' /\ RunHasProgress'
    <2>1. PICK st \in ActiveRun : run' = [run EXCEPT ![r].status = st]
      BY <1>8 DEF ClaimRun, PublishRun, ActiveRun, Executing
    <2>2. work' = work
      BY <1>8 DEF ClaimRun, PublishRun
    <2>3. \A s \in Runs : run[s].status \in ActiveRun =>
             run'[s].status \in ActiveRun /\ run'[s].item = run[s].item
      BY <2>1, MoveEffect DEF Effect
    <2> QED
      BY <1>a, <2>2, <2>3 DEF ProgressHasRun, HasActiveRun
  <1>9. ASSUME NEW q \in Runs, NEW n \in stored,
               CompleteRun(q, n) \/ \E d \in Decisions : AcceptCrossDomainImpact(q, d, n)
        PROVE  ProgressHasRun' /\ RunHasProgress'
    <2> DEFINE wk == [work EXCEPT ![run[q].item] = "completed"]
    <2>1. /\ run[q].status \in ActiveRun
          /\ run' = [run EXCEPT ![q].status = "completed", ![q].result = n]
          /\ work' = RecomputeWorkReadiness(wk, superseded, decision, run')
      BY <1>9 DEF CompleteRun, AcceptCrossDomainImpact, Completion, ActiveRun, Executing
    <2>3. wk \in [WorkItems -> WorkStatus]
      BY <1>s, <1>t
    <2>4. ASSUME NEW r \in Runs, run'[r].status \in ActiveRun,
                 run[r].status \in ActiveRun, run'[r].item = run[r].item,
                 run[r].item \in WorkItems, work[run[r].item] = "in-progress"
          PROVE  work'[run[r].item] = "in-progress"
      <3>1. run'[q].status = "completed"
        BY <2>1, CompleteEffect DEF Effect
      <3>2. run[r].item # run[q].item
        BY <2>1, <2>4, <3>1 DEF UniqueActive, ActiveRun, Executing
      <3>3. wk[run[r].item] = "in-progress"
        BY <2>4, <3>2, <1>t
      <3> HIDE DEF wk
      <3> QED
        BY <2>1, <2>3, <2>4, <3>3, InProgressStays
    <2>5. RunHasProgress'
      BY <1>a, <2>4
    <2> HIDE DEF wk
    <2> QED
      BY <1>p, <2>1, <2>3, <2>5
  <1>10. ASSUME NEW q \in Runs, NEW f \in Failure, FailRun(q, f)
         PROVE  ProgressHasRun' /\ RunHasProgress'
    <2> DEFINE idle == NextIdleWorkStatus(run[q].item, work, superseded, decision, run)
    <2>1. /\ run[q].status \in ActiveRun
          /\ work' = [work EXCEPT ![run[q].item] = idle]
      BY <1>10 DEF FailRun, ActiveRun
    <2>2. /\ run'[q].status = "failed" /\ run'[q].item = run[q].item
          /\ \A s \in Runs : s # q => run'[s] = run[s]
      BY <1>10, FailEffect DEF FailRun, Effect
    <2>3. idle # "in-progress"
      BY IdleStatus
    <2> HIDE DEF idle
    <2>4. ProgressHasRun'
      <3> SUFFICES ASSUME NEW w \in WorkItems, work'[w] = "in-progress"
                   PROVE  HasActiveRun(w, run')
        BY DEF ProgressHasRun, HasActiveRun
      <3>1. w # run[q].item /\ work[w] = "in-progress"
        BY <2>1, <2>3, <1>t
      <3>2. PICK s \in Runs : run[s].item = w /\ run[s].status \in ActiveRun
        BY <3>1 DEF ProgressHasRun, HasActiveRun
      <3> QED
        BY <2>2, <3>1, <3>2 DEF HasActiveRun
    <2>5. RunHasProgress'
      <3>1. ASSUME NEW r \in Runs, run'[r].status \in ActiveRun,
                   run[r].status \in ActiveRun, run[r].item \in WorkItems,
                   work[run[r].item] = "in-progress"
            PROVE  work'[run[r].item] = "in-progress"
        <4>1. run[r].item # run[q].item
          BY <2>1, <2>2, <3>1 DEF UniqueActive, ActiveRun, Executing
        <4> QED
          BY <2>1, <3>1, <4>1, <1>t
      <3> QED
        BY <1>a, <3>1
    <2> QED
      BY <2>4, <2>5
  <1>11. ASSUME NEW v \in Runs, NEW q \in Runs, NEW d \in Decisions, NEW o \in Outcome,
                ReconcileAnnotationRun(q, v, d, o)
         PROVE  ProgressHasRun' /\ RunHasProgress'
    <2> DEFINE wk == [work EXCEPT ![run[v].item] = "cancelled", ![run[q].item] = "completed"]
    <2>1. /\ run[q].status = "queued"
          /\ work' = RecomputeWorkReadiness(wk, superseded, decision', run')
      BY <1>11 DEF ReconcileAnnotationRun
    <2>2. /\ run'[q].status = "completed"
          /\ run'[v].item = run[v].item /\ run'[v].recon = o
      BY <1>11, AnnotationEffect
    <2>3. wk \in [WorkItems -> WorkStatus]
      BY <1>s, <1>t
    <2>4. o # None
      BY NoneAssumption
    <2>5. ASSUME NEW r \in Runs, run'[r].status \in ActiveRun,
                 run[r].status \in ActiveRun, run'[r].item = run[r].item,
                 run[r].item \in WorkItems, work[run[r].item] = "in-progress"
          PROVE  \/ work'[run[r].item] = "in-progress"
                 \/ /\ work'[run[r].item] = "cancelled"
                    /\ \E s \in Runs : run'[s].item = run[r].item /\ run'[s].recon # None
      <3>1. run[r].item # run[q].item
        BY <2>1, <2>2, <2>5 DEF UniqueActive, ActiveRun, Executing
      <3>2. wk[run[r].item] = IF run[r].item = run[v].item THEN "cancelled" ELSE "in-progress"
        BY <2>5, <3>1, <1>t
      <3> HIDE DEF wk
      <3>3. work'[run[r].item] = wk[run[r].item]
        BY <2>1, <2>3, <2>5, InProgressStays
      <3> QED
        BY <2>2, <2>4, <3>2, <3>3
    <2>6. RunHasProgress'
      BY <1>a, <2>5
    <2> HIDE DEF wk
    <2> QED
      BY <1>p, <2>1, <2>3, <2>6
  <1>12. ASSUME NEW r \in Runs, NEW s \in Runs, NEW w \in WorkItems, NEW c \in BOOLEAN,
                ReconcileWithSuccessor(w, r, s, c)
         PROVE  ProgressHasRun' /\ RunHasProgress'
    <2> DEFINE wk == [work EXCEPT ![w] = "cancelled"]
    <2>1. /\ work' = RecomputeWorkReadiness(wk, superseded', decision, run')
          /\ run' = run
          /\ work[w] # "in-progress"
      BY <1>12 DEF ReconcileWithSuccessor
    <2>2. /\ wk \in [WorkItems -> WorkStatus]
          /\ \A v \in WorkItems : work[v] = "in-progress" => wk[v] = "in-progress"
      BY <2>1, <1>t, <1>s
    <2> HIDE DEF wk
    <2>3. RunHasProgress'
      BY <1>a, <2>1, <2>2, InProgressStays
    <2> QED
      BY <1>p, <2>1, <2>2, <2>3
  <1> QED
    BY <1>0, <1>1, <1>2, <1>4, <1>5, <1>6, <1>7, <1>8, <1>9, <1>10, <1>11, <1>12
    DEF Next, Planning, Deciding, Abandonable, Running, Recovering

LEMMA OneActiveRunParts ==
    OneActiveRun <=> UniqueActive /\ ProgressHasRun /\ RunHasProgress
  BY DEF OneActiveRun, UniqueActive, ProgressHasRun, RunHasProgress

-----------------------------------------------------------------------------
(* Evidence of finished work. *)

(* An item becomes completed by the completion of one of its runs. *)
LEMMA NewlyCompleted ==
    ASSUME TypeOK, [Next]_vars, NEW w \in WorkItems,
           work'[w] = "completed", work[w] # "completed"
    PROVE  \E q \in Runs :
              /\ run'[q].item = w /\ run'[q].status = "completed"
              /\ run'[q].result \in thread' \/ Operation[w] = "reconcile"
  <1>t. /\ work \in [WorkItems -> WorkStatus]
        /\ run \in [Runs -> Run] /\ \A s \in Runs : WellFormed(run[s])
    BY RunType DEF TypeOK
  <1>s. \A st \in {"planned", "ready", "waiting-for-decision", "in-progress",
                   "completed", "cancelled", "abandoned", "absent"} : st \in WorkStatus
    BY DEF WorkStatus, TerminalWork
  <1>d. decision \in [AllDecisions -> DecisionStatus]
    BY DEF TypeOK
  <1>r. ASSUME NEW wk \in [WorkItems -> WorkStatus], NEW sup, NEW dec, NEW rn,
               work' = RecomputeWorkReadiness(wk, sup, dec, rn)
        PROVE  wk[w] = "completed"
    BY <1>r, Recompute DEF TerminalWork
  <1>0. ~(work' = work)
    OBVIOUS
  <1>1. ASSUME NEW S \in SUBSET WorkItems, PublishPlan(S) \/ AppendChange(S)
        PROVE  FALSE
    <2>1. PICK wk \in [WorkItems -> WorkStatus], dec \in [AllDecisions -> DecisionStatus] :
             Declare(S, wk, dec) /\ wk[w] # "completed"
      BY <1>1, <1>t, <1>s, <1>d DEF PublishPlan, AppendChange, DecisionStatus
    <2>2. DeclareWork(S, wk) \in [WorkItems -> WorkStatus] /\ DeclareWork(S, wk)[w] # "completed"
      BY <2>1, <1>s DEF DeclareWork
    <2>3. work' = RecomputeWorkReadiness(DeclareWork(S, wk), superseded, decision', run)
      BY <2>1 DEF Declare
    <2> QED
      BY <1>r, <2>2, <2>3
  <1>2. ASSUME NEW d \in AllDecisions,
               \/ \E p \in Proposals : ProposeDecision(d, p)
               \/ \E status \in {"approved", "rejected"} : DecideDecision(d, status)
        PROVE  FALSE
    <2>1. work' = RecomputeWorkReadiness(work, superseded, decision', run)
      BY <1>2 DEF ProposeDecision, DecideDecision
    <2> QED
      BY <1>r, <1>t, <2>1
  <1>4. ASSUME NEW S \in SUBSET WorkItems, NEW D \in SUBSET AllDecisions,
               AbandonWorkItems(S, D)
        PROVE  FALSE
    <2> DEFINE wk == [v \in WorkItems |-> IF v \in S THEN "abandoned" ELSE work[v]]
    <2>1. work' = RecomputeWorkReadiness(wk, superseded, decision', run)
      BY <1>4 DEF AbandonWorkItems
    <2>2. wk \in [WorkItems -> WorkStatus] /\ wk[w] # "completed"
      BY <1>t, <1>s
    <2> HIDE DEF wk
    <2> QED
      BY <1>r, <2>1, <2>2
  <1>6. ASSUME NEW r \in Runs, NEW v \in WorkItems, NEW b \in thread \cup {0},
               QueueRun(r, v, b)
        PROVE  FALSE
    BY <1>6, <1>t DEF QueueRun
  <1>7. ASSUME NEW q \in Runs, CancelQueuedRun(q) \/ \E f \in Failure : FailRun(q, f)
        PROVE  FALSE
    <2> DEFINE idle == NextIdleWorkStatus(run[q].item, work, superseded, decision, run)
               wk == [work EXCEPT ![run[q].item] = idle]
    <2>1. work' = wk \/ work' = RecomputeWorkReadiness(wk, superseded, decision, run')
      BY <1>7 DEF CancelQueuedRun, FailRun
    <2>2. idle \in {"ready", "waiting-for-decision", "planned"}
      BY IdleStatus
    <2> HIDE DEF idle
    <2>3. wk \in [WorkItems -> WorkStatus] /\ wk[w] # "completed"
      BY <1>t, <1>s, <2>2
    <2> HIDE DEF wk
    <2> QED
      BY <1>r, <2>1, <2>3
  <1>8. ASSUME NEW r \in Runs, ClaimRun(r) \/ PublishRun(r)
        PROVE  FALSE
    BY <1>0, <1>8 DEF ClaimRun, PublishRun
  <1>5. ASSUME NEW n \in 1..MaxRevision, SaveSnapshot(n)
        PROVE  FALSE
    BY <1>0, <1>5 DEF SaveSnapshot
  <1>9. ASSUME NEW q \in Runs, NEW n \in stored,
               CompleteRun(q, n) \/ \E d \in Decisions : AcceptCrossDomainImpact(q, d, n)
        PROVE  run'[q].item = w /\ run'[q].status = "completed" /\ run'[q].result \in thread'
    <2> DEFINE wk == [work EXCEPT ![run[q].item] = "completed"]
    <2>1. /\ run' = [run EXCEPT ![q].status = "completed", ![q].result = n]
          /\ work' = RecomputeWorkReadiness(wk, superseded, decision, run')
          /\ thread' = thread \cup {n}
      BY <1>9 DEF CompleteRun, AcceptCrossDomainImpact, Completion
    <2>2. run'[q].item = run[q].item /\ run'[q].status = "completed" /\ run'[q].result = n
      BY <2>1, CompleteEffect DEF Effect
    <2>3. wk \in [WorkItems -> WorkStatus] /\ (wk[w] = "completed" => w = run[q].item)
      BY <1>t, <1>s
    <2> HIDE DEF wk
    <2>4. w = run[q].item
      BY <1>r, <2>1, <2>3
    <2> QED
      BY <2>1, <2>2, <2>4
  <1>11. ASSUME NEW v \in Runs, NEW q \in Runs, NEW d \in Decisions, NEW o \in Outcome,
                ReconcileAnnotationRun(q, v, d, o)
         PROVE  run'[q].item = w /\ run'[q].status = "completed" /\ Operation[w] = "reconcile"
    <2> DEFINE wk == [work EXCEPT ![run[v].item] = "cancelled", ![run[q].item] = "completed"]
    <2>1. /\ work' = RecomputeWorkReadiness(wk, superseded, decision', run')
          /\ Operation[run[q].item] = "reconcile"
      BY <1>11 DEF ReconcileAnnotationRun, ReconciliationApproved
    <2>2. run'[q].item = run[q].item /\ run'[q].status = "completed"
      BY <1>11, AnnotationEffect
    <2>3. wk \in [WorkItems -> WorkStatus] /\ (wk[w] = "completed" => w = run[q].item)
      BY <1>t, <1>s
    <2> HIDE DEF wk
    <2>4. w = run[q].item
      BY <1>r, <2>1, <2>3
    <2> QED
      BY <2>1, <2>2, <2>4
  <1>12. ASSUME NEW r \in Runs, NEW s \in Runs, NEW v \in WorkItems, NEW c \in BOOLEAN,
                ReconcileWithSuccessor(v, r, s, c)
         PROVE  FALSE
    <2> DEFINE wk == [work EXCEPT ![v] = "cancelled"]
    <2>1. work' = RecomputeWorkReadiness(wk, superseded', decision, run)
      BY <1>12 DEF ReconcileWithSuccessor
    <2>2. wk \in [WorkItems -> WorkStatus] /\ wk[w] # "completed"
      BY <1>t, <1>s
    <2> HIDE DEF wk
    <2> QED
      BY <1>r, <2>1, <2>2
  <1> QED
    BY <1>0, <1>1, <1>2, <1>4, <1>5, <1>6, <1>7, <1>8, <1>9, <1>11, <1>12
    DEF Next, Planning, Deciding, Abandonable, Running, Recovering, vars

LEMMA EvidenceStep ==
    ASSUME TypeOK, Support, FinishedWorkHasEvidence, [Next]_vars
    PROVE  FinishedWorkHasEvidence'
  <1>k. ASSUME NEW w \in WorkItems, work[w] \in {"completed", "cancelled"}
        PROVE  Kept
    BY <1>k, PlanHasNoRuns, KeptStep
  <1>r. ASSUME Kept, NEW r \in Runs, run[r].status \in TerminalRun
        PROVE  /\ run'[r].item = run[r].item /\ run'[r].status = run[r].status
               /\ run'[r].result = run[r].result
    <2>1. run'[r] = [run[r] EXCEPT !.recon = run'[r].recon]
      BY <1>r DEF Kept, RunsKept, RunKept
    <2>2. run[r] \in Run
      BY RunType
    <2> QED
      BY <2>1, <2>2 DEF Run
  <1>1. ASSUME NEW w \in WorkItems, work'[w] = "completed"
        PROVE  \E r \in Runs :
                  /\ run'[r].item = w /\ run'[r].status = "completed"
                  /\ run'[r].result \in thread' \/ Operation[w] = "reconcile"
    <2>1. CASE work[w] # "completed"
      BY <1>1, <2>1, NewlyCompleted
    <2>2. CASE work[w] = "completed"
      <3>1. PICK r \in Runs :
               /\ run[r].item = w /\ run[r].status = "completed"
               /\ run[r].result \in thread \/ Operation[w] = "reconcile"
        BY <2>2 DEF FinishedWorkHasEvidence
      <3>2. Kept
        BY <1>k, <2>2
      <3>3. run'[r].item = w /\ run'[r].status = "completed" /\ run'[r].result = run[r].result
        BY <1>r, <3>1, <3>2 DEF TerminalRun
      <3> QED
        BY <3>1, <3>2, <3>3 DEF Kept, ThreadKept
    <2> QED
      BY <2>1, <2>2
  <1>2. ASSUME NEW w \in superseded'
        PROVE  /\ work'[w] = "cancelled"
               /\ \E r, s \in Runs :
                     /\ run'[r].item = w /\ run'[r].status \in {"failed", "cancelled"}
                     /\ run'[s].status = "completed" /\ run'[s].result \in thread'
                     /\ Predecessor[run'[s].item] = w
    <2>1. CASE w \in superseded
      <3>1. work[w] = "cancelled" /\ w \in WorkItems
        BY <2>1 DEF FinishedWorkHasEvidence, TypeOK
      <3>2. Kept
        BY <1>k, <3>1
      <3>3. PICK r \in Runs, s \in Runs :
               /\ run[r].item = w /\ run[r].status \in {"failed", "cancelled"}
               /\ run[s].status = "completed" /\ run[s].result \in thread
               /\ Predecessor[run[s].item] = w
        BY <2>1 DEF FinishedWorkHasEvidence
      <3>4. /\ run'[r].item = w /\ run'[r].status \in {"failed", "cancelled"}
            /\ run'[s].status = "completed" /\ run'[s].result = run[s].result
            /\ run'[s].item = run[s].item
        BY <1>r, <3>2, <3>3 DEF TerminalRun
      <3>5. work'[w] = "cancelled" /\ thread \subseteq thread'
        BY <3>1, <3>2 DEF Kept, WorkKept, ThreadKept, TerminalWork
      <3> QED
        BY <3>3, <3>4, <3>5
    <2>2. CASE w \notin superseded
      <3>1. PICK r \in Runs, s \in Runs, c \in BOOLEAN, v \in WorkItems :
               ReconcileWithSuccessor(v, r, s, c)
        <4>1. ~(superseded' = superseded)
          BY <1>2, <2>2
        <4>2. ~Planning /\ ~Deciding
          BY <4>1 DEF Planning, PublishPlan, AppendChange, Deciding, ProposeDecision,
                      DecideDecision, AbandonWorkItems
        <4>3. ~Running
          BY <4>1 DEF Running, SaveSnapshot, QueueRun, CancelQueuedRun, ClaimRun,
             PublishRun, CompleteRun, FailRun, AcceptCrossDomainImpact
        <4>4. \A r, q \in Runs, d \in Decisions, o \in Outcome : ~ReconcileAnnotationRun(q, r, d, o)
          BY <4>1 DEF ReconcileAnnotationRun
        <4> QED
          BY <4>1, <4>2, <4>3, <4>4 DEF Next, Recovering, vars
      <3> DEFINE wk == [work EXCEPT ![v] = "cancelled"]
      <3>2. /\ run' = run /\ superseded' = superseded \cup {v}
            /\ thread \subseteq thread'
            /\ work' = RecomputeWorkReadiness(wk, superseded', decision, run)
            /\ run[r].item = v /\ run[r].status \in {"failed", "cancelled"}
            /\ run[s].status = "completed" /\ run[s].result \in thread
            /\ Predecessor[run[s].item] = v
        BY <3>1 DEF ReconcileWithSuccessor
      <3>3. w = v
        BY <1>2, <2>2, <3>2
      <3>4. wk \in [WorkItems -> WorkStatus] /\ wk[v] = "cancelled"
        BY DEF TypeOK, WorkStatus, TerminalWork
      <3> HIDE DEF wk
      <3>5. work'[v] = "cancelled"
        BY <3>2, <3>4, Recompute DEF TerminalWork
      <3> QED
        BY <3>2, <3>3, <3>5
    <2> QED
      BY <2>1, <2>2
  <1> QED
    BY <1>1, <1>2 DEF FinishedWorkHasEvidence

-----------------------------------------------------------------------------
(* The inductive invariant and the theorems. *)

IInv ==
    /\ TypeOK
    /\ Support
    /\ OneActiveRun
    /\ Writers
    /\ RunsAreAuthorised
    /\ ReconciliationHasAuthority
    /\ FinishedWorkHasEvidence

LEMMA InvariantInit == Init => IInv
  <1> SUFFICES ASSUME Init PROVE IInv
    OBVIOUS
  <1>1. TypeOK /\ Support
    BY TypeInit, SupportInit
  <1>2. /\ \A r \in Runs : run[r].status = "absent" /\ run[r].recon = None
        /\ \A w \in WorkItems : work[w] = "absent"
        /\ superseded = {}
    BY DEF Init, NoRun
  <1>3. OneActiveRun /\ Writers
    BY <1>2 DEF OneActiveRun, Writers, SingleWriterPerBasis, QuarantineHolds, ActiveRun,
                Executing
  <1>4. RunsAreAuthorised /\ ReconciliationHasAuthority /\ FinishedWorkHasEvidence
    BY <1>2 DEF RunsAreAuthorised, ReconciliationHasAuthority, FinishedWorkHasEvidence
  <1> QED
    BY <1>1, <1>3, <1>4 DEF IInv

LEMMA InvariantStep == IInv /\ [Next]_vars => IInv'
  <1> SUFFICES ASSUME IInv, [Next]_vars PROVE IInv'
    OBVIOUS
  <1>1. TypeOK' /\ Support'
    BY TypeStep, SupportStep DEF IInv
  <1>2. UniqueActive' /\ ProgressHasRun' /\ RunHasProgress'
    BY OneActiveRunParts, UniqueStep, ProgressStep DEF IInv
  <1>3. OneActiveRun'
    BY <1>2 DEF OneActiveRun, UniqueActive, ProgressHasRun, RunHasProgress
  <1>4. Writers'
    BY WritersStep DEF IInv
  <1>5. RunsAreAuthorised' /\ ReconciliationHasAuthority' /\ FinishedWorkHasEvidence'
    BY AuthorityStep, ReconciliationStep, EvidenceStep DEF IInv
  <1> QED
    BY <1>1, <1>3, <1>4, <1>5 DEF IInv

LEMMA InvariantHolds == Spec => []IInv
  BY InvariantInit, InvariantStep, PTL DEF Spec

(* queueV3Run, claimRun and the terminal transitions keep at most one      *)
(* active run per item and never strand an item in progress without one.   *)
THEOREM OneActiveRunPerItem == Spec => []OneActiveRun
  <1>1. IInv => OneActiveRun
    BY DEF IInv
  <1> QED
    BY <1>1, InvariantHolds, PTL

(* The sibling check of the claim guard suffices: two listed writers never *)
(* execute on one basis.                                                   *)
THEOREM WritersExclude == Spec => []SingleWriterPerBasis
  <1>1. IInv => SingleWriterPerBasis
    BY DEF IInv, Writers
  <1> QED
    BY <1>1, InvariantHolds, PTL

(* A write of unknown outcome keeps its basis closed to listed writers     *)
(* until a human reconciled it, and released it if it was accepted.        *)
THEOREM QuarantineIsKept == Spec => []QuarantineHolds
  <1>1. IInv => QuarantineHolds
    BY DEF IInv, Writers
  <1> QED
    BY <1>1, InvariantHolds, PTL

(* Every queued run had its decisions approved and its dependencies        *)
(* delivered, and keeps them.                                              *)
THEOREM AuthorityIsKept == Spec => []RunsAreAuthorised
  <1>1. IInv => RunsAreAuthorised
    BY DEF IInv
  <1> QED
    BY <1>1, InvariantHolds, PTL

(* The outcome recorded on an uncertain write is the one a human approved  *)
(* for that very run.                                                      *)
THEOREM ReconciliationIsAuthorised == Spec => []ReconciliationHasAuthority
  <1>1. IInv => ReconciliationHasAuthority
    BY DEF IInv
  <1> QED
    BY <1>1, InvariantHolds, PTL

(* Completed work has a completed run with a declared result, superseded   *)
(* work a completed successor.                                             *)
THEOREM EvidenceIsKept == Spec => []FinishedWorkHasEvidence
  <1>1. IInv => FinishedWorkHasEvidence
    BY DEF IInv
  <1> QED
    BY <1>1, InvariantHolds, PTL

(* After the first run no command rewrites the project's history. *)
THEOREM HistoryStays == Spec => HistoryIsKept
  <1> DEFINE Started == thread # {} \/ \E r \in Runs : run[r].status # "absent"
  <1>1. ASSUME IInv, [Next]_vars, Started
        PROVE  /\ \A w \in WorkItems :
                     /\ Declared(w) => work'[w] # "absent"
                     /\ work[w] \in TerminalWork => work'[w] = work[w]
               /\ superseded \subseteq superseded'
               /\ \A r \in Runs : run[r].status \in TerminalRun =>
                     /\ run'[r] = [run[r] EXCEPT !.recon = run'[r].recon]
                     /\ run[r].recon # None => run'[r].recon = run[r].recon
               /\ \A d \in AllDecisions :
                     decision[d] = "approved" => decision'[d] = "approved"
               /\ thread \subseteq thread'
    <2>1. \A S \in SUBSET WorkItems : ~PublishPlan(S)
      BY <1>1, PlanHasNoRuns DEF NoRun
    <2>2. Kept
      BY <1>1, <2>1, KeptStep DEF IInv
    <2> QED
      BY <2>2 DEF Kept, RunsKept, RunKept, WorkKept, DecisionsKept, ThreadKept
  <1> QED
    BY <1>1, InvariantHolds, PTL DEF Spec, HistoryIsKept

-----------------------------------------------------------------------------
(* The thread of revisions. *)

(* Declared revisions th, durable revisions st and runs rn form a line of  *)
(* length k.                                                               *)
Line(k, th, st, rn) ==
    /\ th = 1..k
    /\ th \subseteq st /\ st \subseteq 1..(k + 1)
    /\ \A r \in Runs :
          /\ rn[r].basis \in th \cup {0}
          /\ rn[r].result # 0 => rn[r].result \in th /\ rn[r].result > rn[r].basis
    /\ \A r, s \in Runs :
          /\ rn[r].result # 0 /\ rn[r].basis = 0
          /\ rn[s].result # 0 /\ rn[s].basis = 0
          => r = s

(* The greatest number of an initial segment is its length. *)
LEMMA LastOfSegment ==
    ASSUME NEW k \in Nat, k # 0
    PROVE  (CHOOSE n \in 1..k : \A j \in 1..k : j <= n) = k
  <1>1. k \in 1..k /\ \A j \in 1..k : j <= k
    OBVIOUS
  <1>2. \A n \in 1..k : (\A j \in 1..k : j <= n) => n = k
    BY <1>1
  <1> QED BY <1>1, <1>2

LEMMA HeadOfLine ==
    ASSUME NEW k \in Nat
    PROVE  (thread = 1..k => Head = k) /\ (thread' = 1..k => Head' = k)
  <1>1. CASE k = 0
    <2>1. 1..k = {}
      BY <1>1
    <2> QED BY <1>1, <2>1 DEF Head
  <1>2. CASE k # 0
    <2>1. 1..k # {}
      BY <1>2
    <2>2. (CHOOSE n \in 1..k : \A j \in 1..k : j <= n) = k
      BY <1>2, LastOfSegment
    <2> QED BY <2>1, <2>2 DEF Head
  <1> QED BY <1>1, <1>2

LEMMA LineIsLinear ==
    ASSUME NEW k \in Nat
    PROVE  /\ Line(k, thread, stored, run) => ThreadIsLinear /\ Head = k
           /\ Line(k, thread', stored', run') => ThreadIsLinear'
  BY HeadOfLine DEF Line, ThreadIsLinear

(* Commands that leave thread, store and the bases and results of the runs *)
(* leave the line.                                                         *)
LEMMA LineKept ==
    ASSUME NEW k \in Nat, Line(k, thread, stored, run), UNCHANGED <<stored, thread>>,
           \A r \in Runs : run'[r].basis = run[r].basis /\ run'[r].result = run[r].result
    PROVE  Line(k, thread', stored', run')
  BY DEF Line

(* The executor saves the revision after a basis or a result of the line.  *)
LEMMA LineSave ==
    ASSUME TypeOK, NEW k \in Nat, Line(k, thread, stored, run),
           NEW n \in 1..MaxRevision, SaveSnapshot(n)
    PROVE  Line(k, thread', stored', run')
  <1>1. PICK r \in Runs : n = run[r].basis + 1 \/ (run[r].result > 0 /\ n = run[r].result + 1)
    BY DEF SaveSnapshot
  <1>2. run[r].basis \in 0..k /\ (run[r].result > 0 => run[r].result \in 0..k)
    BY DEF Line
  <1>3. n \in 1..(k + 1)
    BY <1>1, <1>2
  <1>4. UNCHANGED <<run, thread>> /\ stored' = stored \cup {n}
    BY DEF SaveSnapshot
  <1> QED BY <1>3, <1>4 DEF Line

(* A run is queued on the brief or on a declared revision. *)
LEMMA LineQueue ==
    ASSUME TypeOK, NEW k \in Nat, Line(k, thread, stored, run), NEW r \in Runs,
           NEW w \in WorkItems, NEW b \in thread \cup {0}, QueueRun(r, w, b)
    PROVE  Line(k, thread', stored', run')
  <1>1. /\ run'[r].basis = b /\ run'[r].result = 0
        /\ \A s \in Runs : s # r => run'[s] = run[s]
    BY QueueEffect DEF Effect
  <1>2. UNCHANGED <<stored, thread>>
    BY DEF QueueRun
  <1> QED BY <1>1, <1>2 DEF Line

(* A result is the next revision or one already declared; the first one    *)
(* is the result of the only completed run on the brief.                   *)
LEMMA LineComplete ==
    ASSUME TypeOK, NEW k \in Nat, Line(k, thread, stored, run), NEW r \in Runs,
           NEW n \in stored, ResultAdvancesBase(r, n), Completion(r, n), UNCHANGED stored,
           run[r].result = 0
    PROVE  \E m \in Nat : Line(m, thread', stored', run')
  <1>1. /\ run'[r].basis = run[r].basis /\ run'[r].result = n
        /\ \A s \in Runs : s # r => run'[s] = run[s]
    BY CompleteEffect DEF Completion, Effect
  <1>2. /\ thread' = thread \cup {n} /\ n \in 1..(k + 1) /\ n > run[r].basis
        /\ run[r].basis = 0 => n = 1 /\ thread = {}
    BY DEF Completion, ResultAdvancesBase, Line
  <1>3. ASSUME NEW s \in Runs, s # r, run[s].result # 0, run[r].basis = 0 PROVE FALSE
    BY <1>2, <1>3 DEF Line
  <1>4. \A s \in Runs : /\ run'[s].basis \in thread' \cup {0}
                        /\ run'[s].result # 0 =>
                              run'[s].result \in thread' /\ run'[s].result > run'[s].basis
    BY <1>1, <1>2 DEF Line
  <1>5. \A p, q \in Runs :
           /\ run'[p].result # 0 /\ run'[p].basis = 0
           /\ run'[q].result # 0 /\ run'[q].basis = 0
           => p = q
    BY <1>1, <1>3 DEF Line
  <1>6. CASE n = k + 1
    <2>1. thread' = 1..(k + 1) /\ thread' \subseteq stored' /\ stored' \subseteq 1..((k + 1) + 1)
      BY <1>2, <1>6 DEF Line
    <2>2. Line(k + 1, thread', stored', run')
      BY <1>4, <1>5, <2>1 DEF Line
    <2> QED BY <2>2
  <1>7. CASE n \in 1..k
    <2>1. thread' = thread
      BY <1>2, <1>7 DEF Line
    <2>2. Line(k, thread', stored', run')
      BY <1>4, <1>5, <2>1 DEF Line
    <2> QED BY <2>2
  <1>8. n = k + 1 \/ n \in 1..k
    BY <1>2
  <1> QED BY <1>6, <1>7, <1>8

(* A closeout declares the revision after the head. *)
LEMMA LineCloseout ==
    ASSUME TypeOK, NEW k \in Nat, Line(k, thread, stored, run),
           NEW w \in WorkItems, NEW r \in Runs, NEW s \in Runs, NEW c \in BOOLEAN,
           ReconcileWithSuccessor(w, r, s, c)
    PROVE  \E m \in Nat : Line(m, thread', stored', run')
  <1>1. UNCHANGED <<run, stored>>
    BY DEF ReconcileWithSuccessor
  <1>2. CASE c
    <2>1. thread' = thread \cup {k + 1} /\ k + 1 \in stored
      BY <1>2, HeadOfLine DEF ReconcileWithSuccessor, Line
    <2>2. thread' = 1..(k + 1)
      BY <2>1 DEF Line
    <2>3. Line(k + 1, thread', stored', run')
      BY <1>1, <2>1, <2>2 DEF Line
    <2> QED BY <2>3
  <1>3. CASE ~c
    <2>1. UNCHANGED thread
      BY <1>3 DEF ReconcileWithSuccessor
    <2> QED BY <1>1, <2>1, LineKept
  <1> QED BY <1>2, <1>3

LEMMA LineStep ==
    ASSUME TypeOK, [Next]_vars, NEW k \in Nat, Line(k, thread, stored, run)
    PROVE  \E m \in Nat : Line(m, thread', stored', run')
  <1>1. CASE UNCHANGED <<run, stored, thread>>
    BY <1>1, LineKept
  <1>2. ASSUME NEW n \in 1..MaxRevision, SaveSnapshot(n)
        PROVE  \E m \in Nat : Line(m, thread', stored', run')
    BY <1>2, LineSave
  <1>3. ASSUME NEW r \in Runs, NEW w \in WorkItems, NEW b \in thread \cup {0}, QueueRun(r, w, b)
        PROVE  \E m \in Nat : Line(m, thread', stored', run')
    BY <1>3, LineQueue
  <1>4. ASSUME NEW r \in Runs, CancelQueuedRun(r) \/ ClaimRun(r) \/ PublishRun(r)
        PROVE  \E m \in Nat : Line(m, thread', stored', run')
    <2>1. PICK st : run' = [run EXCEPT ![r].status = st]
      BY <1>4 DEF CancelQueuedRun, ClaimRun, PublishRun
    <2>2. \A s \in Runs : run'[s].basis = run[s].basis /\ run'[s].result = run[s].result
      BY <2>1, MoveEffect DEF Effect
    <2>3. UNCHANGED <<stored, thread>>
      BY <1>4 DEF CancelQueuedRun, ClaimRun, PublishRun
    <2> QED BY <2>2, <2>3, LineKept
  <1>5. ASSUME NEW r \in Runs, NEW n \in stored,
               CompleteRun(r, n) \/ \E d \in Decisions : AcceptCrossDomainImpact(r, d, n)
        PROVE  \E m \in Nat : Line(m, thread', stored', run')
    <2>1. /\ ResultAdvancesBase(r, n) /\ Completion(r, n) /\ UNCHANGED stored
          /\ run[r].status # "completed"
      BY <1>5 DEF CompleteRun, AcceptCrossDomainImpact
    <2>2. run[r].result = 0
      BY <2>1 DEF TypeOK
    <2> QED BY <2>1, <2>2, LineComplete
  <1>6. ASSUME NEW r \in Runs, NEW f \in Failure, FailRun(r, f)
        PROVE  \E m \in Nat : Line(m, thread', stored', run')
    <2>1. \A s \in Runs : run'[s].basis = run[s].basis /\ run'[s].result = run[s].result
      BY <1>6, FailEffect DEF FailRun, Effect
    <2>2. UNCHANGED <<stored, thread>>
      BY <1>6 DEF FailRun
    <2> QED BY <2>1, <2>2, LineKept
  <1>7. ASSUME NEW r \in Runs, NEW q \in Runs, NEW d \in Decisions, NEW o \in Outcome,
               ReconcileAnnotationRun(q, r, d, o)
        PROVE  \E m \in Nat : Line(m, thread', stored', run')
    <2>1. \A s \in Runs : run'[s].basis = run[s].basis /\ run'[s].result = run[s].result
      BY <1>7, AnnotationEffect
    <2>2. UNCHANGED <<stored, thread>>
      BY <1>7 DEF ReconcileAnnotationRun
    <2> QED BY <2>1, <2>2, LineKept
  <1>8. ASSUME NEW r \in Runs, NEW s \in Runs, NEW w \in WorkItems, NEW c \in BOOLEAN,
               ReconcileWithSuccessor(w, r, s, c)
        PROVE  \E m \in Nat : Line(m, thread', stored', run')
    BY <1>8, LineCloseout
  <1>9. CASE Planning \/ Deciding \/ UNCHANGED vars
    BY <1>1, <1>9 DEF Planning, PublishPlan, AppendChange, Deciding, ProposeDecision,
       DecideDecision, AbandonWorkItems, vars
  <1>10. CASE Running
    BY <1>2, <1>3, <1>4, <1>5, <1>6, <1>10 DEF Running
  <1>11. CASE Recovering
    BY <1>7, <1>8, <1>11 DEF Recovering
  <1> QED BY <1>9, <1>10, <1>11 DEF Next

(* Whatever is queued, completed out of turn, failed or closed out, the    *)
(* declared revisions form one line, with at most one durable revision     *)
(* ahead of it.                                                            *)
THEOREM ThreadStaysLinear == Spec => []ThreadIsLinear
  <1> DEFINE OnLine == \E k \in Nat : Line(k, thread, stored, run)
  <1>1. Init => OnLine
    <2> SUFFICES ASSUME Init PROVE OnLine
      OBVIOUS
    <2>1. Line(0, thread, stored, run)
      BY DEF Init, NoRun, Line
    <2> QED BY <2>1
  <1>2. TypeOK /\ OnLine /\ [Next]_vars => OnLine'
    BY LineStep
  <1>3. OnLine => ThreadIsLinear
    BY LineIsLinear
  <1> QED
    BY <1>1, <1>2, <1>3, LedgerTypeCorrect, PTL DEF Spec

=============================================================================
