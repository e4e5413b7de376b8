-------------------------- MODULE AdmittedExecution --------------------------
(***************************************************************************)
(* One admitted Modelica run: the executor that drives it, its write-ahead *)
(* journal, the brokered sandbox it runs in, the output store that         *)
(* publishes its result, and the thread and ledger entries that close it.  *)
(*                                                                         *)
(* SimulateRunAdmittedModelicaRunExecutor.execute may be invoked again and *)
(* again, by several processes at once, and any invocation may die between *)
(* two steps.  What survives is durable: the ledger's run status, the      *)
(* journal, the markers, fences and advance file of the output store, the  *)
(* capture, the thread snapshot, and a sandbox still running.              *)
(*                                                                         *)
(* The code runs in at most two producer generations.  Generation 0 is     *)
(* dispatched once; if it proves unpublished it is fenced and destroyed,   *)
(* and generation 1 is its only retry.                                     *)
(***************************************************************************)
EXTENDS Naturals

CONSTANTS
    Invocations,  \* concurrent calls of execute for this run
    MaxFaults,    \* bound on crashes and infrastructure failures
    None

ASSUME FaultsAssumption == MaxFaults \in Nat
Generations == {0, 1}

ASSUME NoneAssumption == None \notin Invocations \cup Generations

VARIABLES
    run,       \* status of the agent run in the project ledger
    journal,   \* the attempt journal: [phase, gen]
    marker,    \* generations whose publication marker exists
    fence,     \* generations durably closed against staging and publication
    advance,   \* does the generation-advance file (0 to 1) exist?
    staged,    \* generations with outputs left in staging
    box,       \* generation of the sandbox that carries the run id, or None
    capture,   \* is the execution capture persisted?
    thread,    \* is the documentary thread successor saved?
    lease,     \* invocation that holds the lease of the run's basis, or None
    pc,        \* where each invocation is
    seen,      \* run status each invocation read before it asked for the lease
    path,      \* the branch of execute each invocation took before the lease
    gen,       \* generation each invocation works on
    result,    \* what the sandbox left behind for the broker
    calls,     \* how often runner.run was called, per generation
    faults

durable == <<run, journal, marker, fence, advance, staged, capture, thread>>
store == <<marker, fence, advance, staged>>
vars == <<run, journal, marker, fence, advance, staged, box, capture, thread,
          lease, pc, seen, path, gen, result, calls, faults>>

RunStatus == {"queued", "running", "publishing", "completed", "failed"}
Phase == {"absent", "prepared", "dispatching", "cleaned", "published",
          "rejected", "completed"}
Path == {"historical", "replay", "execute"}
Unleased == {"idle", "read", "wait"}
Leased == Path \cup {"prepare", "resume",
           "markDispatching", "dispatch", "inside", "destroy", "stage",
           "commit", "record", "reject", "failRun", "recover", "fence", "kill",
           "markCleaned", "advance", "redispatch", "capture", "save",
           "publish", "complete", "close"}
Outcome == {"none", "outputs", "invalid", "failure"}

-----------------------------------------------------------------------------
(* Leaving an invocation, and moving inside one. *)

Goto(p, l) == pc' = [pc EXCEPT ![p] = l]

(* The invocation returns or throws; withLease releases in its finally     *)
(* block, the operating system releases the lock of a dead process.        *)
Leave(p) ==
    /\ Goto(p, "idle")
    /\ lease' = IF lease = p THEN None ELSE lease
    /\ gen' = [gen EXCEPT ![p] = 0]
    /\ result' = [result EXCEPT ![p] = "none"]
    /\ seen' = [seen EXCEPT ![p] = "queued"]
    /\ path' = [path EXCEPT ![p] = "execute"]

Stay(p, l) ==
    /\ Goto(p, l)
    /\ UNCHANGED <<lease, seen, path, gen, result>>
Fault == faults < MaxFaults /\ faults' = faults + 1

(* An invocation dies, or a store, the sandbox runtime or the ledger throws *)
(* at it, before its next step takes effect.  A broken lease is released;  *)
(* a sandbox goes on running.                                              *)
Stop(p) ==
    /\ pc[p] # "idle"
    /\ Fault
    /\ Leave(p)
    /\ UNCHANGED <<durable, box, calls>>

-----------------------------------------------------------------------------
(* The output store.  Every operation holds the run's file lock.           *)

Open(g) ==
    /\ g \notin marker
    /\ g \notin fence
    /\ IF g = 0 THEN ~advance ELSE advance

(* What resolvePublicationByRunId answers: generation 0 without marker or  *)
(* fence beside an advance file is "outcome-unknown".                      *)
Resolution(g) ==
    IF g \in marker THEN "published"
    ELSE IF g = 0 /\ g \notin fence /\ advance THEN "unknown"
    ELSE "absent"

AbortByRunId(g) ==
    /\ g \notin marker
    /\ fence' = fence \cup {g}
    /\ staged' = staged \ {g}
    /\ UNCHANGED <<marker, advance>>

-----------------------------------------------------------------------------
(* execute, before the lease. *)

Enter(p) ==
    /\ pc[p] = "idle"
    /\ Goto(p, "read")
    /\ seen' = [seen EXCEPT ![p] = run]
    /\ UNCHANGED <<durable, box, lease, path, gen, result, calls, faults>>

RecordedTerminal == journal.phase \in {"published", "rejected", "completed"}
HistoricalEligible(status) ==
    /\ status \in {"running", "failed"}
    /\ journal = [phase |-> "dispatching", gen |-> 1]

(* The journal is read after the run: the pair need not be of one moment.  *)
(* No path at all: the run is queued with a journal, active without one,   *)
(* or the publication of generation 0 cannot be resolved.                  *)
Wait(p, way) ==
    /\ Goto(p, "wait")
    /\ path' = [path EXCEPT ![p] = way]
    /\ UNCHANGED <<lease, seen, gen, result>>

Route(p) ==
    /\ pc[p] = "read"
    /\ UNCHANGED <<durable, box, calls, faults>>
    /\ \/ HistoricalEligible(seen[p]) /\ Wait(p, "historical")
       \/ RecordedTerminal /\ Wait(p, "replay")
       \/ /\ ~HistoricalEligible(seen[p])
          /\ \/ seen[p] = "queued" /\ journal.phase = "absent"
             \/ seen[p] = "running" /\ journal.phase \in {"prepared", "cleaned"}
             \/ /\ seen[p] = "running" /\ journal.phase = "dispatching"
                /\ Resolution(journal.gen) # "unknown"
          /\ Wait(p, "execute")
       \/ /\ ~RecordedTerminal
          /\ \/ seen[p] = "queued" /\ journal.phase # "absent"
             \/ seen[p] = "running" /\ journal.phase = "absent"
          /\ Leave(p)

Acquire(p) ==
    /\ pc[p] = "wait"
    /\ lease = None
    /\ lease' = p
    /\ Goto(p, path[p])
    /\ UNCHANGED <<durable, box, seen, path, gen, result, calls, faults>>

-----------------------------------------------------------------------------
(* Under the lease: every path reads the run and the journal again. *)

Work(p, g) ==
    /\ gen' = [gen EXCEPT ![p] = g]
    /\ UNCHANGED <<lease, seen, path, result>>

(* #recoverHistoricalGenerationOneClosure *)
RecoverHistorical(p) ==
    /\ pc[p] = "historical"
    /\ UNCHANGED <<durable, box, calls, faults>>
    /\ \/ /\ HistoricalEligible(run) /\ run = "running"
          /\ Goto(p, IF Resolution(1) = "published" THEN "record" ELSE "fence")
          /\ Work(p, 1)
       \/ /\ run = "failed" \/ ~HistoricalEligible(run)
          /\ Leave(p)

(* #reopenCompleted marks the journal of a completed run. *)
MarkCompleted ==
    /\ journal' = [journal EXCEPT !.phase = "completed"]
    /\ UNCHANGED <<run, store, capture, thread>>

(* #replayRecordedTerminalAttempt; a publishing run is only reread. *)
ReplayTerminal(p) ==
    /\ pc[p] = "replay"
    /\ UNCHANGED <<box, calls, faults>>
    /\ \/ /\ journal.phase = "rejected"
          /\ Stay(p, "failRun") /\ UNCHANGED durable
       \/ /\ journal.phase = "published" /\ run = "running"
          /\ Stay(p, "capture") /\ UNCHANGED durable
       \/ /\ journal.phase = "published" /\ run = "publishing"
          /\ capture /\ thread
          /\ Stay(p, "publish") /\ UNCHANGED durable
       \/ /\ journal.phase \in {"published", "completed"} /\ run = "completed"
          /\ MarkCompleted
          /\ Leave(p)

(* Mutant: an active run without a journal starts a fresh attempt. *)
ExecuteLeasedReprepares(p) ==
    /\ pc[p] = "execute"
    /\ UNCHANGED <<journal, store, capture, thread, box, calls, faults>>
    /\ \/ /\ run \in {"queued", "running"}
          /\ journal.phase = "absent" \/ run = "queued"
          /\ run' = "running"
          /\ Stay(p, "prepare")
       \/ /\ run = "running" /\ journal.phase # "absent"
          /\ Stay(p, "resume") /\ UNCHANGED run
       \/ /\ run \in {"publishing", "completed", "failed"}
          /\ Leave(p) /\ UNCHANGED run

(* #executeLeased up to the claim.  A run that became terminal while the   *)
(* invocation waited is reopened, and the journal of a completed one is    *)
(* marked.                                                                 *)
ExecuteLeased(p) ==
    /\ pc[p] = "execute"
    /\ UNCHANGED <<box, calls, faults>>
    /\ \/ /\ run = "queued"
          /\ run' = "running"
          /\ Stay(p, "prepare") /\ UNCHANGED <<journal, store, capture, thread>>
       \/ /\ run \in {"running", "publishing"}
          /\ Stay(p, "resume") /\ UNCHANGED durable
       \/ /\ run = "completed"
          /\ MarkCompleted
          /\ Leave(p)
       \/ /\ run = "failed"
          /\ Leave(p) /\ UNCHANGED durable

Prepare(p) ==
    /\ pc[p] = "prepare"
    /\ journal.phase = "absent"
    /\ journal' = [phase |-> "prepared", gen |-> 0]
    /\ Stay(p, "resume")
    /\ UNCHANGED <<run, store, capture, thread, box, calls, faults>>

(* #executeLeased after the claim, and #advanceRunningAttempt.  An active  *)
(* run without a journal is quarantined: it is never dispatched.           *)
ResumeLabel ==
    CASE journal.phase = "prepared" -> "markDispatching"
      [] journal.phase = "cleaned" -> "advance"
      [] journal.phase = "dispatching" -> "recover"
      [] journal.phase = "published" ->
            IF run = "publishing" THEN "publish" ELSE "capture"
      [] journal.phase = "rejected" -> "failRun"

Resume(p) ==
    /\ pc[p] = "resume"
    /\ UNCHANGED <<durable, box, calls, faults>>
    /\ \/ /\ journal.phase # "absent"
          /\ Goto(p, ResumeLabel)
          /\ Work(p, journal.gen)
       \/ /\ journal.phase = "absent"
          /\ Leave(p)

(* Mutant: an invocation that finds the dispatch recorded dispatches too. *)
MarkDispatchingTwice(p) ==
    /\ pc[p] \in {"markDispatching", "recover"}
    /\ gen[p] = 0
    /\ journal' = [phase |-> "dispatching", gen |-> 0]
    /\ Goto(p, "dispatch")
    /\ Work(p, 0)
    /\ UNCHANGED <<run, store, capture, thread, box, calls, faults>>

MarkDispatching(p) ==
    /\ pc[p] = "markDispatching"
    /\ journal.phase = "prepared"
    /\ journal' = [phase |-> "dispatching", gen |-> 0]
    /\ Goto(p, "dispatch")
    /\ Work(p, 0)
    /\ UNCHANGED <<run, store, capture, thread, box, calls, faults>>

-----------------------------------------------------------------------------
(* BrokeredIsolatedCodeRunner.run: create, execute, destroy, publish. *)

(* Only the local transitioned-now reaches runner.run. *)
Dispatch(p) ==
    /\ pc[p] = "dispatch"
    /\ calls' = [calls EXCEPT ![gen[p]] = @ + 1]
    /\ box = None
    /\ box' = gen[p]
    /\ Stay(p, "inside")
    /\ UNCHANGED <<durable, faults>>

(* The environment cannot be created: its cleanup is best effort. *)
DispatchFails(p) ==
    /\ pc[p] = "dispatch"
    /\ Fault
    /\ calls' = [calls EXCEPT ![gen[p]] = @ + 1]
    /\ box' \in {box, None}
    /\ Stay(p, "recover")
    /\ UNCHANGED durable

Inspect(p) ==
    /\ pc[p] = "inside"
    /\ \E o \in {"outputs", "invalid", "failure"} :
           result' = [result EXCEPT ![p] = o]
    /\ Goto(p, "destroy")
    /\ UNCHANGED <<durable, box, lease, seen, path, gen, calls, faults>>

(* Nothing is released before the destruction of the sandbox is proven. *)
Destroy(p) ==
    /\ pc[p] = "destroy"
    /\ box' = None
    /\ Stay(p, CASE result[p] = "outputs" -> "stage"
                 [] result[p] = "invalid" -> "reject"
                 [] OTHER -> "recover")
    /\ UNCHANGED <<durable, calls, faults>>

(* Mutant: the outputs of an environment that may still run are kept. *)
DestroyUnprovenPublishes(p) ==
    /\ pc[p] = "destroy"
    /\ Fault
    /\ Stay(p, IF result[p] = "outputs" THEN "stage" ELSE "recover")
    /\ UNCHANGED <<durable, box, calls>>

DestroyUnproven(p) ==
    /\ pc[p] = "destroy"
    /\ Fault
    /\ Stay(p, "recover")
    /\ UNCHANGED <<durable, box, calls>>

Stage(p) ==
    /\ pc[p] = "stage"
    /\ Open(gen[p])
    /\ staged' = staged \cup {gen[p]}
    /\ Stay(p, "commit")
    /\ UNCHANGED <<run, journal, marker, fence, advance, capture, thread,
                   box, calls, faults>>

(* A batch that cannot be staged, or is staged wrongly, closes its own     *)
(* generation with abortByRunId, which may fail too.                       *)
StageFails(p) ==
    /\ pc[p] = "stage"
    /\ Fault
    /\ \/ AbortByRunId(gen[p])
       \/ UNCHANGED store
    /\ Stay(p, "recover")
    /\ UNCHANGED <<run, journal, capture, thread, box, calls>>

Commit(p) ==
    /\ pc[p] = "commit"
    /\ Open(gen[p])
    /\ marker' = marker \cup {gen[p]}
    /\ staged' = staged \ {gen[p]}
    /\ Stay(p, "record")
    /\ UNCHANGED <<run, journal, fence, advance, capture, thread, box, calls,
                   faults>>

(* The commit throws before or after its marker is durable, and the broker *)
(* cannot tell which: no receipt, and the executor must ask the store.     *)
CommitFails(p) ==
    /\ pc[p] = "commit"
    /\ Fault
    /\ \/ marker' = marker
       \/ Open(gen[p]) /\ marker' = marker \cup {gen[p]}
    /\ staged' \in {staged, staged \ {gen[p]}}
    /\ Stay(p, "recover")
    /\ UNCHANGED <<run, journal, fence, advance, capture, thread, box, calls>>

RecordPublished(p) ==
    /\ pc[p] = "record"
    /\ journal.phase = "dispatching" /\ journal.gen = gen[p]
    /\ journal' = [journal EXCEPT !.phase = "published"]
    /\ Stay(p, "capture")
    /\ UNCHANGED <<run, store, capture, thread, box, calls, faults>>

RecordRejected(p) ==
    /\ pc[p] = "reject"
    /\ journal.phase = "dispatching"
    /\ journal' = [journal EXCEPT !.phase = "rejected"]
    /\ Stay(p, "failRun")
    /\ UNCHANGED <<run, store, capture, thread, box, calls, faults>>

-----------------------------------------------------------------------------
(* #recoverDispatch and #redispatchGenerationOne. *)

(* Mutant: recovery polls the store until the output appears. *)
RecoverPolls(p) ==
    /\ pc[p] = "recover"
    /\ UNCHANGED <<durable, box, calls, faults>>
    /\ Stay(p, IF Resolution(gen[p]) = "published" THEN "record" ELSE "recover")

Recover(p) ==
    /\ pc[p] = "recover"
    /\ UNCHANGED <<durable, box, calls, faults>>
    /\ Resolution(gen[p]) # "unknown"
    /\ Stay(p, IF Resolution(gen[p]) = "published" THEN "record" ELSE "fence")

(* destroyByRunId closes the store first, then the sandbox. *)
FenceGeneration(p) ==
    /\ pc[p] = "fence"
    /\ AbortByRunId(gen[p])
    /\ Stay(p, "kill")
    /\ UNCHANGED <<run, journal, capture, thread, box, calls, faults>>

(* The abort fails: the sandbox is still destroyed, and the call throws. *)
FenceFails(p) ==
    /\ pc[p] = "fence"
    /\ Fault
    /\ box' \in {box, None}
    /\ Leave(p)
    /\ UNCHANGED <<durable, calls>>

(* Mutant: a sandbox that does not answer counts as destroyed. *)
KillUnproven(p) ==
    /\ pc[p] = "kill"
    /\ box' \in {box, None}
    /\ UNCHANGED <<durable, calls, faults>>
    /\ \/ gen[p] = 0 /\ Stay(p, "markCleaned")
       \/ gen[p] = 1 /\ path[p] = "historical" /\ Stay(p, "failRun")
       \/ gen[p] = 1 /\ path[p] # "historical" /\ Leave(p)

(* Mutant: no invocation fails a run whose retry is spent. *)
KillNeverFails(p) ==
    /\ pc[p] = "kill"
    /\ box' = None
    /\ UNCHANGED <<durable, calls, faults>>
    /\ \/ gen[p] = 0 /\ Stay(p, "markCleaned")
       \/ gen[p] = 1 /\ Leave(p)

(* Once the retry is spent, the invocation on the historical path fails    *)
(* the run; any other throws and leaves it running.                        *)
Kill(p) ==
    /\ pc[p] = "kill"
    /\ box' = None
    /\ UNCHANGED <<durable, calls, faults>>
    /\ \/ gen[p] = 0 /\ Stay(p, "markCleaned")
       \/ gen[p] = 1 /\ path[p] = "historical" /\ Stay(p, "failRun")
       \/ gen[p] = 1 /\ path[p] # "historical" /\ Leave(p)

MarkCleaned(p) ==
    /\ pc[p] = "markCleaned"
    /\ journal = [phase |-> "dispatching", gen |-> 0]
    /\ journal' = [phase |-> "cleaned", gen |-> 0]
    /\ Stay(p, "advance")
    /\ UNCHANGED <<run, store, capture, thread, box, calls, faults>>

(* Mutant: the advance consumes the fence of generation 0. *)
AdvanceConsumesFence(p) ==
    /\ pc[p] = "advance"
    /\ marker = {} /\ 0 \in fence /\ 1 \notin fence
    /\ advance' = TRUE
    /\ fence' = {}
    /\ Stay(p, "redispatch")
    /\ UNCHANGED <<run, journal, marker, staged, capture, thread, box, calls,
                   faults>>

AdvanceGeneration(p) ==
    /\ pc[p] = "advance"
    /\ marker = {} /\ 0 \in fence /\ 1 \notin fence
    /\ advance' = TRUE
    /\ Stay(p, "redispatch")
    /\ UNCHANGED <<run, journal, marker, fence, staged, capture, thread, box,
                   calls, faults>>

(* Mutant: the dispatch count is recorded as the producer generation. *)
MarkRedispatchingByCount(p) ==
    /\ pc[p] = "redispatch"
    /\ journal.phase = "cleaned"
    /\ journal' = [phase |-> "dispatching", gen |-> 2]
    /\ Stay(p, "dispatch")
    /\ UNCHANGED <<run, store, capture, thread, box, calls, faults>>

MarkRedispatching(p) ==
    /\ pc[p] = "redispatch"
    /\ journal.phase = "cleaned"
    /\ journal' = [phase |-> "dispatching", gen |-> 1]
    /\ Goto(p, "dispatch")
    /\ Work(p, 1)
    /\ UNCHANGED <<run, store, capture, thread, box, calls, faults>>

-----------------------------------------------------------------------------
(* #finalizePublishedOutput, and the terminal failures. *)

PersistCapture(p) ==
    /\ pc[p] = "capture"
    /\ capture' = TRUE
    /\ Stay(p, "save")
    /\ UNCHANGED <<run, journal, store, thread, box, calls, faults>>

SaveThread(p) ==
    /\ pc[p] = "save"
    /\ thread' = TRUE
    /\ Stay(p, "publish")
    /\ UNCHANGED <<run, journal, store, capture, box, calls, faults>>

(* Mutant: the ledger is told before the thread is saved. *)
PublishEarly(p) ==
    /\ pc[p] \in {"capture", "save", "publish"}
    /\ run \in {"running", "publishing"}
    /\ run' = "publishing"
    /\ Stay(p, IF pc[p] = "publish" THEN "complete" ELSE pc[p])
    /\ UNCHANGED <<journal, store, capture, thread, box, calls, faults>>

(* #publishExact replays the receipt of a run already publishing. *)
PublishRun(p) ==
    /\ pc[p] = "publish"
    /\ run \in {"running", "publishing"}
    /\ run' = "publishing"
    /\ Stay(p, "complete")
    /\ UNCHANGED <<journal, store, capture, thread, box, calls, faults>>

CompleteRun(p) ==
    /\ pc[p] = "complete"
    /\ run = "publishing"
    /\ run' = "completed"
    /\ Stay(p, "close")
    /\ UNCHANGED <<journal, store, capture, thread, box, calls, faults>>

CompleteAttempt(p) ==
    /\ pc[p] = "close"
    /\ MarkCompleted
    /\ Leave(p)
    /\ UNCHANGED <<box, calls, faults>>

(* Mutant: the failure is recorded whatever became of the run. *)
FailAnyRun(p) ==
    /\ pc[p] \in {"failRun", "recover"}
    /\ run' = "failed"
    /\ Leave(p)
    /\ UNCHANGED <<journal, store, capture, thread, box, calls, faults>>

(* #failOutputValidationRejected, or the closed retry generation; a run    *)
(* that failed already is only replayed.                                   *)
FailRun(p) ==
    /\ pc[p] = "failRun"
    /\ run \in {"running", "failed"}
    /\ run' = "failed"
    /\ Leave(p)
    /\ UNCHANGED <<journal, store, capture, thread, box, calls, faults>>

-----------------------------------------------------------------------------
Init ==
    /\ run = "queued"
    /\ journal = [phase |-> "absent", gen |-> 0]
    /\ marker = {} /\ fence = {} /\ staged = {}
    /\ advance = FALSE /\ capture = FALSE /\ thread = FALSE
    /\ box = None
    /\ lease = None
    /\ pc = [p \in Invocations |-> "idle"]
    /\ seen = [p \in Invocations |-> "queued"]
    /\ path = [p \in Invocations |-> "execute"]
    /\ gen = [p \in Invocations |-> 0]
    /\ result = [p \in Invocations |-> "none"]
    /\ calls = [g \in Generations |-> 0]
    /\ faults = 0

(* What an invocation does when nothing fails under it. *)
Step(p) ==
    \/ Enter(p) \/ Route(p) \/ Acquire(p)
    \/ RecoverHistorical(p) \/ ReplayTerminal(p) \/ ExecuteLeased(p)
    \/ Prepare(p) \/ Resume(p) \/ MarkDispatching(p)
    \/ Dispatch(p) \/ Inspect(p) \/ Destroy(p) \/ Stage(p) \/ Commit(p)
    \/ RecordPublished(p) \/ RecordRejected(p)
    \/ Recover(p) \/ FenceGeneration(p) \/ Kill(p) \/ MarkCleaned(p)
    \/ AdvanceGeneration(p) \/ MarkRedispatching(p)
    \/ PersistCapture(p) \/ SaveThread(p) \/ PublishRun(p)
    \/ CompleteRun(p) \/ CompleteAttempt(p) \/ FailRun(p)

Failure(p) ==
    \/ Stop(p) \/ DispatchFails(p) \/ DestroyUnproven(p) \/ StageFails(p)
    \/ CommitFails(p) \/ FenceFails(p)

Next == \E p \in Invocations : Step(p) \/ Failure(p)

Spec == Init /\ [][Next]_vars

(* A caller told to retry the exact command does so, and an invocation     *)
(* that is neither dead nor waiting for the lease goes on.                 *)
Fairness == \A p \in Invocations : WF_vars(Step(p))
LiveSpec == Spec /\ Fairness

-----------------------------------------------------------------------------
(* The shape of the durable state and of every invocation.                 *)
TypeOK ==
    /\ run \in RunStatus
    /\ journal \in [phase : Phase, gen : Generations]
    /\ marker \subseteq Generations /\ fence \subseteq Generations
    /\ staged \subseteq Generations
    /\ advance \in BOOLEAN /\ capture \in BOOLEAN /\ thread \in BOOLEAN
    /\ box \in Generations \cup {None}
    /\ lease \in Invocations \cup {None}
    /\ pc \in [Invocations -> Unleased \cup Leased]
    /\ seen \in [Invocations -> RunStatus]
    /\ path \in [Invocations -> Path]
    /\ gen \in [Invocations -> Generations]
    /\ result \in [Invocations -> Outcome]
    /\ calls \in [Generations -> Nat]
    /\ faults \in 0..MaxFaults

(* How far the journal has come. *)
Progress ==
    CASE journal.phase = "absent" -> 0
      [] journal.phase = "prepared" -> 1
      [] journal.phase = "dispatching" /\ journal.gen = 0 -> 2
      [] journal.phase = "cleaned" -> 3
      [] journal.phase = "dispatching" /\ journal.gen = 1 -> 4
      [] journal.phase \in {"published", "rejected"} -> 5
      [] journal.phase = "completed" -> 6

(* The write-ahead rule: runner.run is called at most once per generation, *)
(* however often the command is retried and wherever invocations die, and  *)
(* never before the journal durably names that generation.                 *)
OneDispatchPerGeneration ==
    \A g \in Generations :
        /\ calls[g] <= 1
        /\ calls[g] = 1 => /\ Progress >= (IF g = 0 THEN 2 ELSE 4)
                           /\ g = 1 => journal.gen = 1

(* The two generations never overlap: while generation 1 has a sandbox, an *)
(* output or a dispatch, generation 0 is fenced and has published nothing, *)
(* so that the run has at most one published output.                       *)
GenerationsDoNotOverlap ==
    (box = 1 \/ 1 \in staged \/ 1 \in marker \/ calls[1] > 0)
        => 0 \in fence /\ 0 \notin marker /\ advance /\ box # 0

(* An output is published only when the sandbox that made it is gone, and  *)
(* a published generation is never fenced: nobody closes what was          *)
(* published, whoever recovers from an uncertain commit.                   *)
PublishedIsQuiet ==
    \A g \in marker : box # g /\ g \notin fence

(* What the ledger reports is backed by durable evidence: a publishing or  *)
(* completed run has the marker its journal names, the capture and the     *)
(* thread successor, and no sandbox is left.                               *)
ReportedIsBacked ==
    run \in {"publishing", "completed"} =>
        /\ journal.phase \in {"published", "completed"}
        /\ journal.gen \in marker
        /\ capture /\ thread
        /\ box = None

(* A failed run is closed for good: its outputs were rejected or both      *)
(* generations are fenced, nothing was published, nothing still runs, and  *)
(* no thread successor was written for it.                                 *)
FailedIsClosed ==
    run = "failed" =>
        /\ marker = {}
        /\ journal.phase = "rejected" \/ fence = Generations
        /\ box = None
        /\ ~thread

Quarantined ==
    /\ run = "running"
    /\ journal.phase = "absent"
    /\ \A p \in Invocations : pc[p] # "prepare"

(* The journal only moves forward, and a recorded output is never changed  *)
(* for another: a retry after an uncertain answer adopts what is there.  A *)
(* run claimed by an invocation that died before it could prepare the      *)
(* journal is quarantined for ever: no retry dispatches or closes it.      *)
JournalMovesForward ==
    [][/\ Progress' >= Progress
       /\ journal.phase = "rejected" => journal' = journal
       /\ marker \subseteq marker' /\ fence \subseteq fence'
       /\ Quarantined => Quarantined' /\ calls' = calls]_vars

(* Retrying the exact command is enough: a run with a journal ends, once   *)
(* the bounded number of failures is used up.                              *)
JournalledRunEnds ==
    (run \in {"running", "publishing"} /\ journal.phase # "absent")
        ~> (run \in {"completed", "failed"})

(* A live invocation never keeps the lease of the basis for ever.          *)
LeaseIsReturned == \A p \in Invocations : (lease = p) ~> (lease # p)

(* The program of a run has one effect, whoever retries it and dies.       *)
RunsOnce == OneDispatchPerGeneration /\ GenerationsDoNotOverlap /\ PublishedIsQuiet

(* What the ledger says of a run agrees with the durable evidence.         *)
LedgerIsBacked == TypeOK /\ ReportedIsBacked /\ FailedIsClosed

(* Retries end the run, and the basis is free for the next one.            *)
RunsEnd == JournalledRunEnds /\ LeaseIsReturned
=============================================================================
