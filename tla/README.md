# A TLA+ verification of the engineering project thread

The repository lets people and agents carry an engineering project from an approved brief to
evidence. Everything that happens is recorded twice: in an append-only *project* (a chain of
immutable revisions holding plan, decisions, runs and receipts) and in a *thread* (a chain of
immutable snapshots holding the engineering facts). Several processes (Workbench server, MCP
server, desktop host, scripts) apply commands to the same files, executors call providers that
may die with a write half done, and humans decide, cancel, reconcile and release in between.
Below them a control plane starts and qualifies the container groups providers run in, and a
desktop host keeps conversations with agents and the one provider it manages itself. This
directory models that core, checks it with TLC and proves most of its safety with TLAPS.

## 1. Inventory

Paths are relative to `src/src/` unless they start with `desktop/` or `scripts/`.

| Component | State | Operations | Interacts with | Hard behaviour | What makes it correct |
|---|---|---|---|---|---|
| Project revision store (`adapters/shared/stores/engineering-project-store.ts`) | `NNNNNNNNNN.claim` and `.json` files | `get`, `getRevision`, `createInitial`, `commit` | called by every command handler of every process | createNew race, crash between claim and rename, bounded wait | one chain, no lost or rewritten revision, fail closed on an orphan claim |
| Command boundary (`application/use-cases/project/engineering-project-command-service.ts`, `project-brief-command-service.ts`, seeding in `adapters/project/engineering-project-command-runtime.ts`) | none of its own: receipts in the snapshot | `apply`, `replay`, `startProject` | store | retries from any process, reused command ids, stale answers | at most once, acknowledged means durable, stale means never applied |
| Project ledger commands (`application/use-cases/project/commands/`, validation in `domain/project/`) | work items, decisions, approvals, blockers, runs, declared snapshots | plan, append change, propose, approve, reject, abandon, queue, cancel, claim, progress, publish, complete, fail, accept impact, reconcile (two kinds) | boundary, thread store, guard | long legal sequences of commands from humans and agents | one active run per item, authority behind runs, evidence behind completed work, history kept |
| Thread-write basis guard (`adapters/shared/thread-write-basis-guard.ts`) with reconciliation and release (`domain/record/`) | reads the ledger | claim check, executor check | ledger, executors | siblings change between queueing and claiming, unknown outcomes | one listed writer per basis, quarantine until a human resolved it |
| Thread snapshot store (`adapters/shared/stores/file-thread-snapshot-store.ts`, `domain/thread/`) | snapshot and revision-claim files | `get`, `latest`, `save` | executors, completion validators | crash inside `save`, saved but undeclared revisions | one snapshot per revision, results reach their basis |
| Run lease (`adapters/shared/stores/file-engineering-project-run-lease.ts`) | lock files | `withLease` | executors | released by the operating system on process death | one executor per run and basis |
| Project brief commands | questions, answers, brief revisions | propose, record, propose brief, approve, reject | boundary | review of a brief that changed | the approved brief is the reviewed one |
| Operation registry (`orchestration/operations/registry.ts`) | static table | lookups | ledger, executors | none | table is closed |
| Admitted executors and attempt journals (`adapters/modelica/admitted`, `adapters/electrical/spice/admitted`, `adapters/cad/isolated`) | journal files, captured outputs | execute, resume, publish | ledger, lease, runner, thread store | crash at every phase, resumed attempts | at most one provider execution per attempt, no result without a journal |
| Live writers (`adapters/cad/canonical`, `adapters/architecture`, `adapters/sensitivity`, `adapters/make`, `adapters/fea`, `adapters/buy`) | captures | lease, guard, claim, write, save, publish, complete | ledger, providers | uncertain provider writes | uncertain failures are reported as such |
| Brokered isolated runner, sandbox backend, output store (`application/use-cases/compile/isolation`, `adapters/shared/execution`, `adapters/shared/cas`) | sandboxes, output objects | run, cancel, collect | executors | cancellation against completion, cleanup failure | nothing leaks, outputs match their manifest |
| Capability runtime control plane (`application/control-plane`, `adapters/control-plane`, `domain/capability`) | launch groups, qualification attempts, authorization ledger | start, stop, qualify, authorize | Docker, microsandbox, desktop | restarts, timeouts, partial starts | no execution on an unqualified or unauthorised runtime |
| Technical compilation and operation plans (`domain/compile`, `adapters/compile`) | sealed documents | compile, admit, resolve | executors | none: pure validation | seals bind what was reviewed |
| Source analysers (`adapters/cad/source`, `domain/cad/source`) | none | parse, lower | compilation | unbounded text | out of reach of TLC |
| Desktop chat (`desktop/src/chat`, `desktop/src/chat-host`) | conversations, turns, persist tail, saved work | send, cancel, close, MCP switch, stop, capture, viewer read | agents, MCPs, tool runtime | awaits between check and use, rejected saves, crash | the agent has the transcript, cancelled turns never run, saved work is there |
| Desktop tool runtime (`desktop/src/tool-runtime`, `desktop/main.ts`) | step journal, intent, demand, idle timer, gate | prepare, ensure, stop, restart, reconcile, drain | Docker, chat host | crash inside a step, leftover containers, late answers | ready is proven, one exact provider, idle ones stop |
| Workbench and UI (`scripts/serve`, `presentation`, `ui`) | projections | read | store | none that changes state | not modelled: rendering |

`PROJECT.json` lists the same components with their status, and under `hazards` the places of
the code that are hard to test, each with the properties that watch it.

## 2. Plan

| | Modules | State |
|---|---|---|
| 1 | `ProjectLog`, `ProjectRevisionStore`: the commit protocol | modelled, proved |
| 2 | `ProjectLedger`: the commands above it, atomic as 1 justifies | modelled, proved |
| 3 | `ThreadLog`, `ThreadWriters`: lease, executor-side guard, thread store, process death; the executors' view of 2 | modelled, proved |
| 4 | `AdmittedExecution`: attempt journal, broker, sandbox, output store, recovery | modelled, proved |
| 5 | `LaunchGroup`, `RuntimeQualification`: the capability control plane | modelled, proved |
| 6 | `ChatCoordinator`, `WorkArchive`, `ToolPreparation`, `ToolRuntime`: the desktop host | modelled, proved |
| 7 | `ProjectBrief` (questions, answers, review) and the project capability ledger | next |

Modules 3 to 6 are written to be proved about as well: no recursion, one action per step, parts
of invariants named.

## 3. Modules and their correspondence to the code

### ProjectLog (abstract)

What the handlers promise: `head`, `log` (the receipts) and `answered`. `Create`, `Apply`,
`AnswerApplied` and `AnswerStale` are atomic. Error answers that promise nothing are left out.

### ProjectRevisionStore

A *handler* is one invocation of `apply`, `startProject` or the seeding code in some process;
its `pc` advances at the awaits. `claims` and `json` are the two kinds of files; pending files
are invisible to readers and left out. A request is the record `[kind, id, expected]`: its
equality stands for equality of request fingerprints, the `id` for `commandId`. Snapshots keep
revision, request (the snapshot id is derived from both), `previous` and receipts.

| Action | Code |
|---|---|
| `Invoke` | a caller submits; any request may be submitted again |
| `GetFailsClosed` | `get` throws on an unpublished claim; inside `commit` the throw is the conflict that leads to the winner branch |
| `NotFound`, `Replay`, `StaleRevision`, `AlreadyExists` | the early returns of `apply`, `startProject` and the seeding, before the draft and after a lost commit |
| `DraftInitial`, `DraftSuccessor`, `UpdateAccepted`, `Refuse` | building the draft; whether the domain accepts it is nondeterministic here |
| `Commit` | the second `get` and the comparison in `commit` |
| `Claim`, `StopWaiting`, `Publish` | `writeExclusive`: createNew of the claim, the bounded wait of a loser, pending write and rename |
| `Return`, `Crash` | the answer; a process death or I/O error at any step |

`readDir` is read as one step. Entries present before the enumeration are always returned, and
one that appears meanwhile is a file of a later instant: seeing it or not gives the answer of a
read just after or just before.

### ProjectLedger

One action per command of `EngineeringProjectCommandService`, atomic because module 1 shows
that applied commands form one log. `work`, `superseded`, `decision`, `proposal`, `run`,
`thread` are the parts of the snapshot the properties can tell apart; `stored` is the thread
snapshot store. `ValidSuccessor` holds the checks of `validateEngineeringProjectSnapshot` and
`validateEngineeringProjectExtension` that can refuse a draft the transitions built; it is a
conjunct of every command. The trailing `recomputeWorkReadiness` is part of the actions that
call it, and absent from `FailRun`, as in the code.

Abstractions: an operation is one of five kinds (`baseline`, `writer` = listed in
`THREAD_WRITE_OPERATIONS`, `unlisted`, `reconcile`, `impact`); failure codes are three classes
(`plain`, `uncertain` = terminal uncertain codes and qualified lifecycles, `local` =
non-reconciliable local write); a basis is a revision number, 0 for the approved brief; a run's
own name stands for its basis release decision and blocker, whose identifiers the code derives
from the run. The run status `waiting-for-decision` is declared by the code and never assigned.
`progressRun` changes a summary only: it is a stuttering step.

### ThreadLog (abstract) and ThreadWriters

`ThreadLog` is an append-only log of results. `ThreadWriters` is what implements it: processes
that execute runs of one thread. `Execute` and `Acquire` are `withLease`, then the steps follow
`RecordSealPreSizingWorksheetRunExecutor.execute`: guard, `claimRun`, guard again, `save` in its
file operations (look up, claim file, document), `publishRun`, `completeRun`, or `failRun`.
`team` says of each run whether its operation is listed in `THREAD_WRITE_OPERATIONS` and which of
the three failure policies found in the executors its executor has. Lease owners that die give
the lease back; retries repeat the exact command.

### AdmittedExecution

One admitted Modelica run with everything durable about it: ledger status, journal phase and
generation, markers, fences and the advance file of the output store, capture, thread successor,
and the sandbox that may still run. The steps are those of `#executeLeased`,
`#advanceRunningAttempt`, `BrokeredIsolatedCodeRunner.run` and `recover`, and
`FileIsolatedOutputCas`; each failing or unknown answer is an action of its own (`DispatchFails`,
`DestroyUnproven`, `CommitFails`, `FenceFails`, ...). Status and path are read before the lease
and used after it, as in the code.

### LaunchGroup

The supervisor's operations on one launch group. `Call` reads the clock, then waits for the host
mutex; under it come the preconditions, the intent, the effect on each container, the outcome and
the lease. `host` is what the containers really are, `journal` what the supervisor wrote,
`GroupTip` the entry with the latest `plannedAt`. Assumed: calls have distinct instants, a session
uses one group, a lease expires only for a user without a live process, nobody else touches the
containers, Docker does nothing after the process that asked it died, and `failed` means no
effect or a readiness timeout. Removal of materials is left out.

### RuntimeQualification

One attempt of `CapabilityRuntimeQualificationService`: the event and claim files of its log, the
attempt's lock, and several operators in `apply` and `recover` at once. Reads happen without the
lock and are used under it. The group is reduced to six states, the provider to whether a receipt
exists. Modelled is the service for Chrono; the cleanup of a failed start that only CalculiX has
is in `LaunchGroup`. A stop is never uncertain, `apply` refuses once the review changed, and
sessions use the group only after the attempt.

### ChatCoordinator

One standalone conversation with one MCP it can attach. The code between two awaits is an action:
the IPC loop (one command at a time, as `chat-host/main.ts` serves them), the chain of turns, the
persist tail and `stop()` interleave. `held` is what each agent session really got, `live` the
prompts agents work on. Agents die with the host; their sessions keep their history.

### WorkArchive

Captures, redeliveries and retirements of tool results, viewer reads, and the one persist tail
through which bytes and manifests reach the store, with the index write and the prune of a save
as two steps. The store is the one the host uses, `chat-host/node-store.ts`; `chat/store.ts` holds
its interface and the same algorithm. A result has one export; retention of conversations is left out. `issued` and
`unbacked` are history: the revisions handed out, and the entries the last restart read from the
index as saved although their bytes are not in the store.

### ToolPreparation

The six steps of one provider's preparation, each journalled before and after it acts, and the
resume rules of `prepareToolRuntime`. Engine, network, installer and provider end every call in
any way the code tells apart; the update flow, which nothing calls, is left out. A setting says
whether an absent engine can be installed here (`install`): not at all (no macOS), only if somebody
supplied the approval, or, as the shipped program is composed, never (`"unasked"`). A fetch that
fails leaves no file; one that starts leaves a partial installer until its last byte. `EngineAppears`
is the user who installs or starts an engine by hand.

### ToolRuntime

`ToolRuntimeLifecycle` with its gate, demand and idle timer, `chat-demand.ts` around it, the Chat
Host's inbox, startup and shutdown of `main.ts`. The catalogue takes the operator's commands as long
as the window is there (`Served`): also during a drain, after one that failed or was given up
(`DrainTimesOut`, the 12 s of `shutdown.ts`), and between its end and the exit. Conversations need a
live Chat Host and are refused from the moment a quit begins (`chat/bindings.ts:360`). `app` is
`"reopened"` once an ensure of the operator ran behind a finished drain. Preparation is one call. Ports, the binding file
and the shutdown report are left out; a failed stop or removal has no effect, containers do not
drift, a conversation has one command in flight, enabling is atomic in the host, and the Chat
Host dies only with the Desktop.

The `MC` modules give the constants their values. In the modules from `LaunchGroup` on, the
variable `setting`, `left` or `budget` is chosen initially from the settings and holds who takes part, what
may go wrong and how often: one run then covers several surroundings, and properties that hold
only in some of them say so (`budget.sound`, `budget.timely`, `left.patient`, ...).

## 4. Runs

| Run | Instance | Checks |
|---|---|---|
| `store` | 2 handlers, one of which may die at every step; 5 requests (start, seed, three mutations, one reusing an id); 33,000 states | type, chain, at most once, durable acknowledgement, final staleness, immutability, orphan claims, refinement of `ProjectLog`, unpublished claims resolve |
| `ledger` | five portfolios of three or four items (below); 3 or 4 runs; 77,000 states | type, one active run, authority, linear thread, single writer, quarantine, authority of reconciliation, evidence, history |
| `ledger_retry` (violation) | baseline; 2 runs | finding 1 |
| `ledger_strand` (violation) | baseline, writer, reconciliation; 4 runs | finding 2 |
| `execution` | 2 invocations, 4 faults; 50,000 states | `RunsOnce`, `LedgerIsBacked`, `JournalMovesForward`, `RunsEnd` |
| `writers` | 2 processes, 2 runs, 3 revisions, 3 faults, four teams; 37,000 states | `ThreadIsBacked`, `ImplementsThreadLog`, `WritersAreServed` |
| `launch` | two sessions with 4 calls and a fault; a session and an attempt with 3 calls and 1 or 2 faults, with and without readiness check; 1.9 million states | `UsersKeepTheGroup`, `JournalIsTrue`, `MutationsAreSafe` |
| `qualification` | apply beside recover, past the deadline or revoked; one operator with 2 faults, revocation, deadline and sessions; 97,000 states | `AttemptIsSound`, `OutcomeIsFinal`, `StartedAttemptStops` |
| `chat` | seven settings of 1 to 3 sends with cancels, a close, MCP switches, questions, dying agents, a rejected save, a crash, a stop; 271,000 states | `AgentKnows`, `ConversationIsSound`, `TurnsComeToRest` |
| `archive` | 2 conversations, 3 calls, 2 digests; 3 captures with a rejected write or a crash, 2 with both, 4 with room for two; 1.7 million states | `ArchiveIsSound` |
| `preparation` | ten settings: every first engine, with and without a way to install one and the retry flag, cooperative or not, a crash and 2 mishaps; 469,000 states | `ReadyIsProven`, `EndedSmokeStays`, `InvocationsSucceed` |
| `runtime` | five settings: up to 2 leftovers, 1 or 2 conversations, a viewer operation, operator commands, late answers and refused endpoints, outages, a crash; two quits with operator commands before, between and behind their drains; 569,000 states | `ProviderIsExact`, `IdleProviderStops` |

The named properties of the later modules are conjunctions; their parts, each with its own
comment, stand above them in the module, and `PROJECT.json` has a mutant of the code for every
part: `RunsOnce` is "one dispatch per generation, generations do not overlap, a published output
is quiet", and so on.

Bounds. Two handlers are enough for every race of the store: a third can only lose the same
claim, and the theorems remove the bound. Five requests give competing mutations on two
revisions, a reused id and a race for the first revision. The ledger's portfolios (constraint
`OnePortfolio`) are a baseline and a writer with an unlisted writer, with a human impact
decision, with a reconciliation, with a successor and a reconciliation, and with a successor and
a dependent; four runs allow baseline, failed attempt, reconciliation and a second attempt (three
where a successor and a reconciliation meet), and each can produce its revision. In `execution`
four faults let both generations fail and a third recovery go wrong. In `writers` two runs on one
basis and a third revision give a winner, an overtaken sibling and a next writer. In `launch`
three or four calls are what it takes to start, join, leave and come back. The bounds of the
desktop runs give each pair of activities a chance to meet between any two awaits. Names that are
interchangeable are symmetric in the runs that check no liveness. Deadlock is not checked where
the bounded inputs run out: a project, conversation or group nobody uses may stop.

Fairness. `store`: weak fairness of the step of the handler that cannot die; every await is a
local file operation or a 2 ms timer. `execution`: weak fairness of invocations, which stands for
a caller that retries the exact command as the error tells it. `writers`: the same, and strong
fairness of the lease, which the operating system grants in turn, and of retries. `qualification`:
an operator goes on or is asked to recover, and time passes. `chat`: the event loop, the store and
agents go on, a user who is asked again and again answers. `preparation`: an invocation goes on;
only in cooperative settings is preparation invoked again, the engine started, and one of the
pulls good; nobody has to install or start an engine by hand. `runtime`:
the event loop, engine calls, the timer and the host go on. Faults are
bounded, never fair.

### Findings

1. `ledger_retry`: the second baseline attempt can never complete once a first one failed or
   was cancelled, because `run-receipt-invariants.ts:60` looks for a missing result and not for
   an active status, as its message says.
2. `ledger_strand`: `reconcile-uncertain-writer-transition.ts:226` cancels the failed item
   although a second run of it may be queued; that run can be neither cancelled, failed nor
   completed, and an active run refuses every appended change.

`PROJECT.json` quotes the documents.

### Divergences seen while modelling

Each of these is the exception a property states, and TLC violates the property without it.

- *Thread writers.* The guard (`thread-write-basis-guard.ts:172`) does not see runs of unlisted
  operations: when one dies running, a listed sibling of its basis is admitted beside it, and the
  overtaken run stays running. `VerifyEvaluateSensitivityBaseRunExecutor` fails its run also after
  the snapshot was saved; the undeclared revision then occupies the basis.
- *Launch groups.* The instant that orders the journal is read before the mutex is taken
  (`capability-runtime-launch-group-supervisor.ts:1902`): with two waiting operations the tip is
  not the last mutation, and a group left half done can be started again (`InCallOrder`). For the
  same reason a repeated cleanup of an attempt can trust its own succeeded stop while an operation
  called earlier has started the group again, and give up the last lease over a running group
  (found by the proof of `MutationsStaySafe`; it takes four calls).
- *Qualification.* A recorded receipt is judged only with the bearer, so without it the group is
  never stopped; an operator that dies between the stop and its event, followed by a session,
  leaves the attempt at its outcome.
- *Chat.* `#requireSettledForMcpSwitch` passes between two queued turns, and the second marks its
  messages known under the new session key (`left.patient`). A rejected save in a turn ends it for
  the coordinator while the agent goes on, so a second prompt reaches the same session; a rejected
  save of a send leaves the conversation queued without a turn (`left.sound`). A question asked
  while `#stop` waits for `ensureSession` stays pending. A close that the agent refuses has set the
  status (`coordinator.ts:1101`) and saves nothing: after a stop the next process restores the
  conversation open (found by the proof of `StopSavesAll`, which states the exception).
- *Work archive.* When the bytes of a result are rejected while another save waits behind them,
  the index calls them saved until the result's own save, and a crash in between restores an entry
  that is called saved and stays so (`unbacked`; found by the proof of `SavedIsBacked`, which states
  the exception). A viewer read between the entry and its bytes marks a good result missing for
  good.
- *Preparation.* A crash while the smoke call is out leaves its step `running`, and the next
  invocation sends it again although `preparation.ts:8` asks for an explicit retry flag. A resumed
  acquisition inherits the attempts of the interrupted one (`preparation.ts:556`; `intent.ts:125`
  says each invocation owns a fresh budget). An installer cut short is kept and refused for ever
  (`preparation.ts:439`, `InstallerBlocks`). No caller passes `retryFailedSmoke`
  (`preparation.ts:194`), so a smoke that ended badly is final (`SmokeBlocks`). Nobody supplies
  `confirmInstall` (`catalogue/startup.ts:43`), so an absent engine is refused for ever on macOS
  (`preparation.ts:388`), as it is on every other platform (`preparation.ts:378`), until a user
  installs one (`InstallBlocks`).
- *Tool runtime.* A second enable, refused because a turn runs, releases the demand of a
  conversation that stays attached (`chat-demand.ts:130`). The idle stop reads the demand before
  it awaits the engine (`lifecycle.ts:612`), so it can land inside a viewer call. A provider
  started by the operator, or for a command whose answer came too late or whose endpoint the host
  refused (`chat-demand.ts:111`), gets no idle timer. A
  detach whose answer is late keeps its demand, and a conversation closed while attached counts
  as attached after a restart (`chat-demand.ts:174`). A prepare or restart of the operator given
  during a drain, or between its end and the exit, goes behind it and can start the provider again,
  and so does the second half of a restart given before (`lifecycle.ts:155`, `218`, `317`;
  `catalogue/bindings.ts:52`), although a quit is to leave owned providers stopped (`main.ts:213`).
  `QuitStopsProviders` says that nothing else does: TLC shows the exception when `"reopened"` is
  counted as `"drained"`.

## 5. Proofs

TLAPS proves these for every number of handlers, requests, items, runs, decisions, revisions,
processes, containers, calls and faults. Every module's main theorem is `Spec => []IInv` for its
inductive invariant `IInv`; TLC has checked each `IInv` on small instances as well.

`ToolPreparationProofs` and `ChatCoordinatorProofs` each extend two modules and hold the theorems
of both, of `ToolRuntime` and `WorkArchive` last. So that they can, these two modules name their
specifications and bounds apart (`RuntimeSpec`, `ArchiveSpec`, `budget`); the theories share no
variable and no lemma.

**ProjectRevisionStoreProofs.** `TypeCorrect`, `NoLostUpdate`, `AppliedAtMostOnce`,
`AcknowledgedStays`, `StaleStaysUnapplied`, `PublishedStays`, `OrphanStays`,
`StoreImplementsLog`. Assumptions: the shape of requests. None of the invariants is inductive:
that a revision is published once needs that at most one handler is past the claim of each
number and that its draft extends a published head. `IInv` therefore adds to the type
invariant: `JsonInv` (chain, receipts complete for every revision below), `ClaimInv` (published
revisions are claimed, at most one claim is ahead), `HandlerInv` (a handler that publishes owns
its claim; drafts extend published snapshots) and `AnswerInv` (what an answer says of the
files). Refinement then maps `Publish` to `Create` or `Apply`, the answering steps to the two
answers, and every other step to a stutter.

**ProjectLedgerProofs.** `LedgerTypeCorrect`, `OneActiveRunPerItem`, `WritersExclude`,
`QuarantineIsKept`, `AuthorityIsKept`, `ReconciliationIsAuthorised`, `EvidenceIsKept`,
`HistoryStays`, `ThreadStaysLinear`. Assumptions: references stay inside the plan, decisions belong to one item,
run and decision names differ, `None` is no name. The argument has three layers. `Support`
says that ready items are justified, that runs belong to declared items and that decisions of
undeclared items are untouched; without it an appended change could reset an approved decision.
`KeptStep` shows from it, action by action, that every command but a plan replacement keeps
what history consists of; a plan replacement requires that no run exists. `Origins` says which
command can make a run queued, executing, failed or reconciled. Each invariant then has a
short step: what held is kept, and what is new came from the one command whose guard
establishes it. `QuarantineHolds` needs `SingleWriterPerBasis`: a writer that fails uncertainly
cannot do so beside a second writer that would then execute on a quarantined basis.

`ThreadIsLinear` is inductive with the type, once the head is named (`Line(k, ...)`): a run is
queued on the brief or a declared revision, a save adds the revision after a basis or a result, and
a completion on the brief requires an empty thread.

**ThreadWritersProofs.** `ThreadStaysBacked`, `WritersImplementLog`. Assumption: the shape of
teams, `None` names nothing. `IInv` adds to `ThreadIsBacked` `LeaseInv` (a process past `Acquire`
holds the lease of its run's basis, and from the claim to the completion that basis is the head),
`SaveInv` (what a process inside `save` knows of the claim and the document) and `ClaimInv` (a claim
names a claimed run of the revision before, and is at most one ahead of the head).
Refinement maps completion to `Append` of the document the store holds for the next revision;
`DeclaredIsBacked` makes the mapped log well defined.

**AdmittedExecutionProofs.** `ExecutionInvariant`, `LedgerStaysBacked`, `RunTakesEffectOnce`,
`JournalIsForward`. Assumption: `None` is no invocation and no generation. `JournalInv` ties each
journal phase to the fences, markers, sandbox and dispatch counts that are possible in it,
`MarkerInv` says the only published generation is the journal's and its sandbox is gone, `RunInv`
that the ledger follows the journal, and `HolderInv` what the one invocation that holds the lease
may believe at each of its steps. Facts read before the lease are constrained only as far as the
checks after it make them: a stale status or path costs a refusal, never an effect.

**ToolPreparationProofs.** `PreparationInvariant`, `ReadyStaysProven`, `SmokeIsNotRepeated`.
Assumption: at least one acquisition attempt, the shape of settings. `CoreInv` says that this
invocation has seen every step behind the one it stands at (`SeenBehind`) and ties the smoke's
journalled status to what the host counts of it (`SmokeInv`).

**LaunchGroupProofs.** `GroupInvariant`, `UsersAlwaysKeepTheGroup`, `JournalStaysTrue`,
`MutationsStaySafe`. Assumption: a finite, nonempty set of containers, sessions and attempts differ, the shape of
settings. The argument:
an instant belongs to one caller, so an entry can be traced to one operation (`InstantInv`,
`OpInv`), and an attempt whose start is in the journal finds it again, hence acts once (`OnceInv`).
One operation at a time is inside the mutex (`MutexInv`). With the calls in order the tip is the
last entry, and it describes the containers (`OrderInv`, `TipInv`, `HostInv`). The holder of the
mutex knows, at each of its steps, who protects the group (`HolderInv`), which gives `UserInv`:
a live session has its lease and running containers, a probe is alone. `FailedStartInv` is what a
cleanup relies on, `FrozenInv` what a half-done group implies of the tip; the two action
properties follow from them. The first version of `ReleaseLeavesNothingRunning` had no proof: the
attempt showed a repeated cleanup beyond the bounds of the run (see Divergences), TLC confirmed it
with four calls and the property now states the exception.

**RuntimeQualificationProofs.** `QualificationInvariant`, `AttemptStaysSound`,
`OutcomeStaysFinal`. Assumption: `Nobody` is no operator, the shape of settings. Every event is
published by an operator that has just read the log under the lock, or that holds the lock over
two files and knows from the first what the second will meet. `Log` says what event and claim
files can stand together; `PhaseTells` turns the phase that was read into the events that are not
there, so what is added fits (`Log` again) and the log stays readable. A claim file is created
only where none exists, so its creator is the only operator that may call the provider: this is
`Knows`, which says what an operator knows at each of its steps. `StoryInv` ties the log to the
provider, the verdict and the group, `StoreInv` the attestations to the three of them. The action
property follows because every step that publishes reads a phase, and an outcome leaves only two.

**ChatCoordinatorProofs.** `ChatInvariant`, `AgentAlwaysKnows`, `ConversationStaysSound`.
Assumption: the shape of settings. Three layers, as the properties have three audiences. Of every
user: `IdInv` and `SendInv` put a message in one place on its way to the agent (being saved, queued,
in the turn, with an agent), and a queued message was dropped exactly when its epoch is not the
conversation's; `CloseInv` says that what is queued behind a close was cancelled by it. Of a
patient user (`PatientInv`): one message at a time is outstanding and an MCP switch meets no turn
(`OneAtATime`, `KeyInv`), so what any snapshot calls known is held (`HeldInv`); whatever an open
session does not hold is dropped or outstanding (`SessionInv`), and the history before the turn's
message is held or in its seed (`PromptInv`) until the confirmation makes it held. On a sound disk
(`SoundInv`): the only prompt at work is the turn's, and between turns the last snapshot queued, or
the disk, says what the conversation is (`Settled`), which a stop then flushes. `StopSavesAll`
first asked for equality of disk and memory and had no proof: a restored conversation that was
running is idle in memory, and a refused close is not saved. TLC confirmed both with one send.

`ArchiveInvariant`, `ArchiveStaysSound` (same module, on `WorkArchive`). Assumption: the shape of
settings, and that a sound store rejects no write. What a conversation keeps, in memory, in each waiting snapshot and in the index on disk,
has one entry of a call and of a revision (`KeptInv`); revisions in use were issued, and a capture
about to append has its call's or a newer one (`RevisionInv`); a write in the tail is the one its
capture waits for (`TailInv`). The core is `EntryInv`: the bytes of an entry called saved are there
and named by every waiting snapshot, so that no prune takes them, or their write is in the tail
with every snapshot behind it naming them, or the write was rejected and the capture still has to
mark the entry. A snapshot is taken of the current results, hence names every entry there is. On a
sound store `DiskInv` adds that each snapshot reaches the disk after the bytes it names. The first
`SavedIsBacked` had no proof: `DiskInv` fails once a write was rejected and the process dies, and
the property now excludes what the restart found lost (see Divergences).

`RuntimeInvariant`, `ProviderStaysExact` (in `ToolPreparationProofs`, on `ToolRuntime`).
Assumption: conversations and viewer operations have different names, which are none of the three
other callers' names, and a timely setting has no late answers and no refused endpoints. `LiveIsExact` is not inductive, as
it speaks only of moments without an engine call under way; `LiveInv` has it at every moment, which
is true because `ensure` stops only what does not fit, and what does not fit is not live
(`LiveFits`). `ClearInv` gives `EnsurePrepares` what it needs: from the second stage of an ensure to
its last nothing runs but one provider of the pinned image, and no other job can interfere because
only the first of the gate has begun (`GateInv`). `StartInv` says what is under way in each phase of
a start, so that no command meets it; `DrainInv` that behind a drain only the operator's commands,
idle stops and further drains wait (`Late`) and that a drain can be at the gate only while a quit is
under way or unresolved: no conversation starts again what a drain has stopped, and an ensure of
the operator that does is seen (`"reopened"`). Nothing restricts when the operator's commands come.
For `DemandIsBacked`, `TimelyInv` pairs each command with its one job
(`JobsWait`) or message (`MessagesWait`): an answer then meets the command it is for, and `Backed`
follows action by action.

Only model-checked: liveness (`ClaimsResolve` and every `~>` of the other modules; it needs
fairness), `BaselineRetryCompletes` and `QueuedRunCancels` (they use `ENABLED`).

## 6. Not modelled

- The SPICE and Build123d executors and the provider-calling writers (`adapters/cad`,
  `adapters/architecture`, `adapters/fea`, `adapters/make`): they follow the protocols of
  `AdmittedExecution` and `ThreadWriters` with their own journals and messages; what they compute
  is numerical or provider I/O.
- The content of the project brief, and the project capability ledger
  (`file-project-capability-ledger-store.ts`): planned.
- Operation registry (a static table), technical compilation and operation plans (validation of
  documents without concurrent state), source analysers (parsers over unbounded text), Workbench
  server, projections and user interface (reading and rendering). They make up most of the
  repository's lines.
- Within the ledger: texts, actors, timestamps, evidence references, phases, gate claims and
  approvals' own records; the lifecycle qualifier's reading of attempt journals (a failure's class
  is an input); a runtime wired without `uncertainWriterLifecycle`, which installs no claim guard.
- Reads of corrupt files, which fail closed everywhere.
- In the control plane: removal of materials, sessions over several groups, drift of containers
  by third parties. In the desktop: several MCPs or tools, project conversations, retention of
  conversations, ports and volumes, and the update and removal flows of `backend.ts`, which no
  caller reaches.
