--------------------------- MODULE ToolPreparation ---------------------------
(***************************************************************************)
(* Preparation of one provider by the Desktop host                         *)
(* (desktop/src/tool-runtime/preparation.ts, intent.ts).  An invocation    *)
(* walks six steps; each step is journalled "running" before it acts and   *)
(* "done", "failed" or "uncertain" after, in a file replaced by rename.    *)
(* A later invocation, after a failure or a crash, resumes from that       *)
(* journal.  Invocations of one tool are serialized by backend.ts.         *)
(*                                                                         *)
(* Docker, the network, the installer and the provider are external: each  *)
(* call ends in any way the code tells apart.  The plan's image is the     *)
(* journal's: the update flow that changes it is called by no one.         *)
(***************************************************************************)
EXTENDS Naturals, Sequences, FiniteSets

\* What detectToolRuntimeEngine tells apart.
Engines == {"absent", "stopped", "incompatible", "ready"}

CONSTANTS
  ACQUIRE_MAX_ATTEMPTS,  \* 3 in the code
  Settings               \* the surroundings a tool is prepared in

\* retry: the values of retryFailedSmoke callers pass, {FALSE} in the code;
\* first: what is installed when the tool is first prepared; install: a host
\* that is not macOS, a macOS host whose caller supplies no confirmInstall
\* ("unasked", the Desktop program), one whose caller does; cooperative: the
\* user invokes again, starts the engine, and pulls do not fail for ever;
\* crash bounds the deaths of the Desktop process, mishap the external calls
\* that fail and the outages in between.
Setting == [retry : SUBSET BOOLEAN \ {{}}, first : Engines,
            install : {"unsupported", "unasked", "asked"}, cooperative : BOOLEAN,
            crash : Nat, mishap : Nat]

ASSUME PreparationAssumption ==
  /\ ACQUIRE_MAX_ATTEMPTS \in Nat \ {0}
  /\ Settings \subseteq Setting

VARIABLES
  journal,    \* status of each step in the durable intent
  attempts,   \* attempts of acquire-image in the durable intent
  engine,     \* the OCI engine
  dmg,        \* the installer on disk
  image,      \* the pinned image in the engine
  container,  \* the owned container
  provider,   \* what a readiness probe of a running container sees
  at,         \* where the invocation stands
  flag,       \* retryFailedSmoke of the invocation
  answer,     \* outcome of the last invocation
  seen,       \* what this invocation has observed to hold
  smokes,     \* smoke calls sent; whether one was verified, and whether
              \* one ended that the operator has not asked to repeat
  left        \* the setting, with what is left of its bounds

world == <<engine, dmg, image, container, provider>>
vars == <<journal, attempts, engine, dmg, image, container, provider, at,
          flag, answer, seen, smokes, left>>

PREPARATION_STEPS == <<"detect-engine", "ensure-engine", "acquire-image",
                       "start-owned", "readiness", "smoke">>
Steps == {PREPARATION_STEPS[i] : i \in 1 .. Len(PREPARATION_STEPS)}
Statuses == {"pending", "running", "done", "failed", "uncertain"}

Index(s) == CHOOSE i \in 1 .. Len(PREPARATION_STEPS) : PREPARATION_STEPS[i] = s

Idle == [step |-> "none", phase |-> "idle"]
At(s, phase) == at = [step |-> s, phase |-> phase]
GoTo(s, phase) == at' = [step |-> s, phase |-> phase]

Spend(thing) ==
  /\ left[thing] > 0
  /\ left' = [left EXCEPT ![thing] = @ - 1]
Mishap == Spend("mishap")
Free == UNCHANGED left

\* transition: the in-memory intent and the file change together, by rename.
transition(s, status) == journal' = [journal EXCEPT ![s] = status]

\* The loop leaves a verified or finished step for the next one, or answers.
Advance(s) ==
  IF s = "smoke"
  THEN at' = Idle /\ answer' = "ready"
  ELSE GoTo(PREPARATION_STEPS[Index(s) + 1], "visit") /\ UNCHANGED answer

\* failStep
failStep(s, status, code) ==
  /\ transition(s, status)
  /\ at' = Idle
  /\ answer' = code
  /\ UNCHANGED seen

finishStep(s) ==
  /\ transition(s, "done")
  /\ Advance(s)
  /\ seen' = seen \cup {s}

-----------------------------------------------------------------------------
\* prepareToolRuntime: the walk over the journal

prepareToolRuntime(retry) ==
  /\ at = Idle
  /\ Free
  /\ GoTo("detect-engine", "visit")
  /\ flag' = retry
  /\ answer' = "none"
  /\ seen' = {}
  /\ UNCHANGED <<journal, attempts, world, smokes>>

\* Mutant: a smoke that ended badly is reset like any other step.
ResetSmokeToo(s) == TRUE

\* Mutant: a failed step stops every later invocation, smoke or not.
ResetOnRequest(s) == flag

\* A failed or uncertain step is run again, smoke only on request.
MayRetry(s) == s # "smoke" \/ flag

resumeRefusal(s) ==
  /\ At(s, "visit")
  /\ journal[s] \in {"failed", "uncertain"}
  /\ ~MayRetry(s)
  /\ at' = Idle
  /\ answer' = "smoke-refused"
  /\ Free
  /\ UNCHANGED <<journal, attempts, world, flag, seen, smokes>>

resetForRetry(s) ==
  /\ At(s, "visit")
  /\ journal[s] \in {"failed", "uncertain"}
  /\ MayRetry(s)
  /\ transition(s, "pending")
  /\ attempts' = IF s = "acquire-image" THEN 0 ELSE attempts
  /\ smokes' = [smokes EXCEPT !.ended = @ /\ ~(s = "smoke" /\ flag)]
  /\ Free
  /\ UNCHANGED <<world, at, flag, answer, seen>>

\* Mutant: the step acts before the journal says it runs.
ActFirst(s) ==
  /\ At(s, "visit")
  /\ journal[s] \in {"pending", "running"}
  /\ GoTo(s, "act")
  /\ Free
  /\ UNCHANGED <<journal, attempts, world, flag, answer, seen, smokes>>

\* runStep: the attempt is counted and journalled before the step acts.
runStep(s) ==
  /\ At(s, "visit")
  /\ journal[s] \in {"pending", "running"}
  /\ transition(s, "running")
  /\ attempts' = IF s = "acquire-image" THEN attempts + 1 ELSE attempts
  /\ GoTo(s, "act")
  /\ Free
  /\ UNCHANGED <<world, flag, answer, seen, smokes>>

ImageVerifies == engine = "ready" /\ image = "exact"
ownedContainerRunning == engine = "ready" /\ container = "running"
ProviderReady == ownedContainerRunning /\ provider = "ready"

\* What can be observed again of a step recorded done.  The engine steps
\* simply run again.
Truth(s) ==
  CASE s = "acquire-image" -> ImageVerifies
    [] s = "start-owned" -> ownedContainerRunning
    [] s = "readiness" -> ProviderReady
    [] OTHER -> FALSE

\* Mutant: the journal is trusted for every step but the engine's.
TrustJournal(s) == s \notin {"detect-engine", "ensure-engine"}

\* A completed smoke is never executed again.
StillHolds(s) == s = "smoke" \/ Truth(s)

reverifyStep(s) ==
  /\ At(s, "visit")
  /\ journal[s] = "done"
  /\ Free
  /\ UNCHANGED <<attempts, world, flag, smokes>>
  /\ \/ /\ StillHolds(s)
        /\ seen' = seen \cup {f \in {s} : Truth(s)}
        /\ Advance(s)
        /\ UNCHANGED journal
     \/ /\ ~StillHolds(s)
        /\ UNCHANGED <<answer, seen>>
        /\ IF s = "acquire-image"
           THEN transition(s, "failed") /\ GoTo(s, "reacquire")
           ELSE transition(s, "pending") /\ UNCHANGED at

\* verifyOwnedImage journalled the failure; the step goes back to pending.
reacquire ==
  /\ At("acquire-image", "reacquire")
  /\ transition("acquire-image", "pending")
  /\ GoTo("acquire-image", "visit")
  /\ Free
  /\ UNCHANGED <<attempts, world, flag, answer, seen, smokes>>

-----------------------------------------------------------------------------
\* The steps

stepDetectEngine ==
  /\ At("detect-engine", "act")
  /\ finishStep("detect-engine")
  /\ Free
  /\ UNCHANGED <<attempts, world, flag, smokes>>

\* stepEnsureEngine and failUnusableEngine; an absent engine may be
\* installed if the user approves, and is observed again after the answer.
stepEnsureEngine ==
  /\ \E phase \in {"act", "approved"} : At("ensure-engine", phase)
  /\ engine # "absent"
  /\ IF engine = "ready"
     THEN finishStep("ensure-engine")
     ELSE failStep("ensure-engine", "failed", "engine-unusable")
  /\ Free
  /\ UNCHANGED <<attempts, world, flag, smokes>>

\* installEngine: nothing is installed off macOS or without asking the user.
confirmInstall ==
  /\ At("ensure-engine", "act")
  /\ engine = "absent"
  /\ UNCHANGED <<attempts, world, flag, smokes>>
  /\ \/ /\ left.install = "asked"
        /\ GoTo("ensure-engine", "approved")
        /\ Free
        /\ UNCHANGED <<journal, answer, seen>>
     \/ /\ IF left.install = "asked" THEN Mishap ELSE Free
        /\ failStep("ensure-engine", "failed",
                    IF left.install = "unsupported"
                    THEN "install-unsupported-platform"
                    ELSE "install-approval-required")

InstallFails == failStep("ensure-engine", "failed", "install-failed")

\* downloadInstaller keeps any file it finds.
KeepInstaller == dmg # "none"

\* downloadInstaller: a request that fails leaves no file; after the answer
\* the file is opened and exists, whole or not.
downloadInstaller ==
  /\ At("ensure-engine", "approved")
  /\ engine = "absent"
  /\ UNCHANGED <<attempts, engine, image, container, provider, flag, smokes>>
  /\ \/ /\ KeepInstaller
        /\ GoTo("ensure-engine", "verify")
        /\ Free
        /\ UNCHANGED <<journal, dmg, answer, seen>>
     \/ /\ ~KeepInstaller
        /\ GoTo("ensure-engine", "downloading")
        /\ dmg' = "partial"
        /\ Free
        /\ UNCHANGED <<journal, answer, seen>>
     \/ /\ ~KeepInstaller
        /\ InstallFails
        /\ Mishap
        /\ UNCHANGED dmg

DownloadEnds ==
  /\ At("ensure-engine", "downloading")
  /\ UNCHANGED <<attempts, engine, image, container, provider, flag, smokes>>
  /\ \/ /\ dmg' = "whole"
        /\ GoTo("ensure-engine", "verify")
        /\ Free
        /\ UNCHANGED <<journal, answer, seen>>
     \/ Mishap /\ InstallFails /\ UNCHANGED dmg

\* verifyInstallerSignature, installMacOSPackage, waitForDaemon
installMacOSPackage ==
  /\ At("ensure-engine", "verify")
  /\ UNCHANGED <<attempts, dmg, image, container, provider, flag, smokes>>
  /\ \/ /\ dmg # "whole"
        /\ InstallFails
        /\ Free
        /\ UNCHANGED engine
     \/ /\ dmg = "whole"
        /\ engine # "incompatible"
        /\ engine' = "ready"
        /\ finishStep("ensure-engine")
        /\ Free
     \/ /\ dmg = "whole"
        /\ InstallFails
        /\ IF engine = "incompatible" THEN Free ELSE Mishap
        /\ engine' \in IF engine = "absent" THEN {"absent", "stopped"} ELSE {engine}

\* Mutant: a failed pull is not counted.
UncountedRetry == attempts

\* A failed pull is journalled as one more attempt of the running step.
CountRetry == attempts + 1

\* stepAcquireImage, the pull works and verifyOwnedImage judges the image.
PullSucceeds ==
  /\ At("acquire-image", "act")
  /\ engine = "ready"
  /\ UNCHANGED <<attempts, engine, dmg, container, provider, flag, smokes>>
  /\ \/ /\ image' = "exact"
        /\ finishStep("acquire-image")
        /\ Free
     \/ /\ image' = "other"
        /\ failStep("acquire-image", "failed", "image-unverified")
        /\ Mishap

\* stepAcquireImage, the pull fails: once more while the budget lasts.
PullFails ==
  /\ At("acquire-image", "act")
  /\ Free
  /\ UNCHANGED <<world, flag, smokes>>
  /\ IF attempts < ACQUIRE_MAX_ATTEMPTS
     THEN /\ attempts' = CountRetry
          /\ UNCHANGED <<journal, at, answer, seen>>
     ELSE /\ failStep("acquire-image", "failed", "image-acquire-failed")
          /\ UNCHANGED attempts

\* stepStartOwned: compose may leave a container behind when it fails.
stepStartOwned ==
  /\ At("start-owned", "act")
  /\ UNCHANGED <<attempts, engine, dmg, image, flag, smokes>>
  /\ \/ /\ ownedContainerRunning
        /\ finishStep("start-owned")
        /\ Free
        /\ UNCHANGED <<container, provider>>
     \/ /\ ~ownedContainerRunning
        /\ engine = "ready"
        /\ image # "none"
        /\ container' = "running"
        /\ provider' \in {"starting", "ready"}
        /\ finishStep("start-owned")
        /\ Free
     \/ /\ ~ownedContainerRunning
        /\ \E code \in {"port-conflict", "start-failed"} :
             failStep("start-owned", "failed", code)
        /\ IF engine = "ready" /\ image # "none"
           THEN Mishap /\ container' \in {container, "stopped"}
           ELSE Free /\ UNCHANGED container
        /\ UNCHANGED provider

\* stepReadiness: polls until the provider answers or the deadline passes.
stepReadiness ==
  /\ At("readiness", "act")
  /\ UNCHANGED <<attempts, engine, dmg, image, container, flag, smokes>>
  /\ \/ /\ ownedContainerRunning
        /\ provider \in {"starting", "ready"}
        /\ provider' = "ready"
        /\ finishStep("readiness")
        /\ Free
     \/ /\ IF ownedContainerRunning THEN Mishap ELSE Free
        /\ \E code \in {"readiness-timeout", "readiness-tools-mismatch"} :
             failStep("readiness", "failed", code)
        /\ UNCHANGED provider

\* stepSmoke sends one tool call and waits for its result or the timeout.
SmokeCall ==
  /\ At("smoke", "act")
  /\ GoTo("smoke", "called")
  /\ smokes' = [smokes EXCEPT !.calls = @ + 1]
  /\ Free
  /\ UNCHANGED <<journal, attempts, world, flag, answer, seen>>

SmokeUncertain ==
  /\ failStep("smoke", "uncertain", "smoke-uncertain")
  /\ smokes' = [smokes EXCEPT !.ended = TRUE]
  /\ Mishap

stepSmoke ==
  /\ At("smoke", "called")
  /\ UNCHANGED <<attempts, world, flag>>
  /\ \/ /\ ProviderReady
        /\ finishStep("smoke")
        /\ smokes' = [smokes EXCEPT !.verified = TRUE, !.ended = TRUE]
        /\ Free
     \/ SmokeUncertain
     \/ /\ failStep("smoke", "failed", "smoke-failed")
        /\ smokes' = [smokes EXCEPT !.ended = TRUE]
        /\ IF ProviderReady THEN Mishap ELSE Free

-----------------------------------------------------------------------------
\* The world around an invocation

\* The user or the system stops or starts the engine.
EngineStops ==
  /\ engine = "ready"
  /\ Mishap
  /\ engine' = "stopped"
  /\ container' = IF container = "running" THEN "stopped" ELSE container
  /\ provider' = "starting"
  /\ UNCHANGED <<journal, attempts, dmg, image, at, flag, answer, seen, smokes>>

EngineStarts ==
  /\ engine \in {"stopped", "incompatible"}
  /\ engine' = "ready"
  /\ Free
  /\ UNCHANGED <<journal, attempts, dmg, image, container, provider, at, flag,
                 answer, seen, smokes>>

\* The user installs an engine by hand, as the refusals advise.
EngineAppears ==
  /\ engine = "absent"
  /\ engine' \in Engines \ {"absent"}
  /\ Free
  /\ UNCHANGED <<journal, attempts, dmg, image, container, provider, at, flag,
                 answer, seen, smokes>>

\* The image or the container is removed or stopped behind the app's back.
ResourceLost ==
  /\ engine = "ready"
  /\ Mishap
  /\ \/ image' = "none" /\ UNCHANGED <<container, provider>>
     \/ container' = "stopped" /\ provider' = "starting" /\ UNCHANGED image
  /\ UNCHANGED <<journal, attempts, engine, dmg, at, flag, answer, seen, smokes>>

\* The process dies, or a step throws what it does not handle: the journal
\* stays as it is.
Crash ==
  /\ at # Idle
  /\ Spend("crash")
  /\ at' = Idle
  /\ answer' = "none"
  /\ UNCHANGED <<journal, attempts, world, flag, seen, smokes>>

Init ==
  /\ left \in Settings
  /\ journal = [s \in Steps |-> "pending"]
  /\ attempts = 0
  /\ engine = left.first
  /\ dmg = "none"
  /\ image = "none"
  /\ container = "none"
  /\ provider = "starting"
  /\ at = Idle
  /\ flag = FALSE
  /\ answer = "none"
  /\ seen = {}
  /\ smokes = [calls |-> 0, verified |-> FALSE, ended |-> FALSE]

Walk ==
  \/ \E s \in Steps :
       resumeRefusal(s) \/ resetForRetry(s) \/ runStep(s) \/ reverifyStep(s)
  \/ reacquire
  \/ stepDetectEngine
  \/ stepEnsureEngine
  \/ confirmInstall
  \/ downloadInstaller
  \/ DownloadEnds
  \/ installMacOSPackage
  \/ PullSucceeds
  \/ PullFails
  \/ stepStartOwned
  \/ stepReadiness
  \/ SmokeCall
  \/ stepSmoke

Next ==
  \/ \E retry \in left.retry : prepareToolRuntime(retry)
  \/ Walk
  \/ EngineStops
  \/ EngineStarts
  \/ EngineAppears
  \/ ResourceLost
  \/ Crash

Spec == Init /\ [][Next]_vars

\* The Desktop process runs on: an invocation goes to its end.  Only in
\* cooperative surroundings is there another one, does the user start the
\* engine, and does one of the pulls work; other calls fail only as often as
\* the setting says.  Nobody has to install an engine by hand.
Live ==
  /\ Spec
  /\ WF_vars(Walk)
  /\ WF_vars(left.cooperative /\ \E retry \in left.retry : prepareToolRuntime(retry))
  /\ WF_vars(left.cooperative /\ EngineStarts)
  /\ SF_vars(left.cooperative /\ PullSucceeds)

-----------------------------------------------------------------------------
TypeOK ==
  /\ journal \in [Steps -> Statuses]
  /\ attempts \in Nat
  /\ engine \in Engines
  /\ dmg \in {"none", "partial", "whole"}
  /\ image \in {"none", "exact", "other"}
  /\ container \in {"none", "stopped", "running"}
  /\ provider \in {"starting", "ready"}
  /\ at.step \in Steps \cup {"none"}
  /\ at.phase \in {"idle", "visit", "act", "approved", "downloading", "verify",
                   "reacquire", "called"}
  /\ (at.phase = "act") => journal[at.step] = "running"
  /\ seen \subseteq Steps
  /\ smokes \in [calls : Nat, verified : BOOLEAN, ended : BOOLEAN]
  /\ left \in Setting

\* "ready" is answered only when this very invocation saw the engine ready,
\* the image verified, the owned container running and the provider
\* answering, and when a smoke result was verified at some time: a journal
\* of finished steps from before a crash or an outage is not enough.
ReadyIsProven ==
  /\ TypeOK
  /\ answer = "ready" =>
       /\ {"ensure-engine", "acquire-image", "start-owned", "readiness"} \subseteq seen
       /\ smokes.verified

\* A smoke whose end is journalled is not sent again unless the operator asks
\* for it, whatever crashes and invocations follow.  A request that a crash
\* interrupts stays good.
EndedSmokeStays == [][ smokes.ended /\ ~flag => smokes'.calls = smokes.calls ]_vars

\* Every invocation comes to an answer.
InvocationEnds == at # Idle ~> at = Idle

\* Nobody passes the flag that repeats a smoke which ended badly.
SmokeBlocks == journal["smoke"] \in {"failed", "uncertain"} /\ TRUE \notin left.retry

\* An absent engine is not installed off macOS or when nobody asks the user;
\* an installer cut short while it was written is kept and refused for ever.
InstallBlocks == engine = "absent" /\ left.install # "asked"
InstallerBlocks == engine = "absent" /\ dmg = "partial"

\* Whatever failed or was interrupted, invoking again gets the tool ready as
\* soon as the outside world cooperates, again and again; only the three dead
\* ends above may stand in the way, the last two until the user has installed
\* an engine by hand.
ReadyUnlessBlocked ==
  left.cooperative =>
    []<>(answer = "ready" \/ SmokeBlocks \/ InstallBlocks \/ InstallerBlocks)

\* Invoking preparation is worth it: it answers, and in the end with "ready".
InvocationsSucceed == InvocationEnds /\ ReadyUnlessBlocked
=============================================================================
