------------------------ MODULE ToolPreparationProofs ------------------------
(***************************************************************************)
(* Proofs about ToolPreparation: what an answer of "ready" proves, and     *)
(* that a smoke whose end is journalled is not sent again, for any         *)
(* surroundings, any number of crashes and any number of invocations.      *)
(*                                                                         *)
(* The argument: an invocation walks the steps in order and leaves a step  *)
(* only after it saw that the step holds, so that where it stands says     *)
(* what it has seen; a journalled end of the smoke keeps the walk from     *)
(* acting on it.                                                           *)
(*                                                                         *)
(* Last, the proofs about ToolRuntime, the provider that was prepared:     *)
(* what the app calls live is what runs, for any demand, faults, quits and *)
(* crashes.                                                                *)
(***************************************************************************)
EXTENDS ToolPreparation, ToolRuntime, TLAPS

Phases == {"visit", "act", "approved", "downloading", "verify", "reacquire", "called"}

(* Where an invocation may stand. *)
Places == {Idle} \cup [step : Steps, phase : Phases]

(* The invocation has seen every step behind the one it stands at. *)
SeenBehind ==
  /\ at.step \in {"acquire-image", "start-owned", "readiness", "smoke"} =>
       "ensure-engine" \in seen
  /\ at.step \in {"start-owned", "readiness", "smoke"} => "acquire-image" \in seen
  /\ at.step \in {"readiness", "smoke"} => "start-owned" \in seen
  /\ at.step = "smoke" => "readiness" \in seen

(* What the journal says of the smoke, and what the host counts of it. *)
SmokeInv ==
  /\ journal["smoke"] = "done" => smokes.verified
  /\ smokes.ended => journal["smoke"] \in {"done", "failed", "uncertain"}

(* The journal, the invocation and the count of smokes. *)
CoreInv ==
  /\ journal \in [Steps -> Statuses]
  /\ at \in Places
  /\ at.phase = "act" => journal[at.step] = "running"
  /\ seen \subseteq Steps
  /\ smokes \in [calls : Nat, verified : BOOLEAN, ended : BOOLEAN]
  /\ at # Idle => answer # "ready"
  /\ answer = "ready" =>
       /\ {"ensure-engine", "acquire-image", "start-owned", "readiness"} \subseteq seen
       /\ smokes.verified
  /\ SeenBehind
  /\ SmokeInv

(* The world outside has its type. *)
WorldOK ==
  /\ attempts \in Nat
  /\ engine \in Engines
  /\ dmg \in {"none", "partial", "whole"}
  /\ image \in {"none", "exact", "other"}
  /\ container \in {"none", "stopped", "running"}
  /\ provider \in {"starting", "ready"}
  /\ left \in Setting

IInv == WorldOK /\ CoreInv

-----------------------------------------------------------------------------
(* The steps and their order. *)

LEMMA StepsAre ==
  Steps = {"detect-engine", "ensure-engine", "acquire-image", "start-owned",
           "readiness", "smoke"}
<1>1. Len(PREPARATION_STEPS) = 6
  BY DEF PREPARATION_STEPS
<1>2. QED
  BY <1>1 DEF Steps, PREPARATION_STEPS

LEMMA StepAfter ==
  /\ PREPARATION_STEPS[Index("detect-engine") + 1] = "ensure-engine"
  /\ PREPARATION_STEPS[Index("ensure-engine") + 1] = "acquire-image"
  /\ PREPARATION_STEPS[Index("acquire-image") + 1] = "start-owned"
  /\ PREPARATION_STEPS[Index("start-owned") + 1] = "readiness"
  /\ PREPARATION_STEPS[Index("readiness") + 1] = "smoke"
<1>1. Len(PREPARATION_STEPS) = 6
  BY DEF PREPARATION_STEPS
<1>2. \A i \in 1 .. 6 : Index(PREPARATION_STEPS[i]) = i
  BY <1>1 DEF Index, PREPARATION_STEPS
<1>3. QED
  BY <1>2 DEF PREPARATION_STEPS

(* Only the steps that can be observed again have a truth of their own. *)
LEMMA TruthIs ==
  /\ Truth("acquire-image") = ImageVerifies
  /\ Truth("start-owned") = ownedContainerRunning
  /\ Truth("readiness") = ProviderReady
  /\ Truth("detect-engine") = FALSE
  /\ Truth("ensure-engine") = FALSE
  /\ Truth("smoke") = FALSE
  BY Zenon DEF Truth

LEMMA SpendTyped ==
  ASSUME left \in Setting, NEW thing \in {"crash", "mishap"}, Spend(thing)
  PROVE  left' \in Setting
<1>1. CASE thing = "crash"
  BY <1>1 DEF Setting, Spend
<1>2. CASE thing = "mishap"
  BY <1>2 DEF Setting, Spend
<1>3. QED
  BY <1>1, <1>2

-----------------------------------------------------------------------------
(* What the parts of an operation keep. *)

LEMMA KeepCore ==
  ASSUME CoreInv, UNCHANGED <<journal, at, answer, seen, smokes>>
  PROVE  CoreInv'
  BY DEF CoreInv, SeenBehind, SmokeInv

(* A finished step has been seen, and the walk stands at the next one. *)
LEMMA FinishCore ==
  ASSUME CoreInv, NEW s \in Steps \ {"smoke"}, at # Idle, at.step = s,
         finishStep(s), UNCHANGED smokes
  PROVE  CoreInv'
<1>1. PICK t \in Steps : /\ at' = [step |-> t, phase |-> "visit"] /\ answer' = answer
                         /\ s = "detect-engine" => t = "ensure-engine"
                         /\ s = "ensure-engine" => t = "acquire-image"
                         /\ s = "acquire-image" => t = "start-owned"
                         /\ s = "start-owned" => t = "readiness"
                         /\ s = "readiness" => t = "smoke"
  BY StepsAre, StepAfter DEF finishStep, Advance, GoTo
<1>2. at' \in Places /\ at' # Idle /\ answer' # "ready"
  BY <1>1, StepsAre DEF CoreInv, Places, Phases, Idle
<1>3. seen' = seen \cup {s} /\ journal' = [journal EXCEPT ![s] = "done"]
  BY DEF finishStep, transition
<1>4. journal' \in [Steps -> Statuses] /\ journal'["smoke"] = journal["smoke"]
  BY <1>3, StepsAre DEF CoreInv, Statuses
<1>5. SeenBehind'
  BY <1>1, <1>3, StepsAre DEF CoreInv, SeenBehind
<1>6. QED
  BY <1>1, <1>2, <1>3, <1>4, <1>5 DEF CoreInv, SmokeInv

LEMMA FailCore ==
  ASSUME CoreInv, NEW s \in Steps \ {"smoke"}, NEW code, code # "ready",
         failStep(s, "failed", code), UNCHANGED smokes
  PROVE  CoreInv'
<1>1. at' = Idle /\ answer' = code /\ seen' = seen
      /\ journal' = [journal EXCEPT ![s] = "failed"]
  BY DEF failStep, transition
<1>2. journal' \in [Steps -> Statuses] /\ journal'["smoke"] = journal["smoke"]
  BY <1>1, StepsAre DEF CoreInv, Statuses
<1>3. QED
  BY <1>1, <1>2 DEF CoreInv, SeenBehind, SmokeInv, Places, Idle

(* The smoke ends badly: its end is journalled. *)
LEMMA FailSmoke ==
  ASSUME CoreInv, NEW status \in {"failed", "uncertain"}, NEW code, code # "ready",
         failStep("smoke", status, code), smokes' = [smokes EXCEPT !.ended = TRUE]
  PROVE  CoreInv'
<1>1. at' = Idle /\ answer' = code /\ seen' = seen
      /\ journal' = [journal EXCEPT !["smoke"] = status]
  BY DEF failStep, transition
<1>2. journal' \in [Steps -> Statuses] /\ journal'["smoke"] = status
  BY <1>1, StepsAre DEF CoreInv, Statuses
<1>3. smokes' \in [calls : Nat, verified : BOOLEAN, ended : BOOLEAN]
      /\ smokes'.verified = smokes.verified
  BY DEF CoreInv
<1>4. QED
  BY <1>1, <1>2, <1>3 DEF CoreInv, SeenBehind, SmokeInv, Places, Idle

(* The invocation moves within a step it does not finish, or in the        *)
(* journal of that step, without acting.                                   *)
LEMMA MoveCore ==
  ASSUME CoreInv, NEW s \in Steps, at # Idle, at.step = s,
         NEW phase \in Phases, at' = [step |-> s, phase |-> phase],
         NEW status \in Statuses, journal' = [journal EXCEPT ![s] = status],
         phase = "act" => status = "running",
         s = "smoke" => status # "done" /\ ~smokes.ended,
         UNCHANGED <<answer, seen, smokes>>
  PROVE  CoreInv'
<1>1. at' \in Places /\ at'.step = at.step /\ at'.phase = phase /\ at' # Idle
  BY StepsAre DEF Places, Idle
<1>2. journal' \in [Steps -> Statuses] /\ journal'[s] = status
  BY DEF CoreInv
<1>3. s # "smoke" => journal'["smoke"] = journal["smoke"]
  BY StepsAre DEF CoreInv
<1>4. SeenBehind'
  BY <1>1 DEF CoreInv, SeenBehind
<1>5. SmokeInv'
  BY <1>2, <1>3 DEF CoreInv, SmokeInv
<1>6. QED
  BY <1>1, <1>2, <1>4, <1>5 DEF CoreInv

-----------------------------------------------------------------------------
(* The walk over the journal. *)

LEMMA StandsAt ==
  ASSUME NEW s \in Steps, NEW phase, At(s, phase)
  PROVE  at # Idle /\ at.step = s /\ at.phase = phase
  BY StepsAre DEF At, Idle

LEMMA InvokeKeeps ==
  ASSUME IInv, NEW retry, prepareToolRuntime(retry)
  PROVE  IInv'
<1>1. WorldOK'
  BY DEF IInv, WorldOK, prepareToolRuntime, world, Free
<1>2. at' = [step |-> "detect-engine", phase |-> "visit"] /\ seen' = {} /\ answer' = "none"
      /\ UNCHANGED <<journal, smokes>>
  BY DEF prepareToolRuntime, GoTo
<1>3. at' \in Places
  BY <1>2, StepsAre DEF Places, Phases
<1>4. CoreInv'
  BY <1>2, <1>3 DEF IInv, CoreInv, SeenBehind, SmokeInv
<1>5. QED
  BY <1>1, <1>4 DEF IInv

LEMMA RefusalKeeps ==
  ASSUME IInv, NEW s \in Steps, resumeRefusal(s)
  PROVE  IInv'
<1>1. WorldOK'
  BY DEF IInv, WorldOK, resumeRefusal, world, Free
<1>2. at' = Idle /\ answer' = "smoke-refused" /\ UNCHANGED <<journal, seen, smokes>>
  BY DEF resumeRefusal
<1>3. CoreInv'
  BY <1>2 DEF IInv, CoreInv, SeenBehind, SmokeInv, Places, Idle
<1>4. QED
  BY <1>1, <1>3 DEF IInv

(* A smoke is reset only on request, and then nothing about it has ended. *)
LEMMA ResetKeeps ==
  ASSUME IInv, NEW s \in Steps, resetForRetry(s)
  PROVE  IInv'
<1>1. WorldOK'
  BY DEF IInv, WorldOK, resetForRetry, world, Free
<1>2. at # Idle /\ at.step = s /\ at.phase = "visit"
  BY StandsAt DEF resetForRetry
<1>3. journal' = [journal EXCEPT ![s] = "pending"] /\ UNCHANGED <<at, answer, seen>>
  BY DEF resetForRetry, transition
<1>4. journal' \in [Steps -> Statuses] /\ journal'[s] = "pending"
      /\ (s # "smoke" => journal'["smoke"] = journal["smoke"])
  BY <1>3, StepsAre DEF IInv, CoreInv, Statuses
<1>5. smokes' \in [calls : Nat, verified : BOOLEAN, ended : BOOLEAN]
      /\ smokes'.verified = smokes.verified
  BY DEF IInv, CoreInv, resetForRetry
<1>6. (s = "smoke" => ~smokes'.ended) /\ (smokes'.ended => smokes.ended)
  BY DEF IInv, CoreInv, resetForRetry, MayRetry
<1>7. CoreInv'
  BY <1>2, <1>3, <1>4, <1>5, <1>6 DEF IInv, CoreInv, SeenBehind, SmokeInv
<1>8. QED
  BY <1>1, <1>7 DEF IInv

LEMMA RunStepKeeps ==
  ASSUME IInv, NEW s \in Steps, runStep(s)
  PROVE  IInv'
<1>1. WorldOK'
  BY DEF IInv, WorldOK, runStep, world, Free
<1>2. at # Idle /\ at.step = s
  BY StandsAt DEF runStep
<1>3. s = "smoke" => ~smokes.ended
  BY DEF IInv, CoreInv, SmokeInv, runStep
<1>4. CoreInv'
  BY <1>2, <1>3, MoveCore DEF IInv, runStep, transition, GoTo, Phases, Statuses
<1>5. QED
  BY <1>1, <1>4 DEF IInv

(* A step recorded done is passed only when it still holds; the smoke was  *)
(* verified when it was recorded.                                          *)
LEMMA ReverifyKeeps ==
  ASSUME IInv, NEW s \in Steps, reverifyStep(s)
  PROVE  IInv'
<1>1. WorldOK'
  BY DEF IInv, WorldOK, reverifyStep, world, Free
<1>2. at # Idle /\ at.step = s /\ journal[s] = "done" /\ UNCHANGED smokes
  BY StandsAt DEF reverifyStep
<1>3. CASE StillHolds(s) /\ s = "smoke"
  <2>1. at' = Idle /\ answer' = "ready" /\ journal' = journal /\ seen' = seen
    BY <1>3, TruthIs DEF reverifyStep, Advance
  <2>2. at' \in Places /\ at'.step = "none" /\ at'.phase = "idle"
    BY <2>1 DEF Places, Idle
  <2>3. QED
    BY <1>1, <1>2, <1>3, <2>1, <2>2 DEF IInv, CoreInv, SeenBehind, SmokeInv
<1>4. CASE StillHolds(s) /\ s # "smoke"
  <2>1. Truth(s) /\ s \in {"acquire-image", "start-owned", "readiness"}
    BY <1>4, StepsAre, TruthIs DEF StillHolds
  <2>2. finishStep(s)
    <3>1. journal' = journal /\ Advance(s) /\ seen' = seen \cup {s}
      BY <1>4, <2>1 DEF reverifyStep
    <3>2. journal = [journal EXCEPT ![s] = "done"]
      BY <1>2 DEF IInv, CoreInv
    <3>3. QED
      BY <3>1, <3>2 DEF finishStep, transition
  <2>3. QED
    BY <1>1, <1>2, <1>4, <2>2, FinishCore DEF IInv
<1>5. CASE ~StillHolds(s) /\ s = "acquire-image"
  <2>1. CoreInv'
    BY <1>2, <1>5, MoveCore DEF IInv, reverifyStep, transition, GoTo, Phases, Statuses
  <2>2. QED
    BY <1>1, <2>1 DEF IInv
<1>6. CASE ~StillHolds(s) /\ s # "acquire-image"
  <2>1. s # "smoke" /\ at' = at /\ at = [step |-> s, phase |-> "visit"]
    BY <1>6 DEF StillHolds, reverifyStep, At
  <2>2. CoreInv'
    BY <1>2, <1>6, <2>1, MoveCore DEF IInv, reverifyStep, transition, Phases, Statuses
  <2>3. QED
    BY <1>1, <2>2 DEF IInv
<1>7. QED
  BY <1>3, <1>4, <1>5, <1>6

LEMMA ReacquireKeeps ==
  ASSUME IInv, reacquire
  PROVE  IInv'
<1>1. WorldOK'
  BY DEF IInv, WorldOK, reacquire, world, Free
<1>2. at # Idle /\ at.step = "acquire-image" /\ "acquire-image" \in Steps
  BY StandsAt, StepsAre DEF reacquire
<1>3. CoreInv'
  BY <1>2, MoveCore DEF IInv, reacquire, transition, GoTo, Phases, Statuses
<1>4. QED
  BY <1>1, <1>3 DEF IInv

-----------------------------------------------------------------------------
(* The steps. *)

LEMMA DetectKeeps ==
  ASSUME IInv, stepDetectEngine
  PROVE  IInv'
<1>1. WorldOK'
  BY DEF IInv, WorldOK, stepDetectEngine, world, Free
<1>2. at # Idle /\ at.step = "detect-engine" /\ "detect-engine" \in Steps
  BY StandsAt, StepsAre DEF stepDetectEngine
<1>3. CoreInv'
  BY <1>2, FinishCore DEF IInv, stepDetectEngine
<1>4. QED
  BY <1>1, <1>3 DEF IInv

(* Every operation of the step either finishes it, fails it, or moves      *)
(* within it without touching the journal.                                 *)
LEMMA WithinCore ==
  ASSUME CoreInv, NEW s \in Steps \ {"smoke"}, at # Idle, at.step = s, UNCHANGED smokes,
         \/ finishStep(s)
         \/ \E code : code # "ready" /\ failStep(s, "failed", code)
         \/ \E phase \in Phases \ {"act"} : /\ at' = [step |-> s, phase |-> phase]
                                            /\ UNCHANGED <<journal, answer, seen>>
         \/ UNCHANGED <<journal, at, answer, seen>>
  PROVE  CoreInv'
<1>1. CASE \E phase \in Phases \ {"act"} : /\ at' = [step |-> s, phase |-> phase]
                                           /\ UNCHANGED <<journal, answer, seen>>
  <2>1. journal[s] \in Statuses /\ journal' = [journal EXCEPT ![s] = journal[s]]
    BY <1>1 DEF CoreInv
  <2>2. QED
    BY <1>1, <2>1, MoveCore
<1>2. CASE \E code : code # "ready" /\ failStep(s, "failed", code)
  BY <1>2, FailCore
<1>3. QED
  BY <1>1, <1>2, FinishCore, KeepCore

LEMMA EnsureEngineKeeps ==
  ASSUME IInv,
         \/ stepEnsureEngine
         \/ confirmInstall
         \/ downloadInstaller \/ DownloadEnds \/ installMacOSPackage
  PROVE  IInv'
<1>1. left' \in Setting
  BY SpendTyped DEF IInv, WorldOK, stepEnsureEngine, confirmInstall, downloadInstaller,
                    DownloadEnds, installMacOSPackage, Mishap, Free
<1>2. WorldOK'
  BY <1>1 DEF IInv, WorldOK, stepEnsureEngine, confirmInstall, downloadInstaller,
              DownloadEnds, installMacOSPackage, world, Engines
<1>3. at # Idle /\ at.step = "ensure-engine" /\ "ensure-engine" \in Steps
  BY StandsAt, StepsAre DEF stepEnsureEngine, confirmInstall, downloadInstaller,
                            DownloadEnds, installMacOSPackage
<1>4. CoreInv'
  BY <1>3, WithinCore
  DEF IInv, stepEnsureEngine, confirmInstall, downloadInstaller, DownloadEnds,
      installMacOSPackage, InstallFails, GoTo, Phases
<1>5. QED
  BY <1>2, <1>4 DEF IInv

LEMMA PullKeeps ==
  ASSUME IInv, PullSucceeds \/ PullFails
  PROVE  IInv'
<1>1. left' \in Setting
  BY SpendTyped DEF IInv, WorldOK, PullSucceeds, PullFails, Mishap, Free
<1>2. WorldOK'
  BY <1>1 DEF IInv, WorldOK, PullSucceeds, PullFails, CountRetry, world
<1>3. at # Idle /\ at.step = "acquire-image" /\ "acquire-image" \in Steps
  BY StandsAt, StepsAre DEF PullSucceeds, PullFails
<1>4. CoreInv'
  BY <1>3, WithinCore DEF IInv, PullSucceeds, PullFails
<1>5. QED
  BY <1>2, <1>4 DEF IInv

LEMMA StartOwnedKeeps ==
  ASSUME IInv, stepStartOwned
  PROVE  IInv'
<1>1. left' \in Setting
  BY SpendTyped DEF IInv, WorldOK, stepStartOwned, Mishap, Free
<1>2. WorldOK'
  BY <1>1 DEF IInv, WorldOK, stepStartOwned
<1>3. at # Idle /\ at.step = "start-owned" /\ "start-owned" \in Steps
  BY StandsAt, StepsAre DEF stepStartOwned
<1>4. CoreInv'
  BY <1>3, WithinCore DEF IInv, stepStartOwned
<1>5. QED
  BY <1>2, <1>4 DEF IInv

LEMMA ReadinessKeeps ==
  ASSUME IInv, stepReadiness
  PROVE  IInv'
<1>1. left' \in Setting
  BY SpendTyped DEF IInv, WorldOK, stepReadiness, Mishap, Free
<1>2. WorldOK'
  BY <1>1 DEF IInv, WorldOK, stepReadiness
<1>3. at # Idle /\ at.step = "readiness" /\ "readiness" \in Steps
  BY StandsAt, StepsAre DEF stepReadiness
<1>4. CoreInv'
  BY <1>3, WithinCore DEF IInv, stepReadiness
<1>5. QED
  BY <1>2, <1>4 DEF IInv

LEMMA SmokeCallKeeps ==
  ASSUME IInv, SmokeCall
  PROVE  IInv'
<1>1. WorldOK'
  BY DEF IInv, WorldOK, SmokeCall, world, Free
<1>2. at # Idle /\ at.step = "smoke" /\ at.phase = "act" /\ "smoke" \in Steps
  BY StandsAt, StepsAre DEF SmokeCall
<1>3. at' = [step |-> "smoke", phase |-> "called"] /\ UNCHANGED <<journal, answer, seen>>
  BY DEF SmokeCall, GoTo
<1>4. smokes' \in [calls : Nat, verified : BOOLEAN, ended : BOOLEAN]
      /\ smokes'.verified = smokes.verified /\ smokes'.ended = smokes.ended
  BY DEF IInv, CoreInv, SmokeCall
<1>5. at' \in Places
  BY <1>2, <1>3 DEF Places, Phases
<1>6. CoreInv'
  BY <1>2, <1>3, <1>4, <1>5 DEF IInv, CoreInv, SeenBehind, SmokeInv
<1>7. QED
  BY <1>1, <1>6 DEF IInv

LEMMA SmokeKeeps ==
  ASSUME IInv, stepSmoke
  PROVE  IInv'
<1>1. left' \in Setting
  BY SpendTyped DEF IInv, WorldOK, stepSmoke, SmokeUncertain, Mishap, Free
<1>2. WorldOK'
  BY <1>1 DEF IInv, WorldOK, stepSmoke, world
<1>3. at # Idle /\ at.step = "smoke" /\ "smoke" \in Steps
  BY StandsAt, StepsAre DEF stepSmoke
<1>4. CASE finishStep("smoke") /\ smokes' = [smokes EXCEPT !.verified = TRUE, !.ended = TRUE]
  <2>1. /\ at' = Idle /\ answer' = "ready" /\ seen' = seen \cup {"smoke"}
        /\ journal' = [journal EXCEPT !["smoke"] = "done"]
    BY <1>4 DEF finishStep, Advance, transition
  <2>2. journal' \in [Steps -> Statuses] /\ journal'["smoke"] = "done"
    BY <1>3, <2>1 DEF IInv, CoreInv, Statuses
  <2>3. smokes' \in [calls : Nat, verified : BOOLEAN, ended : BOOLEAN] /\ smokes'.verified
    BY <1>4 DEF IInv, CoreInv
  <2>4. at' \in Places /\ at'.step = "none" /\ at'.phase = "idle"
    BY <2>1 DEF Places, Idle
  <2>5. CoreInv'
    BY <1>3, <2>1, <2>2, <2>3, <2>4 DEF IInv, CoreInv, SeenBehind, SmokeInv
  <2>6. QED
    BY <1>2, <2>5 DEF IInv
<1>5. CASE \E status \in {"failed", "uncertain"} : \E code :
             /\ code # "ready" /\ failStep("smoke", status, code)
             /\ smokes' = [smokes EXCEPT !.ended = TRUE]
  BY <1>2, <1>5, FailSmoke DEF IInv
<1>6. QED
  BY <1>4, <1>5 DEF stepSmoke, SmokeUncertain

-----------------------------------------------------------------------------
(* The world around an invocation. *)

LEMMA OutsideKeeps ==
  ASSUME IInv, EngineStops \/ EngineStarts \/ EngineAppears \/ ResourceLost
  PROVE  IInv'
<1>1. left' \in Setting
  BY SpendTyped DEF IInv, WorldOK, EngineStops, EngineStarts, EngineAppears,
                    ResourceLost, Mishap, Free
<1>2. WorldOK'
  BY <1>1 DEF IInv, WorldOK, EngineStops, EngineStarts, EngineAppears, ResourceLost,
              Engines
<1>3. CoreInv'
  BY KeepCore DEF IInv, EngineStops, EngineStarts, EngineAppears, ResourceLost
<1>4. QED
  BY <1>2, <1>3 DEF IInv

LEMMA CrashKeeps ==
  ASSUME IInv, Crash
  PROVE  IInv'
<1>1. left' \in Setting
  BY SpendTyped DEF IInv, WorldOK, Crash
<1>2. WorldOK'
  BY <1>1 DEF IInv, WorldOK, Crash, world
<1>3. at' = Idle /\ answer' = "none" /\ UNCHANGED <<journal, seen, smokes>>
  BY DEF Crash
<1>4. CoreInv'
  BY <1>3 DEF IInv, CoreInv, SeenBehind, SmokeInv, Places, Idle
<1>5. QED
  BY <1>2, <1>4 DEF IInv

-----------------------------------------------------------------------------
(* The theorems. *)

LEMMA InitIInv == Init => IInv
<1> SUFFICES ASSUME Init PROVE IInv
  OBVIOUS
<1>1. left \in Setting
  BY PreparationAssumption DEF Init
<1>2. WorldOK
  BY <1>1 DEF Init, WorldOK, Setting
<1>3. CoreInv
  BY StepsAre DEF Init, CoreInv, SeenBehind, SmokeInv, Places, Idle, Statuses
<1>4. QED
  BY <1>2, <1>3 DEF IInv

LEMMA NextIInv == IInv /\ [Next]_vars => IInv'
<1> SUFFICES ASSUME IInv, [Next]_vars PROVE IInv'
  OBVIOUS
<1>1. CASE UNCHANGED vars
  BY <1>1, KeepCore DEF IInv, WorldOK, vars
<1>2. CASE Walk
  BY <1>2, RefusalKeeps, ResetKeeps, RunStepKeeps, ReverifyKeeps, ReacquireKeeps,
     DetectKeeps, EnsureEngineKeeps, PullKeeps, StartOwnedKeeps, ReadinessKeeps,
     SmokeCallKeeps, SmokeKeeps
  DEF Walk
<1>3. CASE Next /\ ~Walk
  BY <1>3, InvokeKeeps, OutsideKeeps, CrashKeeps DEF Next
<1>4. QED
  BY <1>1, <1>2, <1>3

LEMMA ReadyByInvariant == IInv => ReadyIsProven
  BY DEF IInv, WorldOK, CoreInv, ReadyIsProven, TypeOK, Places, Phases, Idle

(* What preparation knows of the world, over every crash and mishap: each *)
(* step it counts as done was done by the invocation that counts it, and   *)
(* the journal holds no success that did not happen.                       *)
THEOREM PreparationInvariant == Spec => []IInv
  BY InitIInv, NextIInv, PTL DEF Spec

(* "ready" is never answered from a journal alone: the invocation that     *)
(* answers has itself seen the engine, the image, the container and the    *)
(* provider, and some smoke was verified, whatever crashed in between.     *)
THEOREM ReadyStaysProven == Spec => []ReadyIsProven
  BY PreparationInvariant, ReadyByInvariant, PTL

(* Only the call of the smoke step sends a smoke, and it is not reached    *)
(* while the journal holds the end of one.                                 *)
LEMMA SmokesCounted ==
  ASSUME IInv, [Next]_vars, smokes.ended
  PROVE  smokes'.calls = smokes.calls
<1>1. smokes \in [calls : Nat, verified : BOOLEAN, ended : BOOLEAN]
  BY DEF IInv, CoreInv
<1>2. CASE UNCHANGED smokes
  BY <1>2
<1>3. CASE \E s \in Steps : resetForRetry(s)
  BY <1>1, <1>3 DEF resetForRetry
<1>4. CASE SmokeCall
  <2>1. at.step = "smoke" /\ at.phase = "act"
    BY <1>4 DEF SmokeCall, At
  <2>2. QED
    BY <2>1 DEF IInv, CoreInv, SmokeInv
<1>5. CASE stepSmoke
  BY <1>1, <1>5 DEF stepSmoke, SmokeUncertain
<1>6. QED
  BY <1>2, <1>3, <1>4, <1>5
  DEF Next, Walk, vars, prepareToolRuntime, resumeRefusal, runStep, reverifyStep,
      reacquire, stepDetectEngine, stepEnsureEngine, confirmInstall,
      downloadInstaller, DownloadEnds, installMacOSPackage, PullSucceeds, PullFails,
      stepStartOwned, stepReadiness, EngineStops, EngineStarts, EngineAppears, ResourceLost,
      Crash

(* A smoke whose end is journalled is not sent again unless it was asked   *)
(* for: no crash or later invocation repeats the call.                     *)
THEOREM SmokeIsNotRepeated == Spec => EndedSmokeStays
<1>1. IInv /\ [Next]_vars
        => [smokes.ended /\ ~flag => smokes'.calls = smokes.calls]_vars
  BY SmokesCounted
<1>2. QED
  BY <1>1, PreparationInvariant, PTL DEF Spec, EndedSmokeStays

------------------------------------------------------------------------------
(***************************************************************************)
(* The provider once it is prepared (ToolRuntime): its jobs behind the     *)
(* gate, the messages to the host and who holds demand for it.             *)
(***************************************************************************)

Apps == {"reconciling", "snapshot", "ensuring", "assigning", "syncing", "up",
         "draining", "drained", "reopened", "unresolved"}
(* The phases of a start, before any command is served. *)
Starting == {"reconciling", "snapshot", "ensuring", "assigning", "syncing"}

ClientStages == {"idle", "ensuring", "assigning", "assigned", "enabling",
                 "enable refused", "enable accepted", "detaching", "detach refused",
                 "detach accepted", "calling", "called", "done"}

StopKinds == {"stop", "restart", "idle", "drain"}
JobType ==
  [kind : {"ensure"}, by : Chats \cup {"startup", "operator"},
   stage : {"start", "prune", "prepare"}]
  \cup [kind : {"reconcile"}, by : {"startup"}, stage : {"start", "prune"}]
  \cup [kind : {"stop", "restart"}, by : {"operator"}, stage : {"start", "stopping"}]
  \cup [kind : {"idle", "drain"}, by : {"lifecycle"}, stage : {"start", "stopping"}]
MessageType ==
  [kind : {"ensure"}, from : Chats \cup {"startup"}]
  \cup [kind : {"enable", "disable", "close"}, from : Chats]
  \cup [kind : {"viewer"}, from : Ops]
  \cup [kind : {"release"}, from : {"lifecycle"}]
Conversation == [mcp : {"none", "connected", "failed"}, closed : BOOLEAN, busy : BOOLEAN]

(* Who holds demand, asks for a job or sends a message is told from its name. *)
RuntimeShape ==
  /\ Chats \cap Ops = {} /\ {"startup", "operator", "lifecycle"} \cap (Chats \cup Ops) = {}
  /\ owned \in [{"running", "stopped"} -> [Images -> Nat]]
  /\ intent \in {"none", "plan", "old", "corrupt"}
  /\ app \in Apps
  /\ live \in BOOLEAN /\ timer \in BOOLEAN /\ relay \in BOOLEAN
  /\ demand \subseteq Holders
  /\ gate \in Seq(JobType) /\ inbox \in Seq(MessageType)
  /\ client \in [Holders -> ClientStages] /\ conv \in [Chats -> Conversation]
  /\ budget \in RuntimeSetting

(* The job that has begun is the first. *)
GateInv == \A i \in DOMAIN gate : gate[i].stage # "start" => i = 1

LiveInv ==
  live => intent \in Images /\ Count("running") = 1 /\ owned["running"][intent] = 1

(* An ensure that has begun sees no provider but one of the pinned image. *)
ClearInv ==
  \A i \in DOMAIN gate :
    gate[i].kind = "ensure" /\ gate[i].stage # "start" => RunningFits

(* A start goes on alone, and leaves nothing behind. *)
StartInv ==
  /\ app \in Starting => demand = {} /\ ~timer /\ \A h \in Holders : client[h] = "idle"
  /\ app = "reconciling" => Len(gate) = 1 /\ gate[1].kind = "reconcile" /\ inbox = <<>>
  /\ app \in {"snapshot", "syncing"} => gate = <<>> /\ inbox = <<>>
  /\ app = "ensuring" =>
       Len(gate) = 1 /\ gate[1].kind = "ensure" /\ gate[1].by = "startup" /\ inbox = <<>>
  /\ app = "assigning" => gate = <<>> /\ Len(inbox) = 1 /\ inbox[1].from = "startup"
  /\ app \notin Starting => /\ \A i \in DOMAIN gate : gate[i].by # "startup"
                            /\ \A i \in DOMAIN inbox : inbox[i].from # "startup"

(* Behind a drain no job of a conversation waits: only the operator's *)
(* commands, the idle timer's stops and further drains.               *)
Late == {"operator", "lifecycle"}
DrainFits ==
  /\ \A i \in DOMAIN gate : gate[i].kind = "drain" =>
       /\ app \in {"draining", "unresolved"}
       /\ \A j \in DOMAIN gate : j > i => gate[j].by \in Late
  /\ app = "drained" => \A i \in DOMAIN gate : gate[i].by \in Late
DrainInv == DrainFits /\ (app = "drained" => Count("running") = 0)

(* The stage a caller waits in for the answer to its message. *)
Awaits(kind) ==
  CASE kind = "ensure" -> "assigning"
    [] kind = "enable" -> "enabling"
    [] kind \in {"disable", "close"} -> "detaching"
    [] kind = "viewer" -> "calling"

(* While every answer comes in time a command has one message or one job     *)
(* under way, and one that neither asks for demand nor is about to give it   *)
(* up has the demand of an attached conversation, or none.                   *)
MessagesWait ==
  /\ \A i \in DOMAIN inbox :
       inbox[i].kind # "release" => client[inbox[i].from] = Awaits(inbox[i].kind)
  /\ \A i, j \in DOMAIN inbox :
       inbox[i].kind # "release" /\ inbox[i].from = inbox[j].from => i = j
JobsWait ==
  /\ \A i \in DOMAIN gate : gate[i].by \in Chats => client[gate[i].by] = "ensuring"
  /\ \A i, j \in DOMAIN gate : gate[i].by \in Chats /\ gate[i].by = gate[j].by => i = j
Backed ==
  \A c \in Chats :
    /\ c \in demand /\ client[c] \notin {"enabling", "enable refused", "detach accepted"} =>
         conv[c].mcp = "connected"
    /\ client[c] = "enable accepted" => conv[c].mcp = "connected"
TimelyInv == budget.timely => budget.timeout = 0 /\ (app = "up" => MessagesWait /\ JobsWait /\ Backed)

RuntimeInv == RuntimeShape /\ GateInv /\ LiveInv /\ ClearInv /\ StartInv /\ DrainInv /\ TimelyInv
------------------------------------------------------------------------------
(* What jobs, messages and settings are made of. *)

LEMMA NamesApart ==
  ASSUME RuntimeShape
  PROVE  /\ Chats \subseteq Holders /\ Ops \subseteq Holders
         /\ \A h \in Holders : h # "startup" /\ h # "operator" /\ h # "lifecycle"
         /\ \A c \in Chats : c \notin Ops
BY DEF RuntimeShape, Holders

LEMMA JobFields ==
  ASSUME RuntimeShape, NEW j \in JobType
  PROVE  /\ j.kind \in {"ensure", "reconcile", "stop", "restart", "idle", "drain"}
         /\ j.stage \in {"start", "prune", "prepare", "stopping"}
         /\ j.kind = "ensure" => /\ j.by \in Chats \cup {"startup", "operator"}
                                 /\ j.stage \in {"start", "prune", "prepare"}
         /\ j.kind = "reconcile" => j.by = "startup" /\ j.stage \in {"start", "prune"}
         /\ j.kind \in StopKinds => /\ j.by # "startup" /\ j.by \notin Chats
                                    /\ j.stage \in {"start", "stopping"}
         /\ j.by \in Chats \/ j.by = "startup" \/ j.by = "operator" \/ j.by = "lifecycle"
         /\ j.by \in Chats => j.kind = "ensure"
<1>1. "operator" \notin Chats /\ "lifecycle" \notin Chats /\ "startup" \notin Chats
  BY NamesApart DEF Holders
<1> QED BY <1>1 DEF JobType, StopKinds

LEMMA JobIs ==
  ASSUME NEW kind, NEW by,
         \/ kind = "ensure" /\ by \in Chats \cup {"startup", "operator"}
         \/ kind = "reconcile" /\ by = "startup"
         \/ kind \in {"stop", "restart"} /\ by = "operator"
         \/ kind \in {"idle", "drain"} /\ by = "lifecycle"
  PROVE  /\ Job(kind, by) \in JobType /\ Job(kind, by).kind = kind
         /\ Job(kind, by).by = by /\ Job(kind, by).stage = "start"
BY DEF Job, JobType

LEMMA StagedIs ==
  ASSUME NEW j \in JobType, NEW stage,
         \/ j.kind = "ensure" /\ stage \in {"prune", "prepare"}
         \/ j.kind = "reconcile" /\ stage = "prune"
         \/ j.kind \in StopKinds /\ stage = "stopping",
         NEW k, k = [j EXCEPT !.stage = stage]
  PROVE  k \in JobType /\ k.kind = j.kind /\ k.by = j.by /\ k.stage = stage
BY DEF JobType, StopKinds

LEMMA MessageFields ==
  ASSUME RuntimeShape, NEW m \in MessageType
  PROVE  /\ m.kind \in {"ensure", "enable", "disable", "close", "viewer", "release"}
         /\ m.kind = "ensure" => m.from \in Chats \cup {"startup"}
         /\ m.kind \in {"enable", "disable", "close"} => m.from \in Chats
         /\ m.kind = "viewer" => m.from \in Ops
         /\ m.kind = "release" => m.from = "lifecycle"
         /\ m.from = "startup" => m.kind = "ensure"
         /\ m.kind # "release" /\ m.from # "startup" => m.from \in Holders
<1>1. "startup" \notin Chats /\ "startup" \notin Ops
  BY NamesApart DEF Holders
<1> QED BY <1>1 DEF MessageType, Holders

Terms == budget'.operator = budget.operator /\ budget'.timely = budget.timely
         /\ budget'.chats = budget.chats /\ budget'.ops = budget.ops
         /\ (budget.timeout = 0 => budget'.timeout = 0)

LEMMA SpendFields ==
  ASSUME budget \in RuntimeSetting,
         NEW thing \in {"attempt", "close", "busy", "asked", "timeout", "outage", "crash", "quit"},
         SpendBudget(thing)
  PROVE  budget' \in RuntimeSetting /\ Terms /\ (budget.timeout = 0 => thing # "timeout")
BY DEF SpendBudget, RuntimeSetting, Terms

LEMMA FreeFields ==
  ASSUME budget \in RuntimeSetting, KeepBudget
  PROVE  budget' \in RuntimeSetting /\ Terms
BY DEF KeepBudget, Terms

LEMMA AwaitsIs ==
  /\ Awaits("ensure") = "assigning" /\ Awaits("enable") = "enabling"
  /\ Awaits("disable") = "detaching" /\ Awaits("close") = "detaching"
  /\ Awaits("viewer") = "calling"
  /\ \A kind \in {"ensure", "enable", "disable", "close", "viewer"} :
       Awaits(kind) \in {"assigning", "enabling", "detaching", "calling"}
<1>1. /\ Awaits("ensure") = "assigning" /\ Awaits("enable") = "enabling"
      /\ Awaits("disable") = "detaching" /\ Awaits("close") = "detaching"
      /\ Awaits("viewer") = "calling"
  BY DEF Awaits
<1> QED BY <1>1

LEMMA OwnedFields ==
  ASSUME RuntimeShape
  PROVE  /\ owned["running"] \in [Images -> Nat] /\ owned["stopped"] \in [Images -> Nat]
         /\ owned["running"]["plan"] \in Nat /\ owned["running"]["old"] \in Nat
         /\ owned["stopped"]["plan"] \in Nat /\ owned["stopped"]["old"] \in Nat
BY DEF RuntimeShape, Images

(* A sequence gains its last, or loses its first, element. *)
LEMMA Pushed ==
  ASSUME NEW S, NEW s \in Seq(S), NEW e \in S, NEW p, p = Append(s, e)
  PROVE  /\ p \in Seq(S) /\ Len(p) = Len(s) + 1 /\ Len(s) \in Nat /\ p # <<>>
         /\ \A i \in DOMAIN s : i \in DOMAIN p /\ p[i] = s[i] /\ i \in Nat \ {0}
         /\ \A i \in DOMAIN p :
              i \in DOMAIN s \/ (p[i] = e /\ i = Len(s) + 1 /\ \A j \in DOMAIN s : j < i)
         /\ Len(s) + 1 \in DOMAIN p /\ p[Len(s) + 1] = e
OBVIOUS

LEMMA Popped ==
  ASSUME NEW S, NEW s \in Seq(S), s # <<>>, NEW p, p = Tail(s)
  PROVE  /\ p \in Seq(S) /\ Head(s) = s[1] /\ 1 \in DOMAIN s /\ Len(p) = Len(s) - 1
         /\ Len(s) \in Nat \ {0} /\ (Len(s) = 1 => p = <<>>)
         /\ \A i \in DOMAIN p :
              i \in Nat \ {0} /\ i + 1 \in DOMAIN s /\ i + 1 # 1 /\ p[i] = s[i + 1]
OBVIOUS
------------------------------------------------------------------------------
(* What a step does to the gate, and what stays true of it. *)

LEMMA GatePushed ==
  ASSUME RuntimeShape, NEW job \in JobType, job.stage = "start", gate' = Append(gate, job)
  PROVE  /\ gate' \in Seq(JobType)
         /\ \A i \in DOMAIN gate : i \in DOMAIN gate' /\ gate'[i] = gate[i] /\ i \in Nat \ {0}
         /\ \A i \in DOMAIN gate' :
              i \in DOMAIN gate \/ (gate'[i] = job /\ i = Len(gate) + 1
                                    /\ \A j \in DOMAIN gate : j < i)
         /\ Len(gate) \in Nat
         /\ GateInv => GateInv'
         /\ ClearInv /\ UNCHANGED <<owned, intent>> => ClearInv'
         /\ JobsWait /\ job.by \notin Chats /\ UNCHANGED client => JobsWait'
<1>1. gate \in Seq(JobType)
  BY DEF RuntimeShape
<1>2. /\ gate' \in Seq(JobType) /\ Len(gate) \in Nat
      /\ \A i \in DOMAIN gate : i \in DOMAIN gate' /\ gate'[i] = gate[i] /\ i \in Nat \ {0}
      /\ \A i \in DOMAIN gate' :
           i \in DOMAIN gate \/ (gate'[i] = job /\ i = Len(gate) + 1
                                 /\ \A j \in DOMAIN gate : j < i)
  BY <1>1, Pushed
<1>3. GateInv => GateInv'
  BY <1>2 DEF GateInv
<1>4. ClearInv /\ UNCHANGED <<owned, intent>> => ClearInv'
  BY <1>2 DEF ClearInv, RunningFits, Count, Exact
<1>5. JobsWait /\ job.by \notin Chats /\ UNCHANGED client => JobsWait'
  BY <1>2 DEF JobsWait
<1> QED BY <1>2, <1>3, <1>4, <1>5

LEMMA GateLeft ==
  ASSUME RuntimeShape, gate # <<>>, gate' = Tail(gate)
  PROVE  /\ gate' \in Seq(JobType) /\ Head(gate) = gate[1] /\ 1 \in DOMAIN gate
         /\ gate[1] \in JobType /\ (Len(gate) = 1 => gate' = <<>>)
         /\ \A i \in DOMAIN gate' :
              i \in Nat \ {0} /\ i + 1 \in DOMAIN gate /\ i + 1 # 1 /\ gate'[i] = gate[i + 1]
         /\ GateInv => GateInv' /\ ClearInv'
         /\ JobsWait =>
              /\ UNCHANGED client => JobsWait'
              /\ \A i \in DOMAIN gate' : gate'[i].by \in Chats => gate'[i].by # gate[1].by
<1>1. gate \in Seq(JobType)
  BY DEF RuntimeShape
<1>2. /\ gate' \in Seq(JobType) /\ Head(gate) = gate[1] /\ 1 \in DOMAIN gate
      /\ (Len(gate) = 1 => gate' = <<>>)
      /\ \A i \in DOMAIN gate' :
           i \in Nat \ {0} /\ i + 1 \in DOMAIN gate /\ i + 1 # 1 /\ gate'[i] = gate[i + 1]
  BY <1>1, Popped
<1>3. gate[1] \in JobType
  BY <1>1, <1>2
<1>4. GateInv => GateInv' /\ ClearInv'
  <2>1. SUFFICES ASSUME GateInv PROVE \A i \in DOMAIN gate' : gate'[i].stage = "start"
    BY DEF GateInv, ClearInv
  <2> QED BY <1>2, <2>1 DEF GateInv
<1>5. JobsWait /\ UNCHANGED client => JobsWait'
  <2>1. SUFFICES ASSUME JobsWait, UNCHANGED client, NEW i \in DOMAIN gate', gate'[i].by \in Chats
                 PROVE  /\ client[gate'[i].by] = "ensuring"
                        /\ \A j \in DOMAIN gate' : gate'[i].by = gate'[j].by => i = j
    BY DEF JobsWait
  <2>2. client[gate'[i].by] = "ensuring"
    BY <1>2, <2>1 DEF JobsWait
  <2>3. ASSUME NEW j \in DOMAIN gate', gate'[i].by = gate'[j].by PROVE i = j
    <3>1. i + 1 = j + 1
      BY <1>2, <2>1, <2>3 DEF JobsWait
    <3> QED BY <1>2, <3>1
  <2> QED BY <2>2, <2>3
<1>6. JobsWait => \A i \in DOMAIN gate' : gate'[i].by \in Chats => gate'[i].by # gate[1].by
  BY <1>2 DEF JobsWait
<1> QED BY <1>2, <1>3, <1>4, <1>5, <1>6

LEMMA GateStaged ==
  ASSUME RuntimeShape, gate # <<>>, NEW stage, Stage(stage),
         \/ gate[1].kind = "ensure" /\ stage \in {"prune", "prepare"}
         \/ gate[1].kind = "reconcile" /\ stage = "prune"
         \/ gate[1].kind \in StopKinds /\ stage = "stopping"
  PROVE  /\ gate' \in Seq(JobType) /\ Head(gate) = gate[1] /\ 1 \in DOMAIN gate
         /\ DOMAIN gate' = DOMAIN gate /\ Len(gate') = Len(gate)
         /\ \A i \in DOMAIN gate : gate'[i].kind = gate[i].kind /\ gate'[i].by = gate[i].by
         /\ \A i \in DOMAIN gate : i # 1 => gate'[i] = gate[i]
         /\ gate'[1].stage = stage
         /\ GateInv => GateInv'
         /\ GateInv /\ (gate[1].kind = "ensure" => RunningFits') => ClearInv'
         /\ JobsWait /\ UNCHANGED client => JobsWait'
<1>1. gate \in Seq(JobType)
  BY DEF RuntimeShape
<1>2. /\ Head(gate) = gate[1] /\ 1 \in DOMAIN gate /\ gate[1] \in JobType
      /\ Tail(gate) \in Seq(JobType) /\ Len(Tail(gate)) = Len(gate) - 1
      /\ Len(gate) \in Nat \ {0} /\ DOMAIN gate = 1..Len(gate)
      /\ \A i \in 1..(Len(gate) - 1) : Tail(gate)[i] = gate[i + 1]
  BY <1>1
<1>3. PICK k : k = [gate[1] EXCEPT !.stage = stage]
  OBVIOUS
<1>4. k \in JobType /\ k.kind = gate[1].kind /\ k.by = gate[1].by /\ k.stage = stage
  <2>1. PICK j \in JobType : j = gate[1]
    BY <1>2
  <2>2. k = [j EXCEPT !.stage = stage]
    BY <1>3, <2>1
  <2>3. \/ j.kind = "ensure" /\ stage \in {"prune", "prepare"}
        \/ j.kind = "reconcile" /\ stage = "prune"
        \/ j.kind \in StopKinds /\ stage = "stopping"
    BY <2>1
  <2>4. k \in JobType /\ k.kind = j.kind /\ k.by = j.by /\ k.stage = stage
    BY <2>2, <2>3, StagedIs
  <2> QED BY <2>1, <2>4
<1>5. PICK t : t = Tail(gate)
  OBVIOUS
<1>6. gate' = <<k>> \o t
  BY <1>2, <1>3, <1>5 DEF Stage
<1>7. /\ gate' \in Seq(JobType) /\ Len(gate') = Len(gate) /\ DOMAIN gate' = DOMAIN gate
      /\ gate'[1] = k
  BY <1>2, <1>4, <1>5, <1>6
<1>8. ASSUME NEW i \in DOMAIN gate, i # 1 PROVE gate'[i] = gate[i]
  <2>1. i - 1 \in 1..(Len(gate) - 1) /\ (i - 1) + 1 = i
    BY <1>2, <1>8
  <2>2. gate'[i] = t[i - 1]
    BY <1>2, <1>5, <1>6, <1>8, <2>1
  <2> QED BY <1>2, <1>5, <2>1, <2>2
<1>9. \A i \in DOMAIN gate : gate'[i].kind = gate[i].kind /\ gate'[i].by = gate[i].by
  BY <1>4, <1>7, <1>8
<1>10. GateInv => GateInv'
  BY <1>7, <1>8 DEF GateInv
<1>11. GateInv /\ (gate[1].kind = "ensure" => RunningFits') => ClearInv'
  BY <1>7, <1>8, <1>9 DEF GateInv, ClearInv
<1>12. JobsWait /\ UNCHANGED client => JobsWait'
  BY <1>7, <1>9 DEF JobsWait
<1> QED BY <1>2, <1>4, <1>7, <1>8, <1>9, <1>10, <1>11, <1>12

(* The jobs of the gate as a drain sees them. *)
LEMMA DrainPushed ==
  ASSUME RuntimeShape, DrainFits, NEW job \in JobType, job.stage = "start",
         gate' = Append(gate, job), app' = app, job.kind # "drain",
         job.by \in Late \/ app \notin {"draining", "unresolved", "drained"}
  PROVE  DrainFits'
<1>1. /\ \A i \in DOMAIN gate : i \in DOMAIN gate' /\ gate'[i] = gate[i] /\ i \in Nat \ {0}
      /\ \A i \in DOMAIN gate' :
           i \in DOMAIN gate \/ (gate'[i] = job /\ i = Len(gate) + 1
                                 /\ \A j \in DOMAIN gate : j < i)
  BY GatePushed
<1>2. ASSUME NEW i \in DOMAIN gate', gate'[i].kind = "drain"
      PROVE  /\ app \in {"draining", "unresolved"}
             /\ \A j \in DOMAIN gate' : j > i => gate'[j].by \in Late
  <2>1. i \in DOMAIN gate /\ gate[i].kind = "drain"
    BY <1>1, <1>2
  <2>2. app \in {"draining", "unresolved"} /\ job.by \in Late
    BY <2>1 DEF DrainFits
  <2>3. \A j \in DOMAIN gate' : j > i => gate'[j].by \in Late
    BY <1>1, <2>1, <2>2 DEF DrainFits
  <2> QED BY <2>2, <2>3
<1>3. app = "drained" => \A i \in DOMAIN gate' : gate'[i].by \in Late
  BY <1>1 DEF DrainFits
<1> QED BY <1>2, <1>3 DEF DrainFits

LEMMA DrainLeft ==
  ASSUME RuntimeShape, DrainFits, gate # <<>>, gate' = Tail(gate),
         \/ app' = app
         \/ /\ gate[1].kind = "drain"
            /\ \A i \in 2 .. Len(gate) : gate[i].kind # "drain"
         \/ app' # "drained" /\ app \notin {"draining", "unresolved"}
  PROVE  DrainFits'
<1>1. /\ 1 \in DOMAIN gate
      /\ \A i \in DOMAIN gate' :
           i \in Nat \ {0} /\ i + 1 \in DOMAIN gate /\ i + 1 # 1 /\ gate'[i] = gate[i + 1]
  BY GateLeft
<1>2. CASE app' = app
  <2>1. ASSUME NEW i \in DOMAIN gate', gate'[i].kind = "drain"
        PROVE  /\ app \in {"draining", "unresolved"}
               /\ \A j \in DOMAIN gate' : j > i => gate'[j].by \in Late
    <3>1. i + 1 \in DOMAIN gate /\ gate[i + 1].kind = "drain"
      BY <1>1, <2>1
    <3>2. ASSUME NEW j \in DOMAIN gate', j > i PROVE gate'[j].by \in Late
      <4>1. j + 1 \in DOMAIN gate /\ gate'[j] = gate[j + 1] /\ j + 1 > i + 1
        BY <1>1, <3>2
      <4> QED BY <3>1, <4>1 DEF DrainFits
    <3> QED BY <3>1, <3>2 DEF DrainFits
  <2>2. app = "drained" => \A i \in DOMAIN gate' : gate'[i].by \in Late
    BY <1>1 DEF DrainFits
  <2> QED BY <1>2, <2>1, <2>2 DEF DrainFits
<1>3. CASE gate[1].kind = "drain" /\ \A i \in 2 .. Len(gate) : gate[i].kind # "drain"
  <2>1. \A i \in DOMAIN gate' : i + 1 > 1 /\ i + 1 \in 2 .. Len(gate)
    BY <1>1 DEF RuntimeShape
  <2>2. \A i \in DOMAIN gate' : gate'[i].kind # "drain" /\ gate'[i].by \in Late
    BY <1>1, <1>3, <2>1 DEF DrainFits
  <2> QED BY <2>2 DEF DrainFits
<1>4. CASE app' # "drained" /\ app \notin {"draining", "unresolved"}
  <2>1. \A i \in DOMAIN gate' : gate'[i].kind # "drain"
    BY <1>1, <1>4 DEF DrainFits
  <2> QED BY <1>4, <2>1 DEF DrainFits
<1> QED BY <1>2, <1>3, <1>4

LEMMA DrainStaged ==
  ASSUME DrainFits, DOMAIN gate' = DOMAIN gate, app' = app,
         \A i \in DOMAIN gate : gate'[i].kind = gate[i].kind /\ gate'[i].by = gate[i].by
  PROVE  DrainFits'
BY DEF DrainFits

(* The engine and the gate are as they were. *)
LEMMA EngineStays ==
  ASSUME RuntimeInv, Terms, UNCHANGED <<owned, intent, live, gate>>,
         \/ app' = app
         \/ app' \in {"draining", "unresolved"}
         \/ app' # "drained" /\ app \notin {"draining", "unresolved"}
  PROVE  GateInv' /\ LiveInv' /\ ClearInv' /\ DrainInv'
<1>1. GateInv' /\ LiveInv' /\ ClearInv'
  BY DEF RuntimeInv, GateInv, LiveInv, ClearInv, RunningFits, Count, Exact
<1>2. DrainFits'
  BY DEF RuntimeInv, DrainInv, DrainFits
<1>3. DrainInv'
  BY <1>2 DEF RuntimeInv, DrainInv, Count
<1> QED BY <1>1, <1>3
------------------------------------------------------------------------------
(* What each part of the invariant asks of a step. *)

LEMMA DrainStep ==
  ASSUME DrainFits', app' = "drained" => Count("running")' = 0
  PROVE  DrainInv'
BY DEF DrainInv

LEMMA DrainNow ==
  ASSUME RuntimeInv
  PROVE  DrainFits /\ (app = "drained" => Count("running") = 0)
BY DEF RuntimeInv, DrainInv

LEMMA TimelyStep ==
  ASSUME RuntimeInv, Terms,
         budget.timely /\ app' = "up" => MessagesWait' /\ JobsWait' /\ Backed'
  PROVE  TimelyInv'
BY DEF RuntimeInv, TimelyInv, Terms

LEMMA TimelyNow ==
  ASSUME RuntimeInv, budget.timely
  PROVE  budget.timeout = 0 /\ (app = "up" => MessagesWait /\ JobsWait /\ Backed)
BY DEF RuntimeInv, TimelyInv

LEMMA StartStep ==
  ASSUME app' \notin Starting,
         \A i \in DOMAIN gate' : gate'[i].by # "startup",
         \A i \in DOMAIN inbox' : inbox'[i].from # "startup"
  PROVE  StartInv'
BY DEF StartInv, Starting

(* What is under way while the app starts. *)
LEMMA StartNow ==
  ASSUME RuntimeInv
  PROVE  /\ gate # <<>> /\ app \in Starting =>
              /\ Len(gate) = 1 /\ inbox = <<>>
              /\ \/ app = "reconciling" /\ gate[1].kind = "reconcile"
                 \/ app = "ensuring" /\ gate[1].kind = "ensure" /\ gate[1].by = "startup"
         /\ inbox # <<>> /\ app \in Starting =>
              app = "assigning" /\ gate = <<>> /\ Len(inbox) = 1 /\ inbox[1].from = "startup"
         /\ app \in Starting => demand = {} /\ ~timer /\ \A h \in Holders : client[h] = "idle"
         /\ app \notin Starting => /\ \A i \in DOMAIN gate : gate[i].by # "startup"
                                   /\ \A i \in DOMAIN inbox : inbox[i].from # "startup"
         /\ app = "up" => app \notin Starting
BY DEF RuntimeInv, StartInv, Starting

(* The engine: what is stopped, removed and started. *)
LEMMA StopIs ==
  ASSUME RuntimeShape, owned' = AllStopped
  PROVE  /\ owned' \in [{"running", "stopped"} -> [Images -> Nat]]
         /\ Count("running")' = 0 /\ RunningFits'
<1>1. \A i \in Images : owned["running"][i] \in Nat /\ owned["stopped"][i] \in Nat
  BY DEF RuntimeShape
<1>2. PICK r : r = [i \in Images |-> 0]
  OBVIOUS
<1>3. PICK s : s = [i \in Images |-> owned["stopped"][i] + owned["running"][i]]
  OBVIOUS
<1>4. r \in [Images -> Nat] /\ s \in [Images -> Nat]
  BY <1>1, <1>2, <1>3
<1>5. owned \in [{"running", "stopped"} -> [Images -> Nat]]
  BY DEF RuntimeShape
<1>6. owned' = [owned EXCEPT !["running"] = r, !["stopped"] = s]
  BY <1>2, <1>3, <1>5 DEF AllStopped
<1>7. owned' \in [{"running", "stopped"} -> [Images -> Nat]] /\ owned'["running"] = r
  BY <1>4, <1>5, <1>6
<1>8. owned'["running"]["plan"] = 0 /\ owned'["running"]["old"] = 0
  BY <1>2, <1>7 DEF Images
<1> QED BY <1>7, <1>8 DEF Count, RunningFits, Images

LEMMA PruneIs ==
  ASSUME RuntimeShape, owned' = Pruned
  PROVE  /\ owned' \in [{"running", "stopped"} -> [Images -> Nat]]
         /\ owned'["running"] = owned["running"]
<1>1. PICK s : s = [i \in Images |-> IF Exact(i) /\ owned["stopped"][i] = 1 THEN 1 ELSE 0]
  OBVIOUS
<1>2. owned \in [{"running", "stopped"} -> [Images -> Nat]]
  BY DEF RuntimeShape
<1>3. owned' = [owned EXCEPT !["stopped"] = s]
  BY <1>1, <1>2 DEF Pruned
<1>4. s \in [Images -> Nat]
  BY <1>1
<1> QED BY <1>2, <1>3, <1>4

LEMMA StartedIs ==
  ASSUME RuntimeShape, RunningFits, intent \in {"none", "plan"}, intent' = "plan", owned' = Started
  PROVE  /\ owned' \in [{"running", "stopped"} -> [Images -> Nat]]
         /\ owned'["running"]["plan"] = 1 /\ Count("running")' = 1 /\ RunningFits'
<1>1. owned \in [{"running", "stopped"} -> [Images -> Nat]]
  BY DEF RuntimeShape
<1>2. PICK n : n = IF owned["running"]["plan"] = 1 THEN owned["stopped"]["plan"]
                   ELSE IF owned["stopped"]["plan"] > 0 THEN owned["stopped"]["plan"] - 1 ELSE 0
  OBVIOUS
<1>3. n \in Nat
  BY <1>2, OwnedFields
<1>4. PICK r : r = [owned["running"] EXCEPT !["plan"] = 1]
  OBVIOUS
<1>5. PICK s : s = [owned["stopped"] EXCEPT !["plan"] = n]
  OBVIOUS
<1>6. r \in [Images -> Nat] /\ s \in [Images -> Nat] /\ r["plan"] = 1
      /\ r["old"] = owned["running"]["old"]
  BY <1>1, <1>3, <1>4, <1>5, OwnedFields DEF Images
<1>7. owned' = [owned EXCEPT !["running"] = r, !["stopped"] = s]
  BY <1>1, <1>2, <1>4, <1>5 DEF Started
<1>8. owned' \in [{"running", "stopped"} -> [Images -> Nat]] /\ owned'["running"] = r
  BY <1>1, <1>6, <1>7
<1>9. owned["running"]["old"] = 0
  BY OwnedFields DEF RunningFits, Exact, Images
<1>10. owned'["running"]["plan"] = 1 /\ owned'["running"]["old"] = 0
  BY <1>6, <1>8, <1>9
<1> QED BY <1>8, <1>10 DEF Count, RunningFits, Images, Exact

LEMMA LiveFits ==
  ASSUME RuntimeShape, LiveInv, live
  PROVE  RunningFits /\ Count("running") = 1
BY OwnedFields DEF LiveInv, RunningFits, Count, Exact, Images

(* The running containers are as they were, and so is what holds of them. *)
LEMMA RunningStays ==
  ASSUME owned'["running"] = owned["running"]
  PROVE  /\ Count("running")' = Count("running")
         /\ intent' = intent /\ RunningFits => RunningFits'
         /\ intent' = intent /\ LiveInv /\ (live' => live) => LiveInv'
BY DEF Count, RunningFits, LiveInv, Exact
------------------------------------------------------------------------------
(* A command's stage changes, and messages come and go. *)

Waiting == {"assigning", "enabling", "detaching", "calling"}

LEMMA Gone ==
  ASSUME RuntimeShape, NEW h \in Holders, NEW stage \in ClientStages, Go(h, stage)
  PROVE  /\ client' \in [Holders -> ClientStages] /\ client'[h] = stage
         /\ \A g \in Holders : g # h => client'[g] = client[g]
BY DEF RuntimeShape, Go

LEMMA Sent ==
  ASSUME RuntimeShape, NEW m \in MessageType, inbox' = Append(inbox, m)
  PROVE  /\ inbox' \in Seq(MessageType)
         /\ \A i \in DOMAIN inbox : i \in DOMAIN inbox' /\ inbox'[i] = inbox[i]
         /\ \A i \in DOMAIN inbox' :
              i \in DOMAIN inbox \/ (inbox'[i] = m /\ i = Len(inbox) + 1)
         /\ (\A i \in DOMAIN inbox : inbox[i].from # "startup") /\ m.from # "startup" =>
              \A i \in DOMAIN inbox' : inbox'[i].from # "startup"
         /\ inbox = <<>> => Len(inbox') = 1 /\ inbox'[1] = m
<1>1. inbox \in Seq(MessageType)
  BY DEF RuntimeShape
<1>2. /\ inbox' \in Seq(MessageType)
      /\ \A i \in DOMAIN inbox : i \in DOMAIN inbox' /\ inbox'[i] = inbox[i]
      /\ \A i \in DOMAIN inbox' :
           i \in DOMAIN inbox \/ (inbox'[i] = m /\ i = Len(inbox) + 1)
  BY <1>1, Pushed
<1>3. inbox = <<>> => Len(inbox') = 1 /\ inbox'[1] = m
  OBVIOUS
<1> QED BY <1>2, <1>3

LEMMA TakenIs ==
  ASSUME RuntimeShape, inbox # <<>>, inbox' = Tail(inbox)
  PROVE  /\ inbox' \in Seq(MessageType) /\ Head(inbox) = inbox[1] /\ inbox[1] \in MessageType
         /\ 1 \in DOMAIN inbox /\ (Len(inbox) = 1 => inbox' = <<>>)
         /\ \A i \in DOMAIN inbox' :
              i \in Nat \ {0} /\ i + 1 \in DOMAIN inbox /\ i + 1 # 1
              /\ inbox'[i] = inbox[i + 1]
         /\ (\A i \in DOMAIN inbox : inbox[i].from # "startup") =>
              \A i \in DOMAIN inbox' : inbox'[i].from # "startup"
<1>1. inbox \in Seq(MessageType)
  BY DEF RuntimeShape
<1>2. /\ inbox' \in Seq(MessageType) /\ Head(inbox) = inbox[1]
      /\ 1 \in DOMAIN inbox /\ (Len(inbox) = 1 => inbox' = <<>>)
      /\ \A i \in DOMAIN inbox' :
           i \in Nat \ {0} /\ i + 1 \in DOMAIN inbox /\ i + 1 # 1
           /\ inbox'[i] = inbox[i + 1]
  BY <1>1, Popped
<1>3. inbox[1] \in MessageType
  BY <1>1, <1>2
<1> QED BY <1>2, <1>3

(* The holder of a message waits, and is no other's holder. *)
LEMMA WaitIs ==
  ASSUME RuntimeShape, MessagesWait, NEW i \in DOMAIN inbox,
         inbox[i].kind # "release", inbox[i].from # "startup"
  PROVE  inbox[i].from \in Holders /\ client[inbox[i].from] \in Waiting
<1>1. PICK m \in MessageType : m = inbox[i]
  BY DEF RuntimeShape
<1>2. m.from \in Holders /\ m.kind \in {"ensure", "enable", "disable", "close", "viewer"}
  BY <1>1, MessageFields
<1> QED BY <1>1, <1>2, AwaitsIs DEF MessagesWait, Waiting

LEMMA MessagesWaitGone ==
  ASSUME RuntimeShape, MessagesWait, \A i \in DOMAIN inbox : inbox[i].from # "startup",
         NEW h \in Holders, client[h] \notin Waiting,
         NEW stage \in ClientStages, Go(h, stage), inbox' = inbox
  PROVE  MessagesWait'
<1>1. \A g \in Holders : g # h => client'[g] = client[g]
  BY Gone
<1>2. ASSUME NEW i \in DOMAIN inbox, inbox[i].kind # "release"
      PROVE  client'[inbox[i].from] = Awaits(inbox[i].kind)
  <2>1. inbox[i].from \in Holders /\ inbox[i].from # h
    BY <1>2, WaitIs
  <2> QED BY <1>1, <1>2, <2>1 DEF MessagesWait
<1> QED BY <1>2 DEF MessagesWait

LEMMA MessagesWaitSent ==
  ASSUME RuntimeShape, MessagesWait, \A i \in DOMAIN inbox : inbox[i].from # "startup",
         NEW h \in Holders, client[h] \notin Waiting, NEW m \in MessageType,
         m.from = h, m.kind # "release",
         NEW stage \in ClientStages, stage = Awaits(m.kind), Go(h, stage),
         inbox' = Append(inbox, m)
  PROVE  MessagesWait'
<1>1. client'[h] = stage /\ \A g \in Holders : g # h => client'[g] = client[g]
  BY Gone
<1>2. /\ \A i \in DOMAIN inbox : i \in DOMAIN inbox' /\ inbox'[i] = inbox[i]
      /\ \A i \in DOMAIN inbox' :
           i \in DOMAIN inbox \/ (inbox'[i] = m /\ i = Len(inbox) + 1)
  BY Sent
<1>3. ASSUME NEW i \in DOMAIN inbox, inbox[i].kind # "release"
      PROVE  inbox[i].from \in Holders /\ inbox[i].from # h
  BY <1>3, WaitIs
<1>4. ASSUME NEW i \in DOMAIN inbox', inbox'[i].kind # "release"
      PROVE  client'[inbox'[i].from] = Awaits(inbox'[i].kind)
  <2>1. CASE i \in DOMAIN inbox
    BY <1>1, <1>2, <1>3, <1>4, <2>1 DEF MessagesWait
  <2>2. CASE inbox'[i] = m
    BY <1>1, <2>2
  <2> QED BY <1>2, <2>1, <2>2
<1>5. ASSUME NEW i \in DOMAIN inbox', inbox'[i].kind # "release",
             NEW j \in DOMAIN inbox', inbox'[i].from = inbox'[j].from
      PROVE  i = j
  <2>1. CASE i \in DOMAIN inbox /\ j \in DOMAIN inbox
    BY <1>2, <1>5, <2>1 DEF MessagesWait
  <2>2. CASE i \in DOMAIN inbox /\ inbox'[j] = m
    BY <1>2, <1>3, <1>5, <2>2
  <2>3. CASE inbox'[i] = m /\ j \in DOMAIN inbox
    <3>1. PICK k \in MessageType : k = inbox[j]
      BY <2>3 DEF RuntimeShape
    <3>2. k.from = h /\ h # "lifecycle"
      BY <1>2, <1>5, <2>3, <3>1, NamesApart
    <3>3. k.kind # "release"
      BY <3>2, MessageFields
    <3> QED BY <1>3, <2>3, <3>1, <3>2, <3>3
  <2>4. CASE i = Len(inbox) + 1 /\ j = Len(inbox) + 1
    BY <2>4
  <2> QED BY <1>2, <2>1, <2>2, <2>3, <2>4
<1> QED BY <1>4, <1>5 DEF MessagesWait

LEMMA MessagesWaitNotice ==
  ASSUME RuntimeShape, MessagesWait, notifyStopped, UNCHANGED client
  PROVE  MessagesWait'
<1>1. PICK m \in MessageType : m = [kind |-> "release", from |-> "lifecycle"]
  BY DEF MessageType
<1>2. /\ \A i \in DOMAIN inbox : i \in DOMAIN inbox' /\ inbox'[i] = inbox[i]
      /\ \A i \in DOMAIN inbox' :
           i \in DOMAIN inbox \/ (inbox'[i] = m /\ i = Len(inbox) + 1)
  BY <1>1, Sent DEF notifyStopped
<1>3. m.kind = "release" /\ m.from = "lifecycle"
  BY <1>1
<1>4. ASSUME NEW i \in DOMAIN inbox', inbox'[i].kind # "release"
      PROVE  i \in DOMAIN inbox /\ inbox'[i] = inbox[i]
             /\ client'[inbox'[i].from] = Awaits(inbox'[i].kind)
  BY <1>2, <1>3, <1>4 DEF MessagesWait
<1>5. ASSUME NEW i \in DOMAIN inbox', inbox'[i].kind # "release",
             NEW j \in DOMAIN inbox', inbox'[i].from = inbox'[j].from
      PROVE  i = j
  <2>1. PICK k \in MessageType : k = inbox[i]
    BY <1>4, <1>5 DEF RuntimeShape
  <2>2. k.kind # "release" /\ k = inbox'[i] /\ i \in DOMAIN inbox
    BY <1>4, <1>5, <2>1
  <2>3. k.from # "lifecycle"
    BY <2>2, MessageFields, NamesApart
  <2>4. j \in DOMAIN inbox /\ inbox'[j] = inbox[j]
    BY <1>2, <1>3, <1>5, <2>2, <2>3
  <2> QED BY <1>5, <2>1, <2>2, <2>4 DEF MessagesWait
<1> QED BY <1>4, <1>5 DEF MessagesWait

(* The first message is served, and nobody waits for it any more. *)
LEMMA MessagesWaitServed ==
  ASSUME RuntimeShape, MessagesWait, \A i \in DOMAIN inbox : inbox[i].from # "startup",
         inbox # <<>>, inbox' = Tail(inbox),
         \/ UNCHANGED client /\ inbox[1].kind = "release"
         \/ inbox[1].kind # "release" /\ \E stage \in ClientStages : Go(inbox[1].from, stage)
  PROVE  MessagesWait'
<1>1. /\ inbox[1] \in MessageType /\ 1 \in DOMAIN inbox
      /\ \A i \in DOMAIN inbox' :
              i \in Nat \ {0} /\ i + 1 \in DOMAIN inbox /\ i + 1 # 1
              /\ inbox'[i] = inbox[i + 1]
  BY TakenIs
<1>2. ASSUME NEW i \in DOMAIN inbox', inbox'[i].kind # "release"
      PROVE  client'[inbox'[i].from] = client[inbox'[i].from]
  <2>1. PICK n \in DOMAIN inbox : n = i + 1 /\ n # 1 /\ inbox'[i] = inbox[n]
    BY <1>1
  <2>2. inbox[n].from \in Holders
    BY <1>2, <2>1, WaitIs
  <2>3. CASE UNCHANGED client
    BY <2>3
  <2>4. CASE inbox[1].kind # "release"
    <3>1. inbox[1].from \in Holders
      BY <1>1, <2>4, WaitIs
    <3>2. inbox[n].from # inbox[1].from
      BY <1>1, <2>1, <2>4 DEF MessagesWait
    <3>3. PICK stage \in ClientStages : Go(inbox[1].from, stage)
      BY <2>4
    <3> QED BY <2>1, <2>2, <3>1, <3>2, <3>3, Gone
  <2> QED BY <2>3, <2>4
<1>3. ASSUME NEW i \in DOMAIN inbox', inbox'[i].kind # "release"
      PROVE  client'[inbox'[i].from] = Awaits(inbox'[i].kind)
  BY <1>1, <1>2, <1>3 DEF MessagesWait
<1>4. ASSUME NEW i \in DOMAIN inbox', inbox'[i].kind # "release",
             NEW j \in DOMAIN inbox', inbox'[i].from = inbox'[j].from
      PROVE  i = j
  <2>1. i + 1 = j + 1
    BY <1>1, <1>4 DEF MessagesWait
  <2> QED BY <1>1, <2>1
<1> QED BY <1>3, <1>4 DEF MessagesWait

LEMMA JobsWaitGone ==
  ASSUME RuntimeShape, JobsWait, NEW h \in Holders, client[h] # "ensuring",
         NEW stage \in ClientStages, Go(h, stage), gate' = gate
  PROVE  JobsWait'
<1>1. \A g \in Holders : g # h => client'[g] = client[g]
  BY Gone
<1> QED BY <1>1, NamesApart DEF JobsWait

(* A command whose stage moves between stages that need nothing keeps the *)
(* others' backing.                                                       *)
LEMMA BackedGone ==
  ASSUME RuntimeShape, Backed, NEW h \in Holders, NEW stage \in ClientStages, Go(h, stage),
         \A c \in Chats : c # h => conv'[c].mcp = conv[c].mcp /\ (c \in demand' => c \in demand),
         h \in Chats =>
           \/ stage \in {"enabling", "enable refused", "detach accepted"}
           \/ conv'[h].mcp = "connected"
           \/ stage # "enable accepted" /\ h \notin demand'
           \/ /\ stage # "enable accepted" /\ conv'[h].mcp = conv[h].mcp
              /\ (h \in demand' => h \in demand)
              /\ client[h] \notin {"enabling", "enable refused", "detach accepted"}
  PROVE  Backed'
<1>1. client'[h] = stage /\ \A g \in Holders : g # h => client'[g] = client[g]
  BY Gone
<1>2. ASSUME NEW c \in Chats
      PROVE  /\ c \in demand' /\ client'[c] \notin {"enabling", "enable refused", "detach accepted"} =>
                  conv'[c].mcp = "connected"
             /\ client'[c] = "enable accepted" => conv'[c].mcp = "connected"
  BY <1>1, <1>2, NamesApart DEF Backed
<1> QED BY <1>2 DEF Backed

LEMMA BackedStays ==
  ASSUME Backed, UNCHANGED client,
         \A c \in Chats : conv'[c].mcp = conv[c].mcp /\ (c \in demand' => c \in demand)
  PROVE  Backed'
BY DEF Backed
------------------------------------------------------------------------------
(* One lemma for each step of the gate. *)

(* A job of the gate goes on by one stage, and the engine with it. *)
LEMMA StagedSteps ==
  ASSUME RuntimeInv, gate # <<>>, NEW stage, Stage(stage),
         \/ gate[1].kind = "ensure" /\ stage \in {"prune", "prepare"}
         \/ gate[1].kind = "reconcile" /\ stage = "prune"
         \/ gate[1].kind \in StopKinds /\ stage = "stopping",
         KeepBudget, UNCHANGED <<intent, app, demand, timer, client, inbox, relay, conv>>,
         owned' \in [{"running", "stopped"} -> [Images -> Nat]],
         live' \in BOOLEAN, LiveInv',
         gate[1].kind = "ensure" => RunningFits',
         app = "drained" => Count("running")' = Count("running") \/ Count("running")' = 0
  PROVE  RuntimeInv'
<1>1. RuntimeShape /\ GateInv /\ LiveInv /\ ClearInv /\ StartInv /\ DrainInv /\ TimelyInv
  BY DEF RuntimeInv
<1>2. budget' \in RuntimeSetting /\ Terms
  BY <1>1, FreeFields DEF RuntimeShape
<1>3. /\ gate' \in Seq(JobType) /\ 1 \in DOMAIN gate
      /\ DOMAIN gate' = DOMAIN gate /\ Len(gate') = Len(gate)
      /\ \A i \in DOMAIN gate : gate'[i].kind = gate[i].kind /\ gate'[i].by = gate[i].by
      /\ GateInv' /\ ClearInv'
      /\ JobsWait => JobsWait'
  BY <1>1, GateStaged
<1>4. RuntimeShape'
  BY <1>1, <1>2, <1>3 DEF RuntimeShape
<1>5. StartInv'
  <2>1. CASE app \in Starting
    BY <1>1, <1>3, <2>1, StartNow DEF StartInv, Starting
  <2>2. CASE app \notin Starting
    BY <1>3, <2>2, StartNow DEF StartInv, Starting
  <2> QED BY <2>1, <2>2
<1>6. DrainInv'
  <2>1. DrainFits'
    BY <1>3, DrainNow, DrainStaged
  <2>2. app' = "drained" => Count("running")' = 0
    BY DrainNow
  <2> QED BY <2>1, <2>2, DrainStep
<1>7. TimelyInv'
  <2>1. budget.timely /\ app' = "up" => MessagesWait' /\ JobsWait' /\ Backed'
    BY <1>3, TimelyNow DEF MessagesWait, Backed
  <2> QED BY <1>2, <2>1, TimelyStep
<1> QED BY <1>3, <1>4, <1>5, <1>6, <1>7 DEF RuntimeInv

LEMMA HoldsIs ==
  ASSUME RuntimeInv, NEW kind, NEW stage, Holds(kind, stage)
  PROVE  /\ gate # <<>> /\ gate[1] \in JobType /\ Head(gate) = gate[1] /\ 1 \in DOMAIN gate
         /\ gate[1].kind = kind /\ gate[1].stage = stage
<1>1. gate \in Seq(JobType) /\ gate # <<>>
  BY DEF RuntimeInv, RuntimeShape, Holds
<1>2. Head(gate) = gate[1] /\ gate[1] \in JobType /\ 1 \in DOMAIN gate
  BY <1>1
<1> QED BY <1>1, <1>2 DEF Holds

LEMMA EnsureClearsKeeps ==
  ASSUME RuntimeInv, EnsureClears
  PROVE  RuntimeInv'
<1>1. /\ RuntimeShape /\ LiveInv
      /\ gate # <<>> /\ gate[1].kind = "ensure"
  BY HoldsIs DEF RuntimeInv, EnsureClears
<1>2. app = "drained" /\ owned' = owned => Count("running")' = Count("running")
  BY DEF Count
<1>3. CASE RunningFits /\ Count("running") = 1
  <2>1. Stage("prepare") /\ UNCHANGED <<owned, intent, live>>
    BY <1>3 DEF EnsureClears, memory
  <2>2. LiveInv' /\ RunningFits' /\ owned' \in [{"running", "stopped"} -> [Images -> Nat]]
        /\ live' \in BOOLEAN
    BY <1>1, <1>3, <2>1 DEF LiveInv, RunningFits, Count, Exact, RuntimeShape
  <2> QED BY <1>1, <1>2, <2>1, <2>2, StagedSteps DEF EnsureClears, memory
<1>4. CASE RunningFits /\ Count("running") # 1
  <2>1. Stage("prune") /\ UNCHANGED <<owned, intent, live>>
    BY <1>4 DEF EnsureClears, memory
  <2>2. LiveInv' /\ RunningFits' /\ owned' \in [{"running", "stopped"} -> [Images -> Nat]]
        /\ live' \in BOOLEAN
    BY <1>1, <1>4, <2>1 DEF LiveInv, RunningFits, Count, Exact, RuntimeShape
  <2> QED BY <1>1, <1>2, <2>1, <2>2, StagedSteps DEF EnsureClears, memory
<1>5. CASE ~RunningFits
  <2>1. Stage("prune") /\ owned' = AllStopped /\ UNCHANGED <<intent, live>>
    BY <1>5 DEF EnsureClears, memory
  <2>2. ~live
    BY <1>1, <1>5, LiveFits
  <2>3. /\ owned' \in [{"running", "stopped"} -> [Images -> Nat]]
        /\ Count("running")' = 0 /\ RunningFits'
    BY <1>1, <2>1, StopIs
  <2>4. LiveInv' /\ live' \in BOOLEAN
    BY <1>1, <2>1, <2>2 DEF LiveInv, RuntimeShape
  <2> QED BY <1>1, <2>1, <2>3, <2>4, StagedSteps DEF EnsureClears, memory
<1> QED BY <1>3, <1>4, <1>5

LEMMA EnsurePrunesKeeps ==
  ASSUME RuntimeInv, EnsurePrunes
  PROVE  RuntimeInv'
<1>1. /\ RuntimeShape /\ LiveInv /\ ClearInv
      /\ gate # <<>> /\ gate[1].kind = "ensure" /\ gate[1].stage = "prune" /\ 1 \in DOMAIN gate
  BY HoldsIs DEF RuntimeInv, EnsurePrunes
<1>2. RunningFits
  BY <1>1 DEF ClearInv
<1>3. /\ owned' \in [{"running", "stopped"} -> [Images -> Nat]]
      /\ owned'["running"] = owned["running"]
  BY <1>1, PruneIs DEF EnsurePrunes
<1>4. /\ Count("running")' = Count("running") /\ RunningFits' /\ LiveInv'
      /\ live' \in BOOLEAN
  BY <1>1, <1>2, <1>3, RunningStays DEF EnsurePrunes, memory, RuntimeShape
<1> QED BY <1>1, <1>3, <1>4, StagedSteps DEF EnsurePrunes, memory

(* The job leaves and its caller goes on: the gate, the messages, the callers *)
(* and the phase of the app.                                                  *)
LEMMA EnsuredIs ==
  ASSUME RuntimeInv, Terms, gate # <<>>, gate[1].kind = "ensure", NEW ready \in BOOLEAN, Ensured(ready),
         UNCHANGED <<demand, timer, relay, conv>>
  PROVE  /\ app' \in Apps /\ gate' \in Seq(JobType) /\ inbox' \in Seq(MessageType)
         /\ client' \in [Holders -> ClientStages]
         /\ GateInv' /\ ClearInv' /\ StartInv'
         /\ budget.timely /\ app' = "up" => MessagesWait' /\ JobsWait' /\ Backed'
         /\ DrainFits' /\ app' # "drained"
<1> DEFINE by == Head(gate).by
<1>1. RuntimeShape /\ GateInv /\ LiveInv /\ ClearInv /\ StartInv /\ DrainInv /\ TimelyInv
  BY DEF RuntimeInv
<1>2. gate' = Tail(gate)
  BY DEF Ensured, Leave
<1>3. /\ gate' \in Seq(JobType) /\ Head(gate) = gate[1] /\ 1 \in DOMAIN gate
      /\ gate[1] \in JobType /\ (Len(gate) = 1 => gate' = <<>>)
      /\ \A i \in DOMAIN gate' :
           i \in Nat \ {0} /\ i + 1 \in DOMAIN gate /\ i + 1 # 1 /\ gate'[i] = gate[i + 1]
      /\ GateInv' /\ ClearInv'
      /\ JobsWait =>
           /\ UNCHANGED client => JobsWait'
           /\ \A i \in DOMAIN gate' : gate'[i].by \in Chats => gate'[i].by # gate[1].by
  BY <1>1, <1>2, GateLeft
<1>4. by = gate[1].by /\ by \in Chats \cup {"startup", "operator"}
  BY <1>1, <1>3, JobFields
<1>5. \/ app' = app
      \/ by = "startup" /\ app' \in {"assigning", "syncing"}
      \/ by = "operator" /\ app = "drained" /\ app' = "reopened"
  BY DEF Ensured
<1>6. DrainFits' /\ app' # "drained"
  <2>1. DrainFits
    BY DrainNow
  <2>2. by = "startup" => app \in Starting
    BY <1>3, <1>4, StartNow
  <2>3. app = "drained" => by = "operator"
    BY <1>1, <1>3, <1>4, <2>1, NamesApart DEF DrainFits, Late
  <2>4. app' = app \/ (app' # "drained" /\ app \notin {"draining", "unresolved"})
    BY <1>5, <2>2 DEF Starting
  <2>5. app' # "drained"
    <3>1. CASE app = "drained"
      <4>1. by = "operator" /\ by \notin Chats /\ by # "startup"
        BY <1>1, <2>3, <3>1, NamesApart
      <4> QED BY <3>1, <4>1 DEF Ensured
    <3>2. CASE app # "drained"
      BY <1>5, <3>2
    <3> QED BY <3>1, <3>2
  <2> QED BY <1>1, <1>2, <2>1, <2>4, <2>5, DrainLeft
<1>7. ASSUME by \in Chats, ready,
             client' = [client EXCEPT ![by] = "assigning"],
             inbox' = Append(inbox, [kind |-> "ensure", from |-> by]), UNCHANGED app
      PROVE  /\ inbox' \in Seq(MessageType) /\ client' \in [Holders -> ClientStages]
             /\ StartInv'
             /\ budget.timely /\ app' = "up" => MessagesWait' /\ JobsWait' /\ Backed'
  <2>1. PICK h \in Chats : h = by
    BY <1>7
  <2>2. h \in Holders /\ h # "startup" /\ Go(h, "assigning")
    BY <1>1, <1>7, <2>1, NamesApart DEF Go
  <2>3. PICK m \in MessageType : m = [kind |-> "ensure", from |-> h]
    BY <2>1 DEF MessageType
  <2>4. m.kind = "ensure" /\ m.from = h /\ inbox' = Append(inbox, m)
    BY <1>7, <2>1, <2>3
  <2>5. "assigning" \in ClientStages
    BY DEF ClientStages
  <2>6. /\ inbox' \in Seq(MessageType)
        /\ (\A i \in DOMAIN inbox : inbox[i].from # "startup") =>
              \A i \in DOMAIN inbox' : inbox'[i].from # "startup"
    BY <1>1, <2>2, <2>4, Sent
  <2>7. /\ client' \in [Holders -> ClientStages]
        /\ \A g \in Holders : g # h => client'[g] = client[g]
    BY <1>1, <2>2, <2>5, Gone
  <2>8. app \notin Starting
    BY <1>4, <1>7, <2>1, <2>2, StartNow
  <2>9. StartInv'
    BY <1>3, <1>7, <2>6, <2>8, StartNow, StartStep
  <2>10. ASSUME budget.timely, app = "up" PROVE MessagesWait' /\ JobsWait' /\ Backed'
    <3>1. MessagesWait /\ JobsWait /\ Backed
      BY <2>10, TimelyNow
    <3>2. client[h] = "ensuring"
      BY <1>3, <1>4, <2>1, <3>1 DEF JobsWait
    <3>3. MessagesWait'
      <4>1. client[h] \notin Waiting
        BY <3>2 DEF Waiting
      <4>2. "assigning" = Awaits(m.kind) /\ m.kind # "release"
        BY <2>4, AwaitsIs
      <4>3. \A i \in DOMAIN inbox : inbox[i].from # "startup"
        BY <2>8, StartNow
      <4> QED BY <1>1, <2>2, <2>4, <2>5, <3>1, <4>1, <4>2, <4>3, MessagesWaitSent
    <3>4. JobsWait'
      <4>1. \A i \in DOMAIN gate' : gate'[i].by \in Chats => gate'[i].by # h
        BY <1>3, <1>4, <2>1, <3>1
      <4>2. \A i \in DOMAIN gate' : gate'[i].by \in Chats => client'[gate'[i].by] = "ensuring"
        BY <1>1, <1>3, <2>7, <3>1, <4>1, NamesApart DEF JobsWait
      <4>3. ASSUME NEW i \in DOMAIN gate', NEW j \in DOMAIN gate',
                   gate'[i].by \in Chats, gate'[i].by = gate'[j].by
            PROVE  i = j
        <5>1. i + 1 = j + 1
          BY <1>3, <3>1, <4>3 DEF JobsWait
        <5> QED BY <1>3, <5>1
      <4> QED BY <4>2, <4>3 DEF JobsWait
    <3>5. Backed'
      BY <1>1, <2>2, <2>5, <3>1, <3>2, BackedGone
    <3> QED BY <3>3, <3>4, <3>5
  <2> QED BY <1>7, <2>6, <2>7, <2>9, <2>10
<1>8. ASSUME by \in Chats, client' = [client EXCEPT ![by] = "idle"], UNCHANGED <<inbox, app>>
      PROVE  /\ inbox' \in Seq(MessageType) /\ client' \in [Holders -> ClientStages]
             /\ StartInv'
             /\ budget.timely /\ app' = "up" => MessagesWait' /\ JobsWait' /\ Backed'
  <2>1. PICK h \in Chats : h = by
    BY <1>8
  <2>2. h \in Holders /\ h # "startup" /\ Go(h, "idle")
    BY <1>1, <1>8, <2>1, NamesApart DEF Go
  <2>5. "idle" \in ClientStages
    BY DEF ClientStages
  <2>7. /\ client' \in [Holders -> ClientStages]
        /\ \A g \in Holders : g # h => client'[g] = client[g]
    BY <1>1, <2>2, <2>5, Gone
  <2>8. app \notin Starting
    BY <1>4, <1>8, <2>1, <2>2, StartNow
  <2>9. StartInv'
    BY <1>3, <1>8, <2>8, StartNow, StartStep
  <2>10. ASSUME budget.timely, app = "up" PROVE MessagesWait' /\ JobsWait' /\ Backed'
    <3>1. MessagesWait /\ JobsWait /\ Backed
      BY <2>10, TimelyNow
    <3>2. client[h] = "ensuring"
      BY <1>3, <1>4, <2>1, <3>1 DEF JobsWait
    <3>3. MessagesWait'
      <4>1. client[h] \notin Waiting
        BY <3>2 DEF Waiting
      <4>3. \A i \in DOMAIN inbox : inbox[i].from # "startup"
        BY <2>8, StartNow
      <4> QED BY <1>1, <1>8, <2>2, <2>5, <3>1, <4>1, <4>3, MessagesWaitGone
    <3>4. JobsWait'
      <4>1. \A i \in DOMAIN gate' : gate'[i].by \in Chats => gate'[i].by # h
        BY <1>3, <1>4, <2>1, <3>1
      <4>2. \A i \in DOMAIN gate' : gate'[i].by \in Chats => client'[gate'[i].by] = "ensuring"
        BY <1>1, <1>3, <2>7, <3>1, <4>1, NamesApart DEF JobsWait
      <4>3. ASSUME NEW i \in DOMAIN gate', NEW j \in DOMAIN gate',
                   gate'[i].by \in Chats, gate'[i].by = gate'[j].by
            PROVE  i = j
        <5>1. i + 1 = j + 1
          BY <1>3, <3>1, <4>3 DEF JobsWait
        <5> QED BY <1>3, <5>1
      <4> QED BY <4>2, <4>3 DEF JobsWait
    <3>5. Backed'
      BY <1>1, <2>2, <2>5, <3>1, <3>2, BackedGone
    <3> QED BY <3>3, <3>4, <3>5
  <2> QED BY <1>1, <1>8, <2>7, <2>9, <2>10 DEF RuntimeShape
<1>9. ASSUME by = "startup", app' = IF ready THEN "assigning" ELSE "syncing",
             inbox' = IF ready THEN Append(inbox, [kind |-> "ensure", from |-> by]) ELSE inbox,
             UNCHANGED client
      PROVE  /\ inbox' \in Seq(MessageType) /\ client' \in [Holders -> ClientStages]
             /\ StartInv' /\ app' # "up"
  <2>1. app \in Starting /\ app = "ensuring" /\ inbox = <<>> /\ Len(gate) = 1
    <3>1. app \in Starting
      BY <1>3, <1>4, <1>9, StartNow
    <3> QED BY <3>1, StartNow
  <2>2. demand = {} /\ ~timer /\ \A h \in Holders : client[h] = "idle"
    BY <2>1, StartNow
  <2>3. gate' = <<>>
    BY <1>3, <2>1
  <2>4. CASE ready
    <3>1. PICK m \in MessageType : m = [kind |-> "ensure", from |-> "startup"]
      BY DEF MessageType
    <3>2. inbox' = Append(inbox, m) /\ m.from = "startup" /\ app' = "assigning"
      BY <1>9, <2>4, <3>1
    <3>3. inbox' \in Seq(MessageType) /\ Len(inbox') = 1 /\ inbox'[1] = m
      BY <1>1, <2>1, <3>2, Sent
    <3> QED BY <1>1, <1>9, <2>2, <2>3, <3>2, <3>3 DEF StartInv, Starting, RuntimeShape
  <2>5. CASE ~ready
    BY <1>1, <1>9, <2>1, <2>2, <2>3, <2>5 DEF StartInv, Starting, RuntimeShape
  <2> QED BY <2>4, <2>5
<1>10. ASSUME by = "operator", app' = IF app = "drained" THEN "reopened" ELSE app,
              UNCHANGED <<client, inbox>>
       PROVE  /\ inbox' \in Seq(MessageType) /\ client' \in [Holders -> ClientStages]
              /\ StartInv'
              /\ budget.timely /\ app' = "up" => MessagesWait' /\ JobsWait' /\ Backed'
  <2>1. app \notin Starting /\ app' \notin Starting /\ (app' = "up" => app = "up")
    BY <1>4, <1>10, StartNow DEF Starting
  <2>2. StartInv'
    BY <1>3, <1>10, <2>1, StartNow, StartStep
  <2>3. budget.timely /\ app' = "up" => MessagesWait' /\ JobsWait' /\ Backed'
    BY <1>3, <1>10, <2>1, TimelyNow DEF MessagesWait, Backed
  <2> QED BY <1>1, <1>10, <2>2, <2>3 DEF RuntimeShape
<1>11. /\ inbox' \in Seq(MessageType) /\ client' \in [Holders -> ClientStages]
       /\ StartInv'
       /\ budget.timely /\ app' = "up" => MessagesWait' /\ JobsWait' /\ Backed'
  BY <1>7, <1>8, <1>9, <1>10 DEF Ensured
<1>12. app' \in Apps
  BY <1>1, <1>5 DEF RuntimeShape, Apps
<1> QED BY <1>3, <1>6, <1>11, <1>12

LEMMA EnsurePreparesKeeps ==
  ASSUME RuntimeInv, EnsurePrepares
  PROVE  RuntimeInv'
<1>1. /\ RuntimeShape /\ LiveInv /\ ClearInv
      /\ gate # <<>> /\ gate[1].kind = "ensure" /\ gate[1].stage = "prepare" /\ 1 \in DOMAIN gate
  BY HoldsIs DEF RuntimeInv, EnsurePrepares
<1>2. RunningFits
  BY <1>1 DEF ClearInv
<1>3. /\ owned' \in [{"running", "stopped"} -> [Images -> Nat]]
      /\ owned'["running"]["plan"] = 1 /\ Count("running")' = 1 /\ RunningFits'
  BY <1>1, <1>2, StartedIs DEF EnsurePrepares
<1>4. budget' \in RuntimeSetting /\ Terms
  BY <1>1, FreeFields DEF RuntimeShape, EnsurePrepares
<1>5. /\ app' \in Apps /\ gate' \in Seq(JobType) /\ inbox' \in Seq(MessageType)
      /\ client' \in [Holders -> ClientStages]
      /\ GateInv' /\ ClearInv' /\ StartInv'
      /\ budget.timely /\ app' = "up" => MessagesWait' /\ JobsWait' /\ Backed'
      /\ DrainFits' /\ app' # "drained"
  BY <1>1, <1>4, EnsuredIs DEF EnsurePrepares
<1>6. RuntimeShape'
  BY <1>1, <1>3, <1>4, <1>5 DEF RuntimeShape, EnsurePrepares
<1>7. LiveInv'
  BY <1>3 DEF LiveInv, EnsurePrepares, Images
<1>8. DrainInv' /\ TimelyInv'
  BY <1>4, <1>5, DrainStep, TimelyStep
<1> QED BY <1>5, <1>6, <1>7, <1>8 DEF RuntimeInv

LEMMA EnsureRefusesKeeps ==
  ASSUME RuntimeInv, EnsureRefuses
  PROVE  RuntimeInv'
<1>1. RuntimeShape /\ LiveInv /\ ClearInv /\ gate \in Seq(JobType)
  BY DEF RuntimeInv, RuntimeShape
<1>2. gate # <<>> /\ Head(gate) = gate[1] /\ gate[1].kind = "ensure" /\ 1 \in DOMAIN gate
  BY <1>1 DEF EnsureRefuses
<1>3. KeepBudget \/ Outage
  BY DEF EnsureRefuses
<1>4. budget' \in RuntimeSetting /\ Terms
  BY <1>1, <1>3, FreeFields, SpendFields DEF RuntimeShape, Outage
<1>5. /\ app' \in Apps /\ gate' \in Seq(JobType) /\ inbox' \in Seq(MessageType)
      /\ client' \in [Holders -> ClientStages]
      /\ GateInv' /\ ClearInv' /\ StartInv'
      /\ budget.timely /\ app' = "up" => MessagesWait' /\ JobsWait' /\ Backed'
      /\ DrainFits' /\ app' # "drained"
  BY <1>2, <1>4, EnsuredIs DEF EnsureRefuses, memory
<1>6. UNCHANGED <<live, demand, timer, relay, conv>>
  BY DEF EnsureRefuses, memory
<1>7. /\ owned' \in [{"running", "stopped"} -> [Images -> Nat]]
      /\ intent' \in {"none", "plan", "old", "corrupt"} /\ LiveInv'
  <2>1. CASE UNCHANGED engineVars
    BY <1>1, <1>6, <2>1 DEF engineVars, RuntimeShape, LiveInv, Count
  <2>2. CASE /\ Holds("ensure", "prepare") /\ intent \in {"none", "plan"}
             /\ intent' = "plan" /\ owned' \in {owned, Started}
    <3>1. RunningFits
      BY <1>1, <2>2, HoldsIs DEF ClearInv
    <3>2. live => intent = "plan" /\ Count("running") = 1 /\ owned["running"]["plan"] = 1
      BY <1>1, <2>2 DEF LiveInv, Images
    <3>3. CASE owned' = owned
      BY <1>1, <1>6, <2>2, <3>2, <3>3 DEF RuntimeShape, LiveInv, Count, Images
    <3>4. CASE owned' = Started
      <4>1. /\ owned' \in [{"running", "stopped"} -> [Images -> Nat]]
            /\ owned'["running"]["plan"] = 1 /\ Count("running")' = 1
        BY <1>1, <2>2, <3>1, <3>4, StartedIs
      <4> QED BY <2>2, <4>1 DEF LiveInv, Images
    <3> QED BY <2>2, <3>3, <3>4
  <2> QED BY <2>1, <2>2 DEF EnsureRefuses
<1>8. RuntimeShape'
  BY <1>1, <1>4, <1>5, <1>6, <1>7 DEF RuntimeShape
<1>9. DrainInv' /\ TimelyInv'
  BY <1>4, <1>5, DrainStep, TimelyStep
<1> QED BY <1>5, <1>7, <1>8, <1>9 DEF RuntimeInv

LEMMA StopDecidesKeeps ==
  ASSUME RuntimeInv, NEW kind \in StopKinds, StopDecides(kind)
  PROVE  RuntimeInv'
<1>1. RuntimeShape /\ LiveInv /\ ClearInv /\ GateInv
      /\ gate # <<>> /\ gate[1].kind = kind /\ 1 \in DOMAIN gate
  BY HoldsIs DEF RuntimeInv, StopDecides
<1>2. UNCHANGED <<owned, intent, app, live, demand, timer, client, inbox, relay, conv>> /\ KeepBudget
  BY DEF StopDecides, engineVars, memory
<1>3. budget' \in RuntimeSetting /\ Terms
  BY <1>1, <1>2, FreeFields DEF RuntimeShape
<1>4. LiveInv' /\ owned' \in [{"running", "stopped"} -> [Images -> Nat]] /\ live' \in BOOLEAN
      /\ Count("running")' = Count("running")
  BY <1>1, <1>2 DEF LiveInv, Count, RuntimeShape
<1>5. CASE Stage("stopping")
  <2>1. gate[1].kind \in StopKinds /\ gate[1].kind # "ensure"
    BY <1>1 DEF StopKinds
  <2> QED BY <1>1, <1>2, <1>4, <1>5, <2>1, StagedSteps
<1>6. CASE gate' = Tail(gate)
  <2>1. /\ gate' \in Seq(JobType)
        /\ \A i \in DOMAIN gate' :
             i \in Nat \ {0} /\ i + 1 \in DOMAIN gate /\ i + 1 # 1 /\ gate'[i] = gate[i + 1]
        /\ GateInv' /\ ClearInv'
        /\ JobsWait => JobsWait'
    BY <1>1, <1>2, <1>6, GateLeft
  <2>2. app \notin Starting
    BY <1>1, StartNow DEF StopKinds
  <2>3. StartInv'
    BY <1>2, <2>1, <2>2, StartNow, StartStep
  <2>4. DrainFits'
    BY <1>1, <1>2, <1>6, DrainNow, DrainLeft
  <2>5. DrainInv'
    BY <1>2, <1>4, <2>4, DrainNow, DrainStep
  <2>6. TimelyInv'
    BY <1>2, <1>3, <2>1, TimelyNow, TimelyStep DEF MessagesWait, Backed
  <2>7. RuntimeShape'
    BY <1>1, <1>2, <1>3, <2>1 DEF RuntimeShape
  <2> QED BY <1>4, <2>1, <2>3, <2>5, <2>6, <2>7 DEF RuntimeInv
<1> QED BY <1>5, <1>6 DEF StopDecides, Leave

LEMMA StopEndsKeeps ==
  ASSUME RuntimeInv, NEW kind \in StopKinds, StopEnds(kind)
  PROVE  RuntimeInv'
<1>1. RuntimeShape /\ LiveInv /\ ClearInv /\ GateInv
      /\ gate # <<>> /\ gate[1].kind = kind /\ 1 \in DOMAIN gate
  BY HoldsIs DEF RuntimeInv, StopEnds
<1>2. /\ owned' = AllStopped /\ live' = FALSE /\ timer' \in BOOLEAN
      /\ app' = (IF Awaited(kind) THEN "drained" ELSE app)
      /\ UNCHANGED <<intent, demand, client, relay, conv>> /\ KeepBudget
  BY <1>1 DEF StopEnds, RuntimeShape
<1>3. budget' \in RuntimeSetting /\ Terms
  BY <1>1, <1>2, FreeFields DEF RuntimeShape
<1>4. /\ owned' \in [{"running", "stopped"} -> [Images -> Nat]]
      /\ Count("running")' = 0 /\ RunningFits'
  BY <1>1, <1>2, StopIs
<1>5. app \notin Starting /\ app' \notin Starting /\ app' \in Apps
  <2>1. app \notin Starting
    BY <1>1, StartNow DEF StopKinds
  <2> QED BY <1>1, <1>2, <2>1 DEF Starting, RuntimeShape, Apps
<1>6. /\ inbox' \in Seq(MessageType)
      /\ \A i \in DOMAIN inbox' : inbox'[i].from # "startup"
      /\ app = "up" /\ MessagesWait => MessagesWait'
  <2>1. CASE app = "up"
    <3>1. notifyStopped
      BY <2>1 DEF StopEnds
    <3>2. PICK m \in MessageType : m = [kind |-> "release", from |-> "lifecycle"]
      BY DEF MessageType
    <3>3. inbox' = Append(inbox, m) /\ m.from # "startup"
      BY <3>1, <3>2 DEF notifyStopped
    <3>4. inbox' \in Seq(MessageType) /\ \A i \in DOMAIN inbox' : inbox'[i].from # "startup"
      BY <1>1, <1>5, <3>3, Sent, StartNow
    <3> QED BY <1>1, <1>2, <3>1, <3>4, MessagesWaitNotice
  <2>2. CASE app # "up"
    BY <1>1, <1>5, <2>2, StartNow DEF StopEnds, RuntimeShape
  <2> QED BY <2>1, <2>2
<1>7. PICK rest : rest = Tail(gate)
  OBVIOUS
<1>8. /\ rest \in Seq(JobType) /\ Len(rest) \in Nat
      /\ \A i \in DOMAIN rest :
           i \in Nat \ {0} /\ i + 1 \in DOMAIN gate /\ i + 1 # 1 /\ rest[i] = gate[i + 1]
  BY <1>1, <1>7, Popped DEF RuntimeShape
<1>9. \A i \in DOMAIN rest : rest[i].stage = "start" /\ rest[i].by # "startup"
  BY <1>1, <1>5, <1>8, StartNow DEF GateInv
<1>10. ASSUME JobsWait
       PROVE  /\ \A i \in DOMAIN rest : rest[i].by \in Chats => client[rest[i].by] = "ensuring"
              /\ \A i, j \in DOMAIN rest : rest[i].by \in Chats /\ rest[i].by = rest[j].by => i = j
  <2>1. \A i \in DOMAIN rest : rest[i].by \in Chats => client[rest[i].by] = "ensuring"
    BY <1>8, <1>10 DEF JobsWait
  <2>2. ASSUME NEW i \in DOMAIN rest, NEW j \in DOMAIN rest,
               rest[i].by \in Chats, rest[i].by = rest[j].by
        PROVE  i = j
    <3>1. i + 1 = j + 1
      BY <1>8, <1>10, <2>2 DEF JobsWait
    <3> QED BY <1>8, <3>1
  <2> QED BY <2>1, <2>2
<1>11. /\ gate' \in Seq(JobType)
       /\ \A i \in DOMAIN gate' : gate'[i].stage = "start" /\ gate'[i].by # "startup"
       /\ JobsWait => JobsWait'
  <2>1. CASE kind = "restart"
    <3>1. PICK job \in JobType : job = Job("ensure", "operator")
      BY JobIs
    <3>2. job.by = "operator" /\ job.stage = "start"
      BY <3>1, JobIs
    <3>3. gate' = Append(rest, job)
      BY <1>7, <2>1, <3>1 DEF StopEnds
    <3>4. /\ gate' \in Seq(JobType)
          /\ \A i \in DOMAIN gate' :
               (i \in DOMAIN rest /\ gate'[i] = rest[i]) \/ gate'[i] = job
      BY <1>8, <3>3, Pushed
    <3>5. job.by \notin Chats /\ job.by # "startup"
      BY <1>1, <3>2, NamesApart
    <3>6. JobsWait => JobsWait'
      <4>1. SUFFICES ASSUME JobsWait PROVE JobsWait'
        OBVIOUS
      <4>2. \A i \in DOMAIN gate' : gate'[i].by \in Chats =>
              i \in DOMAIN rest /\ gate'[i] = rest[i]
        BY <3>4, <3>5
      <4> QED BY <1>2, <1>10, <4>1, <4>2 DEF JobsWait
    <3> QED BY <1>9, <3>2, <3>4, <3>5, <3>6
  <2>2. CASE kind # "restart"
    <3>1. gate' = rest
      BY <1>7, <2>2 DEF StopEnds
    <3> QED BY <1>2, <1>8, <1>9, <1>10, <3>1 DEF JobsWait
  <2> QED BY <2>1, <2>2
<1>12. GateInv' /\ ClearInv' /\ LiveInv'
  BY <1>2, <1>11 DEF GateInv, ClearInv, LiveInv
<1>13. StartInv'
  BY <1>5, <1>6, <1>11, StartStep
<1>14. DrainInv'
  <2>1. DrainFits
    BY DrainNow
  <2>2. CASE kind # "restart"
    <3>1. gate' = Tail(gate)
      BY <2>2 DEF StopEnds
    <3>2. \/ app' = app
          \/ /\ gate[1].kind = "drain"
             /\ \A i \in 2 .. Len(gate) : gate[i].kind # "drain"
      BY <1>1, <1>2 DEF Awaited
    <3>3. DrainFits'
      BY <1>1, <2>1, <3>1, <3>2, DrainLeft
    <3> QED BY <1>4, <3>3, DrainStep
  <2>3. CASE kind = "restart"
    <3>1. app' = app
      BY <1>2, <2>3 DEF Awaited
    <3>2. PICK job \in JobType : job = Job("ensure", "operator")
      BY JobIs
    <3>3. job.kind = "ensure" /\ job.by = "operator" /\ gate' = Append(rest, job)
      BY <1>7, <2>3, <3>2, JobIs DEF StopEnds
    <3>4. \A i \in DOMAIN gate' :
            \/ i \in DOMAIN rest /\ i + 1 \in DOMAIN gate /\ i \in Nat /\ gate'[i] = gate[i + 1]
            \/ gate'[i] = job
      BY <1>8, <3>3, Pushed
    <3>5. ASSUME NEW i \in DOMAIN gate', gate'[i].kind = "drain"
          PROVE  /\ app \in {"draining", "unresolved"}
                 /\ \A j \in DOMAIN gate' : j > i => gate'[j].by \in Late
      <4>1. i + 1 \in DOMAIN gate /\ i \in Nat /\ gate[i + 1].kind = "drain"
        BY <3>3, <3>4, <3>5
      <4>2. ASSUME NEW j \in DOMAIN gate', j > i PROVE gate'[j].by \in Late
        <5>1. CASE gate'[j] = job
          BY <3>3, <5>1 DEF Late
        <5>2. CASE j + 1 \in DOMAIN gate /\ j \in Nat /\ gate'[j] = gate[j + 1]
          <6>1. j + 1 > i + 1
            BY <4>1, <4>2, <5>2
          <6> QED BY <2>1, <4>1, <5>2, <6>1 DEF DrainFits
        <5> QED BY <3>4, <5>1, <5>2
      <4> QED BY <2>1, <4>1, <4>2 DEF DrainFits
    <3>6. app = "drained" => \A i \in DOMAIN gate' : gate'[i].by \in Late
      BY <2>1, <3>3, <3>4 DEF DrainFits, Late
    <3>7. DrainFits'
      BY <3>1, <3>5, <3>6 DEF DrainFits
    <3> QED BY <1>4, <3>7, DrainStep
  <2> QED BY <2>2, <2>3
<1>15. TimelyInv'
  <2>1. ASSUME budget.timely, app' = "up" PROVE MessagesWait' /\ JobsWait' /\ Backed'
    <3>1. app = "up"
      BY <1>2, <2>1
    <3>2. MessagesWait /\ JobsWait /\ Backed
      BY <2>1, <3>1, TimelyNow
    <3> QED BY <1>2, <1>6, <1>11, <3>1, <3>2, BackedStays
  <2> QED BY <1>3, <2>1, TimelyStep
<1>16. RuntimeShape'
  BY <1>1, <1>2, <1>3, <1>4, <1>5, <1>6, <1>11 DEF RuntimeShape
<1> QED BY <1>12, <1>13, <1>14, <1>15, <1>16 DEF RuntimeInv

LEMMA StopFailsKeeps ==
  ASSUME RuntimeInv, NEW kind \in StopKinds, StopFails(kind)
  PROVE  RuntimeInv'
<1>1. RuntimeShape /\ LiveInv /\ ClearInv /\ GateInv
      /\ gate # <<>> /\ gate[1].kind = kind /\ 1 \in DOMAIN gate
  BY HoldsIs DEF RuntimeInv, StopFails
<1>2. /\ live' \in BOOLEAN /\ (live' => live) /\ timer' \in BOOLEAN /\ gate' = Tail(gate)
      /\ app' = (IF Awaited(kind) THEN "unresolved" ELSE app)
      /\ UNCHANGED <<owned, intent, demand, client, inbox, relay, conv>> /\ SpendBudget("outage")
  BY <1>1 DEF StopFails, RuntimeShape, RearmedAfter, Leave, engineVars, Outage
<1>3. budget' \in RuntimeSetting /\ Terms
  BY <1>1, <1>2, SpendFields DEF RuntimeShape
<1>4. /\ gate' \in Seq(JobType)
      /\ \A i \in DOMAIN gate' :
           i \in Nat \ {0} /\ i + 1 \in DOMAIN gate /\ i + 1 # 1 /\ gate'[i] = gate[i + 1]
      /\ GateInv' /\ ClearInv'
      /\ JobsWait => JobsWait'
  BY <1>1, <1>2, GateLeft
<1>5. app \notin Starting /\ app' \notin Starting /\ app' \in Apps
  <2>1. app \notin Starting
    BY <1>1, StartNow DEF StopKinds
  <2> QED BY <1>1, <1>2, <2>1 DEF Starting, RuntimeShape, Apps
<1>6. StartInv'
  BY <1>2, <1>4, <1>5, StartNow, StartStep
<1>7. LiveInv' /\ Count("running")' = Count("running")
  BY <1>1, <1>2 DEF LiveInv, Count
<1>8. DrainInv'
  <2>1. \/ app' = app
        \/ /\ gate[1].kind = "drain"
           /\ \A i \in 2 .. Len(gate) : gate[i].kind # "drain"
    BY <1>1, <1>2 DEF Awaited
  <2>2. DrainFits'
    BY <1>1, <1>2, <2>1, DrainNow, DrainLeft
  <2>3. app' = "drained" => app = "drained"
    BY <1>2
  <2> QED BY <1>7, <2>2, <2>3, DrainNow, DrainStep
<1>9. TimelyInv'
  <2>1. app' = "up" => app = "up"
    BY <1>2
  <2> QED BY <1>2, <1>3, <1>4, <2>1, TimelyNow, TimelyStep DEF MessagesWait, Backed
<1>10. RuntimeShape'
  BY <1>1, <1>2, <1>3, <1>4, <1>5 DEF RuntimeShape
<1> QED BY <1>4, <1>6, <1>7, <1>8, <1>9, <1>10 DEF RuntimeInv

(* A reconciliation runs alone, and the rest of the start follows it. *)
LEMMA ReconcileAlone ==
  ASSUME RuntimeInv, NEW stage, Holds("reconcile", stage)
  PROVE  /\ app = "reconciling" /\ Len(gate) = 1 /\ inbox = <<>> /\ demand = {} /\ ~timer
         /\ \A h \in Holders : client[h] = "idle"
         /\ gate # <<>> /\ gate[1].kind = "reconcile" /\ 1 \in DOMAIN gate
         /\ Tail(gate) = <<>>
<1>1. RuntimeShape /\ gate # <<>> /\ gate[1].kind = "reconcile" /\ 1 \in DOMAIN gate
      /\ gate[1] \in JobType
  BY HoldsIs DEF RuntimeInv
<1>2. gate[1].by = "startup"
  BY <1>1, JobFields
<1>3. app \in Starting
  BY <1>1, <1>2, StartNow
<1>4. Len(gate) = 1 /\ app = "reconciling" /\ inbox = <<>>
  BY <1>1, <1>3, StartNow
<1>5. Tail(gate) = <<>>
  BY <1>1, <1>4, Popped DEF RuntimeInv, RuntimeShape
<1> QED BY <1>1, <1>3, <1>4, <1>5, StartNow

(* The start reaches its next phase with nothing under way. *)
LEMMA StartGoesOn ==
  ASSUME RuntimeInv, app \in Starting, app' = "snapshot" \/ app' = "syncing",
         gate' = <<>>, inbox' = <<>>, UNCHANGED <<demand, timer, client, conv, intent>>,
         owned' \in [{"running", "stopped"} -> [Images -> Nat]],
         live' \in BOOLEAN, relay' \in BOOLEAN, LiveInv', budget' \in RuntimeSetting, Terms
  PROVE  RuntimeInv'
<1>1. RuntimeShape
  BY DEF RuntimeInv
<1>2. <<>> \in Seq(JobType) /\ <<>> \in Seq(MessageType) /\ app' \in Apps
  BY DEF Apps
<1>3. RuntimeShape'
  BY <1>1, <1>2 DEF RuntimeShape
<1>4. GateInv' /\ ClearInv'
  BY DEF GateInv, ClearInv
<1>5. StartInv'
  BY StartNow DEF StartInv, Starting
<1>6. DrainInv' /\ TimelyInv'
  <2>1. DrainFits'
    BY DEF DrainFits
  <2> QED BY <2>1, DrainStep, TimelyStep
<1> QED BY <1>3, <1>4, <1>5, <1>6 DEF RuntimeInv

LEMMA ReconcileRunningKeeps ==
  ASSUME RuntimeInv, ReconcileRunning
  PROVE  RuntimeInv'
<1>1. RuntimeShape /\ LiveInv
  BY DEF RuntimeInv
<1>2. /\ app = "reconciling" /\ inbox = <<>> /\ app \in Starting
      /\ gate # <<>> /\ gate[1].kind = "reconcile" /\ Tail(gate) = <<>>
  BY ReconcileAlone DEF ReconcileRunning, Starting
<1>3. UNCHANGED <<intent, demand, timer, client, inbox, relay, conv>>
  BY DEF ReconcileRunning
<1>4. budget' \in RuntimeSetting /\ Terms
  <2>1. KeepBudget \/ Outage
    BY DEF ReconcileRunning
  <2> QED BY <1>1, <2>1, FreeFields, SpendFields DEF RuntimeShape, Outage
<1>5. /\ owned' \in [{"running", "stopped"} -> [Images -> Nat]] /\ live' \in BOOLEAN /\ LiveInv'
      /\ owned' = owned => Count("running")' = Count("running")
  <2>1. CASE Adoptable /\ live' = TRUE /\ UNCHANGED owned
    <3>1. owned["running"][intent] = 1
      BY <1>1, <2>1, OwnedFields DEF Adoptable, RunningFits, Exact, Count, Images
    <3> QED BY <1>1, <1>3, <2>1, <3>1 DEF Adoptable, LiveInv, Count, RuntimeShape
  <2>2. CASE live' = FALSE /\ owned' = AllStopped
    BY <1>1, <2>2, StopIs DEF LiveInv, Count
  <2>3. CASE live' = FALSE /\ UNCHANGED owned
    BY <1>1, <2>3 DEF LiveInv, RuntimeShape, Count
  <2> QED BY <2>1, <2>2, <2>3 DEF ReconcileRunning
<1>6. CASE Stage("prune") /\ UNCHANGED app /\ KeepBudget
  BY <1>2, <1>3, <1>5, <1>6, StagedSteps
<1>7. CASE Leave /\ app' = "snapshot"
  <2>1. gate' = <<>> /\ inbox' = <<>> /\ relay' \in BOOLEAN
    BY <1>1, <1>2, <1>3, <1>7 DEF Leave, RuntimeShape
  <2> QED BY <1>2, <1>3, <1>4, <1>5, <1>7, <2>1, StartGoesOn
<1>8. CASE Stage("prune") /\ UNCHANGED <<app, owned>> /\ Outage
  <2>1. /\ gate' \in Seq(JobType) /\ DOMAIN gate' = DOMAIN gate /\ Len(gate') = Len(gate)
        /\ \A i \in DOMAIN gate : gate'[i].kind = gate[i].kind /\ gate'[i].by = gate[i].by
        /\ GateInv' /\ ClearInv' /\ 1 \in DOMAIN gate
    BY <1>1, <1>2, <1>8, GateStaged DEF RuntimeInv
  <2>2. RuntimeShape'
    BY <1>1, <1>3, <1>4, <1>5, <1>8, <2>1 DEF RuntimeShape
  <2>3. StartInv'
    BY <1>2, <1>3, <1>8, <2>1, StartNow DEF StartInv, Starting
  <2>4. DrainInv'
    <3>1. DrainFits'
      BY <1>8, <2>1, DrainNow, DrainStaged
    <3> QED BY <1>2, <1>8, <3>1, DrainStep
  <2>5. TimelyInv'
    BY <1>2, <1>4, <1>8, TimelyStep
  <2> QED BY <1>5, <2>1, <2>2, <2>3, <2>4, <2>5 DEF RuntimeInv
<1> QED BY <1>6, <1>7, <1>8 DEF ReconcileRunning

LEMMA ReconcilePrunesKeeps ==
  ASSUME RuntimeInv, ReconcilePrunes
  PROVE  RuntimeInv'
<1>1. RuntimeShape /\ LiveInv
  BY DEF RuntimeInv
<1>2. /\ app = "reconciling" /\ inbox = <<>> /\ app \in Starting /\ Tail(gate) = <<>>
  BY ReconcileAlone DEF ReconcilePrunes, Starting
<1>3. /\ UNCHANGED <<intent, live, demand, timer, client, inbox, relay, conv>>
      /\ gate' = Tail(gate) /\ app' = "snapshot"
  BY DEF ReconcilePrunes, memory, Leave
<1>4. budget' \in RuntimeSetting /\ Terms
  <2>1. KeepBudget \/ Outage
    BY DEF ReconcilePrunes
  <2> QED BY <1>1, <2>1, FreeFields, SpendFields DEF RuntimeShape, Outage
<1>5. owned' \in [{"running", "stopped"} -> [Images -> Nat]] /\ LiveInv'
  <2>1. CASE owned' = Pruned
    <3>1. /\ owned' \in [{"running", "stopped"} -> [Images -> Nat]]
          /\ owned'["running"] = owned["running"]
      BY <1>1, <2>1, PruneIs
    <3> QED BY <1>1, <1>3, <3>1, RunningStays
  <2>2. CASE UNCHANGED owned
    BY <1>1, <1>3, <2>2 DEF LiveInv, Count, RuntimeShape
  <2> QED BY <2>1, <2>2 DEF ReconcilePrunes
<1>6. gate' = <<>> /\ inbox' = <<>> /\ relay' \in BOOLEAN /\ live' \in BOOLEAN
  BY <1>1, <1>2, <1>3 DEF RuntimeShape
<1> QED BY <1>2, <1>3, <1>4, <1>5, <1>6, StartGoesOn
------------------------------------------------------------------------------
(* The start goes on without the engine. *)

LEMMA StartupDemandKeeps ==
  ASSUME RuntimeInv, synchronizeStartupDemand
  PROVE  RuntimeInv'
<1>1. RuntimeShape
  BY DEF RuntimeInv
<1>2. app = "snapshot" /\ app \in Starting /\ gate = <<>> /\ inbox = <<>>
  BY DEF synchronizeStartupDemand, RuntimeInv, StartInv, Starting
<1>3. UNCHANGED <<owned, intent, live, demand, timer, client, inbox, relay, conv>> /\ KeepBudget
  BY DEF synchronizeStartupDemand, engineVars, memory
<1>4. budget' \in RuntimeSetting /\ Terms
  BY <1>1, <1>3, FreeFields DEF RuntimeShape
<1>5. LiveInv' /\ owned' \in [{"running", "stopped"} -> [Images -> Nat]]
      /\ live' \in BOOLEAN /\ relay' \in BOOLEAN
  BY <1>1, <1>3 DEF RuntimeInv, LiveInv, Count, RuntimeShape
<1>6. CASE app' = "syncing" /\ UNCHANGED gate
  BY <1>2, <1>3, <1>4, <1>5, <1>6, StartGoesOn
<1>7. CASE exclusive(Job("ensure", "startup")) /\ app' = "ensuring"
  <2>1. PICK job \in JobType : job = Job("ensure", "startup")
    BY JobIs
  <2>2. job.kind = "ensure" /\ job.by = "startup" /\ job.stage = "start"
        /\ gate' = Append(gate, job)
    BY <1>7, <2>1, JobIs DEF exclusive
  <2>3. gate' \in Seq(JobType) /\ GateInv' /\ ClearInv'
    BY <1>1, <1>3, <2>2, GatePushed DEF RuntimeInv
  <2>4. Len(gate') = 1 /\ gate'[1] = job
    BY <1>2, <2>2
  <2>5. RuntimeShape'
    BY <1>1, <1>3, <1>4, <1>7, <2>3 DEF RuntimeShape, Apps
  <2>6. StartInv'
    BY <1>2, <1>3, <1>7, <2>2, <2>4, StartNow DEF StartInv, Starting
  <2>7. DrainInv' /\ TimelyInv'
    <3>1. DrainFits'
      <4>1. \A i \in DOMAIN gate' : gate'[i].kind = "ensure"
        BY <1>2, <2>2
      <4> QED BY <1>7, <4>1 DEF DrainFits
    <3> QED BY <1>4, <1>7, <3>1, DrainStep, TimelyStep
  <2> QED BY <1>5, <2>3, <2>5, <2>6, <2>7 DEF RuntimeInv
<1> QED BY <1>6, <1>7 DEF synchronizeStartupDemand

LEMMA SyncDemandKeeps ==
  ASSUME RuntimeInv, SyncDemand
  PROVE  RuntimeInv'
<1>1. RuntimeShape
  BY DEF RuntimeInv
<1>2. app = "syncing" /\ app \in Starting /\ gate = <<>> /\ inbox = <<>>
  BY DEF SyncDemand, RuntimeInv, StartInv, Starting
<1>3. /\ UNCHANGED <<owned, intent, live, gate, client, inbox, relay, conv>> /\ KeepBudget
      /\ app' = "up" /\ demand' = Connected /\ timer' \in BOOLEAN
  BY DEF SyncDemand, engineVars, syncDemand
<1>4. budget' \in RuntimeSetting /\ Terms
  BY <1>1, <1>3, FreeFields DEF RuntimeShape
<1>5. Connected \subseteq Holders
  BY <1>1, NamesApart DEF Connected
<1>6. RuntimeShape'
  BY <1>1, <1>3, <1>4, <1>5 DEF RuntimeShape, Apps
<1>7. GateInv' /\ LiveInv' /\ ClearInv' /\ DrainInv'
  BY <1>2, <1>3, <1>4, EngineStays
<1>8. StartInv'
  BY <1>2, <1>3, StartStep DEF Starting
<1>9. TimelyInv'
  <2>1. MessagesWait' /\ JobsWait'
    BY <1>2, <1>3 DEF MessagesWait, JobsWait
  <2>2. Backed'
    BY <1>1, <1>2, <1>3, StartNow, NamesApart DEF Backed, Connected
  <2> QED BY <1>4, <2>1, <2>2, TimelyStep
<1> QED BY <1>6, <1>7, <1>8, <1>9 DEF RuntimeInv

(* A step after the start that leaves the engine and the gate alone. *)
LEMMA QuietKeeps ==
  ASSUME RuntimeInv, budget' \in RuntimeSetting, Terms, app \notin Starting,
         UNCHANGED <<owned, intent, live, gate, app>>,
         timer' \in BOOLEAN, relay' \in BOOLEAN, demand' \subseteq Holders,
         client' \in [Holders -> ClientStages], conv' \in [Chats -> Conversation],
         inbox' \in Seq(MessageType), \A i \in DOMAIN inbox' : inbox'[i].from # "startup",
         budget.timely /\ app = "up" => MessagesWait' /\ JobsWait' /\ Backed'
  PROVE  RuntimeInv'
<1>1. RuntimeShape'
  BY DEF RuntimeInv, RuntimeShape
<1>2. GateInv' /\ LiveInv' /\ ClearInv' /\ DrainInv'
  BY EngineStays
<1>3. StartInv'
  BY StartNow, StartStep
<1>4. TimelyInv'
  BY TimelyStep
<1> QED BY <1>1, <1>2, <1>3, <1>4 DEF RuntimeInv

(* A step after the start that queues a job for the engine. *)
LEMMA PushKeeps ==
  ASSUME RuntimeInv, budget' \in RuntimeSetting, Terms, app \notin Starting,
         UNCHANGED <<owned, intent, live, demand, inbox, relay, conv, app>>, timer' \in BOOLEAN,
         client' \in [Holders -> ClientStages],
         NEW job \in JobType, job.stage = "start", job.by # "startup", gate' = Append(gate, job),
         job.kind # "drain", job.by \in Late \/ app = "up",
         budget.timely /\ app = "up" => MessagesWait' /\ JobsWait' /\ Backed'
  PROVE  RuntimeInv'
<1>1. RuntimeShape /\ LiveInv
  BY DEF RuntimeInv
<1>2. /\ gate' \in Seq(JobType)
      /\ \A i \in DOMAIN gate : i \in DOMAIN gate' /\ gate'[i] = gate[i] /\ i \in Nat \ {0}
      /\ \A i \in DOMAIN gate' :
              i \in DOMAIN gate \/ (gate'[i] = job /\ i = Len(gate) + 1
                                    /\ \A j \in DOMAIN gate : j < i)
      /\ GateInv' /\ ClearInv'
  BY <1>1, GatePushed DEF RuntimeInv
<1>3. RuntimeShape'
  BY <1>1, <1>2 DEF RuntimeShape
<1>4. LiveInv' /\ Count("running")' = Count("running")
  BY <1>1 DEF LiveInv, Count
<1>5. StartInv'
  BY <1>2, StartNow, StartStep
<1>6. DrainInv'
  <2>1. job.by \in Late \/ app \notin {"draining", "unresolved", "drained"}
    OBVIOUS
  <2>2. DrainFits'
    BY <1>1, <2>1, DrainNow, DrainPushed
  <2> QED BY <1>4, <2>2, DrainNow, DrainStep
<1>7. TimelyInv'
  BY TimelyStep
<1> QED BY <1>2, <1>3, <1>4, <1>5, <1>6, <1>7 DEF RuntimeInv

LEMMA IdleExpiresKeeps ==
  ASSUME RuntimeInv, IdleExpires
  PROVE  RuntimeInv'
<1>1. RuntimeShape
  BY DEF RuntimeInv
<1>2. /\ UNCHANGED <<owned, intent, live, demand, client, inbox, relay, conv, app>> /\ KeepBudget
      /\ timer' = FALSE /\ gate' = Append(gate, Job("idle", "lifecycle")) /\ timer
  BY DEF IdleExpires, engineVars, exclusive
<1>3. budget' \in RuntimeSetting /\ Terms
  BY <1>1, <1>2, FreeFields DEF RuntimeShape
<1>4. app \notin Starting
  BY <1>2, StartNow
<1>5. PICK job \in JobType : job = Job("idle", "lifecycle")
  BY JobIs
<1>6. job.kind = "idle" /\ job.by = "lifecycle" /\ job.stage = "start"
  BY <1>5, JobIs
<1>7. job.by \notin Chats /\ job.by # "startup" /\ job.by \in Late
  BY <1>1, <1>6, NamesApart DEF Late
<1>8. JobsWait => JobsWait'
  BY <1>1, <1>2, <1>5, <1>6, <1>7, GatePushed
<1>9. budget.timely /\ app = "up" => MessagesWait' /\ JobsWait' /\ Backed'
  BY <1>2, <1>8, TimelyNow DEF MessagesWait, Backed
<1>10. client' \in [Holders -> ClientStages]
  BY <1>1, <1>2 DEF RuntimeShape
<1> QED BY <1>2, <1>3, <1>4, <1>5, <1>6, <1>7, <1>9, <1>10, PushKeeps

LEMMA OperatorAsksKeeps ==
  ASSUME RuntimeInv, NEW kind \in {"ensure", "stop", "restart"}, OperatorAsks(kind)
  PROVE  RuntimeInv'
<1>1. RuntimeShape
  BY DEF RuntimeInv
<1>2. /\ UNCHANGED <<owned, intent, live, demand, timer, client, inbox, relay, conv, app>>
      /\ SpendBudget("asked") /\ app \in Served
      /\ gate' = Append(gate, Job(kind, "operator"))
  BY DEF OperatorAsks, engineVars, memory, exclusive
<1>3. budget' \in RuntimeSetting /\ Terms
  BY <1>1, <1>2, SpendFields DEF RuntimeShape
<1>4. app \notin Starting
  BY <1>2 DEF Starting, Served
<1>5. PICK job \in JobType : job = Job(kind, "operator")
  BY JobIs
<1>6. job.kind = kind /\ job.by = "operator" /\ job.stage = "start"
  BY <1>5, JobIs
<1>7. job.by \notin Chats /\ job.by # "startup" /\ job.by \in Late /\ job.kind # "drain"
  BY <1>1, <1>6, NamesApart DEF Late
<1>8. JobsWait => JobsWait'
  BY <1>1, <1>2, <1>5, <1>6, <1>7, GatePushed
<1>9. budget.timely /\ app = "up" => MessagesWait' /\ JobsWait' /\ Backed'
  BY <1>2, <1>8, TimelyNow DEF MessagesWait, Backed
<1>10. client' \in [Holders -> ClientStages] /\ timer' \in BOOLEAN
  BY <1>1, <1>2 DEF RuntimeShape
<1> QED BY <1>2, <1>3, <1>4, <1>5, <1>6, <1>7, <1>9, <1>10, PushKeeps

LEMMA EnableOwnedKeeps ==
  ASSUME RuntimeInv, NEW c \in Chats, enableOwned(c)
  PROVE  RuntimeInv'
<1>1. RuntimeShape
  BY DEF RuntimeInv
<1>2. /\ UNCHANGED <<owned, intent, live, demand, timer, inbox, relay, conv, app>>
      /\ SpendBudget("attempt") /\ app = "up" /\ client[c] = "idle" /\ Go(c, "ensuring")
      /\ gate' = Append(gate, Job("ensure", c))
  BY DEF enableOwned, engineVars, memory, exclusive, IsAt
<1>3. budget' \in RuntimeSetting /\ Terms
  BY <1>1, <1>2, SpendFields DEF RuntimeShape
<1>4. app \notin Starting
  BY <1>2 DEF Starting
<1>5. PICK job \in JobType : job = Job("ensure", c)
  BY JobIs
<1>6. job.kind = "ensure" /\ job.by = c /\ job.stage = "start"
  BY <1>5, JobIs
<1>7. c \in Holders /\ job.by # "startup" /\ "ensuring" \in ClientStages
  BY <1>1, <1>6, NamesApart DEF ClientStages
<1>8. /\ client' \in [Holders -> ClientStages] /\ client'[c] = "ensuring"
      /\ \A g \in Holders : g # c => client'[g] = client[g]
  BY <1>1, <1>2, <1>7, Gone
<1>9. ASSUME budget.timely, app = "up" PROVE MessagesWait' /\ JobsWait' /\ Backed'
  <2>1. MessagesWait /\ JobsWait /\ Backed
    BY <1>9, TimelyNow
  <2>2. MessagesWait'
    <3>1. client[c] \notin Waiting /\ \A i \in DOMAIN inbox : inbox[i].from # "startup"
      BY <1>2, <1>4, StartNow DEF Waiting
    <3> QED BY <1>1, <1>2, <1>7, <2>1, <3>1, MessagesWaitGone
  <2>3. JobsWait'
    <3>1. /\ \A i \in DOMAIN gate : i \in DOMAIN gate' /\ gate'[i] = gate[i]
          /\ \A i \in DOMAIN gate' :
               i \in DOMAIN gate \/ (gate'[i] = job /\ i = Len(gate) + 1)
      BY <1>1, <1>2, <1>5, <1>6, GatePushed
    <3>2. \A i \in DOMAIN gate : gate[i].by # c
      BY <1>2, <2>1 DEF JobsWait
    <3>3. \A i \in DOMAIN gate' : gate'[i].by \in Chats => client'[gate'[i].by] = "ensuring"
      BY <1>1, <1>6, <1>8, <2>1, <3>1, <3>2, NamesApart DEF JobsWait
    <3>4. \A i, j \in DOMAIN gate' : gate'[i].by \in Chats /\ gate'[i].by = gate'[j].by => i = j
      BY <1>6, <2>1, <3>1, <3>2 DEF JobsWait
    <3> QED BY <3>3, <3>4 DEF JobsWait
  <2>4. Backed'
    BY <1>1, <1>2, <1>7, <2>1, BackedGone
  <2> QED BY <2>2, <2>3, <2>4
<1>10. timer' \in BOOLEAN
  BY <1>1, <1>2 DEF RuntimeShape
<1> QED BY <1>2, <1>3, <1>4, <1>5, <1>6, <1>7, <1>8, <1>9, <1>10, PushKeeps

LEMMA EnableHeldKeeps ==
  ASSUME RuntimeInv, NEW c \in Chats, EnableHeld(c)
  PROVE  RuntimeInv'
<1>1. RuntimeShape
  BY DEF RuntimeInv
<1>2. /\ UNCHANGED <<owned, intent, live, gate, relay, conv, app>> /\ KeepBudget
      /\ app = "up" /\ client[c] = "assigned" /\ Go(c, "enabling")
      /\ demand' = demand \cup {c} /\ timer' = FALSE
      /\ inbox' = Append(inbox, [kind |-> "enable", from |-> c])
  BY DEF EnableHeld, engineVars, acquire, IsAt, Send
<1>3. budget' \in RuntimeSetting /\ Terms
  BY <1>1, <1>2, FreeFields DEF RuntimeShape
<1>4. app \notin Starting
  BY <1>2 DEF Starting
<1>5. PICK m \in MessageType : m = [kind |-> "enable", from |-> c]
  BY DEF MessageType
<1>6. m.kind = "enable" /\ m.from = c /\ inbox' = Append(inbox, m)
  BY <1>2, <1>5
<1>7. c \in Holders /\ c # "startup" /\ "enabling" \in ClientStages
  BY <1>1, NamesApart DEF ClientStages
<1>8. client' \in [Holders -> ClientStages] /\ demand' \subseteq Holders
  BY <1>1, <1>2, <1>7, Gone DEF RuntimeShape
<1>9. /\ inbox' \in Seq(MessageType) /\ \A i \in DOMAIN inbox' : inbox'[i].from # "startup"
  BY <1>1, <1>4, <1>6, <1>7, Sent, StartNow
<1>10. ASSUME budget.timely, app = "up" PROVE MessagesWait' /\ JobsWait' /\ Backed'
  <2>1. MessagesWait /\ JobsWait /\ Backed
    BY <1>10, TimelyNow
  <2>2. MessagesWait'
    <3>1. client[c] \notin Waiting /\ \A i \in DOMAIN inbox : inbox[i].from # "startup"
      BY <1>2, <1>4, StartNow DEF Waiting
    <3>2. m.kind # "release" /\ "enabling" = Awaits(m.kind)
      BY <1>6, AwaitsIs
    <3> QED BY <1>1, <1>2, <1>6, <1>7, <2>1, <3>1, <3>2, MessagesWaitSent
  <2>3. JobsWait'
    BY <1>1, <1>2, <1>7, <2>1, JobsWaitGone
  <2>4. Backed'
    <3>1. \A g \in Chats : g # c => conv'[g].mcp = conv[g].mcp /\ (g \in demand' => g \in demand)
      BY <1>2
    <3> QED BY <1>1, <1>2, <1>7, <2>1, <3>1, BackedGone
  <2> QED BY <2>2, <2>3, <2>4
<1>11. timer' \in BOOLEAN /\ relay' \in BOOLEAN /\ conv' \in [Chats -> Conversation]
  BY <1>1, <1>2 DEF RuntimeShape
<1> QED BY <1>2, <1>3, <1>4, <1>8, <1>9, <1>10, <1>11, QuietKeeps

LEMMA DetachKeeps ==
  ASSUME RuntimeInv, NEW c \in Chats, NEW kind \in {"disable", "close"}, Detach(c, kind)
  PROVE  RuntimeInv'
<1>1. RuntimeShape
  BY DEF RuntimeInv
<1>2. /\ UNCHANGED <<owned, intent, live, demand, timer, gate, relay, conv, app>>
      /\ app = "up" /\ client[c] = "idle" /\ Go(c, "detaching")
      /\ inbox' = Append(inbox, [kind |-> kind, from |-> c])
  BY DEF Detach, engineVars, memory, IsAt, Send
<1>3. budget' \in RuntimeSetting /\ Terms
  <2>1. budget \in RuntimeSetting /\ budget.attempt > 0 /\ (kind = "close" => budget.close > 0)
    BY <1>1 DEF RuntimeShape, Detach
  <2>2. budget' = [budget EXCEPT !.attempt = @ - 1, !.close = IF kind = "close" THEN @ - 1 ELSE @]
    BY DEF Detach
  <2>3. PICK n : n = IF kind = "close" THEN budget.close - 1 ELSE budget.close
    OBVIOUS
  <2>4. PICK a : a = budget.attempt - 1
    OBVIOUS
  <2>5. n \in Nat /\ a \in Nat
    BY <2>1, <2>3, <2>4 DEF RuntimeSetting
  <2>6. budget' = [budget EXCEPT !.attempt = a, !.close = n]
    BY <2>1, <2>2, <2>3, <2>4 DEF RuntimeSetting
  <2> QED BY <2>1, <2>5, <2>6 DEF RuntimeSetting, Terms
<1>4. app \notin Starting
  BY <1>2 DEF Starting
<1>5. PICK m \in MessageType : m = [kind |-> kind, from |-> c]
  BY DEF MessageType
<1>6. m.kind = kind /\ m.from = c /\ inbox' = Append(inbox, m)
  BY <1>2, <1>5
<1>7. c \in Holders /\ c # "startup" /\ "detaching" \in ClientStages
  BY <1>1, NamesApart DEF ClientStages
<1>8. client' \in [Holders -> ClientStages] /\ demand' \subseteq Holders
  BY <1>1, <1>2, <1>7, Gone DEF RuntimeShape
<1>9. /\ inbox' \in Seq(MessageType) /\ \A i \in DOMAIN inbox' : inbox'[i].from # "startup"
  BY <1>1, <1>4, <1>6, <1>7, Sent, StartNow
<1>10. ASSUME budget.timely, app = "up" PROVE MessagesWait' /\ JobsWait' /\ Backed'
  <2>1. MessagesWait /\ JobsWait /\ Backed
    BY <1>10, TimelyNow
  <2>2. MessagesWait'
    <3>1. client[c] \notin Waiting /\ \A i \in DOMAIN inbox : inbox[i].from # "startup"
      BY <1>2, <1>4, StartNow DEF Waiting
    <3>2. m.kind # "release" /\ "detaching" = Awaits(m.kind)
      BY <1>6, AwaitsIs
    <3> QED BY <1>1, <1>2, <1>6, <1>7, <2>1, <3>1, <3>2, MessagesWaitSent
  <2>3. JobsWait'
    BY <1>1, <1>2, <1>7, <2>1, JobsWaitGone
  <2>4. Backed'
    BY <1>1, <1>2, <1>7, <2>1, BackedGone
  <2> QED BY <2>2, <2>3, <2>4
<1>11. timer' \in BOOLEAN /\ relay' \in BOOLEAN /\ conv' \in [Chats -> Conversation]
  BY <1>1, <1>2 DEF RuntimeShape
<1> QED BY <1>2, <1>3, <1>4, <1>8, <1>9, <1>10, <1>11, QuietKeeps

LEMMA AnsweredKeeps ==
  ASSUME RuntimeInv, NEW c \in Chats, Answered(c)
  PROVE  RuntimeInv'
<1>1. RuntimeShape
  BY DEF RuntimeInv
<1>2. /\ UNCHANGED <<owned, intent, live, gate, inbox, relay, conv, app>> /\ KeepBudget
      /\ client[c] \in {"enable refused", "enable accepted",
                        "detach refused", "detach accepted"}
      /\ Go(c, "idle")
      /\ demand' = (IF client[c] \in {"enable refused", "detach accepted"}
                    THEN demand \ {c} ELSE demand)
  BY DEF Answered, engineVars, release, Releases, IsAt
<1>3. timer' \in BOOLEAN
  BY <1>1 DEF Answered, release, RuntimeShape
<1>4. budget' \in RuntimeSetting /\ Terms
  BY <1>1, <1>2, FreeFields DEF RuntimeShape
<1>5. c \in Holders /\ "idle" \in ClientStages
  BY <1>1, NamesApart DEF ClientStages
<1>6. app \notin Starting
  BY <1>2, <1>5, StartNow
<1>7. client' \in [Holders -> ClientStages] /\ demand' \subseteq Holders
  BY <1>1, <1>2, <1>5, Gone DEF RuntimeShape
<1>8. inbox' \in Seq(MessageType) /\ \A i \in DOMAIN inbox' : inbox'[i].from # "startup"
  BY <1>1, <1>2, <1>6, StartNow DEF RuntimeShape
<1>9. ASSUME budget.timely, app = "up" PROVE MessagesWait' /\ JobsWait' /\ Backed'
  <2>1. MessagesWait /\ JobsWait /\ Backed
    BY <1>9, TimelyNow
  <2>2. MessagesWait'
    <3>1. client[c] \notin Waiting /\ \A i \in DOMAIN inbox : inbox[i].from # "startup"
      BY <1>2, <1>6, StartNow DEF Waiting
    <3> QED BY <1>1, <1>2, <1>5, <2>1, <3>1, MessagesWaitGone
  <2>3. JobsWait'
    BY <1>1, <1>2, <1>5, <2>1, JobsWaitGone
  <2>4. Backed'
    <3>1. \A g \in Chats : g # c => conv'[g].mcp = conv[g].mcp /\ (g \in demand' => g \in demand)
      BY <1>2
    <3>2. \/ c \notin demand'
          \/ conv'[c].mcp = conv[c].mcp /\ (c \in demand' => c \in demand)
             /\ client[c] \notin {"enabling", "enable refused", "detach accepted"}
      BY <1>2
    <3> QED BY <1>1, <1>2, <1>5, <2>1, <3>1, <3>2, BackedGone
  <2> QED BY <2>2, <2>3, <2>4
<1>10. relay' \in BOOLEAN /\ conv' \in [Chats -> Conversation]
  BY <1>1, <1>2 DEF RuntimeShape
<1> QED BY <1>2, <1>3, <1>4, <1>6, <1>7, <1>8, <1>9, <1>10, QuietKeeps

LEMMA ViewerOpKeeps ==
  ASSUME RuntimeInv, NEW o \in Ops, guardedViewerOp(o)
  PROVE  RuntimeInv'
<1>1. RuntimeShape
  BY DEF RuntimeInv
<1>2. /\ UNCHANGED <<owned, intent, live, gate, relay, conv, app>> /\ KeepBudget
      /\ app = "up" /\ client[o] = "idle" /\ Go(o, "calling")
      /\ demand' = demand \cup {o} /\ timer' = FALSE
      /\ inbox' = Append(inbox, [kind |-> "viewer", from |-> o])
  BY DEF guardedViewerOp, engineVars, acquire, IsAt, Send
<1>3. budget' \in RuntimeSetting /\ Terms
  BY <1>1, <1>2, FreeFields DEF RuntimeShape
<1>4. app \notin Starting
  BY <1>2 DEF Starting
<1>5. PICK m \in MessageType : m = [kind |-> "viewer", from |-> o]
  BY DEF MessageType
<1>6. m.kind = "viewer" /\ m.from = o /\ inbox' = Append(inbox, m)
  BY <1>2, <1>5
<1>7. o \in Holders /\ o # "startup" /\ "calling" \in ClientStages /\ o \notin Chats
  BY <1>1, NamesApart DEF ClientStages
<1>8. client' \in [Holders -> ClientStages] /\ demand' \subseteq Holders
  BY <1>1, <1>2, <1>7, Gone DEF RuntimeShape
<1>9. /\ inbox' \in Seq(MessageType) /\ \A i \in DOMAIN inbox' : inbox'[i].from # "startup"
  BY <1>1, <1>4, <1>6, <1>7, Sent, StartNow
<1>10. ASSUME budget.timely, app = "up" PROVE MessagesWait' /\ JobsWait' /\ Backed'
  <2>1. MessagesWait /\ JobsWait /\ Backed
    BY <1>10, TimelyNow
  <2>2. MessagesWait'
    <3>1. client[o] \notin Waiting /\ \A i \in DOMAIN inbox : inbox[i].from # "startup"
      BY <1>2, <1>4, StartNow DEF Waiting
    <3>2. m.kind # "release" /\ "calling" = Awaits(m.kind)
      BY <1>6, AwaitsIs
    <3> QED BY <1>1, <1>2, <1>6, <1>7, <2>1, <3>1, <3>2, MessagesWaitSent
  <2>3. JobsWait'
    BY <1>1, <1>2, <1>7, <2>1, JobsWaitGone
  <2>4. Backed'
    <3>1. \A g \in Chats : g # o => conv'[g].mcp = conv[g].mcp /\ (g \in demand' => g \in demand)
      BY <1>2
    <3> QED BY <1>1, <1>2, <1>7, <2>1, <3>1, BackedGone
  <2> QED BY <2>2, <2>3, <2>4
<1>11. timer' \in BOOLEAN /\ relay' \in BOOLEAN /\ conv' \in [Chats -> Conversation]
  BY <1>1, <1>2 DEF RuntimeShape
<1> QED BY <1>2, <1>3, <1>4, <1>8, <1>9, <1>10, <1>11, QuietKeeps

LEMMA ViewerOpEndsKeeps ==
  ASSUME RuntimeInv, NEW o \in Ops, ViewerOpEnds(o)
  PROVE  RuntimeInv'
<1>1. RuntimeShape
  BY DEF RuntimeInv
<1>2. /\ UNCHANGED <<owned, intent, live, gate, inbox, relay, conv, app>> /\ KeepBudget
      /\ client[o] = "called" /\ Go(o, "done")
      /\ demand' = demand \ {o}
  BY DEF ViewerOpEnds, engineVars, release, IsAt
<1>3. timer' \in BOOLEAN
  BY <1>1 DEF ViewerOpEnds, release, RuntimeShape
<1>4. budget' \in RuntimeSetting /\ Terms
  BY <1>1, <1>2, FreeFields DEF RuntimeShape
<1>5. o \in Holders /\ "done" \in ClientStages /\ o \notin Chats
  BY <1>1, NamesApart DEF ClientStages
<1>6. app \notin Starting
  BY <1>2, <1>5, StartNow
<1>7. client' \in [Holders -> ClientStages] /\ demand' \subseteq Holders
  BY <1>1, <1>2, <1>5, Gone DEF RuntimeShape
<1>8. inbox' \in Seq(MessageType) /\ \A i \in DOMAIN inbox' : inbox'[i].from # "startup"
  BY <1>1, <1>2, <1>6, StartNow DEF RuntimeShape
<1>9. ASSUME budget.timely, app = "up" PROVE MessagesWait' /\ JobsWait' /\ Backed'
  <2>1. MessagesWait /\ JobsWait /\ Backed
    BY <1>9, TimelyNow
  <2>2. MessagesWait'
    <3>1. client[o] \notin Waiting /\ \A i \in DOMAIN inbox : inbox[i].from # "startup"
      BY <1>2, <1>6, StartNow DEF Waiting
    <3> QED BY <1>1, <1>2, <1>5, <2>1, <3>1, MessagesWaitGone
  <2>3. JobsWait'
    BY <1>1, <1>2, <1>5, <2>1, JobsWaitGone
  <2>4. Backed'
    <3>1. \A g \in Chats : g # o => conv'[g].mcp = conv[g].mcp /\ (g \in demand' => g \in demand)
      BY <1>2
    <3> QED BY <1>1, <1>2, <1>5, <2>1, <3>1, BackedGone
  <2> QED BY <2>2, <2>3, <2>4
<1>10. relay' \in BOOLEAN /\ conv' \in [Chats -> Conversation]
  BY <1>1, <1>2 DEF RuntimeShape
<1> QED BY <1>2, <1>3, <1>4, <1>6, <1>7, <1>8, <1>9, <1>10, QuietKeeps

LEMMA RequestTimesOutKeeps ==
  ASSUME RuntimeInv, NEW h \in Holders, RequestTimesOut(h)
  PROVE  RuntimeInv'
<1>1. RuntimeShape
  BY DEF RuntimeInv
<1>2. /\ UNCHANGED <<owned, intent, live, gate, inbox, relay, conv, app>> /\ SpendBudget("timeout")
      /\ client[h] \in {"assigning", "enabling", "detaching", "calling"}
      /\ demand' \subseteq demand
  BY DEF RequestTimesOut, engineVars, release
<1>3. timer' \in BOOLEAN
  BY <1>1 DEF RequestTimesOut, release, RuntimeShape
<1>4. budget' \in RuntimeSetting /\ Terms /\ budget.timeout # 0
  BY <1>1, <1>2, SpendFields DEF RuntimeShape
<1>5. app \notin Starting
  BY <1>2, StartNow
<1>6. PICK stage \in ClientStages : Go(h, stage)
  BY DEF RequestTimesOut, ClientStages
<1>7. client' \in [Holders -> ClientStages] /\ demand' \subseteq Holders
  BY <1>1, <1>2, <1>6, Gone DEF RuntimeShape
<1>8. inbox' \in Seq(MessageType) /\ \A i \in DOMAIN inbox' : inbox'[i].from # "startup"
  BY <1>1, <1>2, <1>5, StartNow DEF RuntimeShape
<1>9. ~budget.timely
  BY <1>4, TimelyNow
<1>10. relay' \in BOOLEAN /\ conv' \in [Chats -> Conversation]
  BY <1>1, <1>2 DEF RuntimeShape
<1> QED BY <1>2, <1>3, <1>4, <1>5, <1>7, <1>8, <1>9, <1>10, QuietKeeps
------------------------------------------------------------------------------
(* The Chat Host. *)

(* What taking the first message leaves alone. *)
LEMMA TakesIs ==
  ASSUME RuntimeInv, NEW kind, Takes(kind)
  PROVE  /\ RuntimeShape /\ inbox # <<>> /\ inbox' = Tail(inbox) /\ Head(inbox) = inbox[1]
         /\ inbox[1] \in MessageType /\ inbox[1].kind = kind /\ 1 \in DOMAIN inbox
         /\ UNCHANGED <<owned, intent, live, demand, timer, gate>>
         /\ inbox' \in Seq(MessageType) /\ (Len(inbox) = 1 => inbox' = <<>>)
         /\ app \in Starting => kind = "ensure"
         /\ app \notin Starting => /\ \A i \in DOMAIN inbox : inbox[i].from # "startup"
                                   /\ \A i \in DOMAIN inbox' : inbox'[i].from # "startup"
<1>1. RuntimeShape
  BY DEF RuntimeInv
<1>2. /\ inbox # <<>> /\ inbox' = Tail(inbox) /\ Head(inbox).kind = kind
      /\ UNCHANGED <<owned, intent, live, demand, timer, gate>>
  BY DEF Takes, engineVars, memory
<1>3. /\ inbox' \in Seq(MessageType) /\ Head(inbox) = inbox[1] /\ inbox[1] \in MessageType
      /\ 1 \in DOMAIN inbox /\ (Len(inbox) = 1 => inbox' = <<>>)
      /\ (\A i \in DOMAIN inbox : inbox[i].from # "startup") =>
            \A i \in DOMAIN inbox' : inbox'[i].from # "startup"
  BY <1>1, <1>2, TakenIs
<1>4. app \in Starting => kind = "ensure"
  BY <1>1, <1>2, <1>3, StartNow, MessageFields
<1> QED BY <1>1, <1>2, <1>3, <1>4, StartNow

LEMMA ServeIs ==
  ASSUME RuntimeInv, NEW kind, Serve(kind)
  PROVE  /\ RuntimeShape /\ inbox # <<>> /\ inbox' = Tail(inbox) /\ Head(inbox) = inbox[1]
         /\ inbox[1] \in MessageType /\ inbox[1].kind = kind /\ 1 \in DOMAIN inbox
         /\ UNCHANGED <<owned, intent, live, demand, timer, gate>>
         /\ budget' \in RuntimeSetting /\ Terms
         /\ inbox' \in Seq(MessageType) /\ (Len(inbox) = 1 => inbox' = <<>>)
         /\ app \in Starting => kind = "ensure"
         /\ app \notin Starting => /\ \A i \in DOMAIN inbox : inbox[i].from # "startup"
                                   /\ \A i \in DOMAIN inbox' : inbox'[i].from # "startup"
<1>1. Takes(kind) /\ KeepBudget
  BY DEF Serve
<1>2. budget' \in RuntimeSetting /\ Terms
  BY <1>1, FreeFields DEF RuntimeInv, RuntimeShape
<1> QED BY <1>1, <1>2, TakesIs

LEMMA ReplyIs ==
  ASSUME RuntimeShape, NEW from \in Holders, NEW waiting, NEW stage \in ClientStages,
         Reply(from, waiting, stage)
  PROVE  /\ client' \in [Holders -> ClientStages]
         /\ client[from] = waiting => Go(from, stage)
BY Gone DEF Reply, RuntimeShape

LEMMA HostReleasesKeeps ==
  ASSUME RuntimeInv, HostReleases
  PROVE  RuntimeInv'
<1>1. /\ RuntimeShape /\ inbox # <<>> /\ inbox' = Tail(inbox) /\ inbox[1].kind = "release"
      /\ UNCHANGED <<owned, intent, live, demand, timer, gate>>
      /\ budget' \in RuntimeSetting /\ Terms /\ inbox' \in Seq(MessageType) /\ app \notin Starting
      /\ \A i \in DOMAIN inbox : inbox[i].from # "startup"
      /\ \A i \in DOMAIN inbox' : inbox'[i].from # "startup"
  BY ServeIs DEF HostReleases
<1>2. relay' = FALSE /\ UNCHANGED <<app, client, conv>>
  BY DEF HostReleases
<1>3. budget.timely /\ app = "up" => MessagesWait' /\ JobsWait' /\ Backed'
  <2>1. SUFFICES ASSUME budget.timely, app = "up" PROVE MessagesWait' /\ JobsWait' /\ Backed'
    OBVIOUS
  <2>2. MessagesWait /\ JobsWait /\ Backed
    BY <2>1, TimelyNow
  <2>3. MessagesWait'
    BY <1>1, <1>2, <2>2, MessagesWaitServed
  <2> QED BY <1>1, <1>2, <2>2, <2>3 DEF JobsWait, Backed
<1>4. /\ timer' \in BOOLEAN /\ relay' \in BOOLEAN /\ demand' \subseteq Holders
      /\ client' \in [Holders -> ClientStages] /\ conv' \in [Chats -> Conversation]
  BY <1>1, <1>2 DEF RuntimeShape
<1> QED BY <1>1, <1>2, <1>3, <1>4, QuietKeeps

(* A message of a caller is answered: the caller goes on if it still waits. *)
LEMMA AnswerKeeps ==
  ASSUME RuntimeInv, NEW kind \in {"ensure", "enable", "disable", "close", "viewer"}, Serve(kind),
         inbox[1].from # "startup", NEW stage \in ClientStages,
         NEW waiting, waiting = Awaits(kind), Reply(inbox[1].from, waiting, stage),
         stage # "ensuring",
         UNCHANGED app, relay' \in BOOLEAN, conv' \in [Chats -> Conversation],
         \A c \in Chats : c # inbox[1].from => conv'[c].mcp = conv[c].mcp,
         inbox[1].from \in Chats =>
           \/ stage \in {"enabling", "enable refused", "detach accepted"}
           \/ conv'[inbox[1].from].mcp = "connected"
           \/ /\ stage # "enable accepted" /\ kind # "enable"
              /\ conv'[inbox[1].from].mcp = conv[inbox[1].from].mcp
  PROVE  RuntimeInv'
<1>1. /\ RuntimeShape /\ inbox # <<>> /\ inbox' = Tail(inbox) /\ inbox[1].kind = kind
      /\ inbox[1] \in MessageType /\ 1 \in DOMAIN inbox
      /\ UNCHANGED <<owned, intent, live, demand, timer, gate>>
      /\ budget' \in RuntimeSetting /\ Terms /\ inbox' \in Seq(MessageType)
      /\ app \notin Starting => /\ \A i \in DOMAIN inbox : inbox[i].from # "startup"
                                /\ \A i \in DOMAIN inbox' : inbox'[i].from # "startup"
  BY ServeIs
<1>2. app \notin Starting
  BY <1>1, StartNow
<1>3. PICK h \in Holders : h = inbox[1].from
  BY <1>1, MessageFields
<1>4. Reply(h, waiting, stage)
  BY <1>3
<1>5. client' \in [Holders -> ClientStages] /\ (client[h] = waiting => Go(h, stage))
  BY <1>1, <1>4, ReplyIs
<1>6. ASSUME budget.timely, app = "up" PROVE MessagesWait' /\ JobsWait' /\ Backed'
  <2>1. MessagesWait /\ JobsWait /\ Backed
    BY <1>6, TimelyNow
  <2>2. client[h] = waiting
    BY <1>1, <1>3, <2>1 DEF MessagesWait
  <2>3. Go(h, stage)
    BY <1>5, <2>2
  <2>4. waiting \in {"assigning", "enabling", "detaching", "calling"}
        /\ (waiting = "enabling" => kind = "enable")
    BY AwaitsIs
  <2>5. MessagesWait'
    BY <1>1, <1>2, <1>3, <2>1, <2>3, MessagesWaitServed
  <2>6. JobsWait'
    BY <1>1, <2>1, <2>2, <2>3, <2>4, JobsWaitGone
  <2>7. Backed'
    <3>1. \A c \in Chats : c # h => conv'[c].mcp = conv[c].mcp /\ (c \in demand' => c \in demand)
      BY <1>1, <1>3
    <3>2. h \in Chats =>
             \/ stage \in {"enabling", "enable refused", "detach accepted"}
             \/ conv'[h].mcp = "connected"
             \/ /\ stage # "enable accepted" /\ conv'[h].mcp = conv[h].mcp
                /\ (h \in demand' => h \in demand)
                /\ client[h] \notin {"enabling", "enable refused", "detach accepted"}
      BY <1>1, <1>3, <2>2, <2>4
    <3> QED BY <1>1, <2>1, <2>3, <3>1, <3>2, BackedGone
  <2> QED BY <2>5, <2>6, <2>7
<1>7. timer' \in BOOLEAN /\ demand' \subseteq Holders
  BY <1>1 DEF RuntimeShape
<1> QED BY <1>1, <1>2, <1>5, <1>6, <1>7, QuietKeeps

LEMMA HostEnsuresKeeps ==
  ASSUME RuntimeInv, HostEnsures
  PROVE  RuntimeInv'
<1>1. /\ RuntimeShape /\ inbox # <<>> /\ inbox' = Tail(inbox) /\ inbox[1].kind = "ensure"
      /\ inbox[1] \in MessageType /\ Head(inbox) = inbox[1]
      /\ UNCHANGED <<owned, intent, live, demand, timer, gate>>
      /\ budget' \in RuntimeSetting /\ Terms /\ (Len(inbox) = 1 => inbox' = <<>>)
      /\ 1 \in DOMAIN inbox
      /\ app \notin Starting => \A i \in DOMAIN inbox : inbox[i].from # "startup"
  BY ServeIs DEF HostEnsures
<1>2. relay' = TRUE /\ UNCHANGED conv /\ Serve("ensure")
  BY DEF HostEnsures
<1>3. CASE inbox[1].from = "startup"
  <2>1. app' = "syncing" /\ UNCHANGED client
    BY <1>1, <1>3 DEF HostEnsures
  <2>2. app \in Starting
    BY <1>1, <1>3
  <2>3. app = "assigning" /\ gate = <<>> /\ Len(inbox) = 1
    BY <1>1, <2>2, StartNow
  <2>4. gate' = <<>> /\ inbox' = <<>>
    BY <1>1, <2>3
  <2>5. /\ owned' \in [{"running", "stopped"} -> [Images -> Nat]]
        /\ live' \in BOOLEAN /\ relay' \in BOOLEAN /\ LiveInv'
    BY <1>1, <1>2 DEF RuntimeInv, LiveInv, Count, RuntimeShape
  <2> QED BY <1>1, <1>2, <2>1, <2>2, <2>4, <2>5, StartGoesOn
<1>4. CASE inbox[1].from # "startup"
  <2>1. Reply(inbox[1].from, "assigning", "assigned") /\ UNCHANGED app
    BY <1>1, <1>4 DEF HostEnsures
  <2>2. "assigning" = Awaits("ensure") /\ "assigned" \in ClientStages
    BY AwaitsIs DEF ClientStages
  <2>3. conv' \in [Chats -> Conversation] /\ relay' \in BOOLEAN
    BY <1>1, <1>2 DEF RuntimeShape
  <2> QED BY <1>2, <1>4, <2>1, <2>2, <2>3, AnswerKeeps
<1> QED BY <1>3, <1>4

LEMMA HostRefusesKeeps ==
  ASSUME RuntimeInv, HostRefuses
  PROVE  RuntimeInv'
<1>1. /\ RuntimeShape /\ inbox # <<>> /\ inbox' = Tail(inbox) /\ inbox[1].kind = "ensure"
      /\ inbox[1] \in MessageType /\ Head(inbox) = inbox[1]
      /\ UNCHANGED <<owned, intent, live, demand, timer, gate>>
      /\ inbox' \in Seq(MessageType) /\ (Len(inbox) = 1 => inbox' = <<>>)
      /\ 1 \in DOMAIN inbox
      /\ app \notin Starting => /\ \A i \in DOMAIN inbox : inbox[i].from # "startup"
                                /\ \A i \in DOMAIN inbox' : inbox'[i].from # "startup"
  BY TakesIs DEF HostRefuses
<1>2. UNCHANGED <<relay, conv>> /\ SpendBudget("timeout")
  BY DEF HostRefuses
<1>3. budget' \in RuntimeSetting /\ Terms /\ budget.timeout # 0
  BY <1>1, <1>2, SpendFields DEF RuntimeShape
<1>4. /\ timer' \in BOOLEAN /\ relay' \in BOOLEAN /\ demand' \subseteq Holders
      /\ conv' \in [Chats -> Conversation] /\ live' \in BOOLEAN
      /\ owned' \in [{"running", "stopped"} -> [Images -> Nat]]
  BY <1>1, <1>2 DEF RuntimeShape
<1>5. CASE inbox[1].from = "startup"
  <2>1. app' = "syncing" /\ UNCHANGED client
    BY <1>1, <1>5 DEF HostRefuses
  <2>2. app \in Starting
    BY <1>1, <1>5
  <2>3. app = "assigning" /\ gate = <<>> /\ Len(inbox) = 1
    BY <1>1, <2>2, StartNow
  <2>4. gate' = <<>> /\ inbox' = <<>>
    BY <1>1, <2>3
  <2>5. LiveInv'
    BY <1>1 DEF RuntimeInv, LiveInv, Count
  <2> QED BY <1>1, <1>2, <1>3, <1>4, <2>1, <2>2, <2>4, <2>5, StartGoesOn
<1>6. CASE inbox[1].from # "startup"
  <2>1. Reply(inbox[1].from, "assigning", "idle") /\ UNCHANGED app
    BY <1>1, <1>6 DEF HostRefuses
  <2>2. app \notin Starting
    BY <1>1, <1>6, StartNow
  <2>3. inbox[1].from \in Holders /\ "idle" \in ClientStages
    BY <1>1, <1>6, MessageFields DEF ClientStages
  <2>4. client' \in [Holders -> ClientStages]
    BY <1>1, <2>1, <2>3, ReplyIs
  <2>5. ~budget.timely
    BY <1>3, TimelyNow
  <2> QED BY <1>1, <1>2, <1>3, <1>4, <2>1, <2>2, <2>4, <2>5, QuietKeeps
<1> QED BY <1>5, <1>6

LEMMA HostEnablesKeeps ==
  ASSUME RuntimeInv, HostEnables
  PROVE  RuntimeInv'
<1>1. /\ RuntimeShape /\ inbox[1].kind = "enable" /\ inbox[1] \in MessageType /\ Head(inbox) = inbox[1]
  BY ServeIs DEF HostEnables
<1>2. UNCHANGED <<app, relay>> /\ Serve("enable")
  BY DEF HostEnables
<1>3. PICK c \in Chats : c = inbox[1].from
  BY <1>1, MessageFields
<1>4. c # "startup"
  BY <1>1, NamesApart
<1>5. "enabling" = Awaits("enable") /\ "enable refused" \in ClientStages
      /\ "enable accepted" \in ClientStages /\ relay' \in BOOLEAN
      /\ conv \in [Chats -> Conversation]
  BY <1>1, <1>2, AwaitsIs DEF ClientStages, RuntimeShape
<1>6. CASE Reply(c, "enabling", "enable refused") /\ UNCHANGED conv
  BY <1>2, <1>3, <1>4, <1>5, <1>6, AnswerKeeps
<1>7. CASE /\ conv' = [conv EXCEPT ![c].mcp = "failed"]
           /\ Reply(c, "enabling", "enable refused")
  <2>1. conv' \in [Chats -> Conversation] /\ \A d \in Chats : d # c => conv'[d].mcp = conv[d].mcp
    BY <1>5, <1>7 DEF Conversation
  <2> QED BY <1>2, <1>3, <1>4, <1>5, <1>7, <2>1, AnswerKeeps
<1>8. CASE /\ conv' = [conv EXCEPT ![c].mcp = "connected"]
           /\ Reply(c, "enabling", "enable accepted")
  <2>1. conv' \in [Chats -> Conversation] /\ \A d \in Chats : d # c => conv'[d].mcp = conv[d].mcp
    BY <1>5, <1>8 DEF Conversation
  <2>2. conv'[c].mcp = "connected"
    BY <1>5, <1>8 DEF Conversation
  <2> QED BY <1>2, <1>3, <1>4, <1>5, <1>8, <2>1, <2>2, AnswerKeeps
<1> QED BY <1>1, <1>3, <1>6, <1>7, <1>8 DEF HostEnables

LEMMA HostDisablesKeeps ==
  ASSUME RuntimeInv, HostDisables
  PROVE  RuntimeInv'
<1>1. /\ RuntimeShape /\ inbox[1].kind = "disable" /\ inbox[1] \in MessageType /\ Head(inbox) = inbox[1]
  BY ServeIs DEF HostDisables
<1>2. UNCHANGED <<app, relay>> /\ Serve("disable")
  BY DEF HostDisables
<1>3. PICK c \in Chats : c = inbox[1].from
  BY <1>1, MessageFields
<1>4. c # "startup"
  BY <1>1, NamesApart
<1>5. "detaching" = Awaits("disable") /\ "detach refused" \in ClientStages
      /\ "detach accepted" \in ClientStages /\ relay' \in BOOLEAN
      /\ conv \in [Chats -> Conversation]
  BY <1>1, <1>2, AwaitsIs DEF ClientStages, RuntimeShape
<1>6. CASE Reply(c, "detaching", "detach refused") /\ UNCHANGED conv
  BY <1>2, <1>3, <1>4, <1>5, <1>6, AnswerKeeps
<1>7. CASE /\ conv' = [conv EXCEPT ![c].mcp = "none"]
           /\ Reply(c, "detaching", "detach accepted")
  <2>1. conv' \in [Chats -> Conversation] /\ \A d \in Chats : d # c => conv'[d].mcp = conv[d].mcp
    BY <1>5, <1>7 DEF Conversation
  <2> QED BY <1>2, <1>3, <1>4, <1>5, <1>7, <2>1, AnswerKeeps
<1> QED BY <1>1, <1>3, <1>6, <1>7 DEF HostDisables

LEMMA HostClosesKeeps ==
  ASSUME RuntimeInv, HostCloses
  PROVE  RuntimeInv'
<1>1. /\ RuntimeShape /\ inbox[1].kind = "close" /\ inbox[1] \in MessageType /\ Head(inbox) = inbox[1]
  BY ServeIs DEF HostCloses
<1>2. UNCHANGED <<app, relay>> /\ Serve("close")
  BY DEF HostCloses
<1>3. PICK c \in Chats : c = inbox[1].from
  BY <1>1, MessageFields
<1>4. c # "startup"
  BY <1>1, NamesApart
<1>5. "detaching" = Awaits("close") /\ "detach accepted" \in ClientStages
      /\ relay' \in BOOLEAN /\ conv \in [Chats -> Conversation]
  BY <1>1, <1>2, AwaitsIs DEF ClientStages, RuntimeShape
<1>6. /\ conv' = [conv EXCEPT ![c].closed = TRUE, ![c].busy = FALSE]
      /\ Reply(c, "detaching", "detach accepted")
  BY <1>1, <1>3 DEF HostCloses
<1>7. conv' \in [Chats -> Conversation] /\ \A d \in Chats : d # c => conv'[d].mcp = conv[d].mcp
  BY <1>5, <1>6 DEF Conversation
<1> QED BY <1>2, <1>3, <1>4, <1>5, <1>6, <1>7, AnswerKeeps

LEMMA HostViewsKeeps ==
  ASSUME RuntimeInv, HostViews
  PROVE  RuntimeInv'
<1>1. /\ RuntimeShape /\ inbox[1].kind = "viewer" /\ inbox[1] \in MessageType /\ Head(inbox) = inbox[1]
  BY ServeIs DEF HostViews
<1>2. UNCHANGED <<app, relay, conv>> /\ Serve("viewer")
  BY DEF HostViews
<1>3. PICK o \in Ops : o = inbox[1].from
  BY <1>1, MessageFields
<1>4. o # "startup" /\ o \notin Chats
  BY <1>1, NamesApart
<1>5. "calling" = Awaits("viewer") /\ "called" \in ClientStages
      /\ relay' \in BOOLEAN /\ conv' \in [Chats -> Conversation]
  BY <1>1, <1>2, AwaitsIs DEF ClientStages, RuntimeShape
<1>6. Reply(o, "calling", "called")
  BY <1>1, <1>3 DEF HostViews
<1> QED BY <1>2, <1>3, <1>4, <1>5, <1>6, AnswerKeeps

LEMMA TurnChangesKeeps ==
  ASSUME RuntimeInv, NEW c \in Chats, TurnChanges(c)
  PROVE  RuntimeInv'
<1>1. RuntimeShape
  BY DEF RuntimeInv
<1>2. /\ UNCHANGED <<owned, intent, live, demand, timer, gate, client, inbox, relay, app>>
      /\ (KeepBudget \/ SpendBudget("busy")) /\ app = "up"
      /\ conv' = [conv EXCEPT ![c].busy = ~conv[c].busy]
  BY DEF TurnChanges, engineVars, memory
<1>3. budget' \in RuntimeSetting /\ Terms
  BY <1>1, <1>2, FreeFields, SpendFields DEF RuntimeShape
<1>4. app \notin Starting
  BY <1>2 DEF Starting
<1>5. conv' \in [Chats -> Conversation] /\ \A d \in Chats : conv'[d].mcp = conv[d].mcp
  BY <1>1, <1>2 DEF Conversation, RuntimeShape
<1>6. budget.timely /\ app = "up" => MessagesWait' /\ JobsWait' /\ Backed'
  BY <1>2, <1>5, TimelyNow, BackedStays DEF MessagesWait, JobsWait
<1>7. inbox' \in Seq(MessageType) /\ \A i \in DOMAIN inbox' : inbox'[i].from # "startup"
  BY <1>1, <1>2, <1>4, StartNow DEF RuntimeShape
<1>8. /\ timer' \in BOOLEAN /\ relay' \in BOOLEAN /\ demand' \subseteq Holders
      /\ client' \in [Holders -> ClientStages]
  BY <1>1, <1>2 DEF RuntimeShape
<1> QED BY <1>2, <1>3, <1>4, <1>5, <1>6, <1>7, <1>8, QuietKeeps

(* The Chat Host ends: what is left of its conversations. *)
LEMMA Calmed ==
  ASSUME RuntimeShape, conv' = [c \in Chats |-> [conv[c] EXCEPT !.busy = FALSE]]
  PROVE  conv' \in [Chats -> Conversation]
<1>1. ASSUME NEW c \in Chats PROVE [conv[c] EXCEPT !.busy = FALSE] \in Conversation
  <2>1. conv[c] \in Conversation
    BY DEF RuntimeShape
  <2> QED BY <2>1 DEF Conversation
<1> QED BY <1>1

LEMMA StopDesktopResourcesKeeps ==
  ASSUME RuntimeInv, stopDesktopResources
  PROVE  RuntimeInv'
<1>1. RuntimeShape /\ LiveInv
  BY DEF RuntimeInv
<1>2. /\ app \in Served \ {"draining"} /\ SpendBudget("quit") /\ app' = "draining"
      /\ inbox' = <<>> /\ relay' = FALSE /\ timer' = FALSE
      /\ UNCHANGED <<owned, intent, live>>
      /\ gate' = Append(gate, Job("drain", "lifecycle"))
  BY DEF stopDesktopResources, engineVars, exclusive
<1>3. budget' \in RuntimeSetting /\ Terms
  BY <1>1, <1>2, SpendFields DEF RuntimeShape
<1>4. app \notin Starting /\ app' \notin Starting /\ app' \in Apps
  BY <1>2 DEF Starting, Apps, Served
<1>5. conv' \in [Chats -> Conversation]
  BY <1>1, Calmed DEF stopDesktopResources
<1>6. client' \in [Holders -> ClientStages]
  BY DEF stopDesktopResources, ClientStages
<1>7. demand' \subseteq Holders
  BY <1>1 DEF stopDesktopResources, RuntimeShape
<1>8. PICK job \in JobType : job = Job("drain", "lifecycle")
  BY JobIs
<1>9. job.kind = "drain" /\ job.by = "lifecycle" /\ job.stage = "start"
  BY <1>8, JobIs
<1>10. /\ gate' \in Seq(JobType)
       /\ \A i \in DOMAIN gate : i \in DOMAIN gate' /\ gate'[i] = gate[i] /\ i \in Nat \ {0}
       /\ \A i \in DOMAIN gate' :
              i \in DOMAIN gate \/ (gate'[i] = job /\ i = Len(gate) + 1
                                    /\ \A j \in DOMAIN gate : j < i)
       /\ GateInv' /\ ClearInv' /\ Len(gate) \in Nat
  BY <1>1, <1>2, <1>8, <1>9, GatePushed DEF RuntimeInv
<1>11. inbox' \in Seq(MessageType)
  BY <1>2
<1>12. RuntimeShape'
  BY <1>1, <1>2, <1>3, <1>4, <1>5, <1>6, <1>7, <1>10, <1>11 DEF RuntimeShape
<1>13. LiveInv'
  BY <1>1, <1>2 DEF LiveInv, Count
<1>14. StartInv'
  BY <1>2, <1>4, <1>9, <1>10, StartNow, StartStep
<1>15. DrainInv'
  <2>1. ASSUME NEW i \in DOMAIN gate', gate'[i].kind = "drain", NEW j \in DOMAIN gate', j > i
        PROVE  gate'[j].by \in Late
    <3>1. CASE j \in DOMAIN gate
      <4>1. i \in DOMAIN gate
        BY <1>10, <2>1, <3>1
      <4> QED BY <1>10, <2>1, <3>1, <4>1, DrainNow DEF DrainFits
    <3>2. CASE gate'[j] = job
      BY <1>9, <3>2 DEF Late
    <3> QED BY <1>10, <3>1, <3>2
  <2>2. DrainFits'
    BY <1>2, <2>1 DEF DrainFits
  <2> QED BY <1>2, <2>2, DrainStep
<1>16. TimelyInv'
  BY <1>2, <1>3, TimelyStep
<1> QED BY <1>10, <1>12, <1>13, <1>14, <1>15, <1>16 DEF RuntimeInv

LEMMA DrainTimesOutKeeps ==
  ASSUME RuntimeInv, DrainTimesOut
  PROVE  RuntimeInv'
<1>1. RuntimeShape
  BY DEF RuntimeInv
<1>2. /\ app = "draining" /\ app' = "unresolved" /\ SpendBudget("outage")
      /\ UNCHANGED <<owned, intent, live, demand, timer, gate, client, inbox, relay, conv>>
  BY DEF DrainTimesOut, engineVars, memory, Outage
<1>3. budget' \in RuntimeSetting /\ Terms
  BY <1>1, <1>2, SpendFields DEF RuntimeShape
<1>4. RuntimeShape'
  BY <1>1, <1>2, <1>3 DEF RuntimeShape, Apps
<1>5. GateInv' /\ LiveInv' /\ ClearInv' /\ DrainInv'
  BY <1>2, <1>3, EngineStays
<1>6. StartInv'
  BY <1>2, StartNow, StartStep DEF Starting
<1>7. TimelyInv'
  BY <1>2, <1>3, TimelyStep
<1> QED BY <1>4, <1>5, <1>6, <1>7 DEF RuntimeInv

LEMMA RestartKeeps ==
  ASSUME RuntimeInv, Restart
  PROVE  RuntimeInv'
<1>1. RuntimeShape
  BY DEF RuntimeInv
<1>2. /\ app' = "reconciling" /\ live' = FALSE /\ demand' = {} /\ timer' = FALSE
      /\ gate' = <<Job("reconcile", "startup")>> /\ client' = [h \in Holders |-> "idle"]
      /\ inbox' = <<>> /\ relay' = FALSE /\ UNCHANGED <<owned, intent>>
      /\ conv' = [c \in Chats |-> [conv[c] EXCEPT !.busy = FALSE]]
      /\ (KeepBudget \/ SpendBudget("crash"))
  BY DEF Restart, Boot, engineVars
<1>3. budget' \in RuntimeSetting /\ Terms
  BY <1>1, <1>2, FreeFields, SpendFields DEF RuntimeShape
<1>4. conv' \in [Chats -> Conversation]
  BY <1>1, <1>2, Calmed
<1>5. PICK job \in JobType : job = Job("reconcile", "startup")
  BY JobIs
<1>6. job.kind = "reconcile" /\ job.stage = "start" /\ gate' = <<job>>
  BY <1>2, <1>5, JobIs
<1>7. gate' \in Seq(JobType) /\ DOMAIN gate' = {1} /\ gate'[1] = job /\ Len(gate') = 1
  BY <1>6
<1>8. RuntimeShape'
  <2>1. client' \in [Holders -> ClientStages] /\ inbox' \in Seq(MessageType)
    BY <1>2 DEF ClientStages
  <2>2. app' \in Apps
    BY <1>2 DEF Apps
  <2> QED BY <1>1, <1>2, <1>3, <1>4, <1>7, <2>1, <2>2 DEF RuntimeShape
<1>9. GateInv' /\ LiveInv' /\ ClearInv' /\ StartInv'
  BY <1>2, <1>6, <1>7 DEF GateInv, LiveInv, ClearInv, StartInv, Starting
<1>10. DrainInv' /\ TimelyInv'
  <2>1. DrainFits'
    BY <1>2, <1>6, <1>7 DEF DrainFits
  <2> QED BY <1>2, <1>3, <2>1, DrainStep, TimelyStep
<1> QED BY <1>8, <1>9, <1>10 DEF RuntimeInv

LEMMA StutterKeeps ==
  ASSUME RuntimeInv, UNCHANGED runtimeVars
  PROVE  RuntimeInv'
<1>1. UNCHANGED <<owned, intent, app, live, demand, timer, gate, client, inbox, relay, conv, budget>>
  BY DEF runtimeVars
<1>2. RuntimeShape'
  BY <1>1 DEF RuntimeInv, RuntimeShape
<1>3. GateInv' /\ LiveInv' /\ ClearInv' /\ DrainInv'
  BY <1>1, EngineStays DEF Terms
<1>4. StartInv'
  BY <1>1 DEF RuntimeInv, StartInv
<1>5. TimelyInv'
  BY <1>1 DEF RuntimeInv, TimelyInv, MessagesWait, JobsWait, Backed
<1> QED BY <1>2, <1>3, <1>4, <1>5 DEF RuntimeInv

LEMMA RuntimeInitOK == RuntimeInit => RuntimeInv
<1> SUFFICES ASSUME RuntimeInit PROVE RuntimeInv
  OBVIOUS
<1>1. budget \in RuntimeSetting /\ (budget.timely => budget.timeout = 0)
  BY RuntimeAssumption DEF RuntimeInit
<1>2. /\ intent \in {"none", "plan", "old", "corrupt"} /\ app = "reconciling"
      /\ live = FALSE /\ demand = {} /\ timer = FALSE /\ inbox = <<>> /\ relay = FALSE
      /\ gate = <<Job("reconcile", "startup")>> /\ client = [h \in Holders |-> "idle"]
      /\ conv = [c \in Chats |-> [mcp |-> "none", closed |-> FALSE, busy |-> FALSE]]
  BY DEF RuntimeInit
<1>3. owned \in [{"running", "stopped"} -> [Images -> Nat]]
  <2>1. budget.leftovers \in Nat
    BY <1>1 DEF RuntimeSetting
  <2>2. PICK run \in [Images -> 0 .. budget.leftovers] :
          \E stop \in [Images -> 0 .. budget.leftovers] : owned = [running |-> run, stopped |-> stop]
    BY DEF RuntimeInit
  <2>3. PICK stop \in [Images -> 0 .. budget.leftovers] : owned = [running |-> run, stopped |-> stop]
    BY <2>2
  <2>4. run \in [Images -> Nat] /\ stop \in [Images -> Nat]
    BY <2>1
  <2> QED BY <2>3, <2>4
<1>4. PICK job \in JobType : job = Job("reconcile", "startup")
  BY JobIs
<1>5. job.kind = "reconcile" /\ job.stage = "start" /\ gate = <<job>>
  BY <1>2, <1>4, JobIs
<1>6. gate \in Seq(JobType) /\ DOMAIN gate = {1} /\ gate[1] = job /\ Len(gate) = 1
  BY <1>5
<1>7. conv \in [Chats -> Conversation] /\ client \in [Holders -> ClientStages]
  BY <1>2 DEF Conversation, ClientStages
<1>8. RuntimeShape
  <2>1. inbox \in Seq(MessageType)
    BY <1>2
  <2>2. app \in Apps
    BY <1>2 DEF Apps
  <2>3. Chats \cap Ops = {} /\ {"startup", "operator", "lifecycle"} \cap (Chats \cup Ops) = {}
    BY RuntimeAssumption
  <2> QED BY <1>1, <1>2, <1>3, <1>6, <1>7, <2>1, <2>2, <2>3 DEF RuntimeShape
<1>9. GateInv /\ LiveInv /\ ClearInv /\ StartInv /\ DrainInv
  BY <1>2, <1>5, <1>6 DEF GateInv, LiveInv, ClearInv, StartInv, Starting, DrainInv, DrainFits
<1>10. TimelyInv
  BY <1>1, <1>2 DEF TimelyInv
<1> QED BY <1>8, <1>9, <1>10 DEF RuntimeInv

LEMMA RuntimeStepOK == RuntimeInv /\ [RuntimeNext]_runtimeVars => RuntimeInv'
<1> SUFFICES ASSUME RuntimeInv, [RuntimeNext]_runtimeVars PROVE RuntimeInv'
  OBVIOUS
<1>1. CASE GateSteps
  <2>1. ASSUME NEW kind \in {"stop", "restart", "idle", "drain"},
               StopDecides(kind) \/ StopEnds(kind) \/ StopFails(kind)
        PROVE  RuntimeInv'
    BY <2>1, StopDecidesKeeps, StopEndsKeeps, StopFailsKeeps DEF StopKinds
  <2> QED BY <1>1, <2>1, EnsureClearsKeeps, EnsurePrunesKeeps, EnsurePreparesKeeps,
             EnsureRefusesKeeps, ReconcileRunningKeeps, ReconcilePrunesKeeps DEF GateSteps
<1>2. CASE ClientSteps
  BY <1>2, StartupDemandKeeps, SyncDemandKeeps, EnableHeldKeeps, AnsweredKeeps,
     ViewerOpEndsKeeps DEF ClientSteps
<1>3. CASE HostSteps
  BY <1>3, HostEnsuresKeeps, HostRefusesKeeps, HostReleasesKeeps, HostEnablesKeeps, HostDisablesKeeps,
     HostClosesKeeps, HostViewsKeeps DEF HostSteps
<1>4. CASE IdleExpires
  BY <1>4, IdleExpiresKeeps
<1>5. CASE \E kind \in {"ensure", "stop", "restart"} : OperatorAsks(kind)
  BY <1>5, OperatorAsksKeeps
<1>6. ASSUME NEW c \in Chats,
             enableOwned(c) \/ TurnChanges(c) \/ \E kind \in {"disable", "close"} : Detach(c, kind)
      PROVE  RuntimeInv'
  BY <1>6, EnableOwnedKeeps, TurnChangesKeeps, DetachKeeps
<1>7. CASE \E o \in Ops : guardedViewerOp(o)
  BY <1>7, ViewerOpKeeps
<1>8. CASE \E h \in Holders : RequestTimesOut(h)
  BY <1>8, RequestTimesOutKeeps
<1>9. CASE stopDesktopResources \/ DrainTimesOut \/ Restart
  BY <1>9, StopDesktopResourcesKeeps, DrainTimesOutKeeps, RestartKeeps
<1>10. CASE UNCHANGED runtimeVars
  BY <1>10, StutterKeeps
<1> QED BY <1>1, <1>2, <1>3, <1>4, <1>5, <1>6, <1>7, <1>8, <1>9, <1>10 DEF RuntimeNext

LEMMA RuntimeInvGives == RuntimeInv => ProviderIsExact
<1> SUFFICES ASSUME RuntimeInv PROVE ProviderIsExact
  OBVIOUS
<1>1. RuntimeShape /\ GateInv /\ LiveInv /\ DrainInv /\ TimelyInv
  BY DEF RuntimeInv
<1>2. RuntimeTypeOK
  <2>1. \A c \in Chats : conv[c].mcp \in {"none", "connected", "failed"}
    BY <1>1 DEF RuntimeShape, Conversation
  <2> QED BY <1>1, <2>1 DEF RuntimeTypeOK, RuntimeShape, GateInv
<1>3. LiveIsExact
  BY <1>1 DEF LiveIsExact, LiveInv
<1>4. DemandIsBacked
  <2>1. ASSUME app = "up", budget.timely, NEW c \in demand \cap Chats, client[c] = "idle"
        PROVE  conv[c].mcp = "connected"
    BY <1>1, <2>1 DEF TimelyInv, Backed
  <2> QED BY <2>1 DEF DemandIsBacked
<1>5. QuitStopsProviders
  BY <1>1 DEF QuitStopsProviders, DrainInv
<1> QED BY <1>2, <1>3, <1>4, <1>5 DEF ProviderIsExact

(* The inductive invariant of the managed provider.  A provider the app     *)
(* calls live is at every moment the only one that runs and of the pinned   *)
(* image; an ensure past its first look at the containers sees no other;    *)
(* only the first job of the gate has begun; a start has nothing else under *)
(* way; behind a drain only the operator's commands, the timer's stops and  *)
(* further drains wait, and nothing runs after one that ended well; and     *)
(* while every answer comes in time a command has one message or one job    *)
(* under way.                                                               *)
THEOREM RuntimeInvariant == RuntimeSpec => []RuntimeInv
<1> QED BY RuntimeInitOK, RuntimeStepOK, PTL DEF RuntimeSpec

(* What the app believes of its provider is what runs and what is wanted,   *)
(* for any number of conversations, operations, leftover containers,        *)
(* commands (also during and after a drain), failing engine calls, drains   *)
(* given up, late answers, refused endpoints, quits and crashes             *)
(* (lifecycle.ts ensure, stop, reconcile, drain; chat-demand.ts): a live    *)
(* provider is the only one that runs and of the pinned image, demand is    *)
(* backed by an attachment or a command, and after a finished drain nothing *)
(* runs until an ensure of the operator has run behind it.                  *)
THEOREM ProviderStaysExact == RuntimeSpec => []ProviderIsExact
<1>1. RuntimeSpec => []RuntimeInv
  BY RuntimeInvariant
<1> QED BY <1>1, RuntimeInvGives, PTL
==============================================================================
