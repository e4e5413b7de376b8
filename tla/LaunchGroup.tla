----------------------------- MODULE LaunchGroup -----------------------------
(***************************************************************************)
(* One persistent launch group of the host (a sealed set of containers)    *)
(* and everyone who starts and stops it: the engineering runs that borrow  *)
(* it for a session (capability-runtime-execution-session.ts), the private *)
(* qualification attempts that need it for themselves, and the             *)
(* administrator's preload.  All of them go through the launch-group       *)
(* supervisor, which serialises its operations with one host mutex, writes *)
(* an intent into an append-only journal before each host mutation and the *)
(* outcome after it, and keeps one lease per user.                         *)
(*                                                                         *)
(* An operation reads the clock when it is called and then waits for the   *)
(* mutex; the instant it carries is the plannedAt of what it journals.     *)
(* The "tip" of the group is the journal entry with the latest plannedAt,  *)
(* so the order of the journal is the order of the calls and not the order *)
(* of the mutations.  A process may die at any point: the mutex is freed,  *)
(* the journal, the leases and the containers stay as they are.            *)
(***************************************************************************)
EXTENDS Integers, Sequences, FiniteSets, SequencesExt

CONSTANTS
  Materials,    \* the containers of the group
  Sessions,     \* engineering runs, one deterministic lease each
  Attempts,     \* qualification attempts, one reserved lease each
  Admin,        \* the local administrator's preload
  Settings      \* who meets on what kind of group, and how often, see below

Users == Sessions \cup Attempts
Procs == Users \cup {Admin}

\* readiness: does the group declare an MCP readiness check; demand: may queued
\* runs still need the group at a release; users: who takes part beside the
\* administrator; calls and faults: bounds on the operations called and on the
\* process deaths and lease expiries.
Setting == [readiness : BOOLEAN, demand : BOOLEAN, users : SUBSET Users, calls : Nat, faults : Nat]

ASSUME LaunchGroupAssumption ==
  /\ Materials # {} /\ IsFiniteSet(Materials)
  /\ Settings \subseteq Setting
  /\ Sessions \cap Attempts = {} /\ Admin \notin Users

VARIABLES
  setting,   \* the group and its users
  host,      \* what each container really is
  journal,   \* the intents in the order they were written
  leases,    \* the users whose lease file exists
  expired,   \* the leases past their expiry
  clock,     \* the last instant handed out
  op,        \* the supervisor operation each process is in
  use,       \* where each user stands
  run,       \* the ledger status of each session's run
  faults

vars == <<setting, host, journal, leases, expired, clock, op, use, run, faults>>

HostStates == {"absent", "inactive", "active"}
Actions == {"acquire", "qualification-start", "start", "stop"}
Outcomes == {"pending", "succeeded", "failed", "uncertain"}
Kinds == {"material", "ensure", "release", "qualify", "qstop", "qclean"}
Steps == {"none", "waiting", "claimed", "intent", "mutated", "settled"}

\* A process that is in no operation of the supervisor.
NoOp == [kind |-> "none", at |-> 0, step |-> "none", resume |-> FALSE, entry |-> 0,
         status |-> "pending", created |-> FALSE]

Init ==
  /\ setting \in Settings
  /\ host \in {[m \in Materials |-> s] : s \in {"absent", "inactive"}}
  /\ journal = <<>>
  /\ leases = {} /\ expired = {}
  /\ clock = 0
  /\ op = [p \in Procs |-> NoOp]
  /\ use = [u \in Users |-> "idle"]
  /\ run = [s \in Sessions |-> "queued"]
  /\ faults = 0

-----------------------------------------------------------------------------
(* The journal and its tip *)

\* Order of the ids of two entries with one plannedAt: the id starts with the
\* name of the action.
Rank(action) == CASE action = "acquire" -> 0 [] action = "qualification-start" -> 1
                  [] action = "start" -> 2 [] action = "stop" -> 3

BeforeById(i, j) == Rank(journal[i].action) <= Rank(journal[j].action)

Before(i, j) ==
  \/ journal[i].at < journal[j].at
  \/ journal[i].at = journal[j].at /\ Rank(journal[i].action) <= Rank(journal[j].action)

Latest(S) == CHOOSE i \in S : \A j \in S : Before(j, i)

GroupTip == IF journal = <<>> THEN 0 ELSE Latest(DOMAIN journal)

Starts == {i \in DOMAIN journal : journal[i].action \in {"start", "qualification-start"}}

\* What an observer reports of the group: a running container of a group with
\* a readiness check is active only under a start that succeeded.
Observed ==
  [m \in Materials |->
     IF host[m] # "active" \/ ~setting.readiness THEN host[m]
     ELSE IF Starts = {} THEN "starting"
     ELSE CASE journal[Latest(Starts)].outcome = "succeeded" -> "active"
            [] journal[Latest(Starts)].outcome = "pending" -> "starting"
            [] OTHER -> "degraded"]

AllInstalled(states) == \A m \in Materials : states[m] # "absent"
AllActive(states) == \A m \in Materials : states[m] = "active"
AllInactive(states) == \A m \in Materials : states[m] \in {"absent", "inactive"}
IsPartial(states) == ~AllActive(states) /\ ~AllInactive(states)

Satisfies(action, states) ==
  CASE action = "acquire" -> AllInstalled(states)
    [] action \in {"start", "qualification-start"} -> AllActive(states)
    [] action = "stop" -> AllInactive(states)

NoPendingUnlessSucceeded ==
  journal # <<>> =>
    Satisfies(journal[GroupTip].action, Observed) \/ journal[GroupTip].outcome # "succeeded"

\* The tip is settled by a fresh observation: it converged, or it had no
\* effect and never claimed to have had one.
NoPending ==
  journal # <<>> =>
    LET tip == journal[GroupTip]
    IN \/ Satisfies(tip.action, Observed)
       \/ tip.outcome # "succeeded" /\ tip.prior = Observed

QualificationStartSucceeded(a) ==
  {i \in DOMAIN journal : /\ journal[i].action = "qualification-start" /\ journal[i].by = a
                          /\ journal[i].outcome = "succeeded"}

QualificationStart(a) ==
  {i \in DOMAIN journal : journal[i].action = "qualification-start" /\ journal[i].by = a}

StopOf(a, kind) == {i \in DOMAIN journal : journal[i].by = a /\ journal[i].kind = kind}

NoForeignPending(a) == GroupTip \in QualificationStart(a) \/ NoPending

-----------------------------------------------------------------------------
(* Leases *)

Active == leases \ expired
ProtectedByOtherAttempt(u) == (Active \cap Attempts) \ {u} # {}
ProtectedByOther(u) == Active \ {u} # {}
ProtectedByQualification(u) == (Active \cap Attempts) \ {u} # {}

-----------------------------------------------------------------------------
(* Operations: called, then in the mutex *)

MutexFree == \A p \in Procs : op[p].step \in {"none", "waiting"}

Call(p, kind, resume) ==
  /\ op[p] = NoOp
  /\ p \in setting.users \cup {Admin}
  /\ clock < setting.calls
  /\ clock' = clock + 1
  /\ op' = [op EXCEPT ![p] = [NoOp EXCEPT !.kind = kind, !.at = clock + 1, !.step = "waiting",
                                          !.resume = resume]]

Waiting(p, kind) == op[p].kind = kind /\ op[p].step = "waiting" /\ MutexFree
AtStep(p, kinds, step) == op[p].kind \in kinds /\ op[p].step = step

Leave(p) == op' = [op EXCEPT ![p] = NoOp]

IntendAhead(p, action, at) ==
  /\ journal' = Append(journal, [by |-> p, kind |-> op[p].kind, action |-> action, at |-> at + 1,
                                 prior |-> Observed, outcome |-> "pending"])
  /\ op' = [op EXCEPT ![p].step = "intent", ![p].entry = Len(journal) + 1]

\* Write a new intent, planned at the instant `at`, and go to the host with it.
Intend(p, action, at) ==
  /\ journal' = Append(journal, [by |-> p, kind |-> op[p].kind, action |-> action, at |-> at,
                                 prior |-> Observed, outcome |-> "pending"])
  /\ op' = [op EXCEPT ![p].step = "intent", ![p].entry = Len(journal) + 1]

\* Go to the host again with an intent that never got an outcome.
Replay(p, i) ==
  /\ op' = [op EXCEPT ![p].step = "intent", ![p].entry = i]
  /\ UNCHANGED journal

Entry(p) == journal[op[p].entry]

\* Where a mutation can leave the containers: any part of it may be done.
Progress(action, h) ==
  {g \in [Materials -> HostStates] :
     \A m \in Materials :
       g[m] \in {h[m]} \cup
         CASE action = "acquire" -> IF h[m] = "absent" THEN {"inactive"} ELSE {}
           [] action \in {"start", "qualification-start"} ->
                IF h[m] = "inactive" THEN {"active"} ELSE {}
           [] action = "stop" -> IF h[m] = "active" THEN {"inactive"} ELSE {}}

\* host.mutate: it reports success only of a group it saw in the state asked
\* for, a failure of one it left alone (or whose readiness ran out), and
\* anything else, its own exceptions included, is uncertain.
Mutate(p) ==
  /\ AtStep(p, Kinds, "intent")
  /\ \E g \in Progress(Entry(p).action, host), s \in {"succeeded", "failed", "uncertain"} :
       /\ s = "succeeded" => Satisfies(Entry(p).action, g)
       /\ s = "failed" => g = host \/ (setting.readiness /\ Entry(p).action \in {"start", "qualification-start"})
       /\ host' = g
       /\ op' = [op EXCEPT ![p].step = "mutated", ![p].status = s]
  /\ UNCHANGED <<journal, leases, expired, clock, use, run, faults>>

AppendOutcome(p) ==
  /\ AtStep(p, Kinds, "mutated")
  /\ journal' = [journal EXCEPT ![op[p].entry].outcome = op[p].status]
  /\ op' = [op EXCEPT ![p].step = "settled"]
  /\ UNCHANGED <<host, leases, expired, clock, use, run, faults>>

\* An authority, secret or review check fails in the mutex: nothing happened.
Refused(p) ==
  /\ op[p].step = "waiting" /\ MutexFree
  /\ Leave(p)
  /\ UNCHANGED <<host, journal, leases, expired, clock, use, run, faults>>

-----------------------------------------------------------------------------
(* ensureMaterial: the administrator preloads the images *)

CallMaterial ==
  /\ Call(Admin, "material", FALSE)
  /\ UNCHANGED <<host, journal, leases, expired, use, run, faults>>

MaterialEnters ==
  /\ Waiting(Admin, "material")
  /\ IF NoPending /\ ~AllInstalled(Observed)
     THEN Intend(Admin, "acquire", op[Admin].at)
     ELSE Leave(Admin) /\ UNCHANGED journal
  /\ UNCHANGED <<host, leases, expired, clock, use, run, faults>>

MaterialConcludes ==
  /\ AtStep(Admin, {"material"}, "settled")
  /\ Leave(Admin)
  /\ UNCHANGED <<host, journal, leases, expired, clock, use, run, faults>>

-----------------------------------------------------------------------------
(* ensureActive: a run opens its session *)

\* A queued run that finds its own lease resumes it; a running one may reuse
\* it; the lease is read before the mutex is asked for.
CallEnsure(s) ==
  /\ use[s] = "idle" /\ run[s] \in {"queued", "running"}
  /\ run[s] = "queued" => s \notin expired
  /\ Call(s, "ensure", run[s] = "queued" /\ s \in leases)
  /\ UNCHANGED <<host, journal, leases, expired, use, run, faults>>

EnsureAdmitted(s) ==
  /\ ~ProtectedByQualification(s)
  /\ NoPending
  /\ IF op[s].resume THEN s \in Active
     ELSE s \in leases => run[s] = "running" /\ s \in Active

\* The session begins: its lease is claimed, or found, and it may use the group.
ClaimLease(s) ==
  /\ leases' = leases \cup {s}
  /\ use' = [use EXCEPT ![s] = "live"]
  /\ Leave(s)
  /\ UNCHANGED journal

EnsureProceeds(s) ==
  \/ /\ ~AllInstalled(Observed)
     /\ Intend(s, "acquire", op[s].at)
     /\ UNCHANGED <<leases, use>>
  \/ /\ AllInstalled(Observed) /\ (setting.readiness \/ ~AllActive(Observed))
     /\ Intend(s, "start", op[s].at)
     /\ UNCHANGED <<leases, use>>
  \/ /\ AllActive(Observed) /\ ~setting.readiness
     /\ ClaimLease(s)

EnsureEnters(s) ==
  /\ Waiting(s, "ensure")
  /\ IF EnsureAdmitted(s) THEN EnsureProceeds(s)
     ELSE Leave(s) /\ UNCHANGED <<journal, leases, use>>
  /\ UNCHANGED <<host, expired, clock, run, faults>>

EnsureConcludes(s) ==
  /\ AtStep(s, {"ensure"}, "settled")
  /\ CASE op[s].status = "succeeded" /\ Entry(s).action = "acquire" -> EnsureProceeds(s)
       [] op[s].status = "succeeded" /\ Entry(s).action = "start" /\ AllActive(Observed) ->
            ClaimLease(s)
       [] OTHER -> Leave(s) /\ UNCHANGED <<journal, leases, use>>
  /\ UNCHANGED <<host, expired, clock, run, faults>>

\* The executor claims its run in the ledger, and finishes it.
ClaimRun(s) ==
  /\ use[s] = "live" /\ run[s] = "queued"
  /\ run' = [run EXCEPT ![s] = "running"]
  /\ UNCHANGED <<host, journal, leases, expired, clock, op, use, faults>>

FinishRun(s) ==
  /\ use[s] = "live" /\ run[s] = "running"
  /\ run' = [run EXCEPT ![s] = "terminal"]
  /\ UNCHANGED <<host, journal, leases, expired, clock, op, use, faults>>

\* retainForRecovery: the session ends without giving its lease back.
Retain(s) ==
  /\ use[s] = "live" /\ run[s] # "queued"
  /\ use' = [use EXCEPT ![s] = "idle"]
  /\ UNCHANGED <<host, journal, leases, expired, clock, op, run, faults>>

-----------------------------------------------------------------------------
(* releaseTerminal: the session of a finished run is given back *)

\* By the session itself, or by releaseRecorded from the lease left behind.
CallRelease(s) ==
  /\ run[s] = "terminal"
  /\ use[s] = "live" \/ (use[s] = "idle" /\ s \in leases)
  /\ Call(s, "release", FALSE)
  /\ use' = [use EXCEPT ![s] = "idle"]
  /\ UNCHANGED <<host, journal, leases, expired, run, faults>>

ReleaseLease(u, to) ==
  /\ leases' = leases \ {u}
  /\ expired' = expired \ {u}
  /\ use' = [use EXCEPT ![u] = to]
  /\ Leave(u)
  /\ UNCHANGED journal

Throws(p) == Leave(p) /\ UNCHANGED <<journal, leases, expired, use>>

\* The group is left running for a sibling session or for a queued run that
\* will need it; otherwise it is stopped before the lease goes.
ReleaseEnters(s) ==
  /\ Waiting(s, "release")
  /\ IF s \notin Active THEN Throws(s)
     ELSE \/ setting.demand /\ ReleaseLease(s, "done")
          \/ ProtectedByOther(s) /\ ReleaseLease(s, "done")
          \/ /\ ~ProtectedByOther(s)
             /\ CASE ~NoPending -> Throws(s)
                  [] NoPending /\ AllInactive(Observed) -> ReleaseLease(s, "done")
                  [] OTHER -> Intend(s, "stop", op[s].at) /\ UNCHANGED <<leases, expired, use>>
  /\ UNCHANGED <<host, clock, run, faults>>

ReleaseConcludesAnyway(s) ==
  /\ AtStep(s, {"release"}, "settled")
  /\ ReleaseLease(s, "done")
  /\ UNCHANGED <<host, clock, run, faults>>

ReleaseConcludes(s) ==
  /\ AtStep(s, {"release"}, "settled")
  /\ IF op[s].status = "succeeded" /\ AllInactive(Observed)
     THEN ReleaseLease(s, "done")
     ELSE Throws(s)
  /\ UNCHANGED <<host, clock, run, faults>>

-----------------------------------------------------------------------------
(* ensureQualificationActive: an attempt starts the group for itself *)

CallQualify(a) ==
  /\ use[a] = "idle"
  /\ Call(a, "qualify", FALSE)
  /\ UNCHANGED <<host, journal, leases, expired, use, run, faults>>

QualifyEnters(a) ==
  /\ Waiting(a, "qualify")
  /\ IF NoForeignPending(a) /\ ~ProtectedByOther(a) /\ a \notin expired
     THEN /\ leases' = leases \cup {a}
          /\ op' = [op EXCEPT ![a].step = "claimed", ![a].created = a \notin leases]
     ELSE Leave(a) /\ UNCHANGED leases
  /\ UNCHANGED <<host, journal, expired, clock, use, run, faults>>

\* A refused start gives a lease it created back only when the group is idle
\* and no intent of the attempt exists.
QualifyThrows(a) ==
  /\ leases' = IF op[a].created /\ AllInactive(Observed) /\ QualificationStart(a) = {}
               THEN leases \ {a} ELSE leases
  /\ Leave(a)
  /\ UNCHANGED <<journal, use>>

StartProved(a) ==
  /\ use' = [use EXCEPT ![a] = "observed"]
  /\ Leave(a)
  /\ UNCHANGED <<journal, leases>>

\* Reconcile with the attempt's own start, or begin one on an idle group.
QualifyDecides(a) ==
  LET exact == QualificationStart(a)
  IN /\ AtStep(a, {"qualify"}, "claimed")
     /\ CASE AllActive(Observed) /\ GroupTip \in exact -> StartProved(a)
          [] AllInactive(Observed) /\ exact # {} /\ GroupTip \in exact
               /\ journal[GroupTip].outcome = "pending" /\ journal[GroupTip].prior = Observed ->
                 Replay(a, GroupTip) /\ UNCHANGED <<leases, use>>
          [] AllInactive(Observed) /\ exact = {} /\ NoPending ->
                 /\ Intend(a, IF AllInstalled(Observed) THEN "qualification-start" ELSE "acquire",
                           op[a].at)
                 /\ UNCHANGED <<leases, use>>
          [] OTHER -> QualifyThrows(a)
     /\ UNCHANGED <<host, expired, clock, run, faults>>

QualifyConcludes(a) ==
  /\ AtStep(a, {"qualify"}, "settled")
  /\ CASE Entry(a).action = "acquire" /\ op[a].status = "succeeded" ->
            Intend(a, "qualification-start", op[a].at) /\ UNCHANGED <<leases, use>>
       [] Entry(a).action = "qualification-start" /\ AllActive(Observed) -> StartProved(a)
       [] OTHER -> QualifyThrows(a)
  /\ UNCHANGED <<host, expired, clock, run, faults>>

\* readQualificationStartProof: recovery finds the group running under the
\* attempt's start.
ReadStartProof(a) ==
  /\ use[a] = "idle" /\ op[a] = NoOp /\ MutexFree
  /\ AllActive(Observed) /\ GroupTip \in QualificationStart(a)
  /\ use' = [use EXCEPT ![a] = "observed"]
  /\ UNCHANGED <<host, journal, leases, expired, clock, op, run, faults>>

\* requireQualificationMutationTip, before each piece of work on the attempt.
CheckTip(a) ==
  /\ op[a] = NoOp /\ MutexFree
  /\ \/ /\ use[a] = "proved" /\ GroupTip \in QualificationStart(a)
        /\ use' = [use EXCEPT ![a] = "checked"]
     \/ /\ use[a] = "outcome" /\ GroupTip \in QualificationStart(a) \cup StopOf(a, "qstop")
        /\ use' = [use EXCEPT ![a] = "stop-checked"]
  /\ UNCHANGED <<host, journal, leases, expired, clock, op, run, faults>>

ReacquireBlindly(a) ==
  /\ op[a] = NoOp /\ MutexFree
  /\ leases' = leases \cup {a}
  /\ expired' = expired \ {a}
  /\ \/ use[a] = "observed" /\ use' = [use EXCEPT ![a] = "proved"]
     \/ use[a] = "checked" /\ use' = [use EXCEPT ![a] = "probing"]
     \/ use[a] = "stop-checked" /\ use' = [use EXCEPT ![a] = "stop-ready"]
  /\ UNCHANGED <<host, journal, clock, op, run, faults>>

\* reacquireQualificationLease: claimed again when it is gone, refreshed when
\* it has expired, refused while another lease protects the group.
Reacquire(a) ==
  /\ op[a] = NoOp /\ MutexFree
  /\ ~ProtectedByOther(a)
  /\ leases' = leases \cup {a}
  /\ expired' = expired \ {a}
  /\ \/ use[a] = "observed" /\ use' = [use EXCEPT ![a] = "proved"]
     \/ use[a] = "checked" /\ use' = [use EXCEPT ![a] = "probing"]
     \/ use[a] = "stop-checked" /\ use' = [use EXCEPT ![a] = "stop-ready"]
  /\ UNCHANGED <<host, journal, clock, op, run, faults>>

\* The provider work ends with a recorded outcome.
RecordOutcome(a) ==
  /\ use[a] = "probing"
  /\ use' = [use EXCEPT ![a] = "stop-ready"]
  /\ UNCHANGED <<host, journal, leases, expired, clock, op, run, faults>>

-----------------------------------------------------------------------------
(* releaseQualificationTerminal and releaseFailedQualificationStart *)

CallStop(a) ==
  /\ use[a] = "stop-ready"
  /\ Call(a, "qstop", FALSE)
  /\ UNCHANGED <<host, journal, leases, expired, use, run, faults>>

StartOf(a) == CHOOSE i \in QualificationStart(a) : TRUE

StopEnters(a) ==
  LET stops == StopOf(a, "qstop")
  IN /\ Waiting(a, "qstop")
     /\ CASE GroupTip \notin QualificationStart(a) \cup stops -> Throws(a)
          [] GroupTip \in QualificationStart(a) \cup stops /\ stops # {} /\ AllInactive(Observed) ->
               IF a \in leases \/ \E i \in stops : journal[i].outcome = "succeeded"
               THEN ReleaseLease(a, "stopped") ELSE Throws(a)
          [] GroupTip \in stops /\ AllActive(Observed) /\ a \in leases
               /\ journal[GroupTip].outcome = "pending" /\ journal[GroupTip].prior = Observed ->
               Replay(a, GroupTip) /\ UNCHANGED <<leases, expired, use>>
          [] GroupTip \in QualificationStart(a) /\ stops = {} /\ AllActive(Observed) /\ a \in leases ->
               Intend(a, "stop", journal[StartOf(a)].at) /\ UNCHANGED <<leases, expired, use>>
          [] OTHER -> Throws(a)
     /\ UNCHANGED <<host, clock, run, faults>>

StopConcludes(a) ==
  /\ AtStep(a, {"qstop"}, "settled")
  /\ IF AllInactive(Observed) /\ (a \in leases \/ op[a].status = "succeeded")
     THEN ReleaseLease(a, "stopped") ELSE Throws(a)
  /\ UNCHANGED <<host, clock, run, faults>>

MarkStopped(a) ==
  /\ use[a] = "stopped"
  /\ use' = [use EXCEPT ![a] = "done"]
  /\ UNCHANGED <<host, journal, leases, expired, clock, op, run, faults>>

\* A start that failed for good is cleaned up, whatever it left of the group.
CallCleanup(a) ==
  /\ use[a] = "idle"
  /\ Call(a, "qclean", FALSE)
  /\ UNCHANGED <<host, journal, leases, expired, use, run, faults>>

CleanupEnters(a) ==
  LET stops == StopOf(a, "qclean")
      failed == QualificationStart(a) # {} /\ journal[StartOf(a)].outcome = "failed"
  IN /\ Waiting(a, "qclean")
     /\ CASE ~failed \/ GroupTip \notin QualificationStart(a) \cup stops -> Throws(a)
          [] failed /\ GroupTip \in stops ->
               IF journal[GroupTip].outcome = "succeeded" \/ AllInactive(Observed)
               THEN ReleaseLease(a, "done") ELSE Throws(a)
          [] failed /\ GroupTip \in QualificationStart(a) /\ a \in leases /\ ~AllActive(Observed) ->
               Intend(a, "stop", journal[StartOf(a)].at) /\ UNCHANGED <<leases, expired, use>>
          [] OTHER -> Throws(a)
     /\ UNCHANGED <<host, clock, run, faults>>

CleanupConcludes(a) ==
  /\ AtStep(a, {"qclean"}, "settled")
  /\ IF op[a].status = "succeeded" THEN ReleaseLease(a, "done") ELSE Throws(a)
  /\ UNCHANGED <<host, clock, run, faults>>

-----------------------------------------------------------------------------
(* Faults *)

\* What is left of a user's standing when its process dies.
AfterCrash(state) ==
  CASE state \in {"live", "observed"} -> "idle"
    [] state \in {"checked", "probing"} -> "proved"
    [] state \in {"stop-checked", "stop-ready", "stopped"} -> "outcome"
    [] OTHER -> state

\* The process dies: the kernel drops its mutex, the host keeps what it did.
Crash(p) ==
  /\ faults < setting.faults
  /\ op[p] # NoOp \/ (p \in Users /\ AfterCrash(use[p]) # use[p])
  /\ op' = [op EXCEPT ![p] = NoOp]
  /\ use' = IF p \in Users THEN [use EXCEPT ![p] = AfterCrash(use[p])] ELSE use
  /\ faults' = faults + 1
  /\ UNCHANGED <<host, journal, leases, expired, clock, run>>

\* Six hours pass over the lease of a user that nobody runs.
Expire(u) ==
  /\ faults < setting.faults
  /\ u \in Active /\ op[u] = NoOp
  /\ AfterCrash(use[u]) = use[u]
  /\ expired' = expired \cup {u}
  /\ faults' = faults + 1
  /\ UNCHANGED <<host, journal, leases, clock, op, use, run>>

Step ==
  \/ CallMaterial \/ MaterialEnters \/ MaterialConcludes
  \/ \E s \in Sessions :
       \/ CallEnsure(s) \/ EnsureEnters(s) \/ EnsureConcludes(s)
       \/ ClaimRun(s) \/ FinishRun(s) \/ Retain(s)
       \/ CallRelease(s) \/ ReleaseEnters(s) \/ ReleaseConcludes(s)
  \/ \E a \in Attempts :
       \/ CallQualify(a) \/ QualifyEnters(a) \/ QualifyDecides(a) \/ QualifyConcludes(a)
       \/ ReadStartProof(a) \/ CheckTip(a) \/ Reacquire(a) \/ RecordOutcome(a)
       \/ CallStop(a) \/ StopEnters(a) \/ StopConcludes(a) \/ MarkStopped(a)
       \/ CallCleanup(a) \/ CleanupEnters(a) \/ CleanupConcludes(a)
  \/ \E p \in Procs : Mutate(p) \/ AppendOutcome(p) \/ Refused(p) \/ Crash(p)
  \/ \E u \in Users : Expire(u)

Next == Step /\ UNCHANGED setting

Spec == Init /\ [][Next]_vars

-----------------------------------------------------------------------------
(* Properties *)

\* Every variable of the supervisor's durable and process state has its type.
TypeOK ==
  /\ host \in [Materials -> HostStates]
  /\ \A i \in DOMAIN journal :
       /\ journal[i].by \in Procs /\ journal[i].action \in Actions
       /\ journal[i].at \in 1..clock /\ journal[i].outcome \in Outcomes
  /\ leases \subseteq Users /\ expired \subseteq leases
  /\ \A p \in Procs : op[p] # NoOp =>
       op[p].kind \in Kinds /\ op[p].step \in Steps /\ op[p].at \in 1..clock
  /\ run \in [Sessions -> {"queued", "running", "terminal"}]

\* A session that ensureActive delivered keeps the group until it ends: its
\* lease is there and every container runs, whatever the other sessions'
\* releases, the qualification attempts and the dead processes did.
InUseIsRunning ==
  \A s \in Sessions : use[s] = "live" => s \in Active /\ \A m \in Materials : host[m] = "active"

\* A qualification probe has the group to itself (#assertNoOtherLeaseProtects,
\* #assertNoQualificationLeaseProtects): while it works with the provider no
\* session is live, no other probe works, and its lease keeps them out.
ProbeIsExclusive ==
  \A a \in Attempts : use[a] = "probing" =>
    /\ a \in Active
    /\ \A s \in Sessions : use[s] # "live"
    /\ \A b \in Attempts \ {a} : use[b] # "probing"

\* One attempt starts the group at most once in its life, over every retry,
\* crash and recovery ("a second host start is blocked"): there is one start
\* intent and one intent of each stop.
AttemptActsOnce ==
  \A a \in Attempts :
    /\ Cardinality({i \in DOMAIN journal :
                      journal[i].by = a /\ journal[i].action = "qualification-start"}) <= 1
    /\ \A k \in {"qstop", "qclean"} : Cardinality(StopOf(a, k)) <= 1

\* The operations reached the mutex in the order in which they were called.
InCallOrder == \A i, j \in DOMAIN journal : i < j => journal[i].at <= journal[j].at

\* The lease that says who has the group is given up only for a group that is
\* idle, or that another lease or a queued run still needs: a release never
\* leaves the last user's containers running behind it.  One case is outside:
\* the repeated cleanup of an attempt trusts its stop that succeeded, while an
\* operation called earlier may have started the group again below that tip.
ReleaseLeavesNothingRunning ==
  [][\A u \in leases \ leases' :
       \/ setting.demand
       \/ leases' \ expired' # {}
       \/ \A m \in Materials : host'[m] # "active"
       \/ op[u].kind = "qclean" /\ ~InCallOrder]_vars

\* A group that a mutation left half done "needs human recovery": no start and
\* no stop is sent to it, except by the cleanup of a failed qualification start
\* or after that cleanup died (its own intent then is the tip that allows it).
\* This needs the calls in order: an operation that waited for the mutex behind
\* one called later journals its intent below the tip.
PartialIsFrozen ==
  [][\A p \in Procs :
       op[p].step = "intent" /\ op'[p].step = "mutated" /\ IsPartial(host) /\ InCallOrder
         => Entry(p).kind = "qclean" \/ \E a \in Attempts : StopOf(a, "qclean") # {}]_vars

\* What the supervisor says of its tip (#assertNoPending): entries superseded
\* by the tip cannot poison the group.  No third party touches the containers
\* here, so, with the calls in order, a tip that succeeded describes them
\* whenever the mutex is free.
TipDescribesTheGroup ==
  MutexFree /\ InCallOrder /\ journal # <<>> /\ journal[GroupTip].outcome = "succeeded"
    => Satisfies(journal[GroupTip].action, Observed)

\* Whoever was given the group has it: sessions together, a probe alone.
UsersKeepTheGroup == InUseIsRunning /\ ProbeIsExclusive

\* The mutation journal is a true account of the group.
JournalIsTrue == TypeOK /\ AttemptActsOnce /\ TipDescribesTheGroup

\* No mutation and no release makes the group worse.
MutationsAreSafe == ReleaseLeavesNothingRunning /\ PartialIsFrozen
=============================================================================
