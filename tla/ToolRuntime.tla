----------------------------- MODULE ToolRuntime -----------------------------
(***************************************************************************)
(* The life of the one provider the Desktop manages: demand, idle stop,    *)
(* drain and reconciliation (desktop/src/tool-runtime/lifecycle.ts), the   *)
(* demand of chat conversations around it (chat-demand.ts, main.ts), and   *)
(* the Chat Host's end of it (chat-host/mcp-attachments.ts).               *)
(*                                                                         *)
(* Engine calls of the tool run one after the other behind a gate; demand, *)
(* the idle timer and the messages to the Chat Host do not.  The host      *)
(* serves its messages in order.  A conversation has at most one attach,   *)
(* detach or close under way.                                              *)
(*                                                                         *)
(* Preparation is one call here (ToolPreparation has its steps).  Ports,   *)
(* volumes and the wording of refusals are left out; nobody else touches   *)
(* the owned containers, and a failed stop or removal has no effect.       *)
(***************************************************************************)
EXTENDS Naturals, Sequences, FiniteSets

CONSTANTS
  Chats,           \* standalone conversations
  Ops,             \* viewer operations
  RuntimeSettings  \* the surroundings of the app

\* chats and ops that are used, operator's the catalogue commands given; timely:
\* every IPC answer comes in time and no endpoint is refused; leftovers bounds the
\* owned containers an earlier version leaves behind, attempt the attach, detach
\* and close commands, close the closes among them, busy the turns, asked the
\* catalogue commands, timeout the late answers and refused endpoints, outage the
\* engine calls that fail and the drains given up, crash the deaths of the Desktop
\* process, quit its orderly shutdowns.
RuntimeSetting == [chats : SUBSET Chats, ops : SUBSET Ops, timely : BOOLEAN,
                   operator : SUBSET {"ensure", "stop", "restart"},
                   leftovers : Nat, attempt : Nat, close : Nat, busy : Nat, asked : Nat,
                   timeout : Nat, outage : Nat, crash : Nat, quit : Nat]

ASSUME RuntimeAssumption ==
  /\ IsFiniteSet(Chats) /\ IsFiniteSet(Ops) /\ Chats \cap Ops = {}
  /\ {"startup", "operator", "lifecycle"} \cap (Chats \cup Ops) = {}
  /\ RuntimeSettings \subseteq RuntimeSetting
  /\ \A s \in RuntimeSettings : s.timely => s.timeout = 0

VARIABLES
  owned,   \* owned containers by state and image
  intent,  \* the image the durable intent pins
  app,     \* the Desktop process: its startup, "up", and its shutdown, "reopened"
           \* once an ensure of the operator ran behind a finished drain
  live, demand, timer,  \* lifecycle.ts, in memory
  gate,    \* jobs waiting for or holding the tool's exclusive gate
  client,  \* where the command of each conversation or operation stands
  inbox,   \* messages to the Chat Host not yet served
  relay,   \* the host has an endpoint and a runtime for the tool
  conv,    \* the host's conversations
  budget   \* the setting, with what is left of its bounds

memory == <<live, demand, timer>>
engineVars == <<owned, intent>>
runtimeVars == <<owned, intent, app, live, demand, timer, gate, client, inbox, relay,
                 conv, budget>>

Images == {"plan", "old"}
Holders == Chats \cup Ops

SpendBudget(thing) ==
  /\ budget[thing] > 0
  /\ budget' = [budget EXCEPT ![thing] = @ - 1]
Outage == SpendBudget("outage")
KeepBudget == UNCHANGED budget

Count(state) == owned[state]["plan"] + owned[state]["old"]
Exact(image) == intent = image

-----------------------------------------------------------------------------
\* lifecycle.ts: demand and the idle timer

acquire(holder) ==
  /\ demand' = demand \cup {holder}
  /\ timer' = FALSE

release(holder) ==
  /\ demand' = demand \ {holder}
  /\ timer' = (timer \/ demand' = {})

syncDemand(holders) ==
  /\ demand' = holders
  /\ timer' = (holders = {})

-----------------------------------------------------------------------------
\* lifecycle.ts: the gate and the jobs behind it

Job(kind, by) == [kind |-> kind, by |-> by, stage |-> "start"]

\* Mutant: a job goes before those that wait, and before the one that runs.
JumpsQueue(job) == gate' = <<job>> \o gate

exclusive(job) == gate' = Append(gate, job)

Holds(kind, stage) ==
  /\ gate # <<>>
  /\ Head(gate).kind = kind
  /\ Head(gate).stage = stage
Stage(stage) == gate' = <<[Head(gate) EXCEPT !.stage = stage]>> \o Tail(gate)
Leave == gate' = Tail(gate)

\* backend.stop: every running owned container stops.
AllStopped ==
  [owned EXCEPT !["running"] = [i \in Images |-> 0],
                !["stopped"] = [i \in Images |-> @[i] + owned["running"][i]]]

notifyStopped == inbox' = Append(inbox, [kind |-> "release", from |-> "lifecycle"])

\* The caller of an ensure goes on when the job ends: enableOwned and
\* synchronizeStartupDemand hand the endpoint to the host.  The operator's may
\* run while the process ends.
Ensured(ready) ==
  LET by == Head(gate).by IN
  /\ Leave
  /\ \/ /\ by \in Chats /\ ready
        /\ client' = [client EXCEPT ![by] = "assigning"]
        /\ inbox' = Append(inbox, [kind |-> "ensure", from |-> by])
        /\ UNCHANGED app
     \/ /\ by \in Chats /\ ~(ready /\ app = "up")
        /\ client' = [client EXCEPT ![by] = "idle"]
        /\ UNCHANGED <<inbox, app>>
     \/ /\ by = "startup"
        /\ app' = IF ready THEN "assigning" ELSE "syncing"
        /\ inbox' = IF ready THEN Append(inbox, [kind |-> "ensure", from |-> by])
                    ELSE inbox
        /\ UNCHANGED client
     \/ /\ by = "operator"
        /\ app' = IF app = "drained" THEN "reopened" ELSE app
        /\ UNCHANGED <<client, inbox>>

\* No running provider but one of the pinned image.
RunningFits ==
  /\ Count("running") <= 1
  /\ \A i \in Images : owned["running"][i] > 0 => Exact(i)

\* ensure, up to the point where nothing unexpected runs.
EnsureClears ==
  /\ Holds("ensure", "start")
  /\ UNCHANGED <<intent, app, memory, client, inbox, relay, conv>>
  /\ intent # "corrupt"
  /\ KeepBudget
  /\ IF RunningFits
     THEN Stage(IF Count("running") = 1 THEN "prepare" ELSE "prune") /\ UNCHANGED owned
     ELSE owned' = AllStopped /\ Stage("prune")

\* ensure, the stopped containers: one of the pinned image is kept.
Pruned ==
  [owned EXCEPT !["stopped"] =
     [i \in Images |-> IF Exact(i) /\ @[i] = 1 THEN 1 ELSE 0]]

EnsurePrunes ==
  /\ Holds("ensure", "prune")
  /\ owned' = Pruned
  /\ Stage("prepare")
  /\ KeepBudget
  /\ UNCHANGED <<intent, app, memory, client, inbox, relay, conv>>

\* A container of the plan runs: the running or stopped one, or a new one.
Started ==
  [owned EXCEPT !["running"]["plan"] = 1,
                !["stopped"]["plan"] = IF owned["running"]["plan"] = 1 THEN @
                                       ELSE IF @ > 0 THEN @ - 1 ELSE 0]

\* adoptRunning, restartStopped, prepareFresh: one call of backend.prepare.
\* The intent of a first preparation is durable before anything starts.
EnsurePrepares ==
  /\ Holds("ensure", "prepare")
  /\ intent \in {"none", "plan"}
  /\ intent' = "plan"
  /\ owned' = Started
  /\ live' = TRUE
  /\ Ensured(TRUE)
  /\ KeepBudget
  /\ UNCHANGED <<demand, timer, relay, conv>>

\* An engine that cannot be listed, a container that cannot be stopped or
\* removed, a preparation that fails with or without a container started, an
\* intent that is unreadable or pins another image.
EnsureRefuses ==
  /\ gate # <<>>
  /\ Head(gate).kind = "ensure"
  /\ \/ /\ Holds("ensure", "start")
        /\ IF intent = "corrupt" THEN KeepBudget ELSE Outage
        /\ UNCHANGED engineVars
     \/ Holds("ensure", "prune") /\ Outage /\ UNCHANGED engineVars
     \/ /\ Holds("ensure", "prepare")
        /\ intent = "old"
        /\ KeepBudget
        /\ UNCHANGED engineVars
     \/ /\ Holds("ensure", "prepare")
        /\ intent \in {"none", "plan"}
        /\ Outage
        /\ intent' = "plan"
        /\ owned' \in {owned, Started}
  /\ Ensured(FALSE)
  /\ UNCHANGED <<memory, relay, conv>>

MayStop(kind) ==
  CASE kind \in {"stop", "restart"} -> demand = {}
    [] kind = "idle" -> demand = {} /\ live
    [] kind = "drain" -> TRUE

\* stop and #onIdleExpired look at the demand when they get the gate.
StopDecides(kind) ==
  /\ Holds(kind, "start")
  /\ IF MayStop(kind) THEN Stage("stopping") ELSE Leave
  /\ KeepBudget
  /\ UNCHANGED <<engineVars, app, memory, client, inbox, relay, conv>>

\* The process waits for the drain that ends, the last one that was asked for.
Awaited(kind) ==
  /\ kind = "drain" /\ app = "draining"
  /\ \A i \in 2 .. Len(gate) : gate[i].kind # "drain"

\* The containers have stopped.  A restart goes to the end of the gate for
\* its ensure; a drain is followed by the exit.
StopEnds(kind) ==
  /\ Holds(kind, "stopping")
  /\ owned' = AllStopped
  /\ live' = FALSE
  /\ timer' = (timer /\ kind \in {"idle", "drain"})
  /\ IF app = "up" THEN notifyStopped ELSE UNCHANGED inbox
  /\ gate' = IF kind = "restart" THEN Append(Tail(gate), Job("ensure", "operator"))
             ELSE Tail(gate)
  /\ app' = IF Awaited(kind) THEN "drained" ELSE app
  /\ KeepBudget
  /\ UNCHANGED <<intent, demand, client, relay, conv>>

\* Mutant: an idle stop that fails is not tried again.
DropFailedStop(kind) == timer

\* A failed idle stop arms the timer again.
RearmedAfter(kind) == timer \/ kind = "idle"

StopFails(kind) ==
  /\ Holds(kind, "stopping")
  /\ Outage
  /\ timer' = RearmedAfter(kind)
  /\ live' = (live /\ kind # "drain")
  /\ Leave
  /\ app' = IF Awaited(kind) THEN "unresolved" ELSE app
  /\ UNCHANGED <<engineVars, demand, client, inbox, relay, conv>>

IdleExpires ==
  /\ timer
  /\ timer' = FALSE
  /\ exclusive(Job("idle", "lifecycle"))
  /\ KeepBudget
  /\ UNCHANGED <<engineVars, app, live, demand, client, inbox, relay, conv>>

\* The commands are bound after the startup and served until the process is
\* gone: during a drain, after one that failed, and until the exit.
Served == {"up", "draining", "unresolved", "drained", "reopened"}

\* The catalogue's prepare, stop and restart.
OperatorAsks(kind) ==
  /\ app \in Served
  /\ kind \in budget.operator /\ SpendBudget("asked")
  /\ exclusive(Job(kind, "operator"))
  /\ UNCHANGED <<engineVars, app, memory, client, inbox, relay, conv>>

-----------------------------------------------------------------------------
\* Startup: reconcile, then synchronizeStartupDemand, before any command

\* Mutant: a restarted app takes any single running provider for its own.
AdoptsAny == intent \in Images /\ Count("running") = 1

Adoptable == intent \in Images /\ Count("running") = 1 /\ RunningFits

\* reconcile, the running containers.  A provider without a loopback port is
\* stopped like one of another image.
ReconcileRunning ==
  /\ Holds("reconcile", "start")
  /\ \/ /\ Adoptable
        /\ live' = TRUE
        /\ Stage("prune")
        /\ KeepBudget
        /\ UNCHANGED <<owned, app>>
     \/ /\ live' = FALSE
        /\ owned' = AllStopped
        /\ KeepBudget
        /\ IF intent \in Images THEN Stage("prune") /\ UNCHANGED app
                                ELSE Leave /\ app' = "snapshot"
     \/ /\ live' = FALSE
        /\ Outage
        /\ UNCHANGED owned
        /\ \/ Leave /\ app' = "snapshot"
           \/ intent \in Images /\ Stage("prune") /\ UNCHANGED app
  /\ UNCHANGED <<intent, demand, timer, client, inbox, relay, conv>>

ReconcilePrunes ==
  /\ Holds("reconcile", "prune")
  /\ \/ owned' = Pruned /\ KeepBudget
     \/ UNCHANGED owned /\ Outage
  /\ Leave
  /\ app' = "snapshot"
  /\ UNCHANGED <<intent, memory, client, inbox, relay, conv>>

\* The conversations whose persisted attachment says connected.
Connected == {c \in Chats : conv[c].mcp = "connected"}

synchronizeStartupDemand ==
  /\ app = "snapshot"
  /\ IF Connected # {}
     THEN exclusive(Job("ensure", "startup")) /\ app' = "ensuring"
     ELSE app' = "syncing" /\ UNCHANGED gate
  /\ KeepBudget
  /\ UNCHANGED <<engineVars, memory, client, inbox, relay, conv>>

SyncDemand ==
  /\ app = "syncing"
  /\ syncDemand(Connected)
  /\ app' = "up"
  /\ KeepBudget
  /\ UNCHANGED <<engineVars, live, gate, client, inbox, relay, conv>>

-----------------------------------------------------------------------------
\* chat-demand.ts: the commands of the conversations

Send(c, kind) == inbox' = Append(inbox, [kind |-> kind, from |-> c])
IsAt(c, stage) == client[c] = stage
Go(c, stage) == client' = [client EXCEPT ![c] = stage]

\* enableOwned: the provider first.
enableOwned(c) ==
  /\ app = "up"
  /\ IsAt(c, "idle")
  /\ c \in budget.chats /\ SpendBudget("attempt")
  /\ exclusive(Job("ensure", c))
  /\ Go(c, "ensuring")
  /\ UNCHANGED <<engineVars, app, memory, inbox, relay, conv>>

\* The endpoint is assigned: demand is held and the command goes out.
EnableHeld(c) ==
  /\ app = "up"
  /\ IsAt(c, "assigned")
  /\ acquire(c)
  /\ Send(c, "enable")
  /\ Go(c, "enabling")
  /\ KeepBudget
  /\ UNCHANGED <<engineVars, app, live, gate, relay, conv>>

\* mcp.disable and conversation.close
Detach(c, kind) ==
  /\ app = "up"
  /\ IsAt(c, "idle")
  /\ c \in budget.chats /\ budget.attempt > 0
  /\ budget.close > 0 \/ kind # "close"
  /\ budget' = [budget EXCEPT !.attempt = @ - 1,
                            !.close = IF kind = "close" THEN @ - 1 ELSE @]
  /\ Send(c, kind)
  /\ Go(c, "detaching")
  /\ UNCHANGED <<engineVars, app, memory, gate, relay, conv>>

\* Mutant: a refused enable keeps its demand.
ReleaseNever(c) == FALSE

\* A refused enable and an accepted detach give the demand up.
Releases(c) == IsAt(c, "enable refused") \/ IsAt(c, "detach accepted")

Answered(c) ==
  /\ client[c] \in {"enable refused", "enable accepted",
                    "detach refused", "detach accepted"}
  /\ IF Releases(c) THEN release(c) ELSE UNCHANGED <<demand, timer>>
  /\ Go(c, "idle")
  /\ KeepBudget
  /\ UNCHANGED <<engineVars, app, live, gate, inbox, relay, conv>>

\* guardedViewerOp
guardedViewerOp(o) ==
  /\ app = "up" /\ o \in budget.ops
  /\ IsAt(o, "idle")
  /\ acquire(o)
  /\ Send(o, "viewer")
  /\ Go(o, "calling")
  /\ KeepBudget
  /\ UNCHANGED <<engineVars, app, live, gate, relay, conv>>

ViewerOpEnds(o) ==
  /\ IsAt(o, "called")
  /\ release(o)
  /\ Go(o, "done")
  /\ KeepBudget
  /\ UNCHANGED <<engineVars, app, live, gate, inbox, relay, conv>>

\* client.ts: the answer comes too late, or the write fails.  The message may
\* still be served.
RequestTimesOut(c) ==
  /\ client[c] \in {"assigning", "enabling", "detaching", "calling"}
  /\ SpendBudget("timeout")
  /\ IF client[c] \in {"enabling", "calling"}
     THEN release(c) ELSE UNCHANGED <<demand, timer>>
  /\ Go(c, IF c \in Ops THEN "done" ELSE "idle")
  /\ UNCHANGED <<engineVars, app, live, gate, inbox, relay, conv>>

-----------------------------------------------------------------------------
\* The Chat Host serves one message at a time

Takes(kind) ==
  /\ inbox # <<>>
  /\ Head(inbox).kind = kind
  /\ inbox' = Tail(inbox)
  /\ UNCHANGED <<engineVars, memory, gate>>

Serve(kind) == Takes(kind) /\ KeepBudget

Reply(from, waiting, stage) ==
  IF client[from] = waiting THEN Go(from, stage) ELSE UNCHANGED client

\* McpAttachmentManager.ensure
HostEnsures ==
  /\ Serve("ensure")
  /\ relay' = TRUE
  /\ IF Head(inbox).from = "startup"
     THEN app' = "syncing" /\ UNCHANGED client
     ELSE Reply(Head(inbox).from, "assigning", "assigned") /\ UNCHANGED app
  /\ UNCHANGED conv

\* Its relay or its runtime cannot be created: the endpoint is refused.
HostRefuses ==
  /\ Takes("ensure")
  /\ ~relay
  /\ SpendBudget("timeout")
  /\ IF Head(inbox).from = "startup"
     THEN app' = "syncing" /\ UNCHANGED client
     ELSE Reply(Head(inbox).from, "assigning", "idle") /\ UNCHANGED app
  /\ UNCHANGED <<relay, conv>>

\* McpAttachmentManager.release
HostReleases ==
  /\ Serve("release")
  /\ relay' = FALSE
  /\ UNCHANGED <<app, client, conv>>

\* coordinator.ts #enableMcp: refused while a turn is active or without an
\* endpoint; a failing probe detaches, a good one attaches.
HostEnables ==
  /\ Serve("enable")
  /\ UNCHANGED <<app, relay>>
  /\ LET c == Head(inbox).from IN
     IF conv[c].closed \/ conv[c].busy \/ ~relay
     THEN Reply(c, "enabling", "enable refused") /\ UNCHANGED conv
     ELSE IF Count("running") = 0
     THEN /\ conv' = [conv EXCEPT ![c].mcp = "failed"]
          /\ Reply(c, "enabling", "enable refused")
     ELSE /\ conv' = [conv EXCEPT ![c].mcp = "connected"]
          /\ Reply(c, "enabling", "enable accepted")

\* coordinator.ts #disableMcp
HostDisables ==
  /\ Serve("disable")
  /\ UNCHANGED <<app, relay>>
  /\ LET c == Head(inbox).from IN
     IF conv[c].closed \/ conv[c].busy
     THEN Reply(c, "detaching", "detach refused") /\ UNCHANGED conv
     ELSE /\ conv' = [conv EXCEPT ![c].mcp = "none"]
          /\ Reply(c, "detaching", "detach accepted")

\* coordinator.ts #closeConversation leaves the attachment as it is.
HostCloses ==
  /\ Serve("close")
  /\ UNCHANGED <<app, relay>>
  /\ LET c == Head(inbox).from IN
     /\ conv' = [conv EXCEPT ![c].closed = TRUE, ![c].busy = FALSE]
     /\ Reply(c, "detaching", "detach accepted")

HostViews ==
  /\ Serve("viewer")
  /\ Reply(Head(inbox).from, "calling", "called")
  /\ UNCHANGED <<app, relay, conv>>

\* A turn of an open conversation starts or ends.
TurnChanges(c) ==
  /\ app = "up"
  /\ ~conv[c].closed
  /\ \/ conv[c].busy /\ KeepBudget
     \/ ~conv[c].busy /\ c \in budget.chats /\ SpendBudget("busy")
  /\ conv' = [conv EXCEPT ![c].busy = ~@]
  /\ UNCHANGED <<engineVars, app, memory, gate, client, inbox, relay>>

-----------------------------------------------------------------------------
\* main.ts: the end of the process and the next one

\* stopDesktopResources: the Chat Host stops, its requests fail, then drain.
\* A close whose drain is unresolved can be tried again, and so can one whose
\* server did not shut down after the drain.
stopDesktopResources ==
  /\ app \in Served \ {"draining"}
  /\ SpendBudget("quit")
  /\ app' = "draining"
  /\ inbox' = <<>>
  /\ relay' = FALSE
  /\ conv' = [c \in Chats |-> [conv[c] EXCEPT !.busy = FALSE]]
  /\ client' = [h \in Holders |-> IF client[h] = "ensuring" THEN "ensuring" ELSE "idle"]
  /\ demand' = {h \in demand : client[h] \notin {"enabling", "calling"}}
  /\ timer' = FALSE
  /\ exclusive(Job("drain", "lifecycle"))
  /\ UNCHANGED <<engineVars, live>>

\* drainDesktopForWindowClose gives up waiting; the drain stays at the gate.
DrainTimesOut ==
  /\ app = "draining"
  /\ Outage
  /\ app' = "unresolved"
  /\ UNCHANGED <<engineVars, memory, gate, client, inbox, relay, conv>>

Boot ==
  /\ app' = "reconciling"
  /\ live' = FALSE
  /\ demand' = {}
  /\ timer' = FALSE
  /\ gate' = <<Job("reconcile", "startup")>>
  /\ client' = [h \in Holders |-> "idle"]
  /\ inbox' = <<>>
  /\ relay' = FALSE
  /\ conv' = [c \in Chats |-> [conv[c] EXCEPT !.busy = FALSE]]

\* The process dies, or ends after its drain, and is started again:
\* containers, the intent and the conversations are what is left.
Restart ==
  /\ IF app \in {"drained", "reopened", "unresolved"} THEN KeepBudget ELSE SpendBudget("crash")
  /\ Boot
  /\ UNCHANGED engineVars

RuntimeInit ==
  /\ budget \in RuntimeSettings
  /\ \E run, stop \in [Images -> 0 .. budget.leftovers] :
       /\ owned = [running |-> run, stopped |-> stop]
       /\ run["plan"] + run["old"] + stop["plan"] + stop["old"] <= budget.leftovers
  /\ intent \in {"none", "plan", "old", "corrupt"}
  /\ app = "reconciling"
  /\ live = FALSE /\ demand = {} /\ timer = FALSE
  /\ gate = <<Job("reconcile", "startup")>>
  /\ client = [h \in Holders |-> "idle"]
  /\ inbox = <<>>
  /\ relay = FALSE
  /\ conv = [c \in Chats |-> [mcp |-> "none", closed |-> FALSE, busy |-> FALSE]]

GateSteps ==
  \/ EnsureClears \/ EnsurePrunes \/ EnsurePrepares \/ EnsureRefuses
  \/ \E kind \in {"stop", "restart", "idle", "drain"} :
       StopDecides(kind) \/ StopEnds(kind) \/ StopFails(kind)
  \/ ReconcileRunning \/ ReconcilePrunes

ClientSteps ==
  \/ synchronizeStartupDemand \/ SyncDemand
  \/ \E c \in Chats : EnableHeld(c) \/ Answered(c)
  \/ \E o \in Ops : ViewerOpEnds(o)

HostSteps ==
  HostEnsures \/ HostRefuses \/ HostReleases \/ HostEnables \/ HostDisables
  \/ HostCloses \/ HostViews

RuntimeNext ==
  \/ GateSteps \/ ClientSteps \/ HostSteps
  \/ IdleExpires
  \/ \E kind \in {"ensure", "stop", "restart"} : OperatorAsks(kind)
  \/ \E c \in Chats :
       \/ enableOwned(c) \/ TurnChanges(c)
       \/ \E kind \in {"disable", "close"} : Detach(c, kind)
  \/ \E o \in Ops : guardedViewerOp(o)
  \/ \E h \in Holders : RequestTimesOut(h)
  \/ stopDesktopResources
  \/ DrainTimesOut
  \/ Restart

RuntimeSpec == RuntimeInit /\ [][RuntimeNext]_runtimeVars

\* The event loop runs, engine calls end, the timer fires, the host serves.
RuntimeLive ==
  /\ RuntimeSpec
  /\ WF_runtimeVars(GateSteps)
  /\ WF_runtimeVars(ClientSteps)
  /\ WF_runtimeVars(HostSteps)
  /\ WF_runtimeVars(IdleExpires)

-----------------------------------------------------------------------------
RuntimeTypeOK ==
  /\ owned \in [{"running", "stopped"} -> [Images -> Nat]]
  /\ intent \in {"none", "plan", "old", "corrupt"}
  /\ live \in BOOLEAN /\ timer \in BOOLEAN /\ relay \in BOOLEAN
  /\ demand \subseteq Holders /\ budget \in RuntimeSetting
  /\ \A c \in Chats : conv[c].mcp \in {"none", "connected", "failed"}
  /\ \A i \in DOMAIN gate : gate[i].stage # "start" => i = 1

\* While no engine call is under way, a provider the app calls live is the
\* only owned container that runs and was made from the image the durable
\* intent pins, whatever an earlier version, a crash or a failed call left.
LiveIsExact ==
  live /\ (gate = <<>> \/ Head(gate).stage = "start") =>
    /\ intent \in Images
    /\ Count("running") = 1
    /\ owned["running"][intent] = 1

\* A conversation that holds demand is attached, or its command is still under
\* way: nothing keeps a provider from its idle stop for ever.  Two cases are
\* outside: a detach whose answer came too late keeps its demand, and after a
\* restart a conversation closed while attached counts as attached.
DemandIsBacked ==
  app = "up" /\ budget.timely => \A c \in demand \cap Chats :
    client[c] # "idle" \/ conv[c].mcp = "connected"

\* A provider without demand stops, however often the engine refuses, unless
\* demand returns or the app ends: when its idle stop is armed, and it always
\* is unless the operator started the provider, or a late answer or a refused
\* endpoint lost the command that did.
IdleProviderStops ==
  (app = "up" /\ live /\ demand = {} /\ (timer \/ (budget.timely /\ budget.operator = {})))
    ~> (~live \/ demand # {} \/ app # "up")

\* After a drain that stopped everything nothing runs and nothing is started
\* again, whatever conversation or timer waited at the gate, until an ensure
\* of the operator has run behind it: a prepare, or the second half of a
\* restart, given before or after the drain.
QuitStopsProviders == app = "drained" => Count("running") = 0

\* What the app believes of the provider is what runs and what is wanted.
ProviderIsExact == RuntimeTypeOK /\ LiveIsExact /\ DemandIsBacked /\ QuitStopsProviders
=============================================================================
