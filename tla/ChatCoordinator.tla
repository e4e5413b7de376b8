--------------------------- MODULE ChatCoordinator ---------------------------
(***************************************************************************)
(* One standalone conversation of the Desktop Chat Host                    *)
(* (desktop/src/chat/coordinator.ts).  Everything runs on one event loop:  *)
(* the code between two awaits is one action here.  Four activities        *)
(* interleave at the awaits: the IPC loop, which handles one command at a  *)
(* time (chat-host/main.ts); the chain of turns, one at a time; the        *)
(* persist tail, which commits snapshots in call order; and stop().  The   *)
(* agent runtime is external: it accepts a prompt, replies, asks for a     *)
(* permission and ends, or dies, when it likes.                            *)
(*                                                                         *)
(* A message is its id.  Lines the coordinator itself appends (errors,     *)
(* "Turn cancelled.") are left out of the transcript: nothing but their    *)
(* seeding distinguishes them from replies.  At most one reply per turn.   *)
(* The seed's size limits are not reached.                                 *)
(***************************************************************************)
EXTENDS Naturals, Sequences, FiniteSets, SequencesExt

CONSTANT
  Settings    \* how the user behaves and how often each bounded thing happens

Things == {"send", "cancel", "close", "switch", "stop", "question",
           "agent", "save", "crash"}

\* send, cancel, close, switch (mcp.enable and mcp.disable) and stop bound the
\* user's commands; question the permissions and elicitations the agent asks
\* for; agent the failed ensureSession calls, died prompts and refused calls;
\* save the rejected saves; crash the deaths of the host.  A patient user sends
\* only once the last turn is over; on a sound disk no save is rejected.
Setting == [patient : BOOLEAN, sound : BOOLEAN, bound : [Things -> Nat]]

ASSUME SettingsAssumption == Settings \subseteq Setting

VARIABLES
  host,    \* "ready", or how far stop() has come
  conv,    \* ConversationState
  queue,   \* turns chained on queueTail and not begun
  turn,    \* the turn #runTurn is in
  cmd,     \* the command the IPC loop is in
  live,    \* prompts the agents are at work on
  held,    \* per session key, the messages the agent session holds
  next,    \* the next message id
  tail,    \* snapshots waiting on the persist tail
  disk,    \* what the store holds
  dropped, \* messages cancelled while queued, or whose send was refused
  left     \* the setting, with what is left of its bounds

vars == <<host, conv, queue, turn, cmd, live, held, next, tail, disk, dropped,
          left>>

\* standaloneSessionKey: with no MCP, and with the one connectable MCP.
Keys == {"plain", "mcp"}

Ids == Nat \ {0}

NoTurn == [stage |-> "none", id |-> 0, key |-> "none", seed |-> {},
           touched |-> {}, abort |-> FALSE, lost |-> FALSE]

NoCommand == [op |-> "none", stage |-> "none", id |-> 0, epoch |-> 0,
              lost |-> FALSE]

Spend(thing) ==
  /\ left.bound[thing] > 0
  /\ left' = [left EXCEPT !.bound[thing] = @ - 1]

------------------------------------------------------------------------------
(* The conversation, its snapshot and its restoration.                     *)

Created ==
  [status |-> "idle", epoch |-> 0, key |-> "plain", mcp |-> "none",
   handle |-> "none", messages |-> <<>>, known |-> [k \in Keys |-> {}],
   pending |-> FALSE]

Stored(c) ==
  [status |-> c.status, key |-> c.key, mcp |-> c.mcp, messages |-> c.messages,
   known |-> [k \in Keys |-> c.known[k] \cap ToSet(c.messages)]]

Restored(d) ==
  [Created EXCEPT
     !.status = IF d.status \in {"running", "queued"} THEN "idle" ELSE d.status,
     !.key = d.key, !.mcp = d.mcp, !.messages = d.messages,
     !.known = [k \in Keys |-> d.known[k] \cap ToSet(d.messages)]]

\* #persist: the snapshot is taken now and committed behind the earlier ones;
\* `owner` is who awaits the commit.
Persist(owner) ==
  tail' = Append(tail, [owner |-> owner, snapshot |-> Stored(conv')])

Saved(owner) == \A i \in DOMAIN tail : tail[i].owner # owner

markKnown(c, ids) == [c EXCEPT !.known[c.key] = @ \cup ids]

\* The ids seedContextFor sends: history strictly before the turn's message
\* that the session key has never seen.
seedContextFor(c, id) ==
  {c.messages[i] : i \in {j \in DOMAIN c.messages :
     \A h \in 1 .. j : c.messages[h] # id}} \ c.known[c.key]

\* activeTurn and activeAbort are set, from startTurn to the finally block.
Active == turn.stage \in {"prompt", "commit", "events", "consume", "result"}

\* The permission or elicitation that was pending is answered "cancel".
Released(prompts) ==
  {IF p.phase = "asking" THEN [p EXCEPT !.phase = "work"] ELSE p : p \in prompts}

Running(id) == \E p \in live : p.id = id

Free == cmd = NoCommand /\ host = "ready"

------------------------------------------------------------------------------
(* message.send: append, save, then chain the turn.                        *)

enqueueMessage ==
  /\ Free /\ conv.status # "closed" /\ Spend("send")
  /\ left.patient => turn = NoTurn /\ queue = <<>>
  /\ conv' = [conv EXCEPT !.messages = Append(@, next), !.status = "queued"]
  /\ cmd' = [NoCommand EXCEPT !.op = "send", !.stage = "saving", !.id = next,
                              !.epoch = conv.epoch]
  /\ next' = next + 1
  /\ Persist("cmd")
  /\ UNCHANGED <<host, queue, turn, live, held, disk, dropped>>

\* A command's last await is its save; a rejected save is its error answer,
\* and a message whose save was rejected is never chained.
CommandSaved ==
  /\ cmd.stage = "saving" /\ Saved("cmd")
  /\ queue' = IF cmd.op = "send" /\ ~cmd.lost
              THEN Append(queue, [id |-> cmd.id, epoch |-> cmd.epoch])
              ELSE queue
  /\ dropped' = IF cmd.op = "send" /\ cmd.lost THEN dropped \cup {cmd.id}
                ELSE dropped
  /\ cmd' = NoCommand
  /\ UNCHANGED <<host, conv, turn, live, held, next, tail, disk, left>>

------------------------------------------------------------------------------
(* turn.cancel and conversation.close.                                     *)

\* #cancelTurn up to its await: the pending question is cancelled, the epoch
\* moves on, the active turn's signal is aborted.
cancelTurn(op) ==
  /\ Free /\ Spend(op)
  /\ conv' = [conv EXCEPT !.pending = FALSE, !.epoch = @ + 1]
  /\ turn' = [turn EXCEPT !.abort = Active]
  /\ live' = IF conv.pending THEN Released(live) ELSE live
  /\ dropped' = dropped \cup {queue[i].id : i \in DOMAIN queue}
  /\ cmd' = [NoCommand EXCEPT !.op = op, !.stage = "cancelling"]
  /\ IF conv.pending THEN Persist("none") ELSE UNCHANGED tail
  /\ UNCHANGED <<host, queue, held, next, disk>>

CancelAcknowledged ==
  /\ cmd.op = "cancel" /\ cmd.stage = "cancelling"
  /\ cmd' = NoCommand
  /\ UNCHANGED <<host, conv, queue, turn, live, held, next, tail, disk, dropped,
                 left>>

closeConversation ==
  /\ cmd.op = "close" /\ cmd.stage = "cancelling"
  /\ conv' = [conv EXCEPT !.status = "closed"]
  /\ IF conv.handle = "none"
     THEN cmd' = [cmd EXCEPT !.stage = "saving"] /\ Persist("cmd")
     ELSE cmd' = [cmd EXCEPT !.stage = "closing"] /\ UNCHANGED tail
  /\ UNCHANGED <<host, queue, turn, live, held, next, disk, dropped, left>>

HandleClosed ==
  /\ cmd.stage = "closing"
  /\ conv' = [conv EXCEPT !.handle = "none"]
  /\ cmd' = [cmd EXCEPT !.stage = "saving"]
  /\ Persist("cmd")
  /\ UNCHANGED <<host, queue, turn, live, held, next, disk, dropped, left>>

\* runtime.cancel or runtime.close rejects: the command stops where it is.
RuntimeRefuses ==
  /\ cmd.stage \in {"cancelling", "closing", "detaching"}
  /\ Active \/ conv.handle # "none"
  /\ Spend("agent")
  /\ cmd' = NoCommand
  /\ UNCHANGED <<host, conv, queue, turn, live, held, next, tail, disk, dropped>>

------------------------------------------------------------------------------
(* mcp.enable and mcp.disable.                                             *)

requireSettledForMcpSwitch ==
  ~Active /\ conv.status \notin {"running", "queued"} /\ ~conv.pending

\* Mutant: a failed reconnect keeps the MCP session's key.
SwitchedKeepsKey(c, op) ==
  CASE op = "attach" -> [c EXCEPT !.mcp = "connected", !.key = "mcp"]
    [] op = "refuse" -> [c EXCEPT !.mcp = "failed"]
    [] op = "detach" -> [c EXCEPT !.mcp = "none", !.key = "plain"]

Switched(c, op) ==
  CASE op = "attach" -> [c EXCEPT !.mcp = "connected", !.key = "mcp"]
    [] op = "refuse" -> [c EXCEPT !.mcp = "failed", !.key = "plain"]
    [] op = "detach" -> [c EXCEPT !.mcp = "none", !.key = "plain"]

\* #detachHandle and what follows it: with a live handle the session is
\* closed first, and the attachment changes only after that await.
ChangeAttachment(op, detaches) ==
  IF detaches /\ conv.handle # "none"
  THEN /\ cmd' = [NoCommand EXCEPT !.op = op, !.stage = "detaching"]
       /\ UNCHANGED <<conv, tail>>
  ELSE /\ conv' = Switched(conv, op)
       /\ cmd' = [NoCommand EXCEPT !.op = op, !.stage = "saving"]
       /\ Persist("cmd")

enableMcp ==
  /\ Free /\ conv.status # "closed" /\ requireSettledForMcpSwitch
  /\ Spend("switch")
  /\ cmd' = [NoCommand EXCEPT !.op = "enable", !.stage = "probing"]
  /\ UNCHANGED <<host, conv, queue, turn, live, held, next, tail, disk, dropped>>

\* The probe answers, and the switch goes on without asking again.
ProbeAnswers ==
  /\ cmd.stage = "probing"
  /\ \/ ChangeAttachment("attach", TRUE)
     \/ ChangeAttachment("refuse", conv.mcp = "connected")
  /\ UNCHANGED <<host, queue, turn, live, held, next, disk, dropped, left>>

disableMcp ==
  /\ Free /\ conv.status # "closed" /\ requireSettledForMcpSwitch
  /\ conv.mcp # "none" /\ Spend("switch")
  /\ ChangeAttachment("detach", TRUE)
  /\ UNCHANGED <<host, queue, turn, live, held, next, disk, dropped>>

\* The runtime has closed the session; a question asked over it is cancelled.
HandleDetached ==
  /\ cmd.stage = "detaching"
  /\ conv' = [Switched(conv, cmd.op) EXCEPT !.handle = "none", !.pending = FALSE]
  /\ live' = Released(live)
  /\ cmd' = [cmd EXCEPT !.stage = "saving"]
  /\ Persist("cmd")
  /\ UNCHANGED <<host, queue, turn, held, next, disk, dropped, left>>

------------------------------------------------------------------------------
(* #runTurn, from await to await.                                          *)

\* Mutant: the finally block does not save.
EndTurnUnsaved(c, prompts) ==
  /\ live' = IF c.pending THEN Released(prompts) ELSE prompts
  /\ conv' = [c EXCEPT !.pending = FALSE]
  /\ turn' = [turn EXCEPT !.stage = "settle", !.abort = FALSE, !.lost = FALSE]
  /\ UNCHANGED tail

\* The turn is over whatever happened: its question is cancelled, the active
\* turn is forgotten, the conversation is saved.
EndTurn(c, prompts) ==
  /\ live' = IF c.pending THEN Released(prompts) ELSE prompts
  /\ conv' = [c EXCEPT !.pending = FALSE]
  /\ turn' = [turn EXCEPT !.stage = "settle", !.abort = FALSE, !.lost = FALSE]
  /\ Persist("turn")

\* Mutant: the epoch captured at enqueue is not compared.
NeverStale(t) == FALSE

Stale(t) == t.epoch # conv.epoch

\* Closed, shutting down, or cancelled while another turn had the status.
SkipTurn ==
  /\ turn = NoTurn /\ queue # <<>>
  /\ \/ conv.status = "closed" \/ host # "ready"
     \/ Stale(Head(queue)) /\ conv.status # "queued"
  /\ queue' = Tail(queue)
  /\ UNCHANGED <<host, conv, turn, cmd, live, held, next, tail, disk, dropped,
                 left>>

\* Mutant: the cancelled turn returns without giving the status back.
DropTurnSilently ==
  /\ turn = NoTurn /\ queue # <<>> /\ host = "ready"
  /\ Stale(Head(queue)) /\ conv.status = "queued"
  /\ queue' = Tail(queue)
  /\ UNCHANGED <<host, conv, turn, cmd, live, held, next, tail, disk, dropped,
                 left>>

DropTurn ==
  /\ turn = NoTurn /\ queue # <<>> /\ host = "ready"
  /\ Stale(Head(queue)) /\ conv.status = "queued"
  /\ conv' = [conv EXCEPT !.status = "idle"]
  /\ turn' = [NoTurn EXCEPT !.stage = "settle", !.id = Head(queue).id]
  /\ queue' = Tail(queue)
  /\ Persist("turn")
  /\ UNCHANGED <<host, cmd, live, held, next, disk, dropped, left>>

\* With a handle the prompt is submitted at once; without one the session is
\* ensured first, for the key and with the seed of this moment.
BeginTurn ==
  /\ turn = NoTurn /\ queue # <<>> /\ host = "ready" /\ conv.status # "closed"
  /\ ~Stale(Head(queue))
  /\ LET id == Head(queue).id IN
     IF conv.handle = "none"
     THEN /\ turn' = [NoTurn EXCEPT !.stage = "ensure", !.id = id,
                        !.key = conv.key, !.seed = seedContextFor(conv, id)]
          /\ UNCHANGED live
     ELSE /\ turn' = [NoTurn EXCEPT !.stage = "prompt", !.id = id,
                        !.key = conv.handle]
          /\ live' = live \cup {[id |-> id, key |-> conv.handle,
                                 text |-> {id}, phase |-> "sent"]}
  /\ conv' = [conv EXCEPT !.status = "running"]
  /\ queue' = Tail(queue)
  /\ UNCHANGED <<host, cmd, held, next, tail, disk, dropped, left>>

SessionEnsured ==
  /\ turn.stage = "ensure"
  /\ conv' = [conv EXCEPT !.handle = turn.key]
  /\ turn' = [turn EXCEPT !.stage = "prompt"]
  /\ live' = live \cup {[id |-> turn.id, key |-> turn.key,
                         text |-> turn.seed \cup {turn.id}, phase |-> "sent"]}
  /\ UNCHANGED <<host, queue, cmd, held, next, tail, disk, dropped, left>>

EnsureFails ==
  /\ turn.stage = "ensure" /\ Spend("agent")
  /\ EndTurn([conv EXCEPT !.status = "failed", !.handle = "none"], live)
  /\ UNCHANGED <<host, queue, cmd, held, next, disk, dropped>>

\* Mutant: marks as soon as startTurn returns, before promptStarted.
MarkAtStart ==
  /\ turn.stage = "prompt"
  /\ conv' = markKnown(conv, turn.seed \cup {turn.id})
  /\ turn' = [turn EXCEPT !.stage = "commit"]
  /\ Persist("turn")
  /\ UNCHANGED <<host, queue, cmd, live, held, next, disk, dropped, left>>

\* promptStarted resolves: what was sent is marked known, under the session
\* key the conversation has now.
PromptConfirmed ==
  /\ turn.stage = "prompt"
  /\ \A p \in live : p.id = turn.id => p.phase # "sent"
  /\ conv' = markKnown(conv, turn.seed \cup {turn.id})
  /\ turn' = [turn EXCEPT !.stage = "commit"]
  /\ Persist("turn")
  /\ UNCHANGED <<host, queue, cmd, live, held, next, disk, dropped, left>>

\* Mutant: the handle is kept, so the retry does not seed again.
PromptDiesKeepingHandle ==
  /\ turn.stage = "prompt"
  /\ IF turn.abort THEN UNCHANGED left ELSE Spend("agent")
  /\ \E p \in live :
       /\ p.id = turn.id /\ p.phase = "sent"
       /\ EndTurn([conv EXCEPT !.status = IF turn.abort THEN "idle" ELSE "failed"],
                  live \ {p})
  /\ UNCHANGED <<host, queue, cmd, held, next, disk, dropped>>

\* promptStarted rejects: nothing was transmitted, and the next turn ensures
\* the session and seeds it again.
PromptDies ==
  /\ turn.stage = "prompt"
  /\ IF turn.abort THEN UNCHANGED left ELSE Spend("agent")
  /\ \E p \in live :
       /\ p.id = turn.id /\ p.phase = "sent"
       /\ EndTurn([conv EXCEPT !.handle = "none",
                     !.status = IF turn.abort THEN "idle" ELSE "failed"],
                  live \ {p})
  /\ UNCHANGED <<host, queue, cmd, held, next, disk, dropped>>

\* A save the turn awaits is committed, or it is rejected and the turn fails
\* without a word to the agent.
TurnSaved ==
  /\ turn.stage \in {"commit", "consume"} /\ Saved("turn")
  /\ IF turn.lost
     THEN EndTurn([conv EXCEPT !.status = "failed"], live)
     ELSE /\ turn' = [turn EXCEPT !.stage = "events"]
          /\ UNCHANGED <<conv, live, tail>>
  /\ UNCHANGED <<host, queue, cmd, held, next, disk, dropped, left>>

ConsumeEvent ==
  /\ turn.stage = "events" /\ turn.touched = {}
  /\ conv.status # "closed" /\ host = "ready"
  /\ \E p \in live : p.id = turn.id /\ p.phase = "work"
  /\ conv' = [conv EXCEPT !.messages = Append(@, next)]
  /\ held' = [held EXCEPT ![turn.key] = @ \cup {next}]
  /\ turn' = [turn EXCEPT !.stage = "consume", !.touched = {next}]
  /\ next' = next + 1
  /\ Persist("turn")
  /\ UNCHANGED <<host, queue, cmd, live, disk, dropped, left>>

\* The stream ends, or an event arrives for a conversation that is closed or
\* a host that is stopping.
EventsEnd ==
  /\ turn.stage = "events"
  /\ ~Running(turn.id) \/ conv.status = "closed" \/ host # "ready"
  /\ conv' = markKnown(conv, turn.touched)
  /\ turn' = [turn EXCEPT !.stage = "result"]
  /\ UNCHANGED <<host, queue, cmd, live, held, next, tail, disk, dropped, left>>

\* Mutant: the turn is over once its events are, without awaiting its result.
ResultUnawaited ==
  /\ turn.stage = "result"
  /\ EndTurn([conv EXCEPT !.status = "idle"], live)
  /\ UNCHANGED <<host, queue, cmd, held, next, disk, dropped, left>>

TurnResult ==
  /\ turn.stage = "result" /\ ~Running(turn.id)
  /\ \E status \in {"idle", "failed"} :
       EndTurn([conv EXCEPT !.status = status], live)
  /\ UNCHANGED <<host, queue, cmd, held, next, disk, dropped, left>>

TurnSettled ==
  /\ turn.stage = "settle" /\ Saved("turn")
  /\ turn' = NoTurn
  /\ UNCHANGED <<host, conv, queue, cmd, live, held, next, tail, disk, dropped,
                 left>>

------------------------------------------------------------------------------
(* The agent runtime, and the user's answers to it.                        *)

AgentAccepts ==
  \E p \in live :
    /\ p.phase = "sent"
    /\ live' = (live \ {p}) \cup {[p EXCEPT !.phase = "work"]}
    /\ held' = [held EXCEPT ![p.key] = @ \cup p.text]
    /\ UNCHANGED <<host, conv, queue, turn, cmd, next, tail, disk, dropped, left>>

\* requestPermission, #requestElicitation: refused for a session nobody owns,
\* while another question is pending, and once the turn was aborted.
AgentAsks ==
  \E p \in live :
    /\ p.phase = "work" /\ ~conv.pending /\ conv.handle # "none"
    /\ ~(turn.id = p.id /\ turn.abort)
    /\ Spend("question")
    /\ conv' = [conv EXCEPT !.pending = TRUE]
    /\ live' = (live \ {p}) \cup {[p EXCEPT !.phase = "asking"]}
    /\ Persist("none")
    /\ UNCHANGED <<host, queue, turn, cmd, held, next, disk, dropped>>

\* permission.resolve and elicitation.resolve are commands like the others.
UserAnswers ==
  /\ Free /\ conv.pending
  /\ conv' = [conv EXCEPT !.pending = FALSE]
  /\ live' = Released(live)
  /\ Persist("none")
  /\ UNCHANGED <<host, queue, turn, cmd, held, next, disk, dropped, left>>

AgentEnds ==
  \E p \in live :
    /\ p.phase = "work"
    /\ live' = live \ {p}
    /\ UNCHANGED <<host, conv, queue, turn, cmd, held, next, tail, disk, dropped,
                   left>>

------------------------------------------------------------------------------
(* The store.  save() writes the transcript first and the index after it.  *)

SaveTranscript ==
  /\ tail # <<>> /\ disk.messages # Head(tail).snapshot.messages
  /\ disk' = [disk EXCEPT !.messages = Head(tail).snapshot.messages]
  /\ UNCHANGED <<host, conv, queue, turn, cmd, live, held, next, tail, dropped,
                 left>>

SaveIndex ==
  /\ tail # <<>> /\ disk.messages = Head(tail).snapshot.messages
  /\ disk' = Head(tail).snapshot
  /\ tail' = Tail(tail)
  /\ UNCHANGED <<host, conv, queue, turn, cmd, live, held, next, dropped, left>>

\* The save rejects: its caller sees it, the tail goes on with the next.
SaveFails ==
  /\ tail # <<>> /\ ~left.sound /\ Spend("save")
  /\ tail' = Tail(tail)
  /\ turn' = [turn EXCEPT !.lost = @ \/ Head(tail).owner = "turn"]
  /\ cmd' = [cmd EXCEPT !.lost = @ \/ Head(tail).owner = "cmd"]
  /\ UNCHANGED <<host, conv, queue, live, held, next, disk, dropped>>

------------------------------------------------------------------------------
(* stop(), asked for over IPC or by a signal, and the death of the host.   *)

stop ==
  /\ host = "ready" /\ Spend("stop")
  /\ host' = "cancelling"
  /\ conv' = [conv EXCEPT !.pending = FALSE]
  /\ turn' = [turn EXCEPT !.abort = Active]
  /\ live' = IF conv.pending THEN Released(live) ELSE live
  /\ IF conv.pending THEN Persist("none") ELSE UNCHANGED tail
  /\ UNCHANGED <<queue, cmd, held, next, disk, dropped>>

StopCancelled ==
  /\ host = "cancelling"
  /\ host' = "draining"
  /\ UNCHANGED <<conv, queue, turn, cmd, live, held, next, tail, disk, dropped,
                 left>>

StopDrained ==
  /\ host = "draining" /\ turn = NoTurn /\ queue = <<>>
  /\ host' = "closing"
  /\ UNCHANGED <<conv, queue, turn, cmd, live, held, next, tail, disk, dropped,
                 left>>

StopClosed ==
  /\ host = "closing"
  /\ host' = "flushing"
  /\ conv' = [conv EXCEPT !.handle = "none"]
  /\ UNCHANGED <<queue, turn, cmd, live, held, next, tail, disk, dropped, left>>

\* The process exits, with whatever a command still had to do.
StopFlushed ==
  /\ host = "flushing" /\ tail = <<>>
  /\ host' = "down"
  /\ queue' = <<>> /\ turn' = NoTurn /\ cmd' = NoCommand /\ live' = {}
  /\ UNCHANGED <<conv, held, next, tail, disk, dropped, left>>

\* The process dies, and a new one restores the conversation.  The agents die
\* with it; their sessions keep what they hold.
Crash ==
  /\ host # "down" /\ Spend("crash")
  /\ host' = "ready"
  /\ conv' = Restored(disk)
  /\ queue' = <<>> /\ turn' = NoTurn /\ cmd' = NoCommand
  /\ live' = {} /\ tail' = <<>>
  /\ UNCHANGED <<held, next, disk, dropped>>

------------------------------------------------------------------------------
Init ==
  /\ host = "ready" /\ conv = Created
  /\ queue = <<>> /\ turn = NoTurn /\ cmd = NoCommand
  /\ live = {} /\ held = [k \in Keys |-> {}] /\ next = 1
  /\ tail = <<>> /\ disk = Stored(Created)
  /\ dropped = {} /\ left \in Settings

\* What the event loop, the disk and a working agent do of themselves.
CommandStep ==
  \/ CommandSaved \/ CancelAcknowledged \/ closeConversation \/ HandleClosed
  \/ ProbeAnswers \/ HandleDetached

TurnStep ==
  \/ SkipTurn \/ DropTurn \/ BeginTurn \/ SessionEnsured \/ PromptConfirmed
  \/ TurnSaved \/ ConsumeEvent \/ EventsEnd \/ TurnResult \/ TurnSettled

StopStep == StopCancelled \/ StopDrained \/ StopClosed \/ StopFlushed

StoreStep == SaveTranscript \/ SaveIndex

UserStep ==
  \/ enqueueMessage \/ cancelTurn("cancel") \/ cancelTurn("close")
  \/ enableMcp \/ disableMcp \/ stop

Failure ==
  RuntimeRefuses \/ EnsureFails \/ PromptDies \/ SaveFails

Next ==
  \/ UserStep \/ CommandStep \/ TurnStep \/ StoreStep \/ StopStep
  \/ AgentAccepts \/ AgentAsks \/ UserAnswers \/ AgentEnds
  \/ Failure \/ Crash

Spec == Init /\ [][Next]_vars

Fairness ==
  /\ WF_vars(CommandStep) /\ WF_vars(TurnStep) /\ WF_vars(StoreStep)
  /\ WF_vars(StopStep) /\ WF_vars(AgentAccepts) /\ WF_vars(AgentEnds)
  /\ SF_vars(UserAnswers)

LiveSpec == Spec /\ Fairness

------------------------------------------------------------------------------
Statuses == {"idle", "queued", "running", "failed", "closed"}

\* Every variable has its type: the shape of ConversationState, of the stored
\* snapshot, of a turn and of a command.
TypeOK ==
  /\ host \in {"ready", "cancelling", "draining", "closing", "flushing", "down"}
  /\ conv.status \in Statuses /\ conv.epoch \in Nat /\ conv.key \in Keys
  /\ conv.mcp \in {"none", "connected", "failed"}
  /\ (conv.mcp = "connected") <=> (conv.key = "mcp")
  /\ conv.handle \in Keys \cup {"none"} /\ conv.pending \in BOOLEAN
  /\ conv.messages \in Seq(Ids) /\ IsInjective(conv.messages)
  /\ conv.known \in [Keys -> SUBSET Ids] /\ held \in [Keys -> SUBSET Ids]
  /\ queue \in Seq([id : Ids, epoch : Nat])
  /\ turn.stage \in {"none", "ensure", "prompt", "commit", "events", "consume",
                     "result", "settle"}
  /\ turn.id \in Ids \cup {0} /\ turn.key \in Keys \cup {"none"}
  /\ turn.seed \subseteq Ids /\ turn.touched \subseteq Ids
  /\ cmd.op \in {"none", "send", "cancel", "close", "enable", "attach", "refuse",
                 "detach"}
  /\ cmd.stage \in {"none", "saving", "cancelling", "closing", "probing",
                    "detaching"}
  /\ live \subseteq [id : Ids, key : Keys, text : SUBSET Ids,
                     phase : {"sent", "work", "asking"}]
  /\ next \in Ids /\ left \in Setting
  /\ \A i \in DOMAIN tail : tail[i].owner \in {"cmd", "turn", "none"}
  /\ disk.status \in Statuses /\ dropped \subseteq Ids

\* The comment on knownByKey: the ids recorded for a session key are messages
\* that agent session really holds, so that none of them is left out of a seed
\* and lost to the agent without a word.  A user who sends while a turn runs
\* can break this: requireSettledForMcpSwitch passes between two turns, and the
\* second one marks its messages under the key the switch has changed.
KnownIsHeld == left.patient => \A k \in Keys : conv.known[k] \subseteq held[k]

\* Once the agent has a turn's prompt, its session holds every earlier message
\* of the transcript, whatever was cancelled, failed, switched or restarted in
\* between; only messages cancelled in the queue, or refused, may be missing.
ContextReachesAgent ==
  left.patient /\ turn.stage \in {"commit", "events", "consume", "result"} =>
    \A i, j \in DOMAIN conv.messages :
      i < j /\ conv.messages[j] = turn.id /\ conv.messages[i] \notin dropped
        => conv.messages[i] \in held[turn.key]

\* The comment on queueEpoch: a turn cancelled while it was queued never
\* executes, however the cancel, the chain and later sends interleave; nor
\* does one whose send was answered with an error.
CancelledNeverRuns ==
  /\ turn.stage \notin {"none", "settle"} => turn.id \notin dropped
  /\ \A p \in live : p.id \notin dropped

\* A second send cannot race an active prompt: no agent session is ever at
\* work on two prompts.  A rejected save breaks this: it ends the turn for the
\* coordinator, while the agent goes on.
OnePromptPerSession == left.sound => \A p, q \in live : p.key = q.key => p = q

\* When an orderly stop has flushed the tail and no command is under way, the
\* next process restores the conversation as it was left: no reply, known id or
\* status change is lost on the way down.  Only that it was closed may be: a
\* close the agent refuses has set the status and saved nothing.
StopSavesAll ==
  left.sound /\ host = "flushing" /\ tail = <<>> /\ cmd = NoCommand =>
    \/ Restored(disk) = Restored(Stored(conv))
    \/ /\ conv.status = "closed"
       /\ Restored([disk EXCEPT !.status = "closed"]) = Restored(Stored(conv))

\* A conversation that is queued or running comes to rest while the host is
\* up: no cancel, close or switch at the wrong await, and no failing agent,
\* leaves it waiting on a turn that is gone.  (A send whose save is rejected
\* does: its message stays queued and no turn is chained.)
TurnsComeToRest ==
  (left.sound /\ conv.status \in {"queued", "running"}) ~>
    (conv.status \notin {"queued", "running"} \/ host # "ready")

\* The agent session has the transcript the coordinator thinks it has.
AgentKnows == KnownIsHeld /\ ContextReachesAgent

\* What the user sees, what the agents do and what the store keeps agree.
ConversationIsSound ==
  TypeOK /\ CancelledNeverRuns /\ OnePromptPerSession /\ StopSavesAll
==============================================================================
