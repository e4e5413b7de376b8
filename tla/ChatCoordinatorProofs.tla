------------------------ MODULE ChatCoordinatorProofs ------------------------
(***************************************************************************)
(* Proofs about ChatCoordinator, for every setting: any number of sends,   *)
(* cancels, closes, switches, questions, failing agents, rejected saves    *)
(* and crashes.                                                            *)
(*                                                                         *)
(* What holds of every user: a message is in one place on its way to the   *)
(* agent, a queued turn whose epoch the conversation has left was dropped, *)
(* and a conversation being closed has only such turns.  Of a patient one: *)
(* what is known or touched is held, and whatever an open session does not *)
(* hold is dropped or still to come, so that a prompt with the seed of its *)
(* turn completes the history.  On a disk that rejects no save: the only   *)
(* prompt at work is the turn's, and between turns the last snapshot       *)
(* queued, or the disk, says what the conversation is.                     *)
(*                                                                         *)
(* Last, the proofs about WorkArchive, the tool results and bytes the same *)
(* coordinator saves.                                                      *)
(***************************************************************************)
EXTENDS ChatCoordinator, WorkArchive, TLAPS

Mcps == {"none", "connected", "failed"}
Handles == Keys \cup {"none"}
Phases == {"sent", "work", "asking"}
Owners == {"cmd", "turn", "none"}
Hosts == {"ready", "cancelling", "draining", "closing", "flushing", "down"}
Stages == {"none", "ensure", "prompt", "commit", "events", "consume", "result", "settle"}
(* The turn's prompt is with the agent, and the agent has confirmed it. *)
Confirmed == {"commit", "events", "consume", "result"}
Started == {"ensure", "prompt", "commit", "events", "consume", "result"}
Ops == {"none", "send", "cancel", "close", "enable", "attach", "refuse", "detach"}
Switches == {"enable", "attach", "refuse", "detach"}

ConvType == [status : Statuses, epoch : Nat, key : Keys, mcp : Mcps,
             handle : Handles, messages : Seq(Ids),
             known : [Keys -> SUBSET Ids], pending : BOOLEAN]
SnapType == [status : Statuses, key : Keys, mcp : Mcps, messages : Seq(Ids),
             known : [Keys -> SUBSET Ids]]
TurnType == [stage : Stages, id : Ids \cup {0}, key : Handles,
             seed : SUBSET Ids, touched : SUBSET Ids, abort : BOOLEAN, lost : BOOLEAN]
CmdStages == {"none", "saving", "cancelling", "closing", "probing", "detaching"}
CmdType == [op : Ops, stage : CmdStages, id : Ids \cup {0}, epoch : Nat, lost : BOOLEAN]
PromptType == [id : Ids, key : Keys, text : SUBSET Ids, phase : Phases]
Entries == [id : Ids, epoch : Nat]
TaskType == [owner : Owners, snapshot : SnapType]

Shape ==
  /\ host \in Hosts
  /\ conv \in ConvType /\ queue \in Seq(Entries)
  /\ turn \in TurnType /\ cmd \in CmdType
  /\ live \subseteq PromptType /\ held \in [Keys -> SUBSET Ids]
  /\ next \in Ids /\ tail \in Seq(TaskType) /\ disk \in SnapType
  /\ dropped \subseteq Ids /\ left \in Setting

(* A conversation or a snapshot of it: ids are used once, have been handed *)
(* out below n, and the MCP's session key goes with the MCP.               *)
Sane(c, n) ==
  /\ IsInjective(c.messages)
  /\ \A i \in DOMAIN c.messages : c.messages[i] < n
  /\ (c.mcp = "connected") <=> (c.key = "mcp")

TextInv ==
  /\ Sane(conv, next) /\ Sane(disk, next)
  /\ \A i \in DOMAIN tail : Sane(tail[i].snapshot, next)

(* Every message is in one place on its way to the agent. *)
IdInv ==
  /\ \A d \in dropped : d < next
  /\ turn.id < next
  /\ turn.stage \in {"ensure", "prompt"} => turn.touched = {}
  /\ turn.stage = "ensure" => \A p \in live : p.id # turn.id
  /\ \A p \in live : p.id < next /\ p.id \notin dropped
  /\ \A i \in DOMAIN queue :
       /\ queue[i].id < next /\ queue[i].id # turn.id /\ queue[i].epoch <= conv.epoch
       /\ \A p \in live : p.id # queue[i].id
       /\ queue[i].id \in dropped \/ queue[i].epoch = conv.epoch
       /\ queue[i].id \notin dropped \/ queue[i].epoch # conv.epoch
  /\ \A i, j \in DOMAIN queue : queue[i].id = queue[j].id => i = j
  /\ turn.stage \in Started => turn.id \notin dropped /\ turn.id # 0
  /\ turn.stage \in Started => turn.key \in Keys

(* A message being sent is nowhere else. *)
SendInv ==
  cmd.op = "send" =>
    /\ cmd.stage = "saving" /\ cmd.id # 0 /\ cmd.id < next /\ cmd.id # turn.id
    /\ cmd.id \notin dropped /\ cmd.epoch = conv.epoch /\ conv.status # "closed"
    /\ \A i \in DOMAIN queue : queue[i].id # cmd.id
    /\ \A p \in live : p.id # cmd.id

(* Once the conversation is being closed, what is queued was cancelled. *)
CloseInv ==
  conv.status = "closed" \/ cmd.op = "close" =>
    \A i \in DOMAIN queue : queue[i].id \in dropped

(* The commands that have these stages. *)
CmdInv ==
  /\ cmd.stage \in {"cancelling", "closing"} => cmd.op \in {"cancel", "close"}
  /\ cmd.stage = "detaching" => cmd.op \in {"attach", "refuse", "detach"}
  /\ cmd.stage = "probing" => cmd.op = "enable"

-----------------------------------------------------------------------------
Outstanding ==
  (IF cmd.op = "send" THEN {cmd.id} ELSE {}) \cup {queue[i].id : i \in DOMAIN queue}
  \cup (IF turn.stage = "prompt" THEN turn.seed \cup {turn.id} ELSE {})

Ends(id) == conv.messages # <<>> /\ conv.messages[Len(conv.messages)] = id

(* The patient user: one message at a time is on its way. *)
OneAtATime ==
  /\ queue # <<>> => turn.stage = "none" /\ cmd.op # "send" /\ Len(queue) = 1
  /\ queue # <<>> => conv.status \in {"queued", "closed"} /\ Ends(queue[1].id)
  /\ cmd.op = "send" => turn.stage = "none" /\ conv.status = "queued" /\ Ends(cmd.id)
  /\ cmd.op \in Switches => queue = <<>> /\ turn.stage \in {"none", "settle"}
  /\ turn.stage = "ensure" => conv.status \in {"running", "closed"}
  /\ turn.stage \in {"ensure", "prompt"} => Ends(turn.id)

Before(extra) ==
  \A i, j \in DOMAIN conv.messages :
    i < j /\ conv.messages[j] = turn.id /\ conv.messages[i] \notin dropped
      => conv.messages[i] \in held[turn.key] \cup extra

KeyInv ==
  /\ conv.handle \in {"none", conv.key}
  /\ turn.stage \in Started => turn.key = conv.key

Backed(c, h) == \A k \in Keys : c.known[k] \subseteq h[k]

HeldInv ==
  /\ Backed(conv, held) /\ Backed(disk, held)
  /\ \A i \in DOMAIN tail : Backed(tail[i].snapshot, held)
  /\ turn.stage \in Started => turn.touched \subseteq held[turn.key]

PromptInv ==
  /\ turn.stage \in {"ensure", "prompt"} => Before(turn.seed)
  /\ turn.stage \in Confirmed => Before({})
  /\ turn.stage = "prompt" =>
       /\ \A p \in live : p.id = turn.id =>
            p.key = turn.key /\ p.text = turn.seed \cup {turn.id}
       /\ (\A p \in live : p.id = turn.id => p.phase # "sent") =>
            turn.seed \cup {turn.id} \subseteq held[turn.key]

SessionInv ==
  host = "ready" /\ conv.handle # "none" =>
    ToSet(conv.messages) \subseteq held[conv.handle] \cup dropped \cup Outstanding

PatientInv == OneAtATime /\ KeyInv /\ HeldInv /\ PromptInv /\ SessionInv

-----------------------------------------------------------------------------
Latest == IF tail = <<>> THEN disk ELSE tail[Len(tail)].snapshot

Settled(s, c) ==
  \/ Restored(s) = Restored(Stored(c))
  \/ c.status = "closed" /\ Restored([s EXCEPT !.status = "closed"]) = Restored(Stored(c))

SoundInv ==
  /\ ~turn.lost
  /\ turn.stage \notin Started \ {"ensure"} => live = {}
  /\ \A p \in live : p.id = turn.id
  /\ \A p, q \in live : p = q
  /\ turn.stage \in {"none", "settle"} => Settled(Latest, conv)

DrainInv == host \in {"closing", "flushing"} => turn.stage = "none"

EnsureInv == turn.stage = "ensure" => conv.handle = "none"

IInv ==
  /\ Shape /\ TextInv /\ IdInv /\ SendInv /\ CloseInv /\ CmdInv /\ DrainInv /\ EnsureInv
  /\ left.patient => PatientInv
  /\ left.sound => SoundInv

-----------------------------------------------------------------------------
(* Effects of a step, field by field. *)
ConvIs(s, e, k, m, h, t, n) ==
  /\ conv'.status = s /\ conv'.epoch = e /\ conv'.key = k /\ conv'.mcp = m
  /\ conv'.handle = h /\ conv'.messages = t /\ conv'.known = n

TurnIs(stage, id, key, seed, touched, lost) ==
  /\ turn'.stage = stage /\ turn'.id = id /\ turn'.key = key
  /\ turn'.seed = seed /\ turn'.touched = touched /\ turn'.lost = lost

CmdIs(op, stage, id, epoch) ==
  cmd'.op = op /\ cmd'.stage = stage /\ cmd'.id = id /\ cmd'.epoch = epoch

SameConv ==
  ConvIs(conv.status, conv.epoch, conv.key, conv.mcp, conv.handle, conv.messages, conv.known)

SameTurn == TurnIs(turn.stage, turn.id, turn.key, turn.seed, turn.touched, turn.lost)

Mode == left'.patient = left.patient /\ left'.sound = left.sound

(* Prompts go on: none is new, those not yet accepted stay. *)
Follows(old, new) ==
  /\ \A q \in new : \E p \in old : p.id = q.id /\ p.key = q.key /\ p.text = q.text
  /\ \A p \in old : p.phase = "sent" => p \in new
  /\ (\A p, q \in old : p = q) => \A p, q \in new : p = q

LEMMA Names ==
  /\ {"idle", "queued", "running", "failed", "closed"} \subseteq Statuses
  /\ "none" \in Handles /\ Keys \subseteq Handles /\ {"plain", "mcp"} \subseteq Keys
  /\ {"none", "connected", "failed"} \subseteq Mcps
  /\ {"none", "ensure", "prompt", "commit", "events", "consume", "result", "settle"}
       \subseteq Stages
  /\ {"none", "send", "cancel", "close", "enable", "attach", "refuse", "detach"} \subseteq Ops
  /\ {"none", "saving", "cancelling", "closing", "probing", "detaching"} \subseteq CmdStages
  /\ {"cmd", "turn", "none"} \subseteq Owners /\ {"sent", "work", "asking"} \subseteq Phases
  /\ {"ready", "cancelling", "draining", "closing", "flushing", "down"} \subseteq Hosts
BY DEF Statuses, Handles, Keys, Mcps, Stages, Ops, CmdStages, Owners, Phases, Hosts

LEMMA Nothing ==
  /\ NoTurn \in TurnType /\ NoTurn.stage = "none" /\ NoTurn.id = 0 /\ NoTurn.lost = FALSE
  /\ NoTurn.touched = {} /\ NoTurn.seed = {} /\ NoTurn.key = "none"
  /\ NoCommand \in CmdType /\ NoCommand.op = "none" /\ NoCommand.stage = "none"
BY Names DEF NoTurn, NoCommand, TurnType, CmdType

LEMMA ReleasedFollows ==
  ASSUME NEW P \in SUBSET PromptType
  PROVE  Released(P) \in SUBSET PromptType /\ Follows(P, Released(P))
<1>1. ASSUME NEW p \in P
      PROVE  /\ [p EXCEPT !.phase = "work"] \in PromptType
             /\ [p EXCEPT !.phase = "work"].id = p.id
             /\ [p EXCEPT !.phase = "work"].key = p.key
             /\ [p EXCEPT !.phase = "work"].text = p.text
  <2>1. p \in PromptType /\ "work" \in Phases
    BY Names
  <2> QED BY <2>1 DEF PromptType
<1>2. ASSUME NEW q \in Released(P)
      PROVE  \E p \in P : /\ q = IF p.phase = "asking" THEN [p EXCEPT !.phase = "work"] ELSE p
                          /\ q \in PromptType /\ p.id = q.id /\ p.key = q.key /\ p.text = q.text
  BY <1>1, <1>2 DEF Released
<1>3. ASSUME NEW p \in P, p.phase = "sent" PROVE p \in Released(P)
  BY <1>3 DEF Released
<1>4. (\A p, q \in P : p = q) => \A p, q \in Released(P) : p = q
  BY DEF Released
<1> QED BY <1>2, <1>3, <1>4 DEF Follows

LEMMA SpendKeeps ==
  ASSUME NEW thing \in Things, left \in Setting, Spend(thing)
  PROVE  left' \in Setting /\ Mode
BY DEF Spend, Setting, Mode

LEMMA StoredType ==
  ASSUME NEW c \in ConvType
  PROVE  /\ Stored(c) \in SnapType
         /\ Stored(c).messages = c.messages /\ Stored(c).key = c.key
         /\ Stored(c).mcp = c.mcp /\ Stored(c).status = c.status
         /\ \A k \in Keys : Stored(c).known[k] = c.known[k] \cap ToSet(c.messages)
<1>1. [k \in Keys |-> c.known[k] \cap ToSet(c.messages)] \in [Keys -> SUBSET Ids]
  BY DEF ConvType
<1> QED BY <1>1 DEF Stored, ConvType, SnapType

(* The persist tail is untouched, or the conversation's snapshot is queued. *)
Pushed ==
  \/ tail' = tail
  \/ \E o \in Owners : Persist(o)

LEMMA TailType ==
  ASSUME Shape, conv' \in ConvType, Pushed
  PROVE  tail' \in Seq(TaskType)
<1>1. CASE tail' = tail
  BY <1>1 DEF Shape
<1>2. ASSUME NEW o \in Owners, Persist(o)
      PROVE  tail' \in Seq(TaskType)
  <2>1. [owner |-> o, snapshot |-> Stored(conv')] \in TaskType
    BY StoredType DEF TaskType
  <2>2. tail \in Seq(TaskType)
    BY DEF Shape
  <2>3. tail' = Append(tail, [owner |-> o, snapshot |-> Stored(conv')])
    BY <1>2 DEF Persist
  <2> QED BY <2>1, <2>2, <2>3
<1> QED BY <1>1, <1>2 DEF Pushed

LEMMA TailIs ==
  ASSUME Shape, NEW o, Persist(o)
  PROVE  /\ Len(tail') = Len(tail) + 1 /\ tail' # <<>>
         /\ DOMAIN tail' = 1..(Len(tail) + 1) /\ DOMAIN tail = 1..Len(tail)
         /\ Len(tail) \in Nat
         /\ \A i \in 1..Len(tail) : tail'[i] = tail[i]
         /\ tail'[Len(tail) + 1].snapshot = Stored(conv')
<1>1. PICK t : t = [owner |-> o, snapshot |-> Stored(conv')]
  OBVIOUS
<1>2. tail \in Seq(TaskType) /\ tail' = Append(tail, t)
  BY <1>1 DEF Shape, Persist
<1>3. t.snapshot = Stored(conv')
  BY <1>1
<1>4. /\ Len(tail') = Len(tail) + 1 /\ tail' # <<>>
      /\ DOMAIN tail' = 1..(Len(tail) + 1) /\ DOMAIN tail = 1..Len(tail)
      /\ Len(tail) \in Nat
      /\ \A i \in 1..Len(tail) : tail'[i] = tail[i]
      /\ tail'[Len(tail) + 1] = t
  BY <1>2
<1> QED BY <1>3, <1>4

LEMMA TaskFields ==
  ASSUME Shape
  PROVE  /\ disk \in SnapType /\ disk.messages \in Seq(Ids)
         /\ \A i \in DOMAIN tail : /\ tail[i] \in TaskType /\ tail[i].snapshot \in SnapType
                                   /\ tail[i].snapshot.messages \in Seq(Ids)
<1>1. disk \in SnapType /\ tail \in Seq(TaskType)
  BY DEF Shape
<1>2. \A i \in DOMAIN tail : tail[i] \in TaskType
  BY <1>1
<1>3. \A t \in TaskType : t.snapshot \in SnapType
  BY DEF TaskType
<1>4. \A s \in SnapType : s.messages \in Seq(Ids)
  BY DEF SnapType
<1> QED BY <1>1, <1>2, <1>3, <1>4

LEMMA SaneGrows ==
  ASSUME NEW c, c.messages \in Seq(Ids), NEW m \in Ids, NEW n \in Ids, m <= n, Sane(c, m)
  PROVE  Sane(c, n)
BY DEF Sane, Ids

LEMMA TextKeeps ==
  ASSUME Shape, Shape', TextInv, Pushed, disk' = disk, next <= next', Sane(conv', next')
  PROVE  TextInv'
<1>0. next \in Ids /\ next' \in Ids /\ disk \in SnapType /\ tail \in Seq(TaskType)
  BY DEF Shape
<1>1. /\ next \in Ids /\ next' \in Ids /\ disk.messages \in Seq(Ids)
      /\ \A i \in DOMAIN tail : tail[i].snapshot.messages \in Seq(Ids)
  BY <1>0, TaskFields
<1>2. Sane(disk, next') /\ \A i \in DOMAIN tail : Sane(tail[i].snapshot, next')
  BY <1>1, SaneGrows DEF TextInv
<1>3. CASE tail' = tail
  BY <1>2, <1>3 DEF TextInv
<1>4. ASSUME NEW o \in Owners, Persist(o)
      PROVE  TextInv'
  <2>1. Sane(Stored(conv'), next')
    <3>1. /\ Stored(conv').messages = conv'.messages /\ Stored(conv').key = conv'.key
          /\ Stored(conv').mcp = conv'.mcp
      BY StoredType DEF Shape
    <3> QED BY <3>1 DEF Sane
  <2>2. \A i \in DOMAIN tail' : Sane(tail'[i].snapshot, next')
    BY <1>2, <1>4, <2>1, TailIs
  <2> QED BY <1>2, <2>2 DEF TextInv
<1> QED BY <1>3, <1>4 DEF Pushed

-----------------------------------------------------------------------------
(* Steps that touch neither the transcript, the queue nor the turn. *)

(* The command loop goes on with something that is no send. *)
CommandGoesOn ==
  \/ cmd' = cmd
  \/ /\ cmd.op # "send" /\ cmd'.op # "send" /\ CmdInv'
     /\ cmd'.op = "close" => cmd.op = "close"
     /\ left.patient /\ cmd'.op \in Switches =>
          queue = <<>> /\ turn.stage \in {"none", "settle"}

Quiet ==
  /\ Shape' /\ Mode /\ SameConv /\ SameTurn /\ Pushed /\ Follows(live, live')
  /\ UNCHANGED <<queue, held, next, disk, dropped>>
  /\ CommandGoesOn
  /\ host' \in {host, "cancelling", "draining"}

LEMMA PushKeeps ==
  ASSUME Shape, Shape', Pushed, disk' = disk,
         Backed(disk, held), \A i \in DOMAIN tail : Backed(tail[i].snapshot, held),
         \A k \in Keys : held[k] \subseteq held'[k], Backed(conv', held')
  PROVE  Backed(disk', held') /\ \A i \in DOMAIN tail' : Backed(tail'[i].snapshot, held')
<1>1. Backed(disk', held') /\ \A i \in DOMAIN tail : Backed(tail[i].snapshot, held')
  BY DEF Backed
<1>2. CASE tail' = tail
  BY <1>1, <1>2
<1>3. ASSUME NEW o \in Owners, Persist(o)
      PROVE  \A i \in DOMAIN tail' : Backed(tail'[i].snapshot, held')
  <2>1. \A k \in Keys : Stored(conv').known[k] \subseteq conv'.known[k]
    BY StoredType DEF Shape
  <2>2. Backed(Stored(conv'), held')
    BY <2>1 DEF Backed
  <2> QED BY <1>1, <1>3, <2>2, TailIs
<1> QED BY <1>1, <1>2, <1>3 DEF Pushed

(* A pushed snapshot is the latest word, and says all. *)
LEMMA PushSettles ==
  ASSUME Shape, NEW o, Persist(o)
  PROVE  Settled(Latest, conv)'
<1>1. Latest' = Stored(conv')
  BY TailIs DEF Latest
<1> QED BY <1>1 DEF Settled

LEMMA SettledStays ==
  ASSUME Shape, Shape', Pushed, disk' = disk, Settled(Latest, conv),
         Stored(conv') = Stored(conv), conv'.status = conv.status
  PROVE  Settled(Latest, conv)'
<1>1. CASE tail' = tail
  BY <1>1 DEF Settled, Latest
<1> QED BY <1>1, PushSettles DEF Pushed

LEMMA QuietKeeps ==
  ASSUME IInv, Quiet
  PROVE  IInv'
<1> USE DEF Quiet
<1>1. Shape /\ Shape' /\ next \in Ids
  BY DEF IInv, Shape
<1>2. TextInv'
  <2>1. Sane(conv', next')
    BY DEF IInv, TextInv, Sane, SameConv, ConvIs
  <2> QED BY <1>1, <2>1, TextKeeps DEF IInv, Ids
<1>3. IdInv'
  BY DEF IInv, IdInv, SameConv, ConvIs, SameTurn, TurnIs, Follows
<1>4. SendInv'
  BY DEF IInv, SendInv, SameConv, ConvIs, SameTurn, TurnIs, Follows, CommandGoesOn
<1>5. CloseInv' /\ CmdInv'
  BY DEF IInv, CloseInv, CmdInv, SameConv, ConvIs, CommandGoesOn
<1>6. DrainInv' /\ EnsureInv'
  BY DEF IInv, DrainInv, EnsureInv, SameConv, ConvIs, SameTurn, TurnIs
<1>7. ASSUME left.patient PROVE PatientInv'
  <2>1. PatientInv
    BY <1>7 DEF IInv
  <2>2. OneAtATime'
    BY <1>7, <2>1 DEF PatientInv, OneAtATime, Ends, SameConv, ConvIs, SameTurn, TurnIs,
                      CommandGoesOn
  <2>3. KeyInv'
    BY <2>1 DEF PatientInv, KeyInv, SameConv, ConvIs, SameTurn, TurnIs
  <2>4. HeldInv'
    <3>1. Backed(conv', held')
      BY <2>1 DEF PatientInv, HeldInv, Backed, SameConv, ConvIs
    <3>2. Backed(disk', held') /\ \A i \in DOMAIN tail' : Backed(tail'[i].snapshot, held')
      BY <1>1, <2>1, <3>1, PushKeeps DEF PatientInv, HeldInv
    <3> QED BY <2>1, <3>1, <3>2 DEF PatientInv, HeldInv, SameTurn, TurnIs
  <2>5. PromptInv'
    BY <2>1 DEF PatientInv, PromptInv, Before, SameConv, ConvIs, SameTurn, TurnIs, Follows
  <2>6. SessionInv'
    <3>1. Outstanding' = Outstanding
      BY DEF Outstanding, SameTurn, TurnIs, CommandGoesOn
    <3> QED BY <2>1, <3>1 DEF PatientInv, SessionInv, SameConv, ConvIs
  <2> QED BY <2>2, <2>3, <2>4, <2>5, <2>6 DEF PatientInv
<1>8. ASSUME left.sound PROVE SoundInv'
  <2>1. SoundInv
    BY <1>8 DEF IInv
  <2>2. Settled(Latest, conv) => Settled(Latest, conv)'
    <3>1. Stored(conv') = Stored(conv)
      BY DEF Stored, SameConv, ConvIs
    <3> QED BY <1>1, <3>1, SettledStays DEF SameConv, ConvIs
  <2> QED BY <2>1, <2>2 DEF SoundInv, SameTurn, TurnIs, Follows
<1> QED BY <1>1, <1>2, <1>3, <1>4, <1>5, <1>6, <1>7, <1>8 DEF IInv, Mode
LEMMA Unmoved ==
  ASSUME Shape
  PROVE  /\ conv' = conv => SameConv
         /\ turn' = turn => SameTurn
         /\ Follows(live, live)
         /\ left' = left => Mode
BY DEF SameConv, ConvIs, SameTurn, TurnIs, Follows, Mode

(* A command that ends here, or starts without touching anything. *)
LEMMA CommandStepsKeep ==
  ASSUME IInv, CancelAcknowledged \/ RuntimeRefuses \/ enableMcp
  PROVE  IInv'
<1>1. Shape
  BY DEF IInv
<1>2. left' \in Setting /\ Mode
  BY <1>1, SpendKeeps, Unmoved DEF Shape, CancelAcknowledged, RuntimeRefuses, enableMcp, Things
<1>3. /\ UNCHANGED <<host, conv, queue, turn, live, held, next, tail, disk, dropped>>
      /\ cmd.op # "send"
  BY Nothing DEF IInv, SendInv, CancelAcknowledged, RuntimeRefuses, enableMcp, Free
<1>4. /\ cmd' \in CmdType /\ cmd'.op # "send" /\ CmdInv'
      /\ cmd'.op = "close" => cmd.op = "close"
      /\ left.patient /\ cmd'.op \in Switches =>
           queue = <<>> /\ turn.stage \in {"none", "settle"}
  <2>1. CASE cmd' = NoCommand
    BY <2>1, Nothing DEF CmdInv, Switches
  <2>2. CASE enableMcp
    <3>1. cmd' \in CmdType /\ cmd'.op = "enable" /\ cmd'.stage = "probing"
      BY <2>2, Names DEF enableMcp, NoCommand, CmdType
    <3>2. /\ turn.stage \notin {"prompt", "commit", "events", "consume", "result"}
          /\ conv.status \notin {"running", "queued", "closed"}
      BY <2>2 DEF enableMcp, requireSettledForMcpSwitch, Active
    <3>3. left.patient => queue = <<>> /\ turn.stage # "ensure"
      BY <3>2 DEF IInv, PatientInv, OneAtATime
    <3>4. turn.stage \in Stages
      BY <1>1 DEF Shape, TurnType
    <3> QED BY <3>1, <3>2, <3>3, <3>4 DEF CmdInv, Stages
  <2> QED BY <2>1, <2>2 DEF CancelAcknowledged, RuntimeRefuses
<1>5. Shape'
  BY <1>1, <1>2, <1>3, <1>4 DEF Shape
<1>6. Quiet
  BY <1>1, <1>2, <1>3, <1>4, <1>5, Unmoved DEF Quiet, Pushed, CommandGoesOn
<1> QED BY <1>6, QuietKeeps

LEMMA PendingFields ==
  ASSUME Shape, NEW b \in BOOLEAN, conv' = [conv EXCEPT !.pending = b]
  PROVE  conv' \in ConvType /\ SameConv
<1>1. conv \in ConvType
  BY DEF Shape
<1> QED BY <1>1 DEF ConvType, SameConv, ConvIs

LEMMA QuestionsKeep ==
  ASSUME IInv, AgentAsks \/ UserAnswers \/ AgentEnds \/ StopCancelled
  PROVE  IInv'
<1>1. Shape /\ live \in SUBSET PromptType
  BY DEF IInv, Shape
<1>2. left' \in Setting /\ Mode
  BY <1>1, SpendKeeps, Unmoved
  DEF Shape, AgentAsks, UserAnswers, AgentEnds, StopCancelled, Things
<1>3. /\ UNCHANGED <<cmd, queue, turn, held, next, disk, dropped>>
      /\ host' \in {host, "draining"}
  BY DEF AgentAsks, UserAnswers, AgentEnds, StopCancelled
<1>4. conv' \in ConvType /\ SameConv
  BY <1>1, PendingFields, Unmoved DEF Shape, AgentAsks, UserAnswers, AgentEnds, StopCancelled
<1>5. Pushed
  BY Names DEF Pushed, AgentAsks, UserAnswers, AgentEnds, StopCancelled
<1>6. live' \in SUBSET PromptType /\ Follows(live, live')
  <2>1. CASE AgentAsks
    <3>1. PICK p \in live : /\ p.phase = "work"
                            /\ live' = (live \ {p}) \cup {[p EXCEPT !.phase = "asking"]}
      BY <2>1 DEF AgentAsks
    <3>2. PICK q : q = [p EXCEPT !.phase = "asking"]
      OBVIOUS
    <3>3. p \in PromptType /\ "asking" \in Phases
      BY <1>1, Names
    <3>4. q \in PromptType /\ q.id = p.id /\ q.key = p.key /\ q.text = p.text
      BY <3>2, <3>3 DEF PromptType
    <3> QED BY <1>1, <3>1, <3>2, <3>4 DEF Follows
  <2>2. CASE UserAnswers
    BY <1>1, <2>2, ReleasedFollows DEF UserAnswers
  <2>3. CASE AgentEnds
    BY <1>1, <2>3 DEF AgentEnds, Follows
  <2>4. CASE StopCancelled
    BY <1>1, <2>4, Unmoved DEF StopCancelled
  <2> QED BY <2>1, <2>2, <2>3, <2>4
<1>7. Shape'
  <2>1. host' \in Hosts
    BY <1>1, <1>3, Names DEF Shape
  <2> QED BY <1>1, <1>2, <1>3, <1>4, <1>5, <1>6, <2>1, TailType DEF Shape
<1>8. Quiet
  BY <1>1, <1>2, <1>3, <1>4, <1>5, <1>6, <1>7, Unmoved DEF Quiet, CommandGoesOn
<1> QED BY <1>8, QuietKeeps

LEMMA AbortFields ==
  ASSUME IInv, turn' = [turn EXCEPT !.abort = Active]
  PROVE  turn' \in TurnType /\ SameTurn
<1>1. PICK a : a = Active
  OBVIOUS
<1>2. a \in BOOLEAN
  BY <1>1 DEF Active
<1>3. turn \in TurnType /\ turn' = [turn EXCEPT !.abort = a]
  BY <1>1 DEF IInv, Shape
<1> QED BY <1>2, <1>3 DEF TurnType, SameTurn, TurnIs

LEMMA StopKeeps ==
  ASSUME IInv, stop
  PROVE  IInv'
<1>1. Shape /\ live \in SUBSET PromptType
  BY DEF IInv, Shape
<1>2. left' \in Setting /\ Mode
  BY <1>1, SpendKeeps DEF Shape, stop, Things
<1>3. UNCHANGED <<cmd, queue, held, next, disk, dropped>> /\ host' = "cancelling"
  BY DEF stop
<1>4. conv' \in ConvType /\ SameConv
  BY <1>1, PendingFields DEF stop
<1>5. turn' \in TurnType /\ SameTurn
  BY AbortFields DEF stop
<1>6. Pushed
  BY Names DEF Pushed, stop
<1>7. live' \in SUBSET PromptType /\ Follows(live, live')
  BY <1>1, ReleasedFollows, Unmoved DEF stop
<1>8. Shape'
  BY <1>1, <1>2, <1>3, <1>4, <1>5, <1>6, <1>7, TailType, Names DEF Shape
<1>9. Quiet
  BY <1>1, <1>2, <1>3, <1>4, <1>5, <1>6, <1>7, <1>8 DEF Quiet, CommandGoesOn
<1> QED BY <1>9, QuietKeeps
-----------------------------------------------------------------------------
(* The turn and its prompts. *)

(* c is the conversation with another status and handle. *)
Restated(c, s, h) ==
  /\ c \in ConvType /\ c.status = s /\ c.handle = h
  /\ c.epoch = conv.epoch /\ c.key = conv.key /\ c.mcp = conv.mcp
  /\ c.messages = conv.messages /\ c.known = conv.known

LEMMA EndTurnKeeps ==
  ASSUME IInv, NEW c, NEW s \in {"idle", "failed"}, NEW h \in {conv.handle, "none"},
         NEW P \in SUBSET live, Restated(c, s, h), EndTurn(c, P),
         turn.stage \in Started, turn.stage \in {"ensure", "prompt"} => h = "none",
         left.sound => P = {}, left' \in Setting, Mode,
         UNCHANGED <<host, queue, cmd, held, next, disk, dropped>>
  PROVE  IInv'
<1>1. Shape /\ live \in SUBSET PromptType /\ conv \in ConvType /\ turn \in TurnType /\ next \in Ids
  BY DEF IInv, Shape
<1>2. conv' \in ConvType /\ ConvIs(s, conv.epoch, conv.key, conv.mcp, h, conv.messages, conv.known)
  <2>1. c \in ConvType /\ conv' = [c EXCEPT !.pending = FALSE]
    BY DEF EndTurn, Restated
  <2>2. /\ conv' \in ConvType
        /\ ConvIs(c.status, c.epoch, c.key, c.mcp, c.handle, c.messages, c.known)
    BY <2>1 DEF ConvType, ConvIs
  <2> QED BY <2>2 DEF ConvIs, Restated
<1>3. turn' \in TurnType /\ TurnIs("settle", turn.id, turn.key, turn.seed, turn.touched, FALSE)
  <2>1. turn' = [turn EXCEPT !.stage = "settle", !.abort = FALSE, !.lost = FALSE]
    BY DEF EndTurn
  <2> QED BY <1>1, <2>1, Names DEF TurnType, TurnIs
<1>4. live' \in SUBSET PromptType /\ Follows(P, live') /\ (P = {} => live' = {})
  <2>1. P \in SUBSET PromptType /\ Follows(P, P)
    BY <1>1 DEF Follows
  <2>2. live' \in {P, Released(P)}
    BY DEF EndTurn
  <2>3. Released({}) = {}
    BY DEF Released
  <2> QED BY <2>1, <2>2, <2>3, ReleasedFollows
<1>5. Pushed /\ Persist("turn")
  BY Names DEF Pushed, EndTurn
<1>6. Shape'
  BY <1>1, <1>2, <1>3, <1>4, <1>5, TailType DEF Shape
<1>7. TextInv'
  <2>1. Sane(conv', next')
    BY <1>2 DEF IInv, TextInv, Sane, ConvIs
  <2> QED BY <1>1, <1>5, <1>6, <2>1, TextKeeps DEF IInv, Ids
<1>8. IdInv'
  <2>1. \A q \in live' : \E p \in live : p.id = q.id
    BY <1>4 DEF Follows
  <2> QED BY <1>2, <1>3, <2>1 DEF IInv, IdInv, ConvIs, TurnIs, Started
<1>9. SendInv'
  <2>1. \A q \in live' : \E p \in live : p.id = q.id
    BY <1>4 DEF Follows
  <2> QED BY <1>2, <1>3, <2>1 DEF IInv, SendInv, ConvIs, TurnIs
<1>10. CloseInv' /\ CmdInv' /\ DrainInv' /\ EnsureInv'
  BY <1>2, <1>3 DEF IInv, CloseInv, CmdInv, DrainInv, EnsureInv, ConvIs, TurnIs, Started
<1>11. ASSUME left.patient PROVE PatientInv'
  <2>1. PatientInv
    BY <1>11 DEF IInv
  <2>2. queue = <<>> /\ cmd.op # "send"
    BY <2>1, Nothing DEF PatientInv, OneAtATime, Started
  <2>3. OneAtATime'
    BY <1>3, <2>1, <2>2 DEF PatientInv, OneAtATime, TurnIs
  <2>4. KeyInv'
    BY <1>2, <1>3, <2>1 DEF PatientInv, KeyInv, ConvIs, TurnIs, Started
  <2>5. HeldInv'
    <3>1. Backed(conv', held')
      BY <1>2, <2>1 DEF PatientInv, HeldInv, Backed, ConvIs
    <3>2. Backed(disk', held') /\ \A i \in DOMAIN tail' : Backed(tail'[i].snapshot, held')
      BY <1>1, <1>5, <1>6, <2>1, <3>1, PushKeeps DEF PatientInv, HeldInv
    <3> QED BY <1>3, <3>1, <3>2 DEF HeldInv, TurnIs, Started
  <2>6. PromptInv'
    BY <1>3 DEF PromptInv, TurnIs, Confirmed
  <2>7. SessionInv'
    <3>1. SUFFICES ASSUME host = "ready", h # "none" PROVE SessionInv'
      BY <1>2 DEF SessionInv, ConvIs
    <3>2. turn.stage # "prompt" /\ h = conv.handle
      BY <3>1
    <3>3. Outstanding' = Outstanding
      BY <1>3, <3>2 DEF Outstanding, TurnIs
    <3> QED BY <1>2, <2>1, <3>1, <3>2, <3>3 DEF PatientInv, SessionInv, ConvIs
  <2> QED BY <2>3, <2>4, <2>5, <2>6, <2>7 DEF PatientInv
<1>12. ASSUME left.sound PROVE SoundInv'
  <2>1. Settled(Latest, conv)'
    BY <1>1, <1>5, PushSettles
  <2> QED BY <1>3, <1>4, <1>12, <2>1 DEF SoundInv, TurnIs
<1> QED BY <1>6, <1>7, <1>8, <1>9, <1>10, <1>11, <1>12 DEF IInv, Mode

LEMMA EnsureFailsKeeps ==
  ASSUME IInv, EnsureFails
  PROVE  IInv'
<1>1. conv \in ConvType /\ left \in Setting
  BY DEF IInv, Shape
<1>2. PICK c : c = [conv EXCEPT !.status = "failed", !.handle = "none"]
  OBVIOUS
<1>3. Restated(c, "failed", "none")
  BY <1>1, <1>2, Names DEF Restated, ConvType
<1>4. EndTurn(c, live) /\ UNCHANGED <<host, queue, cmd, held, next, disk, dropped>>
  BY <1>2 DEF EnsureFails
<1>5. left' \in Setting /\ Mode
  BY <1>1, SpendKeeps DEF EnsureFails, Things
<1>6. turn.stage = "ensure" /\ turn.stage \in Started /\ (left.sound => live = {})
  BY DEF EnsureFails, Started, IInv, SoundInv
<1> QED BY <1>3, <1>4, <1>5, <1>6, EndTurnKeeps

LEMMA PromptDiesKeeps ==
  ASSUME IInv, PromptDies
  PROVE  IInv'
<1>1. conv \in ConvType /\ left \in Setting
  BY DEF IInv, Shape
<1>2. PICK s : s = IF turn.abort THEN "idle" ELSE "failed"
  OBVIOUS
<1>3. PICK c : c = [conv EXCEPT !.handle = "none", !.status = s]
  OBVIOUS
<1>4. s \in {"idle", "failed"} /\ Restated(c, s, "none")
  BY <1>1, <1>2, <1>3, Names DEF Restated, ConvType
<1>5. PICK p \in live : p.id = turn.id /\ EndTurn(c, live \ {p})
  BY <1>2, <1>3 DEF PromptDies
<1>6. left' \in Setting /\ Mode
  BY <1>1, SpendKeeps DEF PromptDies, Things, Mode
<1>7. /\ turn.stage = "prompt" /\ turn.stage \in Started
      /\ UNCHANGED <<host, queue, cmd, held, next, disk, dropped>>
  BY DEF PromptDies, Started
<1>8. left.sound => live \ {p} = {}
  BY <1>5 DEF IInv, SoundInv
<1>9. live \ {p} \in SUBSET live
  OBVIOUS
<1> QED BY <1>4, <1>5, <1>6, <1>7, <1>8, <1>9, EndTurnKeeps

LEMMA TurnResultKeeps ==
  ASSUME IInv, TurnResult
  PROVE  IInv'
<1>1. conv \in ConvType /\ left' \in Setting /\ Mode
  BY DEF IInv, Shape, TurnResult, Mode
<1>2. PICK s \in {"idle", "failed"} : EndTurn([conv EXCEPT !.status = s], live)
  BY DEF TurnResult
<1>3. PICK c : c = [conv EXCEPT !.status = s]
  OBVIOUS
<1>4. Restated(c, s, conv.handle) /\ EndTurn(c, live)
  BY <1>1, <1>2, <1>3, Names DEF Restated, ConvType
<1>5. /\ turn.stage = "result" /\ turn.stage \in Started /\ ~Running(turn.id)
      /\ UNCHANGED <<host, queue, cmd, held, next, disk, dropped>>
  BY DEF TurnResult, Started
<1>6. left.sound => live = {}
  BY <1>5 DEF IInv, SoundInv, Running
<1> QED BY <1>1, <1>4, <1>5, <1>6, EndTurnKeeps
-----------------------------------------------------------------------------
(* Turns leave the queue. *)

LEMMA QueueTail ==
  ASSUME Shape, queue # <<>>
  PROVE  /\ 1 \in DOMAIN queue /\ Head(queue) = queue[1] /\ Head(queue) \in Entries
         /\ Tail(queue) \in Seq(Entries)
         /\ \A i \in DOMAIN Tail(queue) :
              i + 1 \in DOMAIN queue /\ Tail(queue)[i] = queue[i + 1] /\ i + 1 # 1
         /\ Len(queue) = 1 => Tail(queue) = <<>> /\ DOMAIN queue = {1}
<1>1. queue \in Seq(Entries)
  BY DEF Shape
<1>2. /\ Len(queue) \in Nat /\ Len(queue) >= 1 /\ DOMAIN queue = 1..Len(queue)
      /\ Head(queue) = queue[1] /\ Head(queue) \in Entries
  BY <1>1
<1>3. /\ Tail(queue) \in Seq(Entries) /\ DOMAIN Tail(queue) = 1..(Len(queue) - 1)
      /\ \A i \in 1..(Len(queue) - 1) : Tail(queue)[i] = queue[i + 1]
  BY <1>1
<1>4. Len(queue) = 1 => Tail(queue) = <<>>
  <2>1. Len(Tail(queue)) = Len(queue) - 1
    BY <1>1, <1>2
  <2> QED BY <1>2, <1>3, <2>1
<1> QED BY <1>2, <1>3, <1>4

LEMMA EntryFields ==
  ASSUME Shape
  PROVE  \A i \in DOMAIN queue : queue[i].id \in Ids /\ queue[i].epoch \in Nat
<1>1. queue \in Seq(Entries)
  BY DEF Shape
<1>2. \A i \in DOMAIN queue : queue[i] \in Entries
  BY <1>1
<1> QED BY <1>2 DEF Entries

LEMMA SkipTurnKeeps ==
  ASSUME IInv, SkipTurn
  PROVE  IInv'
<1>1. /\ Shape /\ queue # <<>> /\ turn = NoTurn /\ queue' = Tail(queue)
      /\ UNCHANGED <<host, conv, turn, cmd, live, held, next, tail, disk, dropped, left>>
  BY DEF IInv, SkipTurn
<1>2. Shape'
  BY <1>1, QueueTail DEF Shape
<1>3. TextInv' /\ SendInv' /\ CmdInv' /\ DrainInv' /\ EnsureInv' /\ CloseInv'
  BY <1>1, QueueTail DEF IInv, TextInv, SendInv, CmdInv, DrainInv, EnsureInv, CloseInv
<1>4. IdInv'
  <2>1. \A i, j \in DOMAIN queue' : queue'[i].id = queue'[j].id => i = j
    <3>1. SUFFICES ASSUME NEW i \in DOMAIN queue', NEW j \in DOMAIN queue',
                          queue'[i].id = queue'[j].id
                   PROVE  i = j
      OBVIOUS
    <3>2. i + 1 = j + 1
      BY <1>1, <3>1, QueueTail DEF IInv, IdInv
    <3>3. i \in Nat /\ j \in Nat
      BY <1>1, <1>2, <3>1 DEF Shape
    <3> QED BY <3>2, <3>3
  <2>2. \A i \in DOMAIN queue' : i + 1 \in DOMAIN queue /\ queue'[i] = queue[i + 1]
    BY <1>1, QueueTail
  <2> QED BY <1>1, <2>1, <2>2 DEF IInv, IdInv
<1>5. ASSUME left.patient PROVE PatientInv'
  <2>1. PatientInv
    BY <1>5 DEF IInv
  <2>2. queue' = <<>> /\ DOMAIN queue = {1} /\ DOMAIN queue' = {}
    BY <1>1, <2>1, QueueTail DEF PatientInv, OneAtATime
  <2>3. OneAtATime'
    BY <1>1, <2>1, <2>2 DEF PatientInv, OneAtATime, Ends
  <2>4. KeyInv' /\ HeldInv' /\ PromptInv'
    BY <1>1, <2>1 DEF PatientInv, KeyInv, HeldInv, PromptInv, Before
  <2>5. SessionInv'
    <3>1. SUFFICES ASSUME host = "ready" PROVE SessionInv'
      BY <1>1 DEF SessionInv
    <3>2. queue[1].id \in dropped
      <4>1. conv.status = "closed" \/ queue[1].epoch # conv.epoch
        BY <1>1, <3>1, QueueTail DEF SkipTurn, Stale
      <4> QED BY <1>1, <4>1, QueueTail DEF IInv, CloseInv, IdInv
    <3>3. Outstanding \subseteq Outstanding' \cup dropped
      BY <1>1, <2>2, <3>2 DEF Outstanding
    <3> QED BY <1>1, <2>1, <3>3 DEF PatientInv, SessionInv
  <2> QED BY <2>3, <2>4, <2>5 DEF PatientInv
<1>6. left.sound => SoundInv'
  BY <1>1 DEF IInv, SoundInv, Settled, Latest
<1> QED BY <1>1, <1>2, <1>3, <1>4, <1>5, <1>6 DEF IInv

(* The queue without its head. *)
LEMMA HeadLeaves ==
  ASSUME IInv, queue # <<>>, queue' = Tail(queue)
  PROVE  /\ queue' \in Seq(Entries)
         /\ \A i, j \in DOMAIN queue' : queue'[i].id = queue'[j].id => i = j
         /\ \A i \in DOMAIN queue' : /\ \E j \in DOMAIN queue : queue'[i] = queue[j]
                                     /\ queue'[i].id # Head(queue).id
         /\ \E j \in DOMAIN queue : Head(queue) = queue[j]
         /\ Head(queue).id \in Ids /\ Head(queue).epoch \in Nat
         /\ left.patient => /\ queue' = <<>> /\ DOMAIN queue' = {} /\ Head(queue) = queue[1]
                            /\ {queue[i].id : i \in DOMAIN queue} = {Head(queue).id}
                            /\ turn.stage = "none" /\ cmd.op # "send" /\ cmd.op \notin Switches
                            /\ Ends(Head(queue).id)
<1>1. Shape
  BY DEF IInv
<1>2. queue' \in Seq(Entries) /\ DOMAIN queue' \subseteq Nat
  BY <1>1, QueueTail
<1>3. \A i \in DOMAIN queue' : i + 1 \in DOMAIN queue /\ queue'[i] = queue[i + 1] /\ i + 1 # 1
  BY <1>1, QueueTail
<1>4. 1 \in DOMAIN queue /\ Head(queue) = queue[1]
  BY <1>1, QueueTail
<1>5. \A i, j \in DOMAIN queue : queue[i].id = queue[j].id => i = j
  BY DEF IInv, IdInv
<1>6. \A i, j \in DOMAIN queue' : queue'[i].id = queue'[j].id => i = j
  BY <1>2, <1>3, <1>5
<1>7. \A i \in DOMAIN queue' : queue'[i].id # Head(queue).id
  BY <1>3, <1>4, <1>5
<1>8. Head(queue).id \in Ids /\ Head(queue).epoch \in Nat
  BY <1>1, <1>4, EntryFields
<1>9. ASSUME left.patient
      PROVE  /\ queue' = <<>> /\ DOMAIN queue' = {}
             /\ {queue[i].id : i \in DOMAIN queue} = {Head(queue).id}
             /\ turn.stage = "none" /\ cmd.op # "send" /\ cmd.op \notin Switches
             /\ Ends(Head(queue).id)
  <2>1. /\ Len(queue) = 1 /\ turn.stage = "none" /\ cmd.op # "send" /\ Ends(queue[1].id)
        /\ cmd.op \notin Switches
    BY <1>9 DEF IInv, PatientInv, OneAtATime
  <2>2. queue' = <<>> /\ DOMAIN queue = {1}
    BY <1>1, <2>1, QueueTail
  <2> QED BY <1>4, <2>1, <2>2
<1> QED BY <1>2, <1>3, <1>4, <1>6, <1>7, <1>8, <1>9

LEMMA DropTurnKeeps ==
  ASSUME IInv, DropTurn
  PROVE  IInv'
<1>1. /\ Shape /\ queue # <<>> /\ turn = NoTurn /\ queue' = Tail(queue) /\ host = "ready"
      /\ UNCHANGED <<host, cmd, live, held, next, disk, dropped, left>>
      /\ next \in Ids
  BY DEF IInv, DropTurn, Shape
<1>2. conv' \in ConvType /\ ConvIs("idle", conv.epoch, conv.key, conv.mcp, conv.handle,
                                   conv.messages, conv.known)
  <2>1. conv \in ConvType /\ conv' = [conv EXCEPT !.status = "idle"]
    BY <1>1 DEF Shape, DropTurn
  <2> QED BY <2>1, Names DEF ConvType, ConvIs
<1>3. turn' \in TurnType /\ TurnIs("settle", Head(queue).id, "none", {}, {}, FALSE)
  <2>1. Head(queue).id \in Ids
    BY <1>1, HeadLeaves
  <2>2. turn' = [NoTurn EXCEPT !.stage = "settle", !.id = Head(queue).id]
    BY DEF DropTurn
  <2> QED BY <2>1, <2>2, Names DEF NoTurn, TurnType, TurnIs
<1>4. Persist("turn") /\ Pushed
  BY Names DEF DropTurn, Pushed
<1>5. Shape'
  BY <1>1, <1>2, <1>3, <1>4, TailType, HeadLeaves DEF Shape
<1>6. TextInv'
  <2>1. Sane(conv', next')
    BY <1>1, <1>2 DEF IInv, TextInv, Sane, ConvIs
  <2> QED BY <1>1, <1>4, <1>5, <2>1, TextKeeps DEF IInv, Ids
<1>7. Head(queue).id < next /\ Head(queue).id \in dropped /\ Head(queue).id # 0
  <2>1. Head(queue).epoch # conv.epoch
    BY DEF DropTurn, Stale
  <2> QED BY <1>1, <2>1, HeadLeaves DEF IInv, IdInv, Ids
<1>8. IdInv'
  <2>1. /\ \A i, j \in DOMAIN queue' : queue'[i].id = queue'[j].id => i = j
        /\ \A i \in DOMAIN queue' : /\ \E j \in DOMAIN queue : queue'[i] = queue[j]
                                    /\ queue'[i].id # Head(queue).id
    BY <1>1, HeadLeaves
  <2> QED BY <1>1, <1>2, <1>3, <1>7, <2>1 DEF IInv, IdInv, ConvIs, TurnIs, Started
<1>9. SendInv' /\ CloseInv'
  <2>1. \A i \in DOMAIN queue' : \E j \in DOMAIN queue : queue'[i] = queue[j]
    BY <1>1, HeadLeaves
  <2>2. \E j \in DOMAIN queue : Head(queue) = queue[j]
    BY <1>1, HeadLeaves
  <2> QED BY <1>1, <1>2, <1>3, <2>1, <2>2 DEF IInv, SendInv, CloseInv, ConvIs, TurnIs
<1>10. CmdInv' /\ DrainInv' /\ EnsureInv'
  BY <1>1, <1>3 DEF IInv, CmdInv, DrainInv, EnsureInv, TurnIs
<1>11. ASSUME left.patient PROVE PatientInv'
  <2>1. PatientInv
    BY <1>11 DEF IInv
  <2>2. /\ queue' = <<>> /\ DOMAIN queue' = {} /\ cmd.op # "send" /\ cmd.op \notin Switches
        /\ {queue[i].id : i \in DOMAIN queue} = {Head(queue).id}
    BY <1>1, <1>11, HeadLeaves
  <2>3. OneAtATime'
    BY <1>1, <1>3, <2>2 DEF OneAtATime, TurnIs
  <2>4. KeyInv' /\ PromptInv'
    BY <1>2, <1>3, <2>1 DEF PatientInv, KeyInv, PromptInv, ConvIs, TurnIs, Started, Confirmed
  <2>5. HeldInv'
    <3>1. Backed(conv', held')
      BY <1>1, <1>2, <2>1 DEF PatientInv, HeldInv, Backed, ConvIs
    <3>2. Backed(disk', held') /\ \A i \in DOMAIN tail' : Backed(tail'[i].snapshot, held')
      BY <1>1, <1>4, <1>5, <2>1, <3>1, PushKeeps DEF PatientInv, HeldInv
    <3> QED BY <1>3, <3>1, <3>2 DEF HeldInv, TurnIs
  <2>6. SessionInv'
    <3>1. Outstanding \subseteq dropped
      BY <1>1, <1>7, <2>2, Nothing DEF Outstanding
    <3> QED BY <1>1, <1>2, <2>1, <3>1 DEF PatientInv, SessionInv, ConvIs
  <2> QED BY <2>3, <2>4, <2>5, <2>6 DEF PatientInv
<1>12. ASSUME left.sound PROVE SoundInv'
  <2>1. Settled(Latest, conv)'
    BY <1>1, <1>4, PushSettles
  <2>2. live = {}
    BY <1>1, <1>12, Nothing DEF IInv, SoundInv, Started
  <2> QED BY <1>1, <1>3, <2>1, <2>2 DEF SoundInv, TurnIs
<1> QED BY <1>1, <1>5, <1>6, <1>8, <1>9, <1>10, <1>11, <1>12 DEF IInv
LEMMA BeginTurnKeeps ==
  ASSUME IInv, BeginTurn
  PROVE  IInv'
<1> DEFINE id == Head(queue).id
           fresh == conv.handle = "none"
           key == IF fresh THEN conv.key ELSE conv.handle
           seed == IF fresh THEN seedContextFor(conv, id) ELSE {}
           stage == IF fresh THEN "ensure" ELSE "prompt"
           prompt == [id |-> id, key |-> conv.handle, text |-> {id}, phase |-> "sent"]
<1>1. /\ Shape /\ queue # <<>> /\ turn = NoTurn /\ queue' = Tail(queue) /\ host = "ready"
      /\ UNCHANGED <<host, cmd, held, next, tail, disk, dropped, left>>
      /\ conv \in ConvType /\ live \subseteq PromptType /\ next \in Ids
  BY DEF IInv, BeginTurn, Shape
<1>2. conv' \in ConvType /\ ConvIs("running", conv.epoch, conv.key, conv.mcp, conv.handle,
                                   conv.messages, conv.known)
  <2>1. conv' = [conv EXCEPT !.status = "running"]
    BY DEF BeginTurn
  <2> QED BY <1>1, <2>1, Names DEF ConvType, ConvIs
<1>3. /\ conv.handle \in Handles /\ conv.key \in Keys /\ conv.messages \in Seq(Ids)
      /\ conv.known \in [Keys -> SUBSET Ids] /\ id \in Ids
  BY <1>1, HeadLeaves DEF ConvType
<1>4. key \in Keys /\ seed \in SUBSET Ids
  <2>1. seedContextFor(conv, id) \in SUBSET Ids
    BY <1>3 DEF seedContextFor
  <2> QED BY <1>3, <2>1 DEF Handles
<1>5. turn' \in TurnType /\ TurnIs(stage, id, key, seed, {}, FALSE)
  <2>1. CASE fresh
    <3>1. turn' = [NoTurn EXCEPT !.stage = "ensure", !.id = id, !.key = conv.key,
                                 !.seed = seedContextFor(conv, id)]
      BY <2>1 DEF BeginTurn
    <3>2. conv.key \in Handles /\ seedContextFor(conv, id) \in SUBSET Ids
      BY <1>3, <1>4, <2>1, Names
    <3>3. /\ turn' \in TurnType
          /\ TurnIs("ensure", id, conv.key, seedContextFor(conv, id), {}, FALSE)
      BY <1>3, <3>1, <3>2, Names DEF NoTurn, TurnType, TurnIs
    <3> QED BY <2>1, <3>3
  <2>2. CASE ~fresh
    <3>1. turn' = [NoTurn EXCEPT !.stage = "prompt", !.id = id, !.key = conv.handle]
      BY <2>2 DEF BeginTurn
    <3>2. turn' \in TurnType /\ TurnIs("prompt", id, conv.handle, {}, {}, FALSE)
      BY <1>3, <3>1, Names DEF NoTurn, TurnType, TurnIs
    <3> QED BY <2>2, <3>2
  <2> QED BY <2>1, <2>2
<1>6. /\ live' = IF fresh THEN live ELSE live \cup {prompt}
      /\ ~fresh => /\ prompt \in PromptType /\ prompt.id = id /\ prompt.key = conv.handle
                   /\ prompt.text = {id} /\ prompt.phase = "sent"
  <2>1. ~fresh => prompt \in PromptType
    BY <1>3, Names DEF PromptType, Handles
  <2> QED BY <2>1 DEF BeginTurn
<1>7. Shape'
  BY <1>1, <1>2, <1>5, <1>6, HeadLeaves DEF Shape
<1>8. TextInv'
  BY <1>1, <1>2 DEF IInv, TextInv, Sane, ConvIs
<1>9. PICK n \in DOMAIN queue : Head(queue) = queue[n]
  BY <1>1, HeadLeaves
<1>10. Head(queue).epoch = conv.epoch
  BY DEF BeginTurn, Stale
<1>11. id < next /\ id \notin dropped /\ id # 0 /\ \A p \in live : p.id # id
  BY <1>3, <1>9, <1>10 DEF IInv, IdInv, Ids
<1>12. /\ \A i, j \in DOMAIN queue' : queue'[i].id = queue'[j].id => i = j
       /\ \A i \in DOMAIN queue' : (\E j \in DOMAIN queue : queue'[i] = queue[j])
                                   /\ queue'[i].id # id
  BY <1>1, HeadLeaves
<1>13. \A q \in live' : q \in live \/ (~fresh /\ q = prompt /\ q.id = id)
  BY <1>6
<1> HIDE DEF id, key, seed, stage, prompt
<1>14. IdInv'
  BY <1>1, <1>2, <1>4, <1>5, <1>11, <1>12, <1>13
  DEF IInv, IdInv, ConvIs, TurnIs, Started, stage
<1>15. SendInv' /\ CloseInv'
  <2>1. cmd.op = "send" => cmd.id # id
    BY <1>9 DEF IInv, SendInv, id
  <2>2. cmd.op = "send" => SendInv'
    BY <1>1, <1>2, <1>5, <1>12, <1>13, <2>1 DEF IInv, SendInv, ConvIs, TurnIs
  <2>3. SendInv'
    BY <1>1, <2>2 DEF SendInv
  <2>4. CloseInv'
    BY <1>1, <1>2, <1>12 DEF IInv, CloseInv, ConvIs
  <2> QED BY <2>3, <2>4
<1>16. CmdInv' /\ DrainInv' /\ EnsureInv'
  BY <1>1, <1>2, <1>5 DEF IInv, CmdInv, DrainInv, EnsureInv, ConvIs, TurnIs, stage
<1>17. ASSUME left.patient PROVE PatientInv'
  <2>1. PatientInv
    BY <1>17 DEF IInv
  <2>2. /\ queue' = <<>> /\ DOMAIN queue' = {} /\ cmd.op # "send" /\ cmd.op \notin Switches
        /\ {queue[i].id : i \in DOMAIN queue} = {id} /\ Ends(id)
    BY <1>1, <1>17, HeadLeaves DEF id
  <2>3. OneAtATime'
    BY <1>1, <1>2, <1>5, <2>2 DEF OneAtATime, ConvIs, TurnIs, Ends
  <2>4. key = conv.key /\ (~fresh => conv.handle = key)
    BY <2>1 DEF PatientInv, KeyInv, key
  <2>5. KeyInv'
    BY <1>2, <1>5, <2>1, <2>4 DEF PatientInv, KeyInv, ConvIs, TurnIs
  <2>6. HeldInv'
    BY <1>1, <1>2, <1>5, <2>1 DEF PatientInv, HeldInv, Backed, ConvIs, TurnIs
  <2>7. IsInjective(conv.messages)
    BY DEF IInv, TextInv, Sane
  <2>8. ASSUME NEW i \in DOMAIN conv.messages, NEW j \in DOMAIN conv.messages,
               i < j, conv.messages[j] = id, conv.messages[i] \notin dropped
        PROVE  conv.messages[i] \in held[key] \cup seed
    <3>1. CASE fresh
      <4>1. seed = {conv.messages[m] : m \in {m \in DOMAIN conv.messages :
                      \A h \in 1 .. m : conv.messages[h] # id}} \ conv.known[conv.key]
        BY <3>1 DEF seed, seedContextFor
      <4>2. \A h \in 1 .. i : conv.messages[h] # id
        BY <1>3, <2>7, <2>8 DEF IsInjective
      <4>3. conv.known[conv.key] \subseteq held[key]
        BY <1>3, <2>1, <2>4 DEF PatientInv, HeldInv, Backed
      <4> QED BY <2>8, <4>1, <4>2, <4>3
    <3>2. CASE ~fresh
      <4>1. conv.messages[i] # id
        BY <1>3, <2>7, <2>8 DEF IsInjective
      <4>2. conv.messages[i] \in ToSet(conv.messages)
        BY DEF ToSet
      <4>3. Outstanding = {id}
        BY <1>1, <2>2, Nothing DEF Outstanding
      <4> QED BY <1>1, <2>1, <2>4, <2>8, <3>2, <4>1, <4>2, <4>3 DEF PatientInv, SessionInv
    <3> QED BY <3>1, <3>2
  <2>9. PromptInv'
    <3>1. Before(turn.seed)'
      BY <1>1, <1>2, <1>5, <2>8 DEF Before, ConvIs, TurnIs
    <3>2. ~fresh => seed = {} /\ prompt \in live'
      BY <1>6 DEF seed
    <3> QED BY <1>5, <1>6, <1>11, <1>13, <2>4, <3>1, <3>2
            DEF PromptInv, TurnIs, stage, Confirmed
  <2>10. SessionInv'
    <3>1. SUFFICES ASSUME ~fresh PROVE SessionInv'
      BY <1>2 DEF SessionInv, ConvIs
    <3>2. Outstanding = {id}
      BY <1>1, <2>2, Nothing DEF Outstanding
    <3>3. id \in Outstanding'
      BY <1>5, <3>1 DEF Outstanding, TurnIs, stage
    <3> QED BY <1>1, <1>2, <2>1, <3>2, <3>3 DEF PatientInv, SessionInv, ConvIs
  <2> QED BY <2>3, <2>5, <2>6, <2>9, <2>10 DEF PatientInv
<1>18. ASSUME left.sound PROVE SoundInv'
  <2>1. live = {}
    BY <1>1, <1>18, Nothing DEF IInv, SoundInv, Started
  <2>2. live' = IF fresh THEN {} ELSE {prompt}
    BY <1>6, <2>1
  <2> QED BY <1>1, <1>5, <1>6, <2>2 DEF SoundInv, TurnIs, stage, Started
<1> QED BY <1>1, <1>7, <1>8, <1>14, <1>15, <1>16, <1>17, <1>18 DEF IInv

LEMMA SessionEnsuredKeeps ==
  ASSUME IInv, SessionEnsured
  PROVE  IInv'
<1> DEFINE prompt == [id |-> turn.id, key |-> turn.key, text |-> turn.seed \cup {turn.id},
                      phase |-> "sent"]
<1>1. /\ Shape /\ turn.stage = "ensure" /\ live' = live \cup {prompt}
      /\ UNCHANGED <<host, queue, cmd, held, next, tail, disk, dropped, left>>
      /\ conv \in ConvType /\ live \subseteq PromptType /\ turn \in TurnType
  BY DEF IInv, SessionEnsured, Shape
<1>2. turn.key \in Keys /\ turn.id # 0 /\ turn.id \in Ids /\ turn.seed \in SUBSET Ids
  <2>1. turn.key \in Keys /\ turn.id # 0
    BY <1>1 DEF IInv, IdInv, Started
  <2> QED BY <1>1, <2>1 DEF TurnType
<1>3. conv' \in ConvType /\ ConvIs(conv.status, conv.epoch, conv.key, conv.mcp, turn.key,
                                   conv.messages, conv.known)
  <2>1. conv' = [conv EXCEPT !.handle = turn.key] /\ turn.key \in Handles
    BY <1>2, Names DEF SessionEnsured
  <2> QED BY <1>1, <2>1 DEF ConvType, ConvIs
<1>4. turn' \in TurnType
      /\ TurnIs("prompt", turn.id, turn.key, turn.seed, turn.touched, turn.lost)
  <2>1. turn' = [turn EXCEPT !.stage = "prompt"]
    BY DEF SessionEnsured
  <2> QED BY <1>1, <2>1, Names DEF TurnType, TurnIs
<1>5. /\ prompt \in PromptType /\ prompt.id = turn.id /\ prompt.key = turn.key
      /\ prompt.text = turn.seed \cup {turn.id} /\ prompt.phase = "sent"
  BY <1>2, Names DEF PromptType
<1> HIDE DEF prompt
<1>6. Shape'
  BY <1>1, <1>3, <1>4, <1>5 DEF Shape
<1>7. TextInv'
  BY <1>1, <1>3 DEF IInv, TextInv, Sane, ConvIs
<1>8. IdInv'
  BY <1>1, <1>2, <1>3, <1>4, <1>5 DEF IInv, IdInv, ConvIs, TurnIs, Started
<1>9. SendInv' /\ CloseInv' /\ CmdInv' /\ DrainInv' /\ EnsureInv'
  BY <1>1, <1>3, <1>4, <1>5
  DEF IInv, SendInv, CloseInv, CmdInv, DrainInv, EnsureInv, ConvIs, TurnIs
<1>10. ASSUME left.patient PROVE PatientInv'
  <2>1. PatientInv
    BY <1>10 DEF IInv
  <2>2. queue = <<>> /\ cmd.op # "send" /\ cmd.op \notin Switches /\ Ends(turn.id)
    BY <1>1, <2>1 DEF PatientInv, OneAtATime
  <2>3. OneAtATime'
    BY <1>1, <1>3, <1>4, <2>2 DEF OneAtATime, ConvIs, TurnIs, Ends
  <2>4. KeyInv'
    BY <1>1, <1>3, <1>4, <2>1 DEF PatientInv, KeyInv, ConvIs, TurnIs, Started
  <2>5. HeldInv'
    BY <1>1, <1>3, <1>4, <2>1 DEF PatientInv, HeldInv, Backed, ConvIs, TurnIs, Started
  <2>6. Before(turn.seed)
    BY <1>1, <2>1 DEF PatientInv, PromptInv
  <2>7. PromptInv'
    <3>1. Before(turn.seed)'
      BY <1>1, <1>3, <1>4, <2>6 DEF Before, ConvIs, TurnIs
    <3>2. \A p \in live : p.id # turn.id
      BY <1>1 DEF IInv, IdInv
    <3> QED BY <1>1, <1>4, <1>5, <3>1, <3>2 DEF PromptInv, TurnIs, Confirmed
  <2>8. SessionInv'
    <3>1. conv.messages \in Seq(Ids)
      BY <1>1 DEF ConvType
    <3>2. ASSUME NEW i \in DOMAIN conv.messages
          PROVE  conv.messages[i] \in held[turn.key] \cup dropped \cup turn.seed \cup {turn.id}
      <4>1. DOMAIN conv.messages = 1..Len(conv.messages) /\ Len(conv.messages) \in Nat
        BY <3>1
      <4>2. i = Len(conv.messages) \/ i < Len(conv.messages)
        BY <4>1
      <4>3. Len(conv.messages) \in DOMAIN conv.messages
            /\ conv.messages[Len(conv.messages)] = turn.id
        BY <2>2, <4>1 DEF Ends
      <4> QED BY <2>6, <4>2, <4>3 DEF Before
    <3>3. turn.seed \cup {turn.id} \subseteq Outstanding'
      BY <1>4 DEF Outstanding, TurnIs
    <3> QED BY <1>1, <1>3, <3>2, <3>3 DEF SessionInv, ConvIs, ToSet
  <2> QED BY <2>3, <2>4, <2>5, <2>7, <2>8 DEF PatientInv
<1>11. ASSUME left.sound PROVE SoundInv'
  <2>1. live = {} /\ ~turn.lost
    BY <1>1, <1>11 DEF IInv, SoundInv
  <2> QED BY <1>1, <1>4, <1>5, <2>1 DEF SoundInv, TurnIs, Started
<1> QED BY <1>1, <1>6, <1>7, <1>8, <1>9, <1>10, <1>11 DEF IInv
LEMMA MarkFields ==
  ASSUME Shape, NEW ids \in SUBSET Ids, conv' = markKnown(conv, ids)
  PROVE  /\ conv' \in ConvType
         /\ ConvIs(conv.status, conv.epoch, conv.key, conv.mcp, conv.handle, conv.messages,
                   [conv.known EXCEPT ![conv.key] = @ \cup ids])
         /\ \A k \in Keys : conv'.known[k] = conv.known[k] \cup (IF k = conv.key THEN ids ELSE {})
<1>1. conv \in ConvType
  BY DEF Shape
<1>2. PICK n : n = [conv.known EXCEPT ![conv.key] = conv.known[conv.key] \cup ids]
  OBVIOUS
<1>3. conv.known \in [Keys -> SUBSET Ids] /\ conv.key \in Keys
  BY <1>1 DEF ConvType
<1>4. /\ n \in [Keys -> SUBSET Ids]
      /\ \A k \in Keys : n[k] = conv.known[k] \cup (IF k = conv.key THEN ids ELSE {})
  BY <1>2, <1>3
<1>5. conv' = [conv EXCEPT !.known = n]
  BY <1>2 DEF markKnown
<1>6. /\ conv' \in ConvType
      /\ ConvIs(conv.status, conv.epoch, conv.key, conv.mcp, conv.handle, conv.messages, n)
  BY <1>1, <1>4, <1>5 DEF ConvType, ConvIs
<1> QED BY <1>2, <1>4, <1>6 DEF ConvIs

(* The conversation is the same but for the ids it marks known. *)
Marks(ids) ==
  /\ conv' \in ConvType
  /\ conv'.status = conv.status /\ conv'.epoch = conv.epoch /\ conv'.key = conv.key
  /\ conv'.mcp = conv.mcp /\ conv'.handle = conv.handle /\ conv'.messages = conv.messages
  /\ \A k \in Keys : conv'.known[k] = conv.known[k] \cup (IF k = conv.key THEN ids ELSE {})

(* A turn the agent has confirmed moves on, and marks what the agent holds. *)
LEMMA TurnMovesKeeps ==
  ASSUME IInv, NEW ids \in SUBSET Ids, NEW to \in {"commit", "events", "result"},
         turn.stage \in Started \ {"ensure"}, turn' = [turn EXCEPT !.stage = to],
         Marks(ids), Pushed,
         left.patient => ids \subseteq held[turn.key],
         turn.stage = "prompt" => turn.seed \cup {turn.id} \subseteq ids,
         UNCHANGED <<host, queue, cmd, live, held, next, disk, dropped, left>>
  PROVE  IInv'
<1>1. Shape /\ turn \in TurnType /\ next \in Ids
  BY DEF IInv, Shape
<1>2. turn' \in TurnType
      /\ TurnIs(to, turn.id, turn.key, turn.seed, turn.touched, turn.lost)
  BY <1>1, Names DEF TurnType, TurnIs
<1>3. Shape'
  BY <1>1, <1>2, TailType DEF Shape, Marks
<1>4. TextInv'
  <2>1. Sane(conv', next')
    BY <1>1 DEF IInv, TextInv, Sane, Marks
  <2> QED BY <1>1, <1>3, <2>1, TextKeeps DEF IInv, Ids
<1>5. IdInv'
  BY <1>1, <1>2 DEF IInv, IdInv, Marks, TurnIs, Started
<1>6. SendInv' /\ CloseInv' /\ CmdInv' /\ DrainInv' /\ EnsureInv'
  BY <1>1, <1>2 DEF IInv, SendInv, CloseInv, CmdInv, DrainInv, EnsureInv, Marks, TurnIs, Started
<1>7. ASSUME left.patient PROVE PatientInv'
  <2>1. PatientInv /\ turn.key = conv.key
    BY <1>7 DEF IInv, PatientInv, KeyInv
  <2>2. OneAtATime'
    BY <1>2, <2>1 DEF PatientInv, OneAtATime, Started, TurnIs
  <2>3. KeyInv'
    BY <1>2, <2>1 DEF PatientInv, KeyInv, Marks, TurnIs
  <2>4. HeldInv'
    <3>1. Backed(conv', held')
      BY <1>7, <2>1 DEF PatientInv, HeldInv, Backed, Marks
    <3>2. Backed(disk', held') /\ \A i \in DOMAIN tail' : Backed(tail'[i].snapshot, held')
      BY <1>1, <1>3, <2>1, <3>1, PushKeeps DEF PatientInv, HeldInv
    <3> QED BY <1>2, <2>1, <3>1, <3>2 DEF PatientInv, HeldInv, TurnIs
  <2>5. PromptInv'
    <3>1. Before({})
      BY <1>7, <2>1 DEF PatientInv, PromptInv, Confirmed, Started, Before
    <3>2. Before({})'
      BY <1>2, <3>1 DEF Before, Marks, TurnIs
    <3> QED BY <1>2, <3>2 DEF PromptInv, TurnIs
  <2>6. SessionInv'
    <3>1. Outstanding \subseteq Outstanding' \cup (IF turn.stage = "prompt" THEN ids ELSE {})
      BY <1>2 DEF Outstanding, TurnIs
    <3> QED BY <1>7, <2>1, <3>1 DEF PatientInv, KeyInv, SessionInv, Marks
  <2> QED BY <2>2, <2>3, <2>4, <2>5, <2>6 DEF PatientInv
<1>8. ASSUME left.sound PROVE SoundInv'
  BY <1>2, <1>8 DEF IInv, SoundInv, TurnIs, Started
<1> QED BY <1>3, <1>4, <1>5, <1>6, <1>7, <1>8 DEF IInv

LEMMA PromptConfirmedKeeps ==
  ASSUME IInv, PromptConfirmed
  PROVE  IInv'
<1> DEFINE ids == turn.seed \cup {turn.id}
<1>1. Shape /\ turn.stage = "prompt" /\ turn.stage \in Started \ {"ensure"} /\ turn \in TurnType
  BY DEF IInv, Shape, PromptConfirmed, Started
<1>2. ids \in SUBSET Ids
  <2>1. turn.id # 0
    BY <1>1 DEF IInv, IdInv
  <2> QED BY <1>1, <2>1 DEF TurnType
<1>3. Marks(ids)
  BY <1>1, <1>2, MarkFields DEF PromptConfirmed, Marks, ConvIs
<1>4. Pushed
  BY Names DEF PromptConfirmed, Pushed
<1>5. left.patient => ids \subseteq held[turn.key]
  BY <1>1 DEF IInv, PatientInv, PromptInv, PromptConfirmed
<1> QED BY <1>1, <1>2, <1>3, <1>4, <1>5, TurnMovesKeeps DEF PromptConfirmed

LEMMA EventsEndKeeps ==
  ASSUME IInv, EventsEnd
  PROVE  IInv'
<1>1. Shape /\ turn.stage \in Started \ {"ensure", "prompt"} /\ turn \in TurnType
  BY DEF IInv, Shape, EventsEnd, Started
<1>2. turn.touched \in SUBSET Ids
  BY <1>1 DEF TurnType
<1>3. Marks(turn.touched)
  BY <1>1, <1>2, MarkFields DEF EventsEnd, Marks, ConvIs
<1>4. left.patient => turn.touched \subseteq held[turn.key]
  BY <1>1 DEF IInv, PatientInv, HeldInv
<1> QED BY <1>1, <1>2, <1>3, <1>4, TurnMovesKeeps DEF EventsEnd, Pushed

LEMMA TurnSavedKeeps ==
  ASSUME IInv, TurnSaved
  PROVE  IInv'
<1>1. /\ Shape /\ conv \in ConvType /\ left' \in Setting /\ Mode
      /\ turn.stage \in Started \ {"ensure", "prompt"} /\ turn.stage \in Started
  BY DEF IInv, Shape, TurnSaved, Started, Mode
<1>2. CASE turn.lost
  <2>1. PICK c : c = [conv EXCEPT !.status = "failed"]
    OBVIOUS
  <2>2. Restated(c, "failed", conv.handle) /\ EndTurn(c, live)
    BY <1>1, <1>2, <2>1, Names DEF Restated, ConvType, TurnSaved
  <2>3. left.sound => live = {}
    BY <1>2 DEF IInv, SoundInv
  <2> QED BY <1>1, <2>2, <2>3, EndTurnKeeps DEF TurnSaved
<1>3. CASE ~turn.lost
  <2>1. turn' = [turn EXCEPT !.stage = "events"] /\ UNCHANGED <<conv, live, tail>>
    BY <1>3 DEF TurnSaved
  <2>2. Marks({})
    BY <1>1, <2>1 DEF Marks
  <2> QED BY <1>1, <2>1, <2>2, TurnMovesKeeps DEF TurnSaved, Pushed
<1> QED BY <1>2, <1>3

LEMMA TurnSettledKeeps ==
  ASSUME IInv, TurnSettled
  PROVE  IInv'
<1>1. /\ Shape /\ turn' = NoTurn /\ turn.stage = "settle"
      /\ UNCHANGED <<host, conv, queue, cmd, live, held, next, tail, disk, dropped, left>>
  BY DEF IInv, TurnSettled
<1>2. Shape' /\ TextInv'
  BY <1>1, Nothing DEF Shape, IInv, TextInv
<1>3. IdInv'
  <2>1. next \in Ids /\ \A i \in DOMAIN queue : queue[i].id \in Ids
    BY <1>1, EntryFields DEF Shape
  <2> QED BY <1>1, <2>1, Nothing DEF IInv, IdInv, Started, Ids
<1>4. SendInv' /\ CloseInv' /\ CmdInv' /\ DrainInv' /\ EnsureInv'
  BY <1>1, Nothing DEF IInv, SendInv, CloseInv, CmdInv, DrainInv, EnsureInv
<1>5. ASSUME left.patient PROVE PatientInv'
  <2>1. PatientInv
    BY <1>5 DEF IInv
  <2>2. OneAtATime' /\ KeyInv' /\ HeldInv' /\ PromptInv'
    BY <1>1, <2>1, Nothing
    DEF PatientInv, OneAtATime, Ends, KeyInv, HeldInv, PromptInv, Started, Confirmed
  <2>3. Outstanding' = Outstanding
    BY <1>1, Nothing DEF Outstanding
  <2>4. SessionInv'
    BY <1>1, <2>1, <2>3 DEF PatientInv, SessionInv
  <2> QED BY <2>2, <2>4 DEF PatientInv
<1>6. ASSUME left.sound PROVE SoundInv'
  BY <1>1, <1>6, Nothing DEF IInv, SoundInv, Settled, Latest, Started
<1> QED BY <1>1, <1>2, <1>3, <1>4, <1>5, <1>6 DEF IInv
-----------------------------------------------------------------------------
(* Messages come in, from the agent and from the user. *)

LEMMA FreshMessage ==
  ASSUME Shape, Sane(conv, next), conv'.messages = Append(conv.messages, next),
         next' = next + 1, conv'.mcp = conv.mcp, conv'.key = conv.key
  PROVE  /\ Sane(conv', next')
         /\ conv.messages \in Seq(Ids) /\ Len(conv.messages) \in Nat
         /\ DOMAIN conv.messages = 1..Len(conv.messages)
         /\ DOMAIN conv'.messages = 1..(Len(conv.messages) + 1)
         /\ \A i \in DOMAIN conv.messages : conv'.messages[i] = conv.messages[i]
         /\ conv'.messages[Len(conv.messages) + 1] = next
         /\ Len(conv'.messages) = Len(conv.messages) + 1 /\ conv'.messages # <<>>
         /\ ToSet(conv'.messages) = ToSet(conv.messages) \cup {next}
<1>1. conv.messages \in Seq(Ids) /\ next \in Ids
  BY DEF Shape, ConvType
<1>2. /\ Len(conv.messages) \in Nat
      /\ DOMAIN conv.messages = 1..Len(conv.messages)
      /\ DOMAIN conv'.messages = 1..(Len(conv.messages) + 1)
      /\ \A i \in DOMAIN conv.messages : conv'.messages[i] = conv.messages[i]
      /\ conv'.messages[Len(conv.messages) + 1] = next
      /\ Len(conv'.messages) = Len(conv.messages) + 1 /\ conv'.messages # <<>>
  BY <1>1
<1>3. \A i \in DOMAIN conv.messages : conv.messages[i] \in Ids /\ conv.messages[i] < next
  BY <1>1 DEF Sane
<1>4. \A i \in DOMAIN conv'.messages : conv'.messages[i] < next'
  BY <1>1, <1>2, <1>3 DEF Ids
<1>5. IsInjective(conv'.messages)
  <2>1. SUFFICES ASSUME NEW i \in DOMAIN conv'.messages, NEW j \in DOMAIN conv'.messages,
                        conv'.messages[i] = conv'.messages[j]
                 PROVE  i = j
    BY DEF IsInjective
  <2>2. CASE i \in DOMAIN conv.messages /\ j \in DOMAIN conv.messages
    BY <1>2, <2>1, <2>2 DEF Sane, IsInjective
  <2>3. CASE i \notin DOMAIN conv.messages /\ j \notin DOMAIN conv.messages
    BY <1>2, <2>1, <2>3
  <2>4. CASE i \in DOMAIN conv.messages /\ j \notin DOMAIN conv.messages
    BY <1>1, <1>2, <1>3, <2>1, <2>4 DEF Ids
  <2>5. CASE i \notin DOMAIN conv.messages /\ j \in DOMAIN conv.messages
    BY <1>1, <1>2, <1>3, <2>1, <2>5 DEF Ids
  <2> QED BY <2>2, <2>3, <2>4, <2>5
<1>6. ToSet(conv'.messages) = ToSet(conv.messages) \cup {next}
  BY <1>2 DEF ToSet
<1> QED BY <1>1, <1>2, <1>4, <1>5, <1>6 DEF Sane

LEMMA NextGrows ==
  ASSUME Shape, next' = next + 1
  PROVE  /\ next \in Ids /\ next' \in Ids /\ next <= next' /\ next < next' /\ next # 0
         /\ \A i \in Ids \cup {0} : i < next => i < next' /\ i # next
<1>1. next \in Nat /\ next # 0
  BY DEF Shape, Ids
<1> QED BY <1>1 DEF Ids

LEMMA ConsumeEventKeeps ==
  ASSUME IInv, ConsumeEvent
  PROVE  IInv'
<1>1. /\ Shape /\ turn.stage = "events" /\ next' = next + 1 /\ host = "ready"
      /\ UNCHANGED <<host, queue, cmd, live, disk, dropped, left>>
      /\ conv \in ConvType /\ turn \in TurnType /\ held \in [Keys -> SUBSET Ids]
      /\ turn.key \in Keys /\ dropped \subseteq Ids
  BY DEF IInv, Shape, IdInv, ConsumeEvent, Started
<1>2. /\ next \in Ids /\ next' \in Ids /\ next <= next' /\ next # 0 /\ next < next'
      /\ \A i \in Ids \cup {0} : i < next => i < next' /\ i # next
  BY <1>1, NextGrows
<1>3. conv' \in ConvType /\ ConvIs(conv.status, conv.epoch, conv.key, conv.mcp, conv.handle,
                                   Append(conv.messages, next), conv.known)
  <2>1. conv' = [conv EXCEPT !.messages = Append(conv.messages, next)]
    BY DEF ConsumeEvent
  <2>2. Append(conv.messages, next) \in Seq(Ids)
    BY <1>1, <1>2 DEF ConvType
  <2> QED BY <1>1, <2>1, <2>2 DEF ConvType, ConvIs
<1>4. turn' \in TurnType
      /\ TurnIs("consume", turn.id, turn.key, turn.seed, {next}, turn.lost)
  <2>1. turn' = [turn EXCEPT !.stage = "consume", !.touched = {next}]
    BY DEF ConsumeEvent
  <2>2. {next} \in SUBSET Ids
    BY <1>2
  <2> QED BY <1>1, <2>1, <2>2, Names DEF TurnType, TurnIs
<1>5. /\ held' \in [Keys -> SUBSET Ids] /\ next \in held'[turn.key]
      /\ \A k \in Keys : held[k] \subseteq held'[k]
  BY <1>1, <1>2 DEF ConsumeEvent
<1>6. Pushed
  BY Names DEF ConsumeEvent, Pushed
<1>7. Shape'
  BY <1>1, <1>2, <1>3, <1>4, <1>5, <1>6, TailType DEF Shape
<1>8. /\ Sane(conv', next') /\ Len(conv.messages) \in Nat
      /\ DOMAIN conv.messages = 1..Len(conv.messages)
      /\ DOMAIN conv'.messages = 1..(Len(conv.messages) + 1)
      /\ \A i \in DOMAIN conv.messages : conv'.messages[i] = conv.messages[i]
      /\ conv'.messages[Len(conv.messages) + 1] = next
      /\ ToSet(conv'.messages) = ToSet(conv.messages) \cup {next}
  BY <1>1, <1>3, FreshMessage DEF IInv, TextInv, ConvIs
<1>9. TextInv'
  BY <1>1, <1>2, <1>6, <1>7, <1>8, TextKeeps DEF IInv
<1>10. IdInv'
  <2>1. /\ turn.id \in Ids \cup {0} /\ \A p \in live : p.id \in Ids
        /\ \A i \in DOMAIN queue : queue[i].id \in Ids
    BY <1>1, EntryFields DEF Shape, TurnType, PromptType
  <2> QED BY <1>1, <1>2, <1>3, <1>4, <2>1 DEF IInv, IdInv, ConvIs, TurnIs, Started
<1>11. SendInv' /\ CloseInv' /\ CmdInv' /\ DrainInv' /\ EnsureInv'
  <2>1. cmd.id \in Ids \cup {0}
    BY <1>1 DEF Shape, CmdType
  <2> QED BY <1>1, <1>2, <1>3, <1>4, <2>1
      DEF IInv, SendInv, CloseInv, CmdInv, DrainInv, EnsureInv, ConvIs, TurnIs
<1>12. ASSUME left.patient PROVE PatientInv'
  <2>1. PatientInv /\ turn.key = conv.key /\ conv.handle \in {"none", turn.key}
    BY <1>1, <1>12 DEF IInv, PatientInv, KeyInv, Started
  <2>2. OneAtATime'
    BY <1>1, <1>4, <2>1 DEF PatientInv, OneAtATime, TurnIs
  <2>3. KeyInv'
    BY <1>3, <1>4, <2>1 DEF KeyInv, ConvIs, TurnIs
  <2>4. HeldInv'
    <3>1. Backed(conv', held')
      BY <1>3, <1>5, <2>1 DEF PatientInv, HeldInv, Backed, ConvIs
    <3>2. Backed(disk', held') /\ \A i \in DOMAIN tail' : Backed(tail'[i].snapshot, held')
      BY <1>1, <1>5, <1>6, <1>7, <2>1, <3>1, PushKeeps DEF PatientInv, HeldInv
    <3> QED BY <1>4, <1>5, <3>1, <3>2 DEF HeldInv, TurnIs
  <2>5. PromptInv'
    <3>1. Before({})
      BY <1>1, <2>1 DEF PatientInv, PromptInv, Confirmed
    <3>2. turn.id # next
      BY <1>1, <1>2 DEF IInv, IdInv, TurnType
    <3>3. Before({})'
      <4>1. SUFFICES ASSUME NEW i \in DOMAIN conv'.messages, NEW j \in DOMAIN conv'.messages,
                            i < j, conv'.messages[j] = turn.id, conv'.messages[i] \notin dropped
                     PROVE  conv'.messages[i] \in held'[turn.key]
        BY <1>1, <1>4 DEF Before, TurnIs
      <4>2. i \in DOMAIN conv.messages /\ j \in DOMAIN conv.messages
        BY <1>8, <3>2, <4>1
      <4>3. conv.messages[i] \in held[turn.key]
        BY <1>8, <3>1, <4>1, <4>2 DEF Before
      <4> QED BY <1>1, <1>5, <1>8, <4>2, <4>3
    <3> QED BY <1>4, <3>3 DEF PromptInv, TurnIs
  <2>6. SessionInv'
    <3>1. Outstanding' = Outstanding
      BY <1>1, <1>4 DEF Outstanding, TurnIs
    <3> QED BY <1>1, <1>3, <1>5, <1>8, <2>1, <3>1 DEF PatientInv, SessionInv, ConvIs
  <2> QED BY <2>2, <2>3, <2>4, <2>5, <2>6 DEF PatientInv
<1>13. ASSUME left.sound PROVE SoundInv'
  BY <1>1, <1>4, <1>13 DEF IInv, SoundInv, TurnIs, Started
<1> QED BY <1>1, <1>7, <1>9, <1>10, <1>11, <1>12, <1>13 DEF IInv

LEMMA EnqueueKeeps ==
  ASSUME IInv, enqueueMessage
  PROVE  IInv'
<1>1. /\ Shape /\ cmd = NoCommand /\ host = "ready" /\ next' = next + 1
      /\ UNCHANGED <<host, queue, turn, live, held, disk, dropped>>
      /\ conv \in ConvType /\ dropped \subseteq Ids
      /\ left.patient => turn = NoTurn /\ queue = <<>>
  BY DEF IInv, Shape, enqueueMessage, Free
<1>2. left' \in Setting /\ Mode
  BY <1>1, SpendKeeps DEF Shape, enqueueMessage, Things
<1>3. /\ next \in Ids /\ next' \in Ids /\ next <= next' /\ next # 0 /\ next < next'
      /\ \A i \in Ids \cup {0} : i < next => i < next' /\ i # next
  BY <1>1, NextGrows
<1>4. conv' \in ConvType /\ ConvIs("queued", conv.epoch, conv.key, conv.mcp, conv.handle,
                                   Append(conv.messages, next), conv.known)
  <2>1. conv' = [conv EXCEPT !.messages = Append(conv.messages, next), !.status = "queued"]
    BY DEF enqueueMessage
  <2>2. Append(conv.messages, next) \in Seq(Ids)
    BY <1>1, <1>3 DEF ConvType
  <2> QED BY <1>1, <2>1, <2>2, Names DEF ConvType, ConvIs
<1>5. cmd' \in CmdType /\ CmdIs("send", "saving", next, conv.epoch)
  <2>1. conv.epoch \in Nat
    BY <1>1 DEF ConvType
  <2> QED BY <1>3, <2>1, Names DEF enqueueMessage, NoCommand, CmdType, CmdIs
<1>6. Persist("cmd") /\ Pushed
  BY Names DEF enqueueMessage, Pushed
<1>7. Shape'
  BY <1>1, <1>2, <1>3, <1>4, <1>5, <1>6, TailType DEF Shape
<1>8. /\ Sane(conv', next') /\ Len(conv.messages) \in Nat
      /\ conv'.messages[Len(conv.messages) + 1] = next
      /\ Len(conv'.messages) = Len(conv.messages) + 1 /\ conv'.messages # <<>>
      /\ ToSet(conv'.messages) = ToSet(conv.messages) \cup {next}
  BY <1>1, <1>4, FreshMessage DEF IInv, TextInv, ConvIs
<1>9. TextInv'
  BY <1>1, <1>3, <1>6, <1>7, <1>8, TextKeeps DEF IInv
<1>10. /\ turn.id \in Ids \cup {0} /\ \A p \in live : p.id \in Ids
       /\ \A i \in DOMAIN queue : queue[i].id \in Ids
  BY <1>1, EntryFields DEF Shape, TurnType, PromptType
<1>11. IdInv'
  BY <1>1, <1>3, <1>4, <1>10 DEF IInv, IdInv, ConvIs
<1>12. SendInv'
  BY <1>1, <1>3, <1>4, <1>5, <1>10 DEF IInv, IdInv, SendInv, ConvIs, CmdIs
<1>13. CloseInv' /\ CmdInv' /\ DrainInv' /\ EnsureInv'
  BY <1>1, <1>4, <1>5 DEF IInv, CloseInv, CmdInv, DrainInv, EnsureInv, ConvIs, CmdIs
<1>14. ASSUME left.patient PROVE PatientInv'
  <2>1. PatientInv /\ turn.stage = "none" /\ queue = <<>>
    BY <1>1, <1>14, Nothing DEF IInv
  <2>2. OneAtATime'
    BY <1>1, <1>4, <1>5, <1>8, <2>1 DEF OneAtATime, Ends, ConvIs, CmdIs, Switches
  <2>3. KeyInv'
    BY <1>1, <1>4, <2>1 DEF PatientInv, KeyInv, ConvIs
  <2>4. HeldInv'
    <3>1. Backed(conv', held')
      BY <1>1, <1>4, <2>1 DEF PatientInv, HeldInv, Backed, ConvIs
    <3>2. Backed(disk', held') /\ \A i \in DOMAIN tail' : Backed(tail'[i].snapshot, held')
      BY <1>1, <1>6, <1>7, <2>1, <3>1, PushKeeps DEF PatientInv, HeldInv
    <3> QED BY <1>1, <2>1, <3>1, <3>2 DEF HeldInv, Started
  <2>5. PromptInv'
    BY <1>1, <2>1 DEF PromptInv, Confirmed
  <2>6. SessionInv'
    <3>1. Outstanding' = Outstanding \cup {next}
      BY <1>1, <1>5, <2>1, Nothing DEF Outstanding, CmdIs
    <3> QED BY <1>1, <1>4, <1>8, <2>1, <3>1 DEF PatientInv, SessionInv, ConvIs
  <2> QED BY <2>2, <2>3, <2>4, <2>5, <2>6 DEF PatientInv
<1>15. ASSUME left.sound PROVE SoundInv'
  <2>1. Settled(Latest, conv)'
    BY <1>1, <1>6, PushSettles
  <2> QED BY <1>1, <1>15, <2>1 DEF IInv, SoundInv
<1> QED BY <1>1, <1>2, <1>7, <1>9, <1>11, <1>12, <1>13, <1>14, <1>15 DEF IInv, Mode
LEMMA AgentAcceptsKeeps ==
  ASSUME IInv, AgentAccepts
  PROVE  IInv'
<1>1. /\ Shape /\ live \subseteq PromptType /\ held \in [Keys -> SUBSET Ids]
      /\ UNCHANGED <<host, conv, queue, turn, cmd, next, tail, disk, dropped, left>>
  BY DEF IInv, Shape, AgentAccepts
<1>2. PICK p \in live : /\ p.phase = "sent"
                        /\ live' = (live \ {p}) \cup {[p EXCEPT !.phase = "work"]}
                        /\ held' = [held EXCEPT ![p.key] = @ \cup p.text]
  BY DEF AgentAccepts
<1>3. PICK w : w = [p EXCEPT !.phase = "work"]
  OBVIOUS
<1>4. /\ p \in PromptType /\ w \in PromptType /\ p.key \in Keys /\ p.text \in SUBSET Ids
      /\ w.id = p.id /\ w.key = p.key /\ w.text = p.text /\ w.phase = "work"
      /\ live' = (live \ {p}) \cup {w}
  <2>1. p \in PromptType /\ "work" \in Phases
    BY <1>1, Names
  <2> QED BY <1>2, <1>3, <2>1 DEF PromptType
<1>5. /\ held' \in [Keys -> SUBSET Ids] /\ p.text \subseteq held'[p.key]
      /\ \A k \in Keys : held[k] \subseteq held'[k]
  BY <1>1, <1>2, <1>4
<1>6. Shape' /\ TextInv'
  BY <1>1, <1>4, <1>5 DEF Shape, IInv, TextInv
<1>7. IdInv' /\ SendInv'
  BY <1>1, <1>4 DEF IInv, IdInv, SendInv
<1>8. CloseInv' /\ CmdInv' /\ DrainInv' /\ EnsureInv'
  BY <1>1 DEF IInv, CloseInv, CmdInv, DrainInv, EnsureInv
<1>9. ASSUME left.patient PROVE PatientInv'
  <2>1. PatientInv
    BY <1>9 DEF IInv
  <2>2. OneAtATime' /\ KeyInv'
    BY <1>1, <2>1 DEF PatientInv, OneAtATime, Ends, KeyInv
  <2>3. turn.stage \in Started => turn.key \in Keys
    BY DEF IInv, IdInv
  <2>4. HeldInv'
    <3>1. \A c : Backed(c, held) => Backed(c, held')
      BY <1>5 DEF Backed
    <3> QED BY <1>1, <1>5, <2>1, <2>3, <3>1 DEF PatientInv, HeldInv
  <2>5. PromptInv'
    <3>1. turn.stage \in Started => held[turn.key] \subseteq held'[turn.key]
      BY <1>5, <2>3
    <3>2. turn.stage \in {"ensure", "prompt"} => Before(turn.seed)'
      BY <1>1, <2>1, <3>1 DEF PatientInv, PromptInv, Started, Before
    <3>3. turn.stage \in Confirmed => Before({})'
      BY <1>1, <2>1, <3>1 DEF PatientInv, PromptInv, Started, Confirmed, Before
    <3>4. ASSUME turn.stage = "prompt"
          PROVE  /\ \A q \in live' : q.id = turn.id =>
                      q.key = turn.key /\ q.text = turn.seed \cup {turn.id}
                 /\ (\A q \in live' : q.id = turn.id => q.phase # "sent") =>
                      turn.seed \cup {turn.id} \subseteq held'[turn.key]
      <4>1. /\ \A q \in live : q.id = turn.id =>
                 q.key = turn.key /\ q.text = turn.seed \cup {turn.id}
            /\ (\A q \in live : q.id = turn.id => q.phase # "sent") =>
                 turn.seed \cup {turn.id} \subseteq held[turn.key]
        BY <2>1, <3>4 DEF PatientInv, PromptInv
      <4>2. turn.key \in Keys
        BY <2>3, <3>4 DEF Started
      <4>3. CASE p.id = turn.id
        BY <1>4, <1>5, <4>1, <4>3
      <4>4. CASE p.id # turn.id
        BY <1>4, <1>5, <4>1, <4>2, <4>4
      <4> QED BY <4>3, <4>4
    <3> QED BY <1>1, <3>2, <3>3, <3>4 DEF PromptInv
  <2>6. SessionInv'
    <3>1. Outstanding' = Outstanding
      BY <1>1 DEF Outstanding
    <3>2. conv.handle # "none" => conv.handle \in Keys
      BY <1>1 DEF Shape, ConvType, Handles
    <3> QED BY <1>1, <1>5, <2>1, <3>1, <3>2 DEF PatientInv, SessionInv
  <2> QED BY <2>2, <2>4, <2>5, <2>6 DEF PatientInv
<1>10. ASSUME left.sound PROVE SoundInv'
  BY <1>1, <1>4, <1>10 DEF IInv, SoundInv, Settled, Latest
<1> QED BY <1>1, <1>6, <1>7, <1>8, <1>9, <1>10 DEF IInv

-----------------------------------------------------------------------------
(* The commands. *)

LEMMA SendSaved ==
  ASSUME IInv, CommandSaved, cmd.op = "send"
  PROVE  IInv'
<1>1. /\ Shape /\ cmd' = NoCommand /\ cmd \in CmdType /\ queue \in Seq(Entries)
      /\ UNCHANGED <<host, conv, turn, live, held, next, tail, disk, left>>
  BY DEF IInv, Shape, CommandSaved
<1>2. /\ cmd.id \in Ids /\ cmd.epoch = conv.epoch /\ cmd.id # turn.id /\ cmd.id < next
      /\ cmd.id \notin dropped /\ cmd.epoch \in Nat /\ conv.status # "closed"
      /\ \A i \in DOMAIN queue : queue[i].id # cmd.id
      /\ \A p \in live : p.id # cmd.id
  BY <1>1 DEF IInv, SendInv, CmdType
<1>3. PICK e : e = [id |-> cmd.id, epoch |-> cmd.epoch]
  OBVIOUS
<1>4. e \in Entries /\ e.id = cmd.id /\ e.epoch = conv.epoch
  BY <1>2, <1>3 DEF Entries
<1>5. \/ queue' = Append(queue, e) /\ dropped' = dropped
      \/ queue' = queue /\ dropped' = dropped \cup {cmd.id}
  BY <1>3 DEF CommandSaved
<1>6. /\ Len(queue) \in Nat /\ DOMAIN queue = 1..Len(queue)
      /\ queue' = Append(queue, e) =>
           /\ queue' \in Seq(Entries) /\ DOMAIN queue' = 1..(Len(queue) + 1)
           /\ Len(queue') = Len(queue) + 1
           /\ \A i \in 1..Len(queue) : queue'[i] = queue[i]
           /\ queue'[Len(queue) + 1] = e
  BY <1>1, <1>4
<1>7. Shape' /\ TextInv'
  <2>1. queue' \in Seq(Entries) /\ dropped' \subseteq Ids
    BY <1>1, <1>2, <1>5, <1>6 DEF Shape
  <2> QED BY <1>1, <2>1, Nothing DEF Shape, IInv, TextInv
<1>8. IdInv'
  <2>1. CASE queue' = Append(queue, e) /\ dropped' = dropped
    <3>1. \A i \in DOMAIN queue' : \/ i \in DOMAIN queue /\ queue'[i] = queue[i]
                                   \/ i = Len(queue) + 1 /\ queue'[i] = e
      <4>1. /\ Len(queue) \in Nat /\ DOMAIN queue = 1..Len(queue)
            /\ DOMAIN queue' = 1..(Len(queue) + 1)
            /\ \A i \in 1..Len(queue) : queue'[i] = queue[i]
            /\ queue'[Len(queue) + 1] = e
        BY <1>6, <2>1
      <4>2. \A n \in Nat : \A i \in 1..(n + 1) : i \in 1..n \/ i = n + 1
        OBVIOUS
      <4> QED BY <4>1, <4>2
    <3>2. \A i \in DOMAIN queue : i # Len(queue) + 1
      BY <1>6
    <3>3. \A i, j \in DOMAIN queue' : queue'[i].id = queue'[j].id => i = j
      BY <1>2, <1>4, <3>1, <3>2 DEF IInv, IdInv
    <3>4. conv.epoch <= conv.epoch
      BY <1>2
    <3>5. \A i \in DOMAIN queue' :
            /\ queue'[i].id < next /\ queue'[i].id # turn.id /\ queue'[i].epoch <= conv.epoch
            /\ \A p \in live : p.id # queue'[i].id
            /\ queue'[i].id \in dropped \/ queue'[i].epoch = conv.epoch
            /\ queue'[i].id \notin dropped \/ queue'[i].epoch # conv.epoch
      BY <1>2, <1>4, <3>1, <3>4 DEF IInv, IdInv
    <3> QED BY <1>1, <2>1, <3>3, <3>5 DEF IInv, IdInv
  <2>2. CASE queue' = queue /\ dropped' = dropped \cup {cmd.id}
    BY <1>1, <1>2, <2>2 DEF IInv, IdInv
  <2> QED BY <1>5, <2>1, <2>2
<1>9. SendInv' /\ CloseInv' /\ CmdInv' /\ DrainInv' /\ EnsureInv'
  BY <1>1, <1>2, Nothing DEF IInv, SendInv, CloseInv, CmdInv, DrainInv, EnsureInv
<1>10. ASSUME left.patient PROVE PatientInv'
  <2>1. PatientInv /\ queue = <<>> /\ turn.stage = "none" /\ conv.status = "queued" /\ Ends(cmd.id)
    BY <1>10 DEF IInv, PatientInv, OneAtATime
  <2>2. OneAtATime'
    <3>1. queue' # <<>> => Len(queue') = 1 /\ queue'[1].id = cmd.id
      BY <1>4, <1>5, <1>6, <2>1
    <3> QED BY <1>1, <2>1, <3>1, Nothing DEF OneAtATime, Ends, Switches
  <2>3. KeyInv' /\ HeldInv' /\ PromptInv'
    BY <1>1, <2>1 DEF PatientInv, KeyInv, HeldInv, PromptInv, Started, Confirmed
  <2>4. SessionInv'
    <3>1. Outstanding = {cmd.id}
      BY <1>6, <2>1 DEF Outstanding
    <3>2. cmd.id \in Outstanding' \cup dropped'
      <4>1. CASE queue' = Append(queue, e)
        BY <1>4, <1>6, <4>1 DEF Outstanding
      <4> QED BY <1>5, <4>1
    <3>3. dropped \subseteq dropped'
      BY <1>5
    <3> QED BY <1>1, <2>1, <3>1, <3>2, <3>3 DEF PatientInv, SessionInv
  <2> QED BY <2>2, <2>3, <2>4 DEF PatientInv
<1>11. left.sound => SoundInv'
  BY <1>1 DEF IInv, SoundInv, Settled, Latest
<1> QED BY <1>1, <1>7, <1>8, <1>9, <1>10, <1>11 DEF IInv

LEMMA CommandSavedKeeps ==
  ASSUME IInv, CommandSaved
  PROVE  IInv'
<1>1. CASE cmd.op = "send"
  BY <1>1, SendSaved
<1>2. CASE cmd.op # "send"
  <2>1. /\ Shape /\ cmd' = NoCommand
        /\ UNCHANGED <<host, conv, queue, turn, live, held, next, tail, disk, dropped, left>>
    BY <1>2 DEF IInv, CommandSaved
  <2>2. Shape'
    BY <2>1, Nothing DEF Shape
  <2>3. Quiet
    BY <1>2, <2>1, <2>2, Unmoved, Nothing
    DEF Quiet, Pushed, CommandGoesOn, CmdInv, Switches
  <2> QED BY <2>3, QuietKeeps
<1> QED BY <1>1, <1>2

LEMMA CancelKeeps ==
  ASSUME IInv, NEW which \in {"cancel", "close"}, cancelTurn(which)
  PROVE  IInv'
<1> DEFINE queued == {queue[i].id : i \in DOMAIN queue}
<1>1. /\ Shape /\ cmd = NoCommand /\ host = "ready" /\ conv \in ConvType
      /\ dropped' = dropped \cup queued
      /\ UNCHANGED <<host, queue, held, next, disk>>
      /\ live \in SUBSET PromptType /\ next \in Ids
  BY DEF IInv, Shape, cancelTurn, Free
<1>2. left' \in Setting /\ Mode
  <2>1. which \in Things /\ Spend(which)
    BY DEF Things, cancelTurn
  <2> QED BY <1>1, <2>1, SpendKeeps DEF Shape
<1>3. conv' \in ConvType /\ ConvIs(conv.status, conv.epoch + 1, conv.key, conv.mcp, conv.handle,
                                   conv.messages, conv.known)
  <2>1. conv' = [conv EXCEPT !.pending = FALSE, !.epoch = conv.epoch + 1]
    BY DEF cancelTurn
  <2>2. conv.epoch + 1 \in Nat
    BY <1>1 DEF ConvType
  <2> QED BY <1>1, <2>1, <2>2 DEF ConvType, ConvIs
<1>4. turn' \in TurnType /\ SameTurn
  BY AbortFields DEF cancelTurn
<1>5. live' \in SUBSET PromptType /\ Follows(live, live')
  BY <1>1, ReleasedFollows, Unmoved DEF cancelTurn
<1>6. cmd' \in CmdType /\ cmd'.op = which /\ cmd'.stage = "cancelling"
  <2>1. cmd' = [NoCommand EXCEPT !.op = which, !.stage = "cancelling"]
    BY DEF cancelTurn
  <2>2. which \in Ops
    BY Names
  <2> QED BY <2>1, <2>2, Names DEF NoCommand, CmdType
<1>7. Pushed
  BY Names DEF cancelTurn, Pushed
<1>8. queued \subseteq Ids
  BY <1>1, EntryFields
<1>9. Shape'
  BY <1>1, <1>2, <1>3, <1>4, <1>5, <1>6, <1>7, <1>8, TailType DEF Shape
<1>10. TextInv'
  <2>1. Sane(conv', next')
    BY <1>1, <1>3 DEF IInv, TextInv, Sane, ConvIs
  <2> QED BY <1>1, <1>7, <1>9, <2>1, TextKeeps DEF IInv, Ids
<1>11. \A i \in DOMAIN queue : queue[i].id \in queued
  OBVIOUS
<1>12. \A x \in queued : x < next /\ x # turn.id /\ \A p \in live : p.id # x
  BY DEF IInv, IdInv
<1> HIDE DEF queued
<1>13. IdInv'
  <2>1. \A i \in DOMAIN queue : queue[i].epoch <= conv.epoch + 1 /\ queue[i].epoch # conv.epoch + 1
    <3>1. \A i \in DOMAIN queue : queue[i].epoch \in Nat /\ queue[i].epoch <= conv.epoch
      BY <1>1, EntryFields DEF IInv, IdInv
    <3>2. conv.epoch \in Nat
      BY <1>1 DEF ConvType
    <3> QED BY <3>1, <3>2
  <2>2. \A q \in live' : \E p \in live : p.id = q.id
    BY <1>5 DEF Follows
  <2> QED BY <1>1, <1>3, <1>4, <1>11, <1>12, <2>1, <2>2
      DEF IInv, IdInv, ConvIs, SameTurn, TurnIs, Started
<1>14. SendInv' /\ CloseInv' /\ CmdInv' /\ DrainInv' /\ EnsureInv'
  BY <1>1, <1>3, <1>4, <1>6, <1>11
  DEF IInv, SendInv, CloseInv, CmdInv, DrainInv, EnsureInv, ConvIs, SameTurn, TurnIs
<1>15. ASSUME left.patient PROVE PatientInv'
  <2>1. PatientInv
    BY <1>15 DEF IInv
  <2>2. OneAtATime'
    BY <1>1, <1>3, <1>4, <1>6, <2>1
    DEF PatientInv, OneAtATime, Ends, ConvIs, SameTurn, TurnIs, Switches
  <2>3. KeyInv'
    BY <1>3, <1>4, <2>1 DEF PatientInv, KeyInv, ConvIs, SameTurn, TurnIs
  <2>4. HeldInv'
    <3>1. Backed(conv', held')
      BY <1>1, <1>3, <2>1 DEF PatientInv, HeldInv, Backed, ConvIs
    <3>2. Backed(disk', held') /\ \A i \in DOMAIN tail' : Backed(tail'[i].snapshot, held')
      BY <1>1, <1>7, <1>9, <2>1, <3>1, PushKeeps DEF PatientInv, HeldInv
    <3> QED BY <1>1, <1>4, <2>1, <3>1, <3>2 DEF PatientInv, HeldInv, SameTurn, TurnIs
  <2>5. PromptInv'
    BY <1>1, <1>3, <1>4, <1>5, <2>1
    DEF PatientInv, PromptInv, Before, ConvIs, SameTurn, TurnIs, Follows
  <2>6. SessionInv'
    <3>1. Outstanding' = Outstanding
      BY <1>1, <1>4, <1>6, Nothing DEF Outstanding, SameTurn, TurnIs
    <3> QED BY <1>1, <1>3, <2>1, <3>1 DEF PatientInv, SessionInv, ConvIs
  <2> QED BY <2>2, <2>3, <2>4, <2>5, <2>6 DEF PatientInv
<1>16. ASSUME left.sound PROVE SoundInv'
  <2>1. SoundInv
    BY <1>16 DEF IInv
  <2>2. Settled(Latest, conv) => Settled(Latest, conv)'
    <3>1. Stored(conv') = Stored(conv)
      BY <1>3 DEF Stored, ConvIs
    <3> QED BY <1>1, <1>3, <1>7, <1>9, <3>1, SettledStays DEF ConvIs
  <2> QED BY <1>4, <1>5, <2>1, <2>2 DEF SoundInv, SameTurn, TurnIs, Follows
<1> QED BY <1>2, <1>9, <1>10, <1>13, <1>14, <1>15, <1>16 DEF IInv, Mode
(* What the next process restores from a snapshot. *)
LEMMA RestoredIs ==
  ASSUME NEW d
  PROVE  Restored(d) =
           [status |-> IF d.status \in {"running", "queued"} THEN "idle" ELSE d.status,
            epoch |-> 0, key |-> d.key, mcp |-> d.mcp, handle |-> "none",
            messages |-> d.messages,
            known |-> [k \in Keys |-> d.known[k] \cap ToSet(d.messages)],
            pending |-> FALSE]
<1> DEFINE s == IF d.status \in {"running", "queued"} THEN "idle" ELSE d.status
           n == [k \in Keys |-> d.known[k] \cap ToSet(d.messages)]
<1>1. Restored(d) = [Created EXCEPT !.status = s, !.key = d.key, !.mcp = d.mcp,
                                    !.messages = d.messages, !.known = n]
  BY DEF Restored
<1> HIDE DEF s, n
<1>2. Restored(d) = [status |-> s, epoch |-> 0, key |-> d.key, mcp |-> d.mcp,
                     handle |-> "none", messages |-> d.messages, known |-> n,
                     pending |-> FALSE]
  <2>1. PICK e : e = [k \in Keys |-> {}]
    OBVIOUS
  <2>2. Created = [status |-> "idle", epoch |-> 0, key |-> "plain", mcp |-> "none",
                   handle |-> "none", messages |-> <<>>, known |-> e, pending |-> FALSE]
    BY <2>1 DEF Created
  <2> QED BY <1>1, <2>2
<1> QED BY <1>2 DEF s, n

LEMMA RestoredType ==
  ASSUME NEW d \in SnapType
  PROVE  /\ Restored(d) \in ConvType
         /\ Restored(d).epoch = 0 /\ Restored(d).key = d.key /\ Restored(d).mcp = d.mcp
         /\ Restored(d).handle = "none" /\ Restored(d).messages = d.messages
         /\ Restored(d).status =
              IF d.status \in {"running", "queued"} THEN "idle" ELSE d.status
         /\ Restored(d).known = [k \in Keys |-> d.known[k] \cap ToSet(d.messages)]
<1>1. /\ d.status \in Statuses /\ d.key \in Keys /\ d.mcp \in Mcps /\ d.messages \in Seq(Ids)
      /\ d.known \in [Keys -> SUBSET Ids]
  BY DEF SnapType
<1>2. [k \in Keys |-> d.known[k] \cap ToSet(d.messages)] \in [Keys -> SUBSET Ids]
  BY <1>1
<1>3. PICK s : s = IF d.status \in {"running", "queued"} THEN "idle" ELSE d.status
  OBVIOUS
<1>4. PICK n : n = [k \in Keys |-> d.known[k] \cap ToSet(d.messages)]
  OBVIOUS
<1>5. s \in Statuses /\ n \in [Keys -> SUBSET Ids] /\ 0 \in Nat /\ FALSE \in BOOLEAN
  BY <1>1, <1>2, <1>3, <1>4, Names
<1>6. Restored(d) = [status |-> s, epoch |-> 0, key |-> d.key, mcp |-> d.mcp,
                     handle |-> "none", messages |-> d.messages, known |-> n,
                     pending |-> FALSE]
  BY <1>3, <1>4, RestoredIs
<1> QED BY <1>1, <1>3, <1>4, <1>5, <1>6, Names DEF ConvType

(* What is restored does not change by being stored and restored again. *)
LEMMA RestoredAgain ==
  ASSUME NEW d \in SnapType
  PROVE  Restored(Stored(Restored(d))) = Restored(d)
<1> DEFINE c == Restored(d)
           t == Stored(c)
<1>1. /\ c \in ConvType /\ c.key = d.key /\ c.mcp = d.mcp /\ c.messages = d.messages
      /\ c.status = IF d.status \in {"running", "queued"} THEN "idle" ELSE d.status
      /\ c.known = [k \in Keys |-> d.known[k] \cap ToSet(d.messages)]
  BY RestoredType
<1> HIDE DEF c
<1>2. /\ t.messages = d.messages /\ t.key = d.key /\ t.mcp = d.mcp /\ t.status = c.status
      /\ \A k \in Keys : t.known[k] = c.known[k] \cap ToSet(d.messages)
  BY <1>1, StoredType
<1> HIDE DEF t
<1>3. \A k \in Keys : t.known[k] \cap ToSet(t.messages) = d.known[k] \cap ToSet(d.messages)
  BY <1>1, <1>2
<1>4. [k \in Keys |-> t.known[k] \cap ToSet(t.messages)]
        = [k \in Keys |-> d.known[k] \cap ToSet(d.messages)]
  BY <1>3
<1>5. (IF t.status \in {"running", "queued"} THEN "idle" ELSE t.status)
        = IF d.status \in {"running", "queued"} THEN "idle" ELSE d.status
  BY <1>1, <1>2
<1>6. Restored(t) = Restored(d)
  BY <1>2, <1>4, <1>5, RestoredIs
<1> QED BY <1>6 DEF t, c

(* Closing changes no more than the status. *)
LEMMA ClosedSettles ==
  ASSUME NEW s \in SnapType, NEW c \in ConvType, NEW d \in ConvType, Settled(s, c),
         d.status = "closed", d.key = c.key, d.mcp = c.mcp, d.messages = c.messages,
         d.known = c.known
  PROVE  Settled(s, d)
<1> DEFINE t == [s EXCEPT !.status = "closed"]
           u == Stored(c)
           v == Stored(d)
<1>1. /\ t \in SnapType /\ t.status = "closed" /\ t.key = s.key /\ t.mcp = s.mcp
      /\ t.messages = s.messages /\ t.known = s.known
  BY Names DEF SnapType
<1>2. /\ u \in SnapType /\ v \in SnapType /\ v.status = "closed"
      /\ v.key = u.key /\ v.mcp = u.mcp /\ v.messages = u.messages
  BY StoredType
<1>3. v.known = u.known
  BY DEF Stored
<1> HIDE DEF u, v
<1>4. CASE c.status = "closed" /\ Restored(t) = Restored(u)
  <2>1. u.status = "closed"
    BY <1>4, StoredType DEF u
  <2>2. Restored(u) = Restored(v)
    BY <1>2, <1>3, <2>1, RestoredIs
  <2> QED BY <1>4, <2>2 DEF Settled, v
<1>5. CASE Restored(s) = Restored(u)
  <2>1. /\ s.key = u.key /\ s.mcp = u.mcp /\ s.messages = u.messages
        /\ [k \in Keys |-> s.known[k] \cap ToSet(s.messages)]
             = [k \in Keys |-> u.known[k] \cap ToSet(u.messages)]
    <3>1. /\ Restored(s).key = s.key /\ Restored(s).mcp = s.mcp
          /\ Restored(s).messages = s.messages
          /\ Restored(s).known = [k \in Keys |-> s.known[k] \cap ToSet(s.messages)]
      BY RestoredType
    <3>2. /\ Restored(u).key = u.key /\ Restored(u).mcp = u.mcp
          /\ Restored(u).messages = u.messages
          /\ Restored(u).known = [k \in Keys |-> u.known[k] \cap ToSet(u.messages)]
      BY <1>2, RestoredType
    <3> QED BY <1>5, <3>1, <3>2
  <2> HIDE DEF t
  <2>2. Restored(t) = Restored(v)
    BY <1>1, <1>2, <1>3, <2>1, RestoredIs
  <2> QED BY <2>2 DEF Settled, t, v
<1> QED BY <1>4, <1>5 DEF Settled, u

LEMMA CloseKeeps ==
  ASSUME IInv, closeConversation
  PROVE  IInv'
<1>1. /\ Shape /\ cmd.op = "close" /\ cmd \in CmdType /\ conv \in ConvType /\ next \in Ids
      /\ UNCHANGED <<host, queue, turn, live, held, next, disk, dropped, left>>
  BY DEF IInv, Shape, closeConversation
<1>2. conv' \in ConvType /\ ConvIs("closed", conv.epoch, conv.key, conv.mcp, conv.handle,
                                   conv.messages, conv.known)
  <2>1. conv' = [conv EXCEPT !.status = "closed"]
    BY DEF closeConversation
  <2> QED BY <1>1, <2>1, Names DEF ConvType, ConvIs
<1>3. cmd' \in CmdType /\ cmd'.op = "close" /\ cmd'.stage \in {"saving", "closing"}
  <2>1. PICK stage \in {"saving", "closing"} : cmd' = [cmd EXCEPT !.stage = stage]
    BY DEF closeConversation
  <2> QED BY <1>1, <2>1, Names DEF CmdType
<1>4. Pushed
  BY Names DEF closeConversation, Pushed
<1>5. Shape'
  BY <1>1, <1>2, <1>3, <1>4, TailType DEF Shape
<1>6. TextInv'
  <2>1. Sane(conv', next')
    BY <1>1, <1>2 DEF IInv, TextInv, Sane, ConvIs
  <2> QED BY <1>1, <1>4, <1>5, <2>1, TextKeeps DEF IInv, Ids
<1>7. IdInv' /\ SendInv' /\ CloseInv' /\ CmdInv' /\ DrainInv' /\ EnsureInv'
  BY <1>1, <1>2, <1>3
  DEF IInv, IdInv, SendInv, CloseInv, CmdInv, DrainInv, EnsureInv, ConvIs
<1>8. ASSUME left.patient PROVE PatientInv'
  <2>1. PatientInv
    BY <1>8 DEF IInv
  <2>2. OneAtATime' /\ KeyInv'
    BY <1>1, <1>2, <1>3, <2>1 DEF PatientInv, OneAtATime, KeyInv, Ends, ConvIs, Switches
  <2>3. HeldInv'
    <3>1. Backed(conv', held')
      BY <1>1, <1>2, <2>1 DEF PatientInv, HeldInv, Backed, ConvIs
    <3>2. Backed(disk', held') /\ \A i \in DOMAIN tail' : Backed(tail'[i].snapshot, held')
      BY <1>1, <1>4, <1>5, <2>1, <3>1, PushKeeps DEF PatientInv, HeldInv
    <3> QED BY <1>1, <2>1, <3>1, <3>2 DEF PatientInv, HeldInv
  <2>4. PromptInv'
    BY <1>1, <1>2, <2>1 DEF PatientInv, PromptInv, Before, ConvIs
  <2>5. SessionInv'
    <3>1. Outstanding' = Outstanding
      BY <1>1, <1>3 DEF Outstanding
    <3> QED BY <1>1, <1>2, <2>1, <3>1 DEF PatientInv, SessionInv, ConvIs
  <2> QED BY <2>2, <2>3, <2>4, <2>5 DEF PatientInv
<1>9. ASSUME left.sound PROVE SoundInv'
  <2>1. Settled(Latest, conv) => Settled(Latest, conv)'
    <3>1. CASE tail' = tail
      <4>1. Latest \in SnapType /\ Latest' = Latest
        <5>1. tail # <<>> => Len(tail) \in DOMAIN tail
          BY <1>1 DEF Shape
        <5> QED BY <1>1, <3>1, <5>1, TaskFields DEF Latest
      <4>2. Settled(Latest, conv) => Settled(Latest, conv')
        BY <1>1, <1>2, <4>1, ClosedSettles DEF ConvIs
      <4> QED BY <4>1, <4>2 DEF Settled
    <3> QED BY <1>1, <1>4, <3>1, PushSettles DEF Pushed
  <2> QED BY <1>1, <1>9, <2>1 DEF IInv, SoundInv
<1> QED BY <1>1, <1>5, <1>6, <1>7, <1>8, <1>9 DEF IInv

(* The session is closed, or the attachment changes, and all is saved.     *)
(* Under a patient user no turn is anywhere near when the key changes.     *)
LEMMA AttachmentKeeps ==
  ASSUME IInv, conv' \in ConvType,
         conv'.status = conv.status, conv'.epoch = conv.epoch, conv'.messages = conv.messages,
         conv'.known = conv.known, conv'.handle \in {conv.handle, "none"},
         (conv'.mcp = "connected") <=> (conv'.key = "mcp"),
         \/ conv'.key = conv.key
         \/ /\ left.patient => turn.stage \in {"none", "settle"}
            /\ conv'.handle = "none",
         cmd' \in CmdType, cmd.op # "send", cmd'.op # "send", CmdInv',
         cmd'.op = "close" => cmd.op = "close",
         left.patient /\ cmd'.op \in Switches =>
            queue = <<>> /\ turn.stage \in {"none", "settle"},
         live' \in SUBSET PromptType, Follows(live, live'), Persist("cmd"),
         left' \in Setting, Mode,
         UNCHANGED <<host, queue, turn, held, next, disk, dropped>>
  PROVE  IInv'
<1>1. Shape /\ next \in Ids
  BY DEF IInv, Shape
<1>2. Pushed
  BY Names DEF Pushed
<1>3. Shape'
  BY <1>1, <1>2, TailType DEF Shape
<1>4. TextInv'
  <2>1. Sane(conv', next')
    BY <1>1 DEF IInv, TextInv, Sane
  <2> QED BY <1>1, <1>2, <1>3, <2>1, TextKeeps DEF IInv, Ids
<1>5. \A q \in live' : \E p \in live : p.id = q.id
  BY DEF Follows
<1>6. IdInv'
  BY <1>5 DEF IInv, IdInv
<1>7. SendInv' /\ CloseInv' /\ DrainInv' /\ EnsureInv'
  BY DEF IInv, SendInv, CloseInv, DrainInv, EnsureInv
<1>8. ASSUME left.patient PROVE PatientInv'
  <2>1. PatientInv
    BY <1>8 DEF IInv
  <2>2. OneAtATime'
    BY <1>8, <2>1 DEF PatientInv, OneAtATime, Ends
  <2>3. KeyInv'
    BY <1>8, <2>1 DEF PatientInv, KeyInv, Started
  <2>4. HeldInv'
    <3>1. Backed(conv', held')
      BY <2>1 DEF PatientInv, HeldInv, Backed
    <3>2. Backed(disk', held') /\ \A i \in DOMAIN tail' : Backed(tail'[i].snapshot, held')
      BY <1>1, <1>2, <1>3, <2>1, <3>1, PushKeeps DEF PatientInv, HeldInv
    <3> QED BY <2>1, <3>1, <3>2 DEF PatientInv, HeldInv
  <2>5. PromptInv'
    BY <2>1 DEF PatientInv, PromptInv, Before, Follows
  <2>6. SessionInv'
    <3>1. Outstanding' = Outstanding
      BY DEF Outstanding
    <3> QED BY <2>1, <3>1 DEF PatientInv, SessionInv
  <2> QED BY <2>2, <2>3, <2>4, <2>5, <2>6 DEF PatientInv
<1>9. ASSUME left.sound PROVE SoundInv'
  <2>1. Settled(Latest, conv)'
    BY <1>1, PushSettles
  <2> QED BY <1>9, <2>1 DEF IInv, SoundInv, Follows
<1> QED BY <1>3, <1>4, <1>6, <1>7, <1>8, <1>9 DEF IInv, Mode
-----------------------------------------------------------------------------
(* The handle, the MCP and the session key. *)
Turns == {"attach", "refuse", "detach"}

LEMMA SwitchedIs ==
  ASSUME NEW c \in ConvType, NEW op \in Turns
  PROVE  LET d == Switched(c, op) IN
         /\ d \in ConvType
         /\ d.status = c.status /\ d.epoch = c.epoch /\ d.messages = c.messages
         /\ d.known = c.known /\ d.handle = c.handle
         /\ (d.mcp = "connected") <=> (d.key = "mcp")
         /\ op = "refuse" => d.key = "plain"
<1>1. CASE op = "attach"
  <2>1. Switched(c, op) = [c EXCEPT !.mcp = "connected", !.key = "mcp"]
    BY <1>1, Zenon DEF Switched
  <2> QED BY <1>1, <2>1, Names DEF ConvType
<1>2. CASE op = "refuse"
  <2>1. Switched(c, op) = [c EXCEPT !.mcp = "failed", !.key = "plain"]
    BY <1>2, Zenon DEF Switched
  <2> QED BY <1>2, <2>1, Names DEF ConvType
<1>3. CASE op = "detach"
  <2>1. Switched(c, op) = [c EXCEPT !.mcp = "none", !.key = "plain"]
    BY <1>3, Zenon DEF Switched
  <2> QED BY <1>3, <2>1, Names DEF ConvType
<1> QED BY <1>1, <1>2, <1>3 DEF Turns

LEMMA HandleClosedKeeps ==
  ASSUME IInv, HandleClosed
  PROVE  IInv'
<1>1. /\ Shape /\ cmd \in CmdType /\ conv \in ConvType /\ live \in SUBSET PromptType
      /\ left \in Setting /\ cmd.stage = "closing" /\ cmd.op \in {"cancel", "close"}
      /\ UNCHANGED <<host, queue, turn, live, held, next, disk, dropped, left>>
  BY DEF IInv, Shape, CmdInv, HandleClosed
<1>2. /\ conv' \in ConvType
      /\ ConvIs(conv.status, conv.epoch, conv.key, conv.mcp, "none", conv.messages, conv.known)
  <2>1. conv' = [conv EXCEPT !.handle = "none"]
    BY DEF HandleClosed
  <2> QED BY <1>1, <2>1, Names DEF ConvType, ConvIs
<1>3. cmd' \in CmdType /\ cmd'.op = cmd.op /\ cmd'.stage = "saving"
  <2>1. cmd' = [cmd EXCEPT !.stage = "saving"]
    BY DEF HandleClosed
  <2> QED BY <1>1, <2>1, Names DEF CmdType
<1>4. Persist("cmd") /\ Mode /\ Follows(live, live')
  BY <1>1, Unmoved DEF HandleClosed
<1>5. CmdInv' /\ cmd'.op \notin Switches /\ cmd'.op # "send" /\ cmd.op # "send"
  BY <1>1, <1>3 DEF CmdInv, Switches
<1>6. (conv'.mcp = "connected") <=> (conv'.key = "mcp")
  BY <1>2 DEF IInv, TextInv, Sane, ConvIs
<1> QED BY <1>1, <1>2, <1>3, <1>4, <1>5, <1>6, AttachmentKeeps DEF ConvIs

(* A switch that needs no session closed happens at once. *)
LEMMA ChangeKeeps ==
  ASSUME IInv, NEW op \in Turns, NEW detaches \in BOOLEAN, ChangeAttachment(op, detaches),
         ~detaches => op = "refuse" /\ conv.mcp # "connected",
         cmd.op # "send", left.patient => queue = <<>> /\ turn.stage \in {"none", "settle"},
         left' \in Setting, Mode,
         UNCHANGED <<host, queue, turn, live, held, next, disk, dropped>>
  PROVE  IInv'
<1>1. Shape /\ conv \in ConvType /\ live \in SUBSET PromptType
  BY DEF IInv, Shape
<1>2. PICK stage \in {"detaching", "saving"} : cmd' = [NoCommand EXCEPT !.op = op, !.stage = stage]
  BY DEF ChangeAttachment
<1>3. /\ cmd' \in CmdType /\ cmd'.op = op /\ cmd'.stage = stage /\ cmd'.op # "send"
      /\ cmd'.op # "close" /\ CmdInv'
  <2>1. cmd' \in CmdType /\ cmd'.op = op /\ cmd'.stage = stage
    BY <1>2, Names, Nothing DEF CmdType, Turns
  <2> QED BY <2>1 DEF CmdInv, Turns
<1>4. CASE detaches /\ conv.handle # "none"
  <2>1. UNCHANGED <<conv, tail>>
    BY <1>4 DEF ChangeAttachment
  <2>2. Shape'
    BY <1>1, <1>3, <2>1 DEF Shape
  <2>3. Quiet
    BY <1>1, <1>3, <2>1, <2>2, Unmoved DEF Quiet, Pushed, CommandGoesOn, Mode
  <2> QED BY <2>3, QuietKeeps
<1>5. CASE ~(detaches /\ conv.handle # "none")
  <2>1. conv' = Switched(conv, op) /\ Persist("cmd")
    BY <1>5 DEF ChangeAttachment
  <2>2. /\ conv' \in ConvType /\ conv'.status = conv.status /\ conv'.epoch = conv.epoch
        /\ conv'.messages = conv.messages /\ conv'.known = conv.known
        /\ conv'.handle = conv.handle /\ (conv'.mcp = "connected" <=> conv'.key = "mcp")
        /\ op = "refuse" => conv'.key = "plain"
    BY <1>1, <2>1, SwitchedIs
  <2>3. conv'.key = conv.key \/ conv'.handle = "none"
    <3>1. conv.key \in {"plain", "mcp"} /\ (conv.mcp = "connected" <=> conv.key = "mcp")
      BY <1>1 DEF IInv, TextInv, Sane, ConvType, Keys
    <3>2. CASE conv.handle = "none"
      BY <2>2, <3>2
    <3>3. CASE ~detaches
      BY <2>2, <3>1, <3>3
    <3> QED BY <1>5, <3>2, <3>3
  <2>4. Follows(live, live') /\ live' \in SUBSET PromptType
    BY <1>1, Unmoved
  <2>5. \/ conv'.key = conv.key
        \/ /\ left.patient => turn.stage \in {"none", "settle"}
           /\ conv'.handle = "none"
    BY <2>3
  <2>6. left.patient /\ cmd'.op \in Switches =>
           queue = <<>> /\ turn.stage \in {"none", "settle"}
    OBVIOUS
  <2>7. conv'.handle \in {conv.handle, "none"} /\ (cmd'.op = "close" => cmd.op = "close")
    BY <1>3, <2>2
  <2> QED BY <1>3, <2>1, <2>2, <2>4, <2>5, <2>6, <2>7, AttachmentKeeps
<1> QED BY <1>4, <1>5

LEMMA SwitchesKeep ==
  ASSUME IInv, ProbeAnswers \/ disableMcp
  PROVE  IInv'
<1>1. Shape /\ left \in Setting
  BY DEF IInv, Shape
<1>2. CASE ProbeAnswers
  <2>1. cmd.op = "enable" /\ Mode /\ left' \in Setting
    BY <1>1, <1>2, Unmoved DEF IInv, CmdInv, ProbeAnswers
  <2>2. left.patient => queue = <<>> /\ turn.stage \in {"none", "settle"}
    BY <2>1 DEF IInv, PatientInv, OneAtATime, Switches
  <2>3. PICK op \in Turns, detaches \in BOOLEAN :
          /\ ChangeAttachment(op, detaches)
          /\ ~detaches => op = "refuse" /\ conv.mcp # "connected"
    <3>1. CASE ChangeAttachment("attach", TRUE)
      BY <3>1 DEF Turns
    <3>2. CASE ChangeAttachment("refuse", conv.mcp = "connected")
      <4>1. "refuse" \in Turns /\ (conv.mcp = "connected") \in BOOLEAN
        BY DEF Turns
      <4> QED BY <3>2, <4>1, Zenon
    <3> QED BY <1>2, <3>1, <3>2 DEF ProbeAnswers
  <2> QED BY <1>2, <2>1, <2>2, <2>3, ChangeKeeps DEF ProbeAnswers
<1>3. CASE disableMcp
  <2>1. Mode /\ left' \in Setting
    BY <1>1, <1>3, SpendKeeps DEF disableMcp, Things
  <2>2. cmd.op # "send"
    BY <1>3, Nothing DEF disableMcp, Free
  <2>3. left.patient => queue = <<>> /\ turn.stage \in {"none", "settle"}
    <3>1. /\ turn.stage \notin {"prompt", "commit", "events", "consume", "result"}
          /\ conv.status \notin {"running", "queued", "closed"}
      BY <1>3 DEF disableMcp, requireSettledForMcpSwitch, Active
    <3>2. left.patient => queue = <<>> /\ turn.stage # "ensure"
      BY <3>1 DEF IInv, PatientInv, OneAtATime
    <3>3. turn.stage \in Stages
      BY <1>1 DEF Shape, TurnType
    <3> QED BY <3>1, <3>2, <3>3 DEF Stages
  <2>4. ChangeAttachment("detach", TRUE) /\ "detach" \in Turns
    BY <1>3 DEF disableMcp, Turns
  <2> QED BY <1>3, <2>1, <2>2, <2>3, <2>4, ChangeKeeps DEF disableMcp
<1> QED BY <1>2, <1>3

LEMMA HandleDetachedKeeps ==
  ASSUME IInv, HandleDetached
  PROVE  IInv'
<1>1. /\ Shape /\ cmd \in CmdType /\ conv \in ConvType /\ live \in SUBSET PromptType
      /\ left \in Setting /\ cmd.stage = "detaching" /\ cmd.op \in Turns
      /\ UNCHANGED <<host, queue, turn, held, next, disk, dropped, left>>
  BY DEF IInv, Shape, CmdInv, HandleDetached, Turns
<1>2. /\ conv' \in ConvType /\ conv'.status = conv.status /\ conv'.epoch = conv.epoch
      /\ conv'.messages = conv.messages /\ conv'.known = conv.known
      /\ conv'.handle = "none" /\ (conv'.mcp = "connected" <=> conv'.key = "mcp")
  <2>1. PICK d : d = Switched(conv, cmd.op)
    OBVIOUS
  <2>2. /\ d \in ConvType /\ d.status = conv.status /\ d.epoch = conv.epoch
        /\ d.messages = conv.messages /\ d.known = conv.known
        /\ (d.mcp = "connected") <=> (d.key = "mcp")
    BY <1>1, <2>1, SwitchedIs
  <2>3. conv' = [d EXCEPT !.handle = "none", !.pending = FALSE]
    BY <2>1 DEF HandleDetached
  <2> QED BY <2>2, <2>3, Names DEF ConvType
<1>3. cmd' \in CmdType /\ cmd'.op = cmd.op /\ cmd'.stage = "saving"
  <2>1. cmd' = [cmd EXCEPT !.stage = "saving"]
    BY DEF HandleDetached
  <2> QED BY <1>1, <2>1, Names DEF CmdType
<1>4. live' \in SUBSET PromptType /\ Follows(live, live') /\ Persist("cmd") /\ Mode
  BY <1>1, ReleasedFollows, Unmoved DEF HandleDetached
<1>5. CmdInv' /\ cmd.op # "send" /\ cmd'.op # "send" /\ cmd'.op # "close" /\ cmd.op \in Switches
  BY <1>1, <1>3 DEF CmdInv, Turns, Switches
<1>6. left.patient => queue = <<>> /\ turn.stage \in {"none", "settle"}
  BY <1>5 DEF IInv, PatientInv, OneAtATime
<1>7. \/ conv'.key = conv.key
      \/ /\ left.patient => turn.stage \in {"none", "settle"}
         /\ conv'.handle = "none"
  BY <1>2, <1>6
<1>8. left.patient /\ cmd'.op \in Switches => queue = <<>> /\ turn.stage \in {"none", "settle"}
  BY <1>6
<1>9. conv'.handle \in {conv.handle, "none"} /\ (cmd'.op = "close" => cmd.op = "close")
  BY <1>2, <1>5
<1> QED BY <1>1, <1>2, <1>3, <1>4, <1>5, <1>7, <1>8, <1>9, AttachmentKeeps
-----------------------------------------------------------------------------
(* The store. *)

LEMMA TailLeaves ==
  ASSUME Shape, tail # <<>>
  PROVE  /\ 1 \in DOMAIN tail /\ Head(tail) = tail[1] /\ Head(tail) \in TaskType
         /\ Head(tail).snapshot \in SnapType
         /\ Tail(tail) \in Seq(TaskType)
         /\ \A i \in DOMAIN Tail(tail) : i + 1 \in DOMAIN tail /\ Tail(tail)[i] = tail[i + 1]
         /\ IF Tail(tail) = <<>>
            THEN Len(tail) = 1
            ELSE Tail(tail)[Len(Tail(tail))] = tail[Len(tail)]
<1>1. tail \in Seq(TaskType)
  BY DEF Shape
<1>2. /\ Len(tail) \in Nat /\ Len(tail) >= 1 /\ DOMAIN tail = 1..Len(tail)
      /\ Head(tail) = tail[1] /\ Head(tail) \in TaskType
  BY <1>1
<1>3. /\ Tail(tail) \in Seq(TaskType) /\ DOMAIN Tail(tail) = 1..(Len(tail) - 1)
      /\ Len(Tail(tail)) = Len(tail) - 1
      /\ \A i \in 1..(Len(tail) - 1) : Tail(tail)[i] = tail[i + 1]
  BY <1>1, <1>2
<1>4. Tail(tail) = <<>> => Len(tail) = 1
  <2>1. Tail(tail) = <<>> => Len(Tail(tail)) = 0
    OBVIOUS
  <2> QED BY <1>2, <1>3, <2>1
<1>5. Tail(tail) # <<>> => Tail(tail)[Len(Tail(tail))] = tail[Len(tail)]
  <2>1. Tail(tail) # <<>> => Len(Tail(tail)) # 0
    BY <1>3
  <2> QED BY <1>2, <1>3, <2>1
<1>6. Head(tail).snapshot \in SnapType
  BY <1>2 DEF TaskType
<1> QED BY <1>2, <1>3, <1>4, <1>5, <1>6

(* Nothing but the tail, the disk and the news of a lost save changes. *)
LEMMA StoreKeeps ==
  ASSUME IInv, Shape', Sane(disk', next), left.patient => Backed(disk', held),
         \A i \in DOMAIN tail' : \E j \in DOMAIN tail : tail'[i] = tail[j],
         left.sound => Latest' = Latest /\ turn' = turn,
         TurnIs(turn.stage, turn.id, turn.key, turn.seed, turn.touched, turn'.lost),
         CmdIs(cmd.op, cmd.stage, cmd.id, cmd.epoch), Mode,
         UNCHANGED <<host, conv, queue, live, held, next, dropped>>
  PROVE  IInv'
<1>1. TextInv' /\ CmdInv' /\ CloseInv'
  BY DEF IInv, TextInv, CmdInv, CloseInv, CmdIs
<1>2. IdInv' /\ SendInv' /\ DrainInv' /\ EnsureInv'
  BY DEF IInv, IdInv, SendInv, DrainInv, EnsureInv, CmdIs, TurnIs
<1>3. ASSUME left.patient PROVE PatientInv'
  <2>1. PatientInv /\ Backed(disk', held)
    BY <1>3 DEF IInv
  <2>2. OneAtATime' /\ KeyInv'
    BY <2>1 DEF PatientInv, OneAtATime, KeyInv, Ends, CmdIs, TurnIs
  <2>3. HeldInv'
    BY <2>1 DEF PatientInv, HeldInv, TurnIs
  <2>4. PromptInv'
    BY <2>1 DEF PatientInv, PromptInv, Before, TurnIs
  <2>5. SessionInv'
    <3>1. Outstanding' = Outstanding
      BY DEF Outstanding, CmdIs, TurnIs
    <3> QED BY <2>1, <3>1 DEF PatientInv, SessionInv
  <2> QED BY <2>2, <2>3, <2>4, <2>5 DEF PatientInv
<1>4. ASSUME left.sound PROVE SoundInv'
  <2>1. SoundInv /\ Latest' = Latest /\ turn' = turn
    BY <1>4 DEF IInv
  <2>2. Settled(Latest, conv) => Settled(Latest, conv)'
    BY <2>1 DEF Settled
  <2> QED BY <2>1, <2>2 DEF SoundInv
<1> QED BY <1>1, <1>2, <1>3, <1>4 DEF IInv, Mode

LEMMA SavesKeep ==
  ASSUME IInv, SaveTranscript \/ SaveIndex
  PROVE  IInv'
<1>1. /\ Shape /\ tail # <<>>
      /\ UNCHANGED <<host, conv, queue, turn, cmd, live, held, next, dropped, left>>
  BY DEF IInv, SaveTranscript, SaveIndex
<1> DEFINE s == Head(tail).snapshot
<1>2. /\ s \in SnapType /\ Sane(s, next) /\ disk \in SnapType /\ Sane(disk, next)
      /\ left.patient => Backed(s, held) /\ Backed(disk, held)
  <2>1. 1 \in DOMAIN tail /\ Head(tail) = tail[1] /\ s \in SnapType /\ disk \in SnapType
    BY <1>1, TailLeaves DEF Shape
  <2> QED BY <2>1 DEF IInv, TextInv, PatientInv, HeldInv
<1>3. TurnIs(turn.stage, turn.id, turn.key, turn.seed, turn.touched, turn'.lost)
        /\ CmdIs(cmd.op, cmd.stage, cmd.id, cmd.epoch) /\ Mode
  BY <1>1 DEF TurnIs, CmdIs, Mode
<1>4. CASE SaveTranscript
  <2>1. tail' = tail /\ disk' = [disk EXCEPT !.messages = s.messages]
    BY <1>4 DEF SaveTranscript
  <2> HIDE DEF s
  <2>2. /\ disk' \in SnapType /\ disk'.messages = s.messages /\ disk'.key = disk.key
        /\ disk'.mcp = disk.mcp /\ disk'.known = disk.known
    BY <1>2, <2>1 DEF SnapType
  <2>3. Sane(disk', next) /\ (left.patient => Backed(disk', held))
    BY <1>2, <2>2 DEF Sane, Backed
  <2>4. Shape'
    BY <1>1, <2>1, <2>2 DEF Shape
  <2>5. Latest' = Latest /\ \A i \in DOMAIN tail' : \E j \in DOMAIN tail : tail'[i] = tail[j]
    BY <1>1, <2>1 DEF Latest
  <2> QED BY <1>1, <1>3, <2>3, <2>4, <2>5, StoreKeeps
<1>5. CASE SaveIndex
  <2>1. tail' = Tail(tail) /\ disk' = s
    BY <1>5 DEF SaveIndex
  <2>2. Shape'
    BY <1>1, <1>2, <2>1, TailLeaves DEF Shape
  <2>3. Latest' = Latest
    BY <1>1, <2>1, TailLeaves DEF Latest
  <2>4. \A i \in DOMAIN tail' : \E j \in DOMAIN tail : tail'[i] = tail[j]
    BY <1>1, <2>1, TailLeaves
  <2>5. Sane(disk', next) /\ (left.patient => Backed(disk', held))
    BY <1>2, <2>1
  <2> QED BY <1>1, <1>3, <2>2, <2>3, <2>4, <2>5, StoreKeeps
<1> QED BY <1>4, <1>5

LEMMA SaveFailsKeeps ==
  ASSUME IInv, SaveFails
  PROVE  IInv'
<1>1. /\ Shape /\ tail # <<>> /\ tail' = Tail(tail) /\ ~left.sound
      /\ UNCHANGED <<host, conv, queue, live, held, next, disk, dropped>>
  BY DEF IInv, SaveFails
<1>2. left' \in Setting /\ Mode
  BY <1>1, SpendKeeps DEF Shape, SaveFails, Things
<1>3. /\ turn' \in TurnType
      /\ TurnIs(turn.stage, turn.id, turn.key, turn.seed, turn.touched, turn'.lost)
  <2>1. PICK l : l = (turn.lost \/ Head(tail).owner = "turn")
    OBVIOUS
  <2>2. l \in BOOLEAN /\ turn' = [turn EXCEPT !.lost = l] /\ turn \in TurnType
    BY <1>1, <2>1 DEF SaveFails, Shape
  <2> QED BY <2>2 DEF TurnType, TurnIs
<1>4. cmd' \in CmdType /\ CmdIs(cmd.op, cmd.stage, cmd.id, cmd.epoch)
  <2>1. PICK l : l = (cmd.lost \/ Head(tail).owner = "cmd")
    OBVIOUS
  <2>2. l \in BOOLEAN /\ cmd' = [cmd EXCEPT !.lost = l] /\ cmd \in CmdType
    BY <1>1, <2>1 DEF SaveFails, Shape
  <2> QED BY <2>2 DEF CmdType, CmdIs
<1>5. Shape'
  BY <1>1, <1>2, <1>3, <1>4, TailLeaves DEF Shape
<1>6. \A i \in DOMAIN tail' : \E j \in DOMAIN tail : tail'[i] = tail[j]
  BY <1>1, TailLeaves
<1>7. Sane(disk', next) /\ (left.patient => Backed(disk', held))
  BY <1>1 DEF IInv, TextInv, PatientInv, HeldInv
<1> QED BY <1>1, <1>2, <1>3, <1>4, <1>5, <1>6, <1>7, StoreKeeps
-----------------------------------------------------------------------------
(* stop() after its cancels, the death of the host, and the beginning. *)

LEMMA StopStepsKeep ==
  ASSUME IInv, StopDrained \/ StopClosed
  PROVE  IInv'
<1>1. /\ Shape /\ conv \in ConvType /\ host # "ready" /\ host' \in {"closing", "flushing"}
      /\ turn.stage = "none"
      /\ UNCHANGED <<queue, turn, cmd, live, held, next, tail, disk, dropped, left>>
  BY Nothing DEF IInv, Shape, DrainInv, StopDrained, StopClosed
<1>2. /\ conv' \in ConvType /\ conv'.handle \in {conv.handle, "none"}
      /\ ConvIs(conv.status, conv.epoch, conv.key, conv.mcp, conv'.handle, conv.messages,
                conv.known)
  <2>1. CASE conv' = conv
    BY <1>1, <2>1 DEF ConvIs
  <2>2. CASE conv' = [conv EXCEPT !.handle = "none"]
    BY <1>1, <2>2, Names DEF ConvType, ConvIs
  <2> QED BY <2>1, <2>2 DEF StopDrained, StopClosed
<1>3. Shape'
  BY <1>1, <1>2, Names DEF Shape
<1>4. TextInv' /\ IdInv' /\ SendInv' /\ CloseInv' /\ CmdInv' /\ DrainInv' /\ EnsureInv'
  BY <1>1, <1>2
  DEF IInv, TextInv, Sane, IdInv, SendInv, CloseInv, CmdInv, DrainInv, EnsureInv, ConvIs
<1>5. ASSUME left.patient PROVE PatientInv'
  <2>1. PatientInv
    BY <1>5 DEF IInv
  <2>2. OneAtATime' /\ KeyInv'
    BY <1>1, <1>2, <2>1 DEF PatientInv, OneAtATime, KeyInv, Ends, ConvIs
  <2>3. HeldInv'
    BY <1>1, <1>2, <2>1 DEF PatientInv, HeldInv, Backed, ConvIs
  <2>4. PromptInv'
    BY <1>1, <1>2, <2>1 DEF PatientInv, PromptInv, Before, ConvIs
  <2>5. SessionInv'
    BY <1>1 DEF SessionInv
  <2> QED BY <2>2, <2>3, <2>4, <2>5 DEF PatientInv
<1>6. ASSUME left.sound PROVE SoundInv'
  <2>1. Stored(conv') = Stored(conv)
    BY <1>2 DEF Stored, ConvIs
  <2>2. Latest' = Latest
    BY <1>1 DEF Latest
  <2>3. Settled(Latest, conv) => Settled(Latest, conv)'
    BY <1>2, <2>1, <2>2 DEF Settled, ConvIs
  <2> QED BY <1>1, <1>6, <2>3 DEF IInv, SoundInv
<1> QED BY <1>1, <1>3, <1>4, <1>5, <1>6 DEF IInv

(* Nothing is under way any more. *)
LEMMA ResetKeeps ==
  ASSUME IInv, host' \in Hosts, conv' \in ConvType, Sane(conv', next),
         left.patient => Backed(conv', held) /\ conv'.handle \in {"none", conv'.key},
         host' = "down" \/ conv'.handle = "none",
         left.sound => Settled(disk, conv'),
         queue' = <<>>, turn' = NoTurn, cmd' = NoCommand, live' = {}, tail' = <<>>,
         left' \in Setting, Mode, UNCHANGED <<held, next, disk, dropped>>
  PROVE  IInv'
<1>1. Shape /\ next \in Ids
  BY DEF IInv, Shape
<1>2. DOMAIN tail' = {} /\ DOMAIN queue' = {}
  OBVIOUS
<1>3. Shape'
  <2>1. tail' \in Seq(TaskType) /\ queue' \in Seq(Entries) /\ live' \subseteq PromptType
    OBVIOUS
  <2> QED BY <1>1, <2>1, Nothing DEF Shape
<1>4. TextInv'
  BY <1>2 DEF IInv, TextInv
<1>5. IdInv' /\ SendInv' /\ CloseInv' /\ CmdInv' /\ DrainInv' /\ EnsureInv'
  BY <1>1, <1>2, Nothing
  DEF IInv, IdInv, SendInv, CloseInv, CmdInv, DrainInv, EnsureInv, Started, Ids
<1>6. ASSUME left.patient PROVE PatientInv'
  <2>1. PatientInv /\ Backed(conv', held) /\ conv'.handle \in {"none", conv'.key}
    BY <1>6 DEF IInv
  <2>2. OneAtATime' /\ KeyInv' /\ PromptInv' /\ SessionInv'
    BY <2>1, Nothing
    DEF OneAtATime, KeyInv, PromptInv, SessionInv, Switches, Started, Confirmed
  <2>3. HeldInv'
    BY <1>2, <2>1, Nothing DEF PatientInv, HeldInv, Started
  <2> QED BY <2>2, <2>3 DEF PatientInv
<1>7. ASSUME left.sound PROVE SoundInv'
  <2>1. Settled(Latest, conv)'
    BY <1>7 DEF Latest, Settled
  <2> QED BY <2>1, Nothing DEF SoundInv
<1> QED BY <1>3, <1>4, <1>5, <1>6, <1>7 DEF IInv, Mode

LEMMA StopFlushedKeeps ==
  ASSUME IInv, StopFlushed
  PROVE  IInv'
<1>1. /\ Shape /\ conv \in ConvType /\ left \in Setting /\ turn.stage = "none"
      /\ host' = "down" /\ tail = <<>> /\ UNCHANGED <<conv, held, next, tail, disk, dropped, left>>
  BY DEF IInv, Shape, DrainInv, StopFlushed
<1>2. left.sound => Settled(disk, conv')
  BY <1>1 DEF IInv, SoundInv, Latest, Settled
<1>3. /\ Sane(conv', next)
      /\ left.patient => Backed(conv', held) /\ conv'.handle \in {"none", conv'.key}
  BY <1>1 DEF IInv, TextInv, PatientInv, HeldInv, KeyInv
<1> QED BY <1>1, <1>2, <1>3, ResetKeeps, Names, Unmoved DEF StopFlushed

(* The next process has what the disk had, and owes the agent nothing. *)
LEMMA CrashKeeps ==
  ASSUME IInv, Crash
  PROVE  IInv'
<1>1. Shape /\ disk \in SnapType /\ host' = "ready" /\ conv' = Restored(disk)
  BY DEF IInv, Shape, Crash
<1>2. left' \in Setting /\ Mode
  BY <1>1, SpendKeeps DEF Shape, Crash, Things
<1>3. /\ conv' \in ConvType /\ conv'.key = disk.key /\ conv'.mcp = disk.mcp
      /\ conv'.handle = "none" /\ conv'.messages = disk.messages
      /\ \A k \in Keys : conv'.known[k] \subseteq disk.known[k]
  BY <1>1, RestoredType
<1>4. Sane(conv', next)
  BY <1>3 DEF IInv, TextInv, Sane
<1>5. left.patient => Backed(conv', held)
  BY <1>3 DEF IInv, PatientInv, HeldInv, Backed
<1>6. Settled(disk, conv')
  BY <1>1, RestoredAgain DEF Settled
<1> QED BY <1>1, <1>2, <1>3, <1>4, <1>5, <1>6, ResetKeeps, Names DEF Crash

LEMMA InitOK ==
  ASSUME Init
  PROVE  IInv
<1>1. PICK e : e = [k \in Keys |-> {}]
  OBVIOUS
<1>2. e \in [Keys -> SUBSET Ids] /\ \A k \in Keys : e[k] = {}
  BY <1>1
<1>3. conv = [status |-> "idle", epoch |-> 0, key |-> "plain", mcp |-> "none",
              handle |-> "none", messages |-> <<>>, known |-> e, pending |-> FALSE]
  BY <1>1 DEF Init, Created
<1>4. /\ conv \in ConvType /\ conv.status = "idle" /\ conv.messages = <<>> /\ conv.key = "plain"
      /\ conv.mcp = "none" /\ conv.handle = "none" /\ conv.known = e
  <2>1. <<>> \in Seq(Ids) /\ 0 \in Nat /\ FALSE \in BOOLEAN
    OBVIOUS
  <2> QED BY <1>2, <1>3, <2>1, Names DEF ConvType
<1>5. /\ disk = Stored(conv) /\ disk \in SnapType /\ disk.messages = <<>> /\ disk.key = "plain"
      /\ disk.mcp = "none" /\ \A k \in Keys : disk.known[k] = {}
  <2>1. disk = Stored(conv)
    BY DEF Init
  <2> QED BY <1>2, <1>4, <2>1, StoredType
<1>6. /\ host = "ready" /\ queue = <<>> /\ turn = NoTurn /\ cmd = NoCommand /\ live = {}
      /\ held = e /\ next = 1 /\ tail = <<>> /\ dropped = {} /\ left \in Setting
  BY <1>1, SettingsAssumption DEF Init
<1>7. /\ DOMAIN tail = {} /\ DOMAIN queue = {}
      /\ DOMAIN conv.messages = {} /\ DOMAIN disk.messages = {}
  BY <1>4, <1>5, <1>6
<1>8. Shape
  <2>1. tail \in Seq(TaskType) /\ queue \in Seq(Entries) /\ live \subseteq PromptType
    BY <1>6
  <2>2. next \in Ids /\ dropped \subseteq Ids
    BY <1>6 DEF Ids
  <2> QED BY <1>2, <1>4, <1>5, <1>6, <2>1, <2>2, Nothing, Names DEF Shape
<1>9. TextInv
  BY <1>4, <1>5, <1>6, <1>7 DEF TextInv, Sane, IsInjective
<1>10. IdInv /\ SendInv /\ CloseInv /\ CmdInv /\ DrainInv /\ EnsureInv
  BY <1>4, <1>6, <1>7, Nothing
  DEF IdInv, SendInv, CloseInv, CmdInv, DrainInv, EnsureInv, Started
<1>11. PatientInv
  <2>1. OneAtATime /\ KeyInv /\ PromptInv /\ SessionInv
    BY <1>4, <1>6, Nothing
    DEF OneAtATime, KeyInv, PromptInv, SessionInv, Switches, Started, Confirmed
  <2>2. HeldInv
    BY <1>2, <1>4, <1>5, <1>6, <1>7, Nothing DEF HeldInv, Backed, Started
  <2> QED BY <2>1, <2>2 DEF PatientInv
<1>12. SoundInv
  BY <1>5, <1>6, Nothing DEF SoundInv, Settled, Latest
<1> QED BY <1>8, <1>9, <1>10, <1>11, <1>12 DEF IInv
-----------------------------------------------------------------------------
(* Every step. *)

LEMMA StepOK ==
  ASSUME IInv, [Next]_vars
  PROVE  IInv'
<1>1. CASE UserStep
  BY <1>1, EnqueueKeeps, CancelKeeps, CommandStepsKeep, SwitchesKeep, StopKeeps DEF UserStep
<1>2. CASE CommandStep
  BY <1>2, CommandSavedKeeps, CommandStepsKeep, CloseKeeps, HandleClosedKeeps, SwitchesKeep,
     HandleDetachedKeeps DEF CommandStep
<1>3. CASE TurnStep
  BY <1>3, SkipTurnKeeps, DropTurnKeeps, BeginTurnKeeps, SessionEnsuredKeeps,
     PromptConfirmedKeeps, TurnSavedKeeps, ConsumeEventKeeps, EventsEndKeeps, TurnResultKeeps,
     TurnSettledKeeps DEF TurnStep
<1>4. CASE StoreStep
  BY <1>4, SavesKeep DEF StoreStep
<1>5. CASE StopStep
  BY <1>5, QuestionsKeep, StopStepsKeep, StopFlushedKeeps DEF StopStep
<1>6. CASE AgentAccepts \/ AgentAsks \/ UserAnswers \/ AgentEnds
  BY <1>6, AgentAcceptsKeeps, QuestionsKeep
<1>7. CASE Failure
  BY <1>7, CommandStepsKeep, EnsureFailsKeeps, PromptDiesKeeps, SaveFailsKeeps DEF Failure
<1>8. CASE Crash
  BY <1>8, CrashKeeps
<1>9. CASE UNCHANGED vars
  <2>1. /\ Shape /\ left' = left
        /\ UNCHANGED <<host, conv, queue, turn, cmd, live, held, next, tail, disk, dropped>>
    BY <1>9 DEF vars, IInv
  <2>2. Shape'
    BY <2>1 DEF Shape
  <2>3. Quiet
    BY <2>1, <2>2, Unmoved DEF Quiet, Pushed, CommandGoesOn
  <2> QED BY <2>3, QuietKeeps
<1> QED BY <1>1, <1>2, <1>3, <1>4, <1>5, <1>6, <1>7, <1>8, <1>9 DEF Next

(* Every variable keeps its shape, a message is in one place on its way to *)
(* the agent, and what the settings promise of keys, prompts and saves     *)
(* holds: the inductive invariant of coordinator.ts.                       *)
THEOREM ChatInvariant == Spec => []IInv
<1>1. Init => IInv
  BY InitOK
<1>2. IInv /\ [Next]_vars => IInv'
  BY StepOK
<1> QED BY <1>1, <1>2, PTL DEF Spec

LEMMA InvariantTypes ==
  ASSUME IInv
  PROVE  TypeOK
<1>1. /\ Shape /\ conv \in ConvType /\ turn \in TurnType /\ cmd \in CmdType /\ disk \in SnapType
      /\ queue \in Seq(Entries) /\ tail \in Seq(TaskType)
  BY DEF IInv, Shape
<1>2. /\ conv.status \in Statuses /\ conv.epoch \in Nat /\ conv.key \in Keys /\ conv.mcp \in Mcps
      /\ conv.handle \in Handles /\ conv.messages \in Seq(Ids) /\ conv.pending \in BOOLEAN
      /\ conv.known \in [Keys -> SUBSET Ids]
  BY <1>1 DEF ConvType
<1>3. /\ turn.stage \in Stages /\ turn.id \in Ids \cup {0} /\ turn.key \in Handles
      /\ turn.seed \subseteq Ids /\ turn.touched \subseteq Ids
  BY <1>1 DEF TurnType
<1>4. cmd.op \in Ops /\ cmd.stage \in CmdStages /\ disk.status \in Statuses
  BY <1>1 DEF CmdType, SnapType
<1>5. \A i \in DOMAIN tail : tail[i].owner \in Owners
  <2>1. \A i \in DOMAIN tail : tail[i] \in TaskType
    BY <1>1
  <2> QED BY <2>1 DEF TaskType
<1>6. IsInjective(conv.messages) /\ (conv.mcp = "connected" <=> conv.key = "mcp")
  BY DEF IInv, TextInv, Sane
<1>7. /\ queue \in Seq([id : Ids, epoch : Nat])
      /\ live \subseteq [id : Ids, key : Keys, text : SUBSET Ids,
                         phase : {"sent", "work", "asking"}]
  BY <1>1 DEF Shape, Entries, PromptType, Phases
<1>8. /\ host \in {"ready", "cancelling", "draining", "closing", "flushing", "down"}
      /\ held \in [Keys -> SUBSET Ids] /\ next \in Ids /\ left \in Setting /\ dropped \subseteq Ids
  BY <1>1 DEF Shape, Hosts
<1> QED
  BY <1>2, <1>3, <1>4, <1>5, <1>6, <1>7, <1>8
  DEF TypeOK, Mcps, Handles, Stages, Ops, CmdStages, Owners

(* The ids recorded for a session key are messages that agent session      *)
(* holds, and the agent that has a turn's prompt has every earlier message *)
(* not cancelled, whatever was cancelled, failed, switched or restarted in *)
(* between (knownByKey, seedContextFor, markKnown).                        *)
THEOREM AgentAlwaysKnows == Spec => []AgentKnows
<1>1. ASSUME IInv PROVE AgentKnows
  <2>1. left.patient => PatientInv
    BY <1>1 DEF IInv
  <2>2. KnownIsHeld
    BY <2>1 DEF KnownIsHeld, PatientInv, HeldInv, Backed
  <2>3. ContextReachesAgent
    BY <2>1 DEF ContextReachesAgent, PatientInv, PromptInv, Before, Confirmed
  <2> QED BY <2>2, <2>3 DEF AgentKnows
<1> QED BY <1>1, ChatInvariant, PTL

(* Every variable has its type, a turn cancelled in the queue never runs   *)
(* (queueEpoch), no agent session works on two prompts while no save is    *)
(* rejected (#runTurn awaits the turn's result), and an orderly #stop      *)
(* leaves on disk what the next process has to restore.                    *)
THEOREM ConversationStaysSound == Spec => []ConversationIsSound
<1>1. ASSUME IInv PROVE ConversationIsSound
  <2>1. TypeOK
    BY <1>1, InvariantTypes
  <2>2. CancelledNeverRuns
    <3>1. turn.stage \in Stages
      BY <1>1 DEF IInv, Shape, TurnType
    <3> QED BY <1>1, <3>1 DEF IInv, IdInv, CancelledNeverRuns, Started, Stages
  <2>3. OnePromptPerSession
    BY <1>1 DEF IInv, SoundInv, OnePromptPerSession
  <2>4. StopSavesAll
    <3>1. left.sound /\ host = "flushing" /\ tail = <<>> => Settled(disk, conv)
      BY <1>1 DEF IInv, DrainInv, SoundInv, Latest
    <3> QED BY <3>1 DEF StopSavesAll, Settled
  <2> QED BY <2>1, <2>2, <2>3, <2>4 DEF ConversationIsSound
<1> QED BY <1>1, ChatInvariant, PTL

------------------------------------------------------------------------------
(***************************************************************************)
(* The work the host saves (WorkArchive): what each result, byte file and  *)
(* queued snapshot is, and where the bytes of an entry are on their way.   *)
(***************************************************************************)

Kept == [Conversations -> Seq(EntryType)]
BytesTask == [kind : {"bytes"}, owner : Conversations, digest : Digests]
SaveTask == [kind : {"save"}, owner : Conversations \cup {"none"}, saved : Kept]
CaptureType ==
  {NoCapture} \cup
  [stage : {"fetch", "write", "save"}, failed : BOOLEAN, call : Calls, digest : Digests,
   revision : Nat \ {0}]
ReaderType ==
  {NoReader} \cup
  [stage : {"loaded"}, conversation : Conversations, call : Calls, digest : Digests,
   found : BOOLEAN]

ArchiveShape ==
  /\ results \in Kept /\ manifest \in Kept
  /\ capture \in [Conversations -> CaptureType] /\ reader \in ReaderType
  /\ writes \in Seq(BytesTask \cup SaveTask) /\ indexed \in BOOLEAN
  /\ bytes \subseteq Digests
  /\ issued \in [Conversations -> SUBSET ((Nat \ {0}) \X Calls)]
  /\ unbacked \in [Conversations -> SUBSET EntryType]
  /\ budget \in ArchiveSetting

(* What a conversation keeps: one entry of a call and of a revision. *)
SaneWork(saved) ==
  \A c \in Conversations :
    /\ Len(saved[c]) <= budget.keep
    /\ \A i, j \in DOMAIN saved[c] : saved[c][i].call = saved[c][j].call => i = j
    /\ \A i, j \in DOMAIN saved[c] : saved[c][i].revision = saved[c][j].revision => i = j
    /\ saved[c] # <<>> =>
         \E i \in DOMAIN saved[c] :
           \A j \in DOMAIN saved[c] : saved[c][j].revision <= saved[c][i].revision

IsSave(i) == writes[i].kind = "save"

(* So are the results, the index on disk and every snapshot on its way.      *)
KeptInv ==
  /\ SaneWork(results) /\ SaneWork(manifest)
  /\ \A i \in DOMAIN writes : IsSave(i) => SaneWork(writes[i].saved)

(* What is kept carries issued revisions, the newest of them among it, and a *)
(* capture about to append has its call's or one above all that were issued. *)
RevisionInv ==
  \A c \in Conversations :
    /\ \A i \in DOMAIN results[c] : <<results[c][i].revision, results[c][i].call>> \in issued[c]
    /\ \A p, q \in issued[c] : p[1] = q[1] => p[2] = q[2]
    /\ \A p \in issued[c] : \E i \in DOMAIN results[c] : p[1] <= results[c][i].revision
    /\ capture[c].stage = "fetch" =>
         \/ \E i \in DOMAIN results[c] :
              /\ results[c][i].call = capture[c].call
              /\ results[c][i].revision = capture[c].revision
         \/ /\ \A i \in DOMAIN results[c] : results[c][i].call # capture[c].call
            /\ \A p \in issued[c] : p[1] < capture[c].revision

(* The index written is that of the head, and a write in the tail is the one *)
(* its owner waits for.                                                      *)
TailInv ==
  /\ indexed => writes # <<>> /\ IsSave(1) /\ manifest = writes[1].saved
  /\ \A i \in DOMAIN writes : ~IsSave(i) =>
       /\ capture[writes[i].owner].stage = "write" /\ ~capture[writes[i].owner].failed
       /\ capture[writes[i].owner].digest = writes[i].digest
  /\ \A i, j \in DOMAIN writes : ~IsSave(i) /\ ~IsSave(j) /\ writes[i].owner = writes[j].owner => i = j
  /\ \A c \in Conversations : capture[c].failed => capture[c].stage = "write"

(* The saves in these places of the tail refer to the digest. *)
Named(d, places) ==
  \A i \in places : IsSave(i) => d \in referencedArtifactDigests(writes[i].saved)

OnDisk(d) == d \in bytes /\ Named(d, DOMAIN writes)

(* The write of this entry is on its way, and no save behind it forgets it;  *)
(* or it was rejected and the capture knows.                                 *)
OnItsWay(c, e) ==
  /\ capture[c].stage = "write" /\ capture[c].call = e.call /\ capture[c].digest = e.digest
  /\ \/ capture[c].failed
     \/ \E j \in DOMAIN writes :
          /\ ~IsSave(j) /\ writes[j].owner = c
          /\ Named(e.digest, {i \in DOMAIN writes : i > j})

(* Every entry called saved is settled, or its bytes are on their way.       *)
EntryInv ==
  \A c \in Conversations : \A i \in DOMAIN results[c] :
    results[c][i].state = "saved" /\ results[c][i] \notin unbacked[c] =>
      OnDisk(results[c][i].digest) \/ OnItsWay(c, results[c][i])

(* When the tail has come to this place the bytes are there. *)
Present(d, n) ==
  \/ d \in bytes /\ Named(d, {i \in DOMAIN writes : i < n})
  \/ \E j \in DOMAIN writes :
       /\ j < n /\ ~IsSave(j) /\ writes[j].digest = d
       /\ Named(d, {i \in DOMAIN writes : j < i /\ i < n})

(* On a sound store no snapshot comes to the disk before its bytes.          *)
DiskInv ==
  /\ budget.failure = 0
  /\ \A c \in Conversations : ~capture[c].failed /\ unbacked[c] = {}
  /\ referencedArtifactDigests(manifest) \subseteq bytes
  /\ \A n \in DOMAIN writes : IsSave(n) =>
       \A d \in referencedArtifactDigests(writes[n].saved) : Present(d, n)

ArchiveInv ==
  ArchiveShape /\ KeptInv /\ RevisionInv /\ TailInv /\ EntryInv /\ (budget.sound => DiskInv)
------------------------------------------------------------------------------
(* What the tail, the manifests and the captures are made of. *)

LEMMA KeptFields ==
  ASSUME NEW saved \in Kept, NEW c \in Conversations
  PROVE  /\ saved[c] \in Seq(EntryType)
         /\ \A i \in DOMAIN saved[c] :
              /\ saved[c][i] \in EntryType /\ saved[c][i].call \in Calls
              /\ saved[c][i].digest \in Digests /\ saved[c][i].revision \in Nat \ {0}
              /\ saved[c][i].state \in {"saved", "missing"}
<1>1. saved[c] \in Seq(EntryType)
  BY DEF Kept
<1>2. \A i \in DOMAIN saved[c] : saved[c][i] \in EntryType
  BY <1>1
<1> QED BY <1>1, <1>2 DEF EntryType

LEMMA ReferencedIs ==
  ASSUME NEW saved \in Kept
  PROVE  \A d : d \in referencedArtifactDigests(saved) <=>
           \E c \in Conversations : \E i \in DOMAIN saved[c] :
             saved[c][i].state = "saved" /\ saved[c][i].digest = d
BY DEF referencedArtifactDigests, ToSet

LEMMA ArchiveTaskFields ==
  ASSUME ArchiveShape
  PROVE  \A i \in DOMAIN writes :
           /\ writes[i] \in BytesTask \cup SaveTask
           /\ IsSave(i) => writes[i] \in SaveTask /\ writes[i].saved \in Kept
           /\ ~IsSave(i) => /\ writes[i] \in BytesTask /\ writes[i].owner \in Conversations
                            /\ writes[i].digest \in Digests /\ writes[i].kind = "bytes"
<1>1. writes \in Seq(BytesTask \cup SaveTask)
  BY DEF ArchiveShape
<1>2. \A i \in DOMAIN writes : writes[i] \in BytesTask \cup SaveTask
  BY <1>1
<1>3. \A t \in SaveTask : t.kind = "save" /\ t.saved \in Kept
  BY DEF SaveTask
<1>4. \A t \in BytesTask : t.kind = "bytes" /\ t.owner \in Conversations /\ t.digest \in Digests
  BY DEF BytesTask
<1> QED BY <1>2, <1>3, <1>4 DEF IsSave

LEMMA CaptureFields ==
  ASSUME ArchiveShape, NEW c \in Conversations
  PROVE  /\ capture[c] \in CaptureType
         /\ capture[c].stage \in {"none", "fetch", "write", "save"}
         /\ capture[c].failed \in BOOLEAN
         /\ capture[c].stage = "none" => capture[c] = NoCapture
         /\ capture[c].stage # "none" =>
              /\ capture[c] \in [stage : {"fetch", "write", "save"}, failed : BOOLEAN,
                                 call : Calls, digest : Digests, revision : Nat \ {0}]
              /\ capture[c].call \in Calls /\ capture[c].digest \in Digests
              /\ capture[c].revision \in Nat \ {0}
<1>1. capture[c] \in CaptureType
  BY DEF ArchiveShape
<1>2. CASE capture[c] = NoCapture
  BY <1>1, <1>2 DEF NoCapture
<1>3. CASE capture[c] \in [stage : {"fetch", "write", "save"}, failed : BOOLEAN,
                           call : Calls, digest : Digests, revision : Nat \ {0}]
  BY <1>1, <1>3
<1> QED BY <1>1, <1>2, <1>3 DEF CaptureType

(* A task joins the tail. *)
LEMMA TailPushed ==
  ASSUME ArchiveShape, NEW t, writes' = Append(writes, t)
  PROVE  /\ Len(writes) \in Nat /\ DOMAIN writes = 1..Len(writes)
         /\ DOMAIN writes' = 1..(Len(writes) + 1) /\ Len(writes) + 1 \notin DOMAIN writes
         /\ \A i \in DOMAIN writes : i \in DOMAIN writes' /\ writes'[i] = writes[i]
         /\ writes'[Len(writes) + 1] = t
         /\ writes' # <<>>
         /\ t \in BytesTask \cup SaveTask => writes' \in Seq(BytesTask \cup SaveTask)
<1>1. writes \in Seq(BytesTask \cup SaveTask)
  BY DEF ArchiveShape
<1> QED BY <1>1

(* The task at the head leaves. *)
LEMMA TailPopped ==
  ASSUME ArchiveShape, writes # <<>>, writes' = Tail(writes)
  PROVE  /\ 1 \in DOMAIN writes /\ Head(writes) = writes[1]
         /\ writes' \in Seq(BytesTask \cup SaveTask)
         /\ \A i \in DOMAIN writes' : i \in Nat \ {0} /\ i + 1 \in DOMAIN writes /\ writes'[i] = writes[i + 1]
         /\ \A i \in DOMAIN writes :
              i \in Nat \ {0} /\ (i # 1 => i - 1 \in DOMAIN writes' /\ writes'[i - 1] = writes[i])
<1>1. writes \in Seq(BytesTask \cup SaveTask)
  BY DEF ArchiveShape
<1>2. /\ Len(writes) \in Nat /\ Len(writes) >= 1 /\ DOMAIN writes = 1..Len(writes)
      /\ Head(writes) = writes[1]
  BY <1>1
<1>3. /\ writes' \in Seq(BytesTask \cup SaveTask) /\ DOMAIN writes' = 1..(Len(writes) - 1)
      /\ \A i \in 1..(Len(writes) - 1) : writes'[i] = writes[i + 1]
  BY <1>1, <1>2
<1> QED BY <1>2, <1>3

LEMMA SpendFields ==
  ASSUME budget \in ArchiveSetting, NEW thing \in {"capture", "touch", "read", "failure", "crash"},
         SpendBudget(thing)
  PROVE  /\ budget' \in ArchiveSetting /\ budget'.keep = budget.keep /\ budget'.sound = budget.sound
         /\ budget.failure = 0 => budget'.failure = 0 /\ thing # "failure"
BY DEF SpendBudget, ArchiveSetting

(* The snapshot that joins the tail names all that is saved. *)
LEMMA SnapshotIs ==
  ASSUME results' \in Kept, NEW o \in Conversations \cup {"none"}
  PROVE  /\ Snapshot(o) \in SaveTask /\ Snapshot(o).kind = "save"
         /\ Snapshot(o).saved = results'
BY DEF Snapshot, SaveTask
------------------------------------------------------------------------------
(* Steps that leave the results and the tail alone. *)

RevisionFits(c) ==
  capture[c].stage = "fetch" =>
    \/ \E i \in DOMAIN results[c] :
         /\ results[c][i].call = capture[c].call
         /\ results[c][i].revision = capture[c].revision
    \/ /\ \A i \in DOMAIN results[c] : results[c][i].call # capture[c].call
       /\ \A p \in issued[c] : p[1] < capture[c].revision

Terms == /\ budget'.keep = budget.keep /\ budget'.sound = budget.sound
         /\ budget.failure = 0 => budget'.failure = 0

LEMMA StillKeeps ==
  ASSUME ArchiveInv, ArchiveShape', Terms, UNCHANGED <<results, writes, bytes, issued, unbacked>>,
         \A c \in Conversations :
           \/ capture'[c] = capture[c]
           \/ /\ capture[c].stage # "write" /\ capture'[c].stage # "write"
              /\ ~capture'[c].failed /\ RevisionFits(c)',
         \/ UNCHANGED <<manifest, indexed>>
         \/ writes # <<>> /\ IsSave(1) /\ manifest' = writes[1].saved
  PROVE  ArchiveInv'
<1>1. ArchiveShape /\ writes \in Seq(BytesTask \cup SaveTask)
  BY DEF ArchiveInv, ArchiveShape
<1>2. writes # <<>> => 1 \in DOMAIN writes
  BY <1>1
<1>3. KeptInv'
  BY <1>2 DEF ArchiveInv, KeptInv, SaneWork, IsSave, Terms
<1>4. RevisionInv'
  <2>1. SUFFICES ASSUME NEW c \in Conversations
                 PROVE  /\ \A i \in DOMAIN results[c] :
                             <<results[c][i].revision, results[c][i].call>> \in issued[c]
                        /\ \A p, q \in issued[c] : p[1] = q[1] => p[2] = q[2]
                        /\ \A p \in issued[c] :
                             \E i \in DOMAIN results[c] : p[1] <= results[c][i].revision
                        /\ RevisionFits(c)'
    BY <2>1 DEF RevisionInv, RevisionFits
  <2>2. capture'[c] = capture[c] => RevisionFits(c)'
    BY DEF ArchiveInv, RevisionInv, RevisionFits
  <2> QED BY <2>2 DEF ArchiveInv, RevisionInv
<1>5. TailInv'
  <2>1. \A i \in DOMAIN writes : ~IsSave(i) =>
          capture'[writes[i].owner] = capture[writes[i].owner]
    BY <1>1, ArchiveTaskFields DEF ArchiveInv, TailInv
  <2>2. indexed' => writes # <<>> /\ IsSave(1) /\ manifest' = writes[1].saved
    BY DEF ArchiveInv, TailInv
  <2> QED BY <2>1, <2>2 DEF ArchiveInv, TailInv, IsSave
<1>6. EntryInv'
  <2>1. SUFFICES ASSUME NEW c \in Conversations, NEW i \in DOMAIN results[c],
                        results[c][i].state = "saved", results[c][i] \notin unbacked[c]
                 PROVE  OnDisk(results[c][i].digest)' \/ OnItsWay(c, results[c][i])'
    BY <2>1 DEF EntryInv
  <2>2. OnDisk(results[c][i].digest) => OnDisk(results[c][i].digest)'
    BY DEF OnDisk, Named, IsSave
  <2>3. OnItsWay(c, results[c][i]) => OnItsWay(c, results[c][i])'
    <3>1. capture[c].stage = "write" => capture'[c] = capture[c]
      OBVIOUS
    <3> QED BY <3>1 DEF OnItsWay, Named, IsSave
  <2> QED BY <2>1, <2>2, <2>3 DEF ArchiveInv, EntryInv
<1>7. ASSUME budget.sound PROVE DiskInv'
  <2>1. DiskInv
    BY <1>7 DEF ArchiveInv
  <2>2. referencedArtifactDigests(manifest') \subseteq bytes
    <3>1. CASE writes # <<>> /\ IsSave(1) /\ manifest' = writes[1].saved
      <4>1. \A d \in referencedArtifactDigests(writes[1].saved) : Present(d, 1)
        BY <1>2, <2>1, <3>1 DEF DiskInv
      <4>2. \A j \in DOMAIN writes : ~(j < 1)
        BY <1>1
      <4> QED BY <3>1, <4>1, <4>2 DEF Present
    <3> QED BY <2>1, <3>1 DEF DiskInv
  <2>3. \A n \in DOMAIN writes : IsSave(n) =>
          \A d \in referencedArtifactDigests(writes[n].saved) : Present(d, n)'
    BY <2>1 DEF DiskInv, Present, Named, IsSave
  <2> QED BY <2>1, <2>2, <2>3 DEF DiskInv, IsSave, Terms
<1> QED BY <1>3, <1>4, <1>5, <1>6, <1>7 DEF ArchiveInv, Terms

LEMMA CaptureKeeps ==
  ASSUME ArchiveInv, NEW c \in Conversations, NEW call \in Calls, NEW digest \in Digests,
         captureToolResult(c, call, digest)
  PROVE  ArchiveInv'
<1>1. /\ ArchiveShape /\ capture[c].stage = "none" /\ budget \in ArchiveSetting
      /\ UNCHANGED <<results, reader, writes, indexed, manifest, bytes, issued, unbacked>>
  BY DEF ArchiveInv, ArchiveShape, captureToolResult, NoCapture
<1>2. budget' \in ArchiveSetting /\ Terms
  BY <1>1, SpendFields DEF captureToolResult, Terms
<1>3. results[c] \in Seq(EntryType) /\ \A i \in DOMAIN results[c] :
        results[c][i].revision \in Nat \ {0}
  BY <1>1, KeptFields DEF ArchiveShape
<1>4. PICK r : r = Revision(c, call)
  OBVIOUS
<1>5. /\ r \in Nat \ {0}
      /\ \/ \E i \in DOMAIN results[c] : results[c][i].call = call /\ results[c][i].revision = r
         \/ /\ \A i \in DOMAIN results[c] : results[c][i].call # call
            /\ \A p \in issued[c] : p[1] < r
  <2>1. CASE \E e \in EntriesOf(c) : e.call = call
    <3>1. PICK e \in EntriesOf(c) : e.call = call /\ r = e.revision
      BY <1>4, <2>1 DEF Revision
    <3> QED BY <1>3, <3>1 DEF EntriesOf, ToSet
  <2>2. CASE ~\E e \in EntriesOf(c) : e.call = call
    <3>1. r = maxToolRevision(c) + 1
      BY <1>4, <2>2, Zenon DEF Revision
    <3>2. \A i \in DOMAIN results[c] : results[c][i].call # call
      BY <2>2 DEF EntriesOf, ToSet
    <3>3. /\ maxToolRevision(c) \in Nat
          /\ \A i \in DOMAIN results[c] : results[c][i].revision <= maxToolRevision(c)
      <4>1. CASE results[c] = <<>>
        BY <4>1 DEF maxToolRevision
      <4>2. CASE results[c] # <<>>
        <5>1. PICK i \in DOMAIN results[c] :
                \A j \in DOMAIN results[c] : results[c][j].revision <= results[c][i].revision
          BY <4>2 DEF ArchiveInv, KeptInv, SaneWork
        <5>2. \E n \in {e.revision : e \in EntriesOf(c)} : \A e \in EntriesOf(c) : e.revision <= n
          BY <5>1 DEF EntriesOf, ToSet
        <5>3. /\ maxToolRevision(c) \in {e.revision : e \in EntriesOf(c)}
              /\ \A e \in EntriesOf(c) : e.revision <= maxToolRevision(c)
          BY <4>2, <5>2 DEF maxToolRevision
        <5> QED BY <1>3, <5>3 DEF EntriesOf, ToSet
      <4> QED BY <4>1, <4>2
    <3>4. \A p \in issued[c] : p[1] < r
      <4>1. \A p \in issued[c] : p[1] \in Nat /\ \E i \in DOMAIN results[c] :
              p[1] <= results[c][i].revision
        BY <1>1 DEF ArchiveInv, RevisionInv, ArchiveShape
      <4> QED BY <1>3, <3>1, <3>3, <4>1
    <3> QED BY <3>1, <3>2, <3>3, <3>4
  <2> QED BY <2>1, <2>2
<1>6. /\ capture'[c] = [stage |-> "fetch", failed |-> FALSE, call |-> call, digest |-> digest,
                        revision |-> r]
      /\ \A b \in Conversations : b # c => capture'[b] = capture[b]
      /\ capture' \in [Conversations -> CaptureType]
  <2>1. PICK k : k = [stage |-> "fetch", failed |-> FALSE, call |-> call, digest |-> digest,
                      revision |-> r]
    OBVIOUS
  <2>2. k \in CaptureType
    BY <1>5, <2>1 DEF CaptureType
  <2>3. capture' = [capture EXCEPT ![c] = k] /\ capture \in [Conversations -> CaptureType]
    BY <1>1, <1>4, <2>1 DEF captureToolResult, ArchiveShape
  <2> QED BY <2>1, <2>2, <2>3
<1>7. ArchiveShape'
  BY <1>1, <1>2, <1>6 DEF ArchiveShape
<1>8. RevisionFits(c)'
  BY <1>1, <1>5, <1>6 DEF RevisionFits
<1>9. \A b \in Conversations :
           \/ capture'[b] = capture[b]
           \/ /\ capture[b].stage # "write" /\ capture'[b].stage # "write"
              /\ ~capture'[b].failed /\ RevisionFits(b)'
  BY <1>1, <1>6, <1>8
<1> QED BY <1>1, <1>2, <1>7, <1>9, StillKeeps

LEMMA CaptureSavedKeeps ==
  ASSUME ArchiveInv, NEW c \in Conversations, CaptureSaved(c)
  PROVE  ArchiveInv'
<1>1. /\ ArchiveShape /\ capture[c].stage = "save"
      /\ UNCHANGED <<results, reader, writes, indexed, manifest, bytes, issued, unbacked, budget>>
  BY DEF ArchiveInv, CaptureSaved
<1>2. /\ capture'[c] = NoCapture /\ \A b \in Conversations : b # c => capture'[b] = capture[b]
      /\ capture' \in [Conversations -> CaptureType]
  BY <1>1 DEF CaptureSaved, ArchiveShape, CaptureType
<1>3. ArchiveShape' /\ Terms
  BY <1>1, <1>2 DEF ArchiveShape, Terms
<1>4. capture'[c].stage = "none" /\ ~capture'[c].failed /\ RevisionFits(c)'
  BY <1>2 DEF NoCapture, RevisionFits
<1>5. \A b \in Conversations :
           \/ capture'[b] = capture[b]
           \/ /\ capture[b].stage # "write" /\ capture'[b].stage # "write"
              /\ ~capture'[b].failed /\ RevisionFits(b)'
  BY <1>1, <1>2, <1>4
<1> QED BY <1>1, <1>3, <1>5, StillKeeps

LEMMA LoadKeeps ==
  ASSUME ArchiveInv, NEW c \in Conversations, NEW e \in EntriesOf(c), loadArtifact(c, e)
  PROVE  ArchiveInv'
<1>1. /\ ArchiveShape /\ budget \in ArchiveSetting
      /\ UNCHANGED <<results, capture, writes, indexed, manifest, bytes, issued, unbacked>>
  BY DEF ArchiveInv, ArchiveShape, loadArtifact
<1>2. budget' \in ArchiveSetting /\ Terms
  BY <1>1, SpendFields DEF loadArtifact, Terms
<1>3. reader' \in ReaderType
  <2>1. e.call \in Calls /\ e.digest \in Digests
    BY <1>1, KeptFields DEF EntriesOf, ToSet, ArchiveShape
  <2>2. PICK b : b = (e.digest \in bytes)
    OBVIOUS
  <2>3. b \in BOOLEAN
    BY <2>2
  <2>4. reader' = [stage |-> "loaded", conversation |-> c, call |-> e.call,
                   digest |-> e.digest, found |-> b]
    BY <2>2 DEF loadArtifact
  <2> QED BY <2>1, <2>3, <2>4 DEF ReaderType
<1>4. ArchiveShape'
  BY <1>1, <1>2, <1>3 DEF ArchiveShape
<1> QED BY <1>1, <1>2, <1>4, StillKeeps

LEMMA SaveIndexKeeps ==
  ASSUME ArchiveInv, WriteIndex
  PROVE  ArchiveInv'
<1>1. /\ ArchiveShape /\ writes # <<>> /\ writes \in Seq(BytesTask \cup SaveTask)
      /\ UNCHANGED <<results, capture, reader, writes, bytes, issued, unbacked, budget>>
  BY DEF ArchiveInv, ArchiveShape, WriteIndex
<1>2. 1 \in DOMAIN writes /\ Head(writes) = writes[1]
  BY <1>1
<1>3. IsSave(1) /\ manifest' = writes[1].saved /\ indexed' = TRUE
  BY <1>2 DEF WriteIndex, IsSave
<1>4. ArchiveShape' /\ Terms
  BY <1>1, <1>2, <1>3, ArchiveTaskFields DEF ArchiveShape, Terms
<1> QED BY <1>1, <1>3, <1>4, StillKeeps
------------------------------------------------------------------------------
(* An entry joins what a conversation keeps. *)

Distinct(s) ==
  /\ \A i, j \in DOMAIN s : s[i].call = s[j].call => i = j
  /\ \A i, j \in DOMAIN s : s[i].revision = s[j].revision => i = j

(* What is left of a sequence when a call has left it. *)
OthersOf(s, call, o) ==
  /\ o \in Seq(EntryType) /\ Len(o) <= Len(s) /\ Distinct(o)
  /\ \A i \in DOMAIN o : \E j \in DOMAIN s : o[i] = s[j] /\ s[j].call # call
  /\ \A j \in DOMAIN s : s[j].call # call => \E i \in DOMAIN o : o[i] = s[j]
  /\ (\E j \in DOMAIN s : s[j].call = call) => Len(o) < Len(s)

(* What a sequence of `keep` at most becomes when an entry has joined it. *)
JoinedBy(s, e, keep, a) ==
  /\ a \in Seq(EntryType) /\ a # <<>> /\ Len(a) \in DOMAIN a /\ a[Len(a)] = e
  /\ Len(a) <= keep /\ Distinct(a)
  /\ \A i \in DOMAIN a : i # Len(a) =>
       \E j \in DOMAIN s : a[i] = s[j] /\ a[i].call # e.call
  /\ (\E j \in DOMAIN s : s[j].call = e.call) =>
       \A j \in DOMAIN s : s[j].call # e.call => \E i \in DOMAIN a : a[i] = s[j]

LEMMA OthersAre ==
  ASSUME NEW s \in Seq(EntryType), NEW call, Distinct(s), NEW o, o = Others(s, call)
  PROVE  OthersOf(s, call, o)
<1>1. CASE ~\E i \in DOMAIN s : s[i].call = call
  BY <1>1 DEF Others, OthersOf
<1>2. CASE \E i \in DOMAIN s : s[i].call = call
  <2>1. PICK k \in DOMAIN s : s[k].call = call /\ Others(s, call) = RemoveAt(s, k)
    BY <1>2 DEF Others
  <2>3. /\ k \in 1..Len(s) /\ Len(s) \in Nat /\ DOMAIN s = 1..Len(s)
    OBVIOUS
  <2>4. /\ o = SubSeq(s, 1, k - 1) \o SubSeq(s, k + 1, Len(s))
    BY <2>1 DEF RemoveAt
  <2>5. /\ o \in Seq(EntryType) /\ Len(o) = Len(s) - 1 /\ DOMAIN o = 1..(Len(s) - 1)
        /\ \A i \in 1..(Len(s) - 1) : o[i] = s[IF i < k THEN i ELSE i + 1]
    <3>1. PICK p, q : p = SubSeq(s, 1, k - 1) /\ q = SubSeq(s, k + 1, Len(s))
      OBVIOUS
    <3>2. /\ p \in Seq(EntryType) /\ Len(p) = k - 1
          /\ \A i \in 1..(k - 1) : p[i] = s[i]
      BY <2>3, <3>1
    <3>3. /\ q \in Seq(EntryType) /\ Len(q) = Len(s) - k
          /\ \A i \in 1..(Len(s) - k) : q[i] = s[k + i]
      BY <2>3, <3>1
    <3>4. o = p \o q
      BY <2>4, <3>1
    <3>5. o \in Seq(EntryType) /\ Len(o) = Len(s) - 1
      <4>1. o \in Seq(EntryType) /\ Len(o) = Len(p) + Len(q)
        BY <3>2, <3>3, <3>4
      <4> QED BY <2>3, <3>2, <3>3, <4>1
    <3>6. ASSUME NEW i \in 1..(Len(s) - 1) PROVE o[i] = s[IF i < k THEN i ELSE i + 1]
      <4>1. CASE i < k
        BY <2>3, <3>2, <3>3, <3>4, <4>1
      <4>2. CASE i >= k
        <5>1. i - (k - 1) \in 1..(Len(s) - k) /\ k + (i - (k - 1)) = i + 1
          BY <2>3, <3>6, <4>2
        <5>2. o[i] = q[i - (k - 1)]
          BY <2>3, <3>2, <3>3, <3>4, <4>2
        <5> QED BY <2>3, <3>3, <4>2, <5>1, <5>2
      <4> QED BY <2>3, <4>1, <4>2
    <3> QED BY <2>3, <3>5, <3>6
  <2>6. \A j \in DOMAIN s : s[j].call = call => j = k
    BY <2>1 DEF Distinct
  <2>7. \A i \in DOMAIN o : \E j \in DOMAIN s :
          o[i] = s[j] /\ j # k /\ (i < k => j = i) /\ (i >= k => j = i + 1)
    <3>1. SUFFICES ASSUME NEW i \in DOMAIN o
                   PROVE  \E j \in DOMAIN s :
                            o[i] = s[j] /\ j # k /\ (i < k => j = i) /\ (i >= k => j = i + 1)
      OBVIOUS
    <3>2. CASE i < k
      BY <2>3, <2>5, <3>2
    <3>3. CASE i >= k
      BY <2>3, <2>5, <3>3
    <3> QED BY <2>3, <2>5, <3>2, <3>3
  <2>8. \A j \in DOMAIN s : j # k => \E i \in DOMAIN o : o[i] = s[j]
    <3>1. SUFFICES ASSUME NEW j \in DOMAIN s, j # k PROVE \E i \in DOMAIN o : o[i] = s[j]
      OBVIOUS
    <3>2. CASE j < k
      BY <2>3, <2>5, <3>2
    <3>3. CASE j > k
      <4>1. j - 1 \in DOMAIN o /\ ~(j - 1 < k) /\ (j - 1) + 1 = j
        BY <2>3, <2>5, <3>3
      <4>2. o[j - 1] = s[j]
        BY <2>5, <4>1
      <4> QED BY <4>1, <4>2
    <3> QED BY <2>3, <3>1, <3>2, <3>3
  <2>9. Distinct(o)
    <3>1. SUFFICES ASSUME NEW i \in DOMAIN o, NEW j \in DOMAIN o,
                          o[i].call = o[j].call \/ o[i].revision = o[j].revision
                   PROVE  i = j
      BY DEF Distinct
    <3>2. PICK a \in DOMAIN s : o[i] = s[a] /\ (i < k => a = i) /\ (i >= k => a = i + 1) /\ a # k
      BY <2>7
    <3>3. PICK b \in DOMAIN s : o[j] = s[b] /\ (j < k => b = j) /\ (j >= k => b = j + 1) /\ b # k
      BY <2>7
    <3>4. a = b
      BY <3>1, <3>2, <3>3 DEF Distinct
    <3> QED BY <2>3, <2>5, <3>2, <3>3, <3>4
  <2>10. /\ \A i \in DOMAIN o : \E j \in DOMAIN s : o[i] = s[j] /\ s[j].call # call
         /\ \A j \in DOMAIN s : s[j].call # call => \E i \in DOMAIN o : o[i] = s[j]
    BY <2>1, <2>6, <2>7, <2>8
  <2>11. Len(o) <= Len(s) /\ Len(o) < Len(s)
    BY <2>3, <2>5
  <2> QED BY <2>5, <2>9, <2>10, <2>11 DEF OthersOf
<1> QED BY <1>1, <1>2

LEMMA AppendedIs ==
  ASSUME NEW c, NEW s \in Seq(EntryType), s = results[c], NEW e \in EntryType,
         budget.keep \in Nat \ {0}, Len(s) <= budget.keep, Distinct(s),
         \A j \in DOMAIN s : s[j].revision = e.revision => s[j].call = e.call,
         NEW a, a = Appended(c, e)
  PROVE  JoinedBy(s, e, budget.keep, a)
<1>1. PICK o : o = Others(s, e.call)
  OBVIOUS
<1>2. /\ o \in Seq(EntryType) /\ Len(o) <= Len(s) /\ Distinct(o)
      /\ \A i \in DOMAIN o : \E j \in DOMAIN s : o[i] = s[j] /\ s[j].call # e.call
      /\ \A j \in DOMAIN s : s[j].call # e.call => \E i \in DOMAIN o : o[i] = s[j]
      /\ (\E j \in DOMAIN s : s[j].call = e.call) => Len(o) < Len(s)
  <2>1. OthersOf(s, e.call, o)
    BY <1>1, OthersAre
  <2> QED BY <2>1 DEF OthersOf
<1>3. Len(s) \in Nat /\ Len(o) \in Nat /\ DOMAIN o = 1..Len(o) /\ budget.keep \in Nat \ {0}
  BY <1>2
<1>4. PICK all : all = Append(o, e)
  OBVIOUS
<1>5. PICK f : f = IF Len(all) > budget.keep THEN Len(all) - budget.keep + 1 ELSE 1
  OBVIOUS
<1>6. a = SubSeq(all, f, Len(all))
  BY <1>1, <1>4, <1>5 DEF Appended
<1>7. /\ all \in Seq(EntryType) /\ Len(all) = Len(o) + 1 /\ all[Len(o) + 1] = e
      /\ \A i \in 1..Len(o) : all[i] = o[i]
  BY <1>2, <1>3, <1>4
<1>8. /\ f \in 1..(Len(o) + 1) /\ Len(o) + 1 - f + 1 <= budget.keep
      /\ Len(o) < budget.keep => f = 1
  BY <1>3, <1>5, <1>7
<1>9. /\ a \in Seq(EntryType) /\ Len(a) = Len(o) + 2 - f /\ DOMAIN a = 1..(Len(o) + 2 - f)
      /\ \A i \in 1..(Len(o) + 2 - f) : a[i] = all[f + i - 1]
  BY <1>3, <1>6, <1>7, <1>8
<1>10. /\ a # <<>> /\ Len(a) \in DOMAIN a /\ a[Len(a)] = e /\ Len(a) <= budget.keep
  BY <1>3, <1>7, <1>8, <1>9
<1>11. \A i \in DOMAIN a : i # Len(a) => f + i - 1 \in DOMAIN o /\ a[i] = o[f + i - 1]
  <2>1. SUFFICES ASSUME NEW i \in DOMAIN a, i # Len(a)
                 PROVE  f + i - 1 \in DOMAIN o /\ a[i] = o[f + i - 1]
    OBVIOUS
  <2>2. f + i - 1 \in 1..Len(o) /\ i \in 1..(Len(o) + 2 - f)
    BY <1>3, <1>8, <1>9, <2>1
  <2> QED BY <1>3, <1>7, <1>9, <2>2
<1>12. \A i \in DOMAIN a : i # Len(a) =>
         /\ \E j \in DOMAIN s : a[i] = s[j]
         /\ a[i].call # e.call /\ a[i].revision # e.revision
  <2>1. SUFFICES ASSUME NEW i \in DOMAIN a, i # Len(a)
                 PROVE  /\ \E j \in DOMAIN s : a[i] = s[j]
                        /\ a[i].call # e.call /\ a[i].revision # e.revision
    OBVIOUS
  <2>2. PICK j \in DOMAIN s : a[i] = s[j] /\ s[j].call # e.call
    BY <1>2, <1>11, <2>1
  <2> QED BY <2>2
<1>13. Distinct(a)
  <2>1. SUFFICES ASSUME NEW i \in DOMAIN a, NEW j \in DOMAIN a,
                        a[i].call = a[j].call \/ a[i].revision = a[j].revision
                 PROVE  i = j
    BY DEF Distinct
  <2>2. CASE i = Len(a) \/ j = Len(a)
    BY <1>10, <1>12, <2>1, <2>2
  <2>3. CASE i # Len(a) /\ j # Len(a)
    <3>1. f + i - 1 = f + j - 1
      BY <1>2, <1>11, <2>1, <2>3 DEF Distinct
    <3> QED BY <1>3, <1>8, <1>9, <3>1
  <2> QED BY <2>2, <2>3
<1>14. ASSUME NEW k \in DOMAIN s, s[k].call = e.call, NEW j \in DOMAIN s, s[j].call # e.call
       PROVE  \E i \in DOMAIN a : a[i] = s[j]
  <2>1. PICK i \in DOMAIN o : o[i] = s[j]
    BY <1>2, <1>14
  <2>2. Len(o) < budget.keep
    <3>1. Len(o) < Len(s)
      BY <1>2, <1>14
    <3> QED BY <1>3, <3>1
  <2>3. f = 1
    BY <1>8, <2>2
  <2>4. i \in DOMAIN a /\ f + i - 1 = i
    BY <1>3, <1>9, <2>3
  <2>5. a[i] = all[i] /\ all[i] = o[i]
    BY <1>3, <1>7, <1>9, <2>3, <2>4
  <2> QED BY <2>1, <2>4, <2>5
<1> QED BY <1>9, <1>10, <1>12, <1>13, <1>14 DEF JoinedBy
------------------------------------------------------------------------------
(* A capture appends its entry. *)

LEMMA AppendResultKeeps ==
  ASSUME ArchiveInv, NEW c \in Conversations, AppendResult(c)
  PROVE  ArchiveInv'
<1>1. /\ ArchiveShape /\ budget \in ArchiveSetting /\ capture[c].stage = "fetch"
      /\ UNCHANGED <<reader, indexed, manifest, bytes, unbacked, budget>>
  BY DEF ArchiveInv, ArchiveShape, AppendResult
<1>2. /\ results \in Kept /\ issued \in [Conversations -> SUBSET ((Nat \ {0}) \X Calls)]
      /\ capture \in [Conversations -> CaptureType] /\ budget.keep \in Nat \ {0}
  BY <1>1 DEF ArchiveShape, ArchiveSetting
<1>3. PICK k : k = capture[c]
  OBVIOUS
<1>4. /\ k \in [stage : {"fetch", "write", "save"}, failed : BOOLEAN, call : Calls,
                digest : Digests, revision : Nat \ {0}]
      /\ k.stage = "fetch" /\ k.failed \in BOOLEAN /\ k.call \in Calls /\ k.digest \in Digests
      /\ k.revision \in Nat \ {0}
  BY <1>1, <1>3, CaptureFields
<1>5. ~k.failed
  BY <1>3, <1>4 DEF ArchiveInv, TailInv
<1>6. PICK state \in fetchArchivePayloads :
        /\ results' = [results EXCEPT ![c] = Appended(c,
             [call |-> k.call, digest |-> k.digest, revision |-> k.revision,
              state |-> state])]
        /\ writes' = IF state = "missing" THEN writes
                   ELSE Append(writes, [kind |-> "bytes", owner |-> c, digest |-> k.digest])
  BY <1>3 DEF AppendResult
<1>7. PICK e : e = [call |-> k.call, digest |-> k.digest, revision |-> k.revision,
                    state |-> state]
  OBVIOUS
<1>8. /\ e \in EntryType /\ e.call = k.call /\ e.digest = k.digest
      /\ e.revision = k.revision /\ e.state = state
  BY <1>4, <1>6, <1>7 DEF EntryType, fetchArchivePayloads
<1>9. PICK a : a = Appended(c, e)
  OBVIOUS
<1>10. PICK s : s = results[c]
  OBVIOUS
<1>11. results' = [results EXCEPT ![c] = a]
  BY <1>6, <1>7, <1>9
<1>12. /\ s \in Seq(EntryType) /\ Len(s) <= budget.keep
       /\ \A i \in DOMAIN s : s[i].revision \in Nat \ {0}
  BY <1>2, <1>10, KeptFields DEF ArchiveInv, KeptInv, SaneWork
<1>13. Distinct(s)
  BY <1>10 DEF ArchiveInv, KeptInv, SaneWork, Distinct
<1>14. /\ \A i \in DOMAIN s : <<s[i].revision, s[i].call>> \in issued[c]
       /\ \A p, q \in issued[c] : p[1] = q[1] => p[2] = q[2]
       /\ \A p \in issued[c] : \E i \in DOMAIN s : p[1] <= s[i].revision
       /\ \/ \E i \in DOMAIN s : s[i].call = e.call /\ s[i].revision = e.revision
          \/ /\ \A i \in DOMAIN s : s[i].call # e.call
             /\ \A p \in issued[c] : p[1] < e.revision
  BY <1>1, <1>3, <1>8, <1>10 DEF ArchiveInv, RevisionInv
<1>15. \A p \in issued[c] : p[1] \in Nat /\ p[2] \in Calls /\ p = <<p[1], p[2]>>
  BY <1>2
<1>16. \A p \in issued[c] : p[1] = e.revision => p[2] = e.call
  <2>1. CASE \E i \in DOMAIN s : s[i].call = e.call /\ s[i].revision = e.revision
    <3>1. PICK i \in DOMAIN s : s[i].call = e.call /\ s[i].revision = e.revision
      BY <2>1
    <3>2. <<e.revision, e.call>> \in issued[c]
      BY <1>14, <3>1
    <3> QED BY <1>14, <3>2
  <2>2. CASE \A p \in issued[c] : p[1] < e.revision
    BY <1>4, <1>8, <1>15, <2>2
  <2> QED BY <1>14, <2>1, <2>2
<1>17. \A j \in DOMAIN s : s[j].revision = e.revision => s[j].call = e.call
  BY <1>14, <1>16
<1>18. /\ a \in Seq(EntryType) /\ a # <<>> /\ Len(a) \in DOMAIN a /\ a[Len(a)] = e
       /\ Len(a) <= budget.keep /\ Distinct(a)
       /\ \A i \in DOMAIN a : i # Len(a) =>
            \E j \in DOMAIN s : a[i] = s[j] /\ a[i].call # e.call
       /\ (\E j \in DOMAIN s : s[j].call = e.call) =>
            \A j \in DOMAIN s : s[j].call # e.call => \E i \in DOMAIN a : a[i] = s[j]
  <2>1. e \in EntryType /\ a = Appended(c, e)
    BY <1>8, <1>9
  <2>2. s \in Seq(EntryType) /\ budget.keep \in Nat \ {0} /\ Len(s) <= budget.keep
    BY <1>2, <1>12
  <2>3. JoinedBy(s, e, budget.keep, a)
    BY <1>10, <1>13, <1>17, <2>1, <2>2, AppendedIs
  <2> QED BY <2>3 DEF JoinedBy
<1>19. /\ results' \in Kept /\ results'[c] = a
       /\ \A b \in Conversations : b # c => results'[b] = results[b]
  BY <1>2, <1>11, <1>18 DEF Kept
(* The newest revision is still there. *)
<1>20. \A p \in issued[c] \cup {<<e.revision, e.call>>} :
         \E i \in DOMAIN a : p[1] <= a[i].revision
  <2>1. SUFFICES ASSUME NEW p \in issued[c] PROVE \E i \in DOMAIN a : p[1] <= a[i].revision
    <3>1. e.revision <= a[Len(a)].revision
      BY <1>4, <1>8, <1>18
    <3> QED BY <1>18, <2>1, <3>1
  <2>2. CASE \A q \in issued[c] : q[1] < e.revision
    BY <1>4, <1>8, <1>15, <1>18, <2>2
  <2>3. CASE \E i \in DOMAIN s : s[i].call = e.call /\ s[i].revision = e.revision
    <3>1. PICK j \in DOMAIN s : p[1] <= s[j].revision
      BY <1>14
    <3>2. CASE s[j].call = e.call
      <4>1. s[j].revision = e.revision
        BY <1>13, <2>3, <3>2 DEF Distinct
      <4> QED BY <1>18, <3>1, <4>1
    <3>3. CASE s[j].call # e.call
      <4>1. \E i \in DOMAIN a : a[i] = s[j]
        BY <1>18, <2>3, <3>3
      <4> QED BY <3>1, <4>1
    <3> QED BY <3>2, <3>3
  <2> QED BY <1>14, <2>2, <2>3
<1>21. \A i \in DOMAIN a : <<a[i].revision, a[i].call>> \in issued[c] \cup {<<e.revision, e.call>>}
  BY <1>14, <1>18
<1>22. \E i \in DOMAIN a : \A j \in DOMAIN a : a[j].revision <= a[i].revision
  <2>1. CASE \A q \in issued[c] : q[1] < e.revision
    <3>1. \A j \in DOMAIN a : a[j].revision <= e.revision
      <4>1. SUFFICES ASSUME NEW j \in DOMAIN a PROVE a[j].revision <= e.revision
        OBVIOUS
      <4>2. CASE j = Len(a)
        BY <1>4, <1>8, <1>18, <4>2
      <4>3. CASE j # Len(a)
        <5>1. PICK i \in DOMAIN s : a[j] = s[i]
          BY <1>18, <4>3
        <5>2. s[i].revision < e.revision
          <6>1. <<s[i].revision, s[i].call>> \in issued[c]
            BY <1>14
          <6>2. <<s[i].revision, s[i].call>>[1] < e.revision
            BY <2>1, <6>1
          <6> QED BY <6>2
        <5> QED BY <1>4, <1>8, <1>12, <5>1, <5>2
      <4> QED BY <4>2, <4>3
    <3> QED BY <1>18, <3>1
  <2>2. CASE \E i \in DOMAIN s : s[i].call = e.call /\ s[i].revision = e.revision
    <3>1. PICK m \in DOMAIN s : \A j \in DOMAIN s : s[j].revision <= s[m].revision
      <4>1. s # <<>>
        BY <1>12, <2>2
      <4> QED BY <1>10, <4>1 DEF ArchiveInv, KeptInv, SaneWork
    <3>2. e.revision <= s[m].revision
      BY <2>2, <3>1
    <3>3. \A j \in DOMAIN a : a[j].revision <= s[m].revision
      BY <1>18, <3>1, <3>2
    <3>4. \E i \in DOMAIN a : a[i].revision = s[m].revision
      <4>1. CASE s[m].call = e.call
        <5>1. s[m].revision = e.revision
          BY <1>13, <2>2, <4>1 DEF Distinct
        <5> QED BY <1>18, <5>1
      <4>2. CASE s[m].call # e.call
        BY <1>18, <2>2, <4>2
      <4> QED BY <4>1, <4>2
    <3> QED BY <3>3, <3>4
  <2> QED BY <1>14, <2>1, <2>2
<1>23. /\ issued' \in [Conversations -> SUBSET ((Nat \ {0}) \X Calls)]
       /\ issued'[c] = issued[c] \cup {<<e.revision, e.call>>}
       /\ \A b \in Conversations : b # c => issued'[b] = issued[b]
  <2>1. issued' = [issued EXCEPT ![c] = issued[c] \cup {<<e.revision, e.call>>}]
    BY <1>3, <1>8 DEF AppendResult
  <2>2. PICK n : n = issued[c] \cup {<<e.revision, e.call>>}
    OBVIOUS
  <2>3. n \in SUBSET ((Nat \ {0}) \X Calls)
    <3>1. issued[c] \in SUBSET ((Nat \ {0}) \X Calls)
      BY <1>2
    <3>2. <<e.revision, e.call>> \in (Nat \ {0}) \X Calls
      BY <1>4, <1>8
    <3> QED BY <2>2, <3>1, <3>2
  <2> QED BY <1>2, <2>1, <2>2, <2>3
<1>24. /\ capture' \in [Conversations -> CaptureType]
       /\ capture'[c].stage = "write" /\ capture'[c].call = k.call
       /\ capture'[c].digest = k.digest /\ ~capture'[c].failed
       /\ \A b \in Conversations : b # c => capture'[b] = capture[b]
  <2>1. PICK n : n = [k EXCEPT !.stage = "write"]
    OBVIOUS
  <2>2. /\ n \in CaptureType /\ n.stage = "write" /\ n.call = k.call /\ n.digest = k.digest
        /\ ~n.failed
    BY <1>4, <1>5, <2>1 DEF CaptureType
  <2>3. capture' = [capture EXCEPT ![c] = n]
    BY <1>2, <1>3, <2>1 DEF AppendResult
  <2> QED BY <1>2, <2>2, <2>3
(* Bytes are queued behind all there is, or nothing is. *)
<1>25. /\ writes \in Seq(BytesTask \cup SaveTask)
       /\ writes' \in Seq(BytesTask \cup SaveTask)
       /\ Len(writes) \in Nat /\ DOMAIN writes = 1..Len(writes)
       /\ \A i \in DOMAIN writes : i \in DOMAIN writes' /\ writes'[i] = writes[i]
       /\ \A i \in DOMAIN writes' : i \in DOMAIN writes \/
            /\ i = Len(writes) + 1 /\ writes'[i].kind = "bytes" /\ writes'[i].owner = c
            /\ writes'[i].digest = k.digest
       /\ writes # <<>> => writes' # <<>>
       /\ state = "saved" => /\ Len(writes) + 1 \in DOMAIN writes'
                             /\ DOMAIN writes' = 1..(Len(writes) + 1)
                             /\ writes'[Len(writes) + 1].kind = "bytes"
                             /\ writes'[Len(writes) + 1].owner = c
  <2>1. writes \in Seq(BytesTask \cup SaveTask)
    BY <1>1 DEF ArchiveShape
  <2>2. CASE state = "missing"
    BY <1>6, <2>1, <2>2
  <2>3. CASE state = "saved"
    <3>1. PICK t : t = [kind |-> "bytes", owner |-> c, digest |-> k.digest]
      OBVIOUS
    <3>2. /\ t \in BytesTask \cup SaveTask /\ t.kind = "bytes" /\ t.owner = c
          /\ t.digest = k.digest
      BY <1>4, <3>1 DEF BytesTask
    <3>3. writes' = Append(writes, t)
      BY <1>6, <2>3, <3>1
    <3>4. /\ Len(writes) \in Nat /\ DOMAIN writes = 1..Len(writes)
          /\ DOMAIN writes' = 1..(Len(writes) + 1) /\ Len(writes) + 1 \notin DOMAIN writes
          /\ \A i \in DOMAIN writes : i \in DOMAIN writes' /\ writes'[i] = writes[i]
          /\ writes'[Len(writes) + 1] = t
          /\ writes' # <<>> /\ writes' \in Seq(BytesTask \cup SaveTask)
      BY <1>1, <3>2, <3>3, TailPushed
    <3>5. \A i \in DOMAIN writes' : i \in DOMAIN writes \/ i = Len(writes) + 1
      BY <3>4
    <3>6. Len(writes) + 1 \in DOMAIN writes'
      BY <3>4
    <3> QED BY <2>1, <3>2, <3>4, <3>5, <3>6
  <2> QED BY <1>6, <2>2, <2>3 DEF fetchArchivePayloads
<1>26. ArchiveShape'
  BY <1>1, <1>19, <1>23, <1>24, <1>25 DEF ArchiveShape
<1>27. \A i \in DOMAIN writes' :
         /\ IsSave(i)' => i \in DOMAIN writes /\ IsSave(i)
         /\ i \in DOMAIN writes /\ ~IsSave(i) => writes[i].owner # c
  <2>1. \A i \in DOMAIN writes : ~IsSave(i) => writes[i].owner # c
    BY <1>1 DEF ArchiveInv, TailInv
  <2>2. "bytes" # "save"
    OBVIOUS
  <2> QED BY <1>25, <2>1, <2>2 DEF IsSave
<1>28. KeptInv'
  <2>1. SaneWork(results)'
    <3>1. ASSUME NEW b \in Conversations
          PROVE  /\ Len(results'[b]) <= budget.keep
                 /\ \A i, j \in DOMAIN results'[b] :
                      results'[b][i].call = results'[b][j].call => i = j
                 /\ \A i, j \in DOMAIN results'[b] :
                      results'[b][i].revision = results'[b][j].revision => i = j
                 /\ results'[b] # <<>> => \E i \in DOMAIN results'[b] :
                      \A j \in DOMAIN results'[b] :
                        results'[b][j].revision <= results'[b][i].revision
      <4>1. CASE b = c
        BY <1>18, <1>19, <1>22, <4>1 DEF Distinct
      <4>2. CASE b # c
        BY <1>19, <4>2 DEF ArchiveInv, KeptInv, SaneWork
      <4> QED BY <4>1, <4>2
    <3> QED BY <1>1, <3>1 DEF SaneWork
  <2>2. SaneWork(manifest)'
    BY <1>1 DEF ArchiveInv, KeptInv, SaneWork
  <2>3. \A i \in DOMAIN writes' : IsSave(i)' => SaneWork(writes[i].saved)'
    <3>1. SUFFICES ASSUME NEW i \in DOMAIN writes', IsSave(i)'
                   PROVE  SaneWork(writes[i].saved)'
      OBVIOUS
    <3>2. SaneWork(writes[i].saved) /\ writes'[i] = writes[i]
      BY <1>25, <1>27, <3>1 DEF ArchiveInv, KeptInv
    <3> QED BY <1>1, <3>2 DEF SaneWork
  <2> QED BY <2>1, <2>2, <2>3 DEF KeptInv
<1>29. RevisionInv'
  <2>1. SUFFICES ASSUME NEW b \in Conversations
                 PROVE  /\ \A i \in DOMAIN results'[b] :
                             <<results'[b][i].revision, results'[b][i].call>> \in issued'[b]
                        /\ \A p, q \in issued'[b] : p[1] = q[1] => p[2] = q[2]
                        /\ \A p \in issued'[b] :
                             \E i \in DOMAIN results'[b] : p[1] <= results'[b][i].revision
                        /\ RevisionFits(b)'
    BY <2>1 DEF RevisionInv, RevisionFits
  <2>2. CASE b = c
    <3>1. RevisionFits(c)'
      BY <1>24 DEF RevisionFits
    <3>2. \A p, q \in issued'[c] : p[1] = q[1] => p[2] = q[2]
      <4>1. <<e.revision, e.call>>[1] = e.revision /\ <<e.revision, e.call>>[2] = e.call
        OBVIOUS
      <4> QED BY <1>14, <1>16, <1>23, <4>1
    <3> QED BY <1>19, <1>20, <1>21, <1>23, <2>2, <3>1, <3>2
  <2>3. CASE b # c
    <3>1. /\ results'[b] = results[b] /\ issued'[b] = issued[b] /\ capture'[b] = capture[b]
      BY <1>19, <1>23, <1>24, <2>3
    <3>2. /\ \A i \in DOMAIN results[b] :
               <<results[b][i].revision, results[b][i].call>> \in issued[b]
          /\ \A p, q \in issued[b] : p[1] = q[1] => p[2] = q[2]
          /\ \A p \in issued[b] : \E i \in DOMAIN results[b] : p[1] <= results[b][i].revision
          /\ RevisionFits(b)
      BY DEF ArchiveInv, RevisionInv, RevisionFits
    <3>3. RevisionFits(b)'
      BY <3>1, <3>2 DEF RevisionFits
    <3> QED BY <3>1, <3>2, <3>3
  <2> QED BY <2>2, <2>3
<1>30. TailInv'
  <2>1. indexed' => writes' # <<>> /\ IsSave(1)' /\ manifest' = writes'[1].saved
    <3>1. indexed => writes # <<>> /\ IsSave(1) /\ manifest = writes[1].saved
      BY DEF ArchiveInv, TailInv
    <3>2. writes # <<>> => 1 \in DOMAIN writes
      BY <1>25
    <3> QED BY <1>1, <1>25, <3>1, <3>2 DEF IsSave
  <2>2. \A i \in DOMAIN writes' : ~IsSave(i)' =>
          /\ capture'[writes'[i].owner].stage = "write" /\ ~capture'[writes'[i].owner].failed
          /\ capture'[writes'[i].owner].digest = writes'[i].digest
    <3>1. SUFFICES ASSUME NEW i \in DOMAIN writes', ~IsSave(i)'
                   PROVE  /\ capture'[writes'[i].owner].stage = "write"
                          /\ ~capture'[writes'[i].owner].failed
                          /\ capture'[writes'[i].owner].digest = writes'[i].digest
      OBVIOUS
    <3>2. CASE i \in DOMAIN writes
      <4>1. ~IsSave(i) /\ writes'[i] = writes[i]
        BY <1>25, <3>1, <3>2 DEF IsSave
      <4>2. writes[i].owner \in Conversations /\ writes[i].owner # c
        BY <1>1, <1>27, <3>2, <4>1, ArchiveTaskFields
      <4> QED BY <1>24, <3>2, <4>1, <4>2 DEF ArchiveInv, TailInv
    <3>3. CASE i \notin DOMAIN writes
      BY <1>24, <1>25, <3>3
    <3> QED BY <3>2, <3>3
  <2>3. \A i, j \in DOMAIN writes' :
          ~IsSave(i)' /\ ~IsSave(j)' /\ writes'[i].owner = writes'[j].owner => i = j
    <3>1. SUFFICES ASSUME NEW i \in DOMAIN writes', NEW j \in DOMAIN writes', ~IsSave(i)',
                          ~IsSave(j)', writes'[i].owner = writes'[j].owner
                   PROVE  i = j
      OBVIOUS
    <3>2. \A n \in DOMAIN writes' : ~IsSave(n)' =>
            (writes'[n].owner = c <=> n \notin DOMAIN writes)
      BY <1>25, <1>27 DEF IsSave
    <3>3. CASE i \in DOMAIN writes /\ j \in DOMAIN writes
      BY <1>25, <3>1, <3>3 DEF ArchiveInv, TailInv, IsSave
    <3>4. CASE i \notin DOMAIN writes /\ j \notin DOMAIN writes
      BY <1>25, <3>4
    <3> QED BY <3>1, <3>2, <3>3, <3>4
  <2>4. \A b \in Conversations : capture'[b].failed => capture'[b].stage = "write"
    BY <1>24 DEF ArchiveInv, TailInv
  <2> QED BY <2>1, <2>2, <2>3, <2>4 DEF TailInv
<1>31. EntryInv'
  <2>1. SUFFICES ASSUME NEW b \in Conversations, NEW i \in DOMAIN results'[b],
                        results'[b][i].state = "saved", results'[b][i] \notin unbacked'[b]
                 PROVE  OnDisk(results[b][i].digest)' \/ OnItsWay(b, results[b][i])'
    BY <2>1 DEF EntryInv
  <2>2. PICK f : f = results'[b][i]
    OBVIOUS
  <2>3. CASE b = c /\ i = Len(a)
    <3>1. f = e /\ state = "saved"
      BY <1>8, <1>18, <1>19, <2>1, <2>2, <2>3
    <3>2. PICK m : m = Len(writes) + 1
      OBVIOUS
    <3>3. /\ m \in DOMAIN writes' /\ ~IsSave(m)' /\ writes'[m].owner = c
          /\ DOMAIN writes' = 1..m
      BY <1>25, <3>1, <3>2 DEF IsSave
    <3>4. Named(e.digest, {n \in DOMAIN writes : n > m})'
      <4>1. \A n \in DOMAIN writes' : ~(n > m)
        BY <1>25, <3>2, <3>3
      <4> QED BY <4>1 DEF Named
    <3>5. OnItsWay(c, e)'
      BY <1>8, <1>24, <3>3, <3>4 DEF OnItsWay
    <3> QED BY <2>2, <2>3, <3>1, <3>5 DEF OnItsWay
  <2>4. CASE ~(b = c /\ i = Len(a))
    <3>1. PICK j \in DOMAIN results[b] : f = results[b][j]
      BY <1>10, <1>18, <1>19, <2>2, <2>4
    <3>2. OnDisk(f.digest) \/ OnItsWay(b, f)
      BY <1>1, <2>1, <2>2, <3>1 DEF ArchiveInv, EntryInv
    <3>3. \A d : OnDisk(d) => OnDisk(d)'
      <4>1. SUFFICES ASSUME NEW d, OnDisk(d) PROVE OnDisk(d)'
        OBVIOUS
      <4> QED BY <1>1, <1>25, <1>27, <4>1 DEF OnDisk, Named
    <3>4. OnItsWay(b, f) => OnItsWay(b, f)'
      <4>1. SUFFICES ASSUME OnItsWay(b, f) PROVE OnItsWay(b, f)'
        OBVIOUS
      <4>2. b # c /\ capture'[b] = capture[b]
        BY <1>1, <1>24, <4>1 DEF OnItsWay
      <4>3. ASSUME NEW m \in DOMAIN writes, ~IsSave(m), writes[m].owner = b,
                   Named(f.digest, {n \in DOMAIN writes : n > m})
            PROVE  /\ m \in DOMAIN writes' /\ ~IsSave(m)' /\ writes'[m].owner = b
                   /\ Named(f.digest, {n \in DOMAIN writes : n > m})'
        BY <1>25, <1>27, <4>3 DEF Named, IsSave
      <4> QED BY <4>1, <4>2, <4>3 DEF OnItsWay
    <3>5. OnDisk(f.digest)' \/ OnItsWay(b, f)'
      BY <3>2, <3>3, <3>4
    <3> QED BY <2>2, <3>5 DEF OnDisk, OnItsWay, Named
  <2> QED BY <2>3, <2>4
<1>32. budget'.sound => DiskInv'
  <2>1. SUFFICES ASSUME budget.sound PROVE DiskInv'
    BY <1>1
  <2>2. DiskInv
    BY <2>1 DEF ArchiveInv
  <2>3. \A b \in Conversations : ~capture'[b].failed /\ unbacked'[b] = {}
    BY <1>1, <1>24, <2>2 DEF DiskInv
  <2>4. ASSUME NEW n \in DOMAIN writes', IsSave(n)',
               NEW d \in referencedArtifactDigests(writes'[n].saved)
        PROVE  Present(d, n)'
    <3>1. n \in DOMAIN writes /\ IsSave(n) /\ writes'[n] = writes[n]
      BY <1>25, <1>27, <2>4
    <3>2. Present(d, n)
      BY <2>2, <2>4, <3>1 DEF DiskInv
    <3>3. \A i \in DOMAIN writes' : i < n => i \in DOMAIN writes /\ writes'[i] = writes[i]
      BY <1>25, <3>1
    <3> QED BY <1>1, <1>25, <3>2, <3>3 DEF Present, Named, IsSave
  <2> QED BY <1>1, <2>2, <2>3, <2>4 DEF DiskInv
<1> QED BY <1>26, <1>28, <1>29, <1>30, <1>31, <1>32 DEF ArchiveInv
------------------------------------------------------------------------------
(* A snapshot joins the tail, of results of which some may have been marked. *)

(* The entries are the same, except that some are now missing. *)
MarkedFrom(old, new) ==
  /\ DOMAIN new = DOMAIN old /\ Len(new) = Len(old) /\ (new = <<>> => old = <<>>)
  /\ (old = <<>> => new = <<>>)
  /\ \A i \in DOMAIN old :
       /\ new[i].call = old[i].call /\ new[i].revision = old[i].revision
       /\ new[i] = old[i] \/ new[i].state = "missing"

LEMMA MarkMissingIs ==
  ASSUME NEW s \in Seq(EntryType), NEW call, NEW digest, NEW m, m = MarkMissing(s, call, digest)
  PROVE  /\ m \in Seq(EntryType) /\ MarkedFrom(s, m)
         /\ \A i \in DOMAIN s : s[i].call = call /\ s[i].digest = digest => m[i].state = "missing"
<1>1. /\ DOMAIN m = DOMAIN s
      /\ \A i \in DOMAIN s : m[i] = IF s[i].call = call /\ s[i].digest = digest
                                    THEN [s[i] EXCEPT !.state = "missing"] ELSE s[i]
  BY DEF MarkMissing
<1>2. DOMAIN s = 1..Len(s) /\ Len(s) \in Nat /\ \A i \in DOMAIN s : s[i] \in EntryType
  OBVIOUS
<1>3. ASSUME NEW i \in DOMAIN s
      PROVE  /\ m[i] \in EntryType /\ m[i].call = s[i].call /\ m[i].revision = s[i].revision
             /\ m[i] = s[i] \/ m[i].state = "missing"
             /\ s[i].call = call /\ s[i].digest = digest => m[i].state = "missing"
  <2>1. PICK e \in EntryType : e = s[i]
    BY <1>2
  <2>2. m[i] = e \/ m[i] = [e EXCEPT !.state = "missing"]
    BY <1>1, <2>1
  <2>3. [e EXCEPT !.state = "missing"] \in EntryType
    BY DEF EntryType
  <2>4. /\ [e EXCEPT !.state = "missing"].state = "missing"
        /\ [e EXCEPT !.state = "missing"].call = e.call
        /\ [e EXCEPT !.state = "missing"].revision = e.revision
    BY DEF EntryType
  <2>5. s[i].call = call /\ s[i].digest = digest => m[i] = [e EXCEPT !.state = "missing"]
    BY <1>1, <2>1
  <2> QED BY <2>1, <2>2, <2>3, <2>4, <2>5
<1>4. m \in Seq(EntryType) /\ Len(m) = Len(s)
  <2>1. m = [i \in 1..Len(s) |-> m[i]]
    BY <1>1, <1>2 DEF MarkMissing
  <2>2. \A i \in 1..Len(s) : m[i] \in EntryType
    BY <1>2, <1>3
  <2>3. m \in [1..Len(s) -> EntryType]
    BY <2>1, <2>2
  <2> QED BY <1>2, <2>3
<1> QED BY <1>1, <1>2, <1>3, <1>4 DEF MarkedFrom

LEMMA SameMarked ==
  ASSUME NEW s
  PROVE  MarkedFrom(s, s)
BY DEF MarkedFrom

LEMMA SnapshotKeeps ==
  ASSUME ArchiveInv, ArchiveShape', Terms, UNCHANGED <<indexed, manifest, bytes, issued, unbacked>>,
         \A b \in Conversations : MarkedFrom(results[b], results'[b]),
         NEW t \in SaveTask, t.saved = results', writes' = Append(writes, t),
         \A b \in Conversations :
           \/ capture'[b] = capture[b]
           \/ /\ capture[b].stage = "write" /\ capture'[b].stage = "save" /\ ~capture'[b].failed
              /\ ~Queued(b)
              /\ capture[b].failed => \A i \in DOMAIN results[b] :
                   results[b][i].call = capture[b].call /\ results[b][i].digest = capture[b].digest
                     => results'[b][i].state = "missing"
  PROVE  ArchiveInv'
<1>1. /\ ArchiveShape /\ writes \in Seq(BytesTask \cup SaveTask) /\ results \in Kept /\ results' \in Kept
  BY DEF ArchiveInv, ArchiveShape
<1>2. PICK m : m = Len(writes) + 1
  OBVIOUS
<1>3. /\ m \in Nat /\ DOMAIN writes = 1..(m - 1) /\ DOMAIN writes' = 1..m
      /\ m \in DOMAIN writes' /\ m \notin DOMAIN writes
      /\ \A i \in DOMAIN writes : i \in DOMAIN writes' /\ writes'[i] = writes[i]
      /\ \A i \in DOMAIN writes' : i # m => i \in DOMAIN writes
      /\ writes'[m] = t /\ writes' # <<>>
  <2>1. Append(writes, t) = writes' /\ t \in BytesTask \cup SaveTask
    OBVIOUS
  <2>2. /\ Len(writes) \in Nat /\ DOMAIN writes = 1..Len(writes)
        /\ DOMAIN writes' = 1..(Len(writes) + 1) /\ Len(writes) + 1 \notin DOMAIN writes
        /\ \A i \in DOMAIN writes : i \in DOMAIN writes' /\ writes'[i] = writes[i]
        /\ writes'[Len(writes) + 1] = t /\ writes' # <<>>
    BY <1>1, <2>1, TailPushed
  <2> QED BY <1>2, <2>2
<1>4. /\ t.kind = "save" /\ IsSave(m)'
      /\ \A i \in DOMAIN writes : IsSave(i)' <=> IsSave(i)
  BY <1>3 DEF SaveTask, IsSave
<1>5. \A b \in Conversations, i \in DOMAIN writes' :
        ~IsSave(i)' /\ writes'[i].owner = b => capture'[b] = capture[b]
  BY <1>3, <1>4 DEF Queued
<1>6. KeptInv'
  <2>1. SaneWork(results) => SaneWork(results)'
    <3>1. SUFFICES ASSUME SaneWork(results), NEW b \in Conversations
                   PROVE  /\ Len(results'[b]) <= budget.keep
                          /\ \A i, j \in DOMAIN results'[b] :
                               results'[b][i].call = results'[b][j].call => i = j
                          /\ \A i, j \in DOMAIN results'[b] :
                               results'[b][i].revision = results'[b][j].revision => i = j
                          /\ results'[b] # <<>> => \E i \in DOMAIN results'[b] :
                               \A j \in DOMAIN results'[b] :
                                 results'[b][j].revision <= results'[b][i].revision
      BY DEF SaneWork, Terms
    <3>2. MarkedFrom(results[b], results'[b])
      OBVIOUS
    <3> QED BY <3>1, <3>2 DEF SaneWork, MarkedFrom
  <2>2. SaneWork(results)'
    BY <2>1 DEF ArchiveInv, KeptInv
  <2>3. SaneWork(manifest)'
    BY DEF ArchiveInv, KeptInv, SaneWork, Terms
  <2>4. ASSUME NEW i \in DOMAIN writes', IsSave(i)' PROVE SaneWork(writes[i].saved)'
    <3>1. CASE i = m
      <4>1. writes'[i].saved = results'
        BY <1>3, <3>1
      <4> QED BY <2>2, <4>1 DEF SaneWork
    <3>2. CASE i # m
      <4>1. i \in DOMAIN writes /\ writes'[i] = writes[i] /\ IsSave(i)
        BY <1>3, <1>4, <2>4, <3>2
      <4>2. SaneWork(writes[i].saved)
        BY <4>1 DEF ArchiveInv, KeptInv
      <4> QED BY <4>1, <4>2 DEF SaneWork, Terms
    <3> QED BY <3>1, <3>2
  <2> QED BY <2>2, <2>3, <2>4 DEF KeptInv
<1>7. RevisionInv'
  <2>1. SUFFICES ASSUME NEW b \in Conversations
                 PROVE  /\ \A i \in DOMAIN results'[b] :
                             <<results'[b][i].revision, results'[b][i].call>> \in issued[b]
                        /\ \A p, q \in issued[b] : p[1] = q[1] => p[2] = q[2]
                        /\ \A p \in issued[b] :
                             \E i \in DOMAIN results'[b] : p[1] <= results'[b][i].revision
                        /\ RevisionFits(b)'
    BY <2>1 DEF RevisionInv, RevisionFits
  <2>2. /\ \A i \in DOMAIN results[b] :
             <<results[b][i].revision, results[b][i].call>> \in issued[b]
        /\ \A p, q \in issued[b] : p[1] = q[1] => p[2] = q[2]
        /\ \A p \in issued[b] : \E i \in DOMAIN results[b] : p[1] <= results[b][i].revision
        /\ RevisionFits(b)
    BY DEF ArchiveInv, RevisionInv, RevisionFits
  <2>3. /\ DOMAIN results'[b] = DOMAIN results[b]
        /\ \A i \in DOMAIN results[b] : /\ results'[b][i].call = results[b][i].call
                                        /\ results'[b][i].revision = results[b][i].revision
    BY DEF MarkedFrom
  <2>4. RevisionFits(b)'
    <3>1. capture'[b].stage = "fetch" => capture'[b] = capture[b]
      OBVIOUS
    <3> QED BY <2>2, <2>3, <3>1 DEF RevisionFits
  <2> QED BY <2>2, <2>3, <2>4
<1>8. TailInv'
  <2>1. indexed' => writes' # <<>> /\ IsSave(1)' /\ manifest' = writes'[1].saved
    <3>1. SUFFICES ASSUME indexed PROVE IsSave(1)' /\ manifest = writes'[1].saved
      BY <1>3
    <3>2. writes # <<>> /\ IsSave(1) /\ manifest = writes[1].saved
      BY <3>1 DEF ArchiveInv, TailInv
    <3>3. 1 \in DOMAIN writes
      BY <1>1, <3>2
    <3> QED BY <1>3, <1>4, <3>2, <3>3
  <2>2. \A i \in DOMAIN writes' : ~IsSave(i)' =>
          /\ i \in DOMAIN writes /\ writes'[i] = writes[i] /\ ~IsSave(i)
          /\ writes[i].owner \in Conversations /\ capture'[writes[i].owner] = capture[writes[i].owner]
    <3>1. SUFFICES ASSUME NEW i \in DOMAIN writes', ~IsSave(i)'
                   PROVE  /\ i \in DOMAIN writes /\ writes'[i] = writes[i] /\ ~IsSave(i)
                          /\ writes[i].owner \in Conversations
                          /\ capture'[writes[i].owner] = capture[writes[i].owner]
      OBVIOUS
    <3>2. i \in DOMAIN writes /\ writes'[i] = writes[i] /\ ~IsSave(i)
      BY <1>3, <1>4, <3>1
    <3>3. writes[i].owner \in Conversations
      BY <1>1, <3>2, ArchiveTaskFields
    <3> QED BY <1>5, <3>1, <3>2, <3>3
  <2>3. \A b \in Conversations : capture'[b].failed => capture'[b].stage = "write"
    BY DEF ArchiveInv, TailInv
  <2> QED BY <2>1, <2>2, <2>3 DEF ArchiveInv, TailInv
(* What the results call saved is named by the snapshot that joins. *)
<1>9. \A b \in Conversations : \A i \in DOMAIN results'[b] :
        results'[b][i].state = "saved" =>
          /\ i \in DOMAIN results[b] /\ results[b][i] = results'[b][i]
          /\ results'[b][i].digest \in referencedArtifactDigests(t.saved)
  <2>1. SUFFICES ASSUME NEW b \in Conversations, NEW i \in DOMAIN results'[b],
                        results'[b][i].state = "saved"
                 PROVE  /\ i \in DOMAIN results[b] /\ results[b][i] = results'[b][i]
                        /\ results'[b][i].digest \in referencedArtifactDigests(t.saved)
    OBVIOUS
  <2>2. i \in DOMAIN results[b] /\ results[b][i] = results'[b][i]
    BY <2>1 DEF MarkedFrom
  <2> QED BY <1>1, <2>1, <2>2, ReferencedIs
<1>10. ASSUME NEW b \in Conversations, NEW i \in DOMAIN results'[b],
              results'[b][i].state = "saved", results'[b][i] \notin unbacked[b],
              NEW f, f = results'[b][i]
       PROVE  /\ OnDisk(f.digest) => OnDisk(f.digest)'
              /\ OnItsWay(b, f) => OnItsWay(b, f)'
              /\ OnDisk(f.digest) \/ OnItsWay(b, f)
  <2>1. /\ i \in DOMAIN results[b] /\ f = results[b][i]
        /\ f.digest \in referencedArtifactDigests(t.saved)
    BY <1>9, <1>10
  <2>2. OnDisk(f.digest) \/ OnItsWay(b, f)
    BY <1>10, <2>1 DEF ArchiveInv, EntryInv
  <2>3. OnDisk(f.digest) => OnDisk(f.digest)'
    BY <1>3, <1>4, <2>1 DEF OnDisk, Named
  <2>4. ASSUME OnItsWay(b, f) PROVE OnItsWay(b, f)'
    <3>1. CASE capture'[b] = capture[b]
      <4>1. CASE capture[b].failed
        BY <2>4, <3>1, <4>1 DEF OnItsWay
      <4>2. CASE ~capture[b].failed
        <5>1. PICK j \in DOMAIN writes : /\ ~IsSave(j) /\ writes[j].owner = b
                                       /\ Named(f.digest, {n \in DOMAIN writes : n > j})
          BY <2>4, <4>2 DEF OnItsWay
        <5>2. j \in DOMAIN writes' /\ ~IsSave(j)' /\ writes'[j].owner = b
          BY <1>3, <1>4, <5>1
        <5>3. Named(f.digest, {n \in DOMAIN writes : n > j})'
          BY <1>3, <1>4, <2>1, <5>1 DEF Named
        <5> QED BY <2>4, <3>1, <5>2, <5>3 DEF OnItsWay
      <4> QED BY <4>1, <4>2
    <3>2. CASE capture'[b] # capture[b]
      <4>1. ~Queued(b) /\ (capture[b].failed => \A n \in DOMAIN results[b] :
              results[b][n].call = capture[b].call /\ results[b][n].digest = capture[b].digest
                => results'[b][n].state = "missing")
        BY <3>2
      <4>2. capture[b].call = f.call /\ capture[b].digest = f.digest
        BY <2>4 DEF OnItsWay
      <4>3. capture[b].failed
        BY <2>4, <4>1 DEF OnItsWay, Queued
      <4> QED BY <1>10, <2>1, <4>1, <4>2, <4>3
    <3> QED BY <3>1, <3>2
  <2> QED BY <2>2, <2>3, <2>4
<1>11. EntryInv'
  <2>1. SUFFICES ASSUME NEW b \in Conversations, NEW i \in DOMAIN results'[b],
                        results'[b][i].state = "saved", results'[b][i] \notin unbacked[b]
                 PROVE  OnDisk(results[b][i].digest)' \/ OnItsWay(b, results[b][i])'
    BY <2>1 DEF EntryInv
  <2>2. PICK f : f = results'[b][i]
    OBVIOUS
  <2>3. OnDisk(f.digest)' \/ OnItsWay(b, f)'
    BY <1>10, <2>1, <2>2
  <2> QED BY <2>2, <2>3 DEF OnDisk, OnItsWay, Named
<1>12. ASSUME budget.sound PROVE DiskInv'
  <2>1. DiskInv
    BY <1>12 DEF ArchiveInv
  <2>2. \A b \in Conversations : ~capture'[b].failed /\ unbacked'[b] = {}
    BY <2>1 DEF DiskInv
  <2>3. ASSUME NEW n \in DOMAIN writes', IsSave(n)',
               NEW d \in referencedArtifactDigests(writes'[n].saved)
        PROVE  Present(d, n)'
    <3>1. CASE n # m
      <4>1. n \in DOMAIN writes /\ IsSave(n) /\ writes'[n] = writes[n]
        BY <1>3, <1>4, <2>3, <3>1
      <4>2. Present(d, n)
        BY <2>1, <2>3, <4>1 DEF DiskInv
      <4>3. \A i \in DOMAIN writes' : i < n => i \in DOMAIN writes /\ writes'[i] = writes[i]
        BY <1>3, <4>1
      <4> QED BY <1>3, <4>2, <4>3 DEF Present, Named, IsSave
    <3>2. CASE n = m
      <4>7. PICK b \in Conversations : \E i \in DOMAIN results'[b] :
              results'[b][i].state = "saved" /\ results'[b][i].digest = d
        BY <1>1, <1>3, <2>3, <3>2, ReferencedIs
      <4>1. PICK i \in DOMAIN results'[b] :
              results'[b][i].state = "saved" /\ results'[b][i].digest = d
        BY <4>7
      <4>2. PICK f : f = results'[b][i]
        OBVIOUS
      <4>3. OnDisk(f.digest) \/ OnItsWay(b, f)
        BY <1>10, <2>1, <4>1, <4>2 DEF DiskInv
      <4>4. \A j \in DOMAIN writes' : j < m => j \in DOMAIN writes
        BY <1>3
      <4>5. CASE OnDisk(f.digest)
        BY <1>3, <1>4, <3>2, <4>1, <4>2, <4>4, <4>5 DEF Present, OnDisk, Named
      <4>6. CASE OnItsWay(b, f)
        <5>1. PICK j \in DOMAIN writes : /\ ~IsSave(j) /\ writes[j].owner = b
                                       /\ Named(d, {k \in DOMAIN writes : k > j})
          BY <2>1, <4>1, <4>2, <4>6 DEF OnItsWay, DiskInv
        <5>2. writes[j].digest = d
          BY <4>1, <4>2, <4>6, <5>1 DEF ArchiveInv, TailInv, OnItsWay
        <5>3. j \in DOMAIN writes' /\ j < m /\ ~IsSave(j)' /\ writes'[j].digest = d
          BY <1>3, <1>4, <5>1, <5>2
        <5>4. Named(d, {k \in DOMAIN writes : j < k /\ k < m})'
          BY <1>3, <1>4, <4>4, <5>1 DEF Named
        <5> QED BY <3>2, <5>3, <5>4 DEF Present
      <4> QED BY <4>3, <4>5, <4>6
    <3> QED BY <3>1, <3>2
  <2> QED BY <2>1, <2>2, <2>3 DEF DiskInv, Terms
<1> QED BY <1>6, <1>7, <1>8, <1>11, <1>12 DEF ArchiveInv, Terms

LEMMA WriteEndedKeeps ==
  ASSUME ArchiveInv, NEW c \in Conversations, WriteEnded(c)
  PROVE  ArchiveInv'
<1>1. /\ ArchiveShape /\ capture[c].stage = "write" /\ ~Queued(c) /\ results \in Kept
      /\ UNCHANGED <<reader, indexed, manifest, bytes, issued, unbacked, budget>>
  BY DEF ArchiveInv, ArchiveShape, WriteEnded
<1>2. PICK m : m = MarkMissing(results[c], capture[c].call, capture[c].digest)
  OBVIOUS
<1>3. /\ m \in Seq(EntryType) /\ MarkedFrom(results[c], m)
      /\ \A i \in DOMAIN results[c] :
           results[c][i].call = capture[c].call /\ results[c][i].digest = capture[c].digest =>
             m[i].state = "missing"
  <2>1. results[c] \in Seq(EntryType)
    BY <1>1, KeptFields
  <2>2. PICK s : s = results[c]
    OBVIOUS
  <2>3. PICK k : k = capture[c]
    OBVIOUS
  <2>4. s \in Seq(EntryType) /\ m = MarkMissing(s, k.call, k.digest)
    BY <1>2, <2>1, <2>2, <2>3
  <2>5. /\ m \in Seq(EntryType) /\ MarkedFrom(s, m)
        /\ \A i \in DOMAIN s : s[i].call = k.call /\ s[i].digest = k.digest =>
             m[i].state = "missing"
    BY <2>4, MarkMissingIs
  <2> QED BY <2>2, <2>3, <2>5
<1>4. /\ results' = IF capture[c].failed THEN [results EXCEPT ![c] = m] ELSE results
      /\ results' \in Kept
      /\ \A b \in Conversations : MarkedFrom(results[b], results'[b])
      /\ capture[c].failed => results'[c] = m
  <2>1. results' = IF capture[c].failed THEN [results EXCEPT ![c] = m] ELSE results
    BY <1>2 DEF WriteEnded
  <2>2. results' \in Kept
    BY <1>1, <1>3, <2>1 DEF Kept
  <2>3. \A b \in Conversations : results'[b] = results[b] \/ (b = c /\ results'[b] = m)
    BY <1>1, <2>1 DEF Kept
  <2>4. capture[c].failed => results'[c] = m
    BY <1>1, <2>1 DEF Kept
  <2> QED BY <1>3, <2>1, <2>2, <2>3, <2>4, SameMarked
<1>5. PICK t \in SaveTask : t.saved = results' /\ writes' = Append(writes, t)
  <2>1. Snapshot(c) \in SaveTask /\ Snapshot(c).saved = results'
    BY <1>4, SnapshotIs
  <2> QED BY <2>1 DEF WriteEnded
<1>6. /\ capture' \in [Conversations -> CaptureType]
      /\ capture'[c].stage = "save" /\ ~capture'[c].failed
      /\ \A b \in Conversations : b # c => capture'[b] = capture[b]
  <2>1. PICK k : k = capture[c]
    OBVIOUS
  <2>2. k \in [stage : {"fetch", "write", "save"}, failed : BOOLEAN, call : Calls,
               digest : Digests, revision : Nat \ {0}]
    BY <1>1, <2>1, CaptureFields
  <2>3. PICK n : n = [k EXCEPT !.stage = "save", !.failed = FALSE]
    OBVIOUS
  <2>4. n \in CaptureType /\ n.stage = "save" /\ ~n.failed
    BY <2>2, <2>3 DEF CaptureType
  <2>5. capture' = [capture EXCEPT ![c] = n] /\ capture \in [Conversations -> CaptureType]
    BY <1>1, <2>1, <2>3 DEF WriteEnded, ArchiveShape
  <2> QED BY <2>4, <2>5
<1>7. ArchiveShape'
  <2>1. writes' \in Seq(BytesTask \cup SaveTask)
    BY <1>1, <1>5 DEF ArchiveShape
  <2> QED BY <1>1, <1>4, <1>6, <2>1 DEF ArchiveShape
<1>8. Terms
  BY <1>1 DEF Terms
<1>9. \A b \in Conversations :
           \/ capture'[b] = capture[b]
           \/ /\ capture[b].stage = "write" /\ capture'[b].stage = "save" /\ ~capture'[b].failed
              /\ ~Queued(b)
              /\ capture[b].failed => \A i \in DOMAIN results[b] :
                   results[b][i].call = capture[b].call /\ results[b][i].digest = capture[b].digest
                     => results'[b][i].state = "missing"
  BY <1>1, <1>3, <1>4, <1>6
<1> QED BY <1>1, <1>4, <1>5, <1>7, <1>8, <1>9, SnapshotKeeps

LEMMA TouchKeeps ==
  ASSUME ArchiveInv, Touch
  PROVE  ArchiveInv'
<1>1. /\ ArchiveShape /\ budget \in ArchiveSetting /\ results' = results /\ results \in Kept
      /\ UNCHANGED <<capture, reader, indexed, manifest, bytes, issued, unbacked>>
  BY DEF ArchiveInv, ArchiveShape, Touch
<1>2. budget' \in ArchiveSetting /\ Terms
  BY <1>1, SpendFields DEF Touch, Terms
<1>3. PICK t \in SaveTask : t.saved = results' /\ writes' = Append(writes, t)
  <2>1. Snapshot("none") \in SaveTask /\ Snapshot("none").saved = results'
    BY <1>1, SnapshotIs
  <2> QED BY <2>1 DEF Touch
<1>4. ArchiveShape'
  <2>1. writes' \in Seq(BytesTask \cup SaveTask)
    BY <1>1, <1>3 DEF ArchiveShape
  <2> QED BY <1>1, <1>2, <2>1 DEF ArchiveShape
<1>5. \A b \in Conversations : MarkedFrom(results[b], results'[b])
  BY <1>1, SameMarked
<1>6. \A b \in Conversations : capture'[b] = capture[b]
  BY <1>1
<1> QED BY <1>1, <1>2, <1>3, <1>4, <1>5, <1>6, SnapshotKeeps

LEMMA ViewerKeeps ==
  ASSUME ArchiveInv, viewerResourceRead
  PROVE  ArchiveInv'
<1>1. /\ ArchiveShape /\ reader.stage = "loaded" /\ reader \in ReaderType /\ results \in Kept
      /\ reader' = NoReader
      /\ UNCHANGED <<capture, indexed, manifest, bytes, issued, unbacked, budget>>
  BY DEF ArchiveInv, ArchiveShape, viewerResourceRead
<1>2. Terms /\ \A b \in Conversations : capture'[b] = capture[b]
  BY <1>1 DEF Terms
<1>3. PICK c : c = reader.conversation
  OBVIOUS
<1>4. c \in Conversations
  BY <1>1, <1>3 DEF ReaderType, NoReader
<1>5. CASE reader.found
  <2>1. UNCHANGED <<results, writes>>
    BY <1>5 DEF viewerResourceRead
  <2>2. ArchiveShape'
    BY <1>1, <2>1 DEF ArchiveShape, ReaderType
  <2> QED BY <1>1, <1>2, <2>1, <2>2, StillKeeps
<1>6. CASE ~reader.found
  <2>1. PICK r : r = reader
    OBVIOUS
  <2>2. PICK m : m = MarkMissing(results[c], r.call, r.digest)
    OBVIOUS
  <2>3. m \in Seq(EntryType) /\ MarkedFrom(results[c], m)
    <3>1. PICK s : s = results[c]
      OBVIOUS
    <3>2. s \in Seq(EntryType) /\ m = MarkMissing(s, r.call, r.digest)
      BY <1>1, <1>4, <2>2, <3>1, KeptFields
    <3>3. m \in Seq(EntryType) /\ MarkedFrom(s, m)
      BY <3>2, MarkMissingIs
    <3> QED BY <3>1, <3>3
  <2>4. results' = [results EXCEPT ![c] = m]
    BY <1>3, <1>6, <2>1, <2>2 DEF viewerResourceRead
  <2>5. results' \in Kept /\ \A b \in Conversations : MarkedFrom(results[b], results'[b])
    <3>1. results' \in Kept
      BY <1>1, <2>3, <2>4 DEF Kept
    <3>2. \A b \in Conversations : results'[b] = results[b] \/ (b = c /\ results'[b] = m)
      BY <1>1, <2>4 DEF Kept
    <3> QED BY <2>3, <3>1, <3>2, SameMarked
  <2>6. PICK t \in SaveTask : t.saved = results' /\ writes' = Append(writes, t)
    <3>1. Snapshot("none") \in SaveTask /\ Snapshot("none").saved = results'
      BY <2>5, SnapshotIs
    <3> QED BY <1>6, <3>1 DEF viewerResourceRead
  <2>7. ArchiveShape'
    <3>1. writes' \in Seq(BytesTask \cup SaveTask)
      BY <1>1, <2>6 DEF ArchiveShape
    <3> QED BY <1>1, <2>5, <3>1 DEF ArchiveShape, ReaderType
  <2> QED BY <1>1, <1>2, <2>5, <2>6, <2>7, SnapshotKeeps
<1> QED BY <1>5, <1>6
------------------------------------------------------------------------------
(* The task at the head leaves the tail. *)

LEMMA PopKeeps ==
  ASSUME ArchiveInv, ArchiveShape', Terms, UNCHANGED <<results, manifest, issued, unbacked>>,
         writes # <<>>, writes' = Tail(writes), ~indexed',
         \A d \in bytes :
           (IsSave(1) => d \in referencedArtifactDigests(writes[1].saved)) => d \in bytes',
         \A b \in Conversations :
           \/ capture'[b] = capture[b]
           \/ /\ ~IsSave(1) /\ b = writes[1].owner /\ capture'[b].failed
              /\ capture'[b].stage = capture[b].stage /\ capture'[b].call = capture[b].call
              /\ capture'[b].digest = capture[b].digest
              /\ capture'[b].revision = capture[b].revision,
         ~IsSave(1) => writes[1].digest \in bytes' \/ capture'[writes[1].owner].failed,
         budget.sound => /\ capture' = capture /\ (~IsSave(1) => writes[1].digest \in bytes')
                       /\ referencedArtifactDigests(manifest) \subseteq bytes'
  PROVE  ArchiveInv'
<1>1. /\ ArchiveShape /\ budget'.keep = budget.keep
  BY DEF ArchiveInv, ArchiveShape, Terms
<1>2. /\ 1 \in DOMAIN writes
      /\ \A i \in DOMAIN writes' : i \in Nat \ {0} /\ i + 1 \in DOMAIN writes /\ writes'[i] = writes[i + 1]
      /\ \A i \in DOMAIN writes :
           i \in Nat \ {0} /\ (i # 1 => i - 1 \in DOMAIN writes' /\ writes'[i - 1] = writes[i])
  BY <1>1, TailPopped
<1>3. /\ \A i \in DOMAIN writes' : IsSave(i)' <=> IsSave(i + 1)
      /\ \A i \in DOMAIN writes' : i + 1 # 1 /\ i + 1 \in DOMAIN writes
  BY <1>2 DEF IsSave
<1>4. KeptInv'
  <2>1. SaneWork(results)' /\ SaneWork(manifest)'
    BY <1>1 DEF ArchiveInv, KeptInv, SaneWork
  <2>2. ASSUME NEW i \in DOMAIN writes', IsSave(i)' PROVE SaneWork(writes[i].saved)'
    <3>1. SaneWork(writes[i + 1].saved) /\ writes'[i] = writes[i + 1]
      BY <1>2, <1>3, <2>2 DEF ArchiveInv, KeptInv
    <3> QED BY <1>1, <3>1 DEF SaneWork
  <2> QED BY <2>1, <2>2 DEF KeptInv
<1>5. RevisionInv'
  <2>1. SUFFICES ASSUME NEW b \in Conversations
                 PROVE  /\ \A i \in DOMAIN results[b] :
                             <<results[b][i].revision, results[b][i].call>> \in issued[b]
                        /\ \A p, q \in issued[b] : p[1] = q[1] => p[2] = q[2]
                        /\ \A p \in issued[b] :
                             \E i \in DOMAIN results[b] : p[1] <= results[b][i].revision
                        /\ RevisionFits(b)'
    BY <2>1 DEF RevisionInv, RevisionFits
  <2>2. RevisionFits(b) => RevisionFits(b)'
    BY DEF RevisionFits
  <2>3. RevisionFits(b)
    BY DEF ArchiveInv, RevisionInv, RevisionFits
  <2> QED BY <2>2, <2>3 DEF ArchiveInv, RevisionInv
(* No second write of the owner is behind the head. *)
<1>6. ASSUME NEW i \in DOMAIN writes', ~IsSave(i)'
      PROVE  /\ writes'[i].owner \in Conversations
             /\ capture'[writes'[i].owner] = capture[writes'[i].owner]
             /\ capture[writes'[i].owner].stage = "write" /\ ~capture[writes'[i].owner].failed
             /\ capture[writes'[i].owner].digest = writes'[i].digest
  <2>1. i + 1 \in DOMAIN writes /\ i + 1 # 1 /\ ~IsSave(i + 1) /\ writes'[i] = writes[i + 1]
    BY <1>2, <1>3, <1>6
  <2>2. PICK n : n = i + 1
    OBVIOUS
  <2>3. n \in DOMAIN writes /\ n # 1 /\ ~IsSave(n) /\ writes'[i] = writes[n]
    BY <2>1, <2>2
  <2>4. /\ capture[writes[n].owner].stage = "write" /\ ~capture[writes[n].owner].failed
        /\ capture[writes[n].owner].digest = writes[n].digest
    BY <2>3 DEF ArchiveInv, TailInv
  <2>5. ~IsSave(1) => writes[1].owner # writes[n].owner
    BY <1>2, <2>3 DEF ArchiveInv, TailInv
  <2>6. writes[n].owner \in Conversations
    BY <1>1, <2>3, ArchiveTaskFields
  <2> QED BY <2>3, <2>4, <2>5, <2>6
<1>7. TailInv'
  <2>1. ASSUME NEW i \in DOMAIN writes', NEW j \in DOMAIN writes', ~IsSave(i)', ~IsSave(j)',
               writes'[i].owner = writes'[j].owner
        PROVE  i = j
    <3>1. PICK n, m : n = i + 1 /\ m = j + 1
      OBVIOUS
    <3>2. /\ n \in DOMAIN writes /\ ~IsSave(n) /\ writes'[i] = writes[n]
          /\ m \in DOMAIN writes /\ ~IsSave(m) /\ writes'[j] = writes[m]
      BY <1>2, <1>3, <2>1, <3>1
    <3>3. n = m
      BY <2>1, <3>2 DEF ArchiveInv, TailInv
    <3> QED BY <1>2, <3>1, <3>3
  <2>2. \A b \in Conversations : capture'[b].failed => capture'[b].stage = "write"
    <3>1. SUFFICES ASSUME NEW b \in Conversations, capture'[b].failed
                   PROVE  capture'[b].stage = "write"
      OBVIOUS
    <3>2. CASE capture'[b] = capture[b]
      BY <3>1, <3>2 DEF ArchiveInv, TailInv
    <3>3. CASE ~IsSave(1) /\ b = writes[1].owner /\ capture'[b].stage = capture[b].stage
      BY <1>2, <3>3 DEF ArchiveInv, TailInv
    <3> QED BY <3>2, <3>3
  <2> QED BY <1>6, <2>1, <2>2 DEF TailInv
<1>8. ASSUME NEW d, d \in bytes, Named(d, {1})
      PROVE  d \in bytes'
  BY <1>2, <1>8 DEF Named
<1>9. ASSUME NEW d, NEW j \in DOMAIN writes, Named(d, {n \in DOMAIN writes : n > j})
      PROVE  /\ j # 1 => Named(d, {n \in DOMAIN writes : n > j - 1})'
             /\ j = 1 => Named(d, DOMAIN writes)'
  <2>1. ASSUME NEW n \in DOMAIN writes', IsSave(n)', n + 1 > j
        PROVE  d \in referencedArtifactDigests(writes'[n].saved)
    <3>1. PICK m : m = n + 1
      OBVIOUS
    <3>2. m \in DOMAIN writes /\ IsSave(m) /\ m > j /\ writes'[n] = writes[m]
      BY <1>2, <1>3, <2>1, <3>1
    <3> QED BY <1>9, <3>2 DEF Named
  <2>2. j # 1 => \A n \in DOMAIN writes' : n > j - 1 => n + 1 > j
    BY <1>2
  <2>3. j = 1 => \A n \in DOMAIN writes' : n + 1 > j
    BY <1>2
  <2>4. j # 1 => Named(d, {n \in DOMAIN writes : n > j - 1})'
    BY <2>1, <2>2 DEF Named
  <2>5. j = 1 => Named(d, DOMAIN writes)'
    BY <2>1, <2>3 DEF Named
  <2> QED BY <2>4, <2>5
<1>10. ASSUME NEW d, OnDisk(d) PROVE OnDisk(d)'
  <2>1. d \in bytes'
    BY <1>2, <1>8, <1>10 DEF OnDisk, Named
  <2>2. Named(d, DOMAIN writes)'
    BY <1>2, <1>3, <1>10 DEF OnDisk, Named
  <2> QED BY <2>1, <2>2 DEF OnDisk
<1>11. ASSUME NEW b \in Conversations, NEW f, OnItsWay(b, f)
       PROVE  OnDisk(f.digest)' \/ OnItsWay(b, f)'
  <2>1. capture'[b].stage = "write" /\ capture'[b].call = f.call /\ capture'[b].digest = f.digest
    BY <1>11 DEF OnItsWay
  <2>2. capture[b].failed => capture'[b].failed
    OBVIOUS
  <2>3. CASE capture[b].failed
    BY <2>1, <2>2, <2>3 DEF OnItsWay
  <2>4. CASE ~capture[b].failed
    <3>1. PICK j \in DOMAIN writes : /\ ~IsSave(j) /\ writes[j].owner = b
                                   /\ Named(f.digest, {n \in DOMAIN writes : n > j})
      BY <1>11, <2>4 DEF OnItsWay
    <3>2. CASE j = 1
      <4>1. writes[1].digest = f.digest
        BY <1>2, <1>11, <3>1, <3>2 DEF ArchiveInv, TailInv, OnItsWay
      <4>2. Named(f.digest, DOMAIN writes)'
        BY <1>9, <3>1, <3>2
      <4>3. f.digest \in bytes' \/ capture'[b].failed
        BY <3>1, <3>2, <4>1
      <4> QED BY <2>1, <4>2, <4>3 DEF OnDisk, OnItsWay
    <3>3. CASE j # 1
      <4>1. PICK m : m = j - 1
        OBVIOUS
      <4>2. m \in DOMAIN writes' /\ writes'[m] = writes[j] /\ m + 1 = j
        BY <1>2, <3>3, <4>1
      <4>3. ~IsSave(m)' /\ writes'[m].owner = b
        BY <3>1, <4>2 DEF IsSave
      <4>4. Named(f.digest, {n \in DOMAIN writes : n > j - 1})'
        BY <1>9, <3>1, <3>3
      <4>5. Named(f.digest, {n \in DOMAIN writes : n > m})'
        BY <4>1, <4>4
      <4> QED BY <2>1, <4>2, <4>3, <4>5 DEF OnItsWay
    <3> QED BY <3>2, <3>3
  <2> QED BY <2>3, <2>4
<1>12. EntryInv'
  <2>1. SUFFICES ASSUME NEW b \in Conversations, NEW i \in DOMAIN results[b],
                        results[b][i].state = "saved", results[b][i] \notin unbacked[b]
                 PROVE  OnDisk(results[b][i].digest)' \/ OnItsWay(b, results[b][i])'
    BY <2>1 DEF EntryInv
  <2>2. PICK f : f = results[b][i]
    OBVIOUS
  <2>3. OnDisk(f.digest) \/ OnItsWay(b, f)
    BY <2>1, <2>2 DEF ArchiveInv, EntryInv
  <2>4. OnDisk(f.digest)' \/ OnItsWay(b, f)'
    BY <1>10, <1>11, <2>3
  <2>5. f = results'[b][i]
    BY <2>2
  <2> QED BY <2>4, <2>5 DEF OnDisk, OnItsWay, Named
<1>13. ASSUME budget.sound PROVE DiskInv'
  <2>1. DiskInv /\ capture' = capture /\ (~IsSave(1) => writes[1].digest \in bytes')
        /\ referencedArtifactDigests(manifest) \subseteq bytes'
    BY <1>13 DEF ArchiveInv
  <2>2. ASSUME NEW n \in DOMAIN writes', IsSave(n)',
               NEW d \in referencedArtifactDigests(writes'[n].saved)
        PROVE  Present(d, n)'
    <3>1. PICK m : m = n + 1
      OBVIOUS
    <3>2. m \in DOMAIN writes /\ IsSave(m) /\ writes'[n] = writes[m] /\ m > 1 /\ n \in Nat
      BY <1>2, <1>3, <2>2, <3>1
    <3>3. Present(d, m)
      BY <2>1, <2>2, <3>2 DEF DiskInv
    <3>4. \A i \in DOMAIN writes' : /\ i + 1 \in DOMAIN writes /\ (IsSave(i)' => IsSave(i + 1))
                                  /\ writes'[i] = writes[i + 1] /\ (i < n => i + 1 < m)
      BY <1>2, <1>3, <3>1, <3>2
    <3>5. CASE d \in bytes /\ Named(d, {i \in DOMAIN writes : i < m})
      <4>1. d \in bytes'
        BY <1>2, <1>8, <3>2, <3>5 DEF Named
      <4>2. Named(d, {i \in DOMAIN writes : i < n})'
        BY <3>4, <3>5 DEF Named
      <4> QED BY <4>1, <4>2 DEF Present
    <3>6. ASSUME NEW j \in DOMAIN writes, j < m, ~IsSave(j), writes[j].digest = d,
                 Named(d, {i \in DOMAIN writes : j < i /\ i < m})
          PROVE  Present(d, n)'
      <4>1. CASE j = 1
        <5>1. d \in bytes'
          BY <2>1, <3>6, <4>1
        <5>2. \A i \in DOMAIN writes' : 1 < i + 1
          BY <1>2
        <5>3. Named(d, {i \in DOMAIN writes : i < n})'
          BY <3>4, <3>6, <4>1, <5>2 DEF Named
        <5> QED BY <5>1, <5>3 DEF Present
      <4>2. CASE j # 1
        <5>1. PICK k : k = j - 1
          OBVIOUS
        <5>2. /\ k \in DOMAIN writes' /\ writes'[k] = writes[j] /\ k + 1 = j /\ k < n
              /\ \A i \in DOMAIN writes' : k < i => j < i + 1
          BY <1>2, <3>1, <3>2, <3>6, <4>2, <5>1
        <5>3. ~IsSave(k)' /\ writes'[k].digest = d
          BY <3>6, <5>2 DEF IsSave
        <5>4. Named(d, {i \in DOMAIN writes : k < i /\ i < n})'
          BY <3>4, <3>6, <5>2 DEF Named
        <5> QED BY <5>2, <5>3, <5>4 DEF Present
      <4> QED BY <4>1, <4>2
    <3> QED BY <3>3, <3>5, <3>6 DEF Present
  <2> QED BY <2>1, <2>2 DEF DiskInv, Terms
<1> QED BY <1>4, <1>5, <1>7, <1>12, <1>13 DEF ArchiveInv, Terms

LEMMA SaveArtifactKeeps ==
  ASSUME ArchiveInv, saveArtifact
  PROVE  ArchiveInv'
<1>1. /\ ArchiveShape /\ writes # <<>> /\ writes' = Tail(writes) /\ Head(writes).kind = "bytes"
      /\ bytes' = bytes \cup {Head(writes).digest}
      /\ UNCHANGED <<results, capture, reader, indexed, manifest, issued, unbacked, budget>>
  BY DEF ArchiveInv, saveArtifact
<1>2. /\ 1 \in DOMAIN writes /\ Head(writes) = writes[1]
      /\ writes' \in Seq(BytesTask \cup SaveTask)
  BY <1>1, TailPopped
<1>3. ~IsSave(1) /\ writes[1].digest \in Digests
  <2>1. ~IsSave(1)
    BY <1>1, <1>2 DEF IsSave
  <2> QED BY <1>1, <1>2, <2>1, ArchiveTaskFields
<1>4. ArchiveShape' /\ Terms
  BY <1>1, <1>2, <1>3 DEF ArchiveShape, Terms
<1>5. ~indexed'
  BY <1>1, <1>3 DEF ArchiveInv, TailInv
<1>6. budget.sound => referencedArtifactDigests(manifest) \subseteq bytes'
  BY <1>1 DEF ArchiveInv, DiskInv
<1>7. /\ bytes \subseteq bytes' /\ writes[1].digest \in bytes'
      /\ \A b \in Conversations : capture'[b] = capture[b]
  BY <1>1, <1>2
<1>8. UNCHANGED <<results, manifest, issued, unbacked>> /\ capture' = capture
  BY <1>1
<1> QED BY <1>1, <1>4, <1>5, <1>6, <1>7, <1>8, PopKeeps

LEMMA PruneKeeps ==
  ASSUME ArchiveInv, pruneArtifacts
  PROVE  ArchiveInv'
<1>1. /\ ArchiveShape /\ indexed /\ writes' = Tail(writes) /\ indexed' = FALSE
      /\ bytes' = bytes \cap referencedArtifactDigests(Head(writes).saved)
      /\ UNCHANGED <<results, capture, reader, manifest, issued, unbacked, budget>>
  BY DEF ArchiveInv, pruneArtifacts
<1>2. writes # <<>> /\ IsSave(1) /\ manifest = writes[1].saved
  BY <1>1 DEF ArchiveInv, TailInv
<1>3. /\ 1 \in DOMAIN writes /\ Head(writes) = writes[1]
      /\ writes' \in Seq(BytesTask \cup SaveTask)
  BY <1>1, <1>2, TailPopped
<1>4. ArchiveShape' /\ Terms
  BY <1>1, <1>3 DEF ArchiveShape, Terms
<1>5. budget.sound => referencedArtifactDigests(manifest) \subseteq bytes'
  BY <1>1, <1>2, <1>3 DEF ArchiveInv, DiskInv
<1>6. \A d \in bytes : d \in referencedArtifactDigests(writes[1].saved) => d \in bytes'
  BY <1>1, <1>3
<1>7. UNCHANGED <<results, manifest, issued, unbacked>> /\ capture' = capture
  BY <1>1
<1>8. \A b \in Conversations : capture'[b] = capture[b]
  BY <1>7
<1> QED BY <1>1, <1>2, <1>4, <1>5, <1>6, <1>7, <1>8, PopKeeps

LEMMA TaskFailsKeeps ==
  ASSUME ArchiveInv, TaskFails
  PROVE  ArchiveInv'
<1>1. /\ ArchiveShape /\ budget \in ArchiveSetting /\ writes # <<>> /\ writes' = Tail(writes) /\ indexed' = FALSE
      /\ UNCHANGED <<results, reader, manifest, bytes, issued, unbacked>>
  BY DEF ArchiveInv, ArchiveShape, TaskFails
<1>2. /\ budget' \in ArchiveSetting /\ Terms /\ ~budget.sound
  <2>1. budget.failure # 0
    BY <1>1, SpendFields DEF TaskFails
  <2>2. budget' \in ArchiveSetting /\ Terms
    BY <1>1, SpendFields DEF TaskFails, Terms
  <2> QED BY <2>1, <2>2 DEF ArchiveInv, DiskInv
<1>3. /\ 1 \in DOMAIN writes /\ Head(writes) = writes[1]
      /\ writes' \in Seq(BytesTask \cup SaveTask)
  BY <1>1, TailPopped
<1>4. Head(writes).kind = "bytes" <=> ~IsSave(1)
  BY <1>1, <1>3, ArchiveTaskFields DEF IsSave
<1>5. capture \in [Conversations -> CaptureType]
  BY <1>1 DEF ArchiveShape
<1>6. /\ capture' \in [Conversations -> CaptureType]
      /\ \A b \in Conversations :
           \/ capture'[b] = capture[b]
           \/ /\ ~IsSave(1) /\ b = writes[1].owner /\ capture'[b].failed
              /\ capture'[b].stage = capture[b].stage /\ capture'[b].call = capture[b].call
              /\ capture'[b].digest = capture[b].digest
              /\ capture'[b].revision = capture[b].revision
      /\ ~IsSave(1) => capture'[writes[1].owner].failed
  <2>1. CASE IsSave(1)
    <3>1. capture' = capture
      BY <1>4, <2>1 DEF TaskFails
    <3> QED BY <1>5, <2>1, <3>1
  <2>2. CASE ~IsSave(1)
    <3>1. PICK o : o = writes[1].owner
      OBVIOUS
    <3>2. o \in Conversations /\ capture[o].stage = "write"
      BY <1>1, <1>3, <2>2, <3>1, ArchiveTaskFields DEF ArchiveInv, TailInv
    <3>3. PICK k : k = capture[o]
      OBVIOUS
    <3>4. k \in [stage : {"fetch", "write", "save"}, failed : BOOLEAN, call : Calls,
                 digest : Digests, revision : Nat \ {0}]
      BY <1>1, <3>2, <3>3, CaptureFields
    <3>5. PICK n : n = [k EXCEPT !.failed = TRUE]
      OBVIOUS
    <3>6. /\ n \in CaptureType /\ n.failed /\ n.stage = k.stage /\ n.call = k.call
          /\ n.digest = k.digest /\ n.revision = k.revision
      BY <3>4, <3>5 DEF CaptureType
    <3>7. capture' = [capture EXCEPT ![o] = n]
      BY <1>3, <1>4, <2>2, <3>1, <3>3, <3>5 DEF TaskFails
    <3> QED BY <1>5, <2>2, <3>1, <3>2, <3>3, <3>6, <3>7
  <2> QED BY <2>1, <2>2
<1>7. ArchiveShape'
  BY <1>1, <1>2, <1>3, <1>6 DEF ArchiveShape
<1>8. \A d \in bytes : d \in bytes'
  BY <1>1
<1>9. UNCHANGED <<results, manifest, issued, unbacked>>
  BY <1>1
<1> QED BY <1>1, <1>2, <1>6, <1>7, <1>8, <1>9, PopKeeps
------------------------------------------------------------------------------
(* The host dies, and what is on disk is all there is. *)

LEMMA ArchiveCrashKeeps ==
  ASSUME ArchiveInv, ArchiveCrash
  PROVE  ArchiveInv'
<1>1. /\ ArchiveShape /\ budget \in ArchiveSetting /\ manifest \in Kept
      /\ results' = manifest /\ manifest' = manifest /\ bytes' = bytes
      /\ capture' = [c \in Conversations |-> NoCapture]
      /\ reader' = NoReader /\ writes' = <<>> /\ indexed' = FALSE
      /\ issued' = [c \in Conversations |->
                      {<<e.revision, e.call>> : e \in ToSet(manifest[c])}]
      /\ unbacked' = [c \in Conversations |->
                    {e \in ToSet(manifest[c]) : e.state = "saved" /\ e.digest \notin bytes}]
  BY DEF ArchiveInv, ArchiveShape, ArchiveCrash
<1>2. budget' \in ArchiveSetting /\ Terms
  BY <1>1, SpendFields DEF ArchiveCrash, Terms
<1>3. \A c \in Conversations :
        /\ capture'[c] = NoCapture
        /\ issued'[c] = {<<manifest[c][i].revision, manifest[c][i].call>> :
                           i \in DOMAIN manifest[c]}
        /\ \A e : e \in unbacked'[c] <=>
             \E i \in DOMAIN manifest[c] :
               e = manifest[c][i] /\ e.state = "saved" /\ e.digest \notin bytes
  BY <1>1 DEF ToSet
<1>4. ArchiveShape'
  <2>1. capture' \in [Conversations -> CaptureType]
    BY <1>1 DEF CaptureType
  <2>2. issued' \in [Conversations -> SUBSET ((Nat \ {0}) \X Calls)]
    <3>1. \A c \in Conversations : issued'[c] \in SUBSET ((Nat \ {0}) \X Calls)
      <4>1. SUFFICES ASSUME NEW c \in Conversations
                     PROVE  issued'[c] \in SUBSET ((Nat \ {0}) \X Calls)
        OBVIOUS
      <4>2. \A i \in DOMAIN manifest[c] :
              manifest[c][i].revision \in Nat \ {0} /\ manifest[c][i].call \in Calls
        BY <1>1, KeptFields
      <4>3. \A i \in DOMAIN manifest[c] :
              <<manifest[c][i].revision, manifest[c][i].call>> \in (Nat \ {0}) \X Calls
        BY <4>2
      <4> QED BY <1>3, <4>3
    <3> QED BY <1>1, <3>1
  <2>3. unbacked' \in [Conversations -> SUBSET EntryType]
    <3>1. \A c \in Conversations : unbacked'[c] \in SUBSET EntryType
      BY <1>1, <1>3, KeptFields
    <3> QED BY <1>1, <3>1
  <2>4. writes' \in Seq(BytesTask \cup SaveTask)
    BY <1>1
  <2> QED BY <1>1, <1>2, <2>1, <2>2, <2>3, <2>4 DEF ArchiveShape, ReaderType
<1>5. SaneWork(manifest)
  BY DEF ArchiveInv, KeptInv
<1>6. DOMAIN writes' = {}
  BY <1>1
<1>7. KeptInv'
  BY <1>1, <1>2, <1>5, <1>6 DEF KeptInv, SaneWork, Terms
<1>8. RevisionInv'
  <2>1. SUFFICES ASSUME NEW c \in Conversations
                 PROVE  /\ \A i \in DOMAIN results'[c] :
                             <<results'[c][i].revision, results'[c][i].call>> \in issued'[c]
                        /\ \A p, q \in issued'[c] : p[1] = q[1] => p[2] = q[2]
                        /\ \A p \in issued'[c] :
                             \E i \in DOMAIN results'[c] : p[1] <= results'[c][i].revision
                        /\ RevisionFits(c)'
    BY <2>1 DEF RevisionInv, RevisionFits
  <2>2. \A i \in DOMAIN manifest[c] : manifest[c][i].revision \in Nat
    BY <1>1, KeptFields
  <2>3. \A p, q \in issued'[c] : p[1] = q[1] => p[2] = q[2]
    BY <1>3, <1>5 DEF SaneWork
  <2>4. \A p \in issued'[c] : \E i \in DOMAIN manifest[c] : p[1] <= manifest[c][i].revision
    BY <1>3, <2>2
  <2>5. RevisionFits(c)'
    BY <1>3 DEF RevisionFits, NoCapture
  <2>6. \A i \in DOMAIN manifest[c] :
          <<manifest[c][i].revision, manifest[c][i].call>> \in issued'[c]
    BY <1>3
  <2> QED BY <1>1, <2>3, <2>4, <2>5, <2>6
<1>9. TailInv'
  BY <1>1, <1>3, <1>6 DEF TailInv, NoCapture
<1>10. EntryInv'
  <2>1. SUFFICES ASSUME NEW c \in Conversations, NEW i \in DOMAIN results'[c],
                        results'[c][i].state = "saved", results'[c][i] \notin unbacked'[c]
                 PROVE  OnDisk(results[c][i].digest)'
    BY <2>1 DEF EntryInv
  <2>2. manifest[c][i].digest \in bytes
    BY <1>1, <1>3, <2>1
  <2> QED BY <1>1, <1>6, <2>2 DEF OnDisk, Named
<1>11. ASSUME budget.sound PROVE DiskInv'
  <2>1. budget'.failure = 0 /\ referencedArtifactDigests(manifest) \subseteq bytes
    BY <1>2, <1>11 DEF ArchiveInv, DiskInv, Terms
  <2>2. \A c \in Conversations : unbacked'[c] = {}
    BY <1>1, <1>3, <2>1, ReferencedIs
  <2> QED BY <1>1, <1>3, <1>6, <2>1, <2>2 DEF DiskInv, NoCapture
<1> QED BY <1>2, <1>4, <1>7, <1>8, <1>9, <1>10, <1>11 DEF ArchiveInv, Terms
------------------------------------------------------------------------------
LEMMA ArchiveInitOK == ArchiveInit => ArchiveInv
<1> SUFFICES ASSUME ArchiveInit PROVE ArchiveInv
  OBVIOUS
<1>1. /\ results = [c \in Conversations |-> <<>>] /\ manifest = results
      /\ capture = [c \in Conversations |-> NoCapture]
      /\ reader = NoReader /\ writes = <<>> /\ indexed = FALSE /\ bytes = {}
      /\ issued = [c \in Conversations |-> {}] /\ unbacked = [c \in Conversations |-> {}]
      /\ budget \in ArchiveSetting /\ (budget.sound => budget.failure = 0)
  BY ArchiveAssumption DEF ArchiveInit
<1>2. \A c \in Conversations : /\ results[c] = <<>> /\ capture[c] = NoCapture
                               /\ issued[c] = {} /\ unbacked[c] = {}
  BY <1>1
<1>3. results \in Kept
  BY <1>1 DEF Kept
<1>4. ArchiveShape
  <2>1. capture \in [Conversations -> CaptureType]
    BY <1>1 DEF CaptureType
  <2>2. issued \in [Conversations -> SUBSET ((Nat \ {0}) \X Calls)]
    BY <1>1
  <2>3. unbacked \in [Conversations -> SUBSET EntryType]
    BY <1>1
  <2>4. writes \in Seq(BytesTask \cup SaveTask) /\ reader \in ReaderType
    BY <1>1 DEF ReaderType
  <2> QED BY <1>1, <1>3, <2>1, <2>2, <2>3, <2>4 DEF ArchiveShape
<1>5. budget.keep \in Nat \ {0}
  BY <1>1 DEF ArchiveSetting
<1>6. KeptInv
  BY <1>1, <1>2, <1>5 DEF KeptInv, SaneWork
<1>7. RevisionInv
  BY <1>2 DEF RevisionInv, NoCapture
<1>8. TailInv
  BY <1>1, <1>2 DEF TailInv, NoCapture
<1>9. EntryInv
  BY <1>2 DEF EntryInv
<1>10. budget.sound => DiskInv
  <2>1. referencedArtifactDigests(manifest) = {}
    BY <1>1, <1>2, <1>3, ReferencedIs
  <2> QED BY <1>1, <1>2, <2>1 DEF DiskInv, NoCapture
<1> QED BY <1>4, <1>6, <1>7, <1>8, <1>9, <1>10 DEF ArchiveInv

LEMMA ArchiveStepOK == ArchiveInv /\ [ArchiveNext]_archiveVars => ArchiveInv'
<1> SUFFICES ASSUME ArchiveInv, [ArchiveNext]_archiveVars PROVE ArchiveInv'
  OBVIOUS
<1>1. CASE \E c \in Conversations, call \in Calls, digest \in Digests :
             captureToolResult(c, call, digest)
  BY <1>1, CaptureKeeps
<1>2. CASE \E c \in Conversations : AppendResult(c)
  BY <1>2, AppendResultKeeps
<1>3. CASE \E c \in Conversations : WriteEnded(c)
  BY <1>3, WriteEndedKeeps
<1>4. CASE \E c \in Conversations : CaptureSaved(c)
  BY <1>4, CaptureSavedKeeps
<1>5. CASE \E c \in Conversations : \E e \in EntriesOf(c) : loadArtifact(c, e)
  BY <1>5, LoadKeeps
<1>6. CASE Touch
  BY <1>6, TouchKeeps
<1>7. CASE viewerResourceRead
  BY <1>7, ViewerKeeps
<1>8. CASE saveArtifact
  BY <1>8, SaveArtifactKeeps
<1>9. CASE WriteIndex
  BY <1>9, SaveIndexKeeps
<1>10. CASE pruneArtifacts
  BY <1>10, PruneKeeps
<1>11. CASE TaskFails
  BY <1>11, TaskFailsKeeps
<1>12. CASE ArchiveCrash
  BY <1>12, ArchiveCrashKeeps
<1>13. CASE UNCHANGED archiveVars
  <2>1. /\ ArchiveShape' /\ Terms /\ UNCHANGED <<results, writes, bytes, issued, unbacked>>
        /\ UNCHANGED <<manifest, indexed>> /\ \A c \in Conversations : capture'[c] = capture[c]
    BY <1>13 DEF archiveVars, ArchiveInv, ArchiveShape, Terms
  <2> QED BY <2>1, StillKeeps
<1> QED
  BY <1>1, <1>2, <1>3, <1>4, <1>5, <1>6, <1>7, <1>8, <1>9, <1>10, <1>11, <1>12, <1>13
     DEF ArchiveNext

LEMMA KeptSound == ArchiveInv => ArchiveIsSound
<1> SUFFICES ASSUME ArchiveInv PROVE ArchiveIsSound
  OBVIOUS
<1>1. ArchiveShape /\ results \in Kept
  BY DEF ArchiveInv, ArchiveShape
<1>2. ArchiveTypeOK
  <2>1. ASSUME NEW c \in Conversations
        PROVE  /\ results[c] \in Seq(EntryType) /\ Len(results[c]) <= budget.keep
               /\ \A i, j \in DOMAIN results[c] :
                    results[c][i].call = results[c][j].call => i = j
               /\ capture[c].stage \in {"none", "fetch", "write", "save"}
               /\ capture[c].failed \in BOOLEAN
    BY <1>1, KeptFields, CaptureFields DEF ArchiveInv, KeptInv, SaneWork
  <2>2. reader.stage \in {"none", "loaded"}
    BY <1>1 DEF ArchiveShape, ReaderType, NoReader
  <2> QED BY <1>1, <2>1, <2>2 DEF ArchiveTypeOK, ArchiveShape
<1>3. SavedIsBacked
  <2>1. SUFFICES ASSUME NEW c \in Conversations, NEW e \in EntriesOf(c),
                        e.state = "saved", ~Unsettled(c, e), e \notin unbacked[c]
                 PROVE  e.digest \in bytes
    BY DEF SavedIsBacked
  <2>2. PICK i \in DOMAIN results[c] : e = results[c][i]
    BY DEF EntriesOf, ToSet
  <2>3. OnDisk(e.digest) \/ OnItsWay(c, e)
    BY <2>1, <2>2 DEF ArchiveInv, EntryInv
  <2>4. OnItsWay(c, e) => Unsettled(c, e)
    BY DEF OnItsWay, Unsettled, Queued
  <2> QED BY <2>1, <2>3, <2>4 DEF OnDisk
<1>4. DiskIsBacked
  BY DEF ArchiveInv, DiskInv, DiskIsBacked
<1>5. RevisionsIdentifyCalls
  BY DEF ArchiveInv, RevisionInv, RevisionsIdentifyCalls
<1> QED BY <1>2, <1>3, <1>4, <1>5 DEF ArchiveIsSound

(* The inductive invariant of the saved work.  What a conversation keeps has *)
(* one entry of a call and of a revision; every entry that says "saved" has  *)
(* its bytes there with no waiting snapshot to prune them, or on their way   *)
(* before every snapshot that names them, or its capture about to hear that  *)
(* they were refused, unless the last restart found it without bytes; and    *)
(* with a sound store the bytes every waiting snapshot names are there when  *)
(* the store comes to it.                                                    *)
THEOREM ArchiveInvariant == ArchiveSpec => []ArchiveInv
<1> QED BY ArchiveInitOK, ArchiveStepOK, PTL DEF ArchiveSpec

(* The work shown as saved is saved, for every number of conversations,      *)
(* calls, digests and captures in flight, retained results, refused writes   *)
(* and crashes (coordinator.ts #captureToolResult, #persist; store.ts save,  *)
(* saveArtifact): an entry that says "saved" has its bytes once its write is *)
(* over, the index on disk names none that are missing, and no revision is   *)
(* handed to two calls.                                                      *)
THEOREM ArchiveStaysSound == ArchiveSpec => []ArchiveIsSound
<1>1. ArchiveSpec => []ArchiveInv
  BY ArchiveInvariant
<1> QED BY <1>1, KeptSound, PTL
==============================================================================
