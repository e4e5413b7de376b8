---------------------- MODULE AdmittedExecutionProofs -----------------------
(***************************************************************************)
(* Proofs about AdmittedExecution, for any number of invocations and any   *)
(* pattern of failures.                                                    *)
(*                                                                         *)
(* The argument: only the invocation that holds the lease changes anything *)
(* durable, and what it may do next is determined by the journal, which it *)
(* read under the lease.  The journal says which generation may have been  *)
(* dispatched; the fence closes generation 0 before generation 1 begins,   *)
(* and a marker closes the sandbox question for good.                      *)
(***************************************************************************)
EXTENDS AdmittedExecution, TLAPS

Running(g) == journal = [phase |-> "dispatching", gen |-> g]

(* What the journal says of the store, the sandbox and the calls. *)
JournalInv ==
    /\ journal.phase \in {"absent", "prepared"} =>
          /\ journal.gen = 0 /\ box = None /\ calls[0] = 0
          /\ marker = {} /\ fence = {} /\ staged = {}
    /\ journal.gen = 0 => box # 1 /\ calls[1] = 0 /\ 1 \notin marker \cup staged \cup fence
    /\ journal.gen = 1 =>
          /\ 0 \in fence /\ 0 \notin marker /\ box # 0 /\ advance
          /\ journal.phase \in {"dispatching", "published", "rejected", "completed"}
    /\ journal.phase = "cleaned" =>
          journal.gen = 0 /\ 0 \in fence /\ box = None /\ marker = {}
    /\ advance => journal.phase = "cleaned" \/ journal.gen = 1
    /\ journal.phase \in {"published", "completed"} => journal.gen \in marker
    /\ journal.phase = "rejected" => box = None /\ marker = {}

(* A published generation is the one the journal names. *)
MarkerInv ==
    /\ \A g \in marker : g = journal.gen /\ g \notin fence /\ box = None
    /\ \A g \in Generations : calls[g] <= 1

(* The ledger follows the journal. *)
RunInv ==
    /\ run = "queued" => journal.phase = "absent"
    /\ run \in {"publishing", "completed"} =>
          journal.phase \in {"published", "completed"} /\ capture /\ thread
    /\ journal.phase = "completed" => run = "completed"
    /\ thread => journal.phase \in {"published", "completed"}
    /\ FailedIsClosed

(* The steps that work on a dispatched generation. *)
Brokering == {"dispatch", "inside", "destroy", "stage", "commit", "reject"}
Dispatched == Brokering \cup {"record", "recover", "fence", "kill", "markCleaned"}

(* What the holder of the lease knows at each step. *)
Knows(p) ==
    /\ pc[p] \in Leased \ (Path \cup {"resume", "publish", "complete", "close", "failRun"}) =>
          run = "running"
    /\ pc[p] = "resume" => run \in {"running", "publishing"}
    /\ pc[p] = "markDispatching" => journal.gen = 0
    /\ pc[p] \in Dispatched => Running(gen[p])
    /\ pc[p] \in Brokering \cup {"kill", "markCleaned"} => marker = {}
    /\ pc[p] = "dispatch" => calls[gen[p]] = 0
    /\ pc[p] \in {"dispatch", "stage", "commit", "reject", "markCleaned"} => box = None
    /\ pc[p] = "record" => gen[p] \in marker
    /\ pc[p] \in {"kill", "markCleaned"} => gen[p] \in fence
    /\ pc[p] = "markCleaned" => gen[p] = 0
    /\ pc[p] \in {"advance", "redispatch"} => journal.phase = "cleaned"
    /\ pc[p] = "redispatch" => advance
    /\ pc[p] \in {"capture", "save", "publish", "complete"} => journal.phase = "published"
    /\ pc[p] \in {"save", "publish", "complete"} => capture
    /\ pc[p] \in {"publish", "complete"} => thread /\ run \in {"running", "publishing"}
    /\ pc[p] = "close" => run = "completed"
    /\ pc[p] = "failRun" =>
          /\ marker = {} /\ box = None /\ ~thread
          /\ journal.phase = "rejected" \/ fence = Generations

HolderInv == \A p \in Invocations : pc[p] \in Leased => lease = p /\ Knows(p)

IInv == TypeOK /\ JournalInv /\ MarkerInv /\ RunInv /\ HolderInv

-----------------------------------------------------------------------------
(* The shape of a step. *)

(* Whatever an invocation holds, it holds alone. *)
LEMMA HoldsAlone ==
    ASSUME HolderInv, NEW p \in Invocations, NEW q \in Invocations,
           pc[p] \in Leased, q # p
    PROVE  pc[q] \notin Leased
  BY DEF HolderInv

(* An operation moves the invocation that holds the lease, and nobody else *)
(* holds it: the holder invariant is about that invocation alone.          *)
LEMMA HolderMoves ==
    ASSUME TypeOK, HolderInv, NEW p \in Invocations, pc[p] \in Leased,
           NEW l, Goto(p, l), l \in Leased => lease' = p /\ Knows(p)'
    PROVE  HolderInv'
<1>1. \A q \in Invocations : q # p => pc'[q] \notin Leased
  BY HoldsAlone DEF TypeOK, Goto
<1>2. pc'[p] = l
  BY DEF TypeOK, Goto
<1>3. QED
  BY <1>1, <1>2 DEF HolderInv

(* The sentinel is neither a generation nor an invocation. *)
LEMMA NoneIsNobody == None # 0 /\ None # 1 /\ None \notin Invocations
  BY NoneAssumption DEF Generations

(* Resuming: what the journal's phase leads to. *)
LEMMA ResumeLeads ==
    /\ journal.phase = "prepared" => ResumeLabel = "markDispatching"
    /\ journal.phase = "cleaned" => ResumeLabel = "advance"
    /\ journal.phase = "dispatching" => ResumeLabel = "recover"
    /\ journal.phase = "published" =>
          ResumeLabel = IF run = "publishing" THEN "publish" ELSE "capture"
    /\ journal.phase = "rejected" => ResumeLabel = "failRun"
<1>1. ASSUME journal.phase = "prepared" PROVE ResumeLabel = "markDispatching"
  BY <1>1, Zenon DEF ResumeLabel
<1>2. ASSUME journal.phase = "cleaned" PROVE ResumeLabel = "advance"
  BY <1>2, Zenon DEF ResumeLabel
<1>3. ASSUME journal.phase = "dispatching" PROVE ResumeLabel = "recover"
  BY <1>3, Zenon DEF ResumeLabel
<1>4. ASSUME journal.phase = "published"
      PROVE ResumeLabel = IF run = "publishing" THEN "publish" ELSE "capture"
  BY <1>4, Zenon DEF ResumeLabel
<1>5. ASSUME journal.phase = "rejected" PROVE ResumeLabel = "failRun"
  BY <1>5, Zenon DEF ResumeLabel
<1>6. QED
  BY <1>1, <1>2, <1>3, <1>4, <1>5

(* How far each phase of the journal has come. *)
ProgressByPhase ==
    /\ journal.phase = "absent" => Progress = 0
    /\ journal.phase = "prepared" => Progress = 1
    /\ Running(0) => Progress = 2
    /\ journal.phase = "cleaned" => Progress = 3
    /\ Running(1) => Progress = 4
    /\ journal.phase \in {"published", "rejected"} => Progress = 5
    /\ journal.phase = "completed" => Progress = 6

LEMMA ProgressIs == ProgressByPhase
<1>0. 0 # 1
  OBVIOUS
<1>1. ASSUME journal.phase = "absent" PROVE Progress = 0
  BY <1>1, Zenon DEF Progress
<1>2. ASSUME journal.phase = "prepared" PROVE Progress = 1
  BY <1>2, Zenon DEF Progress
<1>3. ASSUME Running(0) PROVE Progress = 2
  <2>1. journal.phase = "dispatching" /\ journal.gen = 0
    BY <1>3 DEF Running
  <2>2. QED
    BY <2>1, <1>0, Zenon DEF Progress
<1>4. ASSUME journal.phase = "cleaned" PROVE Progress = 3
  BY <1>4, Zenon DEF Progress
<1>5. ASSUME Running(1) PROVE Progress = 4
  <2>1. journal.phase = "dispatching" /\ journal.gen = 1
    BY <1>5 DEF Running
  <2>2. QED
    BY <2>1, <1>0, Zenon DEF Progress
<1>6. ASSUME journal.phase = "published" PROVE Progress = 5
  BY <1>6, Zenon DEF Progress
<1>7. ASSUME journal.phase = "rejected" PROVE Progress = 5
  BY <1>7, Zenon DEF Progress
<1>8. ASSUME journal.phase = "completed" PROVE Progress = 6
  BY <1>8, Zenon DEF Progress
<1>9. QED
  BY <1>1, <1>2, <1>3, <1>4, <1>5, <1>6, <1>7, <1>8 DEF ProgressByPhase

-----------------------------------------------------------------------------
(* What an operation keeps. *)

(* The parts of the invariant that speak of durable state, sandbox, calls. *)
DurableInv == JournalInv /\ MarkerInv /\ RunInv

LEMMA QuietKeeps ==
    ASSUME DurableInv, UNCHANGED <<durable, box, calls>>
    PROVE  DurableInv'
<1>1. UNCHANGED <<run, journal, marker, fence, advance, staged, capture, thread>>
  BY DEF durable
<1>2. JournalInv' /\ MarkerInv'
  BY <1>1 DEF DurableInv, JournalInv, MarkerInv
<1>3. RunInv'
  BY <1>1 DEF DurableInv, RunInv, FailedIsClosed
<1>4. QED
  BY <1>2, <1>3 DEF DurableInv

(* Returning or dying: an invocation forgets everything it knew. *)
LEMMA LeaveKeeps ==
    ASSUME TypeOK, HolderInv, NEW p \in Invocations, Leave(p),
           pc[p] \in Leased \/ UNCHANGED <<durable, box, calls>>
    PROVE  HolderInv'
<1>1. SUFFICES ASSUME NEW q \in Invocations, pc'[q] \in Leased
               PROVE  lease' = q /\ Knows(q)'
  BY DEF HolderInv
<1>2. q # p /\ pc'[q] = pc[q] /\ gen'[q] = gen[q]
  BY <1>1 DEF TypeOK, Leave, Goto, Leased, Path
<1>3. pc[p] \notin Leased
  BY <1>1, <1>2, HoldsAlone
<1>4. lease = q /\ Knows(q) /\ lease' = q
  BY <1>1, <1>2 DEF HolderInv, Leave
<1>5. UNCHANGED <<run, journal, marker, fence, advance, staged, capture, thread,
                  box, calls>>
  BY <1>3 DEF durable
<1>6. QED
  BY <1>2, <1>4, <1>5 DEF Knows, Running

(* The part of the type invariant that speaks of the invocations. *)
LocalOK ==
    /\ lease \in Invocations \cup {None}
    /\ pc \in [Invocations -> Unleased \cup Leased]
    /\ seen \in [Invocations -> RunStatus]
    /\ path \in [Invocations -> Path]
    /\ gen \in [Invocations -> Generations]
    /\ result \in [Invocations -> Outcome]

LEMMA LeaveTyped ==
    ASSUME TypeOK, NEW p \in Invocations, Leave(p)
    PROVE  LocalOK'
  BY DEF LocalOK, TypeOK, Leave, Goto, Unleased, RunStatus, Path, Generations, Outcome

LEMMA StayTyped ==
    ASSUME TypeOK, NEW p \in Invocations, NEW l \in Leased, Stay(p, l)
    PROVE  LocalOK'
  BY DEF LocalOK, TypeOK, Stay, Goto

LEMMA WorkTyped ==
    ASSUME TypeOK, NEW p \in Invocations, NEW l \in Leased,
           NEW g \in Generations, Goto(p, l), Work(p, g)
    PROVE  LocalOK'
  BY DEF LocalOK, TypeOK, Work, Goto

LEMMA PrepareKeeps ==
    ASSUME IInv, NEW p \in Invocations, Prepare(p)
    PROVE  IInv'
<1>1. pc[p] \in Leased /\ lease = p /\ Knows(p)
  BY DEF IInv, HolderInv, Prepare, Leased, Path
<1>2. run = "running"
  BY <1>1 DEF Knows, Prepare, Running, Leased, Path, Brokering, Dispatched
<1>3. pc'[p] = "resume" /\ "resume" \in Leased /\ lease' = p
  BY <1>1 DEF IInv, TypeOK, Prepare, Stay, Work, Goto, Leased
<1>4. TypeOK'
  BY <1>3, StayTyped
     DEF IInv, TypeOK, LocalOK, Phase, RunStatus, Generations, Prepare, Stay, Goto, store
<1>5. JournalInv' /\ MarkerInv'
  BY <1>2, NoneIsNobody
     DEF IInv, TypeOK, JournalInv, MarkerInv, Generations, Prepare, Stay, Goto, store
<1>6. RunInv'
  BY <1>2
     DEF IInv, TypeOK, JournalInv, RunInv, FailedIsClosed, Generations, Prepare, Stay, Goto, store
<1>7. Knows(p)'
  BY <1>2, <1>3
     DEF IInv, TypeOK, JournalInv, RunInv, FailedIsClosed, Knows, Running, Leased, Path, Brokering,
         Dispatched, Prepare, Stay, Goto, store
<1>8. HolderInv'
  BY <1>1, <1>3, <1>7, HolderMoves DEF IInv, Prepare, Stay, Goto, store
<1>9. QED
  BY <1>4, <1>5, <1>6, <1>8 DEF IInv

LEMMA MarkDispatchingKeeps ==
    ASSUME IInv, NEW p \in Invocations, MarkDispatching(p)
    PROVE  IInv'
<1>1. pc[p] \in Leased /\ lease = p /\ Knows(p)
  BY DEF IInv, HolderInv, MarkDispatching, Leased, Path
<1>2. run = "running" /\ journal.gen = 0
  BY <1>1 DEF Knows, MarkDispatching, Running, Leased, Path, Brokering, Dispatched
<1>3. pc'[p] = "dispatch" /\ "dispatch" \in Leased /\ lease' = p
  BY <1>1 DEF IInv, TypeOK, MarkDispatching, Stay, Work, Goto, Leased
<1>4. TypeOK'
  BY <1>3, WorkTyped
     DEF IInv, TypeOK, LocalOK, Phase, RunStatus, Generations, MarkDispatching, Work, Goto, store
<1>5. JournalInv' /\ MarkerInv'
  BY <1>2, NoneIsNobody
     DEF IInv, TypeOK, JournalInv, MarkerInv, Generations, MarkDispatching, Work, Goto, store
<1>6. RunInv'
  BY <1>2
     DEF IInv, TypeOK, JournalInv, RunInv, FailedIsClosed, Generations, MarkDispatching, Work,
         Goto, store
<1>7. Knows(p)'
  BY <1>2, <1>3
     DEF IInv, TypeOK, JournalInv, RunInv, FailedIsClosed, Knows, Running, Leased, Path, Brokering,
         Dispatched, MarkDispatching, Work, Goto, store
<1>8. HolderInv'
  BY <1>1, <1>3, <1>7, HolderMoves DEF IInv, MarkDispatching, Work, Goto, store
<1>9. QED
  BY <1>4, <1>5, <1>6, <1>8 DEF IInv

LEMMA RecordPublishedKeeps ==
    ASSUME IInv, NEW p \in Invocations, RecordPublished(p)
    PROVE  IInv'
<1>1. pc[p] \in Leased /\ lease = p /\ Knows(p)
  BY DEF IInv, HolderInv, RecordPublished, Leased, Path
<1>2. run = "running" /\ gen[p] \in marker
  BY <1>1 DEF Knows, RecordPublished, Running, Leased, Path, Brokering, Dispatched
<1>3. pc'[p] = "capture" /\ "capture" \in Leased /\ lease' = p
  BY <1>1 DEF IInv, TypeOK, RecordPublished, Stay, Work, Goto, Leased
<1>4. TypeOK'
  BY <1>3, StayTyped
     DEF IInv, TypeOK, LocalOK, Phase, RunStatus, Generations, RecordPublished, Stay, Goto, store
<1>5. JournalInv' /\ MarkerInv'
  BY <1>2, NoneIsNobody
     DEF IInv, TypeOK, JournalInv, MarkerInv, Generations, RecordPublished, Stay, Goto, store
<1>6. RunInv'
  BY <1>2
     DEF IInv, TypeOK, JournalInv, RunInv, FailedIsClosed, Generations, RecordPublished, Stay,
         Goto, store
<1>7. Knows(p)'
  BY <1>2, <1>3
     DEF IInv, TypeOK, JournalInv, RunInv, FailedIsClosed, Knows, Running, Leased, Path, Brokering,
         Dispatched, RecordPublished, Stay, Goto, store
<1>8. HolderInv'
  BY <1>1, <1>3, <1>7, HolderMoves DEF IInv, RecordPublished, Stay, Goto, store
<1>9. QED
  BY <1>4, <1>5, <1>6, <1>8 DEF IInv

LEMMA RecordRejectedKeeps ==
    ASSUME IInv, NEW p \in Invocations, RecordRejected(p)
    PROVE  IInv'
<1>1. pc[p] \in Leased /\ lease = p /\ Knows(p)
  BY DEF IInv, HolderInv, RecordRejected, Leased, Path
<1>2. run = "running" /\ marker = {} /\ box = None
  BY <1>1 DEF Knows, RecordRejected, Running, Leased, Path, Brokering, Dispatched
<1>3. pc'[p] = "failRun" /\ "failRun" \in Leased /\ lease' = p
  BY <1>1 DEF IInv, TypeOK, RecordRejected, Stay, Work, Goto, Leased
<1>4. TypeOK'
  BY <1>3, StayTyped
     DEF IInv, TypeOK, LocalOK, Phase, RunStatus, Generations, RecordRejected, Stay, Goto, store
<1>5. JournalInv' /\ MarkerInv'
  BY <1>2, NoneIsNobody
     DEF IInv, TypeOK, JournalInv, MarkerInv, Generations, RecordRejected, Stay, Goto, store
<1>6. RunInv'
  BY <1>2
     DEF IInv, TypeOK, JournalInv, RunInv, FailedIsClosed, Generations, RecordRejected, Stay, Goto,
         store
<1>7. Knows(p)'
  BY <1>2, <1>3
     DEF IInv, TypeOK, JournalInv, RunInv, FailedIsClosed, Knows, Running, Leased, Path, Brokering,
         Dispatched, RecordRejected, Stay, Goto, store
<1>8. HolderInv'
  BY <1>1, <1>3, <1>7, HolderMoves DEF IInv, RecordRejected, Stay, Goto, store
<1>9. QED
  BY <1>4, <1>5, <1>6, <1>8 DEF IInv

LEMMA MarkCleanedKeeps ==
    ASSUME IInv, NEW p \in Invocations, MarkCleaned(p)
    PROVE  IInv'
<1>1. pc[p] \in Leased /\ lease = p /\ Knows(p)
  BY DEF IInv, HolderInv, MarkCleaned, Leased, Path
<1>2. run = "running" /\ marker = {} /\ box = None /\ 0 \in fence
  BY <1>1 DEF Knows, MarkCleaned, Running, Leased, Path, Brokering, Dispatched
<1>3. pc'[p] = "advance" /\ "advance" \in Leased /\ lease' = p
  BY <1>1 DEF IInv, TypeOK, MarkCleaned, Stay, Work, Goto, Leased
<1>4. TypeOK'
  BY <1>3, StayTyped
     DEF IInv, TypeOK, LocalOK, Phase, RunStatus, Generations, MarkCleaned, Stay, Goto, store
<1>5. JournalInv' /\ MarkerInv'
  BY <1>2, NoneIsNobody
     DEF IInv, TypeOK, JournalInv, MarkerInv, Generations, MarkCleaned, Stay, Goto, store
<1>6. RunInv'
  BY <1>2
     DEF IInv, TypeOK, JournalInv, RunInv, FailedIsClosed, Generations, MarkCleaned, Stay, Goto,
         store
<1>7. Knows(p)'
  BY <1>2, <1>3
     DEF IInv, TypeOK, JournalInv, RunInv, FailedIsClosed, Knows, Running, Leased, Path, Brokering,
         Dispatched, MarkCleaned, Stay, Goto, store
<1>8. HolderInv'
  BY <1>1, <1>3, <1>7, HolderMoves DEF IInv, MarkCleaned, Stay, Goto, store
<1>9. QED
  BY <1>4, <1>5, <1>6, <1>8 DEF IInv

LEMMA AdvanceGenerationKeeps ==
    ASSUME IInv, NEW p \in Invocations, AdvanceGeneration(p)
    PROVE  IInv'
<1>1. pc[p] \in Leased /\ lease = p /\ Knows(p)
  BY DEF IInv, HolderInv, AdvanceGeneration, Leased, Path
<1>2. run = "running" /\ journal.phase = "cleaned"
  BY <1>1 DEF Knows, AdvanceGeneration, Running, Leased, Path, Brokering, Dispatched
<1>3. pc'[p] = "redispatch" /\ "redispatch" \in Leased /\ lease' = p
  BY <1>1 DEF IInv, TypeOK, AdvanceGeneration, Stay, Work, Goto, Leased
<1>4. TypeOK'
  BY <1>3, StayTyped
     DEF IInv, TypeOK, LocalOK, Phase, RunStatus, Generations, AdvanceGeneration, Stay, Goto, store
<1>5. JournalInv' /\ MarkerInv'
  BY <1>2, NoneIsNobody
     DEF IInv, TypeOK, JournalInv, MarkerInv, Generations, AdvanceGeneration, Stay, Goto, store
<1>6. RunInv'
  BY <1>2
     DEF IInv, TypeOK, JournalInv, RunInv, FailedIsClosed, Generations, AdvanceGeneration, Stay,
         Goto, store
<1>7. Knows(p)'
  BY <1>2, <1>3
     DEF IInv, TypeOK, JournalInv, RunInv, FailedIsClosed, Knows, Running, Leased, Path, Brokering,
         Dispatched, AdvanceGeneration, Stay, Goto, store
<1>8. HolderInv'
  BY <1>1, <1>3, <1>7, HolderMoves DEF IInv, AdvanceGeneration, Stay, Goto, store
<1>9. QED
  BY <1>4, <1>5, <1>6, <1>8 DEF IInv

LEMMA MarkRedispatchingKeeps ==
    ASSUME IInv, NEW p \in Invocations, MarkRedispatching(p)
    PROVE  IInv'
<1>1. pc[p] \in Leased /\ lease = p /\ Knows(p)
  BY DEF IInv, HolderInv, MarkRedispatching, Leased, Path
<1>2. run = "running" /\ advance
  BY <1>1 DEF Knows, MarkRedispatching, Running, Leased, Path, Brokering, Dispatched
<1>3. pc'[p] = "dispatch" /\ "dispatch" \in Leased /\ lease' = p
  BY <1>1 DEF IInv, TypeOK, MarkRedispatching, Stay, Work, Goto, Leased
<1>4. TypeOK'
  BY <1>3, WorkTyped
     DEF IInv, TypeOK, LocalOK, Phase, RunStatus, Generations, MarkRedispatching, Work, Goto, store
<1>5. JournalInv' /\ MarkerInv'
  BY <1>2, NoneIsNobody
     DEF IInv, TypeOK, JournalInv, MarkerInv, Generations, MarkRedispatching, Work, Goto, store
<1>6. RunInv'
  BY <1>2
     DEF IInv, TypeOK, JournalInv, RunInv, FailedIsClosed, Generations, MarkRedispatching, Work,
         Goto, store
<1>7. Knows(p)'
  BY <1>2, <1>3
     DEF IInv, TypeOK, JournalInv, RunInv, FailedIsClosed, Knows, Running, Leased, Path, Brokering,
         Dispatched, MarkRedispatching, Work, Goto, store
<1>8. HolderInv'
  BY <1>1, <1>3, <1>7, HolderMoves DEF IInv, MarkRedispatching, Work, Goto, store
<1>9. QED
  BY <1>4, <1>5, <1>6, <1>8 DEF IInv

LEMMA StageKeeps ==
    ASSUME IInv, NEW p \in Invocations, Stage(p)
    PROVE  IInv'
<1>1. pc[p] \in Leased /\ lease = p /\ Knows(p)
  BY DEF IInv, HolderInv, Stage, Leased, Path
<1>2. run = "running" /\ Running(gen[p]) /\ marker = {} /\ box = None
  BY <1>1 DEF Knows, Stage, Running, Leased, Path, Brokering, Dispatched
<1>3. pc'[p] = "commit" /\ "commit" \in Leased /\ lease' = p
  BY <1>1 DEF IInv, TypeOK, Stage, Stay, Work, Goto, Leased
<1>4. TypeOK'
  <2>1. marker' \subseteq Generations /\ fence' \subseteq Generations
            /\ staged' \subseteq Generations
    BY DEF IInv, TypeOK, Stage
  <2>2. QED
    BY <1>3, <2>1, StayTyped
       DEF IInv, TypeOK, LocalOK, Phase, RunStatus, Generations, Stage, Stay, Goto, store, Running
<1>5. JournalInv' /\ MarkerInv'
  BY <1>2, NoneIsNobody
     DEF IInv, TypeOK, JournalInv, MarkerInv, Generations, Stage, Stay, Goto, store, Running
<1>6. RunInv'
  BY <1>2
     DEF IInv, TypeOK, JournalInv, RunInv, FailedIsClosed, Generations, Stage, Stay, Goto, store,
         Running
<1>7. Knows(p)'
  BY <1>2, <1>3
     DEF IInv, TypeOK, JournalInv, RunInv, FailedIsClosed, Knows, Running, Leased, Path, Brokering,
         Dispatched, Stage, Stay, Goto, store, Running
<1>8. HolderInv'
  BY <1>1, <1>3, <1>7, HolderMoves DEF IInv, Stage, Stay, Goto, store, Running
<1>9. QED
  BY <1>4, <1>5, <1>6, <1>8 DEF IInv

LEMMA CommitKeeps ==
    ASSUME IInv, NEW p \in Invocations, Commit(p)
    PROVE  IInv'
<1>1. pc[p] \in Leased /\ lease = p /\ Knows(p)
  BY DEF IInv, HolderInv, Commit, Leased, Path
<1>2. run = "running" /\ Running(gen[p]) /\ marker = {} /\ box = None
  BY <1>1 DEF Knows, Commit, Running, Leased, Path, Brokering, Dispatched
<1>3. pc'[p] = "record" /\ "record" \in Leased /\ lease' = p
  BY <1>1 DEF IInv, TypeOK, Commit, Stay, Work, Goto, Leased
<1>4. TypeOK'
  <2>1. marker' \subseteq Generations /\ fence' \subseteq Generations
            /\ staged' \subseteq Generations
    BY DEF IInv, TypeOK, Commit
  <2>2. QED
    BY <1>3, <2>1, StayTyped
       DEF IInv, TypeOK, LocalOK, Phase, RunStatus, Generations, Commit, Stay, Goto, store, Open,
           Running
<1>5. JournalInv' /\ MarkerInv'
  BY <1>2, NoneIsNobody
     DEF IInv, TypeOK, JournalInv, MarkerInv, Generations, Commit, Stay, Goto, store, Open, Running
<1>6. RunInv'
  BY <1>2
     DEF IInv, TypeOK, JournalInv, RunInv, FailedIsClosed, Generations, Commit, Stay, Goto, store,
         Open, Running
<1>7. Knows(p)'
  BY <1>2, <1>3
     DEF IInv, TypeOK, JournalInv, RunInv, FailedIsClosed, Knows, Running, Leased, Path, Brokering,
         Dispatched, Commit, Stay, Goto, store, Open, Running
<1>8. HolderInv'
  BY <1>1, <1>3, <1>7, HolderMoves DEF IInv, Commit, Stay, Goto, store, Open, Running
<1>9. QED
  BY <1>4, <1>5, <1>6, <1>8 DEF IInv

LEMMA FenceGenerationKeeps ==
    ASSUME IInv, NEW p \in Invocations, FenceGeneration(p)
    PROVE  IInv'
<1>1. pc[p] \in Leased /\ lease = p /\ Knows(p)
  BY DEF IInv, HolderInv, FenceGeneration, Leased, Path
<1>2. run = "running" /\ Running(gen[p]) /\ marker = {}
  <2>1. run = "running" /\ Running(gen[p])
    BY <1>1 DEF Knows, FenceGeneration, Leased, Path, Dispatched
  <2>2. QED
    BY <2>1 DEF IInv, MarkerInv, Running, FenceGeneration, AbortByRunId
<1>3. pc'[p] = "kill" /\ "kill" \in Leased /\ lease' = p
  BY <1>1 DEF IInv, TypeOK, FenceGeneration, Stay, Work, Goto, Leased
<1>4. TypeOK'
  <2>1. marker' \subseteq Generations /\ fence' \subseteq Generations
            /\ staged' \subseteq Generations
    BY DEF IInv, TypeOK, FenceGeneration, AbortByRunId
  <2>2. QED
    BY <1>3, <2>1, StayTyped
       DEF IInv, TypeOK, LocalOK, Phase, RunStatus, Generations, FenceGeneration, Stay, Goto,
           store, AbortByRunId, Running
<1>5. JournalInv' /\ MarkerInv'
  BY <1>2, NoneIsNobody
     DEF IInv, TypeOK, JournalInv, MarkerInv, Generations, FenceGeneration, Stay, Goto, store,
         AbortByRunId, Running
<1>6. RunInv'
  BY <1>2
     DEF IInv, TypeOK, JournalInv, RunInv, FailedIsClosed, Generations, FenceGeneration, Stay,
         Goto, store, AbortByRunId, Running
<1>7. Knows(p)'
  BY <1>2, <1>3
     DEF IInv, TypeOK, JournalInv, RunInv, FailedIsClosed, Knows, Running, Leased, Path, Brokering,
         Dispatched, FenceGeneration, Stay, Goto, store, AbortByRunId, Running
<1>8. HolderInv'
  BY <1>1, <1>3, <1>7, HolderMoves
     DEF IInv, FenceGeneration, Stay, Goto, store, AbortByRunId, Running
<1>9. QED
  BY <1>4, <1>5, <1>6, <1>8 DEF IInv

LEMMA PersistCaptureKeeps ==
    ASSUME IInv, NEW p \in Invocations, PersistCapture(p)
    PROVE  IInv'
<1>1. pc[p] \in Leased /\ lease = p /\ Knows(p)
  BY DEF IInv, HolderInv, PersistCapture, Leased, Path
<1>2. run = "running" /\ journal.phase = "published"
  BY <1>1 DEF Knows, PersistCapture, Running, Leased, Path, Brokering, Dispatched
<1>3. pc'[p] = "save" /\ "save" \in Leased /\ lease' = p
  BY <1>1 DEF IInv, TypeOK, PersistCapture, Stay, Work, Goto, Leased
<1>4. TypeOK'
  BY <1>3, StayTyped
     DEF IInv, TypeOK, LocalOK, Phase, RunStatus, Generations, PersistCapture, Stay, Goto, store
<1>5. JournalInv' /\ MarkerInv'
  BY <1>2, NoneIsNobody
     DEF IInv, TypeOK, JournalInv, MarkerInv, Generations, PersistCapture, Stay, Goto, store
<1>6. RunInv'
  BY <1>2
     DEF IInv, TypeOK, JournalInv, RunInv, FailedIsClosed, Generations, PersistCapture, Stay, Goto,
         store
<1>7. Knows(p)'
  BY <1>2, <1>3
     DEF IInv, TypeOK, JournalInv, RunInv, FailedIsClosed, Knows, Running, Leased, Path, Brokering,
         Dispatched, PersistCapture, Stay, Goto, store
<1>8. HolderInv'
  BY <1>1, <1>3, <1>7, HolderMoves DEF IInv, PersistCapture, Stay, Goto, store
<1>9. QED
  BY <1>4, <1>5, <1>6, <1>8 DEF IInv

LEMMA SaveThreadKeeps ==
    ASSUME IInv, NEW p \in Invocations, SaveThread(p)
    PROVE  IInv'
<1>1. pc[p] \in Leased /\ lease = p /\ Knows(p)
  BY DEF IInv, HolderInv, SaveThread, Leased, Path
<1>2. run = "running" /\ journal.phase = "published" /\ capture
  BY <1>1 DEF Knows, SaveThread, Running, Leased, Path, Brokering, Dispatched
<1>3. pc'[p] = "publish" /\ "publish" \in Leased /\ lease' = p
  BY <1>1 DEF IInv, TypeOK, SaveThread, Stay, Work, Goto, Leased
<1>4. TypeOK'
  BY <1>3, StayTyped
     DEF IInv, TypeOK, LocalOK, Phase, RunStatus, Generations, SaveThread, Stay, Goto, store
<1>5. JournalInv' /\ MarkerInv'
  BY <1>2, NoneIsNobody
     DEF IInv, TypeOK, JournalInv, MarkerInv, Generations, SaveThread, Stay, Goto, store
<1>6. RunInv'
  BY <1>2
     DEF IInv, TypeOK, JournalInv, RunInv, FailedIsClosed, Generations, SaveThread, Stay, Goto,
         store
<1>7. Knows(p)'
  BY <1>2, <1>3
     DEF IInv, TypeOK, JournalInv, RunInv, FailedIsClosed, Knows, Running, Leased, Path, Brokering,
         Dispatched, SaveThread, Stay, Goto, store
<1>8. HolderInv'
  BY <1>1, <1>3, <1>7, HolderMoves DEF IInv, SaveThread, Stay, Goto, store
<1>9. QED
  BY <1>4, <1>5, <1>6, <1>8 DEF IInv

LEMMA PublishRunKeeps ==
    ASSUME IInv, NEW p \in Invocations, PublishRun(p)
    PROVE  IInv'
<1>1. pc[p] \in Leased /\ lease = p /\ Knows(p)
  BY DEF IInv, HolderInv, PublishRun, Leased, Path
<1>2. journal.phase = "published" /\ capture /\ thread
  BY <1>1 DEF Knows, PublishRun, Running, Leased, Path, Brokering, Dispatched
<1>3. pc'[p] = "complete" /\ "complete" \in Leased /\ lease' = p
  BY <1>1 DEF IInv, TypeOK, PublishRun, Stay, Work, Goto, Leased
<1>4. TypeOK'
  BY <1>3, StayTyped
     DEF IInv, TypeOK, LocalOK, Phase, RunStatus, Generations, PublishRun, Stay, Goto, store
<1>5. JournalInv' /\ MarkerInv'
  BY <1>2, NoneIsNobody
     DEF IInv, TypeOK, JournalInv, MarkerInv, Generations, PublishRun, Stay, Goto, store
<1>6. RunInv'
  BY <1>2
     DEF IInv, TypeOK, JournalInv, RunInv, FailedIsClosed, Generations, PublishRun, Stay, Goto,
         store
<1>7. Knows(p)'
  BY <1>2, <1>3
     DEF IInv, TypeOK, JournalInv, RunInv, FailedIsClosed, Knows, Running, Leased, Path, Brokering,
         Dispatched, PublishRun, Stay, Goto, store
<1>8. HolderInv'
  BY <1>1, <1>3, <1>7, HolderMoves DEF IInv, PublishRun, Stay, Goto, store
<1>9. QED
  BY <1>4, <1>5, <1>6, <1>8 DEF IInv

LEMMA CompleteRunKeeps ==
    ASSUME IInv, NEW p \in Invocations, CompleteRun(p)
    PROVE  IInv'
<1>1. pc[p] \in Leased /\ lease = p /\ Knows(p)
  BY DEF IInv, HolderInv, CompleteRun, Leased, Path
<1>2. journal.phase = "published" /\ capture /\ thread
  BY <1>1 DEF Knows, CompleteRun, Running, Leased, Path, Brokering, Dispatched
<1>3. pc'[p] = "close" /\ "close" \in Leased /\ lease' = p
  BY <1>1 DEF IInv, TypeOK, CompleteRun, Stay, Work, Goto, Leased
<1>4. TypeOK'
  BY <1>3, StayTyped
     DEF IInv, TypeOK, LocalOK, Phase, RunStatus, Generations, CompleteRun, Stay, Goto, store
<1>5. JournalInv' /\ MarkerInv'
  BY <1>2, NoneIsNobody
     DEF IInv, TypeOK, JournalInv, MarkerInv, Generations, CompleteRun, Stay, Goto, store
<1>6. RunInv'
  BY <1>2
     DEF IInv, TypeOK, JournalInv, RunInv, FailedIsClosed, Generations, CompleteRun, Stay, Goto,
         store
<1>7. Knows(p)'
  BY <1>2, <1>3
     DEF IInv, TypeOK, JournalInv, RunInv, FailedIsClosed, Knows, Running, Leased, Path, Brokering,
         Dispatched, CompleteRun, Stay, Goto, store
<1>8. HolderInv'
  BY <1>1, <1>3, <1>7, HolderMoves DEF IInv, CompleteRun, Stay, Goto, store
<1>9. QED
  BY <1>4, <1>5, <1>6, <1>8 DEF IInv

LEMMA DispatchKeeps ==
    ASSUME IInv, NEW p \in Invocations, Dispatch(p)
    PROVE  IInv'
<1>1. pc[p] \in Leased /\ lease = p /\ Knows(p)
  BY DEF IInv, HolderInv, Dispatch, Leased, Path
<1>2. run = "running" /\ Running(gen[p]) /\ marker = {} /\ calls[gen[p]] = 0
  BY <1>1 DEF Knows, Dispatch, Running, Leased, Path, Brokering, Dispatched
<1>3. pc'[p] = "inside" /\ "inside" \in Leased /\ lease' = p
  BY <1>1 DEF IInv, TypeOK, Dispatch, Stay, Work, Goto, Leased
<1>4. TypeOK'
  BY <1>3, StayTyped
     DEF IInv, TypeOK, LocalOK, Phase, RunStatus, Generations, Dispatch, Stay, Goto, store,
         durable, Running
<1>5. JournalInv' /\ MarkerInv'
  BY <1>2, NoneIsNobody
     DEF IInv, TypeOK, JournalInv, MarkerInv, Generations, Dispatch, Stay, Goto, store, durable,
         Running
<1>6. RunInv'
  BY <1>2
     DEF IInv, TypeOK, JournalInv, RunInv, FailedIsClosed, Generations, Dispatch, Stay, Goto,
         store, durable, Running
<1>7. Knows(p)'
  BY <1>2, <1>3
     DEF IInv, TypeOK, JournalInv, RunInv, FailedIsClosed, Knows, Running, Leased, Path, Brokering,
         Dispatched, Dispatch, Stay, Goto, store, durable, Running
<1>8. HolderInv'
  BY <1>1, <1>3, <1>7, HolderMoves DEF IInv, Dispatch, Stay, Goto, store, durable, Running
<1>9. QED
  BY <1>4, <1>5, <1>6, <1>8 DEF IInv

-----------------------------------------------------------------------------
(* The steps that change neither durable state nor the sandbox. *)

Quiet == UNCHANGED <<durable, box, calls>> /\ faults' \in 0..MaxFaults

LEMMA QuietStep ==
    ASSUME IInv, Quiet, LocalOK', HolderInv'
    PROVE  IInv'
<1>1. JournalInv' /\ MarkerInv' /\ RunInv'
  BY QuietKeeps DEF IInv, DurableInv, Quiet
<1>2. TypeOK'
  BY DEF IInv, TypeOK, LocalOK, Quiet, durable
<1>3. QED
  BY <1>1, <1>2 DEF IInv

LEMMA LeaveQuietly ==
    ASSUME IInv, NEW p \in Invocations, Leave(p), Quiet
    PROVE  IInv'
<1>1. LocalOK'
  BY LeaveTyped DEF IInv
<1>2. HolderInv'
  BY LeaveKeeps DEF IInv, Quiet
<1>3. QED
  BY <1>1, <1>2, QuietStep

LEMMA StayQuietly ==
    ASSUME IInv, NEW p \in Invocations, NEW l \in Leased, pc[p] \in Leased,
           Stay(p, l), Quiet, Knows(p)'
    PROVE  IInv'
<1>1. LocalOK'
  BY StayTyped DEF IInv
<1>2. lease' = p /\ Goto(p, l)
  BY DEF IInv, HolderInv, Stay
<1>3. HolderInv'
  BY <1>2, HolderMoves DEF IInv
<1>4. QED
  BY <1>1, <1>3, QuietStep

LEMMA WorkQuietly ==
    ASSUME IInv, NEW p \in Invocations, NEW l \in Leased, pc[p] \in Leased,
           NEW g \in Generations, Goto(p, l), Work(p, g), Quiet, Knows(p)'
    PROVE  IInv'
<1>1. LocalOK'
  BY WorkTyped DEF IInv
<1>2. lease' = p
  BY DEF IInv, HolderInv, Work
<1>3. HolderInv'
  BY <1>2, HolderMoves DEF IInv
<1>4. QED
  BY <1>1, <1>3, QuietStep

(* Before the lease nothing an invocation does concerns the others. *)
LEMMA OutsideQuietly ==
    ASSUME IInv, NEW p \in Invocations, NEW l \in Unleased, Goto(p, l),
           pc[p] \notin Leased, Quiet, UNCHANGED <<lease, gen>>
    PROVE  HolderInv'
<1>1. UNCHANGED <<run, journal, marker, fence, advance, staged, capture, thread,
                  box, calls>>
  BY DEF Quiet, durable
<1>2. SUFFICES ASSUME NEW q \in Invocations, pc'[q] \in Leased
               PROVE  lease' = q /\ Knows(q)'
  BY DEF HolderInv
<1>3. pc'[q] = pc[q]
  BY <1>2 DEF IInv, TypeOK, Goto, Unleased, Leased, Path
<1>4. lease = q /\ Knows(q)
  BY <1>2, <1>3 DEF IInv, HolderInv
<1>5. QED
  BY <1>1, <1>3, <1>4 DEF Knows, Running

LEMMA EnterKeeps ==
    ASSUME IInv, NEW p \in Invocations, Enter(p)
    PROVE  IInv'
<1>1. Quiet
  BY DEF IInv, TypeOK, Enter, Quiet
<1>2. LocalOK'
  BY DEF IInv, TypeOK, LocalOK, Enter, Goto, Unleased
<1>3. HolderInv'
  BY <1>1, OutsideQuietly DEF Enter, Unleased, Leased, Path
<1>4. QED
  BY <1>1, <1>2, <1>3, QuietStep

LEMMA WaitKeeps ==
    ASSUME IInv, NEW p \in Invocations, pc[p] = "read", Quiet,
           NEW way \in Path, Wait(p, way)
    PROVE  IInv'
<1>1. LocalOK'
  BY DEF IInv, TypeOK, LocalOK, Wait, Goto, Unleased
<1>2. HolderInv'
  BY OutsideQuietly DEF Wait, Unleased, Leased, Path
<1>3. QED
  BY <1>1, <1>2, QuietStep

LEMMA RouteKeeps ==
    ASSUME IInv, NEW p \in Invocations, Route(p)
    PROVE  IInv'
<1>1. Quiet /\ pc[p] = "read"
  BY DEF IInv, TypeOK, Route, Quiet
<1>2. \/ \E way \in Path : Wait(p, way)
      \/ Leave(p)
  BY DEF Route, Path
<1>3. QED
  BY <1>1, <1>2, WaitKeeps, LeaveQuietly

(* A fresh holder has read nothing yet. *)
LEMMA AcquireKeeps ==
    ASSUME IInv, NEW p \in Invocations, Acquire(p)
    PROVE  IInv'
<1>1. Quiet
  BY DEF IInv, TypeOK, Acquire, Quiet
<1>2. path[p] \in Path /\ lease' = p /\ pc'[p] = path[p]
  BY DEF IInv, TypeOK, Acquire, Goto
<1>3. LocalOK'
  BY <1>2 DEF IInv, TypeOK, LocalOK, Acquire, Goto, Leased
<1>4. Knows(p)'
  BY <1>2 DEF Knows, Path, Leased, Brokering, Dispatched
<1>5. \A q \in Invocations : q # p => pc'[q] \notin Leased
  BY NoneIsNobody DEF IInv, HolderInv, TypeOK, Acquire, Goto
<1>6. HolderInv'
  BY <1>2, <1>4, <1>5 DEF HolderInv
<1>7. QED
  BY <1>1, <1>3, <1>6, QuietStep

LEMMA StopKeeps ==
    ASSUME IInv, NEW p \in Invocations, Stop(p)
    PROVE  IInv'
<1>1. Quiet
  BY FaultsAssumption DEF IInv, TypeOK, Stop, Fault, Quiet
<1>2. QED
  BY <1>1, LeaveQuietly DEF Stop

LEMMA RecoverHistoricalKeeps ==
    ASSUME IInv, NEW p \in Invocations, RecoverHistorical(p)
    PROVE  IInv'
<1>1. Quiet /\ pc[p] \in Leased
  BY DEF IInv, TypeOK, RecoverHistorical, Quiet, Leased, Path
<1>2. CASE Leave(p)
  BY <1>1, <1>2, LeaveQuietly
<1>3. CASE ~Leave(p)
  <2>1. run = "running" /\ Running(1) /\ Work(p, 1)
    BY <1>3 DEF RecoverHistorical, HistoricalEligible, Running
  <2>2. PICK l \in {"record", "fence"} :
            Goto(p, l) /\ (l = "record" => 1 \in marker)
    BY <1>3 DEF RecoverHistorical, Resolution
  <2>3. pc'[p] = l /\ gen'[p] = 1 /\ l \in Leased
    BY <2>1, <2>2 DEF IInv, TypeOK, Goto, Work, Leased
  <2>4. Knows(p)'
    BY <1>1, <2>1, <2>2, <2>3
    DEF Knows, Running, Quiet, durable, Leased, Path, Brokering, Dispatched
  <2>5. QED
    BY <1>1, <2>1, <2>2, <2>3, <2>4, WorkQuietly DEF Generations
<1>4. QED
  BY <1>2, <1>3

(* The journal of a completed run is marked by whoever reopens it. *)
LEMMA MarkCompletedKeeps ==
    ASSUME IInv, NEW p \in Invocations, pc[p] \in Leased, run = "completed",
           MarkCompleted, Leave(p), UNCHANGED <<box, calls, faults>>
    PROVE  IInv'
<1>1. journal.phase \in {"published", "completed"}
  BY DEF IInv, RunInv
<1>2. /\ journal'.phase = "completed" /\ journal'.gen = journal.gen
      /\ journal' \in [phase : Phase, gen : Generations]
  BY DEF IInv, TypeOK, MarkCompleted, Phase
<1>3. TypeOK'
  BY <1>2, LeaveTyped DEF IInv, TypeOK, LocalOK, MarkCompleted, store
<1>4. JournalInv' /\ MarkerInv'
  BY <1>1, <1>2 DEF IInv, TypeOK, JournalInv, MarkerInv, MarkCompleted, store, Generations
<1>5. RunInv'
  BY <1>1, <1>2 DEF IInv, RunInv, FailedIsClosed, MarkCompleted, store
<1>6. HolderInv'
  BY LeaveKeeps DEF IInv
<1>7. QED
  BY <1>3, <1>4, <1>5, <1>6 DEF IInv

LEMMA ReplayTerminalKeeps ==
    ASSUME IInv, NEW p \in Invocations, ReplayTerminal(p)
    PROVE  IInv'
<1>1. pc[p] \in Leased /\ UNCHANGED <<box, calls, faults>>
  BY DEF ReplayTerminal, Leased, Path
<1>2. CASE MarkCompleted /\ Leave(p) /\ run = "completed"
  BY <1>1, <1>2, MarkCompletedKeeps
<1>3. CASE \E l \in Leased : Stay(p, l) /\ UNCHANGED durable /\ Knows(p)'
  <2>1. Quiet
    BY <1>1, <1>3 DEF IInv, TypeOK, Quiet
  <2>2. QED
    BY <1>1, <1>3, <2>1, StayQuietly
<1>4. CASE journal.phase = "rejected" /\ Stay(p, "failRun") /\ UNCHANGED durable
  <2>1. pc'[p] = "failRun" /\ "failRun" \in Leased
    BY <1>4 DEF IInv, TypeOK, Stay, Goto, Leased
  <2>2. Knows(p)'
    BY <1>1, <1>4, <2>1
    DEF IInv, JournalInv, RunInv, Knows, durable, Leased, Path, Brokering, Dispatched
  <2>3. QED
    BY <1>3, <1>4, <2>1, <2>2
<1>5. CASE /\ journal.phase = "published" /\ run = "running"
           /\ Stay(p, "capture") /\ UNCHANGED durable
  <2>1. pc'[p] = "capture" /\ "capture" \in Leased
    BY <1>5 DEF IInv, TypeOK, Stay, Goto, Leased
  <2>2. Knows(p)'
    BY <1>5, <2>1 DEF Knows, durable, Leased, Path, Brokering, Dispatched
  <2>3. QED
    BY <1>3, <1>5, <2>1, <2>2
<1>6. CASE /\ journal.phase = "published" /\ run = "publishing"
           /\ capture /\ thread
           /\ Stay(p, "publish") /\ UNCHANGED durable
  <2>1. pc'[p] = "publish" /\ "publish" \in Leased
    BY <1>6 DEF IInv, TypeOK, Stay, Goto, Leased
  <2>2. Knows(p)'
    BY <1>6, <2>1 DEF Knows, durable, Leased, Path, Brokering, Dispatched
  <2>3. QED
    BY <1>3, <1>6, <2>1, <2>2
<1>7. QED
  BY <1>2, <1>4, <1>5, <1>6 DEF ReplayTerminal

(* The claim: the run leaves the queue before it has a journal. *)
LEMMA ExecuteLeasedKeeps ==
    ASSUME IInv, NEW p \in Invocations, ExecuteLeased(p)
    PROVE  IInv'
<1>1. pc[p] \in Leased /\ lease = p /\ UNCHANGED <<box, calls, faults>>
  BY DEF IInv, HolderInv, ExecuteLeased, Leased, Path
<1>2. CASE run = "queued" /\ run' = "running" /\ Stay(p, "prepare")
           /\ UNCHANGED <<journal, store, capture, thread>>
  <2>1. pc'[p] = "prepare" /\ "prepare" \in Leased /\ lease' = p
    BY <1>1, <1>2 DEF IInv, TypeOK, Stay, Goto, Leased
  <2>2. TypeOK'
    BY <1>1, <1>2, <2>1, StayTyped DEF IInv, TypeOK, LocalOK, RunStatus, store
  <2>3. JournalInv' /\ MarkerInv'
    BY <1>1, <1>2 DEF IInv, JournalInv, MarkerInv, store
  <2>4. RunInv'
    BY <1>1, <1>2 DEF IInv, JournalInv, RunInv, FailedIsClosed, store
  <2>5. Knows(p)'
    BY <1>2, <2>1 DEF Knows, Leased, Path, Brokering, Dispatched
  <2>6. HolderInv'
    BY <1>1, <1>2, <2>1, <2>5, HolderMoves DEF IInv, Stay
  <2>7. QED
    BY <2>2, <2>3, <2>4, <2>6 DEF IInv
<1>3. CASE /\ run \in {"running", "publishing"}
           /\ Stay(p, "resume") /\ UNCHANGED durable
  <2>1. pc'[p] = "resume" /\ "resume" \in Leased
    BY <1>3 DEF IInv, TypeOK, Stay, Goto, Leased
  <2>2. Knows(p)'
    BY <1>3, <2>1 DEF Knows, durable, Leased, Path, Brokering, Dispatched
  <2>3. Quiet
    BY <1>1, <1>3 DEF IInv, TypeOK, Quiet
  <2>4. QED
    BY <1>1, <1>3, <2>1, <2>2, <2>3, StayQuietly
<1>4. CASE run = "completed" /\ MarkCompleted /\ Leave(p)
  BY <1>1, <1>4, MarkCompletedKeeps
<1>5. CASE Leave(p) /\ UNCHANGED durable
  <2>1. Quiet
    BY <1>1, <1>5 DEF IInv, TypeOK, Quiet
  <2>2. QED
    BY <1>5, <2>1, LeaveQuietly
<1>6. QED
  BY <1>2, <1>3, <1>4, <1>5 DEF ExecuteLeased

(* Resuming: the journal, read under the lease, says what comes next. *)
LEMMA ResumeKeeps ==
    ASSUME IInv, NEW p \in Invocations, Resume(p)
    PROVE  IInv'
<1>1. Quiet /\ pc[p] \in Leased
  BY DEF IInv, TypeOK, Resume, Quiet, Leased
<1>2. CASE Leave(p)
  BY <1>1, <1>2, LeaveQuietly
<1>3. CASE ~Leave(p)
  <2>1. journal.phase # "absent" /\ Goto(p, ResumeLabel) /\ Work(p, journal.gen)
    BY <1>3 DEF Resume
  <2>2. run \in {"running", "publishing"}
    BY <1>1 DEF IInv, HolderInv, Knows, Resume
  <2>3. journal.phase \in {"prepared", "cleaned", "dispatching", "published", "rejected"}
    BY <2>1, <2>2 DEF IInv, TypeOK, RunInv, Phase
  <2>4. journal.phase # "published" => run = "running"
    BY <2>2, <2>3 DEF IInv, RunInv
  <2>5. ResumeLabel \in Leased
    BY <2>3, ResumeLeads DEF Leased
  <2>6. pc'[p] = ResumeLabel /\ gen'[p] = journal.gen /\ journal.gen \in Generations
    BY <2>1 DEF IInv, TypeOK, Goto, Work
  <2>7. UNCHANGED <<run, journal, marker, fence, advance, staged, capture, thread,
                    box, calls>>
    BY <1>1 DEF Quiet, durable
  <2>8. Knows(p)'
    <3>1. CASE journal.phase = "prepared"
      <4>1. pc'[p] = "markDispatching" /\ run = "running" /\ journal.gen = 0
        BY <3>1, <2>4, <2>6, ResumeLeads DEF IInv, JournalInv
      <4>2. QED
        BY <4>1, <2>7 DEF Knows, Leased, Path, Brokering, Dispatched
    <3>2. CASE journal.phase = "cleaned"
      <4>1. pc'[p] = "advance" /\ run = "running"
        BY <3>2, <2>4, <2>6, ResumeLeads
      <4>2. QED
        BY <3>2, <4>1, <2>7 DEF Knows, Leased, Path, Brokering, Dispatched
    <3>3. CASE journal.phase = "dispatching"
      <4>1. pc'[p] = "recover" /\ run = "running" /\ Running(gen'[p])
        BY <3>3, <2>4, <2>6, ResumeLeads DEF IInv, TypeOK, Running
      <4>2. QED
        BY <4>1, <2>7 DEF Knows, Running, Leased, Path, Brokering, Dispatched
    <3>4. CASE journal.phase = "published" /\ run = "publishing"
      <4>1. pc'[p] = "publish" /\ capture /\ thread
        BY <3>4, <2>6, ResumeLeads DEF IInv, RunInv
      <4>2. QED
        BY <3>4, <4>1, <2>7 DEF Knows, Leased, Path, Brokering, Dispatched
    <3>5. CASE journal.phase = "published" /\ run # "publishing"
      <4>1. pc'[p] = "capture" /\ run = "running"
        BY <3>5, <2>2, <2>6, ResumeLeads
      <4>2. QED
        BY <3>5, <4>1, <2>7 DEF Knows, Leased, Path, Brokering, Dispatched
    <3>6. CASE journal.phase = "rejected"
      <4>1. pc'[p] = "failRun" /\ marker = {} /\ box = None /\ ~thread
        BY <3>6, <2>6, ResumeLeads DEF IInv, JournalInv, RunInv
      <4>2. QED
        BY <3>6, <4>1, <2>7 DEF Knows, Leased, Path, Brokering, Dispatched
    <3>7. QED
      BY <2>3, <3>1, <3>2, <3>3, <3>4, <3>5, <3>6
  <2>9. QED
    BY <1>1, <2>1, <2>5, <2>6, <2>8, WorkQuietly
<1>4. QED
  BY <1>2, <1>3

-----------------------------------------------------------------------------
(* The broker, the recovery of a dispatch, and the ends of the run. *)

LEMMA InspectKeeps ==
    ASSUME IInv, NEW p \in Invocations, Inspect(p)
    PROVE  IInv'
<1>1. Quiet /\ pc[p] \in Leased /\ lease' = p /\ Knows(p)
  BY DEF IInv, TypeOK, HolderInv, Inspect, Quiet, Leased
<1>2. run = "running" /\ Running(gen[p]) /\ marker = {}
  BY <1>1 DEF Knows, Inspect, Leased, Path, Brokering, Dispatched
<1>3. pc'[p] = "destroy" /\ gen' = gen /\ Goto(p, "destroy")
  BY DEF IInv, TypeOK, Inspect, Goto
<1>4. LocalOK'
  BY DEF IInv, TypeOK, LocalOK, Inspect, Goto, Outcome, Leased
<1>5. Knows(p)'
  BY <1>1, <1>2, <1>3 DEF Knows, Running, Quiet, durable, Leased, Path, Brokering, Dispatched
<1>6. HolderInv'
  BY <1>1, <1>3, <1>5, HolderMoves DEF IInv
<1>7. QED
  BY <1>1, <1>4, <1>6, QuietStep

(* The sandbox is gone: nothing the broker knew is disturbed. *)
LEMMA DestroyKeeps ==
    ASSUME IInv, NEW p \in Invocations, Destroy(p)
    PROVE  IInv'
<1>1. pc[p] \in Leased /\ lease = p /\ Knows(p)
  BY DEF IInv, HolderInv, Destroy, Leased
<1>2. run = "running" /\ Running(gen[p]) /\ marker = {}
  BY <1>1 DEF Knows, Destroy, Leased, Path, Brokering, Dispatched
<1>3. PICK l \in {"stage", "reject", "recover"} : Stay(p, l)
  <2>1. CASE result[p] = "outputs"
    <3>1. Stay(p, "stage")
      BY <2>1, Zenon DEF Destroy
    <3>2. QED
      BY <3>1
  <2>2. CASE result[p] = "invalid"
    <3>1. Stay(p, "reject")
      BY <2>2, Zenon DEF Destroy
    <3>2. QED
      BY <3>1
  <2>3. CASE result[p] # "outputs" /\ result[p] # "invalid"
    <3>1. Stay(p, "recover")
      BY <2>3, Zenon DEF Destroy
    <3>2. QED
      BY <3>1
  <2>4. QED
    BY <2>1, <2>2, <2>3
<1>4. pc'[p] = l /\ l \in Leased /\ lease' = p /\ gen' = gen /\ Goto(p, l)
  BY <1>1, <1>3 DEF IInv, TypeOK, Stay, Goto, Leased
<1>5. box' = None /\ UNCHANGED <<run, journal, marker, fence, advance, staged,
                                 capture, thread, calls, faults>>
  BY DEF Destroy, durable
<1>6. TypeOK'
  BY <1>3, <1>4, <1>5, StayTyped DEF IInv, TypeOK, LocalOK
<1>7. JournalInv' /\ MarkerInv'
  BY <1>2, <1>5, NoneIsNobody DEF IInv, JournalInv, MarkerInv
<1>8. RunInv'
  BY <1>2, <1>5 DEF IInv, RunInv, FailedIsClosed
<1>9. Knows(p)'
  BY <1>2, <1>4, <1>5 DEF Knows, Running, Leased, Path, Brokering, Dispatched
<1>10. HolderInv'
  BY <1>1, <1>4, <1>9, HolderMoves DEF IInv
<1>11. QED
  BY <1>6, <1>7, <1>8, <1>10 DEF IInv

LEMMA DestroyUnprovenKeeps ==
    ASSUME IInv, NEW p \in Invocations, DestroyUnproven(p)
    PROVE  IInv'
<1>1. Quiet /\ pc[p] \in Leased /\ Knows(p)
  BY FaultsAssumption
  DEF IInv, TypeOK, HolderInv, DestroyUnproven, Fault, Quiet, Leased
<1>2. run = "running" /\ Running(gen[p])
  BY <1>1 DEF Knows, DestroyUnproven, Leased, Path, Brokering, Dispatched
<1>3. pc'[p] = "recover" /\ gen' = gen /\ "recover" \in Leased
  BY DEF IInv, TypeOK, DestroyUnproven, Stay, Goto, Leased
<1>4. Knows(p)'
  BY <1>1, <1>2, <1>3 DEF Knows, Running, Quiet, durable, Leased, Path, Brokering, Dispatched
<1>5. QED
  BY <1>1, <1>3, <1>4, StayQuietly DEF DestroyUnproven

(* Recovery asks the store whether the dispatched generation published. *)
LEMMA RecoverKeeps ==
    ASSUME IInv, NEW p \in Invocations, Recover(p)
    PROVE  IInv'
<1>1. Quiet /\ pc[p] \in Leased /\ Knows(p)
  BY DEF IInv, TypeOK, HolderInv, Recover, Quiet, Leased
<1>2. run = "running" /\ Running(gen[p])
  BY <1>1 DEF Knows, Recover, Leased, Path, Brokering, Dispatched
<1>3. PICK l \in {"record", "fence"} :
          Stay(p, l) /\ (l = "record" => gen[p] \in marker)
  BY DEF Recover, Resolution
<1>4. pc'[p] = l /\ gen' = gen /\ l \in Leased
  BY <1>3 DEF IInv, TypeOK, Stay, Goto, Leased
<1>5. Knows(p)'
  BY <1>1, <1>2, <1>3, <1>4 DEF Knows, Running, Quiet, durable, Leased, Path, Brokering, Dispatched
<1>6. QED
  BY <1>1, <1>3, <1>4, <1>5, StayQuietly

(* Once the sandbox of a fenced generation is gone, the first generation   *)
(* is cleaned and the second one is out of tries.                          *)
LEMMA KillKeeps ==
    ASSUME IInv, NEW p \in Invocations, Kill(p)
    PROVE  IInv'
<1>1. pc[p] \in Leased /\ lease = p /\ Knows(p)
  BY DEF IInv, HolderInv, Kill, Leased
<1>2. run = "running" /\ Running(gen[p]) /\ marker = {} /\ gen[p] \in fence
  BY <1>1 DEF Knows, Kill, Leased, Path, Brokering, Dispatched
<1>3. box' = None /\ UNCHANGED <<run, journal, marker, fence, advance, staged,
                                 capture, thread, calls, faults>>
  BY DEF Kill, durable
<1>4. JournalInv' /\ MarkerInv'
  BY <1>2, <1>3, NoneIsNobody DEF IInv, JournalInv, MarkerInv
<1>5. RunInv'
  BY <1>2, <1>3 DEF IInv, RunInv, FailedIsClosed
<1>6. CASE Leave(p)
  <2>1. TypeOK'
    BY <1>3, <1>6, LeaveTyped DEF IInv, TypeOK, LocalOK
  <2>2. HolderInv'
    BY <1>1, <1>6, LeaveKeeps DEF IInv
  <2>3. QED
    BY <1>4, <1>5, <2>1, <2>2 DEF IInv
<1>7. CASE gen[p] = 0 /\ Stay(p, "markCleaned")
  <2>1. /\ pc'[p] = "markCleaned" /\ "markCleaned" \in Leased
        /\ lease' = p /\ gen' = gen /\ Goto(p, "markCleaned")
    BY <1>1, <1>7 DEF IInv, TypeOK, Stay, Goto, Leased
  <2>2. TypeOK'
    BY <1>3, <1>7, <2>1, StayTyped DEF IInv, TypeOK, LocalOK
  <2>3. Knows(p)'
    BY <1>2, <1>3, <1>7, <2>1 DEF Knows, Running, Leased, Path, Brokering, Dispatched
  <2>4. HolderInv'
    BY <1>1, <2>1, <2>3, HolderMoves DEF IInv
  <2>5. QED
    BY <1>4, <1>5, <2>2, <2>4 DEF IInv
<1>8. CASE gen[p] = 1 /\ Stay(p, "failRun")
  <2>1. /\ pc'[p] = "failRun" /\ "failRun" \in Leased
        /\ lease' = p /\ Goto(p, "failRun")
    BY <1>1, <1>8 DEF IInv, TypeOK, Stay, Goto, Leased
  <2>2. TypeOK'
    BY <1>3, <1>8, <2>1, StayTyped DEF IInv, TypeOK, LocalOK
  <2>3. ~thread /\ fence = Generations
    <3>1. journal.gen = 1 /\ journal.phase = "dispatching" /\ 1 \in fence
      BY <1>2, <1>8 DEF Running
    <3>2. 0 \in fence /\ ~thread
      BY <3>1 DEF IInv, JournalInv, RunInv
    <3>3. fence \subseteq Generations
      BY DEF IInv, TypeOK
    <3>4. QED
      BY <3>1, <3>2, <3>3 DEF Generations
  <2>4. Knows(p)'
    BY <1>2, <1>3, <2>1, <2>3 DEF Knows, Leased, Path, Brokering, Dispatched
  <2>5. HolderInv'
    BY <1>1, <2>1, <2>4, HolderMoves DEF IInv
  <2>6. QED
    BY <1>4, <1>5, <2>2, <2>5 DEF IInv
<1>9. QED
  BY <1>6, <1>7, <1>8 DEF Kill

LEMMA CompleteAttemptKeeps ==
    ASSUME IInv, NEW p \in Invocations, CompleteAttempt(p)
    PROVE  IInv'
<1>1. pc[p] \in Leased /\ Knows(p)
  BY DEF IInv, HolderInv, CompleteAttempt, Leased
<1>2. run = "completed"
  BY <1>1 DEF Knows, CompleteAttempt
<1>3. QED
  BY <1>1, <1>2, MarkCompletedKeeps DEF CompleteAttempt

LEMMA FailRunKeeps ==
    ASSUME IInv, NEW p \in Invocations, FailRun(p)
    PROVE  IInv'
<1>1. pc[p] \in Leased /\ Knows(p)
  BY DEF IInv, HolderInv, FailRun, Leased
<1>2. /\ marker = {} /\ box = None /\ ~thread
      /\ journal.phase = "rejected" \/ fence = Generations
  BY <1>1 DEF Knows, FailRun
<1>3. run' = "failed" /\ UNCHANGED <<journal, marker, fence, advance, staged,
                                     capture, thread, box, calls, faults>>
  BY DEF FailRun, store
<1>4. TypeOK'
  BY <1>3, LeaveTyped DEF IInv, TypeOK, LocalOK, FailRun, RunStatus
<1>5. JournalInv' /\ MarkerInv'
  BY <1>3 DEF IInv, JournalInv, MarkerInv
<1>6. RunInv'
  BY <1>2, <1>3 DEF IInv, JournalInv, RunInv, FailedIsClosed, Generations
<1>7. HolderInv'
  BY <1>1, LeaveKeeps DEF IInv, FailRun
<1>8. QED
  BY <1>4, <1>5, <1>6, <1>7 DEF IInv

(* A call of the runner that throws has happened all the same. *)
LEMMA DispatchFailsKeeps ==
    ASSUME IInv, NEW p \in Invocations, DispatchFails(p)
    PROVE  IInv'
<1>1. pc[p] \in Leased /\ lease = p /\ Knows(p)
  BY DEF IInv, HolderInv, DispatchFails, Leased
<1>2. run = "running" /\ Running(gen[p]) /\ marker = {}
      /\ calls[gen[p]] = 0 /\ box = None
  BY <1>1 DEF Knows, DispatchFails, Leased, Path, Brokering, Dispatched
<1>3. /\ pc'[p] = "recover" /\ "recover" \in Leased
      /\ lease' = p /\ gen' = gen /\ Goto(p, "recover")
  BY <1>1 DEF IInv, TypeOK, DispatchFails, Stay, Goto, Leased
<1>4. TypeOK'
  <2>1. marker' \subseteq Generations /\ fence' \subseteq Generations
            /\ staged' \subseteq Generations /\ faults' \in 0..MaxFaults
    BY FaultsAssumption DEF IInv, TypeOK, DispatchFails, Fault, durable, store, AbortByRunId
  <2>2. QED
    BY <1>2, <1>3, <2>1, StayTyped
    DEF IInv, TypeOK, LocalOK, DispatchFails, durable, store, Generations
<1>5. JournalInv' /\ MarkerInv'
  BY <1>2, NoneIsNobody
  DEF IInv, TypeOK, JournalInv, MarkerInv, Running, Generations,
      DispatchFails, durable, store, AbortByRunId, Open
<1>6. RunInv'
  BY <1>2 DEF IInv, RunInv, FailedIsClosed, DispatchFails, durable, store
<1>7. Knows(p)'
  BY <1>2, <1>3
     DEF Knows, Running, DispatchFails, durable, store, Leased, Path, Brokering, Dispatched
<1>8. HolderInv'
  BY <1>1, <1>3, <1>7, HolderMoves DEF IInv
<1>9. QED
  BY <1>4, <1>5, <1>6, <1>8 DEF IInv

(* Closing the generation after a bad batch is best effort. *)
LEMMA StageFailsKeeps ==
    ASSUME IInv, NEW p \in Invocations, StageFails(p)
    PROVE  IInv'
<1>1. pc[p] \in Leased /\ lease = p /\ Knows(p)
  BY DEF IInv, HolderInv, StageFails, Leased
<1>2. run = "running" /\ Running(gen[p]) /\ marker = {} /\ box = None
  BY <1>1 DEF Knows, StageFails, Leased, Path, Brokering, Dispatched
<1>3. /\ pc'[p] = "recover" /\ "recover" \in Leased
      /\ lease' = p /\ gen' = gen /\ Goto(p, "recover")
  BY <1>1 DEF IInv, TypeOK, StageFails, Stay, Goto, Leased
<1>4. TypeOK'
  <2>1. marker' \subseteq Generations /\ fence' \subseteq Generations
            /\ staged' \subseteq Generations /\ faults' \in 0..MaxFaults
    BY FaultsAssumption DEF IInv, TypeOK, StageFails, Fault, durable, store, AbortByRunId
  <2>2. QED
    BY <1>2, <1>3, <2>1, StayTyped
    DEF IInv, TypeOK, LocalOK, StageFails, durable, store, AbortByRunId, Generations
<1>5. JournalInv' /\ MarkerInv'
  BY <1>2, NoneIsNobody
  DEF IInv, TypeOK, JournalInv, MarkerInv, Running, Generations,
      StageFails, durable, store, AbortByRunId, Open
<1>6. RunInv'
  BY <1>2 DEF IInv, RunInv, FailedIsClosed, StageFails, durable, store
<1>7. Knows(p)'
  BY <1>2, <1>3 DEF Knows, Running, StageFails, durable, store, Leased, Path, Brokering, Dispatched
<1>8. HolderInv'
  BY <1>1, <1>3, <1>7, HolderMoves DEF IInv
<1>9. QED
  BY <1>4, <1>5, <1>6, <1>8 DEF IInv

(* The marker may or may not be durable when the commit throws. *)
LEMMA CommitFailsKeeps ==
    ASSUME IInv, NEW p \in Invocations, CommitFails(p)
    PROVE  IInv'
<1>1. pc[p] \in Leased /\ lease = p /\ Knows(p)
  BY DEF IInv, HolderInv, CommitFails, Leased
<1>2. run = "running" /\ Running(gen[p]) /\ marker = {} /\ box = None
  BY <1>1 DEF Knows, CommitFails, Leased, Path, Brokering, Dispatched
<1>3. /\ pc'[p] = "recover" /\ "recover" \in Leased
      /\ lease' = p /\ gen' = gen /\ Goto(p, "recover")
  BY <1>1 DEF IInv, TypeOK, CommitFails, Stay, Goto, Leased
<1>4. TypeOK'
  <2>1. marker' \subseteq Generations /\ fence' \subseteq Generations
            /\ staged' \subseteq Generations /\ faults' \in 0..MaxFaults
    BY FaultsAssumption DEF IInv, TypeOK, CommitFails, Fault, durable, store, AbortByRunId
  <2>2. QED
    BY <1>2, <1>3, <2>1, StayTyped
    DEF IInv, TypeOK, LocalOK, CommitFails, durable, store, Generations
<1>5. JournalInv' /\ MarkerInv'
  BY <1>2, NoneIsNobody
  DEF IInv, TypeOK, JournalInv, MarkerInv, Running, Generations,
      CommitFails, durable, store, AbortByRunId, Open
<1>6. RunInv'
  BY <1>2 DEF IInv, RunInv, FailedIsClosed, CommitFails, durable, store
<1>7. Knows(p)'
  BY <1>2, <1>3 DEF Knows, Running, CommitFails, durable, store, Leased, Path, Brokering, Dispatched
<1>8. HolderInv'
  BY <1>1, <1>3, <1>7, HolderMoves DEF IInv
<1>9. QED
  BY <1>4, <1>5, <1>6, <1>8 DEF IInv

LEMMA FenceFailsKeeps ==
    ASSUME IInv, NEW p \in Invocations, FenceFails(p)
    PROVE  IInv'
<1>1. pc[p] \in Leased /\ Knows(p)
  BY DEF IInv, HolderInv, FenceFails, Leased
<1>2. run = "running" /\ Running(gen[p])
  BY <1>1 DEF Knows, FenceFails, Leased, Path, Brokering, Dispatched
<1>3. box' \in {box, None} /\ UNCHANGED <<run, journal, marker, fence, advance,
                                          staged, capture, thread, calls>>
  BY DEF FenceFails, durable
<1>4. TypeOK'
  <2>1. faults' \in 0..MaxFaults
    BY FaultsAssumption DEF IInv, TypeOK, FenceFails, Fault
  <2>2. QED
    BY <1>3, <2>1, LeaveTyped DEF IInv, TypeOK, LocalOK, FenceFails
<1>5. JournalInv' /\ MarkerInv'
  BY <1>3, NoneIsNobody DEF IInv, JournalInv, MarkerInv
<1>6. RunInv'
  BY <1>2, <1>3 DEF IInv, RunInv, FailedIsClosed
<1>7. HolderInv'
  BY <1>1, LeaveKeeps DEF IInv, FenceFails
<1>8. QED
  BY <1>4, <1>5, <1>6, <1>7 DEF IInv

-----------------------------------------------------------------------------
(* The inductive invariant. *)

LEMMA InitIInv == Init => IInv
<1> SUFFICES ASSUME Init PROVE IInv
  OBVIOUS
<1>1. /\ pc \in [Invocations -> Unleased \cup Leased]
      /\ seen \in [Invocations -> RunStatus] /\ path \in [Invocations -> Path]
      /\ result \in [Invocations -> Outcome]
  BY DEF Init, Unleased, RunStatus, Path, Outcome
<1>2. TypeOK
  <2>1. 0 \in Generations /\ 0 \in 0..MaxFaults
    BY FaultsAssumption DEF Generations
  <2>2. journal \in [phase : Phase, gen : Generations] /\ run \in RunStatus
    BY <2>1 DEF Init, Phase, RunStatus
  <2>3. gen \in [Invocations -> Generations] /\ calls \in [Generations -> Nat]
    BY <2>1 DEF Init
  <2>4. QED
    BY <1>1, <2>1, <2>2, <2>3 DEF Init, TypeOK
<1>3. JournalInv /\ MarkerInv
  BY NoneIsNobody DEF Init, JournalInv, MarkerInv, Generations
<1>4. RunInv
  BY DEF Init, RunInv, FailedIsClosed
<1>5. HolderInv
  BY DEF Init, HolderInv, Leased, Path
<1>6. QED
  BY <1>2, <1>3, <1>4, <1>5 DEF IInv

LEMMA StutterKeeps ==
    ASSUME IInv, UNCHANGED vars
    PROVE  IInv'
<1>1. Quiet /\ LocalOK'
  BY DEF IInv, TypeOK, LocalOK, Quiet, vars, durable
<1>2. HolderInv'
  BY DEF IInv, HolderInv, Knows, Running, vars
<1>3. QED
  BY <1>1, <1>2, QuietStep

LEMMA NextIInv == IInv /\ [Next]_vars => IInv'
<1> SUFFICES ASSUME IInv, [Next]_vars PROVE IInv'
  OBVIOUS
<1>2. CASE UNCHANGED vars
  BY <1>2, StutterKeeps
<1>3. ASSUME NEW p \in Invocations, Step(p) PROVE IInv'
  BY <1>3, EnterKeeps, RouteKeeps, AcquireKeeps, RecoverHistoricalKeeps,
     ReplayTerminalKeeps, ExecuteLeasedKeeps, PrepareKeeps, ResumeKeeps,
     MarkDispatchingKeeps, DispatchKeeps, InspectKeeps, DestroyKeeps, StageKeeps,
     CommitKeeps, RecordPublishedKeeps, RecordRejectedKeeps, RecoverKeeps,
     FenceGenerationKeeps, KillKeeps, MarkCleanedKeeps, AdvanceGenerationKeeps,
     MarkRedispatchingKeeps, PersistCaptureKeeps, SaveThreadKeeps, PublishRunKeeps,
     CompleteRunKeeps, CompleteAttemptKeeps, FailRunKeeps
  DEF Step
<1>4. ASSUME NEW p \in Invocations, Failure(p) PROVE IInv'
  BY <1>4, StopKeeps, DispatchFailsKeeps, DestroyUnprovenKeeps, StageFailsKeeps,
     CommitFailsKeeps, FenceFailsKeeps
  DEF Failure
<1>5. QED
  BY <1>2, <1>3, <1>4 DEF Next

(* Every reachable state of the run satisfies the inductive invariant. *)
THEOREM ExecutionInvariant == Spec => []IInv
  BY InitIInv, NextIInv, PTL DEF Spec

-----------------------------------------------------------------------------
(* What the invariant means for the run. *)

LEMMA BackedByInvariant == IInv => LedgerIsBacked
<1> SUFFICES ASSUME IInv PROVE LedgerIsBacked
  OBVIOUS
<1>2. ReportedIsBacked
  BY DEF IInv, JournalInv, MarkerInv, RunInv, ReportedIsBacked
<1>3. QED
  BY <1>2 DEF IInv, RunInv, LedgerIsBacked

(* The ledger never reports more than the durable evidence supports: a     *)
(* publishing or completed run has its marker, capture and successor and   *)
(* no sandbox, a failed one is closed for good, wherever invocations die   *)
(* between the journal, the output store, the thread and the ledger.       *)
THEOREM LedgerStaysBacked == Spec => []LedgerIsBacked
  BY ExecutionInvariant, BackedByInvariant, PTL

LEMMA OnceByInvariant == IInv => RunsOnce
<1> SUFFICES ASSUME IInv PROVE RunsOnce
  OBVIOUS
<1>2. journal.phase \in Phase /\ journal.gen \in {0, 1}
      /\ journal = [phase |-> journal.phase, gen |-> journal.gen]
  BY DEF IInv, TypeOK, Generations
<1>3. journal.phase \notin {"absent", "prepared"} => Progress \in Nat /\ Progress >= 2
  BY <1>2, ProgressIs DEF ProgressByPhase, IInv, Running, Phase
<1>4. journal.gen = 1 => Progress \in Nat /\ Progress >= 4
  BY <1>2, ProgressIs DEF ProgressByPhase, IInv, JournalInv, Running
<1>5. OneDispatchPerGeneration
  <2> SUFFICES ASSUME NEW g \in Generations
                 PROVE  /\ calls[g] <= 1
                        /\ calls[g] = 1 => /\ Progress >= (IF g = 0 THEN 2 ELSE 4)
                                           /\ g = 1 => journal.gen = 1
    BY DEF OneDispatchPerGeneration
  <2>2. calls[g] <= 1
    BY DEF IInv, MarkerInv
  <2>3. CASE g = 0
    BY <1>3, <2>2, <2>3 DEF IInv, JournalInv
  <2>4. CASE g = 1
    BY <1>2, <1>4, <2>2, <2>4 DEF IInv, JournalInv
  <2>5. QED
    BY <2>3, <2>4 DEF Generations
<1>6. GenerationsDoNotOverlap
  <2>1. journal.gen = 0 => ~(box = 1 \/ 1 \in staged \/ 1 \in marker \/ calls[1] > 0)
    BY DEF IInv, JournalInv
  <2>2. QED
    BY <1>2, <2>1 DEF IInv, JournalInv, GenerationsDoNotOverlap
<1>7. PublishedIsQuiet
  BY NoneIsNobody DEF IInv, TypeOK, MarkerInv, PublishedIsQuiet, Generations
<1>8. QED
  BY <1>5, <1>6, <1>7 DEF RunsOnce

(* The program of a run takes effect once: runner.run is called at most    *)
(* once per generation and never ahead of the journal, the two generations *)
(* never overlap, and a published output is neither running nor fenced.    *)
(* However many processes execute the run and wherever they die.           *)
THEOREM RunTakesEffectOnce == Spec => []RunsOnce
  BY ExecutionInvariant, OnceByInvariant, PTL

-----------------------------------------------------------------------------
(* The journal as a write-ahead log. *)

(* The moves the journal makes. *)
JournalMove ==
    \/ journal' = journal
    \/ journal.phase = "absent" /\ journal'.phase = "prepared"
    \/ journal.phase = "prepared" /\ Running(0)'
    \/ Running(0) /\ journal'.phase = "cleaned"
    \/ journal.phase = "cleaned" /\ Running(1)'
    \/ /\ Running(0) \/ Running(1)
       /\ journal'.phase \in {"published", "rejected"}
    \/ /\ journal.phase \in {"published", "completed"}
       /\ journal'.phase = "completed"

LEMMA MoveGoesForward ==
    ASSUME TypeOK, TypeOK', JournalMove
    PROVE  /\ Progress' >= Progress
           /\ journal.phase = "rejected" => journal' = journal
<1>1. /\ journal.phase \in Phase /\ journal.gen \in {0, 1}
      /\ journal = [phase |-> journal.phase, gen |-> journal.gen]
  BY DEF TypeOK, Generations
<1>2. Progress \in Nat
  BY <1>1, ProgressIs DEF ProgressByPhase, Running, Phase
<1>3. CASE journal' = journal
  <2>1. Progress' = Progress
    BY <1>3 DEF Progress
  <2>2. QED
    BY <1>2, <1>3, <2>1
<1>4. CASE journal' # journal
  <2>1. ProgressByPhase /\ ProgressByPhase'
    BY ProgressIs, PTL
  <2>2. QED
    BY <1>4, <2>1 DEF ProgressByPhase, JournalMove, Running
<1>5. QED
  BY <1>3, <1>4

(* A completed run has a journal to mark. *)
LEMMA MarksForward ==
    ASSUME IInv, run = "completed", MarkCompleted
    PROVE  JournalMove
<1>1. journal.phase \in {"published", "completed"}
  BY DEF IInv, RunInv
<1>2. journal'.phase = "completed"
  BY DEF IInv, TypeOK, MarkCompleted
<1>3. QED
  BY <1>1, <1>2 DEF JournalMove

(* Every step makes one of the moves and only adds markers and fences. *)
LEMMA StepMoves ==
    ASSUME IInv, NEW p \in Invocations, Step(p)
    PROVE  JournalMove /\ marker \subseteq marker' /\ fence \subseteq fence'
<1>1. CASE Enter(p) \/ Route(p) \/ Acquire(p) \/ RecoverHistorical(p) \/ Resume(p)
           \/ Dispatch(p) \/ Inspect(p) \/ Destroy(p) \/ Recover(p) \/ Kill(p)
  BY <1>1 DEF Enter, Route, Acquire, RecoverHistorical, Resume, Dispatch, Inspect,
              Destroy, Recover, Kill, durable, JournalMove
<1>2. CASE Stage(p) \/ Commit(p) \/ FenceGeneration(p) \/ AdvanceGeneration(p)
           \/ PersistCapture(p) \/ SaveThread(p) \/ PublishRun(p) \/ CompleteRun(p)
           \/ FailRun(p)
  BY <1>2 DEF Stage, Commit, FenceGeneration, AbortByRunId, AdvanceGeneration,
              PersistCapture, SaveThread, PublishRun, CompleteRun, FailRun, store,
              JournalMove
<1>3. CASE ReplayTerminal(p) \/ ExecuteLeased(p)
  <2>1. \/ journal' = journal
        \/ run = "completed" /\ MarkCompleted
    BY <1>3 DEF ReplayTerminal, ExecuteLeased, durable
  <2>2. JournalMove
    BY <2>1, MarksForward DEF JournalMove
  <2>3. marker' = marker /\ fence' = fence
    BY <1>3 DEF ReplayTerminal, ExecuteLeased, MarkCompleted, durable, store
  <2>4. QED
    BY <2>2, <2>3
<1>4. CASE CompleteAttempt(p)
  <2>1. run = "completed" /\ MarkCompleted
    BY <1>4 DEF IInv, HolderInv, Knows, CompleteAttempt, Leased
  <2>2. marker' = marker /\ fence' = fence
    BY <2>1 DEF MarkCompleted, store
  <2>3. QED
    BY <2>1, <2>2, MarksForward
<1>5. CASE Prepare(p) \/ MarkDispatching(p) \/ MarkCleaned(p) \/ MarkRedispatching(p)
  BY <1>5 DEF Prepare, MarkDispatching, MarkCleaned, MarkRedispatching, store,
              JournalMove, Running
<1>6. CASE RecordPublished(p) \/ RecordRejected(p)
  <2>1. Running(0) \/ Running(1)
    BY <1>6 DEF IInv, TypeOK, RecordPublished, RecordRejected, Running, Generations
  <2>2. journal'.phase \in {"published", "rejected"}
    BY <1>6 DEF IInv, TypeOK, RecordPublished, RecordRejected
  <2>3. marker' = marker /\ fence' = fence
    BY <1>6 DEF RecordPublished, RecordRejected, store
  <2>4. QED
    BY <2>1, <2>2, <2>3 DEF JournalMove
<1>7. QED
  BY <1>1, <1>2, <1>3, <1>4, <1>5, <1>6 DEF Step

LEMMA FailureMoves ==
    ASSUME NEW p \in Invocations, Failure(p)
    PROVE  JournalMove /\ marker \subseteq marker' /\ fence \subseteq fence'
  BY DEF Failure, Stop, DispatchFails, DestroyUnproven, StageFails, CommitFails,
         FenceFails, AbortByRunId, durable, store, JournalMove

(* Where an invocation of a quarantined run can be: it has not got beyond  *)
(* reading the journal that is not there.                                  *)
LEMMA QuarantineHolds ==
    ASSUME IInv, Quarantined, NEW p \in Invocations, pc[p] \in Leased
    PROVE  pc[p] \in Path \cup {"resume", "markDispatching"}
<1>1. Knows(p) /\ fence = {} /\ pc[p] # "prepare" /\ run = "running"
  BY DEF IInv, HolderInv, JournalInv, Quarantined
<1>2. journal.phase = "absent"
  BY DEF Quarantined
<1>3. pc[p] \notin Dispatched
  BY <1>1, <1>2 DEF Knows, Running
<1>4. pc[p] \notin {"advance", "redispatch", "capture", "save", "publish",
                    "complete", "close", "failRun"}
  BY <1>1, <1>2 DEF Knows, Generations
<1>5. QED
  BY <1>1, <1>3, <1>4 DEF Leased, Dispatched, Brokering

LEMMA QuarantineStays ==
    ASSUME IInv, Quarantined, NEW p \in Invocations, Step(p) \/ Failure(p)
    PROVE  Quarantined' /\ calls' = calls
<1>1. pc[p] \in Leased => pc[p] \in Path \cup {"resume", "markDispatching"}
  BY QuarantineHolds
<1>2. run = "running" /\ journal.phase = "absent"
  BY DEF Quarantined
<1>3. \/ Enter(p) \/ Route(p) \/ Acquire(p) \/ RecoverHistorical(p)
      \/ ExecuteLeased(p) \/ Resume(p) \/ Stop(p)
  BY <1>1, <1>2
  DEF Step, Failure, ReplayTerminal, Prepare, MarkDispatching, Dispatch, Inspect,
      Destroy, Stage, Commit, RecordPublished, RecordRejected, Recover,
      FenceGeneration, Kill, MarkCleaned, AdvanceGeneration, MarkRedispatching,
      PersistCapture, SaveThread, PublishRun, CompleteRun, CompleteAttempt, FailRun,
      DispatchFails, DestroyUnproven, StageFails, CommitFails, FenceFails,
      Leased, Path
<1>4. run' = run /\ journal' = journal /\ calls' = calls
  BY <1>2, <1>3 DEF Enter, Route, Acquire, RecoverHistorical, ExecuteLeased, Resume,
                    Stop, durable
<1>5. \E l \in Unleased \cup Path \cup {"resume", "record", "fence"} : Goto(p, l)
  <2>1. path[p] \in Path
    BY DEF IInv, TypeOK
  <2>2. QED
    BY <1>2, <1>3, <2>1
    DEF Enter, Route, Wait, Leave, Stay, Acquire, RecoverHistorical, ExecuteLeased,
        Resume, Stop, Unleased
<1>6. \A q \in Invocations : pc'[q] # "prepare"
  BY <1>5 DEF IInv, TypeOK, Quarantined, Goto, Unleased, Path
<1>7. QED
  BY <1>2, <1>4, <1>6 DEF Quarantined

(* The journal is a write-ahead log: it only moves forward, a rejection,   *)
(* a marker or a fence is never taken back, and a run that was claimed but *)
(* never prepared is left alone by every retry.                            *)
THEOREM JournalIsForward == Spec => JournalMovesForward
<1>1. ASSUME IInv, IInv', [Next]_vars
      PROVE  [/\ Progress' >= Progress
              /\ journal.phase = "rejected" => journal' = journal
              /\ marker \subseteq marker' /\ fence \subseteq fence'
              /\ Quarantined => Quarantined' /\ calls' = calls]_vars
  <2>1. SUFFICES ASSUME NEW p \in Invocations, Step(p) \/ Failure(p)
                 PROVE  /\ Progress' >= Progress
                        /\ journal.phase = "rejected" => journal' = journal
                        /\ marker \subseteq marker' /\ fence \subseteq fence'
                        /\ Quarantined => Quarantined' /\ calls' = calls
    BY <1>1 DEF Next
  <2>2. JournalMove /\ marker \subseteq marker' /\ fence \subseteq fence'
    BY <1>1, <2>1, StepMoves, FailureMoves
  <2>3. /\ Progress' >= Progress
        /\ journal.phase = "rejected" => journal' = journal
    BY <1>1, <2>2, MoveGoesForward DEF IInv
  <2>4. Quarantined => Quarantined' /\ calls' = calls
    BY <1>1, <2>1, QuarantineStays
  <2>5. QED
    BY <2>2, <2>3, <2>4
<1>2. QED
  BY <1>1, ExecutionInvariant, PTL DEF Spec, JournalMovesForward
=============================================================================
