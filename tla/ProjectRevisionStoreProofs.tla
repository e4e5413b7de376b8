--------------------- MODULE ProjectRevisionStoreProofs ---------------------
(***************************************************************************)
(* Proofs about ProjectRevisionStore, for any set of handlers, any set of  *)
(* requests and any pattern of failures.                                   *)
(*                                                                         *)
(* The argument: every published revision is claimed, claims never run     *)
(* more than one ahead of the published revisions, and published revisions *)
(* have no gap.  So a handler whose createNew succeeds on b + 1 knows that *)
(* b, which it cloned, is still the head; it alone may publish b + 1.      *)
(***************************************************************************)
EXTENDS ProjectRevisionStore, TLAPS

Drafting == {"update", "commit", "claim", "wait", "winner", "publish", "return"}

(* Published revisions are 1, 2, ..., n. *)
Contiguous ==
    \E n \in {0} \cup {s.revision : s \in json} :
        {s.revision : s \in json} = 1 .. n

(* A receipt names the published revision that wrote it. *)
ReceiptsResolve ==
    \A s \in json : \A c \in s.receipts :
        /\ c.revision <= s.revision
        /\ \E t \in json : t.revision = c.revision /\ t.request = c.request

(* Later revisions keep every receipt, and each writes its own. *)
ReceiptsAccumulate ==
    /\ \A s, t \in json : s.revision <= t.revision => s.receipts \subseteq t.receipts
    /\ \A s \in json : s.request.kind # "seed" =>
          [request |-> s.request, revision |-> s.revision] \in s.receipts

(* A mutation is published exactly one above the revision it expected. *)
ExpectedRevision ==
    \A s \in json : s.request.kind = "mutate" => s.revision = s.request.expected + 1

JsonInv ==
    /\ Contiguous
    /\ RevisionChain
    /\ ReceiptsResolve
    /\ ReceiptsAccumulate
    /\ ExpectedRevision
    /\ AtMostOnce

(* Published revisions are claimed; a claim is at most one ahead. *)
ClaimInv ==
    /\ \A s \in json : s.revision \in claims
    /\ \A n \in claims : n = 1 \/ \E s \in json : s.revision = n - 1

(* A draft extends a published revision that its request expects. *)
GoodDraft(p) ==
    \/ /\ req[p].kind # "mutate"
       /\ draft[p] = InitialSnapshot(req[p])
    \/ /\ req[p].kind = "mutate"
       /\ \E s \in json :
             /\ draft[p] = Successor(s, req[p])
             /\ s.revision = req[p].expected
             /\ ~Known(s, req[p])

HandlerInv ==
    /\ \A p \in Handlers : pc[p] \in Drafting => GoodDraft(p)
    /\ \A p \in Handlers : pc[p] = "publish" =>
          /\ draft[p].revision \in claims
          /\ \A s \in json : s.revision # draft[p].revision
    /\ \A p, q \in Handlers :
          pc[p] = "publish" /\ pc[q] = "publish"
             /\ draft[p].revision = draft[q].revision => p = q
    /\ \A p \in Handlers :
          pc[p] \in {"wait", "winner"} => draft[p].revision \in claims
    /\ \A p \in Handlers : pc[p] = "return" => draft[p] \in json

(* The revision a stale request wanted to follow has another successor. *)
StaleInv ==
    \A a \in answers :
        a.outcome = "stale" =>
            /\ a.request.kind = "mutate"
            /\ a.request.expected <= a.revision =>
                  \E t \in json :
                      /\ t.revision = a.request.expected + 1
                      /\ t.request # a.request

AnswerInv == AcknowledgedIsDurable /\ StaleInv

IInv == TypeOK /\ JsonInv /\ ClaimInv /\ HandlerInv /\ AnswerInv

-----------------------------------------------------------------------------
(* Snapshots built from typed parts are typed. *)
LEMMA SnapshotTypes ==
    ASSUME NEW r \in Requests
    PROVE  /\ InitialSnapshot(r) \in Snapshot
           /\ InitialSnapshot(r).request = r
           /\ \A s \in Snapshot :
                 Successor(s, r) \in Snapshot /\ Successor(s, r).request = r
  <1>1. \A n \in Nat : Receipts(r, n) \in SUBSET Receipt
    BY DEF Receipts, Receipt
  <1>2. \A s \in Snapshot : IdOf(s) \in SnapshotId
    BY DEF IdOf, Snapshot, SnapshotId
  <1>3. InitialSnapshot(r) \in Snapshot /\ InitialSnapshot(r).request = r
    BY <1>1 DEF InitialSnapshot, Snapshot
  <1>4. ASSUME NEW s \in Snapshot
        PROVE  Successor(s, r) \in Snapshot /\ Successor(s, r).request = r
    <2>1. s.revision + 1 \in Nat /\ s.receipts \in SUBSET Receipt
      BY DEF Snapshot
    <2> QED BY <1>1, <1>2, <2>1 DEF Successor, Snapshot
  <1> QED BY <1>3, <1>4

(* Init establishes the type invariant. *)
LEMMA TypeInit == Init => TypeOK
  BY DEF Init, TypeOK, PcState

(* Every step of every handler keeps the type invariant. *)
LEMMA TypeStep == TypeOK /\ [Next]_vars => TypeOK'
  <1> SUFFICES ASSUME TypeOK, [Next]_vars PROVE TypeOK'
    OBVIOUS
  <1>1. ASSUME NEW p \in Handlers, NEW r \in Requests, Invoke(p, r)
        PROVE TypeOK'
    BY <1>1 DEF Invoke, TypeOK, PcState
  <1>2. ASSUME NEW p \in Handlers, GetFailsClosed(p) PROVE TypeOK'
    BY <1>2 DEF GetFailsClosed, Finish, Goto, TypeOK, PcState
  <1>3. ASSUME NEW p \in Handlers, NotFound(p) PROVE TypeOK'
    BY <1>3 DEF NotFound, Finish, TypeOK, PcState
  <1>4. ASSUME NEW p \in Handlers, Replay(p) PROVE TypeOK'
    <2>1. req[p] \in Requests
      BY <1>4 DEF Replay, TypeOK
    <2>2. answers' \subseteq Answer
      <3>1. \A s \in json : \A c \in s.receipts : c.revision \in Nat
        BY DEF TypeOK, Snapshot, Receipt
      <3> QED BY <1>4, <2>1, <3>1 DEF Replay, FinishWith, Answer, TypeOK
    <2> QED BY <1>4, <2>2 DEF Replay, FinishWith, Finish, files, TypeOK, PcState
  <1>5. ASSUME NEW p \in Handlers, StaleRevision(p) PROVE TypeOK'
    <2>1. req[p] \in Requests
      BY <1>5 DEF StaleRevision, TypeOK
    <2>2. answers' \subseteq Answer
      BY <1>5, <2>1 DEF StaleRevision, FinishWith, Answer, Snapshot, TypeOK
    <2> QED BY <1>5, <2>2 DEF StaleRevision, FinishWith, Finish, files, TypeOK, PcState
  <1>6. ASSUME NEW p \in Handlers, AlreadyExists(p) PROVE TypeOK'
    BY <1>6 DEF AlreadyExists, Finish, TypeOK, PcState
  <1>7. ASSUME NEW p \in Handlers, DraftInitial(p) PROVE TypeOK'
    <2>1. req[p] \in Requests
      BY <1>7 DEF DraftInitial, TypeOK
    <2> QED BY <1>7, <2>1, SnapshotTypes DEF DraftInitial, TypeOK, PcState
  <1>8. ASSUME NEW p \in Handlers, DraftSuccessor(p) PROVE TypeOK'
    <2>1. req[p] \in Requests
      BY <1>8 DEF DraftSuccessor, TypeOK
    <2>2. PICK s \in json : draft' = [draft EXCEPT ![p] = Successor(s, req[p])]
      BY <1>8 DEF DraftSuccessor
    <2>3. Successor(s, req[p]) \in Snapshot /\ Successor(s, req[p]).request = req[p]
      BY <2>1, SnapshotTypes DEF TypeOK
    <2> QED BY <1>8, <2>1, <2>2, <2>3 DEF DraftSuccessor, TypeOK, PcState
  <1>9. ASSUME NEW p \in Handlers, UpdateAccepted(p) PROVE TypeOK'
    BY <1>9 DEF UpdateAccepted, Goto, TypeOK, PcState
  <1>10. ASSUME NEW p \in Handlers, Refuse(p) PROVE TypeOK'
    BY <1>10 DEF Refuse, Finish, TypeOK, PcState
  <1>11. ASSUME NEW p \in Handlers, Commit(p) PROVE TypeOK'
    BY <1>11 DEF Commit, Goto, TypeOK, PcState
  <1>12. ASSUME NEW p \in Handlers, Claim(p) PROVE TypeOK'
    <2>1. draft[p].revision \in Nat
      BY <1>12 DEF Claim, TypeOK, Snapshot
    <2> QED BY <1>12, <2>1 DEF Claim, Goto, TypeOK, PcState
  <1>13. ASSUME NEW p \in Handlers, StopWaiting(p) PROVE TypeOK'
    BY <1>13 DEF StopWaiting, Goto, TypeOK, PcState
  <1>14. ASSUME NEW p \in Handlers, Publish(p) PROVE TypeOK'
    BY <1>14 DEF Publish, Goto, TypeOK, PcState
  <1>15. ASSUME NEW p \in Handlers, Return(p) PROVE TypeOK'
    <2>1. req[p] \in Requests /\ draft[p] \in Snapshot
      BY <1>15 DEF Return, TypeOK
    <2>2. answers' \subseteq Answer
      BY <1>15, <2>1 DEF Return, FinishWith, Answer, Snapshot, TypeOK
    <2> QED BY <1>15, <2>2 DEF Return, FinishWith, Finish, files, TypeOK, PcState
  <1>16. ASSUME NEW p \in Handlers, Crash(p) PROVE TypeOK'
    BY <1>16 DEF Crash, Finish, TypeOK, PcState
  <1>17. CASE UNCHANGED vars
    BY <1>17 DEF vars, TypeOK
  <1> QED
    BY <1>1, <1>2, <1>3, <1>4, <1>5, <1>6, <1>7, <1>8, <1>9, <1>10, <1>11,
       <1>12, <1>13, <1>14, <1>15, <1>16, <1>17 DEF Next, Step

(* The files, the handlers and the answers keep their shape forever. *)
THEOREM TypeCorrect == Spec => []TypeOK
  BY TypeInit, TypeStep, PTL DEF Spec

-----------------------------------------------------------------------------
(* What the files say depends on the files alone. *)
LEMMA JsonKept == ASSUME JsonInv, json' = json PROVE JsonInv'
  BY DEF JsonInv, Contiguous, RevisionChain, ReceiptsResolve, ReceiptsAccumulate,
         ExpectedRevision, AtMostOnce, InitialSnapshot, Successor, Receipts, IdOf

(* Steps that touch no file keep the claim invariant. *)
LEMMA ClaimKept == ASSUME ClaimInv, json' = json, claims' = claims PROVE ClaimInv'
  BY DEF ClaimInv

(* Steps that publish nothing and answer nothing keep the answer invariant. *)
LEMMA AnswerKept == ASSUME AnswerInv, json' = json, answers' = answers PROVE AnswerInv'
  BY DEF AnswerInv, AcknowledgedIsDurable, StaleInv

(* A handler p that moves without touching a file. *)
LEMMA HandlerMove ==
    ASSUME HandlerInv, NEW p \in Handlers, json' = json, claims' = claims,
           \A q \in Handlers \ {p} :
               pc'[q] = pc[q] /\ req'[q] = req[q] /\ draft'[q] = draft[q],
           pc'[p] \in Drafting => GoodDraft(p)',
           pc'[p] \in {"wait", "winner"} => draft'[p].revision \in claims,
           pc'[p] \notin {"publish", "return"}
    PROVE  HandlerInv'
  <1>1. ASSUME NEW q \in Handlers \ {p}, GoodDraft(q) PROVE GoodDraft(q)'
    <2>1. req'[q] = req[q] /\ draft'[q] = draft[q]
      OBVIOUS
    <2> QED BY <1>1, <2>1 DEF GoodDraft
  <1>2. \A q \in Handlers : pc'[q] \in Drafting => GoodDraft(q)'
    BY <1>1 DEF HandlerInv
  <1> QED BY <1>2 DEF HandlerInv

(* A step that touches neither the files nor the answers. *)
LEMMA QuietStep ==
    ASSUME IInv, TypeOK', NEW p \in Handlers,
           json' = json, claims' = claims, answers' = answers, HandlerInv'
    PROVE  IInv'
  BY JsonKept, ClaimKept, AnswerKept DEF IInv

(* Invoke, errors, refusals and crashes: the handler holds no draft after. *)
LEMMA LeaveStep ==
    ASSUME IInv, TypeOK', NEW p \in Handlers,
           json' = json, claims' = claims, answers' = answers,
           NEW label \in {"idle", "get"}, NEW r, NEW d,
           pc' = [pc EXCEPT ![p] = label],
           req' = [req EXCEPT ![p] = r], draft' = [draft EXCEPT ![p] = d]
    PROVE  IInv'
  <1>1. pc'[p] = label
    BY DEF IInv, TypeOK
  <1>2. \A q \in Handlers \ {p} :
            pc'[q] = pc[q] /\ req'[q] = req[q] /\ draft'[q] = draft[q]
    BY DEF IInv, TypeOK
  <1>3. HandlerInv'
    BY <1>1, <1>2, HandlerMove DEF IInv, Drafting
  <1> QED BY <1>3, QuietStep

(* A draft is kept while its handler moves between two labels. *)
LEMMA GotoStep ==
    ASSUME IInv, TypeOK', NEW p \in Handlers,
           json' = json, claims' = claims, answers' = answers,
           pc[p] \in Drafting, NEW label \in {"commit", "claim", "wait", "winner"},
           label \in {"wait", "winner"} => draft[p].revision \in claims,
           Goto(p, label)
    PROVE  IInv'
  <1>1. pc'[p] = label /\ req'[p] = req[p] /\ draft'[p] = draft[p]
    BY DEF IInv, TypeOK, Goto
  <1>2. \A q \in Handlers \ {p} :
            pc'[q] = pc[q] /\ req'[q] = req[q] /\ draft'[q] = draft[q]
    BY DEF IInv, TypeOK, Goto
  <1>3. GoodDraft(p)'
    BY <1>1 DEF IInv, HandlerInv, GoodDraft
  <1>4. HandlerInv'
    BY <1>1, <1>2, <1>3, HandlerMove DEF IInv
  <1> QED BY <1>4, QuietStep

(* An answer is added when its handler ends. *)
LEMMA AnswerStep ==
    ASSUME IInv, TypeOK', NEW p \in Handlers, json' = json, claims' = claims,
           NEW outcome, NEW n, FinishWith(p, outcome, n), AnswerInv'
    PROVE  IInv'
  <1>1. pc'[p] = "idle"
    BY DEF IInv, TypeOK, FinishWith, Finish
  <1>2. \A q \in Handlers \ {p} :
            pc'[q] = pc[q] /\ req'[q] = req[q] /\ draft'[q] = draft[q]
    BY DEF IInv, TypeOK, FinishWith, Finish
  <1>3. HandlerInv'
    BY <1>1, <1>2, HandlerMove DEF IInv, Drafting
  <1> QED BY <1>3, JsonKept, ClaimKept DEF IInv

(* While the highest claim is unpublished, every draft's revision is taken. *)
LEMMA UnpublishedTaken ==
    ASSUME IInv, UnpublishedClaim, NEW p \in Handlers, pc[p] \in Drafting
    PROVE  draft[p].revision \in claims
  <1>1. PICK k \in claims : \A s \in json : s.revision < k
    BY DEF UnpublishedClaim
  <1>2. PICK n \in {0} \cup {t.revision : t \in json} : {t.revision : t \in json} = 1 .. n
    BY DEF IInv, JsonInv, Contiguous
  <1>3. \A t \in json : t.revision \in Nat /\ t.revision \in 1 .. n
    BY <1>2 DEF IInv, TypeOK, Snapshot
  <1>4. n \in Nat /\ k \in Nat
    BY <1>2, <1>3 DEF IInv, TypeOK
  <1>5. k = n + 1
    <2>1. n = 0 \/ \E t \in json : t.revision = n
      BY <1>2
    <2>2. n < k \/ n = 0
      BY <1>1, <2>1
    <2>3. k = 1 \/ \E t \in json : t.revision = k - 1
      BY DEF IInv, ClaimInv
    <2>4. k = 1 \/ k - 1 \in 1 .. n
      BY <1>3, <2>3
    <2> QED BY <1>4, <2>1, <2>2, <2>4, <1>1
  <1>6. draft[p].revision \in 1 .. n + 1
    <2>1. GoodDraft(p)
      BY DEF IInv, HandlerInv
    <2>2. CASE draft[p] = InitialSnapshot(req[p])
      BY <2>2, <1>4 DEF InitialSnapshot
    <2>3. ASSUME NEW s \in json, draft[p] = Successor(s, req[p])
          PROVE  draft[p].revision \in 1 .. n + 1
      BY <2>3, <1>3, <1>4 DEF Successor
    <2> QED BY <2>1, <2>2, <2>3 DEF GoodDraft
  <1>7. CASE draft[p].revision = n + 1
    BY <1>5, <1>7
  <1>8. CASE draft[p].revision \in 1 .. n
    BY <1>2, <1>8 DEF IInv, ClaimInv
  <1> QED BY <1>4, <1>6, <1>7, <1>8

(* A commit that does not find what it extends was overtaken. *)
LEMMA OvertakenTaken ==
    ASSUME IInv, NEW p \in Handlers, pc[p] \in Drafting,
           NEW h \in json, IsHead(h), draft[p].previous # IdOf(h)
    PROVE  draft[p].revision \in claims
  <1>1. PICK n \in {0} \cup {t.revision : t \in json} : {t.revision : t \in json} = 1 .. n
    BY DEF IInv, JsonInv, Contiguous
  <1>2. \A t \in json : t.revision \in Nat /\ t.revision \in 1 .. n
    BY <1>1 DEF IInv, TypeOK, Snapshot
  <1>3. n \in Nat
    BY <1>1, <1>2
  <1>4. draft[p].revision \in 1 .. n
    <2>1. GoodDraft(p)
      BY DEF IInv, HandlerInv
    <2>2. CASE draft[p] = InitialSnapshot(req[p])
      BY <2>2, <1>2, <1>3 DEF InitialSnapshot
    <2>3. ASSUME NEW s \in json, draft[p] = Successor(s, req[p])
          PROVE  draft[p].revision \in 1 .. n
      <3>1. draft[p].previous = IdOf(s) /\ draft[p].revision = s.revision + 1
        BY <2>3 DEF Successor
      <3>2. s # h
        BY <3>1
      <3>3. s.revision # h.revision
        BY <3>2 DEF IInv, JsonInv, RevisionChain
      <3>4. s.revision < h.revision
        BY <3>3, <1>2 DEF IsHead
      <3> QED BY <3>1, <3>4, <1>2, <1>3
    <2> QED BY <2>1, <2>2, <2>3 DEF GoodDraft
  <1> QED BY <1>1, <1>4 DEF IInv, ClaimInv

(* The winner of createNew is the only publisher of its revision. *)
LEMMA ClaimStep ==
    ASSUME IInv, TypeOK', NEW p \in Handlers, Claim(p) PROVE IInv'
  <1>1. CASE draft[p].revision \in claims
    BY <1>1, GotoStep DEF Claim, Drafting
  <1>2. CASE draft[p].revision \notin claims
    <2>1. /\ claims' = claims \cup {draft[p].revision}
          /\ json' = json /\ answers' = answers
          /\ pc' = [pc EXCEPT ![p] = "publish"] /\ req' = req /\ draft' = draft
      BY <1>2 DEF Claim, Goto
    <2>2. GoodDraft(p)
      BY DEF IInv, HandlerInv, Claim, Drafting
    <2>3. ClaimInv'
      <3>1. draft[p].revision = 1 \/ \E s \in json : s.revision = draft[p].revision - 1
        <4>1. CASE draft[p] = InitialSnapshot(req[p])
          BY <4>1 DEF InitialSnapshot
        <4>2. ASSUME NEW s \in json, draft[p] = Successor(s, req[p])
              PROVE  s.revision = draft[p].revision - 1
          BY <4>2 DEF Successor, IInv, TypeOK, Snapshot
        <4> QED BY <2>2, <4>1, <4>2 DEF GoodDraft
      <3> QED BY <2>1, <3>1 DEF IInv, ClaimInv
    <2>4. HandlerInv'
      <3>1. \A q \in Handlers : pc'[q] = IF q = p THEN "publish" ELSE pc[q]
        BY <2>1 DEF IInv, TypeOK
      <3>2. \A q \in Handlers : pc'[q] \in Drafting => pc[q] \in Drafting
        BY <3>1 DEF Claim, Drafting
      <3>3. \A q \in Handlers : pc'[q] \in Drafting => GoodDraft(q)'
        BY <2>1, <3>2 DEF IInv, HandlerInv, GoodDraft
      <3>4. \A s \in json : s.revision # draft[p].revision
        BY <1>2 DEF IInv, ClaimInv
      <3>5. \A q \in Handlers : pc[q] = "publish" => draft[q].revision # draft[p].revision
        BY <1>2 DEF IInv, HandlerInv
      <3> QED BY <2>1, <3>1, <3>3, <3>4, <3>5 DEF IInv, HandlerInv
    <2> QED BY <2>1, <2>3, <2>4, JsonKept, AnswerKept DEF IInv
  <1> QED BY <1>1, <1>2

(* A replayed answer is backed by the revision that wrote the receipt. *)
LEMMA ReplayStep ==
    ASSUME IInv, TypeOK', NEW p \in Handlers, Replay(p) PROVE IInv'
  <1>1. json' = json /\ claims' = claims /\ req[p].kind # "seed"
    BY DEF Replay, files
  <1>2. CASE Finish(p) /\ answers' = answers
    BY <1>1, <1>2, LeaveStep DEF Finish
  <1>3. ASSUME NEW h \in json, NEW c \in h.receipts, c.request = req[p],
               NEW t \in json, t.revision = c.revision, t.request = c.request,
               FinishWith(p, "ok", c.revision)
        PROVE  IInv'
    <2>1. [request |-> req[p], revision |-> c.revision] \in t.receipts
      BY <1>1, <1>3 DEF IInv, JsonInv, ReceiptsAccumulate
    <2>2. \A s \in json : s.revision >= c.revision => t.receipts \subseteq s.receipts
      BY <1>3 DEF IInv, JsonInv, ReceiptsAccumulate, TypeOK, Snapshot
    <2>3. answers' = answers \cup
             {[request |-> req[p], outcome |-> "ok", revision |-> c.revision]}
      BY <1>3 DEF FinishWith
    <2>4. AnswerInv'
      BY <1>1, <1>3, <2>1, <2>2, <2>3 DEF IInv, AnswerInv, AcknowledgedIsDurable, StaleInv
    <2> QED BY <1>1, <1>3, <2>4, AnswerStep
  <1> QED BY <1>2, <1>3 DEF Replay

(* A stale answer is given only once the wanted successor is someone else's. *)
LEMMA StaleStep ==
    ASSUME IInv, TypeOK', NEW p \in Handlers, StaleRevision(p) PROVE IInv'
  <1>1. PICK h \in json :
            /\ IsHead(h)
            /\ ~Known(h, req[p])
            /\ pc[p] = "get" => h.revision # req[p].expected
            /\ FinishWith(p, "stale", h.revision)
    BY DEF StaleRevision
  <1>2. json' = json /\ claims' = claims /\ req[p].kind = "mutate" /\ req[p] \in Requests
    BY DEF StaleRevision, files, IInv, TypeOK
  <1>3. req[p].expected \in Nat
    BY <1>2, RequestsAssumption
  <1>4. PICK n \in {0} \cup {t.revision : t \in json} : {t.revision : t \in json} = 1 .. n
    BY DEF IInv, JsonInv, Contiguous
  <1>5. \A t \in json : t.revision \in Nat /\ t.revision \in 1 .. n
    BY <1>4 DEF IInv, TypeOK, Snapshot
  <1>6. n \in Nat /\ h.revision = n
    BY <1>4, <1>5, <1>1 DEF IsHead
  <1>7. ASSUME req[p].expected <= h.revision
        PROVE  \E t \in json : t.revision = req[p].expected + 1 /\ t.request # req[p]
    <2>1. req[p].expected + 1 \in 1 .. n
      <3>1. CASE pc[p] = "get"
        BY <3>1, <1>1, <1>3, <1>6, <1>7
      <3>2. CASE pc[p] = "winner"
        <4>1. draft[p].revision = req[p].expected + 1
          <5>1. GoodDraft(p)
            BY <3>2 DEF IInv, HandlerInv, Drafting
          <5>2. PICK s \in json :
                    draft[p] = Successor(s, req[p]) /\ s.revision = req[p].expected
            BY <5>1, <1>2 DEF GoodDraft
          <5> QED BY <5>2 DEF Successor
        <4>2. draft[p].revision \in claims
          BY <3>2 DEF IInv, HandlerInv
        <4>3. PICK s \in json : ~(s.revision < draft[p].revision)
          BY <1>1, <4>2 DEF IsHead, UnpublishedClaim
        <4> QED BY <4>1, <4>3, <1>3, <1>5, <1>6
      <3> QED BY <3>1, <3>2 DEF StaleRevision
    <2>2. PICK t \in json : t.revision = req[p].expected + 1
      BY <2>1, <1>4
    <2>3. t.receipts \subseteq h.receipts
      BY <1>5, <1>6 DEF IInv, JsonInv, ReceiptsAccumulate
    <2>4. t.request # req[p]
      <3>1. SUFFICES ASSUME t.request = req[p] PROVE FALSE
        OBVIOUS
      <3>2. [request |-> req[p], revision |-> t.revision] \in h.receipts
        BY <2>3, <3>1, <1>2 DEF IInv, JsonInv, ReceiptsAccumulate
      <3> QED BY <3>2, <1>1 DEF Known
    <2> QED BY <2>2, <2>4
  <1>8. answers' = answers \cup
            {[request |-> req[p], outcome |-> "stale", revision |-> h.revision]}
    BY <1>1 DEF FinishWith
  <1>9. AnswerInv'
    BY <1>2, <1>7, <1>8 DEF IInv, AnswerInv, AcknowledgedIsDurable, StaleInv
  <1> QED BY <1>1, <1>2, <1>9, AnswerStep

(* The committed snapshot is still there when it is returned. *)
LEMMA ReturnStep ==
    ASSUME IInv, TypeOK', NEW p \in Handlers, Return(p) PROVE IInv'
  <1>1. json' = json /\ claims' = claims
    BY DEF Return, files
  <1>2. CASE req[p].kind = "seed"
    BY <1>1, <1>2, LeaveStep DEF Return, Finish
  <1>3. CASE req[p].kind # "seed"
    <2>1. FinishWith(p, "ok", draft[p].revision)
      BY <1>3 DEF Return
    <2>2. draft[p] \in json /\ draft[p].request = req[p]
      BY DEF Return, IInv, HandlerInv, TypeOK
    <2>3. [request |-> req[p], revision |-> draft[p].revision] \in draft[p].receipts
      BY <1>3, <2>2 DEF IInv, JsonInv, ReceiptsAccumulate
    <2>4. \A s \in json : s.revision >= draft[p].revision =>
              draft[p].receipts \subseteq s.receipts
      BY <2>2 DEF IInv, JsonInv, ReceiptsAccumulate, TypeOK, Snapshot
    <2>5. answers' = answers \cup
             {[request |-> req[p], outcome |-> "ok", revision |-> draft[p].revision]}
      BY <2>1 DEF FinishWith
    <2>6. AnswerInv'
      BY <1>1, <2>2, <2>3, <2>4, <2>5 DEF IInv, AnswerInv, AcknowledgedIsDurable, StaleInv
    <2> QED BY <1>1, <2>1, <2>6, AnswerStep
  <1> QED BY <1>2, <1>3

(* What is published is the successor of the head, or the first revision. *)
LEMMA PublishedExtendsHead ==
    ASSUME IInv, NEW p \in Handlers, pc[p] = "publish"
    PROVE  \/ json = {} /\ draft[p] = InitialSnapshot(req[p]) /\ req[p].kind # "mutate"
           \/ \E s \in json :
                 /\ \A t \in json : t.revision <= s.revision
                 /\ draft[p] = Successor(s, req[p])
                 /\ req[p].kind = "mutate"
                 /\ s.revision = req[p].expected
                 /\ ~Known(s, req[p])
  <1>1. GoodDraft(p)
    BY DEF IInv, HandlerInv, Drafting
  <1>2. \A s \in json : s.revision # draft[p].revision
    BY DEF IInv, HandlerInv
  <1>3. PICK n \in {0} \cup {t.revision : t \in json} : {t.revision : t \in json} = 1 .. n
    BY DEF IInv, JsonInv, Contiguous
  <1>4. \A t \in json : t.revision \in Nat /\ t.revision \in 1 .. n
    BY <1>3 DEF IInv, TypeOK, Snapshot
  <1>5. n \in Nat
    BY <1>3, <1>4
  <1>6. draft[p].revision \notin 1 .. n
    BY <1>2, <1>3
  <1>7. CASE draft[p] = InitialSnapshot(req[p]) /\ req[p].kind # "mutate"
    <2>1. n = 0
      BY <1>5, <1>6, <1>7 DEF InitialSnapshot
    <2> QED BY <1>4, <1>7, <2>1
  <1>8. ASSUME NEW s \in json, draft[p] = Successor(s, req[p])
        PROVE  \A t \in json : t.revision <= s.revision
    <2>1. s.revision + 1 \notin 1 .. n
      BY <1>6, <1>8 DEF Successor
    <2> QED BY <2>1, <1>4, <1>5
  <1> QED BY <1>1, <1>7, <1>8 DEF GoodDraft

(* The first revision of a project. *)
LEMMA PublishFirst ==
    ASSUME IInv, NEW r \in Requests, r.kind # "mutate", json = {},
           json' = {InitialSnapshot(r)}
    PROVE  JsonInv'
  <1> DEFINE d == InitialSnapshot(r)
  <1>1. d.revision = 1 /\ d.request = r /\ d.receipts = Receipts(r, 1)
    BY DEF InitialSnapshot
  <1>2. Contiguous'
    <2>1. {s.revision : s \in json'} = {1}
      BY <1>1
    <2> QED BY <2>1 DEF Contiguous
  <1>3. RevisionChain'
    BY <1>1 DEF RevisionChain
  <1>4. \A c \in d.receipts : c = [request |-> r, revision |-> 1]
    BY <1>1 DEF Receipts
  <1>5. ReceiptsResolve' /\ AtMostOnce'
    BY <1>1, <1>4 DEF ReceiptsResolve, AtMostOnce
  <1>6. ReceiptsAccumulate'
    <2>1. r.kind # "seed" => [request |-> r, revision |-> 1] \in d.receipts
      BY <1>1 DEF Receipts
    <2> QED BY <1>1, <2>1 DEF ReceiptsAccumulate
  <1>7. ExpectedRevision'
    BY <1>1 DEF ExpectedRevision
  <1> QED BY <1>2, <1>3, <1>5, <1>6, <1>7 DEF JsonInv

(* A successor of the head. *)
LEMMA PublishNext ==
    ASSUME IInv, NEW r \in Requests, r.kind = "mutate",
           NEW h \in json, \A t \in json : t.revision <= h.revision,
           h.revision = r.expected, ~Known(h, r),
           json' = json \cup {Successor(h, r)}
    PROVE  JsonInv'
  <1> DEFINE d == Successor(h, r)
             own == [request |-> r, revision |-> h.revision + 1]
  <1>1. d.revision = h.revision + 1 /\ d.request = r /\ d.receipts = h.receipts \cup {own}
    BY DEF Successor, Receipts
  <1>2. \A t \in json : t.revision \in Nat
    BY DEF IInv, TypeOK, Snapshot
  <1>3. Contiguous'
    <2>1. PICK n \in {0} \cup {t.revision : t \in json} : {t.revision : t \in json} = 1 .. n
      BY DEF IInv, JsonInv, Contiguous
    <2>2. \A t \in json : t.revision \in 1 .. n
      BY <2>1
    <2>3. n = h.revision
      BY <1>2, <2>1, <2>2
    <2>4. {t.revision : t \in json'} = {t.revision : t \in json} \cup {h.revision + 1}
      BY <1>1
    <2>5. {t.revision : t \in json'} = 1 .. (h.revision + 1)
      BY <1>2, <2>1, <2>3, <2>4
    <2>6. h.revision + 1 \in {t.revision : t \in json'}
      BY <2>4
    <2> QED BY <2>5, <2>6 DEF Contiguous
  <1>4. RevisionChain'
    <2>1. \A t \in json : t.revision # d.revision
      BY <1>1, <1>2
    <2> QED BY <1>1, <2>1 DEF IInv, JsonInv, RevisionChain
  <1>5. ReceiptsResolve'
    <2>1. \A c \in d.receipts : c.revision <= d.revision
      <3>1. \A c \in h.receipts : c.revision <= h.revision /\ c.revision \in Nat
        BY DEF IInv, JsonInv, ReceiptsResolve, TypeOK, Snapshot, Receipt
      <3> QED BY <1>1, <1>2, <3>1
    <2>2. \A c \in d.receipts :
              \E t \in json' : t.revision = c.revision /\ t.request = c.request
      <3>1. \A c \in h.receipts :
                \E t \in json : t.revision = c.revision /\ t.request = c.request
        BY DEF IInv, JsonInv, ReceiptsResolve
      <3>2. d \in json' /\ d.revision = own.revision /\ d.request = own.request
        BY <1>1
      <3> QED BY <1>1, <3>1, <3>2
    <2> QED BY <2>1, <2>2 DEF IInv, JsonInv, ReceiptsResolve
  <1>6. ReceiptsAccumulate'
    <2>1. \A t \in json : t.receipts \subseteq d.receipts /\ ~(d.revision <= t.revision)
      BY <1>1, <1>2 DEF IInv, JsonInv, ReceiptsAccumulate
    <2> QED BY <1>1, <2>1 DEF IInv, JsonInv, ReceiptsAccumulate
  <1>7. ExpectedRevision'
    BY <1>1 DEF IInv, JsonInv, ExpectedRevision
  <1>8. AtMostOnce'
    BY <1>1 DEF IInv, JsonInv, AtMostOnce, Known
  <1> QED BY <1>3, <1>4, <1>5, <1>6, <1>7, <1>8 DEF JsonInv

(* The rename that publishes a draft keeps every part of the invariant. *)
LEMMA PublishStep ==
    ASSUME IInv, TypeOK', NEW p \in Handlers, Publish(p) PROVE IInv'
  <1> DEFINE d == draft[p]
  <1>1. /\ pc[p] = "publish" /\ claims' = claims /\ answers' = answers
        /\ req' = req /\ draft' = draft /\ pc' = [pc EXCEPT ![p] = "return"]
    BY DEF Publish, Goto
  <1>2. req[p] \in Requests
    BY <1>1 DEF IInv, TypeOK
  <1>3. /\ d.revision \in claims
        /\ \A s \in json : s.revision # d.revision
    BY <1>1 DEF IInv, HandlerInv
  <1>4. json' = json \cup {d}
    BY <1>3 DEF Publish
  <1>5. JsonInv'
    <2>1. CASE json = {} /\ d = InitialSnapshot(req[p]) /\ req[p].kind # "mutate"
      BY <1>2, <1>4, <2>1, PublishFirst
    <2>2. ASSUME NEW h \in json, \A t \in json : t.revision <= h.revision,
                 d = Successor(h, req[p]), req[p].kind = "mutate",
                 h.revision = req[p].expected, ~Known(h, req[p])
          PROVE  JsonInv'
      BY <1>2, <1>4, <2>2, PublishNext
    <2> QED BY <1>1, <2>1, <2>2, PublishedExtendsHead
  <1>6. ClaimInv'
    BY <1>1, <1>3, <1>4 DEF IInv, ClaimInv
  <1>7. HandlerInv'
    <2>1. \A q \in Handlers : pc'[q] = IF q = p THEN "return" ELSE pc[q]
      BY <1>1 DEF IInv, TypeOK
    <2>2. \A q \in Handlers : pc'[q] \in Drafting => GoodDraft(q)'
      <3>1. \A q \in Handlers : pc'[q] \in Drafting => pc[q] \in Drafting
        BY <1>1, <2>1 DEF Drafting
      <3>2. \A q \in Handlers : GoodDraft(q) => GoodDraft(q)'
        BY <1>1, <1>4 DEF GoodDraft
      <3> QED BY <3>1, <3>2 DEF IInv, HandlerInv
    <2>3. \A q \in Handlers : pc'[q] = "publish" =>
              \A s \in json' : s.revision # draft[q].revision
      BY <1>1, <1>4, <2>1 DEF IInv, HandlerInv
    <2>4. \A q \in Handlers : pc'[q] = "return" => draft[q] \in json'
      BY <1>4, <2>1 DEF IInv, HandlerInv
    <2> QED BY <1>1, <2>1, <2>2, <2>3, <2>4 DEF IInv, HandlerInv
  <1>8. AnswerInv'
    <2>1. ASSUME NEW a \in answers, a.outcome = "ok", d.revision >= a.revision
          PROVE  [request |-> a.request, revision |-> a.revision] \in d.receipts
      <3>1. PICK t \in json : t.revision = a.revision /\ t.request = a.request
        BY <2>1 DEF IInv, AnswerInv, AcknowledgedIsDurable
      <3>2. PICK h \in json : (\A u \in json : u.revision <= h.revision)
                                /\ d = Successor(h, req[p])
        BY <1>1, <3>1, PublishedExtendsHead
      <3>3. h.revision >= a.revision
        BY <3>1, <3>2 DEF IInv, TypeOK, Snapshot, Answer
      <3>4. [request |-> a.request, revision |-> a.revision] \in h.receipts
        BY <2>1, <3>3 DEF IInv, AnswerInv, AcknowledgedIsDurable
      <3> QED BY <3>2, <3>4 DEF Successor
    <2>2. AcknowledgedIsDurable'
      BY <1>1, <1>4, <2>1 DEF IInv, AnswerInv, AcknowledgedIsDurable
    <2>3. StaleInv'
      BY <1>1, <1>4 DEF IInv, AnswerInv, StaleInv
    <2> QED BY <2>2, <2>3 DEF AnswerInv
  <1> QED BY <1>5, <1>6, <1>7, <1>8 DEF IInv

(* The two steps that build a draft. *)
LEMMA DraftStep ==
    ASSUME IInv, TypeOK', NEW p \in Handlers, DraftInitial(p) \/ DraftSuccessor(p)
    PROVE  IInv'
  <1>1. json' = json /\ claims' = claims /\ answers' = answers /\ req' = req
    BY DEF DraftInitial, DraftSuccessor
  <1>2. \A q \in Handlers \ {p} :
            pc'[q] = pc[q] /\ req'[q] = req[q] /\ draft'[q] = draft[q]
    BY DEF DraftInitial, DraftSuccessor, IInv, TypeOK
  <1>3. pc'[p] \in {"claim", "update"}
    BY DEF DraftInitial, DraftSuccessor, IInv, TypeOK
  <1>4. GoodDraft(p)'
    <2>1. CASE DraftInitial(p)
      <3>1. draft'[p] = InitialSnapshot(req[p])
        BY <2>1 DEF DraftInitial, IInv, TypeOK
      <3> QED BY <1>1, <2>1, <3>1 DEF DraftInitial, GoodDraft
    <2>2. CASE DraftSuccessor(p)
      <3>1. PICK s \in json :
                /\ ~Known(s, req[p])
                /\ s.revision = req[p].expected
                /\ draft' = [draft EXCEPT ![p] = Successor(s, req[p])]
        BY <2>2 DEF DraftSuccessor
      <3>2. draft'[p] = Successor(s, req[p])
        BY <3>1 DEF IInv, TypeOK
      <3> QED BY <1>1, <2>2, <3>1, <3>2 DEF DraftSuccessor, GoodDraft
    <2> QED BY <2>1, <2>2
  <1>5. HandlerInv'
    BY <1>1, <1>2, <1>3, <1>4, HandlerMove DEF IInv
  <1> QED BY <1>1, <1>5, QuietStep

-----------------------------------------------------------------------------
(* The empty store satisfies the inductive invariant. *)
LEMMA InvInit == Init => IInv
  <1> SUFFICES ASSUME Init PROVE IInv
    OBVIOUS
  <1>1. TypeOK
    BY TypeInit
  <1>2. JsonInv
    <2>1. {s.revision : s \in json} = 1 .. 0
      BY DEF Init
    <2> QED BY <2>1 DEF Init, JsonInv, Contiguous, RevisionChain, ReceiptsResolve,
                ReceiptsAccumulate, ExpectedRevision, AtMostOnce
  <1>3. ClaimInv /\ AnswerInv
    BY DEF Init, ClaimInv, AnswerInv, AcknowledgedIsDurable, StaleInv
  <1>4. HandlerInv
    BY DEF Init, HandlerInv, Drafting
  <1> QED BY <1>1, <1>2, <1>3, <1>4 DEF IInv

(* Every step of every handler preserves it. *)
LEMMA InvStep == IInv /\ [Next]_vars => IInv'
  <1> SUFFICES ASSUME IInv, [Next]_vars PROVE IInv'
    OBVIOUS
  <1>0. TypeOK'
    BY TypeStep DEF IInv
  <1>1. ASSUME NEW p \in Handlers, NEW r \in Requests, Invoke(p, r) PROVE IInv'
    <2>1. draft' = [draft EXCEPT ![p] = draft[p]]
      BY <1>1 DEF Invoke, IInv, TypeOK
    <2> QED BY <1>0, <1>1, <2>1, LeaveStep DEF Invoke
  <1>2. ASSUME NEW p \in Handlers, GetFailsClosed(p) PROVE IInv'
    <2>1. CASE Finish(p)
      BY <1>0, <1>2, <2>1, LeaveStep DEF GetFailsClosed, Finish
    <2>2. CASE pc[p] = "commit" /\ Goto(p, "winner")
      <3>1. draft[p].revision \in claims
        BY <1>2, <2>2, UnpublishedTaken DEF GetFailsClosed, Drafting
      <3> QED BY <1>0, <1>2, <2>2, <3>1, GotoStep DEF GetFailsClosed, Drafting
    <2> QED BY <1>2, <2>1, <2>2 DEF GetFailsClosed
  <1>3. ASSUME NEW p \in Handlers, NotFound(p) \/ AlreadyExists(p) \/ Refuse(p) \/ Crash(p)
        PROVE  IInv'
    BY <1>0, <1>3, LeaveStep DEF NotFound, AlreadyExists, Refuse, Crash, Finish
  <1>4. ASSUME NEW p \in Handlers, Replay(p) PROVE IInv'
    BY <1>0, <1>4, ReplayStep
  <1>5. ASSUME NEW p \in Handlers, StaleRevision(p) PROVE IInv'
    BY <1>0, <1>5, StaleStep
  <1>6. ASSUME NEW p \in Handlers, DraftInitial(p) \/ DraftSuccessor(p) PROVE IInv'
    BY <1>0, <1>6, DraftStep
  <1>7. ASSUME NEW p \in Handlers, UpdateAccepted(p) PROVE IInv'
    BY <1>0, <1>7, GotoStep DEF UpdateAccepted, Drafting
  <1>8. ASSUME NEW p \in Handlers, Commit(p) PROVE IInv'
    <2>1. PICK h \in json :
              /\ IsHead(h)
              /\ Goto(p, IF draft[p].previous = IdOf(h) THEN "claim" ELSE "winner")
      BY <1>8 DEF Commit
    <2>2. CASE draft[p].previous = IdOf(h)
      BY <1>0, <1>8, <2>1, <2>2, GotoStep DEF Commit, Drafting
    <2>3. CASE draft[p].previous # IdOf(h)
      <3>1. draft[p].revision \in claims
        BY <1>8, <2>1, <2>3, OvertakenTaken DEF Commit, Drafting
      <3> QED BY <1>0, <1>8, <2>1, <2>3, <3>1, GotoStep DEF Commit, Drafting
    <2> QED BY <2>2, <2>3
  <1>9. ASSUME NEW p \in Handlers, Claim(p) PROVE IInv'
    BY <1>0, <1>9, ClaimStep
  <1>10. ASSUME NEW p \in Handlers, StopWaiting(p) PROVE IInv'
    <2>1. draft[p].revision \in claims
      BY <1>10 DEF StopWaiting, IInv, HandlerInv
    <2> QED BY <1>0, <1>10, <2>1, GotoStep DEF StopWaiting, Drafting
  <1>11. ASSUME NEW p \in Handlers, Publish(p) PROVE IInv'
    BY <1>0, <1>11, PublishStep
  <1>12. ASSUME NEW p \in Handlers, Return(p) PROVE IInv'
    BY <1>0, <1>12, ReturnStep
  <1>13. CASE UNCHANGED vars
    <2>1. HandlerInv'
      <3>1. \A q \in Handlers : GoodDraft(q) => GoodDraft(q)'
        BY <1>13 DEF vars, GoodDraft
      <3> QED BY <1>13, <3>1 DEF vars, IInv, HandlerInv
    <2> QED BY <1>0, <1>13, <2>1, JsonKept, ClaimKept, AnswerKept DEF vars, IInv
  <1> QED
    BY <1>1, <1>2, <1>3, <1>4, <1>5, <1>6, <1>7, <1>8, <1>9, <1>10, <1>11,
       <1>12, <1>13 DEF Next, Step

(* The inductive invariant holds in every reachable state. *)
LEMMA Invariance == Spec => []IInv
  BY InvInit, InvStep, PTL DEF Spec

-----------------------------------------------------------------------------
(* No update is lost, whatever the number of processes: there is one file  *)
(* per revision and each is its predecessor plus one request.              *)
THEOREM NoLostUpdate == Spec => []RevisionChain
  <1>1. IInv => RevisionChain
    BY DEF IInv, JsonInv
  <1> QED BY <1>1, Invariance, PTL

(* A command id is applied at most once, however often it is retried. *)
THEOREM AppliedAtMostOnce == Spec => []AtMostOnce
  <1>1. IInv => AtMostOnce
    BY DEF IInv, JsonInv
  <1> QED BY <1>1, Invariance, PTL

(* A successful answer survives every crash and every later command. *)
THEOREM AcknowledgedStays == Spec => []AcknowledgedIsDurable
  <1>1. IInv => AcknowledgedIsDurable
    BY DEF IInv, AnswerInv
  <1> QED BY <1>1, Invariance, PTL

(* A request that was answered stale is never applied by a late retry. *)
THEOREM StaleStaysUnapplied == Spec => []StaleIsFinal
  <1>1. IInv => StaleIsFinal
    <2> SUFFICES ASSUME IInv, NEW a \in answers, a.outcome = "stale",
                        a.request.expected <= a.revision,
                        NEW s \in json, s.request = a.request
                 PROVE  FALSE
      BY DEF StaleIsFinal
    <2>1. PICK t \in json : t.revision = a.request.expected + 1 /\ t.request # a.request
      BY DEF IInv, AnswerInv, StaleInv
    <2>2. s.revision = a.request.expected + 1
      BY DEF IInv, AnswerInv, StaleInv, JsonInv, ExpectedRevision
    <2> QED BY <2>1, <2>2 DEF IInv, JsonInv, RevisionChain
  <1> QED BY <1>1, Invariance, PTL

-----------------------------------------------------------------------------
(* Only a rename changes the published files, and it adds one. *)
LEMMA PublishAdds ==
    ASSUME IInv, NEW p \in Handlers, Publish(p)
    PROVE  json' = json \cup {draft[p]}
  BY DEF Publish, IInv, HandlerInv

(* Only Publish changes the set of published snapshots. *)
LEMMA OthersKeepJson ==
    ASSUME [Next]_vars, \A p \in Handlers : ~Publish(p)
    PROVE  json' = json
  BY DEF Next, Step, vars, files, Invoke, GetFailsClosed, NotFound, Replay,
         StaleRevision, AlreadyExists, DraftInitial, DraftSuccessor, UpdateAccepted,
         Refuse, Commit, Claim, StopWaiting, Return, Crash

(* A published revision is immutable. *)
THEOREM PublishedStays == Spec => PublishedIsImmutable
  <1>1. IInv /\ [Next]_vars => [json \subseteq json']_json
    <2> SUFFICES ASSUME IInv, [Next]_vars PROVE json \subseteq json'
      OBVIOUS
    <2> QED BY PublishAdds, OthersKeepJson
  <1> QED BY <1>1, Invariance, PTL DEF Spec, PublishedIsImmutable

(* After its writer died, an unpublished claim stops every later write. *)
THEOREM OrphanStays == Spec => OrphanFailsClosed
  <1>1. IInv /\ [Next]_vars => [Orphaned => Orphaned' /\ UNCHANGED files]_vars
    <2> SUFFICES ASSUME IInv, [Next]_vars, Orphaned
                 PROVE  Orphaned' /\ UNCHANGED files
      OBVIOUS
    <2>1. json' = json
      BY OthersKeepJson DEF Orphaned, Publish
    <2>2. ASSUME NEW p \in Handlers, Claim(p)
          PROVE  claims' = claims /\ pc' = [pc EXCEPT ![p] = "wait"]
      <3>1. draft[p].revision \in claims
        BY <2>2, UnpublishedTaken DEF Orphaned, Claim, Drafting
      <3> QED BY <2>2, <3>1 DEF Claim, Goto
    <2>3. claims' = claims
      BY <2>2 DEF Next, Step, vars, files, Invoke, GetFailsClosed, NotFound, Replay,
         StaleRevision, AlreadyExists, DraftInitial, DraftSuccessor, UpdateAccepted,
         Refuse, Commit, StopWaiting, Publish, Return, Crash
    <2>4. \A p \in Handlers : pc'[p] # "publish"
      <3>1. \A p \in Handlers : pc[p] # "publish"
        BY DEF Orphaned
      <3>2. pc \in [Handlers -> PcState]
        BY DEF IInv, TypeOK
      <3> QED
        BY <2>2, <3>1, <3>2 DEF Next, Step, vars, Goto, Finish, FinishWith, Invoke,
           GetFailsClosed, NotFound, Replay, StaleRevision, AlreadyExists,
           DraftInitial, DraftSuccessor, UpdateAccepted, Refuse, Commit,
           StopWaiting, Publish, Return, Crash
    <2> QED BY <2>1, <2>3, <2>4 DEF files, Orphaned, UnpublishedClaim
  <1> QED BY <1>1, Invariance, PTL DEF Spec, OrphanFailsClosed

-----------------------------------------------------------------------------
(* Refinement of the atomic log. *)

AllReceipts == UNION {s.receipts : s \in json}

(* The refinement mapping's head revision and log, read off the head snapshot. *)
LEMMA HeadOf ==
    ASSUME IInv, NEW h \in json, \A t \in json : t.revision <= h.revision
    PROVE  HeadRevision = h.revision /\ AllReceipts = h.receipts
  <1>1. \A t \in json : t.revision \in Nat
    BY DEF IInv, TypeOK, Snapshot
  <1>2. \A n \in {s.revision : s \in json} :
            (\A s \in json : s.revision <= n) => n = h.revision
    BY <1>1
  <1>3. h.revision \in {s.revision : s \in json}
    OBVIOUS
  <1>4. HeadRevision = h.revision
    BY <1>2, <1>3 DEF HeadRevision
  <1>5. AllReceipts = h.receipts
    BY DEF AllReceipts, IInv, JsonInv, ReceiptsAccumulate
  <1> QED BY <1>4, <1>5

(* The initial state maps to the empty log. *)
LEMMA LogInit == Init => Log!Init
  BY DEF Init, Log!Init, HeadRevision

(* A published revision is one Create or one Apply of the log. *)
LEMMA PublishRefines ==
    ASSUME IInv, IInv', NEW p \in Handlers, Publish(p)
    PROVE  Log!Next
  <1>1. json' = json \cup {draft[p]} /\ answers' = answers /\ req[p] \in Requests
    BY PublishAdds DEF Publish, IInv, TypeOK
  <1>2. CASE json = {} /\ draft[p] = InitialSnapshot(req[p]) /\ req[p].kind # "mutate"
    <2>1. draft[p] \in json' /\ \A t \in json' : t.revision <= draft[p].revision
      BY <1>1, <1>2 DEF InitialSnapshot
    <2>2. HeadRevision' = 1 /\ AllReceipts' = Receipts(req[p], 1)
      <3>1. json' = {draft[p]}
        BY <1>1, <1>2
      <3>2. HeadRevision' = draft[p].revision
        <4>1. {s.revision : s \in json'} = {draft[p].revision}
          BY <3>1
        <4> QED BY <3>1, <4>1, <2>1 DEF HeadRevision
      <3>3. AllReceipts' = draft[p].receipts
        BY <3>1 DEF AllReceipts
      <3> QED BY <1>2, <3>2, <3>3 DEF InitialSnapshot
    <2>3. HeadRevision = 0 /\ AllReceipts = {}
      BY <1>2 DEF HeadRevision, AllReceipts
    <2>4. req[p].kind \in {"start", "seed"}
      BY <1>1, <1>2, RequestsAssumption DEF Kinds
    <2>5. Log!Create(req[p])
      BY <1>1, <2>2, <2>3, <2>4 DEF Log!Create, AllReceipts, Receipts
    <2> QED BY <1>1, <2>5 DEF Log!Next, Log!Create
  <1>3. ASSUME NEW h \in json, \A t \in json : t.revision <= h.revision,
               draft[p] = Successor(h, req[p]), req[p].kind = "mutate",
               h.revision = req[p].expected, ~Known(h, req[p])
        PROVE  Log!Next
    <2>1. HeadRevision = h.revision /\ AllReceipts = h.receipts
      BY <1>3, HeadOf
    <2>2. /\ draft[p].revision = h.revision + 1
          /\ draft[p].receipts = h.receipts
                \cup {[request |-> req[p], revision |-> h.revision + 1]}
      BY <1>3 DEF Successor, Receipts
    <2>3. \A t \in json' : t.revision <= draft[p].revision
      BY <1>1, <1>3, <2>2 DEF IInv, TypeOK, Snapshot
    <2>4. HeadRevision' = draft[p].revision /\ AllReceipts' = draft[p].receipts
      <3>1. draft[p] \in json'
        BY <1>1
      <3>2. {s.revision : s \in json'} # {} /\ draft[p].revision \in {s.revision : s \in json'}
        BY <3>1
      <3>3. \A n \in {s.revision : s \in json'} :
                (\A s \in json' : s.revision <= n) => n = draft[p].revision
        <4>1. \A t \in json' : t.revision \in Nat
          BY DEF IInv, TypeOK, Snapshot
        <4> QED BY <2>3, <3>1, <4>1
      <3>4. HeadRevision' = draft[p].revision
        BY <2>3, <3>1, <3>2, <3>3 DEF HeadRevision
      <3>5. \A t \in json' : t.receipts \subseteq draft[p].receipts
        BY <2>3, <3>1 DEF IInv, JsonInv, ReceiptsAccumulate
      <3>6. AllReceipts' = draft[p].receipts
        BY <3>1, <3>5 DEF AllReceipts
      <3> QED BY <3>4, <3>6
    <2>5. Log!Apply(req[p])
      BY <1>1, <1>3, <2>1, <2>2, <2>4 DEF Log!Apply, Log!Unused, Known, AllReceipts
    <2> QED BY <1>1, <2>5 DEF Log!Next, Log!Apply
  <1> QED BY <1>2, <1>3, PublishedExtendsHead DEF Publish

(* A definite answer is one answer of the log. *)
LEMMA AnswerRefines ==
    ASSUME IInv, NEW p \in Handlers, Replay(p) \/ StaleRevision(p) \/ Return(p)
    PROVE  Log!Next \/ UNCHANGED <<json, answers>>
  <1>1. json' = json /\ req[p] \in Requests
    BY DEF Replay, StaleRevision, Return, files, IInv, TypeOK
  <1>2. HeadRevision' = HeadRevision /\ AllReceipts' = AllReceipts
    BY <1>1 DEF HeadRevision, AllReceipts
  <1>3. ASSUME NEW s \in json, NEW c \in s.receipts, c.request = req[p],
               FinishWith(p, "ok", c.revision)
        PROVE  Log!Next
    <2>1. Log!AnswerApplied(req[p])
      BY <1>2, <1>3 DEF Log!AnswerApplied, FinishWith, AllReceipts
    <2> QED BY <1>1, <2>1 DEF Log!Next
  <1>4. CASE Replay(p)
    BY <1>1, <1>3, <1>4 DEF Replay
  <1>5. CASE StaleRevision(p)
    <2>1. PICK h \in json :
              /\ IsHead(h)
              /\ ~Known(h, req[p])
              /\ pc[p] = "get" => h.revision # req[p].expected
              /\ FinishWith(p, "stale", h.revision)
      BY <1>5 DEF StaleRevision
    <2>2. HeadRevision = h.revision /\ AllReceipts = h.receipts
      BY <2>1, HeadOf DEF IsHead
    <2>3. h.revision # req[p].expected
      <3>1. CASE pc[p] = "get"
        BY <2>1, <3>1
      <3>2. CASE pc[p] = "winner"
        <4>1. GoodDraft(p) /\ draft[p].revision \in claims
          BY <3>2 DEF IInv, HandlerInv, Drafting
        <4>2. PICK b \in json :
                  draft[p] = Successor(b, req[p]) /\ b.revision = req[p].expected
          BY <1>5, <4>1 DEF GoodDraft, StaleRevision
        <4>3. draft[p].revision = req[p].expected + 1
          BY <4>2 DEF Successor
        <4>4. PICK t \in json : ~(t.revision < draft[p].revision)
          BY <2>1, <4>1 DEF IsHead, UnpublishedClaim
        <4> QED BY <1>1, <2>1, <4>3, <4>4, RequestsAssumption
                DEF IsHead, IInv, TypeOK, Snapshot
      <3> QED BY <1>5, <3>1, <3>2 DEF StaleRevision
    <2>4. Log!AnswerStale(req[p])
      BY <1>2, <1>5, <2>1, <2>2, <2>3
         DEF Log!AnswerStale, Log!Unused, StaleRevision, FinishWith, Known, AllReceipts
    <2> QED BY <1>1, <2>4 DEF Log!Next
  <1>6. CASE Return(p)
    <2>1. draft[p] \in json /\ draft[p].request = req[p]
      BY <1>6 DEF Return, IInv, HandlerInv, TypeOK
    <2>2. req[p].kind # "seed" =>
              [request |-> req[p], revision |-> draft[p].revision] \in draft[p].receipts
      BY <2>1 DEF IInv, JsonInv, ReceiptsAccumulate
    <2> QED BY <1>1, <1>3, <1>6, <2>1, <2>2 DEF Return
  <1> QED BY <1>4, <1>5, <1>6

(* Handlers, claim files, renames and crashes implement the atomic log. *)
THEOREM StoreImplementsLog == Spec => ImplementsLog
  <1>1. IInv /\ IInv' /\ [Next]_vars => [Log!Next]_(Log!logVars)
    <2>0. ASSUME UNCHANGED <<json, answers>> PROVE UNCHANGED Log!logVars
      <3>1. HeadRevision' = HeadRevision
        BY <2>0 DEF HeadRevision
      <3> QED BY <2>0, <3>1 DEF Log!logVars
    <2> SUFFICES ASSUME IInv, IInv', [Next]_vars
                 PROVE  Log!Next \/ UNCHANGED <<json, answers>>
      BY <2>0
    <2>1. ASSUME NEW p \in Handlers, Publish(p) PROVE Log!Next
      BY <2>1, PublishRefines
    <2>2. ASSUME NEW p \in Handlers, Replay(p) \/ StaleRevision(p) \/ Return(p)
          PROVE  Log!Next \/ UNCHANGED <<json, answers>>
      BY <2>2, AnswerRefines
    <2> QED
      BY <2>1, <2>2
         DEF Next, Step, vars, files, Invoke, GetFailsClosed, NotFound, AlreadyExists,
             DraftInitial, DraftSuccessor, UpdateAccepted, Refuse, Commit, Claim,
             StopWaiting, Crash
  <1> QED BY <1>1, LogInit, Invariance, PTL DEF Spec, ImplementsLog, Log!Spec
=============================================================================
