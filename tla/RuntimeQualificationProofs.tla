--------------------- MODULE RuntimeQualificationProofs ---------------------
(***************************************************************************)
(* For any number of operators, crashes, lost bearers and sessions, the    *)
(* log of a qualification attempt can be read back and agrees with the     *)
(* provider, the group and the attestations.                               *)
(*                                                                         *)
(* Every event is published by an operator that has just read the log      *)
(* under the lock, or that holds the lock over two files and knows from    *)
(* the first what the second one will meet.  The phase that was read says  *)
(* which events are not there (PhaseTells), so what is added fits; and the *)
(* claim file, which only an operator that finds none creates, makes its   *)
(* creator the only one who may call the provider.                         *)
(***************************************************************************)
EXTENDS RuntimeQualification, FiniteSetTheorems, TLAPS

Released == {"stopped", "session", "later"}

Pcs == {"idle", "look", "check", "activate", "prepare", "start", "mark-active", "tip",
        "withdraw", "submit", "claim", "claimed", "run", "ran", "ran-settle", "readback",
        "settle", "judge", "seal", "sealing", "release", "mark-stopped", "append",
        "mark-attested"}

Seen == Reasons \cup {"recorded", "unread"}

OpType == [pc : Pcs, att : Attempts, apply : BOOLEAN, dispatch : BOOLEAN,
           revoked : BOOLEAN, saw : Seen \cup {None}]

(* The basis an outcome names is in the log, and is the last word there. *)
Founded(out, es, cs) ==
  \/ /\ out.basis = "pre-dispatch" /\ cs = {}
     /\ out.on = "case-submitted" <=> Has(es, "case-submitted")
  \/ out.basis = "recorded" /\ Has(es, "recorded")
  \/ /\ out.basis = "quarantined" /\ ~Has(es, "recorded")
     /\ Ev("quarantined", Plain(out.on)) \in es

(* A log that apply and recover can have written: es are its event files,  *)
(* cs its claim files.                                                     *)
Log(es, cs) ==
  /\ es \subseteq [phase : Phases, body : Bodies]
  /\ cs \subseteq {Ev("dispatching", Plain(o)) : o \in Operators}
  /\ \A e, f \in es : e.phase = f.phase => e = f
  /\ \A c, d \in cs : c = d
  /\ Of(es, "dispatching") \subseteq cs
  /\ es # {} => Has(es, "prepared")
  /\ Has(es, "case-submitted") \/ Has(es, "outcome") => Has(es, "active")
  /\ cs # {} => Has(es, "case-submitted")
  /\ Has(es, "recorded") \/ Has(es, "quarantined") => cs # {}
  /\ \A e \in es :
       /\ e.phase = "quarantined" => \E r \in Reasons : e.body = Plain(r)
       /\ e.phase = "outcome" => e.body \in Outcomes /\ Founded(e.body, es, cs)
       /\ e.phase = "stopped" => Ev("outcome", e.body) \in es
       /\ e.phase = "attested" => Ev("stopped", e.body) \in es /\ e.body.status = "qualified"

(* The log, the provider and the group tell the same story. *)
StoryInv ==
  /\ Has(events, "recorded") => provider = "recorded"
  /\ \A e \in Of(events, "outcome") :
       e.body.status = "qualified" => e.body.basis = "recorded" /\ verdict = "qualified"
  /\ Has(events, "stopped") => group \in Released
  /\ claims = {} => runs = 0
  /\ runs <= 1

(* An attestation has its reasons, and nothing revoked it first. *)
StoreInv ==
  Contains(store, "qualified") =>
    /\ provider = "recorded" /\ verdict = "qualified" /\ group \in Released
    /\ \A i \in 1..Len(store) : store[i] = "qualified" =>
         \A j \in 1..(i - 1) : store[j] # "revoked"

(* What operator o knows at each step. *)
Knows(o) ==
  /\ op[o].att \in events \cup claims \cup {Nothing}
  /\ op[o].saw \in {"recorded", "unread"} => provider = "recorded"
  /\ op[o].pc \in {"settle", "ran-settle"} => op[o].saw \in Seen
  /\ op[o].pc \in {"claimed", "run"} =>
       claims = {Ev("dispatching", Plain(o))} /\ runs = 0
  /\ op[o].pc \in {"claimed", "sealing"} => lock = o /\ ~Has(events, "outcome")
  /\ op[o].pc = "sealing" => Has(events, "quarantined") /\ ~Has(events, "recorded")
  /\ op[o].pc = "mark-stopped" => group \in Released
  /\ op[o].pc = "append" => op[o].att.phase = "stopped" /\ op[o].att.body.status = "qualified"

Shape ==
  /\ lock \in Operators \cup {Nobody}
  /\ store \in Seq({"qualified", "revoked"})
  /\ group \in {"idle", "running", "failed", "stopped", "session", "later"}
  /\ provider \in {"none", "working", "recorded", "lost"}
  /\ verdict \in {"qualified", "failed"}
  /\ runs \in Nat /\ late \in BOOLEAN /\ bearer \in BOOLEAN
  /\ left \in Setting
  /\ op \in [Operators -> OpType]

KnowsInv == \A o \in Operators : Knows(o)

IInv == Shape /\ Log(events, claims) /\ StoryInv /\ StoreInv /\ KnowsInv

-----------------------------------------------------------------------------
(* The log: what reading it tells, and what may be added to it. *)

(* Which events are in a log whose phase reads as p. *)
PhaseTells(p, es, cs) ==
  /\ p \in {"prepared", "active", "case-submitted"} => cs = {} /\ ~Has(es, "dispatching")
  /\ p = "prepared" => ~Has(es, "active")
  /\ p \in {"prepared", "active"} => ~Has(es, "case-submitted")
  /\ p \in InFlight => ~Has(es, "recorded")
  /\ p = "dispatching" => ~Has(es, "quarantined")
  /\ p \in InFlight \cup {"recorded"} => cs # {}
  /\ p \in InFlight \cup {"recorded", "prepared", "active", "case-submitted"} =>
       ~Has(es, "outcome")
  /\ p = "outcome" => ~Has(es, "stopped")
  /\ p = "stopped" => ~Has(es, "attested")

(* At most one event has a phase: its body is the one BodyOf chooses. *)
LEMMA BodyIs ==
  ASSUME NEW es, NEW e \in es, \A f \in es : f.phase = e.phase => f = e
  PROVE  BodyOf(es, e.phase) = e.body
<1>1. e \in Of(es, e.phase) /\ \A f \in Of(es, e.phase) : f = e
  BY DEF Of
<1>2. (CHOOSE f \in Of(es, e.phase) : TRUE) = e
  BY <1>1
<1> QED BY <1>2 DEF BodyOf

(* One of the phases there comes first in the precedence. *)
LEMMA FirstOfNine ==
  ASSUME NEW N \in SUBSET (1..9), 9 \in N
  PROVE  \E x \in N : \A y \in N : x <= y
<1>1. \A y \in N : y \in {1, 2, 3, 4, 5, 6, 7, 8, 9}
  OBVIOUS
<1>2. CASE N \cap {1, 2, 3} # {}
  BY <1>1, <1>2
<1>3. CASE N \cap {1, 2, 3} = {} /\ N \cap {4, 5, 6} # {}
  BY <1>1, <1>3
<1>4. CASE N \cap {1, 2, 3, 4, 5, 6} = {}
  BY <1>1, <1>4
<1> QED BY <1>1, <1>2, <1>3, <1>4

(* No two files of a log have one phase. *)
LEMMA OneFilePerPhase ==
  ASSUME NEW es, NEW cs, Log(es, cs)
  PROVE  /\ \A e, f \in es \cup cs : e.phase = f.phase => e = f
         /\ \A p \in Phases : Has(es \cup cs, p) <=> IF p = "dispatching" THEN cs # {} ELSE Has(es, p)
         /\ \A e \in es \cup cs : e.phase \in Phases /\ e = Ev(e.phase, e.body) /\ e.body \in Bodies
         /\ es = {} <=> es \cup cs = {}
<1>1. \A c \in cs : c.phase = "dispatching" /\ c \in [phase : Phases, body : Bodies]
  BY DEF Log, Ev, Phases, Bodies
<1>2. \A e \in es : e.phase = "dispatching" => e \in cs
  BY DEF Log, Of
<1>3. \A e, f \in es \cup cs : e.phase = f.phase => e = f
  BY <1>1, <1>2 DEF Log
<1>4. ASSUME NEW p \in Phases
      PROVE  Has(es \cup cs, p) <=> IF p = "dispatching" THEN cs # {} ELSE Has(es, p)
  BY <1>1, <1>2 DEF Has, Of
<1>5. \A e \in es \cup cs : e.phase \in Phases /\ e = Ev(e.phase, e.body) /\ e.body \in Bodies
  BY <1>1 DEF Log, Ev
<1>6. es = {} <=> es \cup cs = {}
  BY DEF Log, Has, Of
<1> QED BY <1>3, <1>4, <1>5, <1>6

(* A log is never refused. *)
LEMMA LogIsReadable ==
  ASSUME NEW es, NEW cs, Log(es, cs), es # {}
  PROVE  Readable(es, cs)
<1> DEFINE all == es \cup cs
           out == BodyOf(es, "outcome")
           dispatched == Has(all, "dispatching") \/ Has(all, "recorded") \/ Has(all, "quarantined")
<1>0. /\ \A p \in Phases : p # "dispatching" => (Has(all, p) <=> Has(es, p))
      /\ Has(all, "dispatching") <=> cs # {}
      /\ \A e, f \in all : e.phase = f.phase => e = f
      /\ \A e \in es : e = Ev(e.phase, e.body)
  BY OneFilePerPhase DEF Phases
<1>1. ASSUME NEW p \in Phases PROVE Cardinality(Of(all, p)) <= 1
  <2>1. CASE Of(all, p) = {}
    BY <2>1, FS_EmptySet
  <2>2. CASE Of(all, p) # {}
    <3>1. PICK e : e \in Of(all, p)
      BY <2>2
    <3>2. Of(all, p) = {e}
      BY <1>0, <3>1 DEF Of
    <3> QED BY <3>2, FS_Singleton
  <2> QED BY <2>1, <2>2
<1>2. /\ Has(all, "prepared")
      /\ Has(all, "dispatching") => cs # {}
      /\ dispatched \/ Has(all, "case-submitted") \/ Has(all, "outcome") => Has(all, "active")
      /\ dispatched => Has(all, "case-submitted")
      /\ Has(all, "recorded") \/ Has(all, "quarantined") => Has(all, "dispatching")
  BY <1>0 DEF Log, Phases
<1>3. ASSUME NEW e \in es PROVE BodyOf(es, e.phase) = e.body
  BY BodyIs DEF Log
<1>4. ASSUME Has(all, "outcome")
      PROVE  Ev("outcome", out) \in es /\ out \in Outcomes /\ Founded(out, es, cs)
  <2>1. PICK e \in es : e.phase = "outcome"
    BY <1>0, <1>4 DEF Has, Of, Phases
  <2>2. out = e.body /\ e = Ev("outcome", out)
    BY <1>0, <1>3, <2>1
  <2> QED BY <2>1, <2>2 DEF Log
<1>5. ASSUME NEW e \in es, e.phase = "stopped"
      PROVE  Has(all, "outcome") /\ BodyOf(es, "stopped") = out /\ e.body = out
  <2>1. Ev("outcome", e.body) \in es
    BY <1>5 DEF Log
  <2>2. BodyOf(es, "outcome") = e.body
    BY <1>3, <2>1 DEF Ev
  <2> QED BY <1>3, <1>5, <2>1, <2>2 DEF Ev, Has, Of
<1>6. Has(all, "stopped") => Has(all, "outcome") /\ BodyOf(es, "stopped") = out
  BY <1>0, <1>5 DEF Has, Of, Phases
<1>7. ASSUME NEW e \in es, e.phase = "attested"
      PROVE  Has(all, "stopped") /\ BodyOf(es, "attested") = out /\ out.status = "qualified"
  <2>1. Ev("stopped", e.body) \in es /\ e.body.status = "qualified"
    BY <1>7 DEF Log
  <2>2. e.body = out
    BY <1>5, <2>1 DEF Ev
  <2> QED BY <1>3, <1>7, <2>1, <2>2 DEF Ev, Has, Of
<1>8. Has(all, "attested") =>
        Has(all, "stopped") /\ BodyOf(es, "attested") = out /\ out.status = "qualified"
  BY <1>0, <1>7 DEF Has, Of, Phases
<1> DEFINE based ==
             CASE out.basis = "pre-dispatch" ->
                    /\ ~dispatched
                    /\ out.on = IF Has(all, "case-submitted") THEN "case-submitted" ELSE "active"
               [] out.basis = "recorded" -> Has(all, "recorded")
               [] out.basis = "quarantined" ->
                    /\ ~Has(all, "recorded") /\ Has(all, "quarantined")
                    /\ out.on = BodyOf(es, "quarantined").on
<1>9. ASSUME Has(all, "outcome") PROVE based
  <2>1. CASE out.basis = "pre-dispatch"
    <3>1. ~dispatched
      BY <1>0, <1>4, <1>9, <2>1 DEF Founded, Log, Phases
    <3>2. out.on = IF Has(all, "case-submitted") THEN "case-submitted" ELSE "active"
      BY <1>0, <1>4, <1>9, <2>1 DEF Founded, Outcomes, Phases
    <3> HIDE DEF out, dispatched
    <3> QED BY <2>1, <3>1, <3>2, Zenon
  <2>2. CASE out.basis = "recorded"
    <3>1. Has(all, "recorded")
      BY <1>0, <1>4, <1>9, <2>2 DEF Founded, Phases
    <3> HIDE DEF out, dispatched
    <3> QED BY <2>2, <3>1, Zenon
  <2>3. CASE out.basis = "quarantined"
    <3>1. ~Has(es, "recorded") /\ Ev("quarantined", Plain(out.on)) \in es
      BY <1>4, <1>9, <2>3 DEF Founded
    <3>2. BodyOf(es, "quarantined") = Plain(out.on)
      BY <1>3, <3>1 DEF Ev
    <3>3. ~Has(all, "recorded") /\ Has(all, "quarantined") /\ out.on = BodyOf(es, "quarantined").on
      BY <1>0, <3>1, <3>2 DEF Plain, Phases, Ev, Has, Of
    <3> HIDE DEF out, dispatched
    <3> QED BY <2>3, <3>3, Zenon
  <2> QED BY <1>4, <1>9, <2>1, <2>2, <2>3 DEF Founded
<1> HIDE DEF out, dispatched, based
<1>10. /\ \A p \in Phases : Cardinality(Of(all, p)) <= 1
       /\ Has(all, "outcome") => based
  BY <1>1, <1>9
<1> HIDE DEF all
<1>11. QED
  BY <1>2, <1>6, <1>8, <1>10, Zenon DEF Readable, out, dispatched, based, all

(* What the phase read from a log says of its files. *)
LEMMA CurrentTells ==
  ASSUME NEW es, NEW cs, Log(es, cs)
  PROVE  /\ es = {} => Resolve(es, cs) = Nothing
         /\ es # {} => /\ Resolve(es, cs) \in es \cup cs
                       /\ Resolve(es, cs).phase \in Phases
                       /\ PhaseTells(Resolve(es, cs).phase, es, cs)
<1> DEFINE all == es \cup cs
           P == {k \in 1..Len(Precedence) : Has(all, Precedence[k])}
           i == Min(P)
           p == Precedence[i]
<1>0. /\ \A q \in Phases : q # "dispatching" => (Has(all, q) <=> Has(es, q))
      /\ Has(all, "dispatching") <=> cs # {}
      /\ \A e, f \in all : e.phase = f.phase => e = f
      /\ \A e \in all : e = Ev(e.phase, e.body) /\ e.phase \in Phases
      /\ es = {} <=> all = {}
      /\ Has(es, "dispatching") => cs # {}
  <2>1. Has(es, "dispatching") => cs # {}
    BY DEF Log, Has
  <2>2. /\ \A e, f \in all : e.phase = f.phase => e = f
        /\ \A q \in Phases : Has(all, q) <=> IF q = "dispatching" THEN cs # {} ELSE Has(es, q)
        /\ \A e \in all : e.phase \in Phases /\ e = Ev(e.phase, e.body)
        /\ es = {} <=> all = {}
    BY OneFilePerPhase
  <2> HIDE DEF all
  <2> QED BY <2>1, <2>2 DEF Phases
<1>1. ASSUME es = {} PROVE Resolve(es, cs) = Nothing
  <2>1. all = {}
    BY <1>0, <1>1
  <2> QED BY <2>1, Zenon DEF Resolve
<1>2. ASSUME es # {} PROVE /\ Resolve(es, cs) \in all /\ Resolve(es, cs).phase \in Phases
                          /\ PhaseTells(Resolve(es, cs).phase, es, cs)
  <2>1. Len(Precedence) = 9 /\ \A k \in 1..9 : Precedence[k] \in Phases
    BY DEF Precedence, Phases
  <2>2. 9 \in P
    <3>1. Precedence[9] = "prepared" /\ Has(es, "prepared")
      BY <1>2 DEF Precedence, Log
    <3> QED BY <1>0, <2>1, <3>1 DEF Phases
  <2>3. i \in P /\ \A k \in P : i <= k
    <3>1. \E x \in P : \A y \in P : x <= y
      <4> DEFINE N == P
      <4>1. N \in SUBSET (1..9) /\ 9 \in N
        BY <2>1, <2>2
      <4> HIDE DEF N
      <4>2. \E x \in N : \A y \in N : x <= y
        BY <4>1, FirstOfNine
      <4> QED BY <4>2 DEF N
    <3> HIDE DEF P
    <3> QED BY <3>1 DEF Min
  <2>4. i \in 1..9 /\ Has(all, p) /\ p \in Phases
    BY <2>1, <2>3
  <2>5. \A k \in 1..9 : k < i => ~Has(all, Precedence[k])
    BY <2>1, <2>3, <2>4
  <2>6. Resolve(es, cs) = Ev(p, BodyOf(all, p))
    <3>1. all # {} /\ Readable(es, cs)
      BY <1>0, <1>2, LogIsReadable
    <3> HIDE DEF all, i
    <3>2. es \cup cs # {} /\ i = Min({k \in 1..Len(Precedence) : Has(es \cup cs, Precedence[k])})
      BY <3>1 DEF all, i
    <3> QED BY <3>1, <3>2, Zenon DEF Resolve, all
  <2>7. PICK e \in all : e.phase = p
    BY <2>4 DEF Has, Of
  <2>8. Resolve(es, cs) = e
    <3>1. \A f \in all : f.phase = e.phase => f = e
      BY <1>0, <2>7
    <3>2. e = Ev(e.phase, e.body)
      BY <1>0, <2>7
    <3> HIDE DEF all, p
    <3>3. BodyOf(all, e.phase) = e.body
      BY <2>7, <3>1, BodyIs
    <3> QED BY <2>6, <2>7, <3>2, <3>3
  <2>9. PhaseTells(p, es, cs)
    <3>0. \A k \in 1..9 : k < i => ~Has(all, Precedence[k])
      BY <2>5
    <3> HIDE DEF i, all
    <3>1. /\ Precedence[1] = "attested" /\ Precedence[2] = "stopped" /\ Precedence[3] = "outcome"
          /\ Precedence[4] = "recorded" /\ Precedence[5] = "quarantined"
          /\ Precedence[6] = "dispatching" /\ Precedence[7] = "case-submitted"
          /\ Precedence[8] = "active" /\ Precedence[9] = "prepared"
      BY DEF Precedence
    <3>2. /\ i > 1 => ~Has(es, "attested")
          /\ i > 2 => ~Has(es, "stopped")
          /\ i > 3 => ~Has(es, "outcome")
          /\ i > 4 => ~Has(es, "recorded")
          /\ i > 5 => ~Has(es, "quarantined")
          /\ i > 6 => cs = {}
          /\ i > 7 => ~Has(es, "case-submitted")
          /\ i > 8 => ~Has(es, "active")
      BY <1>0, <2>4, <3>0, <3>1 DEF Phases
    <3>3. p \in InFlight \cup {"recorded"} => cs # {}
      BY <1>0, <2>4 DEF InFlight, Log, Phases
    <3>4. i \in 1..9
      BY <2>4
    <3> QED BY <1>0, <3>1, <3>2, <3>3, <3>4 DEF PhaseTells, InFlight
  <2> QED BY <2>4, <2>7, <2>8, <2>9
<1> QED BY <1>1, <1>2

(* An event that may be added to a log: its grounds are there, and nothing *)
(* that stands on its absence.                                             *)
Fits(ph, b, es, cs) ==
  /\ ~Has(es, ph)
  /\ ph # "prepared" => Has(es, "prepared")
  /\ ph \in {"case-submitted", "outcome"} => Has(es, "active")
  /\ ph \in {"case-submitted", "recorded"} => ~Has(es, "outcome")
  /\ ph = "dispatching" => Ev(ph, b) \in cs
  /\ ph \in {"recorded", "quarantined"} => cs # {}
  /\ ph = "quarantined" => \E r \in Reasons : b = Plain(r)
  /\ ph = "outcome" => b \in Outcomes /\ Founded(b, es, cs)
  /\ ph = "stopped" => Ev("outcome", b) \in es
  /\ ph = "attested" => Ev("stopped", b) \in es /\ b.status = "qualified"

LEMMA AddEvent ==
  ASSUME NEW es, NEW cs, Log(es, cs), NEW ph \in Phases, NEW b \in Bodies, Fits(ph, b, es, cs)
  PROVE  Log(es \cup {Ev(ph, b)}, cs)
<1> DEFINE ev == Ev(ph, b)
           fs == es \cup {ev}
<1>1. ev.phase = ph /\ ev.body = b /\ ev \in [phase : Phases, body : Bodies]
  BY DEF Ev
<1> HIDE DEF ev
<1>2. \A q : Has(fs, q) <=> Has(es, q) \/ q = ph
  BY <1>1 DEF Has, Of
<1>3. /\ fs \subseteq [phase : Phases, body : Bodies]
      /\ \A e, f \in fs : e.phase = f.phase => e = f
      /\ Of(fs, "dispatching") \subseteq cs
  BY <1>1 DEF Log, Fits, Has, Of, ev
<1>4. /\ fs # {} => Has(fs, "prepared")
      /\ Has(fs, "case-submitted") \/ Has(fs, "outcome") => Has(fs, "active")
      /\ cs # {} => Has(fs, "case-submitted")
      /\ Has(fs, "recorded") \/ Has(fs, "quarantined") => cs # {}
  BY <1>2 DEF Log, Fits
<1>5. ASSUME NEW out, Founded(out, es, cs), out \in Outcomes, ph = "outcome" \/ Has(es, "outcome")
      PROVE  Founded(out, fs, cs)
  BY <1>2, <1>5 DEF Founded, Fits
<1>6. ASSUME NEW e \in fs
      PROVE  /\ e.phase = "quarantined" => \E r \in Reasons : e.body = Plain(r)
             /\ e.phase = "outcome" => e.body \in Outcomes /\ Founded(e.body, fs, cs)
             /\ e.phase = "stopped" => Ev("outcome", e.body) \in fs
             /\ e.phase = "attested" => Ev("stopped", e.body) \in fs /\ e.body.status = "qualified"
  <2>1. CASE e \in es
    <3>1. e.phase = "outcome" => Has(es, "outcome")
      BY <2>1 DEF Has, Of
    <3>2. e.phase = "outcome" => e.body \in Outcomes /\ Founded(e.body, fs, cs)
      BY <1>5, <2>1, <3>1 DEF Log
    <3> QED BY <2>1, <3>2 DEF Log
  <2>2. CASE e = ev
    <3>1. e.phase = "outcome" => e.body \in Outcomes /\ Founded(e.body, fs, cs)
      BY <1>1, <1>5, <2>2 DEF Fits
    <3> QED BY <1>1, <2>2, <3>1 DEF Fits
  <2> QED BY <2>1, <2>2
<1> QED BY <1>3, <1>4, <1>6 DEF Log, ev

(* Nobody has a claim where the case is submitted and nothing after it is there. *)
LEMMA AddClaim ==
  ASSUME NEW es, Log(es, {}), Has(es, "case-submitted"), ~Has(es, "outcome"), NEW o \in Operators
  PROVE  Log(es, {Ev("dispatching", Plain(o))})
<1>1. ASSUME NEW e \in es PROVE e.phase # "outcome"
  BY DEF Has, Of
<1>2. Of(es, "dispatching") = {}
  BY DEF Log
<1> QED BY <1>1, <1>2 DEF Log

-----------------------------------------------------------------------------
(* Operators: where a step leaves them, and what it leaves to the others. *)

(* An operator state that rests on no lock, claim or stop. *)
Modest(y, es, cs, pr) ==
  /\ y \in OpType
  /\ y.att \in es \cup cs \cup {Nothing}
  /\ y.saw \in {"recorded", "unread"} => pr = "recorded"
  /\ y.pc \in {"settle", "ran-settle"} => y.saw \in Seen
  /\ y.pc \notin {"claimed", "run", "sealing", "mark-stopped"}
  /\ y.pc = "append" => y.att.phase = "stopped" /\ y.att.body.status = "qualified"

LEMMA IdleIsModest ==
  ASSUME NEW es, NEW cs, NEW pr
  PROVE  Modest(Idle, es, cs, pr)
<1>1. Nothing \in Attempts
  BY DEF Nothing, Ev, Attempts, Bodies
<1> QED BY <1>1 DEF Modest, Idle, OpType, Pcs, Seen, Reasons, None

(* A stage that applies is next, or the call returns. *)
LEMMA AfterStage ==
  ASSUME NEW k \in Nat, NEW es, NEW cs, NEW pr, NEW x,
         Modest([x EXCEPT !.pc = "look"], es, cs, pr), x \in OpType
  PROVE  Modest(After(k, x), es, cs, pr)
<1> DEFINE todo == {i \in (k + 1)..Len(Stages) : Applies(Stages[i], x)}
<1>1. CASE todo = {}
  BY <1>1, IdleIsModest DEF After
<1>2. CASE todo # {}
  <2>1. Len(Stages) = 8 /\ todo \subseteq (k + 1)..8
    BY DEF Stages
  <2>2. PICK m : m = Min(todo)
    OBVIOUS
  <2>3. m \in todo
    <3>1. todo \in SUBSET (1..8)
      BY <2>1
    <3> HIDE DEF todo
    <3>2. \E a \in todo : \A b \in todo : a <= b
      <4>1. todo \cup {9} \in SUBSET (1..9) /\ 9 \in todo \cup {9}
        BY <3>1
      <4>2. PICK a \in todo \cup {9} : \A b \in todo \cup {9} : a <= b
        BY <4>1, FirstOfNine
      <4>3. a # 9
        BY <1>2, <3>1, <4>2
      <4> QED BY <4>2, <4>3
    <3> QED BY <2>2, <3>2 DEF Min
  <2>4. Applies(Stages[m], x) /\ m \in 1..8
    BY <2>1, <2>3
  <2>5. After(k, x) = [x EXCEPT !.pc = Stages[m]]
    BY <1>2, <2>2 DEF After
  <2>6. Stages[m] \in {"withdraw", "submit", "claim", "readback", "judge", "seal", "release", "append"}
    BY <2>4 DEF Stages
  <2>7. Stages[m] = "append" => x.att.phase = "stopped" /\ x.att.body.status = "qualified"
    BY <2>4, Zenon DEF Applies
  <2> QED BY <2>5, <2>6, <2>7 DEF Modest, OpType, Pcs
<1> QED BY <1>1, <1>2

(* The stages have their numbers. *)
LEMMA StageNumber ==
  ASSUME NEW stage \in {"withdraw", "submit", "claim", "readback", "judge", "seal", "release", "append"}
  PROVE  StageNo(stage) \in 1..8
<1>1. \E k \in 1..8 : Stages[k] = stage
  BY DEF Stages
<1>2. Len(Stages) = 8
  BY DEF Stages
<1> QED BY <1>1, <1>2 DEF StageNo

(* Going on after a stage with an attempt read from the log. *)
LEMMA ProceedIsModest ==
  ASSUME Shape, NEW o \in Operators, NEW a \in Attempts,
         NEW stage \in {"withdraw", "submit", "claim", "readback", "judge", "seal", "release", "append"},
         Proceed(o, stage, a)
  PROVE  \E y : Modest(y, {a}, {}, "none") /\ op' = [op EXCEPT ![o] = y]
<1> DEFINE x == [op[o] EXCEPT !.att = a, !.saw = None]
<1>1. x \in OpType /\ x.att = a /\ x.saw = None
  BY DEF Shape, OpType
<1>2. Modest([x EXCEPT !.pc = "look"], {a}, {}, "none")
  BY <1>1 DEF Modest, OpType, Pcs, Seen, Reasons, None
<1>3. op' = [op EXCEPT ![o] = After(StageNo(stage), x)]
  BY DEF Proceed
<1>4. StageNo(stage) \in Nat
  BY StageNumber
<1> HIDE DEF x
<1> QED BY <1>1, <1>2, <1>3, <1>4, AfterStage

(* What the others know stays true when operator set Q does not move. *)
LEMMA OthersKnow ==
  ASSUME IInv, NEW Q \in SUBSET Operators, \A q \in Q : op'[q] = op[q],
         events \subseteq events', claims \subseteq claims',
         provider = "recorded" => provider' = "recorded",
         group \in Released => group' \in Released,
         \A q \in Q : lock = q => lock' = lock /\ events' = events,
         \A q \in Q : claims = {Ev("dispatching", Plain(q))} => claims' = claims,
         \A q \in Q : op[q].pc \in {"claimed", "run"} => runs' = runs
  PROVE  \A q \in Q : Knows(q)'
<1> SUFFICES ASSUME NEW q \in Q PROVE Knows(q)'
  OBVIOUS
<1>1. Knows(q)
  BY DEF IInv, KnowsInv
<1>2. /\ op'[q] = op[q]
      /\ lock = q => lock' = lock /\ events' = events
      /\ claims = {Ev("dispatching", Plain(q))} => claims' = claims
      /\ op[q].pc \in {"claimed", "run"} => runs' = runs
  OBVIOUS
<1> QED BY <1>1, <1>2 DEF Knows

(* A modest step of operator o. *)
LEMMA ModestKnows ==
  ASSUME NEW o \in Operators, op'[o] \in OpType, Modest(op'[o], events', claims', provider')
  PROVE  Knows(o)'
BY DEF Modest, Knows

(* The two together, for a step that touches only the log, the lock and op. *)
LEMMA LogStep ==
  ASSUME IInv, NEW o \in Operators, NEW y, op' = [op EXCEPT ![o] = y],
         Modest(y, events', claims, provider),
         events \subseteq events', lock \in {Nobody, o} \/ events' = events,
         lock' = lock \/ (lock = o /\ lock' = Nobody),
         UNCHANGED <<claims, store, group, provider, verdict, runs>>,
         late' \in BOOLEAN, bearer' \in BOOLEAN, left' \in Setting,
         Log(events', claims), StoryInv'
  PROVE  IInv'
<1>1. op'[o] = y /\ y \in OpType /\ \A q \in Operators \ {o} : op'[q] = op[q]
  BY DEF IInv, Shape, Modest
<1>2. Shape'
  BY <1>1 DEF IInv, Shape
<1>3. StoreInv'
  BY DEF IInv, StoreInv, Contains
<1>4. Knows(o)'
  BY <1>1, ModestKnows
<1>5. \A q \in Operators \ {o} : Knows(q)'
  <2>1. \A q \in Operators \ {o} : lock = q => lock' = lock /\ events' = events
    BY QualificationAssumption
  <2> QED BY <1>1, <2>1, OthersKnow
<1> QED BY <1>2, <1>3, <1>4, <1>5 DEF IInv, KnowsInv

(* What an operator reads. *)
LEMMA ReadsLog ==
  ASSUME NEW es, NEW cs, Log(es, cs)
  PROVE  /\ Resolve(es, cs) \in Attempts /\ Resolve(es, cs) \in es \cup cs \cup {Nothing}
         /\ Resolve(es, cs).phase # "broken"
         /\ Resolve(es, cs).phase = None <=> es = {}
         /\ Resolve(es, cs).phase # None =>
              Resolve(es, cs) \in es \cup cs /\ Resolve(es, cs).phase \in Phases
         /\ PhaseTells(Resolve(es, cs).phase, es, cs)
<1>1. Nothing.phase = None /\ Nothing \in Attempts
  BY DEF Nothing, Ev, Attempts, Bodies
<1>2. None \notin Phases /\ "broken" \notin Phases /\ None # "broken"
  BY DEF None, Phases
<1>3. \A e \in es \cup cs : e.phase \in Phases /\ e = Ev(e.phase, e.body) /\ e.body \in Bodies
  BY OneFilePerPhase
<1>4. es = {} => PhaseTells(None, es, cs)
  BY DEF PhaseTells, None, InFlight
<1>5. \A e \in es \cup cs : e \in Attempts
  BY <1>3 DEF Attempts, Ev
<1> QED BY <1>1, <1>2, <1>4, <1>5, CurrentTells

(* Nothing happens but that operator o moves, and maybe a fault is spent. *)
LEMMA QuietStep ==
  ASSUME IInv, NEW o \in Operators, NEW y, op' = [op EXCEPT ![o] = y],
         Modest(y, events, claims, provider),
         lock' = lock \/ (lock = o /\ lock' = Nobody),
         UNCHANGED <<events, claims, store, group, provider, verdict, runs>>,
         late' \in BOOLEAN, bearer' \in BOOLEAN, left' \in Setting
  PROVE  IInv'
<1>1. Log(events', claims) /\ StoryInv'
  BY DEF IInv, StoryInv
<1> QED BY <1>1, LogStep

Rest == <<claims, store, group, provider, verdict, runs, late, bearer, left>>

(* Operator o returns or throws, keeps the log, or finds nothing to do. *)
LEMMA ThrowsStep ==
  ASSUME IInv, NEW o \in Operators, Throws(o), UNCHANGED <<events, lock, Rest>>
  PROVE  IInv'
<1>1. late' \in BOOLEAN /\ bearer' \in BOOLEAN /\ left' \in Setting
  BY DEF IInv, Shape, Rest
<1> QED BY <1>1, IdleIsModest, QuietStep DEF Throws, Rest

LEMMA RefuseStep ==
  ASSUME IInv, NEW o \in Operators, Refuse(o), UNCHANGED <<lock, Rest>>
  PROVE  IInv'
BY ThrowsStep DEF Refuse

LEMMA GoesOn ==
  ASSUME IInv, NEW o \in Operators, NEW a,
         NEW stage \in {"withdraw", "submit", "claim", "readback", "judge", "seal", "release", "append"},
         Proceed(o, stage, a), a \in Attempts, a \in events \cup claims \cup {Nothing},
         UNCHANGED <<events, lock, claims, store, group, provider, verdict, runs, late, bearer>>,
         left' \in Setting
  PROVE  IInv'
<1>0. PICK y : Modest(y, {a}, {}, "none") /\ op' = [op EXCEPT ![o] = y]
  BY ProceedIsModest DEF IInv
<1>1. Modest(y, events, claims, provider) /\ op' = [op EXCEPT ![o] = y]
  BY <1>0 DEF Modest
<1>2. late' \in BOOLEAN /\ bearer' \in BOOLEAN
  BY DEF IInv, Shape
<1> QED BY <1>1, <1>2, QuietStep

LEMMA KeepStep ==
  ASSUME IInv, NEW o \in Operators,
         NEW stage \in {"withdraw", "submit", "claim", "readback", "judge", "seal", "release", "append"},
         Keep(o, stage), UNCHANGED <<lock, Rest>>
  PROVE  IInv'
<1>1. Current \in Attempts /\ Current \in events \cup claims \cup {Nothing}
  BY ReadsLog DEF IInv, Current
<1>2. left' \in Setting
  BY DEF IInv, Shape, Rest
<1> QED BY <1>1, <1>2, GoesOn DEF Keep, Rest

(* An event that fits is published. *)
LEMMA EventStep ==
  ASSUME IInv, NEW o \in Operators, NEW ph \in Phases, NEW b \in Bodies,
         Fits(ph, b, events, claims), events' = events \cup {Ev(ph, b)},
         NEW y, op' = [op EXCEPT ![o] = y], Modest(y, events', claims, provider),
         lock \in {Nobody, o}, lock' = lock \/ lock' = Nobody, UNCHANGED Rest,
         ph = "recorded" => provider = "recorded",
         ph = "outcome" /\ b.status = "qualified" =>
           b.basis = "recorded" /\ verdict = "qualified",
         ph = "stopped" => group \in Released
  PROVE  IInv'
<1>1. Log(events', claims)
  BY AddEvent DEF IInv
<1>2. Ev(ph, b).phase = ph /\ Ev(ph, b).body = b
  BY DEF Ev
<1>3. StoryInv'
  <2>1. \A q : Has(events', q) <=> Has(events, q) \/ q = ph
    BY <1>2 DEF Has, Of
  <2>2. \A e \in Of(events', "outcome") :
          e.body.status = "qualified" => e.body.basis = "recorded" /\ verdict = "qualified"
    BY <1>2 DEF IInv, StoryInv, Of
  <2> QED BY <2>1, <2>2 DEF IInv, StoryInv, Rest
<1>4. late' \in BOOLEAN /\ bearer' \in BOOLEAN /\ left' \in Setting
  BY DEF IInv, Shape, Rest
<1>5. lock' = lock \/ (lock = o /\ lock' = Nobody)
  OBVIOUS
<1> QED BY <1>1, <1>3, <1>4, <1>5, LogStep DEF Rest

LEMMA PublishStep ==
  ASSUME IInv, NEW o \in Operators, NEW ph \in Phases, NEW b \in Bodies,
         Fits(ph, b, events, claims),
         NEW stage \in {"withdraw", "submit", "claim", "readback", "judge", "seal", "release", "append"},
         Publish(o, stage, Ev(ph, b)),
         lock \in {Nobody, o}, lock' = lock \/ lock' = Nobody, UNCHANGED Rest,
         ph = "recorded" => provider = "recorded",
         ph = "outcome" /\ b.status = "qualified" =>
           b.basis = "recorded" /\ verdict = "qualified",
         ph = "stopped" => group \in Released
  PROVE  IInv'
<1>1. events' = events \cup {Ev(ph, b)} /\ Proceed(o, stage, Resolve(events', claims))
  BY DEF Publish
<1>2. Log(events', claims)
  BY <1>1, AddEvent DEF IInv
<1>3. PICK a : a = Resolve(events', claims)
  OBVIOUS
<1>4. a \in Attempts /\ a \in events' \cup claims \cup {Nothing} /\ Proceed(o, stage, a)
  BY <1>1, <1>2, <1>3, ReadsLog
<1>5. PICK y : Modest(y, {a}, {}, "none") /\ op' = [op EXCEPT ![o] = y]
  BY <1>4, ProceedIsModest DEF IInv
<1>6. Modest(y, events', claims, provider)
  BY <1>4, <1>5 DEF Modest
<1> QED BY <1>1, <1>5, <1>6, EventStep

-----------------------------------------------------------------------------
(* apply, recover, and the start of #continue *)

Calm == Pcs \ {"claimed", "run", "sealing", "mark-stopped", "append", "settle", "ran-settle"}

LEMMA ReadsCurrent ==
  ASSUME IInv
  PROVE  /\ Current \in Attempts /\ Current \in events \cup claims \cup {Nothing}
         /\ Current.phase # "broken"
         /\ Current.phase = None <=> events = {}
         /\ Current.phase # None => Current \in events \cup claims /\ Current.phase \in Phases
         /\ Current.phase \notin {None, "dispatching"} => Current \in events
         /\ PhaseTells(Current.phase, events, claims)
<1>1. \A c \in claims : c.phase = "dispatching"
  BY DEF IInv, Log, Ev
<1> QED BY <1>1, ReadsLog DEF IInv, Current

(* An attempt some operator has read. *)
Found(a) == a \in Attempts /\ a \in events \cup claims \cup {Nothing}

(* The operator moves to a step that rests on nothing it has not read. *)
LEMMA MoveStep ==
  ASSUME IInv, NEW o \in Operators, NEW pc \in Calm, NEW r \in BOOLEAN, NEW a, Found(a),
         op' = [op EXCEPT ![o] = [op[o] EXCEPT !.pc = pc, !.att = a, !.revoked = r]],
         UNCHANGED <<events, lock, Rest>>
  PROVE  IInv'
<1> DEFINE y == [op[o] EXCEPT !.pc = pc, !.att = a, !.revoked = r]
<1>1. op[o] \in OpType /\ Knows(o)
  BY DEF IInv, Shape, KnowsInv
<1>2. /\ y \in OpType /\ y.att = a /\ y.pc = pc /\ y.saw = op[o].saw
      /\ pc \notin {"claimed", "run", "sealing", "mark-stopped", "append", "settle", "ran-settle"}
  BY <1>1 DEF OpType, Calm, Found
<1>3. op' = [op EXCEPT ![o] = y]
  OBVIOUS
<1> HIDE DEF y
<1>4. Modest(y, events, claims, provider)
  BY <1>1, <1>2 DEF Modest, Knows, Found
<1>5. late' \in BOOLEAN /\ bearer' \in BOOLEAN /\ left' \in Setting
  BY DEF IInv, Shape, Rest
<1> QED BY <1>3, <1>4, <1>5, QuietStep DEF Rest

LEMMA GotoStep ==
  ASSUME IInv, NEW o \in Operators, NEW pc \in Calm, Goto(o, pc), UNCHANGED <<events, lock, Rest>>
  PROVE  IInv'
<1>1. op[o] \in OpType /\ Knows(o)
  BY DEF IInv, Shape, KnowsInv
<1>2. Found(op[o].att) /\ op[o].revoked \in BOOLEAN
  BY <1>1 DEF OpType, Knows, Found
<1>3. op' = [op EXCEPT ![o] = [op[o] EXCEPT !.pc = pc, !.att = op[o].att, !.revoked = op[o].revoked]]
  BY <1>1 DEF Goto, OpType
<1> QED BY <1>2, <1>3, MoveStep

Reads(o, pc) == op' = [op EXCEPT ![o].att = Current, ![o].pc = pc]

LEMMA ReadStep ==
  ASSUME IInv, NEW o \in Operators, NEW pc \in Calm, Reads(o, pc), UNCHANGED <<events, lock, Rest>>
  PROVE  IInv'
<1>1. op[o] \in OpType /\ op \in [Operators -> OpType]
  BY DEF IInv, Shape
<1>2. op[o].revoked \in BOOLEAN
  BY <1>1 DEF OpType
<1>3. op' = [op EXCEPT ![o] = [op[o] EXCEPT !.pc = pc, !.att = Current, !.revoked = op[o].revoked]]
  BY <1>1 DEF OpType, Reads
<1>4. PICK c, r : c = Current /\ r = op[o].revoked
  OBVIOUS
<1>5. /\ Found(c) /\ r \in BOOLEAN
      /\ op' = [op EXCEPT ![o] = [op[o] EXCEPT !.pc = pc, !.att = c, !.revoked = r]]
  BY <1>2, <1>3, <1>4, ReadsCurrent DEF Found
<1> QED BY <1>5, MoveStep

LEMMA ApplyKeeps ==
  ASSUME IInv, NEW o \in Operators, Apply(o) \/ Recover(o)
  PROVE  IInv'
<1>0. Idle \in OpType /\ Idle.att = Nothing /\ Idle.saw = None /\ "look" \in Pcs
  BY IdleIsModest DEF Modest, Idle, Pcs
<1>1. PICK y \in OpType : /\ op' = [op EXCEPT ![o] = y]
                          /\ y.pc = "look" /\ y.att = Nothing /\ y.saw = None
  <2>1. CASE Apply(o)
    <3>1. PICK y : y = [Idle EXCEPT !.pc = "look", !.apply = TRUE, !.dispatch = TRUE]
      OBVIOUS
    <3>2. y \in OpType /\ y.pc = "look" /\ y.att = Nothing /\ y.saw = None
      BY <1>0, <3>1 DEF OpType
    <3> QED BY <2>1, <3>1, <3>2 DEF Apply
  <2>2. CASE Recover(o)
    <3>1. (Current.phase \in {"prepared", "active", "case-submitted"}) \in BOOLEAN
      OBVIOUS
    <3>2. PICK d : d = (Current.phase \in {"prepared", "active", "case-submitted"})
      OBVIOUS
    <3>3. d \in BOOLEAN
      BY <3>1, <3>2, Zenon
    <3>4. op' = [op EXCEPT ![o] = [Idle EXCEPT !.pc = "look", !.dispatch = d]]
      BY <2>2, <3>2, Zenon DEF Recover
    <3>5. PICK y : y = [Idle EXCEPT !.pc = "look", !.dispatch = d]
      OBVIOUS
    <3>6. y \in OpType /\ y.pc = "look" /\ y.att = Nothing /\ y.saw = None
      BY <1>0, <3>3, <3>5 DEF OpType
    <3> QED BY <3>4, <3>5, <3>6
  <2> QED BY <2>1, <2>2
<1>3. Modest(y, events, claims, provider)
  BY <1>1 DEF Modest, Seen, Reasons, None
<1>4. UNCHANGED <<events, lock, Rest>>
  BY DEF Apply, Recover, Rest
<1>5. late' \in BOOLEAN /\ bearer' \in BOOLEAN /\ left' \in Setting
  BY <1>4 DEF IInv, Shape, Rest
<1> QED BY <1>1, <1>3, <1>4, <1>5, QuietStep DEF Rest

LEMMA LookKeeps ==
  ASSUME IInv, NEW o \in Operators, Look(o)
  PROVE  IInv'
<1>1. UNCHANGED <<events, lock, Rest>> /\ "check" \in Calm
  BY DEF Look, Rest, Calm, Pcs
<1> QED BY <1>1, ReadStep DEF Look, Reads

(* The stages are entered with what was read. *)
LEMMA EnterStages ==
  ASSUME IInv, NEW o \in Operators, NEW r \in BOOLEAN,
         op' = [op EXCEPT ![o] = After(0, [op[o] EXCEPT !.revoked = r])],
         UNCHANGED <<events, lock, Rest>>
  PROVE  IInv'
<1>1. op[o] \in OpType /\ Knows(o)
  BY DEF IInv, Shape, KnowsInv
<1>2. PICK x \in OpType : /\ x = [op[o] EXCEPT !.revoked = r]
                          /\ x.att = op[o].att /\ x.saw = op[o].saw
  BY <1>1 DEF OpType
<1>3. Modest([x EXCEPT !.pc = "look"], events, claims, provider)
  <2>1. PICK z : z = [x EXCEPT !.pc = "look"]
    OBVIOUS
  <2>2. "look" \in Pcs
    BY DEF Pcs
  <2>3. z \in OpType /\ z.att = x.att /\ z.saw = x.saw /\ z.pc = "look"
    BY <1>2, <2>1, <2>2 DEF OpType
  <2> QED BY <1>1, <1>2, <2>1, <2>3 DEF Modest, Knows
<1>4. Modest(After(0, x), events, claims, provider)
  BY <1>3, AfterStage
<1>5. late' \in BOOLEAN /\ bearer' \in BOOLEAN /\ left' \in Setting
  BY DEF IInv, Shape, Rest
<1> QED BY <1>2, <1>4, <1>5, QuietStep DEF Rest

LEMMA CheckKeeps ==
  ASSUME IInv, NEW o \in Operators, Check(o)
  PROVE  IInv'
<1>1. UNCHANGED <<events, lock, Rest>> /\ "activate" \in Calm /\ "tip" \in Calm
  BY DEF Check, Rest, Calm, Pcs
<1>2. \/ Throws(o) \/ Goto(o, "activate")
      \/ op' = [op EXCEPT ![o] = After(0, [op[o] EXCEPT !.revoked = Revoked])]
      \/ op' = [op EXCEPT ![o] = [[op[o] EXCEPT !.revoked = Revoked] EXCEPT !.pc = "tip"]]
  BY Zenon DEF Check
<1>3. PICK r \in BOOLEAN : r = Revoked
  BY DEF Revoked, Contains
<1>4. op[o] \in OpType /\ Knows(o)
  BY DEF IInv, Shape, KnowsInv
<1>5. CASE op' = [op EXCEPT ![o] = [[op[o] EXCEPT !.revoked = Revoked] EXCEPT !.pc = "tip"]]
  <2>1. Found(op[o].att)
    BY <1>4 DEF OpType, Knows, Found
  <2>2. op' = [op EXCEPT ![o] = [op[o] EXCEPT !.pc = "tip", !.att = op[o].att, !.revoked = r]]
    BY <1>3, <1>4, <1>5 DEF OpType
  <2> QED BY <1>1, <2>1, <2>2, MoveStep
<1>6. CASE op' = [op EXCEPT ![o] = After(0, [op[o] EXCEPT !.revoked = Revoked])]
  BY <1>1, <1>3, <1>6, EnterStages
<1> QED BY <1>1, <1>2, <1>5, <1>6, ThrowsStep, GotoStep

LEMMA ActivateKeeps ==
  ASSUME IInv, NEW o \in Operators, Activate(o)
  PROVE  IInv'
<1>1. /\ UNCHANGED <<events, lock, Rest>>
      /\ "prepare" \in Calm /\ "tip" \in Calm /\ "mark-active" \in Calm
  BY DEF Activate, Rest, Calm, Pcs
<1>2. \/ Throws(o) \/ Goto(o, "prepare") \/ Goto(o, "mark-active")
      \/ op' = [op EXCEPT ![o].att = Current, ![o].pc = "tip"]
  BY Zenon DEF Activate
<1> QED BY <1>1, <1>2, ThrowsStep, GotoStep, ReadStep DEF Reads

LEMMA TipKeeps ==
  ASSUME IInv, NEW o \in Operators, Tip(o)
  PROVE  IInv'
<1>1. UNCHANGED <<events, lock, Rest>>
  BY DEF Tip, Rest
<1>2. Throws(o) \/ op' = [op EXCEPT ![o] = After(0, op[o])]
  BY Zenon DEF Tip
<1>3. op[o] \in OpType
  BY DEF IInv, Shape
<1>4. op[o].revoked \in BOOLEAN /\ op[o] = [op[o] EXCEPT !.revoked = op[o].revoked]
  BY <1>3 DEF OpType
<1> QED BY <1>1, <1>2, <1>4, ThrowsStep, EnterStages

LEMMA PcIsModest ==
  ASSUME IInv, NEW o \in Operators, NEW pc \in Calm
  PROVE  Modest([op[o] EXCEPT !.pc = pc], events, claims, provider)
<1>1. op[o] \in OpType /\ Knows(o)
  BY DEF IInv, Shape, KnowsInv
<1>2. PICK y : y = [op[o] EXCEPT !.pc = pc]
  OBVIOUS
<1>3. /\ y \in OpType /\ y.pc = pc /\ y.att = op[o].att /\ y.saw = op[o].saw
      /\ pc \notin {"claimed", "run", "sealing", "mark-stopped", "append", "settle", "ran-settle"}
  BY <1>1, <1>2 DEF OpType, Calm
<1>4. Modest(y, events, claims, provider)
  BY <1>1, <1>3 DEF Modest, Knows
<1> QED BY <1>2, <1>4

(* The group, the provider or the surroundings change, and the operators   *)
(* in Q do not move.                                                       *)
LEMMA WorldStep ==
  ASSUME IInv, NEW Q \in SUBSET Operators, \A q \in Q : op'[q] = op[q],
         \A o \in Operators \ Q : Knows(o)', op' \in [Operators -> OpType],
         UNCHANGED <<events, claims, lock, store, verdict, runs>>,
         group' \in {"idle", "running", "failed", "stopped", "session", "later"},
         group \in Released => group' \in Released,
         provider' \in {"none", "working", "recorded", "lost"},
         provider = "recorded" => provider' = "recorded",
         late' \in BOOLEAN, bearer' \in BOOLEAN, left' \in Setting
  PROVE  IInv'
<1>1. Shape'
  BY DEF IInv, Shape
<1>2. Log(events, claims)' /\ StoryInv'
  BY DEF IInv, StoryInv
<1>3. StoreInv'
  BY DEF IInv, StoreInv, Contains
<1>4. \A q \in Q : Knows(q)'
  BY OthersKnow
<1> QED BY <1>1, <1>2, <1>3, <1>4 DEF IInv, KnowsInv

LEMMA PrepareKeeps ==
  ASSUME IInv, NEW o \in Operators, Prepare(o)
  PROVE  IInv'
<1>1. UNCHANGED <<lock, Rest>> /\ lock = Nobody /\ "start" \in Calm
  BY DEF Prepare, Rest, Unlocked, Calm, Pcs
<1>2. CASE Refuse(o)
  BY <1>1, <1>2, RefuseStep
<1>3. CASE Goto(o, "start") /\ Current.phase # None /\ events' = events
  BY <1>1, <1>3, GotoStep
<1>4. CASE Goto(o, "start") /\ Current.phase = None /\ events' = events \cup {Ev("prepared", Plain(None))}
  <2>1. events = {}
    BY <1>4, ReadsCurrent
  <2>2. Plain(None) \in Bodies /\ "prepared" \in Phases
    BY DEF Bodies, Phases
  <2>3. Fits("prepared", Plain(None), events, claims)
    BY <2>1 DEF Fits, Has, Of
  <2>4. PICK y : y = [op[o] EXCEPT !.pc = "start"]
    OBVIOUS
  <2>5. op' = [op EXCEPT ![o] = y]
    BY <1>4, <2>4 DEF Goto, IInv, Shape
  <2>6. Modest(y, events, claims, provider)
    BY <1>1, <2>4, PcIsModest
  <2>7. Modest(y, events', claims, provider)
    BY <1>4, <2>6 DEF Modest
  <2> QED BY <1>1, <1>4, <2>2, <2>3, <2>5, <2>7, EventStep
<1> QED BY <1>2, <1>3, <1>4 DEF Prepare

LEMMA MarkActiveKeeps ==
  ASSUME IInv, NEW o \in Operators, MarkActive(o)
  PROVE  IInv'
<1>1. UNCHANGED <<lock, Rest>> /\ lock = Nobody /\ "tip" \in Calm
  BY DEF MarkActive, Rest, Unlocked, Calm, Pcs
<1> DEFINE ev == Ev("active", Plain(None))
<1>2. \/ Refuse(o)
      \/ UNCHANGED events /\ op' = [op EXCEPT ![o].pc = "tip", ![o].att = Current]
      \/ /\ Current.phase = "prepared" /\ events' = events \cup {ev}
         /\ op' = [op EXCEPT ![o].pc = "tip", ![o].att = ev]
  BY Zenon DEF MarkActive
<1>3. CASE UNCHANGED events /\ op' = [op EXCEPT ![o].pc = "tip", ![o].att = Current]
  <2>1. Reads(o, "tip")
    BY <1>3 DEF Reads, IInv, Shape
  <2> QED BY <1>1, <1>3, <2>1, ReadStep
<1>4. CASE /\ Current.phase = "prepared" /\ events' = events \cup {ev}
           /\ op' = [op EXCEPT ![o].pc = "tip", ![o].att = ev]
  <2>1. Plain(None) \in Bodies /\ "active" \in Phases /\ ev \in Attempts
    BY DEF Bodies, Phases, Attempts, Ev
  <2>2. Fits("active", Plain(None), events, claims)
    <3>1. Has(events, "prepared") /\ ~Has(events, "active")
      BY <1>4, ReadsCurrent DEF PhaseTells, IInv, Log, None
    <3> QED BY <3>1 DEF Fits
  <2> HIDE DEF ev
  <2>3. PICK x : x = [op[o] EXCEPT !.pc = "tip"]
    OBVIOUS
  <2>4. Modest(x, events, claims, provider) /\ x.pc = "tip"
    <3>1. op[o] \in OpType
      BY DEF IInv, Shape
    <3> QED BY <1>1, <2>3, <3>1, PcIsModest DEF OpType
  <2>5. PICK y : y = [x EXCEPT !.att = ev]
    OBVIOUS
  <2>6. y \in OpType /\ y.att = ev /\ y.pc = "tip" /\ y.saw = x.saw
    BY <2>1, <2>4, <2>5 DEF OpType, Modest
  <2>7. op' = [op EXCEPT ![o] = y]
    BY <1>4, <2>3, <2>5 DEF IInv, Shape, OpType
  <2>8. Modest(y, events', claims, provider)
    BY <1>4, <2>4, <2>6 DEF Modest
  <2> QED BY <1>1, <1>4, <2>1, <2>2, <2>7, <2>8, EventStep DEF ev
<1> QED BY <1>1, <1>2, <1>3, <1>4, RefuseStep

LEMMA StartKeeps ==
  ASSUME IInv, NEW o \in Operators, Start(o)
  PROVE  IInv'
<1>1. UNCHANGED <<events, claims, lock, store, provider, verdict, runs, late, bearer>>
  BY DEF Start
<1>2. left' \in Setting
  <2>1. CASE left' = left
    BY <2>1 DEF IInv, Shape
  <2>2. CASE left.faults > 0 /\ SpendFault
    BY <2>2 DEF IInv, Shape, SpendFault, Setting
  <2> QED BY <2>1, <2>2 DEF Start
<1>3. /\ group' \in {"idle", "running", "failed", "stopped", "session", "later"}
      /\ group \in Released => group' \in Released
  BY DEF Start, IInv, Shape, Released
<1>4. PICK y : Modest(y, events, claims, provider) /\ op' = [op EXCEPT ![o] = y]
  <2>1. CASE Throws(o)
    BY <2>1, IdleIsModest DEF Throws
  <2>2. CASE Goto(o, "mark-active")
    <3>1. "mark-active" \in Calm
      BY DEF Calm, Pcs
    <3>2. op' = [op EXCEPT ![o] = [op[o] EXCEPT !.pc = "mark-active"]]
      BY <2>2 DEF Goto, IInv, Shape
    <3> QED BY <3>1, <3>2, PcIsModest
  <2> QED BY <2>1, <2>2 DEF Start
<1>5. op' \in [Operators -> OpType] /\ op'[o] = y /\ \A q \in Operators \ {o} : op'[q] = op[q]
  BY <1>4 DEF IInv, Shape, Modest
<1>6. Knows(o)'
  BY <1>1, <1>4, <1>5, ModestKnows DEF Modest
<1>7. Operators \ (Operators \ {o}) = {o} /\ Operators \ {o} \in SUBSET Operators
  OBVIOUS
<1>8. provider' \in {"none", "working", "recorded", "lost"} /\ late' \in BOOLEAN /\ bearer' \in BOOLEAN
  BY <1>1 DEF IInv, Shape
<1> QED BY <1>1, <1>2, <1>3, <1>5, <1>6, <1>7, <1>8, WorldStep

-----------------------------------------------------------------------------
(* Up to the dispatch *)

(* A prepared log has its first event. *)
LEMMA HasPrepared ==
  ASSUME IInv, Current.phase # None
  PROVE  Has(events, "prepared")
BY ReadsCurrent DEF IInv, Log

LEMMA WithdrawKeeps ==
  ASSUME IInv, NEW o \in Operators, Withdraw(o)
  PROVE  IInv'
<1>1. UNCHANGED <<lock, Rest>> /\ lock = Nobody
  BY DEF Withdraw, Rest, Unlocked
<1>2. CASE Refuse(o)
  BY <1>1, <1>2, RefuseStep
<1>3. CASE ~Refuse(o)
  <2>1. PICK ph : ph = op[o].att.phase
    OBVIOUS
  <2>2. PICK b : b = [status |-> "unavailable", basis |-> "pre-dispatch", on |-> ph]
    OBVIOUS
  <2>3. /\ ph \in {"active", "case-submitted"} /\ Current = op[o].att
        /\ Publish(o, "withdraw", Ev("outcome", b))
    BY <1>3, <2>1, <2>2 DEF Withdraw
  <2>4. b \in Outcomes /\ b \in Bodies /\ "outcome" \in Phases
        /\ b.status = "unavailable" /\ b.basis = "pre-dispatch" /\ b.on = ph
    BY <2>2, <2>3 DEF Outcomes, Bodies, Phases
  <2>5. /\ Has(events, ph) /\ Has(events, "prepared")
        /\ PhaseTells(ph, events, claims)
    BY <2>1, <2>3, ReadsCurrent, HasPrepared DEF Has, Of, None
  <2>6. Has(events, "active")
    BY <2>3, <2>5 DEF IInv, Log
  <2>7. Founded(b, events, claims) /\ ~Has(events, "outcome")
    BY <2>3, <2>4, <2>5 DEF Founded, PhaseTells
  <2>8. Fits("outcome", b, events, claims)
    BY <2>4, <2>5, <2>6, <2>7 DEF Fits
  <2> QED BY <1>1, <2>3, <2>4, <2>8, PublishStep
<1> QED BY <1>2, <1>3

LEMMA NoBearerKeeps ==
  ASSUME IInv, NEW o \in Operators, NoBearer(o)
  PROVE  IInv'
<1>1. UNCHANGED <<events, lock, Rest>> /\ "withdraw" \in Calm
  BY DEF NoBearer, Rest, Calm, Pcs
<1>2. Goto(o, "withdraw") \/ Reads(o, "withdraw")
  BY DEF NoBearer, Reads
<1> QED BY <1>1, <1>2, GotoStep, ReadStep

LEMMA SubmitKeeps ==
  ASSUME IInv, NEW o \in Operators, Submit(o)
  PROVE  IInv'
<1>1. UNCHANGED <<lock, Rest>> /\ lock = Nobody
  BY DEF Submit, Rest, Unlocked
<1>2. \/ Refuse(o) \/ Keep(o, "submit")
      \/ Current.phase = "active" /\ Publish(o, "submit", Ev("case-submitted", Plain(None)))
  BY Zenon DEF Submit
<1>3. CASE Current.phase = "active" /\ Publish(o, "submit", Ev("case-submitted", Plain(None)))
  <2>1. Plain(None) \in Bodies /\ "case-submitted" \in Phases
    BY DEF Bodies, Phases
  <2>2. /\ Has(events, "active") /\ Has(events, "prepared")
        /\ ~Has(events, "case-submitted") /\ ~Has(events, "outcome")
    BY <1>3, ReadsCurrent, HasPrepared DEF Has, Of, None, PhaseTells
  <2>3. Fits("case-submitted", Plain(None), events, claims)
    BY <2>2 DEF Fits
  <2> QED BY <1>1, <1>3, <2>1, <2>3, PublishStep
<1> QED BY <1>1, <1>2, <1>3, RefuseStep, KeepStep

(* The creator of the claim file knows that nobody dispatched before. *)
LEMMA ClaimKeeps ==
  ASSUME IInv, NEW o \in Operators, Claim(o)
  PROVE  IInv'
<1> DEFINE cl == Ev("dispatching", Plain(o))
<1>1. /\ lock = Nobody
      /\ UNCHANGED <<events, store, group, provider, verdict, runs, late, bearer, left>>
  BY DEF Claim, Unlocked
<1>2. \/ UNCHANGED <<claims, lock>> /\ Throws(o)
      \/ UNCHANGED <<claims, lock>> /\ Proceed(o, "claim", Current)
      \/ /\ Current.phase = "case-submitted" /\ claims' = claims \cup {cl} /\ lock' = o
         /\ Goto(o, "claimed")
  BY Zenon DEF Claim
<1>3. CASE UNCHANGED <<claims, lock>> /\ Throws(o)
  BY <1>1, <1>3, ThrowsStep DEF Rest
<1>4. CASE UNCHANGED <<claims, lock>> /\ Proceed(o, "claim", Current)
  BY <1>1, <1>4, KeepStep DEF Keep, Rest
<1>5. CASE /\ Current.phase = "case-submitted" /\ claims' = claims \cup {cl} /\ lock' = o
           /\ Goto(o, "claimed")
  <2>1. claims = {} /\ ~Has(events, "outcome") /\ Has(events, "case-submitted")
    BY <1>5, ReadsCurrent DEF PhaseTells, Has, Of, None
  <2>2. claims' = {cl} /\ Log(events, {cl})
    BY <1>5, <2>1, AddClaim DEF IInv
  <2>3. op[o] \in OpType /\ Knows(o) /\ "claimed" \in Pcs /\ op \in [Operators -> OpType]
    BY DEF IInv, Shape, KnowsInv, Pcs
  <2>4. PICK y : y = [op[o] EXCEPT !.pc = "claimed"]
    OBVIOUS
  <2>5. y \in OpType /\ y.pc = "claimed" /\ y.att = op[o].att /\ y.saw = op[o].saw
    BY <2>3, <2>4 DEF OpType
  <2>6. op' = [op EXCEPT ![o] = y]
    BY <1>5, <2>3, <2>4 DEF Goto
  <2>7. op' \in [Operators -> OpType] /\ op'[o] = y /\ \A q \in Operators \ {o} : op'[q] = op[q]
    BY <2>3, <2>5, <2>6
  <2>8. runs = 0 /\ runs' = 0
    BY <1>1, <2>1 DEF IInv, StoryInv
  <2>9. Shape' /\ StoryInv' /\ StoreInv'
    <3>1. Shape'
      BY <1>1, <1>5, <2>7 DEF IInv, Shape
    <3>2. StoryInv'
      BY <1>1, <2>2, <2>8 DEF IInv, StoryInv
    <3>3. StoreInv'
      BY <1>1 DEF IInv, StoreInv, Contains
    <3> QED BY <3>1, <3>2, <3>3
  <2> HIDE DEF cl
  <2>10. Knows(o)'
    BY <1>1, <1>5, <2>1, <2>2, <2>3, <2>5, <2>7, <2>8 DEF Knows, cl
  <2>11. \A q \in Operators \ {o} : Knows(q)'
    <3>1. \A q \in Operators : lock # q /\ claims # {Ev("dispatching", Plain(q))}
      BY <1>1, <2>1, QualificationAssumption
    <3> QED BY <1>1, <2>1, <2>2, <2>7, <3>1, OthersKnow
  <2> QED BY <1>1, <2>2, <2>9, <2>10, <2>11 DEF IInv, KnowsInv
<1> QED BY <1>2, <1>3, <1>4, <1>5

LEMMA PublishClaimKeeps ==
  ASSUME IInv, NEW o \in Operators, PublishClaim(o)
  PROVE  IInv'
<1> DEFINE cl == Ev("dispatching", Plain(o))
<1>0. /\ op[o].pc = "claimed" /\ events' = events \cup {cl} /\ lock' = Nobody
      /\ op' = [op EXCEPT ![o].pc = "run", ![o].att = cl]
      /\ UNCHANGED Rest
  BY DEF PublishClaim, At, Rest
<1>1. lock = o /\ claims = {cl} /\ runs = 0 /\ ~Has(events, "outcome") /\ Knows(o)
  BY <1>0 DEF IInv, KnowsInv, Knows
<1>2. Plain(o) \in Bodies /\ "dispatching" \in Phases /\ cl \in Attempts /\ cl.phase = "dispatching"
  BY DEF Bodies, Phases, Attempts, Ev
<1>3. Log(events', claims)
  <2>1. CASE Has(events, "dispatching")
    <3>1. cl \in events
      BY <1>1, <2>1 DEF IInv, Log, Has, Of
    <3>2. events' = events
      BY <1>0, <3>1
    <3> QED BY <3>2 DEF IInv
  <2>2. CASE ~Has(events, "dispatching")
    <3>1. Has(events, "prepared")
      BY <1>1 DEF IInv, Log, Has, Of
    <3>2. Fits("dispatching", Plain(o), events, claims)
      BY <1>1, <2>2, <3>1 DEF Fits
    <3> QED BY <1>0, <1>2, <3>2, AddEvent DEF IInv
  <2> QED BY <2>1, <2>2
<1> HIDE DEF cl
<1>4. op[o] \in OpType /\ "run" \in Pcs /\ op \in [Operators -> OpType]
  BY DEF IInv, Shape, Pcs
<1>5. PICK y : y = [op[o] EXCEPT !.pc = "run", !.att = cl]
  OBVIOUS
<1>6. y \in OpType /\ y.pc = "run" /\ y.att = cl /\ y.saw = op[o].saw
  BY <1>2, <1>4, <1>5 DEF OpType
<1>7. op' = [op EXCEPT ![o] = y]
  BY <1>0, <1>4, <1>5 DEF OpType
<1>8. op' \in [Operators -> OpType] /\ op'[o] = y /\ \A q \in Operators \ {o} : op'[q] = op[q]
  BY <1>4, <1>6, <1>7
<1>9. \A q : q # "dispatching" => (Has(events', q) <=> Has(events, q))
  BY <1>0, <1>2 DEF Has, Of
<1>10. Shape'
  BY <1>0, <1>8 DEF IInv, Shape, Rest
<1>11. StoryInv'
  <2>1. Of(events', "outcome") = Of(events, "outcome")
    BY <1>0, <1>2 DEF Of
  <2> QED BY <1>0, <1>9, <2>1 DEF IInv, StoryInv, Rest
<1>12. StoreInv'
  BY <1>0 DEF IInv, StoreInv, Contains, Rest
<1>13. Knows(o)'
  BY <1>0, <1>1, <1>6, <1>8 DEF Knows, Rest, cl
<1>14. \A q \in Operators \ {o} : Knows(q)'
  BY <1>0, <1>1, <1>8, OthersKnow DEF Rest
<1>15. Log(events, claims)'
  BY <1>0, <1>3 DEF Rest
<1> QED BY <1>10, <1>11, <1>12, <1>13, <1>14, <1>15 DEF IInv, KnowsInv

(* The owner of the claim is the only one who calls the provider. *)
LEMMA RunKeeps ==
  ASSUME IInv, NEW o \in Operators, Run(o)
  PROVE  IInv'
<1>0. /\ op[o].pc = "run" /\ runs' = runs + 1 /\ Goto(o, "ran")
      /\ provider' = IF Up /\ provider = "none" THEN "working" ELSE provider
      /\ UNCHANGED <<events, claims, lock, store, group, verdict, late, bearer, left>>
  BY DEF Run, At
<1>1. claims = {Ev("dispatching", Plain(o))} /\ runs = 0 /\ Knows(o)
  BY <1>0 DEF IInv, KnowsInv, Knows
<1>2. op[o] \in OpType /\ "ran" \in Pcs /\ op \in [Operators -> OpType] /\ "ran" \in Calm
  BY DEF IInv, Shape, Pcs, Calm
<1>3. PICK y : y = [op[o] EXCEPT !.pc = "ran"]
  OBVIOUS
<1>4. Modest(y, events, claims, provider)
  BY <1>2, <1>3, PcIsModest
<1>5. op' = [op EXCEPT ![o] = y]
  BY <1>0, <1>2, <1>3 DEF Goto
<1>6. op' \in [Operators -> OpType] /\ op'[o] = y /\ \A q \in Operators \ {o} : op'[q] = op[q]
  BY <1>2, <1>4, <1>5 DEF Modest
<1>7. /\ provider = "recorded" => provider' = "recorded"
      /\ provider' \in {"none", "working", "recorded", "lost"}
  BY <1>0 DEF IInv, Shape
<1>8. Shape' /\ StoryInv' /\ StoreInv'
  <2>1. Shape'
    BY <1>0, <1>6, <1>7 DEF IInv, Shape
  <2>2. StoryInv'
    BY <1>0, <1>1, <1>7 DEF IInv, StoryInv
  <2>3. StoreInv'
    BY <1>0, <1>7 DEF IInv, StoreInv, Contains
  <2> QED BY <2>1, <2>2, <2>3
<1>9. Knows(o)'
  <2>1. Modest(op'[o], events', claims', provider')
    BY <1>0, <1>4, <1>6, <1>7 DEF Modest
  <2> QED BY <2>1, ModestKnows DEF Modest
<1>10. \A q \in Operators \ {o} : Knows(q)'
  <2>1. \A q \in Operators \ {o} : op[q].pc \notin {"claimed", "run"}
    <3> SUFFICES ASSUME NEW q \in Operators, q # o, op[q].pc \in {"claimed", "run"} PROVE FALSE
      OBVIOUS
    <3>1. claims = {Ev("dispatching", Plain(q))}
      BY DEF IInv, KnowsInv, Knows
    <3>2. Ev("dispatching", Plain(q)) = Ev("dispatching", Plain(o))
      BY <1>1, <3>1
    <3>3. Ev("dispatching", Plain(q)).body.on = q /\ Ev("dispatching", Plain(o)).body.on = o
      BY DEF Ev, Plain
    <3> QED BY <3>2, <3>3
  <2> QED BY <1>0, <1>6, <1>7, <2>1, OthersKnow
<1>11. Log(events, claims)'
  BY <1>0 DEF IInv
<1> QED BY <1>8, <1>9, <1>10, <1>11 DEF IInv, KnowsInv

-----------------------------------------------------------------------------
(* After the dispatch *)

LEMMA ReadRunKeeps ==
  ASSUME IInv, NEW o \in Operators, ReadRun(o) \/ ReadWithoutBearer(o)
  PROVE  IInv'
<1>1. /\ op[o].pc \in {"ran", "readback"}
      /\ UNCHANGED <<events, lock, Rest>>
  BY DEF ReadRun, ReadWithoutBearer, At, Rest
<1>2. PICK saw \in Seen, pc \in {"ran-settle", "settle"} :
        /\ saw \in {"recorded", "unread"} => provider = "recorded"
        /\ op' = [op EXCEPT ![o].saw = saw, ![o].pc = pc]
  <2>1. CASE ReadRun(o)
    BY <2>1 DEF ReadRun, Seen, Reasons
  <2>2. CASE ReadWithoutBearer(o)
    BY <2>2 DEF ReadWithoutBearer, Seen, Reasons
  <2> QED BY <2>1, <2>2
<1>3. op[o] \in OpType /\ Knows(o) /\ op \in [Operators -> OpType] /\ pc \in Pcs
  BY <1>2 DEF IInv, Shape, KnowsInv, Pcs
<1>4. PICK y : y = [op[o] EXCEPT !.saw = saw, !.pc = pc]
  OBVIOUS
<1>5. y \in OpType /\ y.saw = saw /\ y.pc = pc /\ y.att = op[o].att
  BY <1>2, <1>3, <1>4 DEF OpType
<1>6. op' = [op EXCEPT ![o] = y]
  BY <1>2, <1>3, <1>4 DEF OpType
<1>7. Modest(y, events, claims, provider)
  BY <1>2, <1>3, <1>5 DEF Modest, Knows
<1>8. late' \in BOOLEAN /\ bearer' \in BOOLEAN /\ left' \in Setting
  BY <1>1 DEF IInv, Shape, Rest
<1> QED BY <1>1, <1>6, <1>7, <1>8, QuietStep DEF Rest

LEMMA MarkRecordedKeeps ==
  ASSUME IInv, NEW o \in Operators, NEW stage \in {"claim", "readback"}, MarkRecorded(o, stage),
         op[o].saw = "recorded", lock = Nobody, UNCHANGED <<lock, Rest>>
  PROVE  IInv'
<1>1. \/ Refuse(o) \/ Keep(o, stage)
      \/ Current.phase \in InFlight /\ Publish(o, stage, Ev("recorded", Plain(None)))
  BY Zenon DEF MarkRecorded
<1>2. CASE Current.phase \in InFlight /\ Publish(o, stage, Ev("recorded", Plain(None)))
  <2>1. Plain(None) \in Bodies /\ "recorded" \in Phases
    BY DEF Bodies, Phases
  <2>2. /\ Has(events, "prepared") /\ claims # {}
        /\ ~Has(events, "recorded") /\ ~Has(events, "outcome")
    BY <1>2, ReadsCurrent, HasPrepared DEF None, PhaseTells, InFlight
  <2>3. Fits("recorded", Plain(None), events, claims)
    BY <2>2 DEF Fits
  <2>4. provider = "recorded"
    BY DEF IInv, KnowsInv, Knows
  <2> QED BY <1>2, <2>1, <2>3, <2>4, PublishStep
<1> QED BY <1>1, <1>2, RefuseStep, KeepStep

(* A quarantine that was not there yet. *)
LEMMA QuarantineKeeps ==
  ASSUME IInv, NEW o \in Operators, NEW stage \in {"claim", "readback"}, NEW r \in Reasons,
         Current.phase = "dispatching", Publish(o, stage, Ev("quarantined", Plain(r))),
         lock = Nobody, UNCHANGED <<lock, Rest>>
  PROVE  IInv'
<1>1. Plain(r) \in Bodies /\ "quarantined" \in Phases
  BY DEF Bodies, Phases
<1>2. Has(events, "prepared") /\ claims # {} /\ ~Has(events, "quarantined")
  BY ReadsCurrent, HasPrepared DEF None, PhaseTells, InFlight
<1>3. Fits("quarantined", Plain(r), events, claims)
  BY <1>2 DEF Fits
<1> QED BY <1>1, <1>3, PublishStep

LEMMA MarkQuarantinedKeeps ==
  ASSUME IInv, NEW o \in Operators, NEW stage \in {"claim", "readback"}, MarkQuarantined(o, stage),
         op[o].saw \in Reasons, lock = Nobody, UNCHANGED <<lock, Rest>>
  PROVE  IInv'
<1>1. \/ Refuse(o) \/ Keep(o, stage)
      \/ UNCHANGED events /\ Proceed(o, stage, op[o].att)
      \/ Current.phase = "dispatching" /\ Publish(o, stage, Ev("quarantined", Plain(op[o].saw)))
  BY Zenon DEF MarkQuarantined
<1>2. CASE UNCHANGED events /\ Proceed(o, stage, op[o].att)
  <2>1. PICK a : a = op[o].att
    OBVIOUS
  <2>2. a \in Attempts /\ a \in events \cup claims \cup {Nothing} /\ left' \in Setting
    BY <2>1 DEF IInv, Shape, KnowsInv, Knows, OpType, Rest
  <2>3. Proceed(o, stage, a)
    BY <1>2, <2>1
  <2> QED BY <1>2, <2>2, <2>3, GoesOn DEF Rest
<1>3. CASE Current.phase = "dispatching" /\ Publish(o, stage, Ev("quarantined", Plain(op[o].saw)))
  BY <1>3, QuarantineKeeps
<1> QED BY <1>1, <1>2, <1>3, RefuseStep, KeepStep

LEMMA MarkUnreadKeeps ==
  ASSUME IInv, NEW o \in Operators, NEW stage \in {"claim", "readback"}, MarkUnread(o, stage),
         lock = Nobody, UNCHANGED <<lock, Rest>>
  PROVE  IInv'
<1>1. \/ Refuse(o) \/ Keep(o, stage)
      \/ Current.phase = "dispatching" /\ Publish(o, stage, Ev("quarantined", Plain("malformed")))
  BY Zenon DEF MarkUnread
<1>2. "malformed" \in Reasons
  BY DEF Reasons
<1> QED BY <1>1, <1>2, QuarantineKeeps, RefuseStep, KeepStep

LEMMA SettleKeeps ==
  ASSUME IInv, NEW o \in Operators, Settle(o)
  PROVE  IInv'
<1>1. /\ UNCHANGED <<lock, Rest>> /\ lock = Nobody
      /\ op[o].pc \in {"settle", "ran-settle"}
  BY DEF Settle, Rest, Unlocked, At
<1>2. PICK stage \in {"claim", "readback"} :
        \/ op[o].saw = "recorded" /\ MarkRecorded(o, stage)
        \/ op[o].saw = "unread" /\ MarkUnread(o, stage)
        \/ op[o].saw \notin {"recorded", "unread"} /\ MarkQuarantined(o, stage)
  <2>1. PICK stage : stage = IF At(o, "ran-settle") THEN "claim" ELSE "readback"
    OBVIOUS
  <2>2. (CASE op[o].saw = "recorded" -> MarkRecorded(o, stage)
           [] op[o].saw = "unread" -> MarkUnread(o, stage)
           [] OTHER -> MarkQuarantined(o, stage))
    BY <2>1, Zenon DEF Settle
  <2>3. \/ op[o].saw = "recorded" /\ MarkRecorded(o, stage)
        \/ op[o].saw = "unread" /\ MarkUnread(o, stage)
        \/ op[o].saw \notin {"recorded", "unread"} /\ MarkQuarantined(o, stage)
    BY <2>2, Zenon
  <2> QED BY <2>1, <2>3
<1>3. op[o].saw \in Seen
  BY <1>1 DEF IInv, KnowsInv, Knows
<1>4. op[o].saw \notin {"recorded", "unread"} => op[o].saw \in Reasons
  BY <1>3 DEF Seen
<1> QED BY <1>1, <1>2, <1>4, MarkRecordedKeeps, MarkUnreadKeeps, MarkQuarantinedKeeps

LEMMA JudgeKeeps ==
  ASSUME IInv, NEW o \in Operators, Judge(o)
  PROVE  IInv'
<1>1. UNCHANGED <<lock, Rest>> /\ lock = Nobody
  BY DEF Judge, Rest, Unlocked
<1>2. PICK b : b = [status |-> verdict, basis |-> "recorded", on |-> "recorded"]
  OBVIOUS
<1>3. \/ Refuse(o) \/ Keep(o, "judge")
      \/ Current.phase = "recorded" /\ Publish(o, "judge", Ev("outcome", b))
  BY <1>2, Zenon DEF Judge
<1>4. CASE Current.phase = "recorded" /\ Publish(o, "judge", Ev("outcome", b))
  <2>1. verdict \in {"qualified", "failed"}
    BY DEF IInv, Shape
  <2>2. /\ b \in Outcomes /\ b \in Bodies /\ "outcome" \in Phases
        /\ b.status = verdict /\ b.basis = "recorded"
    BY <1>2, <2>1 DEF Outcomes, Bodies, Phases
  <2>3. Has(events, "recorded") /\ Has(events, "prepared") /\ claims # {} /\ ~Has(events, "outcome")
    BY <1>4, ReadsCurrent, HasPrepared DEF Has, Of, None, PhaseTells
  <2>4. Has(events, "active")
    BY <2>3 DEF IInv, Log
  <2>5. Fits("outcome", b, events, claims)
    BY <2>2, <2>3, <2>4 DEF Fits, Founded
  <2> QED BY <1>1, <1>4, <2>2, <2>5, PublishStep
<1> QED BY <1>1, <1>3, <1>4, RefuseStep, KeepStep

(* A fault is spent only when one is left. *)
LEMMA SpendStep ==
  ASSUME IInv, left' = left \/ (left.faults > 0 /\ SpendFault)
  PROVE  left' \in Setting
BY DEF IInv, Shape, SpendFault, Setting

LEMMA JudgeFailsKeeps ==
  ASSUME IInv, NEW o \in Operators, JudgeFails(o)
  PROVE  IInv'
<1>1. left' \in Setting
  <2>1. left' = left \/ (left.faults > 0 /\ SpendFault)
    BY DEF JudgeFails
  <2> QED BY <2>1, SpendStep
<1>2. PICK a : a = op[o].att
  OBVIOUS
<1>3. a \in Attempts /\ a \in events \cup claims \cup {Nothing}
  BY <1>2 DEF IInv, Shape, KnowsInv, Knows, OpType
<1>4. Proceed(o, "judge", a)
  BY <1>2 DEF JudgeFails
<1> QED BY <1>1, <1>3, <1>4, GoesOn DEF JudgeFails

(* The first file of the seal: from now on the lock keeps the log as it is. *)
LEMMA SealingKeeps ==
  ASSUME IInv, NEW o \in Operators, lock = Nobody, Current.phase \in InFlight,
         events' = events \cup
           (IF Current.phase = "quarantined" THEN {} ELSE {Ev("quarantined", Plain("absent"))}),
         lock' = o, Goto(o, "sealing"), UNCHANGED Rest
  PROVE  IInv'
<1>1. /\ Has(events, "prepared") /\ claims # {} /\ ~Has(events, "outcome") /\ ~Has(events, "recorded")
      /\ Current.phase = "dispatching" => ~Has(events, "quarantined")
      /\ Current.phase = "quarantined" => Has(events, "quarantined")
  BY ReadsCurrent, HasPrepared DEF None, PhaseTells, InFlight, Has, Of
<1>2. /\ Log(events', claims) /\ Has(events', "quarantined") /\ events \subseteq events'
      /\ \A p : p # "quarantined" => Of(events', p) = Of(events, p)
  <2>1. CASE Current.phase = "quarantined"
    BY <1>1, <2>1 DEF IInv
  <2>2. CASE Current.phase = "dispatching"
    <3>1. events' = events \cup {Ev("quarantined", Plain("absent"))}
      BY <2>2
    <3>2. Plain("absent") \in Bodies /\ "quarantined" \in Phases /\ "absent" \in Reasons
      BY DEF Bodies, Phases, Reasons
    <3>3. Fits("quarantined", Plain("absent"), events, claims)
      BY <1>1, <2>2, <3>2 DEF Fits
    <3>4. Log(events', claims)
      BY <3>1, <3>2, <3>3, AddEvent DEF IInv
    <3>0. PICK ev : ev = Ev("quarantined", Plain("absent"))
      OBVIOUS
    <3>5. events' = events \cup {ev} /\ ev.phase = "quarantined"
      BY <3>0, <3>1 DEF Ev
    <3>6. Has(events', "quarantined")
      BY <3>5 DEF Has, Of
    <3>7. \A p : p # "quarantined" => Of(events', p) = Of(events, p)
      BY <3>5 DEF Of
    <3> QED BY <3>4, <3>5, <3>6, <3>7
  <2> QED BY <2>1, <2>2 DEF InFlight
<1>3. \A p : p # "quarantined" => (Has(events', p) <=> Has(events, p))
  BY <1>2 DEF Has
<1>4. op[o] \in OpType /\ Knows(o) /\ op \in [Operators -> OpType] /\ "sealing" \in Pcs
  BY DEF IInv, Shape, KnowsInv, Pcs
<1>5. PICK y : y = [op[o] EXCEPT !.pc = "sealing"]
  OBVIOUS
<1>6. y \in OpType /\ y.pc = "sealing" /\ y.att = op[o].att /\ y.saw = op[o].saw
  BY <1>4, <1>5 DEF OpType
<1>7. op' = [op EXCEPT ![o] = y]
  BY <1>4, <1>5 DEF Goto
<1>8. op' \in [Operators -> OpType] /\ op'[o] = y /\ \A q \in Operators \ {o} : op'[q] = op[q]
  BY <1>4, <1>6, <1>7
<1>9. Shape'
  BY <1>8 DEF IInv, Shape, Rest
<1>10. StoryInv'
  BY <1>2, <1>3 DEF IInv, StoryInv, Rest
<1>11. StoreInv'
  BY DEF IInv, StoreInv, Contains, Rest
<1>12. Knows(o)'
  BY <1>1, <1>2, <1>3, <1>4, <1>6, <1>8 DEF Knows, Rest
<1>13. \A q \in Operators \ {o} : Knows(q)'
  <2>1. \A q \in Operators : lock # q
    BY QualificationAssumption
  <2> QED BY <1>2, <1>8, <2>1, OthersKnow DEF Rest
<1>14. Log(events, claims)'
  BY <1>2 DEF Rest
<1> QED BY <1>9, <1>10, <1>11, <1>12, <1>13, <1>14 DEF IInv, KnowsInv

LEMMA SealKeeps ==
  ASSUME IInv, NEW o \in Operators, Seal(o)
  PROVE  IInv'
<1>1. UNCHANGED Rest /\ lock = Nobody
  BY DEF Seal, Rest, Unlocked
<1>2. \/ UNCHANGED <<events, lock>> /\ Throws(o)
      \/ Keep(o, "seal") /\ UNCHANGED lock
      \/ Refuse(o) /\ UNCHANGED lock
      \/ /\ Current.phase \in InFlight
         /\ events' = events \cup
              (IF Current.phase = "quarantined" THEN {} ELSE {Ev("quarantined", Plain("absent"))})
         /\ lock' = o /\ Goto(o, "sealing")
  BY Zenon DEF Seal
<1> QED BY <1>1, <1>2, ThrowsStep, KeepStep, RefuseStep, SealingKeeps

(* The second file, on the quarantine that the first one made or found. *)
LEMMA SealOutcomeKeeps ==
  ASSUME IInv, NEW o \in Operators, SealOutcome(o)
  PROVE  IInv'
<1>1. UNCHANGED Rest /\ lock' = Nobody /\ op[o].pc = "sealing"
  BY DEF SealOutcome, Rest, At
<1>2. /\ lock = o /\ ~Has(events, "outcome") /\ ~Has(events, "recorded")
      /\ Has(events, "quarantined")
  BY <1>1 DEF IInv, KnowsInv, Knows
<1>3. PICK e \in events : e.phase = "quarantined"
  BY <1>2 DEF Has, Of
<1>4. PICK r \in Reasons : e.body = Plain(r)
  BY <1>3 DEF IInv, Log
<1>5. e = Ev("quarantined", Plain(r))
  BY <1>3, <1>4 DEF IInv, Log, Ev
<1>6. BodyOf(events, "quarantined") = Plain(r)
  <2>1. \A f \in events : f.phase = e.phase => f = e
    BY <1>3 DEF IInv, Log
  <2> QED BY <1>3, <1>4, <2>1, BodyIs
<1>7. PICK b : b = [status |-> "unavailable", basis |-> "quarantined", on |-> r]
  OBVIOUS
<1>8. Publish(o, "seal", Ev("outcome", b))
  BY <1>6, <1>7 DEF SealOutcome, Plain
<1>9. /\ b \in Outcomes /\ b \in Bodies /\ "outcome" \in Phases
      /\ b.status = "unavailable" /\ b.basis = "quarantined" /\ b.on = r
  BY <1>7 DEF Outcomes, Bodies, Phases
<1>10. claims # {} /\ Has(events, "active") /\ Has(events, "prepared")
  BY <1>2 DEF IInv, Log, Has, Of
<1>11. Founded(b, events, claims)
  BY <1>2, <1>3, <1>5, <1>9 DEF Founded
<1>12. Fits("outcome", b, events, claims)
  BY <1>2, <1>9, <1>10, <1>11 DEF Fits
<1> QED BY <1>1, <1>2, <1>8, <1>9, <1>12, PublishStep

-----------------------------------------------------------------------------
(* Stop and attestation *)

LEMMA ReleaseKeeps ==
  ASSUME IInv, NEW o \in Operators, Release(o)
  PROVE  IInv'
<1>0. UNCHANGED <<events, claims, lock, store, verdict, runs, late, bearer, left>>
  BY DEF Release
<1>1. CASE UNCHANGED <<group, provider>> /\ Throws(o)
  BY <1>0, <1>1, ThrowsStep DEF Rest
<1>2. CASE /\ group' = "stopped" /\ Goto(o, "mark-stopped")
           /\ provider' = IF provider = "working" THEN "lost" ELSE provider
  <2>1. op[o] \in OpType /\ Knows(o) /\ op \in [Operators -> OpType] /\ "mark-stopped" \in Pcs
    BY DEF IInv, Shape, KnowsInv, Pcs
  <2>2. PICK y : y = [op[o] EXCEPT !.pc = "mark-stopped"]
    OBVIOUS
  <2>3. y \in OpType /\ y.pc = "mark-stopped" /\ y.att = op[o].att /\ y.saw = op[o].saw
    BY <2>1, <2>2 DEF OpType
  <2>4. op' = [op EXCEPT ![o] = y]
    BY <1>2, <2>1, <2>2 DEF Goto
  <2>5. op' \in [Operators -> OpType] /\ op'[o] = y /\ \A q \in Operators \ {o} : op'[q] = op[q]
    BY <2>1, <2>3, <2>4
  <2>6. /\ provider' \in {"none", "working", "recorded", "lost"}
        /\ provider = "recorded" => provider' = "recorded"
        /\ group' \in {"idle", "running", "failed", "stopped", "session", "later"}
        /\ group' \in Released
    BY <1>2 DEF IInv, Shape, Released
  <2>7. Knows(o)'
    BY <1>0, <2>1, <2>3, <2>5, <2>6 DEF Knows
  <2>8. late' \in BOOLEAN /\ bearer' \in BOOLEAN /\ left' \in Setting
    BY <1>0 DEF IInv, Shape
  <2>9. Operators \ (Operators \ {o}) = {o} /\ Operators \ {o} \in SUBSET Operators
    OBVIOUS
  <2> QED BY <1>0, <2>5, <2>6, <2>7, <2>8, <2>9, WorldStep
<1> QED BY <1>1, <1>2 DEF Release

LEMMA MarkStoppedKeeps ==
  ASSUME IInv, NEW o \in Operators, MarkStopped(o)
  PROVE  IInv'
<1>1. UNCHANGED <<lock, Rest>> /\ lock = Nobody /\ op[o].pc = "mark-stopped"
  BY DEF MarkStopped, Rest, Unlocked, At
<1>2. CASE Refuse(o)
  BY <1>1, <1>2, RefuseStep
<1>3. CASE Current.phase = "outcome" /\ Publish(o, "release", Ev("stopped", Current.body))
  <2>1. PICK b : b = Current.body
    OBVIOUS
  <2>2. /\ Current \in events /\ Current.phase = "outcome" /\ Has(events, "prepared")
        /\ ~Has(events, "stopped")
    BY <1>3, ReadsCurrent, HasPrepared DEF None, PhaseTells
  <2>3. b \in Bodies /\ "stopped" \in Phases /\ Ev("outcome", b) \in events
    BY <2>1, <2>2 DEF IInv, Log, Ev, Phases
  <2>4. Fits("stopped", b, events, claims)
    BY <2>2, <2>3 DEF Fits
  <2>5. group \in Released
    BY <1>1 DEF IInv, KnowsInv, Knows
  <2> QED BY <1>1, <1>3, <2>1, <2>3, <2>4, <2>5, PublishStep
<1> QED BY <1>2, <1>3 DEF MarkStopped

(* A log that says stopped and qualified tells what the provider did. *)
LEMMA StoppedQualified ==
  ASSUME IInv, NEW a \in events, a.phase = "stopped", a.body.status = "qualified"
  PROVE  provider = "recorded" /\ verdict = "qualified"
<1>1. PICK e : e = Ev("outcome", a.body)
  OBVIOUS
<1>2. e \in events /\ e.phase = "outcome" /\ e.body = a.body
  BY <1>1 DEF IInv, Log, Ev
<1>3. e.body.basis = "recorded" /\ verdict = "qualified"
  BY <1>2 DEF IInv, StoryInv, Of
<1>4. Has(events, "recorded")
  BY <1>2, <1>3 DEF IInv, Log, Founded
<1> QED BY <1>3, <1>4 DEF IInv, StoryInv

LEMMA AttestKeeps ==
  ASSUME IInv, NEW o \in Operators, Attest(o)
  PROVE  IInv'
<1>0. /\ UNCHANGED <<events, claims, lock, group, provider, verdict, runs, late, bearer, left>>
      /\ op[o].pc = "append"
  BY DEF Attest, At
<1>1. CASE UNCHANGED store /\ Throws(o)
  BY <1>0, <1>1, ThrowsStep DEF Rest
<1>2. CASE /\ group \in {"stopped", "later"} /\ (Revoked => Contains(store, "qualified"))
           /\ store' = IF Contains(store, "qualified") THEN store ELSE Append(store, "qualified")
           /\ Goto(o, "mark-attested")
  <2>1. "mark-attested" \in Calm /\ op \in [Operators -> OpType] /\ store \in Seq({"qualified", "revoked"})
    BY DEF Calm, Pcs, IInv, Shape
  <2>2. CASE Contains(store, "qualified")
    BY <1>0, <1>2, <2>1, <2>2, GotoStep DEF Rest
  <2>3. CASE ~Contains(store, "qualified")
    <3>1. store' = Append(store, "qualified") /\ \A i \in 1..Len(store) : store[i] # "revoked"
      BY <1>2, <2>3 DEF Revoked, Contains
    <3>2. /\ store' \in Seq({"qualified", "revoked"}) /\ Len(store') = Len(store) + 1
          /\ \A i \in 1..Len(store) : store'[i] = store[i]
          /\ Len(store) \in Nat
      BY <2>1, <3>1
    <3>3. \A i \in 1..Len(store') : \A j \in 1..(i - 1) : store'[j] # "revoked"
      BY <3>1, <3>2
    <3>4. provider = "recorded" /\ verdict = "qualified"
      <4>1. PICK a : a = op[o].att
        OBVIOUS
      <4>2. /\ a \in events \cup claims \cup {Nothing}
            /\ a.phase = "stopped" /\ a.body.status = "qualified"
        BY <1>0, <4>1 DEF IInv, KnowsInv, Knows
      <4>3. a \in events
        BY <4>2 DEF IInv, Log, Ev, Nothing, None
      <4> QED BY <4>2, <4>3, StoppedQualified
    <3>5. StoreInv'
      BY <1>0, <1>2, <3>3, <3>4 DEF StoreInv, Released
    <3>6. PICK y : Modest(y, events, claims, provider) /\ op' = [op EXCEPT ![o] = y]
      BY <1>2, <2>1, PcIsModest DEF Goto
    <3>7. op' \in [Operators -> OpType] /\ op'[o] = y /\ \A q \in Operators \ {o} : op'[q] = op[q]
      BY <2>1, <3>6 DEF Modest
    <3>8. Shape' /\ StoryInv' /\ Log(events, claims)'
      BY <1>0, <3>2, <3>7 DEF IInv, Shape, StoryInv
    <3>9. Knows(o)'
      <4>1. Modest(op'[o], events', claims', provider')
        BY <1>0, <3>6, <3>7
      <4> QED BY <4>1, ModestKnows DEF Modest
    <3>10. \A q \in Operators \ {o} : Knows(q)'
      BY <1>0, <3>7, OthersKnow
    <3> QED BY <3>5, <3>8, <3>9, <3>10 DEF IInv, KnowsInv
  <2> QED BY <2>2, <2>3
<1> QED BY <1>1, <1>2 DEF Attest, IInv, Shape

LEMMA MarkAttestedKeeps ==
  ASSUME IInv, NEW o \in Operators, MarkAttested(o)
  PROVE  IInv'
<1>1. UNCHANGED <<lock, Rest>> /\ lock = Nobody /\ Throws(o)
  BY DEF MarkAttested, Rest, Unlocked
<1>2. CASE UNCHANGED events
  BY <1>1, <1>2, ThrowsStep
<1>3. CASE /\ Current.phase = "stopped" /\ Current.body.status = "qualified"
           /\ events' = events \cup {Ev("attested", Current.body)}
  <2>1. PICK b : b = Current.body
    OBVIOUS
  <2>2. Current \in events /\ Has(events, "prepared") /\ ~Has(events, "attested")
    BY <1>3, ReadsCurrent, HasPrepared DEF None, PhaseTells
  <2>3. b \in Bodies /\ "attested" \in Phases /\ Ev("stopped", b) \in events
    BY <1>3, <2>1, <2>2 DEF IInv, Log, Ev, Phases
  <2>4. Fits("attested", b, events, claims)
    BY <1>3, <2>1, <2>2, <2>3 DEF Fits
  <2>5. Modest(Idle, events', claims, provider) /\ op' = [op EXCEPT ![o] = Idle]
    BY <1>1, IdleIsModest DEF Throws
  <2> QED BY <1>1, <1>3, <2>1, <2>3, <2>4, <2>5, EventStep
<1> QED BY <1>2, <1>3 DEF MarkAttested

-----------------------------------------------------------------------------
(* The surroundings *)

LEMMA CrashKeeps ==
  ASSUME IInv, NEW o \in Operators, Crash(o)
  PROVE  IInv'
<1>1. left' \in Setting
  BY SpendStep DEF Crash
<1>2. /\ UNCHANGED <<events, claims, store, group, provider, verdict, runs, late, bearer>>
      /\ lock' = lock \/ (lock = o /\ lock' = Nobody)
  BY DEF Crash
<1>3. late' \in BOOLEAN /\ bearer' \in BOOLEAN
  BY <1>2 DEF IInv, Shape
<1> QED BY <1>1, <1>2, <1>3, IdleIsModest, QuietStep DEF Crash, Throws

LEMMA SurroundingsKeep ==
  ASSUME IInv, ProviderRecords \/ DeadlinePasses \/ LoseBearer \/ RestoreBearer \/ Session
  PROVE  IInv'
<1>1. UNCHANGED <<events, claims, lock, store, verdict, runs, op>>
  BY DEF ProviderRecords, DeadlinePasses, LoseBearer, RestoreBearer, Session
<1>2. /\ group' \in {"idle", "running", "failed", "stopped", "session", "later"}
      /\ group \in Released => group' \in Released
      /\ provider' \in {"none", "working", "recorded", "lost"}
      /\ provider = "recorded" => provider' = "recorded"
  BY DEF ProviderRecords, DeadlinePasses, LoseBearer, RestoreBearer, Session, IInv, Shape, Released
<1>3. late' \in BOOLEAN /\ bearer' \in BOOLEAN
  BY DEF ProviderRecords, DeadlinePasses, LoseBearer, RestoreBearer, Session, IInv, Shape
<1>4. left' \in Setting
  <2>1. left' = left \/ (left.faults > 0 /\ SpendFault)
    BY DEF ProviderRecords, DeadlinePasses, LoseBearer, RestoreBearer, Session
  <2> QED BY <2>1, SpendStep
<1>5. Operators \in SUBSET Operators /\ Operators \ Operators = {} /\ op' \in [Operators -> OpType]
  BY <1>1 DEF IInv, Shape
<1> QED BY <1>1, <1>2, <1>3, <1>4, <1>5, WorldStep

LEMMA RevokeKeeps ==
  ASSUME IInv, Revoke
  PROVE  IInv'
<1>1. /\ store' = Append(store, "revoked")
      /\ UNCHANGED <<events, claims, lock, group, provider, verdict, runs, late, bearer, op, left>>
  BY DEF Revoke
<1>2. /\ store \in Seq({"qualified", "revoked"})
      /\ store' \in Seq({"qualified", "revoked"}) /\ Len(store') = Len(store) + 1
      /\ \A i \in 1..Len(store) : store'[i] = store[i]
      /\ store'[Len(store) + 1] = "revoked" /\ Len(store) \in Nat
  BY <1>1 DEF IInv, Shape
<1>3. ASSUME NEW i \in 1..Len(store'), store'[i] = "qualified"
      PROVE  i \in 1..Len(store) /\ store[i] = "qualified"
  BY <1>2, <1>3
<1>4. StoreInv'
  BY <1>1, <1>2, <1>3 DEF IInv, StoreInv, Contains
<1>5. Shape' /\ StoryInv' /\ Log(events, claims)'
  BY <1>1, <1>2 DEF IInv, Shape, StoryInv
<1>6. \A q \in Operators : Knows(q)'
  BY <1>1, OthersKnow
<1> QED BY <1>4, <1>5, <1>6 DEF IInv, KnowsInv

LEMMA InitOK == Init => IInv
<1> SUFFICES ASSUME Init PROVE IInv
  OBVIOUS
<1>1. Modest(Idle, events, claims, provider)
  BY IdleIsModest
<1>2. \A o \in Operators : op[o] = Idle
  BY DEF Init
<1>3. op \in [Operators -> OpType]
  BY <1>1 DEF Init, Modest
<1>4. verdict \in {"qualified", "failed"} /\ left \in Setting
  BY QualificationAssumption DEF Init, Setting
<1>5. store = <<>> /\ store \in Seq({"qualified", "revoked"}) /\ Len(store) = 0
  BY DEF Init
<1>6. Shape
  BY <1>3, <1>4, <1>5 DEF Init, Shape
<1>7. Log(events, claims)
  BY DEF Init, Log, Has, Of
<1>8. StoryInv
  BY DEF Init, StoryInv, Has, Of
<1>9. StoreInv
  BY <1>5 DEF StoreInv, Contains
<1>10. KnowsInv
  BY <1>1, <1>2 DEF KnowsInv, Knows, Modest
<1> QED BY <1>6, <1>7, <1>8, <1>9, <1>10 DEF IInv

LEMMA StepOK == IInv /\ [Next]_vars => IInv'
<1> SUFFICES ASSUME IInv, [Next]_vars PROVE IInv'
  OBVIOUS
<1>1. CASE UNCHANGED vars
  <2>1. Shape' /\ StoryInv' /\ Log(events, claims)' /\ StoreInv'
    BY <1>1 DEF vars, IInv, Shape, StoryInv, StoreInv, Contains
  <2>2. \A q \in Operators : Knows(q)'
    BY <1>1, OthersKnow DEF vars
  <2> QED BY <2>1, <2>2 DEF IInv, KnowsInv
<1>2. ASSUME NEW o \in Operators, Step(o) PROVE IInv'
  BY <1>2, LookKeeps, CheckKeeps, ActivateKeeps, PrepareKeeps, StartKeeps, MarkActiveKeeps, TipKeeps,
     WithdrawKeeps, NoBearerKeeps, SubmitKeeps, ClaimKeeps, PublishClaimKeeps, RunKeeps,
     ReadRunKeeps, SettleKeeps, JudgeKeeps, JudgeFailsKeeps, SealKeeps, SealOutcomeKeeps,
     ReleaseKeeps, MarkStoppedKeeps, AttestKeeps, MarkAttestedKeeps
  DEF Step
<1>3. ASSUME NEW o \in Operators, Apply(o) \/ Recover(o) \/ Crash(o) PROVE IInv'
  BY <1>3, ApplyKeeps, CrashKeeps
<1> QED BY <1>1, <1>2, <1>3, SurroundingsKeep, RevokeKeeps DEF Next

(* The inductive invariant: log, story, attestations and what operators know. *)
THEOREM QualificationInvariant == Spec => []IInv
BY InitOK, StepOK, PTL DEF Spec

(* The log, the provider, the group and the attestations agree, whoever    *)
(* applies and recovers, crashes and comes back: the provider runs the     *)
(* case at most once, the log can be read, a qualification is earned and a *)
(* stopped attempt has let go of the group.                                *)
THEOREM AttemptStaysSound == Spec => []AttemptIsSound
<1>1. IInv => AttemptIsSound
  <2> SUFFICES ASSUME IInv PROVE AttemptIsSound
    OBVIOUS
  <2>1. TypeOK
    <3>1. events \subseteq [phase : Phases, body : Bodies]
      BY DEF IInv, Log
    <3>2. claims \subseteq [phase : {"dispatching"}, body : {Plain(o) : o \in Operators}]
      BY DEF IInv, Log, Ev
    <3>3. \A o \in Operators :
            /\ op[o].att \in Attempts
            /\ op[o].apply \in BOOLEAN /\ op[o].dispatch \in BOOLEAN /\ op[o].revoked \in BOOLEAN
      BY DEF IInv, Shape, OpType
    <3> QED BY <3>1, <3>2, <3>3 DEF TypeOK, IInv, Shape
  <2>2. DispatchedOnce /\ StoppedMeansReleased
    BY DEF IInv, StoryInv, DispatchedOnce, StoppedMeansReleased, Released
  <2>3. WalReadable
    BY ReadsCurrent DEF WalReadable
  <2>4. QualifiedIsEarned
    BY DEF IInv, StoreInv, QualifiedIsEarned, Contains, Released
  <2> QED BY <2>1, <2>2, <2>3, <2>4 DEF AttemptIsSound
<1> QED BY <1>1, QualificationInvariant, PTL

(* A log with an outcome reads as settled. *)
LEMMA OutcomeSettles ==
  ASSUME IInv, Has(events, "outcome")
  PROVE  Current.phase \in Settled
<1>1. events # {}
  BY DEF Has, Of
<1> QED BY <1>1, ReadsCurrent DEF PhaseTells, Phases, InFlight, Settled, None

(* What a step may add to a log with an outcome. *)
Afterword(ev) == ev.phase \in {"stopped", "attested"} /\ Ev("outcome", ev.body) \in events

LEMMA OnlyAfterwords ==
  ASSUME IInv, NEW o \in Operators, Step(o), Has(events, "outcome")
  PROVE  \/ events' = events
         \/ \E ev \in [phase : {"stopped", "attested"}, body : Bodies] :
              events' = events \cup {ev} /\ Afterword(ev)
<1>0. Current.phase \in Settled
  BY OutcomeSettles
<1>1. /\ Current.phase \notin InFlight
      /\ Current.phase \notin {None, "prepared", "active", "case-submitted", "recorded", "dispatching"}
      /\ op[o].pc \notin {"claimed", "sealing"}
  BY <1>0 DEF Settled, InFlight, None, IInv, KnowsInv, Knows
<1>2. CASE \/ Look(o) \/ Check(o) \/ Activate(o) \/ Start(o) \/ Tip(o) \/ NoBearer(o) \/ Claim(o)
           \/ Run(o) \/ ReadRun(o) \/ ReadWithoutBearer(o) \/ JudgeFails(o) \/ Release(o) \/ Attest(o)
  BY <1>2 DEF Look, Check, Activate, Start, Tip, NoBearer, Claim, Run, ReadRun, ReadWithoutBearer,
     JudgeFails, Release, Attest
<1>3. CASE Prepare(o) \/ Withdraw(o)
  BY <1>1, <1>3 DEF Prepare, Withdraw, Refuse
<1>4. CASE PublishClaim(o) \/ SealOutcome(o)
  BY <1>1, <1>4 DEF PublishClaim, SealOutcome, At
<1>5. CASE MarkActive(o)
  <2>1. Refuse(o) \/ UNCHANGED events
    BY <1>1, <1>5, Zenon DEF MarkActive
  <2> QED BY <2>1 DEF Refuse
<1>6. CASE Submit(o)
  <2>1. Refuse(o) \/ Keep(o, "submit")
    BY <1>1, <1>6, Zenon DEF Submit
  <2> QED BY <2>1 DEF Refuse, Keep
<1>7. CASE Judge(o)
  <2>1. Refuse(o) \/ Keep(o, "judge")
    BY <1>1, <1>7, Zenon DEF Judge
  <2> QED BY <2>1 DEF Refuse, Keep
<1>8. CASE Seal(o)
  <2>1. UNCHANGED events \/ Keep(o, "seal") \/ Refuse(o)
    BY <1>1, <1>8, Zenon DEF Seal
  <2> QED BY <2>1 DEF Refuse, Keep
<1>9. CASE Settle(o)
  <2>1. ASSUME NEW stage, MarkRecorded(o, stage) PROVE events' = events
    <3>1. Refuse(o) \/ Keep(o, stage)
      BY <1>1, <2>1, Zenon DEF MarkRecorded
    <3> QED BY <3>1 DEF Refuse, Keep
  <2>2. ASSUME NEW stage, MarkUnread(o, stage) PROVE events' = events
    <3>1. Refuse(o) \/ Keep(o, stage)
      BY <1>1, <2>2, Zenon DEF MarkUnread
    <3> QED BY <3>1 DEF Refuse, Keep
  <2>3. ASSUME NEW stage, MarkQuarantined(o, stage) PROVE events' = events
    <3>1. UNCHANGED events \/ Refuse(o) \/ Keep(o, stage)
      BY <1>1, <2>3, Zenon DEF MarkQuarantined
    <3> QED BY <3>1 DEF Refuse, Keep
  <2>4. \E stage : MarkRecorded(o, stage) \/ MarkUnread(o, stage) \/ MarkQuarantined(o, stage)
    BY <1>9, Zenon DEF Settle
  <2> QED BY <2>1, <2>2, <2>3, <2>4
<1>10. PICK c : c = Current
  OBVIOUS
<1>11. c \in events /\ c.phase \in Settled /\ c.body \in Bodies /\ c = Ev(c.phase, c.body)
  BY <1>0, <1>1, <1>10, ReadsCurrent DEF IInv, Log, Ev
<1>12. CASE MarkStopped(o)
  <2>1. CASE Refuse(o)
    BY <2>1 DEF Refuse
  <2>2. CASE c.phase = "outcome" /\ Publish(o, "release", Ev("stopped", c.body))
    <3>1. PICK ev : ev = Ev("stopped", c.body)
      OBVIOUS
    <3>2. /\ ev \in [phase : {"stopped", "attested"}, body : Bodies] /\ ev.phase = "stopped"
          /\ ev.body = c.body
      BY <1>11, <3>1 DEF Ev
    <3>3. events' = events \cup {ev}
      BY <2>2, <3>1 DEF Publish
    <3> QED BY <1>11, <2>2, <3>2, <3>3 DEF Afterword
  <2> QED BY <1>10, <1>12, <2>1, <2>2 DEF MarkStopped
<1>13. CASE MarkAttested(o)
  <2>1. CASE UNCHANGED events
    BY <2>1
  <2>2. CASE c.phase = "stopped" /\ events' = events \cup {Ev("attested", c.body)}
    <3>1. PICK ev : ev = Ev("attested", c.body)
      OBVIOUS
    <3>2. /\ ev \in [phase : {"stopped", "attested"}, body : Bodies] /\ ev.phase = "attested"
          /\ ev.body = c.body
      BY <1>11, <3>1 DEF Ev
    <3>3. Ev("outcome", c.body) \in events
      BY <1>11, <2>2 DEF IInv, Log
    <3> QED BY <2>2, <3>1, <3>2, <3>3 DEF Afterword
  <2> QED BY <1>10, <1>13, <2>1, <2>2 DEF MarkAttested
<1> QED BY <1>2, <1>3, <1>4, <1>5, <1>6, <1>7, <1>8, <1>9, <1>12, <1>13 DEF Step

(* An outcome is the last word: only the stop and the attestation of that  *)
(* very outcome are added after it.                                        *)
THEOREM OutcomeStaysFinal == Spec => OutcomeIsFinal
<1>1. ASSUME IInv, [Next]_vars
      PROVE  Has(events, "outcome") => events' \ events \subseteq
               [phase : {"stopped", "attested"}, body : {BodyOf(events, "outcome")}]
  <2> SUFFICES ASSUME Has(events, "outcome"), events' # events
               PROVE  events' \ events \subseteq
                        [phase : {"stopped", "attested"}, body : {BodyOf(events, "outcome")}]
    OBVIOUS
  <2>1. PICK o \in Operators : Step(o)
    BY <1>1 DEF Next, vars, Apply, Recover, Crash, ProviderRecords, DeadlinePasses, LoseBearer,
       RestoreBearer, Revoke, Session
  <2>2. PICK ev \in [phase : {"stopped", "attested"}, body : Bodies] :
          events' = events \cup {ev} /\ Afterword(ev)
    BY <1>1, <2>1, OnlyAfterwords
  <2>3. PICK e \in events : e = Ev("outcome", ev.body)
    BY <2>2 DEF Afterword
  <2>4. e.phase = "outcome" /\ e.body = ev.body /\ \A f \in events : f.phase = e.phase => f = e
    BY <1>1, <2>3 DEF Ev, IInv, Log
  <2>5. BodyOf(events, "outcome") = ev.body
    BY <2>4, BodyIs
  <2> QED BY <2>2, <2>5
<1> QED BY <1>1, QualificationInvariant, PTL DEF Spec, OutcomeIsFinal
=============================================================================
