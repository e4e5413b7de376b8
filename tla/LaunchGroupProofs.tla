-------------------------- MODULE LaunchGroupProofs --------------------------
(***************************************************************************)
(* Proofs about LaunchGroup, for any group, any number of sessions and     *)
(* attempts, any number of calls, deaths and expiries.                     *)
(*                                                                         *)
(* The invariant has two halves.  Of the journal: an instant belongs to    *)
(* one caller, an attempt starts and stops once, the tip exists, and while *)
(* the mutex is reached in call order the tip is the last entry, which     *)
(* describes the host.  Of the users: the holder of the mutex knows who    *)
(* protects the group, so that nobody's containers are stopped and no      *)
(* probe is disturbed.                                                     *)
(***************************************************************************)
EXTENDS LaunchGroup, FiniteSetTheorems, TLAPS

UseStates == {"idle", "live", "done", "observed", "proved", "checked", "probing",
              "outcome", "stop-checked", "stop-ready", "stopped"}

EntryType == [by : Procs, kind : Kinds, action : Actions, at : Nat \ {0},
              prior : [Materials -> HostStates \cup {"starting", "degraded"}],
              outcome : Outcomes]

OpType == [kind : Kinds \cup {"none"}, at : Nat, step : Steps, resume : BOOLEAN,
           entry : Nat, status : Outcomes, created : BOOLEAN]

JournalShape ==
  /\ host \in [Materials -> HostStates]
  /\ journal \in Seq(EntryType)
  /\ clock \in Nat
  /\ op \in [Procs -> OpType]

UserShape ==
  /\ setting \in Setting
  /\ leases \subseteq Users /\ expired \subseteq leases
  /\ faults \in Nat
  /\ use \in [Users -> UseStates]
  /\ run \in [Sessions -> {"queued", "running", "terminal"}]

Shape == JournalShape /\ UserShape

(* The operations each kind of process calls, and what each may journal. *)
KindsOf(p) == CASE p \in Sessions -> {"ensure", "release"}
                [] p \in Attempts -> {"qualify", "qstop", "qclean"}
                [] OTHER -> {"material"}

Journals(kind) == CASE kind = "material" -> {"acquire"}
                    [] kind = "ensure" -> {"acquire", "start"}
                    [] kind = "qualify" -> {"acquire", "qualification-start"}
                    [] OTHER -> {"stop"}

InMutex(p) == op[p].step \in {"claimed", "intent", "mutated", "settled"}
AtHost(p) == op[p].step \in {"intent", "mutated", "settled"}

(* An operation carries its own instant, and its entry once it has one. *)
OpInv ==
  \A p \in Procs :
    /\ op[p].step = "none" => op[p] = NoOp
    /\ op[p].step # "none" =>
         /\ op[p].kind \in KindsOf(p) /\ op[p].at \in 1..clock
         /\ \A q \in Procs \ {p} : op[q].at # op[p].at
    /\ op[p].step = "claimed" => op[p].kind = "qualify"
    /\ AtHost(p) =>
         /\ op[p].entry \in DOMAIN journal
         /\ Entry(p).by = p /\ Entry(p).kind = op[p].kind
    /\ op[p].step \in {"intent", "mutated"} => Entry(p).outcome = "pending"

MutexInv == \A p, q \in Procs : InMutex(p) /\ InMutex(q) => p = q

(* Instants: one caller each, journalled by the operation that carries it. *)
InstantInv ==
  /\ \A i \in DOMAIN journal :
       /\ journal[i].at <= clock
       /\ journal[i].kind \in KindsOf(journal[i].by)
       /\ journal[i].action \in Journals(journal[i].kind)
  /\ \A i, j \in DOMAIN journal :
       journal[i].at = journal[j].at => journal[i].by = journal[j].by
  /\ \A p \in Procs : op[p].step # "none" =>
       \A i \in DOMAIN journal : journal[i].at = op[p].at =>
         /\ journal[i].by = p /\ AtHost(p)
         /\ i = op[p].entry \/ (journal[i].action = "acquire" /\ Entry(p).action # "acquire")

(* An attempt starts once and stops once, after its start. *)
OnceInv ==
  \A a \in Attempts :
    /\ \A i, j \in QualificationStart(a) : i = j
    /\ \A i, j \in DOMAIN journal :
         journal[i].by = a /\ journal[j].by = a
           /\ journal[i].action = "stop" /\ journal[j].action = "stop" => i = j
    /\ \A i \in DOMAIN journal : journal[i].by = a /\ journal[i].action = "stop" =>
         \E k \in QualificationStart(a) : journal[k].at = journal[i].at
    /\ op[a].kind = "qualify" /\ AtHost(a) /\ Entry(a).action = "acquire" =>
         QualificationStart(a) = {}

(* The tip, and the latest start, exist. *)
TipInv ==
  /\ journal # <<>> => \E i \in DOMAIN journal : \A j \in DOMAIN journal : Before(j, i)
  /\ Starts # {} => \E i \in Starts : \A j \in Starts : Before(j, i)

(* The holder of the mutex that reported success left the group so. *)
HostInv ==
  \A p \in Procs : op[p].step \in {"mutated", "settled"} /\ op[p].status = "succeeded" =>
    Satisfies(Entry(p).action, host)

(* In call order, entries of one instant are ordered by their action, the  *)
(* operation at the host is the last entry, and the host is as it says.    *)
OrderInv ==
  InCallOrder =>
    /\ \A i, j \in DOMAIN journal : i < j /\ journal[i].at = journal[j].at =>
         Rank(journal[i].action) < Rank(journal[j].action)
    /\ \A p \in Procs : AtHost(p) => op[p].entry = Len(journal)
    /\ journal # <<>> /\ journal[Len(journal)].outcome = "succeeded" =>
         Satisfies(journal[Len(journal)].action, host)

(* In call order and before the first cleanup, every intent was written    *)
(* for a group that is whole, and only a start or a stop divides it.       *)
Mixed(states) ==
  /\ \E m \in Materials : states[m] \notin {"absent", "inactive"}
  /\ \E m \in Materials : states[m] \in {"absent", "inactive"}

NoCleanup == \A i \in DOMAIN journal : journal[i].kind # "qclean"

FrozenInv ==
  InCallOrder /\ NoCleanup =>
    /\ \A i \in DOMAIN journal : ~Mixed(journal[i].prior)
    /\ \A p \in Procs : op[p].step = "intent" => ~Mixed(host)
    /\ Mixed(host) => journal # <<>> /\ journal[Len(journal)].action # "acquire"

JournalInv ==
  OpInv /\ MutexInv /\ InstantInv /\ OnceInv /\ TipInv /\ HostInv /\ OrderInv /\ FrozenInv

NobodyLive == \A s \in Sessions : use[s] # "live"

(* A user that has the group: a live session, or an attempt that works     *)
(* with the provider or is about to stop it.                               *)
UserInv ==
  /\ \A s \in Sessions : use[s] = "live" =>
       op[s] = NoOp /\ s \in Active /\ \A m \in Materials : host[m] = "active"
  /\ \A a \in Attempts : use[a] \in {"probing", "stop-ready"} =>
       /\ a \in Active /\ NobodyLive
       /\ \A b \in Attempts \ {a} : use[b] \notin {"probing", "stop-ready"}

(* What the caller of an operation is, and what the holder knows. *)
Knows(p) ==
  /\ op[p].kind = "ensure" => Active \cap Attempts = {} /\ p \notin expired
  /\ op[p].kind = "qualify" => Active \subseteq {p} /\ p \notin expired
  /\ op[p].kind \in {"release", "qclean"} => NobodyLive

Holder(p) ==
  op[p].step # "none" =>
    /\ op[p].kind # "qstop" => use[p] = "idle"
    /\ op[p].kind = "qstop" => use[p] = "stop-ready"
    /\ InMutex(p) => Knows(p)

HolderInv == \A p \in Users : Holder(p)

(* A live session's group was not started last by a failed attempt. *)
FailedStartInv ==
  setting.readiness /\ ~NobodyLive =>
    \A i \in DOMAIN journal :
      journal[i].action = "qualification-start" /\ journal[i].outcome = "failed" =>
        \E j \in DOMAIN journal : ~Before(j, i)

IInv == Shape /\ JournalInv /\ UserInv /\ HolderInv /\ FailedStartInv
-----------------------------------------------------------------------------
(* Definitions by cases, as facts *)

LEMMA RankValues ==
  /\ Rank("acquire") = 0 /\ Rank("qualification-start") = 1
  /\ Rank("start") = 2 /\ Rank("stop") = 3
BY Zenon DEF Rank

LEMMA RankType == \A action \in Actions : Rank(action) \in 0..3
BY RankValues DEF Actions

LEMMA KindsOfUsers ==
  /\ \A p \in Sessions : KindsOf(p) = {"ensure", "release"}
  /\ \A p \in Attempts : KindsOf(p) = {"qualify", "qstop", "qclean"}
  /\ KindsOf(Admin) = {"material"}
<1>1. \A p \in Sessions : KindsOf(p) = {"ensure", "release"}
  BY LaunchGroupAssumption, Zenon DEF KindsOf
<1>2. \A p \in Attempts : p \notin Sessions
  BY LaunchGroupAssumption
<1>3. \A p \in Attempts : KindsOf(p) = {"qualify", "qstop", "qclean"}
  BY <1>2, Zenon DEF KindsOf
<1>4. Admin \notin Sessions /\ Admin \notin Attempts
  BY LaunchGroupAssumption DEF Users
<1>5. KindsOf(Admin) = {"material"}
  BY <1>4, Zenon DEF KindsOf
<1> QED
  BY <1>1, <1>3, <1>5

LEMMA JournalsOfKinds ==
  /\ Journals("material") = {"acquire"}
  /\ Journals("ensure") = {"acquire", "start"}
  /\ Journals("qualify") = {"acquire", "qualification-start"}
  /\ Journals("release") = {"stop"}
  /\ Journals("qstop") = {"stop"}
  /\ Journals("qclean") = {"stop"}
BY Zenon DEF Journals

LEMMA SatisfiesMeaning ==
  ASSUME NEW states
  PROVE  /\ Satisfies("acquire", states) <=> AllInstalled(states)
         /\ Satisfies("start", states) <=> AllActive(states)
         /\ Satisfies("qualification-start", states) <=> AllActive(states)
         /\ Satisfies("stop", states) <=> AllInactive(states)
<1>1. "start" # "acquire" /\ "qualification-start" # "acquire" /\ "stop" # "acquire"
      /\ "stop" \notin {"start", "qualification-start"}
  OBVIOUS
<1>2. Satisfies("acquire", states) <=> AllInstalled(states)
  BY <1>1, Zenon DEF Satisfies
<1>3. Satisfies("start", states) <=> AllActive(states)
  BY <1>1, Zenon DEF Satisfies
<1>4. Satisfies("qualification-start", states) <=> AllActive(states)
  BY <1>1, Zenon DEF Satisfies
<1>5. Satisfies("stop", states) <=> AllInactive(states)
  BY <1>1, Zenon DEF Satisfies
<1> QED
  BY <1>2, <1>3, <1>4, <1>5

(* What an observer reports of a container that runs. *)
Reported == IF Starts = {} THEN "starting"
            ELSE CASE journal[Latest(Starts)].outcome = "succeeded" -> "active"
                   [] journal[Latest(Starts)].outcome = "pending" -> "starting"
                   [] OTHER -> "degraded"

LEMMA ReportedValues ==
  /\ Reported \in {"active", "starting", "degraded"}
  /\ Reported = "active" <=> Starts # {} /\ journal[Latest(Starts)].outcome = "succeeded"
<1>1. CASE Starts = {}
  <2>1. Reported = "starting"
    BY <1>1, Zenon DEF Reported
  <2> QED
    BY <1>1, <2>1
<1>2. CASE Starts # {} /\ journal[Latest(Starts)].outcome = "succeeded"
  <2>1. Reported = "active"
    BY <1>2, Zenon DEF Reported
  <2> QED
    BY <1>2, <2>1
<1>3. CASE Starts # {} /\ journal[Latest(Starts)].outcome = "pending"
  <2>1. Reported = "starting"
    BY <1>3, Zenon DEF Reported
  <2> QED
    BY <1>3, <2>1
<1>4. CASE Starts # {} /\ journal[Latest(Starts)].outcome \notin {"succeeded", "pending"}
  <2>1. Reported = "degraded"
    BY <1>4, Zenon DEF Reported
  <2> QED
    BY <1>4, <2>1
<1> QED
  BY <1>1, <1>2, <1>3, <1>4

LEMMA ObservedStates ==
  ASSUME NEW m \in Materials
  PROVE  Observed[m] = IF host[m] # "active" \/ ~setting.readiness THEN host[m] ELSE Reported
BY Zenon DEF Observed, Reported

(* The report tells a container that runs from one that does not. *)
LEMMA ObservedMeaning ==
  ASSUME JournalShape
  PROVE  /\ Observed \in [Materials -> HostStates \cup {"starting", "degraded"}]
         /\ AllInstalled(Observed) <=> AllInstalled(host)
         /\ AllActive(Observed) => AllActive(host)
         /\ AllInactive(Observed) <=> AllInactive(host)
         /\ Mixed(Observed) <=> Mixed(host)
         /\ ~setting.readiness => (AllActive(Observed) <=> AllActive(host))
         /\ setting.readiness /\ AllActive(Observed) =>
              Starts # {} /\ journal[Latest(Starts)].outcome = "succeeded"
         /\ AllActive(host) /\ Starts # {} /\ journal[Latest(Starts)].outcome = "succeeded" =>
              AllActive(Observed)
<1>1. \A m \in Materials :
        Observed[m] = IF host[m] # "active" \/ ~setting.readiness THEN host[m] ELSE Reported
  BY ObservedStates
<1>2. host \in [Materials -> HostStates]
  BY DEF JournalShape
<1>3. Observed = [m \in Materials |-> Observed[m]]
  BY Zenon DEF Observed
<1>4. Observed \in [Materials -> HostStates \cup {"starting", "degraded"}]
  BY <1>1, <1>2, <1>3, ReportedValues DEF HostStates
<1>5. Materials # {}
  BY LaunchGroupAssumption
<1>6. AllInstalled(Observed) <=> AllInstalled(host)
  BY <1>1, <1>2, ReportedValues DEF AllInstalled
<1>7. AllActive(Observed) => AllActive(host)
  BY <1>1, <1>2, ReportedValues DEF AllActive
<1>8. AllInactive(Observed) <=> AllInactive(host)
  BY <1>1, <1>2, ReportedValues DEF AllInactive
<1>9. Mixed(Observed) <=> Mixed(host)
  BY <1>1, <1>2, ReportedValues DEF Mixed
<1>10. ~setting.readiness => (AllActive(Observed) <=> AllActive(host))
  BY <1>1 DEF AllActive
<1>11. setting.readiness /\ AllActive(Observed) => Reported = "active"
  BY <1>1, <1>5, <1>7 DEF AllActive
<1>12. AllActive(host) /\ Reported = "active" => AllActive(Observed)
  BY <1>1 DEF AllActive
<1> QED
  BY <1>4, <1>6, <1>7, <1>8, <1>9, <1>10, <1>11, <1>12, ReportedValues

(* A mutation only moves containers towards what it asks for. *)
LEMMA ProgressKeeps ==
  ASSUME NEW action \in Actions, NEW h \in [Materials -> HostStates],
         NEW g \in Progress(action, h)
  PROVE  /\ g \in [Materials -> HostStates]
         /\ action # "stop" => \A m \in Materials : h[m] = "active" => g[m] = "active"
         /\ action = "acquire" /\ ~Mixed(h) => ~Mixed(g)
<1>1. g \in [Materials -> HostStates]
  BY Zenon DEF Progress
<1>2. ASSUME action = "acquire"
      PROVE  \A m \in Materials : g[m] = h[m] \/ (h[m] = "absent" /\ g[m] = "inactive")
  <2>1. \A m \in Materials : g[m] \in {h[m]} \cup (IF h[m] = "absent" THEN {"inactive"} ELSE {})
    BY <1>2, Zenon DEF Progress
  <2> QED
    BY <2>1
<1>3. ASSUME action \in {"start", "qualification-start"}
      PROVE  \A m \in Materials : g[m] = h[m] \/ (h[m] = "inactive" /\ g[m] = "active")
  <2>0. action # "acquire"
    BY <1>3
  <2>1. \A m \in Materials : g[m] \in {h[m]} \cup (IF h[m] = "inactive" THEN {"active"} ELSE {})
    BY <1>3, <2>0, Zenon DEF Progress
  <2> QED
    BY <2>1
<1> QED
  BY <1>1, <1>2, <1>3 DEF Actions, Mixed

LEMMA AfterCrashMeaning ==
  ASSUME NEW state
  PROVE  /\ AfterCrash(state) \notin {"live", "probing", "stop-ready"}
         /\ state \in UseStates => AfterCrash(state) \in UseStates
<1>1. CASE state \in {"live", "observed"}
  <2>1. AfterCrash(state) = "idle"
    BY <1>1, Zenon DEF AfterCrash
  <2> QED
    BY <2>1 DEF UseStates
<1>2. CASE state \in {"checked", "probing"}
  <2>1. state \notin {"live", "observed"}
    BY <1>2
  <2>2. AfterCrash(state) = "proved"
    BY <1>2, <2>1, Zenon DEF AfterCrash
  <2> QED
    BY <2>2 DEF UseStates
<1>3. CASE state \in {"stop-checked", "stop-ready", "stopped"}
  <2>1. state \notin {"live", "observed", "checked", "probing"}
    BY <1>3
  <2>2. AfterCrash(state) = "outcome"
    BY <1>3, <2>1, Zenon DEF AfterCrash
  <2> QED
    BY <2>2 DEF UseStates
<1>4. CASE state \notin {"live", "observed", "checked", "probing", "stop-checked", "stop-ready", "stopped"}
  <2>1. AfterCrash(state) = state
    BY <1>4, Zenon DEF AfterCrash
  <2> QED
    BY <1>4, <2>1
<1> QED
  BY <1>1, <1>2, <1>3, <1>4
-----------------------------------------------------------------------------
(* The tip *)

LEMMA TipIsMaximal ==
  ASSUME TipInv, journal # <<>>
  PROVE  GroupTip \in DOMAIN journal /\ \A j \in DOMAIN journal : Before(j, GroupTip)
BY DEF TipInv, GroupTip, Latest

LEMMA LatestStartIsMaximal ==
  ASSUME TipInv, Starts # {}
  PROVE  Latest(Starts) \in Starts /\ \A j \in Starts : Before(j, Latest(Starts))
BY DEF TipInv, Latest

LEMMA EntriesAreTyped ==
  ASSUME JournalShape
  PROVE  /\ Len(journal) \in Nat /\ DOMAIN journal = 1..Len(journal)
         /\ \A i \in DOMAIN journal :
              /\ journal[i] \in EntryType /\ journal[i].by \in Procs
              /\ journal[i].kind \in Kinds /\ journal[i].action \in Actions
              /\ journal[i].at \in Nat /\ journal[i].at > 0
              /\ journal[i].outcome \in Outcomes /\ Rank(journal[i].action) \in 0..3
<1>1. Len(journal) \in Nat /\ DOMAIN journal = 1..Len(journal)
  BY DEF JournalShape
<1>2. ASSUME NEW i \in DOMAIN journal
      PROVE  journal[i] \in EntryType
  BY DEF JournalShape
<1>3. ASSUME NEW i \in DOMAIN journal
      PROVE  /\ journal[i].by \in Procs /\ journal[i].kind \in Kinds
             /\ journal[i].action \in Actions /\ journal[i].at \in Nat /\ journal[i].at > 0
             /\ journal[i].outcome \in Outcomes
  BY <1>2 DEF EntryType
<1> QED
  BY <1>1, <1>2, <1>3, RankType

(* In call order the tip is the entry written last. *)
LEMMA TipIsLast ==
  ASSUME JournalShape, TipInv, OrderInv, InCallOrder, journal # <<>>
  PROVE  GroupTip = Len(journal) /\ Len(journal) \in DOMAIN journal
<1>1. PICK last \in Nat : last = Len(journal) /\ last # 0 /\ DOMAIN journal = 1..last
  BY DEF JournalShape
<1>2. PICK tip \in DOMAIN journal : GroupTip = tip /\ \A j \in DOMAIN journal : Before(j, tip)
  BY TipIsMaximal
<1>3. last \in DOMAIN journal /\ tip \in 1..last
  BY <1>1
<1>4. /\ journal[tip].at \in Nat /\ Rank(journal[tip].action) \in 0..3
      /\ journal[last].at \in Nat /\ Rank(journal[last].action) \in 0..3
  BY <1>3, EntriesAreTyped
<1>5. \/ journal[last].at < journal[tip].at
      \/ journal[last].at = journal[tip].at /\ Rank(journal[last].action) <= Rank(journal[tip].action)
  BY <1>2, <1>3 DEF Before
<1>6. tip < last =>
        /\ journal[tip].at <= journal[last].at
        /\ journal[tip].at = journal[last].at =>
             Rank(journal[tip].action) < Rank(journal[last].action)
  BY <1>3 DEF OrderInv, InCallOrder
<1>7. ~(tip < last)
  BY <1>4, <1>5, <1>6
<1>8. tip = last
  BY <1>1, <1>3, <1>7
<1> QED
  BY <1>1, <1>2, <1>3, <1>8

-----------------------------------------------------------------------------
(* What an operation does to the journal, and that it keeps its account *)

Alone(p) == \A q \in Procs : InMutex(q) => q = p

JLeaves(p) == Leave(p) /\ UNCHANGED <<journal, clock, host>>

LEMMA LeaveKeepsTheJournal ==
  ASSUME JournalShape, JournalInv, NEW p \in Procs, JLeaves(p)
  PROVE  JournalShape' /\ JournalInv'
<1>1. op' \in [Procs -> OpType] /\ op'[p] = NoOp /\ \A q \in Procs \ {p} : op'[q] = op[q]
  BY DEF JLeaves, Leave, JournalShape, NoOp, OpType, Kinds, Steps, Outcomes
<1>2. journal' = journal /\ clock' = clock /\ host' = host
  BY DEF JLeaves
<1>3. op'[p].step = "none" /\ op'[p].at = 0 /\ ~(InMutex(p))' /\ ~(AtHost(p))'
  BY <1>1 DEF NoOp, InMutex, AtHost
<1>4. \A q \in Procs \ {p} : (InMutex(q))' = InMutex(q) /\ (AtHost(q))' = AtHost(q)
                                 /\ (Entry(q))' = Entry(q)
  BY <1>1, <1>2 DEF InMutex, AtHost, Entry
<1>5. JournalShape'
  BY <1>1, <1>2 DEF JournalShape
<1>6. OpInv'
  BY <1>1, <1>2, <1>3, <1>4 DEF JournalInv, OpInv, AtHost, Entry
<1>7. MutexInv'
  BY <1>3, <1>4 DEF JournalInv, MutexInv
<1>8. InstantInv'
  BY <1>1, <1>2, <1>3, <1>4 DEF JournalInv, InstantInv
<1>9. OnceInv'
  BY <1>1, <1>2, <1>3, <1>4 DEF JournalInv, OnceInv, QualificationStart, Users, Procs
<1>10. TipInv'
  BY <1>2 DEF JournalInv, TipInv, Starts, Before
<1>11. HostInv'
  BY <1>1, <1>2, <1>3, <1>4 DEF JournalInv, HostInv
<1>12. OrderInv'
  BY <1>1, <1>2, <1>3, <1>4 DEF JournalInv, OrderInv, InCallOrder
<1>13. FrozenInv'
  BY <1>1, <1>2, <1>3, <1>4 DEF JournalInv, FrozenInv, InCallOrder, NoCleanup
<1> QED
  BY <1>5, <1>6, <1>7, <1>8, <1>9, <1>10, <1>11, <1>12, <1>13 DEF JournalInv

JCalls(p, kind, resume) ==
  /\ op[p] = NoOp
  /\ clock' = clock + 1
  /\ op' = [op EXCEPT ![p] = [NoOp EXCEPT !.kind = kind, !.at = clock + 1, !.step = "waiting",
                                          !.resume = resume]]
  /\ UNCHANGED <<journal, host>>

CalledWith(o, kind, at, step, resume) ==
  [o EXCEPT !.kind = kind, !.at = at, !.step = step, !.resume = resume]

LEMMA RecordIsCalled ==
  ASSUME NEW o \in OpType, NEW kind \in Kinds, NEW at \in Nat, NEW step \in Steps,
         NEW resume \in BOOLEAN
  PROVE  LET called == CalledWith(o, kind, at, step, resume)
         IN called \in OpType /\ called.kind = kind /\ called.at = at /\ called.step = step
BY DEF OpType, CalledWith

LEMMA CallKeepsTheJournal ==
  ASSUME JournalShape, JournalInv, NEW p \in Procs, NEW kind \in KindsOf(p), kind \in Kinds,
         NEW resume \in BOOLEAN, JCalls(p, kind, resume)
  PROVE  JournalShape' /\ JournalInv'
<1>1. /\ op' \in [Procs -> OpType] /\ clock \in Nat
      /\ op'[p].kind = kind /\ op'[p].at = clock + 1 /\ op'[p].step = "waiting"
      /\ \A q \in Procs \ {p} : op'[q] = op[q]
  <2>1. op \in [Procs -> OpType] /\ clock \in Nat /\ "waiting" \in Steps /\ NoOp \in OpType
    BY DEF JournalShape, NoOp, OpType, Steps, Outcomes
  <2>2. PICK next \in Nat : next = clock + 1
    BY <2>1
  <2>3. PICK called : called = CalledWith(NoOp, kind, next, "waiting", resume)
    OBVIOUS
  <2>4. called \in OpType /\ called.kind = kind /\ called.at = next /\ called.step = "waiting"
    BY <2>1, <2>3, RecordIsCalled
  <2>5. op' = [op EXCEPT ![p] = called]
    BY <2>2, <2>3, Zenon DEF JCalls, CalledWith
  <2> QED
    BY <2>1, <2>2, <2>4, <2>5
<1>2. journal' = journal /\ clock' = clock + 1 /\ host' = host
  BY DEF JCalls
<1>3. ~(InMutex(p))' /\ ~(AtHost(p))'
  BY <1>1 DEF InMutex, AtHost
<1>4. \A q \in Procs \ {p} : (InMutex(q))' = InMutex(q) /\ (AtHost(q))' = AtHost(q)
                                 /\ (Entry(q))' = Entry(q)
  BY <1>1, <1>2 DEF InMutex, AtHost, Entry
<1>5. \A q \in Procs : op[q].at \in Nat /\ op[q].at <= clock
  <2>1. \A q \in Procs : op[q].step = "none" => op[q].at = 0
    BY DEF JournalInv, OpInv, NoOp
  <2> QED
    BY <1>1, <2>1 DEF JournalInv, OpInv
<1>6. \A i \in DOMAIN journal : journal[i].at \in Nat /\ journal[i].at <= clock
  BY EntriesAreTyped DEF JournalInv, InstantInv
<1>7. JournalShape'
  BY <1>1, <1>2 DEF JournalShape
<1>8. OpInv'
  <2>1. \A q \in Procs : op'[q].step # "none" => op'[q].at \in 1..clock'
    BY <1>1, <1>2 DEF JournalInv, OpInv
  <2>2. \A q \in Procs : op'[q].step # "none" => \A r \in Procs \ {q} : op'[r].at # op'[q].at
    BY <1>1, <1>5 DEF JournalInv, OpInv
  <2> QED
    BY <1>1, <1>2, <1>3, <1>4, <2>1, <2>2 DEF JournalInv, OpInv, AtHost, Entry
<1>9. MutexInv'
  BY <1>3, <1>4 DEF JournalInv, MutexInv
<1>10. InstantInv'
  <2>1. \A i \in DOMAIN journal : journal'[i].at <= clock' /\ journal'[i].at # op'[p].at
    BY <1>1, <1>2, <1>6
  <2> QED
    BY <1>1, <1>2, <1>3, <1>4, <2>1 DEF JournalInv, InstantInv
<1>11. OnceInv'
  BY <1>1, <1>2, <1>3, <1>4 DEF JournalInv, OnceInv, QualificationStart, Users, Procs
<1>12. TipInv'
  BY <1>2 DEF JournalInv, TipInv, Starts, Before
<1>13. HostInv'
  BY <1>1, <1>2, <1>3, <1>4 DEF JournalInv, HostInv
<1>14. OrderInv'
  BY <1>1, <1>2, <1>3, <1>4 DEF JournalInv, OrderInv, InCallOrder
<1>15. FrozenInv'
  BY <1>1, <1>2, <1>3, <1>4 DEF JournalInv, FrozenInv, InCallOrder, NoCleanup
<1> QED
  BY <1>7, <1>8, <1>9, <1>10, <1>11, <1>12, <1>13, <1>14, <1>15 DEF JournalInv

JClaims(p) ==
  /\ op[p].step = "waiting" /\ op[p].kind = "qualify" /\ MutexFree
  /\ \E created \in BOOLEAN : op' = [op EXCEPT ![p].step = "claimed", ![p].created = created]
  /\ UNCHANGED <<journal, clock, host>>

LEMMA FreeMeansAlone ==
  ASSUME JournalShape, JournalInv, NEW p \in Procs, MutexFree \/ InMutex(p)
  PROVE  Alone(p)
BY DEF Alone, MutexFree, InMutex, JournalInv, MutexInv

LEMMA ClaimKeepsTheJournal ==
  ASSUME JournalShape, JournalInv, NEW p \in Procs, JClaims(p)
  PROVE  JournalShape' /\ JournalInv'
<1>1. /\ op' \in [Procs -> OpType] /\ op[p].kind = "qualify" /\ op[p].step = "waiting"
      /\ op'[p].kind = op[p].kind /\ op'[p].at = op[p].at /\ op'[p].step = "claimed"
      /\ \A q \in Procs \ {p} : op'[q] = op[q]
  <2>1. op \in [Procs -> OpType] /\ op[p] \in OpType
    BY DEF JournalShape
  <2>2. PICK created \in BOOLEAN :
          op' = [op EXCEPT ![p] = [op[p] EXCEPT !.step = "claimed", !.created = created]]
    BY <2>1 DEF JClaims, OpType
  <2>3. [op[p] EXCEPT !.step = "claimed", !.created = created] \in OpType
    BY <2>1 DEF OpType, Steps
  <2>4. op' \in [Procs -> OpType] /\ \A q \in Procs \ {p} : op'[q] = op[q]
    BY <2>1, <2>2, <2>3
  <2>5. op'[p].kind = op[p].kind /\ op'[p].at = op[p].at /\ op'[p].step = "claimed"
    BY <2>1, <2>2 DEF OpType
  <2> QED
    BY <2>4, <2>5 DEF JClaims
<1>2. journal' = journal /\ clock' = clock /\ host' = host
  BY DEF JClaims
<1>3. (InMutex(p))' /\ ~(AtHost(p))' /\ ~AtHost(p)
  BY <1>1 DEF InMutex, AtHost
<1>4. \A q \in Procs \ {p} : ~InMutex(q) /\ ~AtHost(q) /\ ~(InMutex(q))' /\ ~(AtHost(q))'
  BY <1>1 DEF JClaims, MutexFree, InMutex, AtHost
<1>5. JournalShape'
  BY <1>1, <1>2 DEF JournalShape
<1>6. OpInv'
  BY <1>1, <1>2, <1>3, <1>4 DEF JournalInv, OpInv, AtHost
<1>7. MutexInv'
  BY <1>3, <1>4 DEF MutexInv
<1>8. InstantInv'
  BY <1>1, <1>2, <1>3, <1>4 DEF JournalInv, InstantInv
<1>9. OnceInv'
  BY <1>1, <1>2, <1>3, <1>4 DEF JournalInv, OnceInv, QualificationStart, Users, Procs
<1>10. TipInv'
  BY <1>2 DEF JournalInv, TipInv, Starts, Before
<1>11. HostInv'
  BY <1>3, <1>4 DEF HostInv, AtHost
<1>12. OrderInv'
  BY <1>1, <1>2, <1>3, <1>4 DEF JournalInv, OrderInv, InCallOrder
<1>13. FrozenInv'
  BY <1>1, <1>2, <1>3, <1>4 DEF JournalInv, FrozenInv, InCallOrder, NoCleanup, AtHost
<1> QED
  BY <1>5, <1>6, <1>7, <1>8, <1>9, <1>10, <1>11, <1>12, <1>13 DEF JournalInv

JMutates(p) ==
  /\ AtStep(p, Kinds, "intent")
  /\ \E g \in Progress(Entry(p).action, host), s \in {"succeeded", "failed", "uncertain"} :
       /\ s = "succeeded" => Satisfies(Entry(p).action, g)
       /\ host' = g
       /\ op' = [op EXCEPT ![p].step = "mutated", ![p].status = s]
  /\ UNCHANGED <<journal, clock>>

LEMMA MutationKeepsTheJournal ==
  ASSUME JournalShape, JournalInv, NEW p \in Procs, JMutates(p)
  PROVE  JournalShape' /\ JournalInv'
<1>1. PICK g \in Progress(Entry(p).action, host), s \in {"succeeded", "failed", "uncertain"} :
        /\ s = "succeeded" => Satisfies(Entry(p).action, g)
        /\ host' = g
        /\ op' = [op EXCEPT ![p].step = "mutated", ![p].status = s]
  BY DEF JMutates
<1>2. /\ op' \in [Procs -> OpType] /\ op[p].step = "intent"
      /\ op'[p].kind = op[p].kind /\ op'[p].at = op[p].at /\ op'[p].entry = op[p].entry
      /\ op'[p].step = "mutated" /\ op'[p].status = s
      /\ \A q \in Procs \ {p} : op'[q] = op[q]
  <2>1. op \in [Procs -> OpType] /\ op[p] \in OpType
    BY DEF JournalShape
  <2>2. "mutated" \in Steps /\ s \in Outcomes
    BY DEF Steps, Outcomes
  <2>3. PICK o : o = [op[p] EXCEPT !.step = "mutated", !.status = s]
    OBVIOUS
  <2>4. /\ o \in OpType /\ o.kind = op[p].kind /\ o.at = op[p].at /\ o.entry = op[p].entry
        /\ o.step = "mutated" /\ o.status = s
    BY <2>1, <2>2, <2>3 DEF OpType
  <2>5. op' = [op EXCEPT ![p] = o]
    BY <1>1, <2>1, <2>3 DEF OpType
  <2> QED
    BY <2>1, <2>4, <2>5 DEF JMutates, AtStep
<1>3. journal' = journal /\ clock' = clock
  BY DEF JMutates
<1>4. InMutex(p) /\ AtHost(p) /\ (InMutex(p))' /\ (AtHost(p))'
  BY <1>2 DEF InMutex, AtHost
<1>5. \A q \in Procs \ {p} : ~InMutex(q) /\ ~AtHost(q) /\ ~(InMutex(q))' /\ ~(AtHost(q))'
  BY <1>2, <1>4 DEF JournalInv, MutexInv, InMutex, AtHost
<1>6. op[p].entry \in DOMAIN journal /\ Entry(p).outcome = "pending" /\ (Entry(p))' = Entry(p)
  BY <1>2, <1>3, <1>4 DEF JournalInv, OpInv, Entry
<1>7. PICK action \in Actions : action = Entry(p).action
  BY <1>6, EntriesAreTyped DEF Entry
<1>8. host' \in [Materials -> HostStates] /\ (action = "acquire" /\ ~Mixed(host) => ~Mixed(host'))
  BY <1>1, <1>7, ProgressKeeps DEF JournalShape
<1>9. JournalShape'
  BY <1>2, <1>3, <1>8 DEF JournalShape
<1>10. OpInv'
  BY <1>2, <1>3, <1>4, <1>5, <1>6 DEF JournalInv, OpInv, AtHost, Entry
<1>11. MutexInv'
  BY <1>4, <1>5 DEF MutexInv
<1>12. InstantInv'
  BY <1>2, <1>3, <1>4, <1>5, <1>6 DEF JournalInv, InstantInv
<1>13. OnceInv'
  BY <1>2, <1>3, <1>4, <1>5, <1>6 DEF JournalInv, OnceInv, QualificationStart, Users, Procs
<1>14. TipInv'
  BY <1>3 DEF JournalInv, TipInv, Starts, Before
<1>15. HostInv'
  BY <1>1, <1>2, <1>5, <1>6 DEF HostInv, AtHost
<1>16. InCallOrder' => op[p].entry = Len(journal) /\ journal[Len(journal)] = Entry(p)
  BY <1>3, <1>4 DEF JournalInv, OrderInv, InCallOrder, Entry
<1>17. OrderInv'
  BY <1>2, <1>3, <1>4, <1>5, <1>6, <1>16 DEF JournalInv, OrderInv, InCallOrder
<1>18. FrozenInv'
  <2>1. \A q \in Procs : op'[q].step # "intent"
    BY <1>2, <1>5 DEF AtHost
  <2>2. InCallOrder' /\ NoCleanup' => InCallOrder /\ NoCleanup /\ ~Mixed(host) /\ journal # <<>>
    BY <1>2, <1>3, <1>6 DEF JournalInv, FrozenInv, InCallOrder, NoCleanup
  <2> QED
    BY <1>3, <1>7, <1>8, <1>16, <2>1, <2>2 DEF JournalInv, FrozenInv
<1> QED
  BY <1>9, <1>10, <1>11, <1>12, <1>13, <1>14, <1>15, <1>17, <1>18 DEF JournalInv

JSettles(p) ==
  /\ AtStep(p, Kinds, "mutated")
  /\ journal' = [journal EXCEPT ![op[p].entry].outcome = op[p].status]
  /\ op' = [op EXCEPT ![p].step = "settled"]
  /\ UNCHANGED <<clock, host>>

LEMMA OutcomeChangesOneEntry ==
  ASSUME JournalShape, JournalInv, NEW p \in Procs, JSettles(p)
  PROVE  /\ op[p].entry \in DOMAIN journal /\ DOMAIN journal' = DOMAIN journal
         /\ Len(journal') = Len(journal) /\ journal' \in Seq(EntryType)
         /\ \A i \in DOMAIN journal :
              /\ journal'[i].by = journal[i].by /\ journal'[i].kind = journal[i].kind
              /\ journal'[i].action = journal[i].action /\ journal'[i].at = journal[i].at
              /\ journal'[i].prior = journal[i].prior
              /\ i # op[p].entry => journal'[i] = journal[i]
         /\ journal'[op[p].entry].outcome = op[p].status
<1>1. op[p].entry \in DOMAIN journal
  BY DEF JSettles, AtStep, JournalInv, OpInv, AtHost
<1>2. op[p] \in OpType /\ op[p].status \in Outcomes
  BY DEF JournalShape, OpType
<1>3. PICK n \in DOMAIN journal, status \in Outcomes : n = op[p].entry /\ status = op[p].status
  BY <1>1, <1>2
<1>4. journal' = [journal EXCEPT ![n] = [journal[n] EXCEPT !.outcome = status]]
  BY <1>3 DEF JSettles
<1>5. journal[n] \in EntryType
  BY EntriesAreTyped
<1>6. PICK e : e = [journal[n] EXCEPT !.outcome = status]
  OBVIOUS
<1>7. /\ e \in EntryType /\ e.by = journal[n].by /\ e.kind = journal[n].kind
      /\ e.action = journal[n].action /\ e.at = journal[n].at /\ e.prior = journal[n].prior
      /\ e.outcome = status
  BY <1>5, <1>6 DEF EntryType
<1>8. journal' = [journal EXCEPT ![n] = e] /\ journal \in Seq(EntryType)
  BY <1>4, <1>6 DEF JournalShape
<1> QED
  BY <1>3, <1>7, <1>8

LEMMA OutcomeKeepsTheJournal ==
  ASSUME JournalShape, JournalInv, NEW p \in Procs, JSettles(p)
  PROVE  JournalShape' /\ JournalInv'
<1>1. /\ op' \in [Procs -> OpType] /\ op[p].step = "mutated"
      /\ op'[p].kind = op[p].kind /\ op'[p].at = op[p].at /\ op'[p].entry = op[p].entry
      /\ op'[p].step = "settled" /\ op'[p].status = op[p].status
      /\ \A q \in Procs \ {p} : op'[q] = op[q]
  BY DEF JSettles, AtStep, JournalShape, OpType, Steps
<1>2. /\ op[p].entry \in DOMAIN journal /\ DOMAIN journal' = DOMAIN journal
      /\ Len(journal') = Len(journal) /\ journal' \in Seq(EntryType)
      /\ \A i \in DOMAIN journal :
           /\ journal'[i].by = journal[i].by /\ journal'[i].kind = journal[i].kind
           /\ journal'[i].action = journal[i].action /\ journal'[i].at = journal[i].at
           /\ journal'[i].prior = journal[i].prior
           /\ i # op[p].entry => journal'[i] = journal[i]
      /\ journal'[op[p].entry].outcome = op[p].status
  BY OutcomeChangesOneEntry
<1>3. clock' = clock /\ host' = host
  BY DEF JSettles
<1>4. InMutex(p) /\ AtHost(p) /\ (InMutex(p))' /\ (AtHost(p))'
  BY <1>1 DEF InMutex, AtHost
<1>5. \A q \in Procs \ {p} : ~InMutex(q) /\ ~AtHost(q) /\ ~(InMutex(q))' /\ ~(AtHost(q))'
  BY <1>1, <1>4 DEF JournalInv, MutexInv, InMutex, AtHost
<1>6. /\ (Entry(p))'.by = Entry(p).by /\ (Entry(p))'.kind = Entry(p).kind
      /\ (Entry(p))'.action = Entry(p).action
  BY <1>1, <1>2 DEF Entry
<1>7. JournalShape'
  BY <1>1, <1>2, <1>3 DEF JournalShape
<1>8. OpInv'
  BY <1>1, <1>2, <1>3, <1>4, <1>5, <1>6 DEF JournalInv, OpInv, AtHost
<1>9. MutexInv'
  BY <1>4, <1>5 DEF MutexInv
<1>10. InstantInv'
  <2>1. \A i \in DOMAIN journal' :
          /\ journal'[i].at <= clock'
          /\ journal'[i].kind \in KindsOf(journal'[i].by)
          /\ journal'[i].action \in Journals(journal'[i].kind)
    BY <1>2, <1>3 DEF JournalInv, InstantInv
  <2>2. \A i, j \in DOMAIN journal' :
          journal'[i].at = journal'[j].at => journal'[i].by = journal'[j].by
    BY <1>2 DEF JournalInv, InstantInv
  <2>3. \A q \in Procs : op'[q].step # "none" =>
          \A i \in DOMAIN journal' : journal'[i].at = op'[q].at => journal'[i].by = q /\ q = p
    BY <1>1, <1>2, <1>4, <1>5 DEF JournalInv, InstantInv
  <2>4. \A i \in DOMAIN journal' : journal'[i].at = op'[p].at =>
          i = op'[p].entry \/ (journal'[i].action = "acquire" /\ (Entry(p))'.action # "acquire")
    BY <1>1, <1>2, <1>6 DEF JournalInv, InstantInv
  <2> QED
    BY <1>4, <2>1, <2>2, <2>3, <2>4 DEF InstantInv
<1>11. OnceInv'
  <2>1. \A a \in Attempts : QualificationStart(a)' = QualificationStart(a)
    BY <1>2 DEF QualificationStart
  <2> QED
    BY <1>1, <1>2, <1>4, <1>5, <1>6, <2>1 DEF JournalInv, OnceInv, QualificationStart, Users, Procs
<1>12. TipInv'
  <2>1. \A i, j \in DOMAIN journal : Before(i, j)' <=> Before(i, j)
    BY <1>2 DEF Before
  <2>2. Starts' = Starts /\ Starts \subseteq DOMAIN journal /\ journal # <<>>
    BY <1>2 DEF Starts
  <2> QED
    BY <1>2, <2>1, <2>2 DEF JournalInv, TipInv
<1>13. HostInv'
  BY <1>1, <1>3, <1>5, <1>6 DEF JournalInv, HostInv, AtHost
<1>14. InCallOrder' => InCallOrder
  BY <1>2 DEF InCallOrder
<1>15. InCallOrder' => op[p].entry = Len(journal)
  BY <1>4, <1>14 DEF JournalInv, OrderInv
<1>16. OrderInv'
  <2>1. InCallOrder' /\ journal'[Len(journal')].outcome = "succeeded" =>
          Satisfies(journal'[Len(journal')].action, host')
    BY <1>1, <1>2, <1>3, <1>15 DEF JournalInv, HostInv, Entry
  <2> QED
    BY <1>1, <1>2, <1>4, <1>5, <1>14, <1>15, <2>1 DEF JournalInv, OrderInv
<1>17. FrozenInv'
  <2>1. NoCleanup' => NoCleanup
    BY <1>2 DEF NoCleanup
  <2>2. \A q \in Procs : op'[q].step # "intent"
    BY <1>1, <1>5 DEF AtHost
  <2>3. Len(journal) \in DOMAIN journal /\ journal' # <<>> /\ journal # <<>>
    BY <1>2 DEF JournalShape
  <2> QED
    BY <1>2, <1>3, <1>14, <2>1, <2>2, <2>3 DEF JournalInv, FrozenInv
<1> QED
  BY <1>7, <1>8, <1>9, <1>10, <1>11, <1>12, <1>13, <1>16, <1>17 DEF JournalInv

JReplays(p, i) ==
  /\ Replay(p, i) /\ UNCHANGED <<clock, host>>
  /\ Alone(p) /\ op[p].step # "none" /\ ~AtHost(p)
  /\ journal # <<>> /\ i = GroupTip
  /\ journal[i].by = p /\ journal[i].kind = op[p].kind
  /\ journal[i].outcome = "pending" /\ journal[i].action # "acquire"
  /\ journal[i].prior = Observed

LEMMA ReplayKeepsTheJournal ==
  ASSUME JournalShape, JournalInv, NEW p \in Procs, NEW i, JReplays(p, i)
  PROVE  JournalShape' /\ JournalInv'
<1>1. i \in DOMAIN journal /\ i \in Nat
  BY TipIsMaximal, EntriesAreTyped DEF JReplays, JournalInv
<1>2. /\ op' \in [Procs -> OpType] /\ op'[p].kind = op[p].kind /\ op'[p].at = op[p].at
      /\ op'[p].entry = i /\ op'[p].step = "intent" /\ \A q \in Procs \ {p} : op'[q] = op[q]
  <2>1. op \in [Procs -> OpType] /\ op[p] \in OpType
    BY DEF JournalShape
  <2>2. PICK o : o = [op[p] EXCEPT !.step = "intent", !.entry = i]
    OBVIOUS
  <2>3. "intent" \in Steps
    BY DEF Steps
  <2>4. /\ o \in OpType /\ o.kind = op[p].kind /\ o.at = op[p].at /\ o.entry = i
        /\ o.step = "intent"
    BY <1>1, <2>1, <2>2, <2>3 DEF OpType
  <2>5. op' = [op EXCEPT ![p] = o]
    BY <2>1, <2>2 DEF JReplays, Replay, OpType
  <2> QED
    BY <2>1, <2>4, <2>5
<1>3. journal' = journal /\ clock' = clock /\ host' = host
  BY DEF JReplays, Replay
<1>4. (InMutex(p))' /\ (AtHost(p))' /\ (Entry(p))' = journal[i]
  BY <1>2, <1>3 DEF InMutex, AtHost, Entry
<1>5. \A q \in Procs \ {p} : ~AtHost(q) /\ ~(InMutex(q))' /\ ~(AtHost(q))'
  BY <1>2 DEF JReplays, Alone, InMutex, AtHost
<1>6. JournalShape'
  BY <1>2, <1>3 DEF JournalShape
<1>7. OpInv'
  BY <1>1, <1>2, <1>3, <1>4, <1>5 DEF JReplays, JournalInv, OpInv, AtHost
<1>8. MutexInv'
  BY <1>4, <1>5 DEF MutexInv
<1>9. InstantInv'
  <2>1. \A q \in Procs : op'[q].step # "none" =>
          \A j \in DOMAIN journal' : journal'[j].at # op'[q].at
    BY <1>2, <1>3, <1>5 DEF JReplays, JournalInv, InstantInv
  <2> QED
    BY <1>3, <2>1 DEF JournalInv, InstantInv
<1>10. OnceInv'
  BY <1>2, <1>3, <1>4, <1>5 DEF JReplays, JournalInv, OnceInv, QualificationStart, Users, Procs
<1>11. TipInv'
  BY <1>3 DEF JournalInv, TipInv, Starts, Before
<1>12. HostInv'
  BY <1>2, <1>5 DEF HostInv, AtHost
<1>13. InCallOrder' => InCallOrder /\ i = Len(journal)
  BY <1>3, TipIsLast DEF JReplays, JournalInv, InCallOrder
<1>14. OrderInv'
  BY <1>2, <1>3, <1>5, <1>13 DEF JournalInv, OrderInv
<1>15. FrozenInv'
  <2>1. NoCleanup' => NoCleanup
    BY <1>3 DEF NoCleanup
  <2>2. InCallOrder' /\ NoCleanup' => ~Mixed(host)
    BY <1>1, <1>13, <2>1, ObservedMeaning DEF JReplays, JournalInv, FrozenInv
  <2> QED
    BY <1>3, <1>13, <2>1, <2>2 DEF JournalInv, FrozenInv
<1> QED
  BY <1>6, <1>7, <1>8, <1>9, <1>10, <1>11, <1>12, <1>14, <1>15 DEF JournalInv

(* An intent is planned at the instant of its operation, where nothing or  *)
(* only its acquisition is, or it is the one stop of an attempt.           *)
MayIntend(p, action, at) ==
  /\ Alone(p) /\ op[p].step # "none"
  /\ action \in Journals(op[p].kind)
  /\ p \in Attempts /\ action # "stop" => QualificationStart(p) = {}
  /\ \/ /\ at = op[p].at
        /\ AtHost(p) => Entry(p).action = "acquire" /\ action # "acquire"
        /\ p \in Attempts => action # "stop"
     \/ /\ action = "stop" /\ p \in Attempts /\ ~AtHost(p)
        /\ \E k \in QualificationStart(p) : at = journal[k].at
        /\ \A i \in DOMAIN journal : ~(journal[i].by = p /\ journal[i].action = "stop")
  /\ InCallOrder /\ NoCleanup /\ op[p].kind # "qclean" => ~Mixed(host)

JIntends(p, action, at) ==
  Intend(p, action, at) /\ UNCHANGED <<clock, host>> /\ MayIntend(p, action, at)

LEMMA IntentAddsOneEntry ==
  ASSUME JournalShape, JournalInv, NEW p \in Procs, NEW action, NEW at, JIntends(p, action, at)
  PROVE  \E n \in Nat :
           /\ n = Len(journal) + 1 /\ Len(journal') = n /\ DOMAIN journal' = 1..n
           /\ DOMAIN journal = 1..(n - 1) /\ journal' \in Seq(EntryType)
           /\ \A i \in DOMAIN journal : i \in DOMAIN journal' /\ i < n /\ journal'[i] = journal[i]
           /\ n \in DOMAIN journal' /\ n \notin DOMAIN journal
           /\ journal'[n].by = p /\ journal'[n].kind = op[p].kind /\ journal'[n].action = action
           /\ journal'[n].at = at /\ journal'[n].prior = Observed /\ journal'[n].outcome = "pending"
           /\ at \in Nat /\ at > 0 /\ at <= clock /\ action \in Actions /\ op[p].kind \in KindsOf(p)
           /\ op' \in [Procs -> OpType] /\ op'[p].kind = op[p].kind /\ op'[p].at = op[p].at
           /\ op'[p].entry = n /\ op'[p].step = "intent" /\ \A q \in Procs \ {p} : op'[q] = op[q]
<1>1. PICK len \in Nat : len = Len(journal) /\ DOMAIN journal = 1..len
  BY DEF JournalShape
<1>2. op \in [Procs -> OpType] /\ op[p] \in OpType /\ op[p].at \in Nat
  BY DEF JournalShape, OpType
<1>3. op[p].kind \in KindsOf(p) /\ op[p].at \in 1..clock /\ clock \in Nat
  BY DEF JIntends, MayIntend, JournalInv, OpInv, JournalShape
<1>4. op[p].kind \in Kinds
  BY <1>3, KindsOfUsers DEF Kinds, Procs, Users
<1>5. action \in Actions
  BY <1>4, JournalsOfKinds DEF JIntends, MayIntend, Kinds, Actions
<1>6. at \in Nat /\ at > 0 /\ at <= clock
  <2>1. \A k \in DOMAIN journal : journal[k].at \in Nat /\ journal[k].at > 0 /\ journal[k].at <= clock
    BY EntriesAreTyped DEF JournalInv, InstantInv
  <2> QED
    BY <1>3, <2>1 DEF JIntends, MayIntend, QualificationStart
<1>7. PICK e : e = [by |-> p, kind |-> op[p].kind, action |-> action, at |-> at,
                    prior |-> Observed, outcome |-> "pending"]
  OBVIOUS
<1>8. Observed \in [Materials -> HostStates \cup {"starting", "degraded"}]
  BY ObservedMeaning
<1>9. /\ e \in EntryType /\ e.by = p /\ e.kind = op[p].kind /\ e.action = action /\ e.at = at
      /\ e.prior = Observed /\ e.outcome = "pending"
  BY <1>4, <1>5, <1>6, <1>7, <1>8 DEF EntryType, Outcomes
<1>10. journal' = Append(journal, e) /\ journal \in Seq(EntryType)
  BY <1>7 DEF JIntends, Intend, JournalShape
<1>11. PICK n \in Nat : n = len + 1
  OBVIOUS
<1>12. /\ Len(journal') = n /\ DOMAIN journal' = 1..n /\ journal' \in Seq(EntryType)
       /\ journal'[n] = e /\ \A i \in 1..len : journal'[i] = journal[i]
  BY <1>1, <1>9, <1>10, <1>11
<1>13. /\ op' \in [Procs -> OpType] /\ op'[p].kind = op[p].kind /\ op'[p].at = op[p].at
       /\ op'[p].entry = n /\ op'[p].step = "intent" /\ \A q \in Procs \ {p} : op'[q] = op[q]
  <2>1. PICK o : o = [op[p] EXCEPT !.step = "intent", !.entry = n]
    OBVIOUS
  <2>2. "intent" \in Steps
    BY DEF Steps
  <2>3. /\ o \in OpType /\ o.kind = op[p].kind /\ o.at = op[p].at /\ o.entry = n
        /\ o.step = "intent"
    BY <1>2, <2>1, <2>2 DEF OpType
  <2>4. op' = [op EXCEPT ![p].step = "intent", ![p].entry = n]
    BY <1>1, <1>11, Zenon DEF JIntends, Intend
  <2>5. op' = [op EXCEPT ![p] = o]
    BY <1>2, <2>1, <2>4 DEF OpType
  <2> QED
    BY <1>2, <2>3, <2>5
<1>14. /\ n \in 1..n /\ n \notin 1..len /\ len = n - 1
       /\ \A i \in 1..len : i \in 1..n /\ i < n
  BY <1>11
<1> QED
  BY <1>1, <1>3, <1>5, <1>6, <1>9, <1>11, <1>12, <1>13, <1>14

LEMMA IntentKeepsTheJournal ==
  ASSUME JournalShape, JournalInv, NEW p \in Procs, NEW action, NEW at, JIntends(p, action, at)
  PROVE  JournalShape' /\ JournalInv'
<1>1. PICK n \in Nat :
        /\ n = Len(journal) + 1 /\ Len(journal') = n /\ DOMAIN journal' = 1..n
        /\ DOMAIN journal = 1..(n - 1) /\ journal' \in Seq(EntryType)
        /\ \A i \in DOMAIN journal : i \in DOMAIN journal' /\ i < n /\ journal'[i] = journal[i]
        /\ n \in DOMAIN journal' /\ n \notin DOMAIN journal
        /\ journal'[n].by = p /\ journal'[n].kind = op[p].kind /\ journal'[n].action = action
        /\ journal'[n].at = at /\ journal'[n].prior = Observed /\ journal'[n].outcome = "pending"
        /\ at \in Nat /\ at > 0 /\ at <= clock /\ action \in Actions /\ op[p].kind \in KindsOf(p)
        /\ op' \in [Procs -> OpType] /\ op'[p].kind = op[p].kind /\ op'[p].at = op[p].at
        /\ op'[p].entry = n /\ op'[p].step = "intent" /\ \A q \in Procs \ {p} : op'[q] = op[q]
  BY IntentAddsOneEntry
<1>2. \A i \in DOMAIN journal' : i = n \/ i \in DOMAIN journal
  BY <1>1
<1>3. clock' = clock /\ host' = host
  BY DEF JIntends
<1>4. (InMutex(p))' /\ (AtHost(p))' /\ (Entry(p))' = journal'[n]
  BY <1>1 DEF InMutex, AtHost, Entry
<1>5. \A q \in Procs \ {p} : ~AtHost(q) /\ ~(InMutex(q))' /\ ~(AtHost(q))'
  BY <1>1 DEF JIntends, MayIntend, Alone, InMutex, AtHost
<1>6. \A i \in DOMAIN journal : journal[i].at \in Nat /\ Rank(journal[i].action) \in 0..3
  BY EntriesAreTyped
<1>7. Rank(action) \in 0..3
  BY <1>1, RankType
<1>8. JournalShape'
  BY <1>1, <1>3 DEF JournalShape, JIntends
<1>9. OpInv'
  <2>1. op[p].step # "none" /\ op[p].at \in 1..clock /\ \A q \in Procs \ {p} : op[q].at # op[p].at
    BY DEF JIntends, MayIntend, JournalInv, OpInv
  <2>2. \A q \in Procs \ {p} : op'[q].step = "none" => op'[q] = NoOp
    BY <1>1 DEF JournalInv, OpInv
  <2>3. \A q \in Procs : op'[q].step # "none" =>
          /\ op'[q].kind \in KindsOf(q) /\ op'[q].at \in 1..clock'
          /\ \A r \in Procs \ {q} : op'[r].at # op'[q].at
    BY <1>1, <1>3, <2>1 DEF JournalInv, OpInv
  <2>4. \A q \in Procs \ {p} : op'[q].step = "claimed" => op'[q].kind = "qualify"
    BY <1>1 DEF JournalInv, OpInv
  <2> QED
    BY <1>1, <1>4, <1>5, <2>2, <2>3, <2>4 DEF OpInv, AtHost
<1>10. MutexInv'
  BY <1>4, <1>5 DEF MutexInv
<1>11. InstantInv'
  <2>1. \A i \in DOMAIN journal' :
          /\ journal'[i].at <= clock'
          /\ journal'[i].kind \in KindsOf(journal'[i].by)
          /\ journal'[i].action \in Journals(journal'[i].kind)
    BY <1>1, <1>2, <1>3 DEF JournalInv, InstantInv, JIntends, MayIntend
  <2>2. \A i \in DOMAIN journal : journal[i].at = at => journal[i].by = p
    BY DEF JournalInv, InstantInv, JIntends, MayIntend, QualificationStart
  <2>3. \A i, j \in DOMAIN journal' :
          journal'[i].at = journal'[j].at => journal'[i].by = journal'[j].by
    BY <1>1, <1>2, <2>2 DEF JournalInv, InstantInv
  <2>4. \A q \in Procs \ {p} : op[q].step # "none" =>
          at # op[q].at /\ \A i \in DOMAIN journal : journal[i].at # op[q].at
    <3>1. \A q \in Procs \ {p} : op[q].step # "none" =>
            \A i \in DOMAIN journal : journal[i].at # op[q].at
      BY <1>5 DEF JournalInv, InstantInv
    <3>2. \A q \in Procs \ {p} : op[q].step # "none" => op[p].at # op[q].at
      BY DEF JournalInv, OpInv
    <3> QED
      BY <3>1, <3>2 DEF JIntends, MayIntend, QualificationStart
  <2>5. \A i \in DOMAIN journal : journal[i].at = op[p].at =>
          journal[i].action = "acquire" /\ action # "acquire"
    BY DEF JournalInv, InstantInv, JIntends, MayIntend, Entry
  <2>6. \A i \in DOMAIN journal' : journal'[i].at = op'[p].at =>
          /\ journal'[i].by = p
          /\ i = n \/ (journal'[i].action = "acquire" /\ action # "acquire")
    BY <1>1, <1>2, <2>5 DEF JournalInv, InstantInv, JIntends, MayIntend
  <2>7. \A q \in Procs \ {p} : op'[q].step # "none" =>
          \A i \in DOMAIN journal' : journal'[i].at # op'[q].at
    BY <1>1, <1>2, <2>4
  <2> QED
    BY <1>1, <1>4, <2>1, <2>3, <2>6, <2>7 DEF InstantInv
<1>12. OnceInv'
  <2> SUFFICES ASSUME NEW a \in Attempts
               PROVE  /\ \A i, j \in QualificationStart(a)' : i = j
                      /\ \A i, j \in DOMAIN journal' :
                           journal'[i].by = a /\ journal'[j].by = a
                             /\ journal'[i].action = "stop" /\ journal'[j].action = "stop" => i = j
                      /\ \A i \in DOMAIN journal' : journal'[i].by = a /\ journal'[i].action = "stop" =>
                           \E k \in QualificationStart(a)' : journal'[k].at = journal'[i].at
                      /\ op'[a].kind = "qualify" /\ (AtHost(a))' /\ (Entry(a))'.action = "acquire" =>
                           QualificationStart(a)' = {}
    BY DEF OnceInv
  <2>1. \A i \in DOMAIN journal : i \in QualificationStart(a)' <=> i \in QualificationStart(a)
    BY <1>1 DEF QualificationStart
  <2>2. n \in QualificationStart(a)' <=> a = p /\ action = "qualification-start"
    BY <1>1 DEF QualificationStart
  <2>3. QualificationStart(a)' \subseteq DOMAIN journal' /\ QualificationStart(a) \subseteq DOMAIN journal
    BY DEF QualificationStart
  <2>4. a = p /\ action # "stop" => QualificationStart(a) = {}
    BY DEF JIntends, MayIntend
  <2>5. a = p /\ action = "stop" =>
          /\ \E k \in QualificationStart(a) : at = journal[k].at
          /\ \A i \in DOMAIN journal : ~(journal[i].by = p /\ journal[i].action = "stop")
    BY DEF JIntends, MayIntend
  <2>6. /\ \A i, j \in QualificationStart(a) : i = j
        /\ \A i, j \in DOMAIN journal :
             journal[i].by = a /\ journal[j].by = a
               /\ journal[i].action = "stop" /\ journal[j].action = "stop" => i = j
        /\ \A i \in DOMAIN journal : journal[i].by = a /\ journal[i].action = "stop" =>
             \E k \in QualificationStart(a) : journal[k].at = journal[i].at
    BY DEF JournalInv, OnceInv
  <2>7. \A i, j \in QualificationStart(a)' : i = j
    BY <1>2, <2>1, <2>2, <2>3, <2>4, <2>6
  <2>8. \A i, j \in DOMAIN journal' :
          journal'[i].by = a /\ journal'[j].by = a
            /\ journal'[i].action = "stop" /\ journal'[j].action = "stop" => i = j
    BY <1>1, <1>2, <2>5, <2>6
  <2>9. ASSUME NEW i \in DOMAIN journal', journal'[i].by = a, journal'[i].action = "stop"
        PROVE  \E k \in QualificationStart(a)' : journal'[k].at = journal'[i].at
    <3>1. \E k \in QualificationStart(a) : journal[k].at = journal'[i].at
      BY <1>1, <1>2, <2>5, <2>6, <2>9
    <3> QED
      BY <1>1, <2>1, <2>3, <3>1
  <2>10. op'[a].kind = "qualify" /\ (AtHost(a))' /\ (Entry(a))'.action = "acquire" =>
           QualificationStart(a)' = {}
    <3>1. (AtHost(a))' => a = p
      BY <1>5 DEF Procs, Users
    <3>2. a = p /\ action = "acquire" => QualificationStart(a)' = {}
      BY <1>2, <2>1, <2>2, <2>3, <2>4
    <3> QED
      BY <1>1, <1>4, <3>1, <3>2
  <2> QED
    BY <2>7, <2>8, <2>9, <2>10
<1>13. \A i, j \in DOMAIN journal : Before(i, j)' <=> Before(i, j)
  BY <1>1 DEF Before
<1>14. ASSUME NEW i \in DOMAIN journal
       PROVE  /\ Before(i, n)' <=>
                   (journal[i].at < at \/ (journal[i].at = at /\ Rank(journal[i].action) <= Rank(action)))
              /\ Before(n, i)' <=>
                   (at < journal[i].at \/ (at = journal[i].at /\ Rank(action) <= Rank(journal[i].action)))
  BY <1>1 DEF Before
<1>15. Before(n, n)'
  BY <1>1, <1>7 DEF Before
<1>16. \A i, j \in DOMAIN journal : Before(j, i) /\ Before(i, n)' => Before(j, n)'
  <2> SUFFICES ASSUME NEW i \in DOMAIN journal, NEW j \in DOMAIN journal, Before(j, i), Before(i, n)'
               PROVE  Before(j, n)'
    OBVIOUS
  <2>1. /\ journal[i].at \in Nat /\ Rank(journal[i].action) \in 0..3
        /\ journal[j].at \in Nat /\ Rank(journal[j].action) \in 0..3
    BY <1>6
  <2>2. \/ journal[j].at < journal[i].at
        \/ journal[j].at = journal[i].at /\ Rank(journal[j].action) <= Rank(journal[i].action)
    BY DEF Before
  <2>3. \/ journal[i].at < at
        \/ journal[i].at = at /\ Rank(journal[i].action) <= Rank(action)
    BY <1>14
  <2>4. \/ journal[j].at < at
        \/ journal[j].at = at /\ Rank(journal[j].action) <= Rank(action)
    BY <1>1, <1>7, <2>1, <2>2, <2>3
  <2> QED
    BY <1>14, <2>4
<1>17. \A i \in DOMAIN journal : Before(i, n)' \/ Before(n, i)'
  <2> SUFFICES ASSUME NEW i \in DOMAIN journal
               PROVE  Before(i, n)' \/ Before(n, i)'
    OBVIOUS
  <2>1. journal[i].at \in Nat /\ Rank(journal[i].action) \in 0..3
    BY <1>6
  <2> QED
    BY <1>1, <1>7, <1>14, <2>1
<1>18. TipInv'
  <2>1. \E i \in DOMAIN journal' : \A j \in DOMAIN journal' : Before(j, i)'
    <3>1. CASE journal = <<>>
      BY <1>1, <1>2, <1>15, <3>1
    <3>2. CASE journal # <<>>
      <4>1. PICK i \in DOMAIN journal : \A j \in DOMAIN journal : Before(j, i)
        BY <3>2 DEF JournalInv, TipInv
      <4>2. CASE Before(n, i)'
        BY <1>1, <1>2, <1>13, <4>1, <4>2
      <4>3. CASE Before(i, n)'
        BY <1>1, <1>2, <1>15, <1>16, <4>1, <4>3
      <4> QED
        BY <1>17, <4>2, <4>3
    <3> QED
      BY <3>1, <3>2
  <2>2. /\ \A i \in DOMAIN journal : i \in Starts' <=> i \in Starts
        /\ Starts' \subseteq DOMAIN journal' /\ Starts \subseteq DOMAIN journal
    BY <1>1 DEF Starts
  <2>3. ASSUME Starts' # {}
        PROVE  \E i \in Starts' : \A j \in Starts' : Before(j, i)'
    <3>1. CASE Starts = {}
      BY <1>2, <1>15, <2>2, <2>3, <3>1
    <3>2. CASE Starts # {}
      <4>1. PICK i \in Starts : \A j \in Starts : Before(j, i)
        BY <3>2 DEF JournalInv, TipInv
      <4>2. CASE n \notin Starts' \/ Before(n, i)'
        BY <1>1, <1>2, <1>13, <2>2, <4>1, <4>2
      <4>3. CASE n \in Starts' /\ Before(i, n)'
        BY <1>1, <1>2, <1>15, <1>16, <2>2, <4>1, <4>3
      <4> QED
        BY <1>17, <2>2, <4>1, <4>2, <4>3
    <3> QED
      BY <3>1, <3>2
  <2> QED
    BY <2>1, <2>3 DEF TipInv
<1>19. HostInv'
  BY <1>1, <1>5 DEF HostInv, AtHost
<1>20. InCallOrder' => InCallOrder /\ \A i \in DOMAIN journal : journal[i].at <= at
  BY <1>1 DEF InCallOrder
<1>21. OrderInv'
  <2>1. \A i \in DOMAIN journal : journal[i].at = at => Rank(journal[i].action) < Rank(action)
    <3>1. CASE at = op[p].at
      <4>1. \A i \in DOMAIN journal : journal[i].at = at => journal[i].action = "acquire" /\ action # "acquire"
        BY <3>1 DEF JournalInv, InstantInv, JIntends, MayIntend, Entry
      <4>2. action # "acquire" => Rank(action) > 0
        BY <1>1, RankValues DEF Actions
      <4> QED
        BY <4>1, <4>2, RankValues
    <3>2. CASE at # op[p].at
      <4>1. /\ action = "stop" /\ \E k \in DOMAIN journal : journal[k].by = p /\ at = journal[k].at
            /\ \A i \in DOMAIN journal : ~(journal[i].by = p /\ journal[i].action = "stop")
        BY <3>2 DEF JIntends, MayIntend, QualificationStart
      <4>2. \A i \in DOMAIN journal : journal[i].at = at => journal[i].action # "stop"
        BY <4>1 DEF JournalInv, InstantInv
      <4>3. \A i \in DOMAIN journal : journal[i].action # "stop" => Rank(journal[i].action) < 3
        BY EntriesAreTyped, RankValues DEF Actions
      <4> QED
        BY <4>1, <4>2, <4>3, RankValues
    <3> QED
      BY <3>1, <3>2
  <2>2. InCallOrder' => \A i, j \in DOMAIN journal' : i < j /\ journal'[i].at = journal'[j].at =>
                          Rank(journal'[i].action) < Rank(journal'[j].action)
    <3> SUFFICES ASSUME InCallOrder', NEW i \in DOMAIN journal', NEW j \in DOMAIN journal',
                        i < j, journal'[i].at = journal'[j].at
                 PROVE  Rank(journal'[i].action) < Rank(journal'[j].action)
      OBVIOUS
    <3>1. i \in DOMAIN journal
      BY <1>1
    <3>2. CASE j = n
      BY <1>1, <2>1, <3>1, <3>2
    <3>3. CASE j \in DOMAIN journal
      BY <1>1, <1>20, <3>1, <3>3 DEF JournalInv, OrderInv
    <3> QED
      BY <1>2, <3>2, <3>3
  <2>3. \A q \in Procs : (AtHost(q))' => op'[q].entry = Len(journal')
    BY <1>1, <1>5
  <2>4. journal'[Len(journal')].outcome # "succeeded"
    BY <1>1
  <2> QED
    BY <2>2, <2>3, <2>4 DEF OrderInv
<1>22. FrozenInv'
  <2> SUFFICES ASSUME InCallOrder', NoCleanup'
               PROVE  /\ \A i \in DOMAIN journal' : ~Mixed(journal'[i].prior)
                      /\ ~Mixed(host')
    BY DEF FrozenInv
  <2>1. InCallOrder /\ NoCleanup /\ op[p].kind # "qclean"
    BY <1>1, <1>20 DEF NoCleanup
  <2>2. ~Mixed(host) /\ ~Mixed(Observed)
    BY <2>1, ObservedMeaning DEF JIntends, MayIntend
  <2>3. \A i \in DOMAIN journal : ~Mixed(journal[i].prior)
    BY <2>1 DEF JournalInv, FrozenInv
  <2> QED
    BY <1>1, <1>2, <1>3, <2>2, <2>3
<1> QED
  BY <1>8, <1>9, <1>10, <1>11, <1>12, <1>18, <1>19, <1>21, <1>22 DEF JournalInv
-----------------------------------------------------------------------------
(* What an operation of one process does to the users of the group *)

UserStep(p) ==
  /\ \A q \in Procs \ {p} : op'[q] = op[q]
  /\ \A u \in Users \ {p} :
       /\ use'[u] = use[u]
       /\ u \in leases' <=> u \in leases
       /\ u \in expired' <=> u \in expired
  /\ p \in Active' /\ p \notin Active => Alone(p)
  /\ p \in Sessions /\ use'[p] = "live" =>
       /\ op'[p] = NoOp /\ p \in Active' /\ AllActive(host')
       /\ use[p] # "live" => Alone(p) /\ Active \cap Attempts = {}
  /\ p \in Attempts /\ use'[p] \in {"probing", "stop-ready"} =>
       /\ p \in Active'
       /\ use[p] \in {"probing", "stop-ready"} \/ Active \subseteq {p}
  /\ ~NobodyLive /\ AllActive(host) => AllActive(host')
  /\ p \in Users => (Holder(p))'

LEMMA UsersAreProcs ==
  /\ Sessions \subseteq Users /\ Attempts \subseteq Users /\ Users \subseteq Procs /\ Admin \in Procs
  /\ \A s \in Sessions : s \notin Attempts /\ s # Admin
  /\ \A a \in Attempts : a \notin Sessions /\ a # Admin
  /\ \A u \in Users : u \in Sessions \/ u \in Attempts
BY LaunchGroupAssumption DEF Procs, Users

LEMMA UsersKept ==
  ASSUME UserShape', UserInv, HolderInv, NEW p \in Procs, UserStep(p)
  PROVE  UserInv' /\ HolderInv'
<1>1. \A u \in Users \ {p} : u \in Active' <=> u \in Active
  BY DEF UserStep, Active
<1>2. \A s \in Sessions : use[s] = "live" => ~NobodyLive /\ AllActive(host) /\ s \in Active
  BY DEF UserInv, NobodyLive, AllActive
<1>3. ASSUME NEW s \in Sessions, use'[s] = "live"
      PROVE  op'[s] = NoOp /\ s \in Active' /\ \A m \in Materials : host'[m] = "active"
  <2>1. CASE s = p
    BY <1>3, <2>1 DEF UserStep, AllActive
  <2>2. CASE s # p
    <3>1. use[s] = "live" /\ op'[s] = op[s]
      BY <1>3, <2>2, UsersAreProcs DEF UserStep
    <3>2. AllActive(host')
      BY <1>2, <3>1 DEF UserStep
    <3> QED
      BY <1>1, <2>2, <3>1, <3>2, UsersAreProcs DEF UserInv, AllActive
  <2> QED
    BY <2>1, <2>2
<1>4. ASSUME NEW a \in Attempts, use'[a] \in {"probing", "stop-ready"}
      PROVE  /\ a \in Active' /\ NobodyLive'
             /\ \A b \in Attempts \ {a} : use'[b] \notin {"probing", "stop-ready"}
  <2>1. CASE a = p
    <3>1. \A s \in Sessions : use'[s] = use[s]
      BY <2>1, UsersAreProcs DEF UserStep
    <3>2. \A b \in Attempts \ {a} : use'[b] = use[b]
      BY <2>1, UsersAreProcs DEF UserStep
    <3>3. a \in Active'
      BY <1>4, <2>1 DEF UserStep
    <3>4. CASE use[a] \in {"probing", "stop-ready"}
      BY <3>1, <3>2, <3>3, <3>4 DEF UserInv, NobodyLive
    <3>5. CASE Active \subseteq {a}
      <4>1. \A s \in Sessions : use[s] # "live"
        BY <1>2, <3>5, UsersAreProcs
      <4>2. \A b \in Attempts \ {a} : use[b] \notin {"probing", "stop-ready"}
        BY <3>5 DEF UserInv
      <4> QED
        BY <3>1, <3>2, <3>3, <4>1, <4>2 DEF NobodyLive
    <3> QED
      BY <1>4, <2>1, <3>4, <3>5 DEF UserStep
  <2>2. CASE a # p
    <3>1. use[a] \in {"probing", "stop-ready"} /\ a \in Active /\ a \in Active'
      BY <1>1, <1>4, <2>2, UsersAreProcs DEF UserStep, UserInv
    <3>2. NobodyLive /\ \A b \in Attempts \ {a} : use[b] \notin {"probing", "stop-ready"}
      BY <3>1 DEF UserInv
    <3>3. \A s \in Sessions : use'[s] # "live"
      BY <3>1, <3>2, UsersAreProcs DEF UserStep, NobodyLive
    <3>4. \A b \in Attempts \ {a} : use'[b] \notin {"probing", "stop-ready"}
      BY <2>2, <3>1, <3>2, UsersAreProcs DEF UserStep
    <3> QED
      BY <3>1, <3>3, <3>4 DEF NobodyLive
  <2> QED
    BY <2>1, <2>2
<1>5. UserInv'
  BY <1>3, <1>4 DEF UserInv
<1>6. ASSUME NEW q \in Users
      PROVE  (Holder(q))'
  <2>1. CASE q = p
    BY <2>1 DEF UserStep
  <2>2. CASE q # p
    <3>1. op'[q] = op[q] /\ use'[q] = use[q] /\ (q \in expired' <=> q \in expired) /\ q \in Procs
      BY <2>2, UsersAreProcs DEF UserStep
    <3>2. ASSUME InMutex(q)
          PROVE  ~Alone(p) /\ Active' \subseteq Active /\ (NobodyLive => NobodyLive')
      <4>1. ~Alone(p)
        BY <2>2, <3>1, <3>2 DEF Alone
      <4>2. Active' \subseteq Users
        BY DEF UserShape, Active
      <4>3. Active' \subseteq Active
        BY <1>1, <4>1, <4>2 DEF UserStep
      <4>4. NobodyLive => NobodyLive'
        BY <4>1, UsersAreProcs DEF UserStep, NobodyLive
      <4> QED
        BY <4>1, <4>3, <4>4
    <3>3. (InMutex(q))' <=> InMutex(q)
      BY <3>1 DEF InMutex
    <3>4. InMutex(q) /\ Knows(q) => (Knows(q))'
      BY <3>1, <3>2 DEF Knows
    <3> QED
      BY <3>1, <3>3, <3>4 DEF HolderInv, Holder
  <2> QED
    BY <2>1, <2>2
<1> QED
  BY <1>5, <1>6 DEF HolderInv

(* A step of one process that keeps both halves keeps the invariant. *)
LEMMA StepKeeps ==
  ASSUME IInv, NEW p \in Procs, UserShape', UserStep(p), JournalShape', JournalInv', FailedStartInv'
  PROVE  IInv'
BY UsersKept DEF IInv, Shape

LEMMA SameJournalKeepsFailedStarts ==
  ASSUME FailedStartInv, UNCHANGED <<journal, setting>>, NobodyLive => NobodyLive'
  PROVE  FailedStartInv'
BY DEF FailedStartInv, Before

LEMMA IntentKeepsFailedStarts ==
  ASSUME IInv, NEW p \in Procs, NEW action, NEW at, JIntends(p, action, at),
         UNCHANGED <<setting, use>>
  PROVE  FailedStartInv'
<1>1. PICK n \in Nat :
        /\ DOMAIN journal' = 1..n /\ DOMAIN journal = 1..(n - 1)
        /\ \A i \in DOMAIN journal : i \in DOMAIN journal' /\ journal'[i] = journal[i]
        /\ journal'[n].outcome = "pending"
  BY IntentAddsOneEntry DEF IInv, Shape
<1>2. \A i \in DOMAIN journal' : i = n \/ i \in DOMAIN journal
  BY <1>1
<1>3. \A i, j \in DOMAIN journal : Before(i, j)' <=> Before(i, j)
  BY <1>1 DEF Before
<1>4. NobodyLive' <=> NobodyLive
  BY DEF NobodyLive
<1> QED
  BY <1>1, <1>2, <1>3, <1>4 DEF IInv, FailedStartInv

(* Actions defined by cases, as disjunctions *)

LEMMA EnsureConcludesForm ==
  ASSUME NEW s, EnsureConcludes(s)
  PROVE  /\ AtStep(s, {"ensure"}, "settled") /\ UNCHANGED <<host, expired, clock, run, faults>>
         /\ \/ op[s].status = "succeeded" /\ Entry(s).action = "acquire" /\ EnsureProceeds(s)
            \/ AllActive(Observed) /\ ClaimLease(s)
            \/ Leave(s) /\ UNCHANGED <<journal, leases, use>>
BY Zenon DEF EnsureConcludes

LEMMA ReleaseEntersForm ==
  ASSUME NEW s, ReleaseEnters(s)
  PROVE  /\ Waiting(s, "release") /\ UNCHANGED <<host, clock, run, faults>>
         /\ \/ Throws(s)
            \/ ReleaseLease(s, "done") /\ (setting.demand \/ ProtectedByOther(s) \/ AllInactive(Observed))
            \/ /\ s \in Active /\ ~ProtectedByOther(s) /\ NoPending
               /\ Intend(s, "stop", op[s].at) /\ UNCHANGED <<leases, expired, use>>
<1>1. Waiting(s, "release") /\ UNCHANGED <<host, clock, run, faults>>
  BY DEF ReleaseEnters
<1>2. CASE s \notin Active
  BY <1>1, <1>2, Zenon DEF ReleaseEnters
<1>3. CASE s \in Active
  <2>1. \/ setting.demand /\ ReleaseLease(s, "done")
        \/ ProtectedByOther(s) /\ ReleaseLease(s, "done")
        \/ /\ ~ProtectedByOther(s)
           /\ CASE ~NoPending -> Throws(s)
                [] NoPending /\ AllInactive(Observed) -> ReleaseLease(s, "done")
                [] OTHER -> Intend(s, "stop", op[s].at) /\ UNCHANGED <<leases, expired, use>>
    BY <1>3, Zenon DEF ReleaseEnters
  <2> QED
    BY <1>1, <1>3, <2>1, Zenon
<1> QED
  BY <1>2, <1>3

LEMMA QualifyDecidesForm ==
  ASSUME NEW a, QualifyDecides(a)
  PROVE  /\ AtStep(a, {"qualify"}, "claimed") /\ UNCHANGED <<host, expired, clock, run, faults>>
         /\ \/ StartProved(a)
            \/ /\ GroupTip \in QualificationStart(a) /\ journal[GroupTip].outcome = "pending"
               /\ journal[GroupTip].prior = Observed
               /\ Replay(a, GroupTip) /\ UNCHANGED <<leases, use>>
            \/ /\ AllInactive(Observed) /\ QualificationStart(a) = {}
               /\ Intend(a, IF AllInstalled(Observed) THEN "qualification-start" ELSE "acquire", op[a].at)
               /\ UNCHANGED <<leases, use>>
            \/ QualifyThrows(a)
BY Zenon DEF QualifyDecides

LEMMA QualifyConcludesForm ==
  ASSUME NEW a, QualifyConcludes(a)
  PROVE  /\ AtStep(a, {"qualify"}, "settled") /\ UNCHANGED <<host, expired, clock, run, faults>>
         /\ \/ /\ Entry(a).action = "acquire" /\ op[a].status = "succeeded"
               /\ Intend(a, "qualification-start", op[a].at) /\ UNCHANGED <<leases, use>>
            \/ StartProved(a)
            \/ QualifyThrows(a)
BY Zenon DEF QualifyConcludes

LEMMA StopEntersForm ==
  ASSUME NEW a, StopEnters(a)
  PROVE  /\ Waiting(a, "qstop") /\ UNCHANGED <<host, clock, run, faults>>
         /\ \/ Throws(a)
            \/ AllInactive(Observed) /\ ReleaseLease(a, "stopped")
            \/ /\ GroupTip \in StopOf(a, "qstop") /\ journal[GroupTip].outcome = "pending"
               /\ journal[GroupTip].prior = Observed
               /\ Replay(a, GroupTip) /\ UNCHANGED <<leases, expired, use>>
            \/ /\ GroupTip \in QualificationStart(a) /\ AllActive(Observed)
               /\ Intend(a, "stop", journal[StartOf(a)].at) /\ UNCHANGED <<leases, expired, use>>
BY Zenon DEF StopEnters

LEMMA CleanupEntersForm ==
  ASSUME NEW a, CleanupEnters(a)
  PROVE  /\ Waiting(a, "qclean") /\ UNCHANGED <<host, clock, run, faults>>
         /\ \/ Throws(a)
            \/ /\ GroupTip \in StopOf(a, "qclean")
               /\ journal[GroupTip].outcome = "succeeded" \/ AllInactive(Observed)
               /\ ReleaseLease(a, "done")
            \/ /\ journal[StartOf(a)].outcome = "failed" /\ GroupTip \in QualificationStart(a)
               /\ ~AllActive(Observed)
               /\ Intend(a, "stop", journal[StartOf(a)].at) /\ UNCHANGED <<leases, expired, use>>
BY Zenon DEF CleanupEnters
-----------------------------------------------------------------------------
(* The effects the actions are made of *)

LEMMA LiveFacts ==
  ASSUME IInv
  PROVE  /\ \A s \in Sessions : use[s] = "live" => op[s] = NoOp /\ s \in Active /\ AllActive(host)
         /\ \A a \in Attempts : use[a] \in {"probing", "stop-ready"} => a \in Active
BY DEF IInv, UserInv, AllActive

LEMMA LeaveKeeps ==
  ASSUME IInv, NEW p \in Procs, Leave(p),
         UNCHANGED <<setting, host, journal, leases, expired, clock, use, run, faults>>
  PROVE  IInv'
<1>1. op'[p] = NoOp /\ op'[p].step = "none" /\ \A q \in Procs \ {p} : op'[q] = op[q]
  BY DEF Leave, IInv, Shape, JournalShape, NoOp
<1>2. JournalShape' /\ JournalInv'
  BY LeaveKeepsTheJournal DEF JLeaves, IInv, Shape
<1>3. UserShape'
  BY DEF IInv, Shape, UserShape
<1>4. Active' = Active /\ (NobodyLive' <=> NobodyLive)
  BY DEF Active, NobodyLive
<1>5. UserStep(p)
  BY <1>1, <1>4, LiveFacts DEF UserStep, Holder
<1>6. FailedStartInv'
  BY <1>4, SameJournalKeepsFailedStarts DEF IInv
<1> QED
  BY <1>2, <1>3, <1>5, <1>6, StepKeeps

LEMMA CallKeeps ==
  ASSUME IInv, NEW p \in Procs, NEW kind \in KindsOf(p), NEW resume \in BOOLEAN,
         Call(p, kind, resume), UNCHANGED <<setting, host, journal, leases, expired, run, faults>>,
         p = Admin => use' = use,
         p \in Users =>
           /\ use' = [use EXCEPT ![p] = IF kind = "qstop" THEN "stop-ready" ELSE "idle"]
           /\ kind = "qstop" => use[p] = "stop-ready"
  PROVE  IInv'
<1>1. kind \in Kinds
  BY KindsOfUsers DEF Kinds, Procs, Users
<1>2. JCalls(p, kind, resume)
  BY DEF JCalls, Call
<1>3. JournalShape' /\ JournalInv'
  BY <1>1, <1>2, CallKeepsTheJournal DEF IInv, Shape
<1>4. op'[p].kind = kind /\ op'[p].step = "waiting" /\ \A q \in Procs \ {p} : op'[q] = op[q]
  BY DEF Call, IInv, Shape, JournalShape, NoOp
<1>5. use \in [Users -> UseStates]
  BY DEF IInv, Shape, UserShape
<1>6. /\ use' \in [Users -> UseStates] /\ \A u \in Users \ {p} : use'[u] = use[u]
      /\ p \in Users => use'[p] = IF kind = "qstop" THEN "stop-ready" ELSE "idle"
  BY <1>5 DEF Procs, UseStates
<1>7. UserShape'
  BY <1>6 DEF IInv, Shape, UserShape
<1>8. Active' = Active /\ (NobodyLive => NobodyLive')
  BY <1>6, UsersAreProcs DEF Active, NobodyLive
<1>9. ~(InMutex(p))'
  BY <1>4 DEF InMutex
<1>10. UserStep(p)
  BY <1>4, <1>6, <1>8, <1>9, LiveFacts, UsersAreProcs DEF UserStep, Holder
<1>11. FailedStartInv'
  BY <1>8, SameJournalKeepsFailedStarts DEF IInv
<1> QED
  BY <1>3, <1>7, <1>10, <1>11, StepKeeps

LEMMA ReleaseLeaseKeeps ==
  ASSUME IInv, NEW u \in Users, NEW to \in {"done", "stopped"}, ReleaseLease(u, to),
         UNCHANGED <<setting, host, clock, run, faults>>
  PROVE  IInv'
<1>1. op'[u] = NoOp /\ op'[u].step = "none" /\ \A q \in Procs \ {u} : op'[q] = op[q]
  BY UsersAreProcs DEF ReleaseLease, Leave, IInv, Shape, JournalShape, NoOp
<1>2. u \in Procs
  BY UsersAreProcs
<1>3. JournalShape' /\ JournalInv'
  BY <1>2, LeaveKeepsTheJournal DEF JLeaves, IInv, Shape, ReleaseLease
<1>4. /\ use \in [Users -> UseStates] /\ use' = [use EXCEPT ![u] = to]
      /\ leases' = leases \ {u} /\ expired' = expired \ {u}
  BY DEF IInv, Shape, UserShape, ReleaseLease
<1>5. use' \in [Users -> UseStates] /\ use'[u] = to /\ \A v \in Users \ {u} : use'[v] = use[v]
  BY <1>4 DEF UseStates
<1>6. UserShape'
  BY <1>4, <1>5 DEF IInv, Shape, UserShape
<1>7. u \notin Active' /\ (NobodyLive => NobodyLive')
  BY <1>4, <1>5, UsersAreProcs DEF Active, NobodyLive
<1>8. UserStep(u)
  BY <1>1, <1>4, <1>5, <1>7, UsersAreProcs DEF UserStep, Holder
<1>9. FailedStartInv'
  BY <1>7, SameJournalKeepsFailedStarts DEF IInv, ReleaseLease
<1> QED
  BY <1>2, <1>3, <1>6, <1>8, <1>9, StepKeeps

(* The holder goes to the host: what it knows does not depend on its step. *)
LEMMA GoToHostKeeps ==
  ASSUME IInv, NEW p \in Procs, JournalShape', JournalInv', FailedStartInv',
         op[p].step # "none", op'[p].step = "intent", op'[p].kind = op[p].kind,
         \A q \in Procs \ {p} : op'[q] = op[q],
         p \in Users => Knows(p),
         UNCHANGED <<setting, host, leases, expired, use, run, faults>>
  PROVE  IInv'
<1>1. UserShape'
  BY DEF IInv, Shape, UserShape
<1>2. Active' = Active /\ (NobodyLive' <=> NobodyLive)
  BY DEF Active, NobodyLive
<1>3. p \in Users => (Holder(p))'
  <2>1. p \in Users => (Knows(p))'
    BY <1>2 DEF Knows
  <2> QED
    BY <2>1 DEF Holder, IInv, HolderInv
<1>4. \A s \in Sessions : use[s] = "live" => s # p
  BY LiveFacts DEF NoOp
<1>5. UserStep(p)
  BY <1>2, <1>3, <1>4, LiveFacts DEF UserStep
<1> QED
  BY <1>1, <1>5, StepKeeps

LEMMA IntendKeeps ==
  ASSUME IInv, NEW p \in Procs, NEW action, NEW at, JIntends(p, action, at),
         p \in Users => Knows(p),
         UNCHANGED <<setting, leases, expired, use, run, faults>>
  PROVE  IInv'
<1>1. JournalShape' /\ JournalInv'
  BY IntentKeepsTheJournal DEF IInv, Shape
<1>2. FailedStartInv'
  BY IntentKeepsFailedStarts
<1>3. /\ op'[p].step = "intent" /\ op'[p].kind = op[p].kind
      /\ \A q \in Procs \ {p} : op'[q] = op[q]
  BY IntentAddsOneEntry DEF IInv, Shape
<1>4. op[p].step # "none" /\ UNCHANGED host
  BY DEF JIntends, MayIntend
<1> QED
  BY <1>1, <1>2, <1>3, <1>4, GoToHostKeeps

LEMMA ReplayKeeps ==
  ASSUME IInv, NEW p \in Procs, NEW i, JReplays(p, i),
         p \in Users => Knows(p),
         UNCHANGED <<setting, leases, expired, use, run, faults>>
  PROVE  IInv'
<1>1. JournalShape' /\ JournalInv'
  BY ReplayKeepsTheJournal DEF IInv, Shape
<1>2. FailedStartInv'
  BY SameJournalKeepsFailedStarts DEF IInv, JReplays, Replay, NobodyLive
<1>3. /\ op'[p].step = "intent" /\ op'[p].kind = op[p].kind
      /\ \A q \in Procs \ {p} : op'[q] = op[q]
  <2>1. op \in [Procs -> OpType] /\ op[p] \in OpType
    BY DEF IInv, Shape, JournalShape
  <2> QED
    BY <2>1 DEF JReplays, Replay, OpType
<1>4. op[p].step # "none" /\ UNCHANGED host
  BY DEF JReplays
<1> QED
  BY <1>1, <1>2, <1>3, <1>4, GoToHostKeeps
-----------------------------------------------------------------------------
(* The administrator and the sessions *)

(* A settled tip, or an acquisition just made, leaves the group whole. *)
LEMMA SettledIsWhole ==
  ASSUME JournalShape, JournalInv, NoPending, InCallOrder, NoCleanup
  PROVE  ~Mixed(host)
<1>1. CASE journal = <<>>
  BY <1>1 DEF JournalInv, FrozenInv
<1>2. CASE journal # <<>>
  <2>1. PICK n \in DOMAIN journal : n = GroupTip /\ n = Len(journal)
    BY <1>2, TipIsLast DEF JournalInv
  <2>2. PICK action \in Actions : action = journal[n].action
    BY EntriesAreTyped
  <2>3. Satisfies(action, Observed) \/ journal[n].prior = Observed
    BY <1>2, <2>1, <2>2, Zenon DEF NoPending
  <2>4. CASE journal[n].prior = Observed
    BY <2>4, ObservedMeaning DEF JournalInv, FrozenInv
  <2>5. CASE Satisfies(action, Observed) /\ action # "acquire"
    <3>1. AllActive(Observed) \/ AllInactive(Observed)
      BY <2>5, SatisfiesMeaning DEF Actions
    <3>2. ~Mixed(Observed)
      BY <3>1 DEF AllActive, AllInactive, Mixed
    <3> QED
      BY <3>2, ObservedMeaning
  <2>6. CASE action = "acquire"
    BY <2>1, <2>2, <2>6 DEF JournalInv, FrozenInv
  <2> QED
    BY <2>3, <2>4, <2>5, <2>6
<1> QED
  BY <1>1, <1>2

LEMMA AcquiredIsWhole ==
  ASSUME JournalShape, JournalInv, InCallOrder, NoCleanup, NEW p \in Procs, AtHost(p),
         Entry(p).action = "acquire"
  PROVE  ~Mixed(host)
<1>1. op[p].entry = Len(journal)
  BY DEF JournalInv, OrderInv
<1> QED
  BY <1>1 DEF JournalInv, FrozenInv, Entry

LEMMA AcquiredIsInstalled ==
  ASSUME JournalShape, JournalInv, NEW p \in Procs, op[p].step = "settled",
         op[p].status = "succeeded", Entry(p).action = "acquire"
  PROVE  AllInstalled(Observed)
<1>1. Satisfies("acquire", host)
  BY DEF JournalInv, HostInv
<1> QED
  BY <1>1, SatisfiesMeaning, ObservedMeaning

LEMMA CallMaterialKeeps == ASSUME IInv, CallMaterial, UNCHANGED setting PROVE IInv'
<1>1. Admin \in Procs /\ Admin \notin Users /\ "material" \in KindsOf(Admin)
  BY KindsOfUsers, LaunchGroupAssumption DEF Procs
<1> QED
  BY <1>1, CallKeeps DEF CallMaterial

LEMMA MaterialEntersKeeps == ASSUME IInv, MaterialEnters, UNCHANGED setting PROVE IInv'
<1>1. Admin \in Procs /\ Admin \notin Users /\ Admin \notin Attempts
  BY LaunchGroupAssumption DEF Procs, Users
<1>2. op[Admin].kind = "material" /\ op[Admin].step = "waiting" /\ MutexFree
  BY DEF MaterialEnters, Waiting
<1>3. CASE NoPending /\ ~AllInstalled(Observed)
  <2>1. Intend(Admin, "acquire", op[Admin].at)
    BY <1>3 DEF MaterialEnters
  <2>2. MayIntend(Admin, "acquire", op[Admin].at)
    BY <1>1, <1>2, <1>3, FreeMeansAlone, SettledIsWhole, JournalsOfKinds
       DEF MayIntend, IInv, Shape, AtHost
  <2> QED
    BY <1>1, <2>1, <2>2, IntendKeeps DEF JIntends, MaterialEnters
<1>4. CASE ~(NoPending /\ ~AllInstalled(Observed))
  BY <1>1, <1>4, LeaveKeeps DEF MaterialEnters
<1> QED
  BY <1>3, <1>4

LEMMA MaterialConcludesKeeps == ASSUME IInv, MaterialConcludes, UNCHANGED setting PROVE IInv'
BY LeaveKeeps, UsersAreProcs DEF MaterialConcludes

LEMMA CallEnsureKeeps ==
  ASSUME IInv, NEW s \in Sessions, CallEnsure(s), UNCHANGED setting
  PROVE  IInv'
<1>1. PICK resume \in BOOLEAN : resume <=> (run[s] = "queued" /\ s \in leases)
  OBVIOUS
<1>2. Call(s, "ensure", resume)
  BY <1>1, Zenon DEF CallEnsure
<1>3. s \in Procs /\ s \in Users /\ s # Admin /\ "ensure" \in KindsOf(s)
  BY UsersAreProcs, KindsOfUsers
<1>4. use' = [use EXCEPT ![s] = IF "ensure" = "qstop" THEN "stop-ready" ELSE "idle"]
  BY <1>3 DEF CallEnsure, IInv, Shape, UserShape
<1> QED
  BY <1>2, <1>3, <1>4, CallKeeps DEF CallEnsure

(* The report that lets a session in names a start that succeeded. *)
LEMMA ReadyGroupHasItsStart ==
  ASSUME JournalShape, JournalInv, setting.readiness, AllActive(Observed),
         NEW i \in DOMAIN journal, journal[i].action = "qualification-start",
         journal[i].outcome = "failed"
  PROVE  \E j \in DOMAIN journal : ~Before(j, i)
<1>1. Starts # {} /\ journal[Latest(Starts)].outcome = "succeeded"
  BY ObservedMeaning
<1>2. PICK k \in Starts : k = Latest(Starts) /\ \A j \in Starts : Before(j, k)
  BY <1>1, LatestStartIsMaximal DEF JournalInv
<1>3. k \in DOMAIN journal /\ i \in Starts /\ Before(i, k) /\ k # i
  BY <1>1, <1>2 DEF Starts
<1>4. ASSUME Before(k, i)
      PROVE  FALSE
  <2>1. /\ journal[i].at \in Nat /\ Rank(journal[i].action) \in 0..3
        /\ journal[k].at \in Nat /\ Rank(journal[k].action) \in 0..3
    BY <1>3, EntriesAreTyped
  <2>2. journal[i].at = journal[k].at /\ Rank(journal[i].action) = Rank(journal[k].action)
    BY <1>3, <1>4, <2>1 DEF Before
  <2>3. journal[k].action = "qualification-start"
    BY <1>3, <2>2, RankValues DEF Starts
  <2>4. journal[i].by = journal[k].by
    BY <1>3, <2>2 DEF JournalInv, InstantInv
  <2>5. journal[i].kind = "qualify"
    BY EntriesAreTyped, JournalsOfKinds DEF JournalInv, InstantInv, Kinds
  <2>6. journal[i].by \in Attempts
    BY <2>5, EntriesAreTyped, KindsOfUsers DEF JournalInv, InstantInv, Procs, Users
  <2>7. i = k
    BY <1>3, <2>3, <2>4, <2>6 DEF JournalInv, OnceInv, QualificationStart
  <2> QED
    BY <1>3, <2>7
<1> QED
  BY <1>3, <1>4

LEMMA ClaimLeaseKeeps ==
  ASSUME IInv, NEW s \in Sessions, ClaimLease(s), Alone(s), Active \cap Attempts = {},
         s \notin expired, AllActive(Observed), UNCHANGED <<setting, host, expired, clock, run, faults>>
  PROVE  IInv'
<1>1. s \in Procs /\ s \in Users /\ s \notin Attempts
  BY UsersAreProcs
<1>2. op'[s] = NoOp /\ op'[s].step = "none" /\ \A q \in Procs \ {s} : op'[q] = op[q]
  BY <1>1 DEF ClaimLease, Leave, IInv, Shape, JournalShape, NoOp
<1>3. JournalShape' /\ JournalInv'
  BY <1>1, LeaveKeepsTheJournal DEF JLeaves, IInv, Shape, ClaimLease
<1>4. use \in [Users -> UseStates] /\ use' = [use EXCEPT ![s] = "live"] /\ leases' = leases \cup {s}
  BY DEF IInv, Shape, UserShape, ClaimLease
<1>5. use' \in [Users -> UseStates] /\ use'[s] = "live" /\ \A v \in Users \ {s} : use'[v] = use[v]
  BY <1>1, <1>4 DEF UseStates
<1>6. UserShape'
  BY <1>1, <1>4, <1>5 DEF IInv, Shape, UserShape
<1>7. s \in Active' /\ \A v \in Users \ {s} : v \in leases' <=> v \in leases
  BY <1>4 DEF Active
<1>8. AllActive(host')
  BY ObservedMeaning DEF IInv, Shape
<1>9. UserStep(s)
  BY <1>1, <1>2, <1>5, <1>7, <1>8 DEF UserStep, Holder
<1>10. FailedStartInv'
  <2>1. journal' = journal
    BY DEF ClaimLease
  <2>2. setting.readiness => \A i \in DOMAIN journal :
          journal[i].action = "qualification-start" /\ journal[i].outcome = "failed" =>
            \E j \in DOMAIN journal : ~Before(j, i)
    BY ReadyGroupHasItsStart DEF IInv, Shape
  <2> QED
    BY <2>1, <2>2 DEF FailedStartInv, Before
<1> QED
  BY <1>1, <1>3, <1>6, <1>9, <1>10, StepKeeps

LEMMA EnsureProceedsKeeps ==
  ASSUME IInv, NEW s \in Sessions, EnsureProceeds(s), Alone(s), op[s].kind = "ensure",
         op[s].step # "none", Active \cap Attempts = {}, s \notin expired,
         InCallOrder /\ NoCleanup => ~Mixed(host),
         AtHost(s) => Entry(s).action = "acquire" /\ AllInstalled(Observed),
         UNCHANGED <<setting, host, expired, clock, run, faults>>
  PROVE  IInv'
<1>1. s \in Procs /\ s \in Users /\ s \notin Attempts
  BY UsersAreProcs
<1>2. Knows(s)
  BY DEF Knows
<1>3. ASSUME NEW action \in {"acquire", "start"}, Intend(s, action, op[s].at),
             UNCHANGED <<leases, use>>, AtHost(s) => action # "acquire"
      PROVE  IInv'
  <2>1. MayIntend(s, action, op[s].at)
    BY <1>1, <1>3, JournalsOfKinds DEF MayIntend
  <2> QED
    BY <1>1, <1>2, <1>3, <2>1, IntendKeeps DEF JIntends
<1>4. CASE /\ ~AllInstalled(Observed)
           /\ Intend(s, "acquire", op[s].at)
           /\ UNCHANGED <<leases, use>>
  BY <1>3, <1>4
<1>5. CASE Intend(s, "start", op[s].at) /\ UNCHANGED <<leases, use>>
  BY <1>3, <1>5
<1>6. CASE AllActive(Observed) /\ ClaimLease(s)
  BY <1>6, ClaimLeaseKeeps
<1> QED
  BY <1>4, <1>5, <1>6 DEF EnsureProceeds

LEMMA EnsureEntersKeeps ==
  ASSUME IInv, NEW s \in Sessions, EnsureEnters(s), UNCHANGED setting
  PROVE  IInv'
<1>1. s \in Procs /\ s \in Users /\ s \notin Attempts
  BY UsersAreProcs
<1>2. op[s].kind = "ensure" /\ op[s].step = "waiting" /\ MutexFree
  BY DEF EnsureEnters, Waiting
<1>3. CASE EnsureAdmitted(s)
  <2>1. Active \cap Attempts = {} /\ s \notin expired /\ NoPending
    BY <1>1, <1>3 DEF EnsureAdmitted, ProtectedByQualification, Active, IInv, Shape, UserShape
  <2>2. Alone(s) /\ ~AtHost(s)
    BY <1>1, <1>2, FreeMeansAlone DEF AtHost, IInv, Shape
  <2>3. InCallOrder /\ NoCleanup => ~Mixed(host)
    BY <2>1, SettledIsWhole DEF IInv, Shape
  <2> QED
    BY <1>2, <1>3, <2>1, <2>2, <2>3, EnsureProceedsKeeps DEF EnsureEnters
<1>4. CASE ~EnsureAdmitted(s)
  BY <1>1, <1>4, LeaveKeeps DEF EnsureEnters
<1> QED
  BY <1>3, <1>4

LEMMA EnsureConcludesKeeps ==
  ASSUME IInv, NEW s \in Sessions, EnsureConcludes(s), UNCHANGED setting
  PROVE  IInv'
<1>1. s \in Procs /\ s \in Users /\ s \notin Attempts
  BY UsersAreProcs
<1>2. op[s].kind = "ensure" /\ op[s].step = "settled" /\ UNCHANGED <<host, expired, clock, run, faults>>
  BY EnsureConcludesForm DEF AtStep
<1>3. InMutex(s) /\ AtHost(s)
  BY <1>2 DEF InMutex, AtHost
<1>4. Alone(s) /\ Active \cap Attempts = {} /\ s \notin expired
  BY <1>1, <1>2, <1>3, FreeMeansAlone DEF IInv, Shape, HolderInv, Holder, Knows
<1>5. CASE op[s].status = "succeeded" /\ Entry(s).action = "acquire" /\ EnsureProceeds(s)
  <2>1. InCallOrder /\ NoCleanup => ~Mixed(host)
    BY <1>1, <1>3, <1>5, AcquiredIsWhole DEF IInv, Shape
  <2>2. AllInstalled(Observed)
    BY <1>1, <1>2, <1>5, AcquiredIsInstalled DEF IInv, Shape
  <2> QED
    BY <1>2, <1>4, <1>5, <2>1, <2>2, EnsureProceedsKeeps
<1>6. CASE AllActive(Observed) /\ ClaimLease(s)
  BY <1>2, <1>4, <1>6, ClaimLeaseKeeps
<1>7. CASE Leave(s) /\ UNCHANGED <<journal, leases, use>>
  BY <1>1, <1>2, <1>7, LeaveKeeps
<1> QED
  BY <1>5, <1>6, <1>7, EnsureConcludesForm

LEMMA SameJournalKeeps ==
  ASSUME JournalShape, JournalInv, UNCHANGED <<host, journal, clock, op>>
  PROVE  JournalShape' /\ JournalInv'
<1>1. JournalShape'
  BY DEF JournalShape
<1>2. OpInv' /\ MutexInv'
  BY DEF JournalInv, OpInv, MutexInv, AtHost, InMutex, Entry
<1>3. InstantInv'
  BY DEF JournalInv, InstantInv, AtHost, Entry
<1>4. OnceInv'
  BY DEF JournalInv, OnceInv, QualificationStart, AtHost, Entry
<1>5. TipInv'
  BY DEF JournalInv, TipInv, Starts, Before
<1>6. HostInv' /\ OrderInv' /\ FrozenInv'
  BY DEF JournalInv, HostInv, OrderInv, FrozenInv, InCallOrder, NoCleanup, AtHost, Entry
<1> QED
  BY <1>1, <1>2, <1>3, <1>4, <1>5, <1>6 DEF JournalInv

(* A user in no operation moves on, or its lease or its run does. *)
LEMMA UseKeeps ==
  ASSUME IInv, NEW u \in Users, op[u] = NoOp, NEW to \in UseStates,
         use' = [use EXCEPT ![u] = to], UserShape',
         to = "live" => use[u] = "live" /\ leases' = leases /\ expired' = expired,
         to \in {"probing", "stop-ready"} /\ u \in Attempts =>
           u \in Active' /\ (use[u] \in {"probing", "stop-ready"} \/ Active \subseteq {u}),
         u \in Active' /\ u \notin Active => Alone(u),
         \A v \in Users \ {u} : (v \in leases' <=> v \in leases) /\ (v \in expired' <=> v \in expired),
         UNCHANGED <<setting, host, journal, clock, op>>
  PROVE  IInv'
<1>1. u \in Procs
  BY UsersAreProcs
<1>2. JournalShape' /\ JournalInv'
  BY SameJournalKeeps DEF IInv, Shape
<1>3. use'[u] = to /\ \A v \in Users \ {u} : use'[v] = use[v]
  BY DEF IInv, Shape, UserShape
<1>4. NobodyLive => NobodyLive'
  BY <1>3, UsersAreProcs DEF NobodyLive
<1>5. op'[u].step = "none"
  BY DEF NoOp
<1>6. UserStep(u)
  <2>1. u \in Sessions /\ use'[u] = "live" => u \in Active' /\ AllActive(host')
    BY <1>3, LiveFacts DEF Active
  <2> QED
    BY <1>3, <1>5, <2>1, LiveFacts DEF UserStep, Holder
<1>7. FailedStartInv'
  BY <1>4, SameJournalKeepsFailedStarts DEF IInv
<1> QED
  BY <1>1, <1>2, <1>6, <1>7, StepKeeps

LEMMA IdleOutsideOperations ==
  ASSUME IInv, NEW u \in Users, use[u] \notin {"idle", "stop-ready"}
  PROVE  op[u] = NoOp
BY UsersAreProcs DEF IInv, HolderInv, Holder, JournalInv, OpInv

LEMMA RunKeeps ==
  ASSUME IInv, NEW s \in Sessions, ClaimRun(s) \/ FinishRun(s), UNCHANGED setting
  PROVE  IInv'
<1>1. s \in Users /\ use[s] = "live" /\ use \in [Users -> UseStates] /\ op[s] = NoOp
  BY UsersAreProcs, LiveFacts DEF ClaimRun, FinishRun, IInv, Shape, UserShape
<1>2. use' = [use EXCEPT ![s] = "live"] /\ Active' = Active
  BY <1>1 DEF ClaimRun, FinishRun, Active
<1>3. UserShape'
  BY DEF ClaimRun, FinishRun, IInv, Shape, UserShape
<1>4. "live" \in UseStates
  BY DEF UseStates
<1> QED
  BY <1>1, <1>2, <1>3, <1>4, UseKeeps DEF ClaimRun, FinishRun

LEMMA RetainKeeps ==
  ASSUME IInv, NEW s \in Sessions, Retain(s), UNCHANGED setting
  PROVE  IInv'
<1>1. s \in Users /\ use[s] = "live" /\ op[s] = NoOp /\ "idle" \in UseStates
  BY UsersAreProcs, LiveFacts DEF Retain, UseStates
<1>2. UserShape' /\ Active' = Active
  BY <1>1 DEF Retain, IInv, Shape, UserShape, Active
<1> QED
  BY <1>1, <1>2, UseKeeps DEF Retain

LEMMA CallReleaseKeeps ==
  ASSUME IInv, NEW s \in Sessions, CallRelease(s), UNCHANGED setting
  PROVE  IInv'
<1>1. s \in Procs /\ s \in Users /\ s # Admin /\ "release" \in KindsOf(s)
  BY UsersAreProcs, KindsOfUsers
<1>2. use' = [use EXCEPT ![s] = IF "release" = "qstop" THEN "stop-ready" ELSE "idle"]
  BY DEF CallRelease
<1> QED
  BY <1>1, <1>2, CallKeeps DEF CallRelease

LEMMA ReleaseEntersKeeps ==
  ASSUME IInv, NEW s \in Sessions, ReleaseEnters(s), UNCHANGED setting
  PROVE  IInv'
<1>1. s \in Procs /\ s \in Users /\ s \notin Attempts
  BY UsersAreProcs
<1>2. /\ op[s].kind = "release" /\ op[s].step = "waiting" /\ MutexFree
      /\ UNCHANGED <<host, clock, run, faults>>
  BY ReleaseEntersForm DEF Waiting
<1>3. CASE Throws(s)
  BY <1>1, <1>2, <1>3, LeaveKeeps DEF Throws
<1>4. CASE ReleaseLease(s, "done")
  BY <1>1, <1>2, <1>4, ReleaseLeaseKeeps
<1>5. CASE /\ s \in Active /\ ~ProtectedByOther(s) /\ NoPending
           /\ Intend(s, "stop", op[s].at) /\ UNCHANGED <<leases, expired, use>>
  <2>1. Alone(s) /\ ~AtHost(s)
    BY <1>1, <1>2, FreeMeansAlone DEF AtHost, IInv, Shape
  <2>2. MayIntend(s, "stop", op[s].at)
    BY <1>1, <1>2, <1>5, <2>1, SettledIsWhole, JournalsOfKinds DEF MayIntend, IInv, Shape
  <2>3. NobodyLive
    <3>1. use[s] = "idle"
      BY <1>1, <1>2 DEF IInv, HolderInv, Holder
    <3>2. \A t \in Sessions : use[t] = "live" => t = s
      BY <1>5, LiveFacts DEF ProtectedByOther
    <3> QED
      BY <3>1, <3>2 DEF NobodyLive
  <2>4. Knows(s)
    BY <1>2, <2>3 DEF Knows
  <2> QED
    BY <1>1, <1>2, <1>5, <2>2, <2>4, IntendKeeps DEF JIntends
<1> QED
  BY <1>3, <1>4, <1>5, ReleaseEntersForm

LEMMA ReleaseConcludesKeeps ==
  ASSUME IInv, NEW s \in Sessions, ReleaseConcludes(s), UNCHANGED setting
  PROVE  IInv'
<1>1. s \in Procs /\ s \in Users
  BY UsersAreProcs
<1>2. CASE op[s].status = "succeeded" /\ AllInactive(Observed)
  BY <1>1, <1>2, ReleaseLeaseKeeps DEF ReleaseConcludes
<1>3. CASE ~(op[s].status = "succeeded" /\ AllInactive(Observed))
  BY <1>1, <1>3, LeaveKeeps DEF ReleaseConcludes, Throws
<1> QED
  BY <1>2, <1>3

-----------------------------------------------------------------------------
(* The qualification attempts *)

LEMMA CallQualifyKeeps ==
  ASSUME IInv, NEW a \in Attempts, CallQualify(a), UNCHANGED setting
  PROVE  IInv'
<1>1. a \in Procs /\ a \in Users /\ a # Admin /\ "qualify" \in KindsOf(a)
  BY UsersAreProcs, KindsOfUsers
<1>2. use' = [use EXCEPT ![a] = IF "qualify" = "qstop" THEN "stop-ready" ELSE "idle"]
  BY <1>1 DEF CallQualify, IInv, Shape, UserShape
<1> QED
  BY <1>1, <1>2, CallKeeps DEF CallQualify

LEMMA QualifyEntersKeeps ==
  ASSUME IInv, NEW a \in Attempts, QualifyEnters(a), UNCHANGED setting
  PROVE  IInv'
<1>1. a \in Procs /\ a \in Users /\ a \notin Sessions
  BY UsersAreProcs
<1>2. /\ op[a].kind = "qualify" /\ op[a].step = "waiting" /\ MutexFree
      /\ UNCHANGED <<host, journal, expired, clock, use, run, faults>>
  BY DEF QualifyEnters, Waiting
<1>3. CASE NoForeignPending(a) /\ ~ProtectedByOther(a) /\ a \notin expired
  <2>1. leases' = leases \cup {a} /\ op' = [op EXCEPT ![a].step = "claimed", ![a].created = a \notin leases]
    BY <1>3 DEF QualifyEnters
  <2>2. JClaims(a)
    <3>1. PICK created \in BOOLEAN : created <=> a \notin leases
      OBVIOUS
    <3>2. op' = [op EXCEPT ![a].step = "claimed", ![a].created = created]
      BY <2>1, <3>1, Zenon
    <3> QED
      BY <1>2, <3>2 DEF JClaims
  <2>3. JournalShape' /\ JournalInv'
    BY <1>1, <2>2, ClaimKeepsTheJournal DEF IInv, Shape
  <2>4. op \in [Procs -> OpType] /\ op[a] \in OpType
    BY <1>1 DEF IInv, Shape, JournalShape
  <2>5. op'[a].kind = "qualify" /\ op'[a].step = "claimed" /\ \A q \in Procs \ {a} : op'[q] = op[q]
    BY <1>1, <1>2, <2>1, <2>4 DEF OpType
  <2>6. UserShape'
    BY <1>1, <1>2, <2>1 DEF IInv, Shape, UserShape
  <2>7. Active' \subseteq {a} /\ Active \subseteq {a}
    BY <1>2, <1>3, <2>1 DEF ProtectedByOther, Active
  <2>8. (Holder(a))'
    <3>1. use'[a] = "idle"
      BY <1>1, <1>2 DEF IInv, HolderInv, Holder
    <3>2. (Knows(a))'
      BY <1>2, <1>3, <2>5, <2>7 DEF Knows
    <3> QED
      BY <2>5, <3>1, <3>2 DEF Holder
  <2>9. Alone(a)
    BY <1>1, <1>2, FreeMeansAlone DEF IInv, Shape
  <2>10. UserStep(a)
    <3>1. use[a] = "idle"
      BY <1>1, <1>2 DEF IInv, HolderInv, Holder
    <3>2. \A u \in Users \ {a} : u \in leases' <=> u \in leases
      BY <2>1
    <3> QED
      BY <1>1, <1>2, <2>5, <2>8, <2>9, <3>1, <3>2 DEF UserStep
  <2>11. FailedStartInv'
    BY <1>2, SameJournalKeepsFailedStarts DEF IInv, NobodyLive
  <2> QED
    BY <1>1, <2>3, <2>6, <2>10, <2>11, StepKeeps
<1>4. CASE ~(NoForeignPending(a) /\ ~ProtectedByOther(a) /\ a \notin expired)
  <2>1. Leave(a) /\ UNCHANGED leases
    BY <1>4, Zenon DEF QualifyEnters
  <2> QED
    BY <1>1, <1>2, <2>1, LeaveKeeps
<1> QED
  BY <1>3, <1>4

(* The attempt leaves its operation: proved, or with its lease given back. *)
LEMMA QualifyEndsKeeps ==
  ASSUME IInv, NEW a \in Attempts, op[a].kind = "qualify", op[a].step # "none",
         StartProved(a) \/ QualifyThrows(a), UNCHANGED <<setting, host, expired, clock, run, faults>>,
         InMutex(a)
  PROVE  IInv'
<1>1. a \in Procs /\ a \in Users /\ a \notin Sessions
  BY UsersAreProcs
<1>2. Leave(a) /\ journal' = journal
  BY DEF StartProved, QualifyThrows
<1>3. op'[a] = NoOp /\ op'[a].step = "none" /\ \A q \in Procs \ {a} : op'[q] = op[q]
  BY <1>1, <1>2 DEF Leave, IInv, Shape, JournalShape, NoOp
<1>4. JournalShape' /\ JournalInv'
  BY <1>1, <1>2, LeaveKeepsTheJournal DEF JLeaves, IInv, Shape
<1>5. use \in [Users -> UseStates] /\ leases \subseteq Users /\ expired \subseteq leases /\ use[a] = "idle"
  BY <1>1 DEF IInv, Shape, UserShape, HolderInv, Holder
<1>6. /\ use' \in [Users -> UseStates] /\ use'[a] \in {"idle", "observed"}
      /\ \A v \in Users \ {a} : use'[v] = use[v]
  BY <1>1, <1>5 DEF StartProved, QualifyThrows, UseStates
<1>7. leases' \subseteq leases /\ \A v \in Users \ {a} : v \in leases' <=> v \in leases
  BY DEF StartProved, QualifyThrows
<1>8. a \notin expired
  BY <1>1 DEF IInv, HolderInv, Holder, Knows
<1>9. UserShape'
  BY <1>5, <1>6, <1>7, <1>8 DEF IInv, Shape, UserShape
<1>10. UserStep(a)
  <2>1. a \in Active' => a \in Active
    BY <1>7 DEF Active
  <2> QED
    BY <1>1, <1>3, <1>6, <1>7, <2>1 DEF UserStep, Holder
<1>11. NobodyLive => NobodyLive'
  BY <1>1, <1>6, UsersAreProcs DEF NobodyLive
<1>12. FailedStartInv'
  BY <1>2, <1>11, SameJournalKeepsFailedStarts DEF IInv
<1> QED
  BY <1>1, <1>4, <1>9, <1>10, <1>12, StepKeeps

LEMMA StartIsQualify ==
  ASSUME JournalShape, JournalInv, NEW a \in Attempts, NEW i \in QualificationStart(a)
  PROVE  /\ i \in DOMAIN journal /\ journal[i].by = a /\ journal[i].kind = "qualify"
         /\ journal[i].action = "qualification-start" /\ StartOf(a) = i
<1>1. i \in DOMAIN journal /\ journal[i].by = a /\ journal[i].action = "qualification-start"
  BY DEF QualificationStart
<1>2. journal[i].kind = "qualify"
  BY <1>1, EntriesAreTyped, JournalsOfKinds DEF JournalInv, InstantInv, Kinds
<1>3. \A j \in QualificationStart(a) : j = i
  BY DEF JournalInv, OnceInv
<1>4. StartOf(a) = i
  BY <1>3 DEF StartOf
<1> QED
  BY <1>1, <1>2, <1>4

LEMMA QualifyDecidesKeeps ==
  ASSUME IInv, NEW a \in Attempts, QualifyDecides(a), UNCHANGED setting
  PROVE  IInv'
<1>1. a \in Procs /\ a \in Users /\ a \notin Sessions
  BY UsersAreProcs
<1>2. /\ op[a].kind = "qualify" /\ op[a].step = "claimed"
      /\ UNCHANGED <<host, expired, clock, run, faults>>
  BY QualifyDecidesForm DEF AtStep
<1>3. InMutex(a) /\ ~AtHost(a)
  BY <1>2 DEF InMutex, AtHost
<1>4. Alone(a) /\ Knows(a)
  BY <1>1, <1>2, <1>3, FreeMeansAlone DEF IInv, Shape, HolderInv, Holder
<1>5. CASE StartProved(a) \/ QualifyThrows(a)
  BY <1>2, <1>3, <1>5, QualifyEndsKeeps
<1>6. CASE /\ GroupTip \in QualificationStart(a) /\ journal[GroupTip].outcome = "pending"
           /\ journal[GroupTip].prior = Observed
           /\ Replay(a, GroupTip) /\ UNCHANGED <<leases, use>>
  <2>1. PICK i \in QualificationStart(a) : i = GroupTip
    BY <1>6
  <2>2. i \in DOMAIN journal /\ journal[i].by = a /\ journal[i].kind = "qualify"
        /\ journal[i].action = "qualification-start"
    BY StartIsQualify DEF IInv, Shape
  <2>3. journal # <<>>
    BY <2>2
  <2>4. JReplays(a, i)
    BY <1>2, <1>3, <1>4, <1>6, <2>1, <2>2, <2>3 DEF JReplays
  <2> QED
    BY <1>1, <1>2, <1>4, <1>6, <2>4, ReplayKeeps
<1>7. CASE /\ AllInactive(Observed) /\ QualificationStart(a) = {}
           /\ Intend(a, IF AllInstalled(Observed) THEN "qualification-start" ELSE "acquire", op[a].at)
           /\ UNCHANGED <<leases, use>>
  <2>1. PICK action \in {"qualification-start", "acquire"} :
          action = IF AllInstalled(Observed) THEN "qualification-start" ELSE "acquire"
    OBVIOUS
  <2>2. ~Mixed(host)
    <3>1. ~Mixed(Observed)
      BY <1>7 DEF AllInactive, Mixed
    <3> QED
      BY <3>1, ObservedMeaning DEF IInv, Shape
  <2>3. MayIntend(a, action, op[a].at)
    BY <1>2, <1>3, <1>4, <1>7, <2>2, JournalsOfKinds DEF MayIntend
  <2> QED
    BY <1>1, <1>2, <1>4, <1>7, <2>1, <2>3, IntendKeeps DEF JIntends
<1> QED
  BY <1>5, <1>6, <1>7, QualifyDecidesForm

LEMMA QualifyConcludesKeeps ==
  ASSUME IInv, NEW a \in Attempts, QualifyConcludes(a), UNCHANGED setting
  PROVE  IInv'
<1>1. a \in Procs /\ a \in Users /\ a \notin Sessions
  BY UsersAreProcs
<1>2. /\ op[a].kind = "qualify" /\ op[a].step = "settled"
      /\ UNCHANGED <<host, expired, clock, run, faults>>
  BY QualifyConcludesForm DEF AtStep
<1>3. InMutex(a) /\ AtHost(a)
  BY <1>2 DEF InMutex, AtHost
<1>4. Alone(a) /\ Knows(a)
  BY <1>1, <1>2, <1>3, FreeMeansAlone DEF IInv, Shape, HolderInv, Holder
<1>5. CASE StartProved(a) \/ QualifyThrows(a)
  BY <1>2, <1>3, <1>5, QualifyEndsKeeps
<1>6. CASE /\ Entry(a).action = "acquire" /\ op[a].status = "succeeded"
           /\ Intend(a, "qualification-start", op[a].at) /\ UNCHANGED <<leases, use>>
  <2>1. QualificationStart(a) = {}
    BY <1>2, <1>3, <1>6 DEF IInv, JournalInv, OnceInv
  <2>2. InCallOrder /\ NoCleanup => ~Mixed(host)
    BY <1>1, <1>3, <1>6, AcquiredIsWhole DEF IInv, Shape
  <2>3. MayIntend(a, "qualification-start", op[a].at)
    BY <1>2, <1>3, <1>4, <1>6, <2>1, <2>2, JournalsOfKinds DEF MayIntend
  <2> QED
    BY <1>1, <1>2, <1>4, <1>6, <2>3, IntendKeeps DEF JIntends
<1> QED
  BY <1>5, <1>6, QualifyConcludesForm

LEMMA AttemptMovesKeeps ==
  ASSUME IInv, NEW a \in Attempts, UNCHANGED setting,
         ReadStartProof(a) \/ CheckTip(a) \/ RecordOutcome(a) \/ MarkStopped(a)
  PROVE  IInv'
<1>1. a \in Procs /\ a \in Users /\ a \notin Sessions
  BY UsersAreProcs
<1>2. UNCHANGED <<host, journal, leases, expired, clock, op, run, faults>> /\ Active' = Active
  BY DEF ReadStartProof, CheckTip, RecordOutcome, MarkStopped, Active
<1>3. op[a] = NoOp
  BY <1>1, IdleOutsideOperations DEF ReadStartProof, CheckTip, RecordOutcome, MarkStopped
<1>4. PICK to \in {"observed", "checked", "stop-checked", "stop-ready", "done"} :
        /\ use' = [use EXCEPT ![a] = to]
        /\ to = "stop-ready" => use[a] = "probing"
  BY DEF ReadStartProof, CheckTip, RecordOutcome, MarkStopped
<1>5. to \in UseStates
  BY DEF UseStates
<1>6. UserShape'
  BY <1>1, <1>2, <1>4, <1>5 DEF IInv, Shape, UserShape
<1>7. to \in {"probing", "stop-ready"} => a \in Active' /\ use[a] \in {"probing", "stop-ready"}
  BY <1>2, <1>4, LiveFacts
<1> QED
  BY <1>1, <1>2, <1>3, <1>4, <1>5, <1>6, <1>7, UseKeeps

LEMMA ReacquireKeeps ==
  ASSUME IInv, NEW a \in Attempts, Reacquire(a), UNCHANGED setting
  PROVE  IInv'
<1>1. a \in Procs /\ a \in Users /\ a \notin Sessions
  BY UsersAreProcs
<1>2. /\ UNCHANGED <<host, journal, clock, op, run, faults>> /\ op[a] = NoOp
      /\ leases' = leases \cup {a} /\ expired' = expired \ {a}
  BY DEF Reacquire
<1>3. PICK to \in {"proved", "probing", "stop-ready"} : use' = [use EXCEPT ![a] = to]
  BY DEF Reacquire
<1>4. to \in UseStates
  BY DEF UseStates
<1>5. UserShape'
  BY <1>1, <1>2, <1>3, <1>4 DEF IInv, Shape, UserShape
<1>6. a \in Active' /\ Active \subseteq {a} /\ Alone(a)
  BY <1>1, <1>2, FreeMeansAlone DEF Reacquire, ProtectedByOther, Active, IInv, Shape
<1>7. \A v \in Users \ {a} : (v \in leases' <=> v \in leases) /\ (v \in expired' <=> v \in expired)
  BY <1>2
<1> QED
  BY <1>1, <1>2, <1>3, <1>4, <1>5, <1>6, <1>7, UseKeeps

LEMMA CallStopKeeps ==
  ASSUME IInv, NEW a \in Attempts, CallStop(a), UNCHANGED setting
  PROVE  IInv'
<1>1. a \in Procs /\ a \in Users /\ a # Admin /\ "qstop" \in KindsOf(a)
  BY UsersAreProcs, KindsOfUsers
<1>2. use' = [use EXCEPT ![a] = IF "qstop" = "qstop" THEN "stop-ready" ELSE "idle"]
  BY <1>1 DEF CallStop, IInv, Shape, UserShape
<1> QED
  BY <1>1, <1>2, CallKeeps DEF CallStop

LEMMA CallCleanupKeeps ==
  ASSUME IInv, NEW a \in Attempts, CallCleanup(a), UNCHANGED setting
  PROVE  IInv'
<1>1. a \in Procs /\ a \in Users /\ a # Admin /\ "qclean" \in KindsOf(a)
  BY UsersAreProcs, KindsOfUsers
<1>2. use' = [use EXCEPT ![a] = IF "qclean" = "qstop" THEN "stop-ready" ELSE "idle"]
  BY <1>1 DEF CallCleanup, IInv, Shape, UserShape
<1> QED
  BY <1>1, <1>2, CallKeeps DEF CallCleanup

(* While an attempt's start is the tip, the attempt has not stopped. *)
LEMMA TipStartHasNoStop ==
  ASSUME JournalShape, JournalInv, NEW a \in Attempts, GroupTip \in QualificationStart(a)
  PROVE  /\ StartOf(a) = GroupTip
         /\ \A i \in DOMAIN journal : ~(journal[i].by = a /\ journal[i].action = "stop")
<1>1. PICK tip \in QualificationStart(a) : tip = GroupTip
  OBVIOUS
<1>2. tip \in DOMAIN journal /\ journal[tip].action = "qualification-start" /\ StartOf(a) = tip
  BY StartIsQualify
<1>3. \A i \in DOMAIN journal : Before(i, tip)
  BY <1>1, <1>2, TipIsMaximal DEF JournalInv
<1>4. ASSUME NEW i \in DOMAIN journal, journal[i].by = a, journal[i].action = "stop"
      PROVE  FALSE
  <2>1. PICK k \in QualificationStart(a) : journal[k].at = journal[i].at
    BY <1>4 DEF JournalInv, OnceInv
  <2>2. k = tip
    BY <1>2, StartIsQualify
  <2>3. journal[i].at \in Nat /\ journal[tip].at \in Nat
    BY <1>2, EntriesAreTyped
  <2> QED
    BY <1>2, <1>3, <1>4, <2>1, <2>2, <2>3, RankValues DEF Before
<1> QED
  BY <1>1, <1>2, <1>4

LEMMA StopMayBeIntended ==
  ASSUME IInv, NEW a \in Attempts, op[a].kind \in {"qstop", "qclean"}, op[a].step = "waiting",
         MutexFree, GroupTip \in QualificationStart(a),
         op[a].kind = "qstop" => AllActive(Observed)
  PROVE  MayIntend(a, "stop", journal[StartOf(a)].at)
<1>1. a \in Procs /\ Alone(a) /\ ~AtHost(a)
  BY UsersAreProcs, FreeMeansAlone DEF AtHost, IInv, Shape
<1>2. StartOf(a) \in QualificationStart(a)
  BY TipStartHasNoStop DEF IInv, Shape
<1>3. \A i \in DOMAIN journal : ~(journal[i].by = a /\ journal[i].action = "stop")
  BY TipStartHasNoStop DEF IInv, Shape
<1>4. op[a].kind = "qstop" => ~Mixed(host)
  <2>1. AllActive(Observed) => ~Mixed(Observed)
    BY DEF AllActive, Mixed
  <2> QED
    BY <2>1, ObservedMeaning DEF IInv, Shape
<1>5. "stop" \in Journals(op[a].kind)
  BY JournalsOfKinds
<1> QED
  BY <1>1, <1>2, <1>3, <1>4, <1>5 DEF MayIntend

LEMMA StopEntersKeeps ==
  ASSUME IInv, NEW a \in Attempts, StopEnters(a), UNCHANGED setting
  PROVE  IInv'
<1>1. a \in Procs /\ a \in Users
  BY UsersAreProcs
<1>2. /\ op[a].kind = "qstop" /\ op[a].step = "waiting" /\ MutexFree
      /\ UNCHANGED <<host, clock, run, faults>>
  BY StopEntersForm DEF Waiting
<1>3. Alone(a) /\ ~AtHost(a) /\ Knows(a)
  BY <1>1, <1>2, FreeMeansAlone DEF AtHost, IInv, Shape, Knows
<1>4. CASE Throws(a)
  BY <1>1, <1>2, <1>4, LeaveKeeps DEF Throws
<1>5. CASE ReleaseLease(a, "stopped")
  BY <1>1, <1>2, <1>5, ReleaseLeaseKeeps
<1>6. CASE /\ GroupTip \in StopOf(a, "qstop") /\ journal[GroupTip].outcome = "pending"
           /\ journal[GroupTip].prior = Observed
           /\ Replay(a, GroupTip) /\ UNCHANGED <<leases, expired, use>>
  <2>1. PICK i \in StopOf(a, "qstop") : i = GroupTip
    BY <1>6
  <2>2. i \in DOMAIN journal /\ journal[i].by = a /\ journal[i].kind = "qstop" /\ journal # <<>>
    BY DEF StopOf
  <2>3. journal[i].action = "stop"
    BY <2>2, JournalsOfKinds DEF IInv, JournalInv, InstantInv
  <2>4. JReplays(a, i)
    BY <1>2, <1>3, <1>6, <2>1, <2>2, <2>3 DEF JReplays
  <2> QED
    BY <1>1, <1>2, <1>3, <1>6, <2>4, ReplayKeeps
<1>7. CASE /\ GroupTip \in QualificationStart(a) /\ AllActive(Observed)
           /\ Intend(a, "stop", journal[StartOf(a)].at) /\ UNCHANGED <<leases, expired, use>>
  <2>1. MayIntend(a, "stop", journal[StartOf(a)].at)
    BY <1>2, <1>7, StopMayBeIntended
  <2> QED
    BY <1>1, <1>2, <1>3, <1>7, <2>1, IntendKeeps DEF JIntends
<1> QED
  BY <1>4, <1>5, <1>6, <1>7, StopEntersForm

LEMMA StopConcludesKeeps ==
  ASSUME IInv, NEW a \in Attempts, StopConcludes(a), UNCHANGED setting
  PROVE  IInv'
<1>1. a \in Procs /\ a \in Users
  BY UsersAreProcs
<1>2. CASE ReleaseLease(a, "stopped")
  BY <1>1, <1>2, ReleaseLeaseKeeps DEF StopConcludes
<1>3. CASE Throws(a)
  BY <1>1, <1>3, LeaveKeeps DEF StopConcludes, Throws
<1> QED
  BY <1>2, <1>3 DEF StopConcludes

LEMMA CleanupEntersKeeps ==
  ASSUME IInv, NEW a \in Attempts, CleanupEnters(a), UNCHANGED setting
  PROVE  IInv'
<1>1. a \in Procs /\ a \in Users
  BY UsersAreProcs
<1>2. /\ op[a].kind = "qclean" /\ op[a].step = "waiting" /\ MutexFree
      /\ UNCHANGED <<host, clock, run, faults>>
  BY CleanupEntersForm DEF Waiting
<1>3. CASE Throws(a)
  BY <1>1, <1>2, <1>3, LeaveKeeps DEF Throws
<1>4. CASE ReleaseLease(a, "done")
  BY <1>1, <1>2, <1>4, ReleaseLeaseKeeps
<1>5. CASE /\ journal[StartOf(a)].outcome = "failed" /\ GroupTip \in QualificationStart(a)
           /\ ~AllActive(Observed)
           /\ Intend(a, "stop", journal[StartOf(a)].at) /\ UNCHANGED <<leases, expired, use>>
  <2>1. MayIntend(a, "stop", journal[StartOf(a)].at)
    BY <1>2, <1>5, StopMayBeIntended
  <2>2. NobodyLive
    <3>1. PICK tip \in QualificationStart(a) : tip = GroupTip /\ tip = StartOf(a)
      BY <1>5, TipStartHasNoStop DEF IInv, Shape
    <3>2. tip \in DOMAIN journal /\ journal[tip].action = "qualification-start" /\ journal # <<>>
      BY DEF QualificationStart
    <3>3. \A j \in DOMAIN journal : Before(j, tip)
      BY <3>1, <3>2, TipIsMaximal DEF IInv, JournalInv
    <3>4. ~NobodyLive => ~setting.readiness
      BY <1>5, <3>1, <3>2, <3>3 DEF IInv, FailedStartInv
    <3>5. ~NobodyLive => AllActive(host)
      BY LiveFacts DEF NobodyLive
    <3> QED
      BY <1>5, <3>4, <3>5, ObservedMeaning DEF IInv, Shape
  <2>3. Knows(a)
    BY <1>2, <2>2 DEF Knows
  <2> QED
    BY <1>1, <1>2, <1>5, <2>1, <2>3, IntendKeeps DEF JIntends
<1> QED
  BY <1>3, <1>4, <1>5, CleanupEntersForm

LEMMA CleanupConcludesKeeps ==
  ASSUME IInv, NEW a \in Attempts, CleanupConcludes(a), UNCHANGED setting
  PROVE  IInv'
<1>1. a \in Procs /\ a \in Users
  BY UsersAreProcs
<1>2. CASE ReleaseLease(a, "done")
  BY <1>1, <1>2, ReleaseLeaseKeeps DEF CleanupConcludes
<1>3. CASE Throws(a)
  BY <1>1, <1>3, LeaveKeeps DEF CleanupConcludes, Throws
<1> QED
  BY <1>2, <1>3 DEF CleanupConcludes

-----------------------------------------------------------------------------
(* The host, the outcomes, deaths and expiries *)

LEMMA MutateKeeps ==
  ASSUME IInv, NEW p \in Procs, Mutate(p), UNCHANGED setting
  PROVE  IInv'
<1>1. UNCHANGED <<journal, leases, expired, clock, use, run, faults>> /\ op[p].step = "intent"
  BY DEF Mutate, AtStep
<1>2. JMutates(p)
  BY DEF Mutate, JMutates
<1>3. JournalShape' /\ JournalInv'
  BY <1>2, MutationKeepsTheJournal DEF IInv, Shape
<1>4. UserShape' /\ Active' = Active /\ (NobodyLive' <=> NobodyLive)
  BY <1>1 DEF IInv, Shape, UserShape, Active, NobodyLive
<1>5. InMutex(p) /\ AtHost(p) /\ op[p].entry \in DOMAIN journal /\ Entry(p).kind = op[p].kind
  BY <1>1 DEF InMutex, AtHost, IInv, JournalInv, OpInv
<1>6. PICK action \in Actions : action = Entry(p).action
  BY <1>5, EntriesAreTyped DEF Entry, IInv, Shape
<1>7. action = "stop" => NobodyLive
  <2>1. action \in Journals(op[p].kind) /\ op[p].kind \in KindsOf(p)
    BY <1>1, <1>5, <1>6 DEF IInv, JournalInv, InstantInv, OpInv, Entry
  <2>2. op[p].kind \in Kinds /\ (op[p].kind # "material" => p \in Users)
    BY <2>1, KindsOfUsers DEF Kinds, Procs, Users
  <2>3. action = "stop" => op[p].kind \in {"release", "qstop", "qclean"} /\ p \in Users
    BY <2>1, <2>2, JournalsOfKinds DEF Kinds
  <2>4. op[p].kind \in {"qstop", "qclean"} => p \in Attempts
    BY <2>1, KindsOfUsers DEF Procs, Users
  <2>5. p \in Users => Holder(p)
    BY DEF IInv, HolderInv
  <2>6. p \in Users /\ op[p].kind = "qstop" => use[p] = "stop-ready"
    BY <1>1, <2>5 DEF Holder
  <2>7. p \in Users /\ op[p].kind \in {"release", "qclean"} => NobodyLive
    BY <1>1, <1>5, <2>5 DEF Holder, Knows
  <2> QED
    BY <2>3, <2>4, <2>6, <2>7 DEF IInv, UserInv
<1>8. ~NobodyLive /\ AllActive(host) => AllActive(host')
  <2>1. host \in [Materials -> HostStates] /\ host' \in Progress(action, host)
    BY <1>2, <1>6 DEF JMutates, IInv, Shape, JournalShape
  <2> QED
    BY <1>7, <2>1, ProgressKeeps DEF AllActive
<1>9. op'[p].kind = op[p].kind /\ op'[p].step = "mutated" /\ \A q \in Procs \ {p} : op'[q] = op[q]
  <2>1. op \in [Procs -> OpType] /\ op[p] \in OpType
    BY DEF IInv, Shape, JournalShape
  <2>2. PICK st : op' = [op EXCEPT ![p].step = "mutated", ![p].status = st]
    BY <1>2 DEF JMutates
  <2> QED
    BY <2>1, <2>2 DEF OpType
<1>10. p \in Users => (Holder(p))'
  <2>1. p \in Users => Holder(p) /\ Knows(p)
    BY <1>1, <1>5 DEF IInv, HolderInv, Holder
  <2>2. p \in Users => (Knows(p))'
    BY <1>1, <1>4, <1>9, <2>1 DEF Knows
  <2> QED
    BY <1>1, <1>9, <2>1, <2>2 DEF Holder
<1>11. \A s \in Sessions : use[s] = "live" => s # p
  BY <1>1, LiveFacts DEF NoOp
<1>12. UserStep(p)
  BY <1>1, <1>4, <1>8, <1>9, <1>10, <1>11, LiveFacts DEF UserStep
<1>13. FailedStartInv'
  BY <1>1, <1>4, SameJournalKeepsFailedStarts DEF IInv
<1> QED
  BY <1>3, <1>4, <1>12, <1>13, StepKeeps

LEMMA AppendOutcomeKeeps ==
  ASSUME IInv, NEW p \in Procs, AppendOutcome(p), UNCHANGED setting
  PROVE  IInv'
<1>1. UNCHANGED <<host, leases, expired, clock, use, run, faults>> /\ op[p].step = "mutated"
  BY DEF AppendOutcome, AtStep
<1>2. JSettles(p)
  BY DEF AppendOutcome, JSettles
<1>3. JournalShape' /\ JournalInv'
  BY <1>2, OutcomeKeepsTheJournal DEF IInv, Shape
<1>4. UserShape' /\ Active' = Active /\ (NobodyLive' <=> NobodyLive)
  BY <1>1 DEF IInv, Shape, UserShape, Active, NobodyLive
<1>5. InMutex(p) /\ AtHost(p) /\ op[p].entry \in DOMAIN journal /\ Entry(p).kind = op[p].kind
  BY <1>1 DEF InMutex, AtHost, IInv, JournalInv, OpInv
<1>6. op'[p].kind = op[p].kind /\ op'[p].step = "settled" /\ \A q \in Procs \ {p} : op'[q] = op[q]
  <2>1. op \in [Procs -> OpType] /\ op[p] \in OpType
    BY DEF IInv, Shape, JournalShape
  <2> QED
    BY <1>2, <2>1 DEF JSettles, OpType
<1>7. p \in Users => Holder(p) /\ Knows(p)
  BY <1>1, <1>5 DEF IInv, HolderInv, Holder
<1>8. p \in Users => (Holder(p))'
  <2>1. p \in Users => (Knows(p))'
    BY <1>1, <1>4, <1>6, <1>7 DEF Knows
  <2> QED
    BY <1>1, <1>6, <1>7, <2>1 DEF Holder
<1>9. \A s \in Sessions : use[s] = "live" => s # p
  BY <1>1, LiveFacts DEF NoOp
<1>10. UserStep(p)
  BY <1>1, <1>4, <1>6, <1>8, <1>9, LiveFacts DEF UserStep
<1>11. Entry(p).action = "qualification-start" => NobodyLive
  <2>1. Entry(p).action = "qualification-start" => op[p].kind = "qualify"
    BY <1>5, EntriesAreTyped, JournalsOfKinds DEF IInv, Shape, JournalInv, InstantInv, Entry, Kinds
  <2>2. op[p].kind = "qualify" => p \in Attempts
    BY <1>1, KindsOfUsers DEF IInv, JournalInv, OpInv, Procs, Users
  <2>3. op[p].kind = "qualify" => Active \subseteq {p}
    BY <1>7, <2>2, UsersAreProcs DEF Knows
  <2> QED
    BY <2>1, <2>2, <2>3, LiveFacts, UsersAreProcs DEF NobodyLive
<1>12. FailedStartInv'
  <2>1. /\ DOMAIN journal' = DOMAIN journal
        /\ \A i \in DOMAIN journal :
             /\ journal'[i].action = journal[i].action /\ journal'[i].at = journal[i].at
             /\ i # op[p].entry => journal'[i] = journal[i]
    BY <1>2, OutcomeChangesOneEntry DEF IInv, Shape
  <2>2. \A i, j \in DOMAIN journal : Before(i, j)' <=> Before(i, j)
    BY <2>1 DEF Before
  <2> QED
    BY <1>4, <1>11, <2>1, <2>2 DEF IInv, FailedStartInv, Entry
<1> QED
  BY <1>3, <1>4, <1>10, <1>12, StepKeeps

LEMMA CrashKeeps ==
  ASSUME IInv, NEW p \in Procs, Crash(p), UNCHANGED setting
  PROVE  IInv'
<1>1. /\ UNCHANGED <<host, journal, leases, expired, clock, run>> /\ faults' = faults + 1
      /\ op' = [op EXCEPT ![p] = NoOp]
  BY DEF Crash
<1>2. op'[p] = NoOp /\ op'[p].step = "none" /\ \A q \in Procs \ {p} : op'[q] = op[q]
  BY <1>1 DEF IInv, Shape, JournalShape, NoOp
<1>3. JournalShape' /\ JournalInv'
  BY <1>1, LeaveKeepsTheJournal DEF JLeaves, Leave, IInv, Shape
<1>4. use \in [Users -> UseStates] /\ use' = IF p \in Users THEN [use EXCEPT ![p] = AfterCrash(use[p])] ELSE use
  BY DEF Crash, IInv, Shape, UserShape
<1>5. /\ use' \in [Users -> UseStates] /\ \A v \in Users \ {p} : use'[v] = use[v]
      /\ p \in Users => use'[p] \notin {"live", "probing", "stop-ready"}
  <2>1. CASE p \in Users
    <3>1. PICK to \in UseStates : to = AfterCrash(use[p]) /\ to \notin {"live", "probing", "stop-ready"}
      BY <1>4, <2>1, AfterCrashMeaning
    <3>2. use' = [use EXCEPT ![p] = to]
      BY <1>4, <2>1, <3>1
    <3> QED
      BY <1>4, <2>1, <3>1, <3>2
  <2>2. CASE p \notin Users
    BY <1>4, <2>2
  <2> QED
    BY <2>1, <2>2
<1>6. UserShape'
  BY <1>1, <1>5 DEF IInv, Shape, UserShape
<1>7. Active' = Active /\ (NobodyLive => NobodyLive')
  BY <1>1, <1>5, UsersAreProcs DEF Active, NobodyLive
<1>8. UserStep(p)
  BY <1>1, <1>2, <1>5, <1>7, UsersAreProcs DEF UserStep, Holder
<1>9. FailedStartInv'
  BY <1>1, <1>7, SameJournalKeepsFailedStarts DEF IInv
<1> QED
  BY <1>3, <1>6, <1>8, <1>9, StepKeeps

LEMMA ExpireKeeps ==
  ASSUME IInv, NEW u \in Users, Expire(u), UNCHANGED setting
  PROVE  IInv'
<1>1. /\ UNCHANGED <<host, journal, leases, clock, op, use, run>> /\ faults' = faults + 1
      /\ expired' = expired \cup {u} /\ u \in leases /\ op[u] = NoOp
      /\ AfterCrash(use[u]) = use[u]
  BY DEF Expire, Active
<1>2. use \in [Users -> UseStates] /\ use[u] \in UseStates /\ use' = [use EXCEPT ![u] = use[u]]
  BY <1>1 DEF IInv, Shape, UserShape
<1>3. use[u] \notin {"live", "probing", "stop-ready"}
  BY <1>1, AfterCrashMeaning
<1>4. UserShape'
  BY <1>1 DEF IInv, Shape, UserShape
<1>5. u \notin Active'
  BY <1>1 DEF Active
<1>6. \A v \in Users \ {u} : (v \in leases' <=> v \in leases) /\ (v \in expired' <=> v \in expired)
  BY <1>1
<1> QED
  BY <1>1, <1>2, <1>3, <1>4, <1>5, <1>6, UseKeeps
-----------------------------------------------------------------------------
(* The invariant, and what it means *)

LEMMA InitHolds == Init => IInv
<1> SUFFICES ASSUME Init
             PROVE  IInv
  OBVIOUS
<1>1. PICK st \in {"absent", "inactive"} : host = [m \in Materials |-> st]
  BY DEF Init
<1>2. /\ journal = <<>> /\ leases = {} /\ expired = {} /\ clock = 0 /\ faults = 0
      /\ op = [p \in Procs |-> NoOp] /\ use = [u \in Users |-> "idle"]
      /\ run = [s \in Sessions |-> "queued"] /\ setting \in Settings
  BY DEF Init
<1>3. NoOp \in OpType /\ NoOp.step = "none"
  BY DEF NoOp, OpType, Steps, Outcomes
<1>4. host \in [Materials -> HostStates] /\ ~Mixed(host)
  BY <1>1 DEF HostStates, Mixed
<1>5. \A p \in Procs : op[p] = NoOp /\ op[p].step = "none" /\ ~InMutex(p) /\ ~AtHost(p)
  BY <1>2, <1>3 DEF InMutex, AtHost
<1>6. \A u \in Users : use[u] = "idle"
  BY <1>2
<1>7. Shape
  <2>1. JournalShape
    BY <1>2, <1>3, <1>4 DEF JournalShape
  <2>2. setting \in Setting
    BY <1>2, LaunchGroupAssumption
  <2> QED
    BY <1>2, <2>1, <2>2 DEF Shape, UserShape, UseStates
<1>8. DOMAIN journal = {}
  BY <1>2
<1>9. OpInv /\ MutexInv /\ InstantInv /\ HostInv
  BY <1>5, <1>8 DEF OpInv, MutexInv, InstantInv, HostInv
<1>10. OnceInv
  BY <1>5, <1>8, UsersAreProcs DEF OnceInv, QualificationStart
<1>11. TipInv
  BY <1>2, <1>8 DEF TipInv, Starts
<1>12. OrderInv /\ FrozenInv
  BY <1>2, <1>4, <1>5, <1>8 DEF OrderInv, FrozenInv
<1>13. UserInv
  BY <1>6, UsersAreProcs DEF UserInv
<1>14. HolderInv
  BY <1>5, UsersAreProcs DEF HolderInv, Holder
<1>15. FailedStartInv
  BY <1>8 DEF FailedStartInv
<1> QED
  BY <1>7, <1>9, <1>10, <1>11, <1>12, <1>13, <1>14, <1>15 DEF IInv, JournalInv

LEMMA StutterKeeps ==
  ASSUME IInv, UNCHANGED vars
  PROVE  IInv'
<1>1. JournalShape' /\ JournalInv'
  BY SameJournalKeeps DEF IInv, Shape, vars
<1>2. UserShape' /\ Active' = Active /\ (NobodyLive' <=> NobodyLive)
  BY DEF IInv, Shape, UserShape, vars, Active, NobodyLive
<1>3. UserInv'
  BY <1>2 DEF IInv, UserInv, vars
<1>4. HolderInv'
  BY <1>2 DEF IInv, HolderInv, Holder, Knows, InMutex, vars
<1>5. FailedStartInv'
  BY <1>2, SameJournalKeepsFailedStarts DEF IInv, vars
<1> QED
  BY <1>1, <1>2, <1>3, <1>4, <1>5 DEF IInv, Shape

LEMMA NextKeeps ==
  ASSUME IInv, [Next]_vars
  PROVE  IInv'
<1>1. CASE UNCHANGED vars
  BY <1>1, StutterKeeps
<1>2. CASE Next
  <2>1. UNCHANGED setting
    BY <1>2 DEF Next
  <2>2. CASE CallMaterial \/ MaterialEnters \/ MaterialConcludes
    BY <2>1, <2>2, CallMaterialKeeps, MaterialEntersKeeps, MaterialConcludesKeeps
  <2>3. ASSUME NEW s \in Sessions,
               \/ CallEnsure(s) \/ EnsureEnters(s) \/ EnsureConcludes(s)
               \/ ClaimRun(s) \/ FinishRun(s) \/ Retain(s)
               \/ CallRelease(s) \/ ReleaseEnters(s) \/ ReleaseConcludes(s)
        PROVE  IInv'
    BY <2>1, <2>3, CallEnsureKeeps, EnsureEntersKeeps, EnsureConcludesKeeps, RunKeeps, RetainKeeps,
       CallReleaseKeeps, ReleaseEntersKeeps, ReleaseConcludesKeeps
  <2>4. ASSUME NEW a \in Attempts,
               \/ CallQualify(a) \/ QualifyEnters(a) \/ QualifyDecides(a) \/ QualifyConcludes(a)
               \/ ReadStartProof(a) \/ CheckTip(a) \/ Reacquire(a) \/ RecordOutcome(a)
               \/ CallStop(a) \/ StopEnters(a) \/ StopConcludes(a) \/ MarkStopped(a)
               \/ CallCleanup(a) \/ CleanupEnters(a) \/ CleanupConcludes(a)
        PROVE  IInv'
    BY <2>1, <2>4, CallQualifyKeeps, QualifyEntersKeeps, QualifyDecidesKeeps, QualifyConcludesKeeps,
       AttemptMovesKeeps, ReacquireKeeps, CallStopKeeps, StopEntersKeeps, StopConcludesKeeps,
       CallCleanupKeeps, CleanupEntersKeeps, CleanupConcludesKeeps
  <2>5. ASSUME NEW p \in Procs, Mutate(p) \/ AppendOutcome(p) \/ Refused(p) \/ Crash(p)
        PROVE  IInv'
    BY <2>1, <2>5, MutateKeeps, AppendOutcomeKeeps, CrashKeeps, LeaveKeeps DEF Refused
  <2>6. ASSUME NEW u \in Users, Expire(u)
        PROVE  IInv'
    BY <2>1, <2>6, ExpireKeeps
  <2> QED
    BY <1>2, <2>2, <2>3, <2>4, <2>5, <2>6 DEF Next, Step
<1> QED
  BY <1>1, <1>2

(* The supervisor keeps its journal, its mutex and its leases consistent,  *)
(* whoever calls it, whenever processes die and leases expire.             *)
THEOREM GroupInvariant == Spec => []IInv
<1>1. Init => IInv
  BY InitHolds
<1>2. IInv /\ [Next]_vars => IInv'
  BY NextKeeps
<1> QED
  BY <1>1, <1>2, PTL DEF Spec

(* ensureActive and the probes: a session that was given the group has its *)
(* lease and its running containers until it ends, and a probe has the     *)
(* group to itself.                                                        *)
THEOREM UsersAlwaysKeepTheGroup == Spec => []UsersKeepTheGroup
<1>1. IInv => UsersKeepTheGroup
  BY DEF IInv, UserInv, UsersKeepTheGroup, InUseIsRunning, ProbeIsExclusive, NobodyLive
<1> QED
  BY <1>1, GroupInvariant, PTL

LEMMA AtMostOne ==
  ASSUME NEW S, \A x, y \in S : x = y
  PROVE  Cardinality(S) <= 1
<1>1. CASE S = {}
  BY <1>1, FS_EmptySet
<1>2. CASE S # {}
  <2>1. PICK x \in S : S = {x}
    BY <1>2
  <2> QED
    BY <2>1, FS_Singleton
<1> QED
  BY <1>1, <1>2

LEMMA TipIsTrue == IInv => TipDescribesTheGroup
<1> SUFFICES ASSUME IInv, InCallOrder, journal # <<>>, journal[GroupTip].outcome = "succeeded"
             PROVE  Satisfies(journal[GroupTip].action, Observed)
  BY DEF TipDescribesTheGroup
<1>1. PICK n \in DOMAIN journal : n = GroupTip /\ n = Len(journal)
  BY TipIsLast DEF IInv, Shape, JournalInv
<1>2. PICK action \in Actions : action = journal[n].action
  BY EntriesAreTyped DEF IInv, Shape
<1>3. Satisfies(action, host)
  BY <1>1, <1>2 DEF IInv, JournalInv, OrderInv
<1>4. CASE action \in {"acquire", "stop"}
  BY <1>1, <1>2, <1>3, <1>4, SatisfiesMeaning, ObservedMeaning DEF IInv, Shape
<1>5. CASE action \in {"start", "qualification-start"}
  <2>1. AllActive(host)
    BY <1>3, <1>5, SatisfiesMeaning
  <2>2. n \in Starts
    BY <1>2, <1>5 DEF Starts
  <2>3. PICK k \in Starts : k = Latest(Starts) /\ \A j \in Starts : Before(j, k)
    BY <2>2, LatestStartIsMaximal DEF IInv, JournalInv
  <2>4. k \in DOMAIN journal /\ Before(n, k) /\ Before(k, n)
    BY <1>1, <2>2, <2>3, TipIsMaximal DEF IInv, JournalInv, Starts
  <2>5. /\ journal[n].at \in Nat /\ Rank(journal[n].action) \in 0..3
        /\ journal[k].at \in Nat /\ Rank(journal[k].action) \in 0..3
        /\ k \in Nat /\ n \in Nat /\ k <= n
    BY <1>1, <2>4, EntriesAreTyped DEF IInv, Shape
  <2>6. journal[n].at = journal[k].at /\ Rank(journal[n].action) = Rank(journal[k].action)
    BY <2>4, <2>5 DEF Before
  <2>7. ~(k < n)
    BY <2>4, <2>5, <2>6 DEF IInv, JournalInv, OrderInv
  <2>8. k = n
    BY <2>5, <2>7
  <2>9. AllActive(Observed)
    BY <1>1, <2>1, <2>2, <2>3, <2>8, ObservedMeaning DEF IInv, Shape
  <2> QED
    BY <1>1, <1>2, <1>5, <2>9, SatisfiesMeaning
<1> QED
  BY <1>4, <1>5 DEF Actions

(* The mutation journal: every entry is well formed, an attempt starts the *)
(* group once and stops it once over all its retries and recoveries, and   *)
(* the tip the supervisor trusts describes the containers.                 *)
THEOREM JournalStaysTrue == Spec => []JournalIsTrue
<1>1. IInv => TypeOK
  <2> SUFFICES ASSUME IInv
               PROVE  TypeOK
    OBVIOUS
  <2>1. /\ host \in [Materials -> HostStates] /\ leases \subseteq Users /\ expired \subseteq leases
        /\ run \in [Sessions -> {"queued", "running", "terminal"}] /\ clock \in Nat
    BY DEF IInv, Shape, JournalShape, UserShape
  <2>2. \A i \in DOMAIN journal :
          /\ journal[i].by \in Procs /\ journal[i].action \in Actions
          /\ journal[i].at \in 1..clock /\ journal[i].outcome \in Outcomes
    BY <2>1, EntriesAreTyped DEF IInv, Shape, JournalInv, InstantInv
  <2>3. \A p \in Procs : op[p] # NoOp =>
          op[p].kind \in Kinds /\ op[p].step \in Steps /\ op[p].at \in 1..clock
    <3> SUFFICES ASSUME NEW p \in Procs, op[p] # NoOp
                 PROVE  op[p].kind \in Kinds /\ op[p].step \in Steps /\ op[p].at \in 1..clock
      OBVIOUS
    <3>1. op[p] \in OpType /\ op[p].step \in Steps
      BY DEF IInv, Shape, JournalShape, OpType
    <3>2. op[p].kind \in KindsOf(p) /\ op[p].at \in 1..clock
      BY DEF IInv, JournalInv, OpInv
    <3>3. op[p].kind \in Kinds
      BY <3>2, KindsOfUsers DEF Kinds, Procs, Users
    <3> QED
      BY <3>1, <3>2, <3>3
  <2> QED
    BY <2>1, <2>2, <2>3 DEF TypeOK
<1>2. IInv => AttemptActsOnce
  <2> SUFFICES ASSUME IInv, NEW a \in Attempts
               PROVE  /\ Cardinality({i \in DOMAIN journal :
                             journal[i].by = a /\ journal[i].action = "qualification-start"}) <= 1
                      /\ \A k \in {"qstop", "qclean"} : Cardinality(StopOf(a, k)) <= 1
    BY DEF AttemptActsOnce
  <2>1. \A x, y \in {i \in DOMAIN journal :
          journal[i].by = a /\ journal[i].action = "qualification-start"} : x = y
    BY DEF IInv, JournalInv, OnceInv, QualificationStart
  <2>2. ASSUME NEW k \in {"qstop", "qclean"}
        PROVE  Cardinality(StopOf(a, k)) <= 1
    <3>1. \A x \in StopOf(a, k) : x \in DOMAIN journal /\ journal[x].by = a /\ journal[x].action = "stop"
      BY JournalsOfKinds DEF StopOf, IInv, JournalInv, InstantInv
    <3>2. \A x, y \in StopOf(a, k) : x = y
      BY <3>1 DEF IInv, JournalInv, OnceInv
    <3> QED
      BY <3>2, AtMostOne
  <2> QED
    BY <2>1, <2>2, AtMostOne
<1>3. IInv => JournalIsTrue
  BY <1>1, <1>2, TipIsTrue DEF JournalIsTrue
<1> QED
  BY <1>3, GroupInvariant, PTL
-----------------------------------------------------------------------------
(* What a release and a mutation may never do *)

IdleOrNeeded(u) ==
  \/ setting.demand
  \/ leases' \ expired' # {}
  \/ \A m \in Materials : host'[m] # "active"
  \/ op[u].kind = "qclean" /\ ~InCallOrder

(* Whoever saw the group idle in the mutex may give its lease up. *)
LEMMA IdleGroupMayBeReleased ==
  ASSUME IInv, UNCHANGED host, AllInactive(Observed), NEW u
  PROVE  IdleOrNeeded(u)
<1>1. AllInactive(host)
  BY ObservedMeaning DEF IInv, Shape
<1> QED
  BY <1>1 DEF AllInactive, IdleOrNeeded

LEMMA ReleaseIsIdleOrNeeded ==
  ASSUME IInv, Next, NEW u \in leases \ leases'
  PROVE  IdleOrNeeded(u)
<1>1. CASE CallMaterial \/ MaterialEnters \/ MaterialConcludes
  BY <1>1 DEF CallMaterial, MaterialEnters, MaterialConcludes
<1>2. ASSUME NEW s \in Sessions,
             \/ CallEnsure(s) \/ ClaimRun(s) \/ FinishRun(s) \/ Retain(s) \/ CallRelease(s)
      PROVE  FALSE
  BY <1>2 DEF CallEnsure, ClaimRun, FinishRun, Retain, CallRelease
<1>3. ASSUME NEW s \in Sessions, EnsureEnters(s) \/ EnsureConcludes(s)
      PROVE  FALSE
  <2>1. EnsureProceeds(s) => leases \subseteq leases'
    BY DEF EnsureProceeds, ClaimLease
  <2>2. EnsureEnters(s) => leases \subseteq leases'
    BY <2>1 DEF EnsureEnters
  <2>3. EnsureConcludes(s) => leases \subseteq leases'
    BY <2>1, EnsureConcludesForm DEF ClaimLease
  <2> QED
    BY <1>3, <2>2, <2>3
<1>4. ASSUME NEW s \in Sessions, ReleaseEnters(s)
      PROVE  IdleOrNeeded(u)
  <2>1. leases' # leases /\ UNCHANGED host
    BY <1>4, ReleaseEntersForm
  <2>2. /\ ReleaseLease(s, "done")
        /\ setting.demand \/ ProtectedByOther(s) \/ AllInactive(Observed)
    BY <1>4, <2>1, ReleaseEntersForm DEF Throws
  <2>3. ProtectedByOther(s) => leases' \ expired' # {}
    BY <2>2 DEF ReleaseLease, ProtectedByOther, Active
  <2> QED
    BY <2>1, <2>2, <2>3, IdleGroupMayBeReleased DEF IdleOrNeeded
<1>5. ASSUME NEW s \in Sessions, ReleaseConcludes(s)
      PROVE  IdleOrNeeded(u)
  <2>1. AllInactive(Observed) /\ UNCHANGED host
    BY <1>5 DEF ReleaseConcludes, Throws
  <2> QED
    BY <2>1, IdleGroupMayBeReleased
<1>6. ASSUME NEW a \in Attempts,
             \/ CallQualify(a) \/ QualifyEnters(a) \/ ReadStartProof(a) \/ CheckTip(a)
             \/ Reacquire(a) \/ RecordOutcome(a) \/ CallStop(a) \/ MarkStopped(a) \/ CallCleanup(a)
      PROVE  FALSE
  BY <1>6 DEF CallQualify, QualifyEnters, ReadStartProof, CheckTip, Reacquire, RecordOutcome,
              CallStop, MarkStopped, CallCleanup
<1>7. ASSUME NEW a \in Attempts, QualifyDecides(a) \/ QualifyConcludes(a)
      PROVE  IdleOrNeeded(u)
  <2>1. UNCHANGED host
    BY <1>7, QualifyDecidesForm, QualifyConcludesForm
  <2>2. QualifyThrows(a)
    BY <1>7, QualifyDecidesForm, QualifyConcludesForm DEF StartProved
  <2>3. AllInactive(Observed)
    BY <2>2 DEF QualifyThrows
  <2> QED
    BY <2>1, <2>3, IdleGroupMayBeReleased
<1>8. ASSUME NEW a \in Attempts, StopEnters(a)
      PROVE  IdleOrNeeded(u)
  <2>1. UNCHANGED host
    BY <1>8, StopEntersForm
  <2>2. AllInactive(Observed)
    BY <1>8, StopEntersForm DEF Throws
  <2> QED
    BY <2>1, <2>2, IdleGroupMayBeReleased
<1>9. ASSUME NEW a \in Attempts, StopConcludes(a)
      PROVE  IdleOrNeeded(u)
  <2>1. AllInactive(Observed) /\ UNCHANGED host
    BY <1>9 DEF StopConcludes, Throws
  <2> QED
    BY <2>1, IdleGroupMayBeReleased
<1>10. ASSUME NEW a \in Attempts, CleanupEnters(a)
       PROVE  IdleOrNeeded(u)
  <2>1. UNCHANGED host /\ op[a].kind = "qclean"
    BY <1>10, CleanupEntersForm DEF Waiting
  <2>2. /\ GroupTip \in StopOf(a, "qclean")
        /\ journal[GroupTip].outcome = "succeeded" \/ AllInactive(Observed)
        /\ ReleaseLease(a, "done")
    BY <1>10, CleanupEntersForm DEF Throws
  <2>3. u = a
    BY <2>2 DEF ReleaseLease
  <2>4. CASE AllInactive(Observed)
    BY <2>1, <2>4, IdleGroupMayBeReleased
  <2>5. CASE journal[GroupTip].outcome = "succeeded" /\ InCallOrder
    <3>1. PICK n \in DOMAIN journal : n = GroupTip /\ journal[n].kind = "qclean" /\ journal # <<>>
      BY <2>2 DEF StopOf
    <3>2. n = Len(journal)
      BY <2>5, <3>1, TipIsLast DEF IInv, Shape, JournalInv
    <3>3. journal[n].action = "stop"
      BY <3>1, JournalsOfKinds DEF IInv, JournalInv, InstantInv
    <3>4. Satisfies("stop", host)
      BY <2>5, <3>1, <3>2, <3>3 DEF IInv, JournalInv, OrderInv
    <3> QED
      BY <2>1, <3>4, SatisfiesMeaning DEF AllInactive, IdleOrNeeded
  <2> QED
    BY <2>1, <2>2, <2>3, <2>4, <2>5 DEF IdleOrNeeded
<1>11. ASSUME NEW a \in Attempts, CleanupConcludes(a)
       PROVE  IdleOrNeeded(u)
  <2>1. /\ op[a].status = "succeeded" /\ UNCHANGED host
        /\ op[a].kind = "qclean" /\ op[a].step = "settled"
    BY <1>11 DEF CleanupConcludes, Throws, AtStep
  <2>2. AtHost(a) /\ a \in Procs
    BY <2>1, UsersAreProcs DEF AtHost
  <2>3. Entry(a).action = "stop" /\ Satisfies(Entry(a).action, host)
    BY <2>1, <2>2, JournalsOfKinds DEF IInv, JournalInv, OpInv, InstantInv, HostInv, Entry
  <2> QED
    BY <2>1, <2>3, SatisfiesMeaning DEF AllInactive, IdleOrNeeded
<1>12. ASSUME NEW p \in Procs, Mutate(p) \/ AppendOutcome(p) \/ Refused(p) \/ Crash(p)
       PROVE  FALSE
  BY <1>12 DEF Mutate, AppendOutcome, Refused, Crash
<1>13. ASSUME NEW v \in Users, Expire(v)
       PROVE  FALSE
  BY <1>13 DEF Expire
<1> QED
  BY <1>1, <1>2, <1>3, <1>4, <1>5, <1>6, <1>7, <1>8, <1>9, <1>10, <1>11, <1>12, <1>13 DEF Next, Step

(* A mutation sent to a divided group follows a cleanup. *)
LEMMA PartialNeedsCleanup ==
  ASSUME IInv, InCallOrder, IsPartial(host), NEW p \in Procs, op[p].step = "intent"
  PROVE  \E a \in Attempts : StopOf(a, "qclean") # {}
<1>1. Mixed(host)
  BY DEF IsPartial, AllActive, AllInactive, Mixed, IInv, Shape, JournalShape, HostStates
<1>2. PICK i \in DOMAIN journal : journal[i].kind = "qclean"
  BY <1>1 DEF IInv, JournalInv, FrozenInv, NoCleanup
<1>3. journal[i].by \in Attempts
  BY <1>2, EntriesAreTyped, KindsOfUsers DEF IInv, Shape, JournalInv, InstantInv, Procs, Users
<1> QED
  BY <1>2, <1>3 DEF StopOf

(* The last user's lease is given up only for an idle group or one that is *)
(* still needed, and a group a mutation left half done gets no start and   *)
(* no stop outside the cleanup of a failed qualification start.            *)
THEOREM MutationsStaySafe == Spec => MutationsAreSafe
<1>1. IInv /\ [Next]_vars =>
        [\A u \in leases \ leases' :
           \/ setting.demand
           \/ leases' \ expired' # {}
           \/ \A m \in Materials : host'[m] # "active"
           \/ op[u].kind = "qclean" /\ ~InCallOrder]_vars
  BY ReleaseIsIdleOrNeeded DEF IdleOrNeeded
<1>2. IInv /\ [Next]_vars =>
        [\A p \in Procs :
           op[p].step = "intent" /\ op'[p].step = "mutated" /\ IsPartial(host) /\ InCallOrder
             => Entry(p).kind = "qclean" \/ \E a \in Attempts : StopOf(a, "qclean") # {}]_vars
  BY PartialNeedsCleanup
<1> QED
  BY <1>1, <1>2, GroupInvariant, PTL
     DEF Spec, MutationsAreSafe, ReleaseLeavesNothingRunning, PartialIsFrozen
=============================================================================
