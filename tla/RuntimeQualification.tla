------------------------ MODULE RuntimeQualification ------------------------
(***************************************************************************)
(* One attempt at qualifying a capability runtime: the write-ahead log of  *)
(* FileCapabilityRuntimeQualificationAttemptStore, the transitions of the  *)
(* attempt's domain module, and CapabilityRuntimeQualificationService,     *)
(* whose apply and recover several operators may run at once on the same   *)
(* attempt.                                                                *)
(*                                                                         *)
(* The log is a directory of immutable event files and one kind of claim   *)
(* file.  A transition runs under the attempt's file lock; reading does    *)
(* not.  The launch group is reduced to what an attempt can tell of it     *)
(* (module LaunchGroup has its own life), the provider to whether a        *)
(* receipt exists for the attempt's request id.                            *)
(***************************************************************************)
EXTENDS Integers, Sequences, FiniteSets, FiniteSetsExt, SequencesExt

CONSTANTS
  Operators,   \* processes that run apply and recover
  Nobody,      \* no holder of the attempt's lock
  Settings     \* which operators work on the attempt, and what may go wrong

\* applicant: who applies; operators: who recovers; revocable: may the candidate
\* be revoked; timely: does the deadline never pass; verdicts: what the criteria
\* may say of a receipt; sessions: do project sessions use the group after the
\* attempt; faults: bound on crashes, lost bearers and failed receipt reads.
Setting ==
  [applicant : Operators, operators : SUBSET Operators,
   revocable : BOOLEAN, timely : BOOLEAN, verdicts : SUBSET {"qualified", "failed"},
   sessions : BOOLEAN, faults : Nat]

ASSUME QualificationAssumption == Nobody \notin Operators /\ Settings \subseteq Setting

Phases == {"prepared", "active", "case-submitted", "dispatching", "quarantined",
           "recorded", "outcome", "stopped", "attested"}

Reasons == {"absent", "uncertain", "malformed"}

None == "none"

\* "on" is what the outcome's basis fingerprint binds.
Outcomes ==
  [status : {"qualified", "failed"}, basis : {"recorded"}, on : {"recorded"}]
    \cup [status : {"unavailable"}, basis : {"quarantined"}, on : Reasons]
    \cup [status : {"unavailable"}, basis : {"pre-dispatch"}, on : {"active", "case-submitted"}]

\* What an event file says beyond its phase: an outcome, or one detail.
Plain(detail) == [status |-> None, basis |-> None, on |-> detail]

Bodies == Outcomes \cup {Plain(d) : d \in {None} \cup Reasons \cup Operators}

Attempts == [phase : Phases \cup {None, "broken"}, body : Bodies]

VARIABLES
  events,     \* the event files
  claims,     \* the dispatch-claim files
  lock,       \* holder of attempt.lock
  store,      \* the attestation events, in the order the store's lock gave
  group,      \* "idle", "running", "failed", "stopped", "session" or "later"
  provider,   \* "none", "working", "recorded" or "lost"
  verdict,    \* what the criteria will say of the receipt
  runs,       \* how often observer.run was called
  late,       \* the dispatch deadline has passed
  bearer,     \* the local bearer credential is available
  op,         \* what each operator is doing
  left        \* the setting, with the faults still to come

vars == <<events, claims, lock, store, group, provider, verdict, runs, late, bearer, op, left>>

-----------------------------------------------------------------------------
(* The write-ahead log *)

Of(es, phase) == {e \in es : e.phase = phase}

Has(es, phase) == Of(es, phase) # {}

BodyOf(es, phase) == (CHOOSE e \in Of(es, phase) : TRUE).body

Ev(phase, body) == [phase |-> phase, body |-> body]

Nothing == Ev(None, Plain(None))

\* resolveQualificationAttempts throws on any other set of files.
Readable(es, cs) ==
  LET all == es \cup cs
      has(p) == Has(all, p)
      out == BodyOf(es, "outcome")
      dispatched == has("dispatching") \/ has("recorded") \/ has("quarantined")
  IN /\ \A p \in Phases : Cardinality(Of(all, p)) <= 1
     /\ has("prepared")
     /\ has("dispatching") => cs # {}
     /\ dispatched \/ has("case-submitted") \/ has("outcome") => has("active")
     /\ dispatched => has("case-submitted")
     /\ has("recorded") \/ has("quarantined") => has("dispatching")
     /\ has("outcome") =>
          CASE out.basis = "pre-dispatch" ->
                 /\ ~dispatched
                 /\ out.on = IF has("case-submitted") THEN "case-submitted" ELSE "active"
            [] out.basis = "recorded" -> has("recorded")
            [] out.basis = "quarantined" ->
                 /\ ~has("recorded") /\ has("quarantined")
                 /\ out.on = BodyOf(es, "quarantined").on
     /\ has("stopped") => has("outcome") /\ BodyOf(es, "stopped") = out
     /\ has("attested") => has("stopped") /\ BodyOf(es, "attested") = out /\ out.status = "qualified"

Precedence == <<"attested", "stopped", "outcome", "recorded", "quarantined",
                "dispatching", "case-submitted", "active", "prepared">>

\* The attempt the files stand for.
Resolve(es, cs) ==
  LET all == es \cup cs
      i == Min({k \in 1..Len(Precedence) : Has(all, Precedence[k])})
  IN CASE all = {} -> Nothing
       [] all # {} /\ ~Readable(es, cs) -> Ev("broken", Plain(None))
       [] OTHER -> Ev(Precedence[i], BodyOf(all, Precedence[i]))

Current == Resolve(events, claims)

Settled == {"outcome", "stopped", "attested"}

InFlight == {"dispatching", "quarantined"}

-----------------------------------------------------------------------------
(* Operators *)

Idle == [pc |-> "idle", att |-> Nothing, apply |-> FALSE, dispatch |-> FALSE,
         revoked |-> FALSE, saw |-> None]

\* The parts of #continue and #finishRevoked after the attempt was read, in
\* their order, and the phases each one is for.
Stages == <<"withdraw", "submit", "claim", "readback", "judge", "seal", "release", "append">>

Applies(stage, x) ==
  CASE stage = "withdraw" -> x.revoked /\ x.att.phase \in {"active", "case-submitted"}
    [] stage = "submit" -> ~x.revoked /\ x.att.phase = "active"
    [] stage = "claim" -> ~x.revoked /\ x.att.phase = "case-submitted" /\ x.dispatch
    [] stage \in {"readback", "seal"} -> x.att.phase \in InFlight
    [] stage = "judge" -> x.att.phase = "recorded"
    [] stage = "release" -> x.att.phase = "outcome"
    [] stage = "append" -> ~x.revoked /\ x.att.phase = "stopped" /\ x.att.body.status = "qualified"

\* What operator state x does next, once stage number k is behind it.
After(k, x) ==
  LET todo == {i \in (k + 1)..Len(Stages) : Applies(Stages[i], x)}
  IN IF todo = {} THEN Idle ELSE [x EXCEPT !.pc = Stages[Min(todo)]]

StageNo(stage) == CHOOSE k \in 1..Len(Stages) : Stages[k] = stage

\* Operator o leaves the stage with attempt a in hand.
Proceed(o, stage, a) ==
  \E x \in {[op[o] EXCEPT !.att = a, !.saw = None]} :
    op' = [op EXCEPT ![o] = After(StageNo(stage), x)]

Throws(o) == op' = [op EXCEPT ![o] = Idle]

At(o, pc) == op[o].pc = pc

Goto(o, pc) == op' = [op EXCEPT ![o].pc = pc]

\* A transition of the store, under the attempt's lock: the event is
\* published and the log read back.
Publish(o, stage, ev) ==
  /\ events' = events \cup {ev}
  /\ Proceed(o, stage, Resolve(events', claims))

\* The transition finds nothing to do and returns what the log says.
Keep(o, stage) == UNCHANGED events /\ Proceed(o, stage, Current)

Refuse(o) == UNCHANGED events /\ Throws(o)

Unlocked == lock = Nobody

Up == group \in {"running", "session"}

Revoked == Contains(store, "revoked")

SpendFault == left' = [left EXCEPT !.faults = @ - 1]

-----------------------------------------------------------------------------
(* apply, recover, and the start of #continue *)

\* apply recomputes the review, which covers the bearer and the attestation
\* events: it refuses once either has changed.
Apply(o) ==
  /\ At(o, "idle") /\ o = left.applicant /\ bearer /\ store = <<>>
  /\ op' = [op EXCEPT ![o] = [Idle EXCEPT !.pc = "look", !.apply = TRUE, !.dispatch = TRUE]]
  /\ UNCHANGED <<events, claims, lock, store, group, provider, verdict, runs, late, bearer, left>>

RecoverNeverDispatches(o) ==
  /\ At(o, "idle") /\ o \in left.operators /\ Current.phase \notin {None, "broken"}
  /\ op' = [op EXCEPT ![o] = [Idle EXCEPT !.pc = "look"]]
  /\ UNCHANGED <<events, claims, lock, store, group, provider, verdict, runs, late, bearer, left>>

Recover(o) ==
  /\ At(o, "idle") /\ o \in left.operators /\ Current.phase \notin {None, "broken"}
  /\ op' = [op EXCEPT ![o] = [Idle EXCEPT
              !.pc = "look",
              !.dispatch = Current.phase \in {"prepared", "active", "case-submitted"}]]
  /\ UNCHANGED <<events, claims, lock, store, group, provider, verdict, runs, late, bearer, left>>

Look(o) ==
  /\ At(o, "look")
  /\ op' = [op EXCEPT ![o].att = Current, ![o].pc = "check"]
  /\ UNCHANGED <<events, claims, lock, store, group, provider, verdict, runs, late, bearer, left>>

\* #hasExactRevocation, and where the phase that was read leads.
Check(o) ==
  LET a == op[o].att
      x == [op[o] EXCEPT !.revoked = Revoked]
  IN /\ At(o, "check")
     /\ CASE a.phase \in {"attested", "broken"} -> Throws(o)
          [] a.phase \in {None, "prepared"} ->
               IF Revoked THEN Throws(o) ELSE Goto(o, "activate")
          [] a.phase = "stopped" -> op' = [op EXCEPT ![o] = After(0, x)]
          [] OTHER -> op' = [op EXCEPT ![o] = [x EXCEPT !.pc = "tip"]]
     /\ UNCHANGED <<events, claims, lock, store, group, provider, verdict, runs, late, bearer, left>>

\* #activatePrepared reads again; an attempt that moved on is returned.
Activate(o) ==
  /\ At(o, "activate")
  /\ CASE Current.phase = "broken" -> Throws(o)
       [] Current.phase \notin {None, "prepared", "broken"} ->
            op' = [op EXCEPT ![o].att = Current, ![o].pc = "tip"]
       [] OTHER -> IF op[o].apply THEN IF bearer THEN Goto(o, "prepare") ELSE Throws(o)
                   ELSE IF group = "running" THEN Goto(o, "mark-active") ELSE Throws(o)
  /\ UNCHANGED <<events, claims, lock, store, group, provider, verdict, runs, late, bearer, left>>

\* prepareAfterAuthorization: the log exists before the host is touched.  The
\* guard of ensureQualificationActive composes the review again.
Prepare(o) ==
  /\ At(o, "prepare") /\ Unlocked
  /\ IF group \in {"idle", "running"} /\ bearer /\ store = <<>> /\ Current.phase # "broken"
     THEN /\ events' = events \cup IF Current.phase = None THEN {Ev("prepared", Plain(None))} ELSE {}
          /\ Goto(o, "start")
     ELSE Refuse(o)
  /\ UNCHANGED <<claims, lock, store, group, provider, verdict, runs, late, bearer, left>>

\* The group is started, found started by this attempt, or its start fails
\* and is never tried again.
Start(o) ==
  /\ At(o, "start")
  /\ \/ /\ group \in {"idle", "running"}
        /\ group' = "running"
        /\ Goto(o, "mark-active")
     \/ /\ group = "idle" /\ left.faults > 0
        /\ group' = "failed"
        /\ Throws(o)
     \/ /\ group \notin {"idle", "running"}
        /\ UNCHANGED group
        /\ Throws(o)
  /\ IF group = "idle" /\ group' = "failed" THEN SpendFault ELSE UNCHANGED left
  /\ UNCHANGED <<events, claims, lock, store, provider, verdict, runs, late, bearer>>

MarkActive(o) ==
  /\ At(o, "mark-active") /\ Unlocked
  /\ CASE Current.phase = "prepared" ->
            /\ events' = events \cup {Ev("active", Plain(None))}
            /\ op' = [op EXCEPT ![o].pc = "tip", ![o].att = Ev("active", Plain(None))]
       [] Current.phase \notin {"prepared", "broken", None} ->
            /\ UNCHANGED events
            /\ op' = [op EXCEPT ![o].pc = "tip", ![o].att = Current]
       [] OTHER -> Refuse(o)
  /\ UNCHANGED <<claims, lock, store, group, provider, verdict, runs, late, bearer, left>>

\* #assertMutationTip and #reacquire: only the attempt's own start, or the
\* stop derived from it, may be the group's last operation.
Tip(o) ==
  /\ At(o, "tip")
  /\ CASE op[o].att.phase \in {"stopped", "attested"} -> op' = [op EXCEPT ![o] = After(0, op[o])]
       [] group = "running" \/ (op[o].att.phase = "outcome" /\ group = "stopped") ->
            op' = [op EXCEPT ![o] = After(0, op[o])]
       [] OTHER -> Throws(o)
  /\ UNCHANGED <<events, claims, lock, store, group, provider, verdict, runs, late, bearer, left>>

-----------------------------------------------------------------------------
(* Up to the dispatch *)

WithdrawBlindly(o) ==
  LET a == op[o].att
  IN /\ At(o, "withdraw") /\ Unlocked
     /\ IF a.phase \in {"active", "case-submitted"} /\ Current.phase \in {"active", "case-submitted"}
        THEN Publish(o, "withdraw", Ev("outcome",
               [status |-> "unavailable", basis |-> "pre-dispatch", on |-> a.phase]))
        ELSE Refuse(o)
     /\ UNCHANGED <<claims, lock, store, group, provider, verdict, runs, late, bearer, left>>

\* #preDispatchUnavailable: the outcome binds the event it was decided on,
\* which must still be the log's last one.
Withdraw(o) ==
  LET a == op[o].att
  IN /\ At(o, "withdraw") /\ Unlocked
     /\ IF a.phase \in {"active", "case-submitted"} /\ Current = a
        THEN Publish(o, "withdraw", Ev("outcome",
               [status |-> "unavailable", basis |-> "pre-dispatch", on |-> a.phase]))
        ELSE Refuse(o)
     /\ UNCHANGED <<claims, lock, store, group, provider, verdict, runs, late, bearer, left>>

\* #observerFor finds no bearer before the dispatch.
NoBearer(o) ==
  /\ ~bearer
  /\ \/ At(o, "submit") /\ Goto(o, "withdraw")
     \/ At(o, "claim") /\ op' = [op EXCEPT ![o].att = Current, ![o].pc = "withdraw"]
  /\ UNCHANGED <<events, claims, lock, store, group, provider, verdict, runs, late, bearer, left>>

\* The case is submitted to the provider, then the log says so.
Submit(o) ==
  /\ At(o, "submit") /\ bearer /\ Unlocked
  /\ CASE ~Up \/ Current.phase \in {None, "prepared", "broken"} -> Refuse(o)
       [] Up /\ Current.phase = "active" -> Publish(o, "submit", Ev("case-submitted", Plain(None)))
       [] Up /\ Current.phase \in Settled /\ Current.body.on = "active" -> Refuse(o)
       [] OTHER -> Keep(o, "submit")
  /\ UNCHANGED <<claims, lock, store, group, provider, verdict, runs, late, bearer, left>>

ClaimAsRead(o) ==
  /\ At(o, "claim") /\ bearer /\ Unlocked
  /\ claims' = claims \cup {Ev("dispatching", Plain(o))}
  /\ lock' = o
  /\ Goto(o, "claimed")
  /\ UNCHANGED <<events, store, group, provider, verdict, runs, late, bearer, left>>

\* claimDispatching takes the lock and creates the claim file.
Claim(o) ==
  /\ At(o, "claim") /\ bearer /\ Unlocked
  /\ CASE Current.phase = "case-submitted" ->
            /\ claims' = claims \cup {Ev("dispatching", Plain(o))}
            /\ lock' = o
            /\ Goto(o, "claimed")
       [] Current.phase \in {None, "broken"} -> UNCHANGED <<claims, lock>> /\ Throws(o)
       [] OTHER -> UNCHANGED <<claims, lock>> /\ Proceed(o, "claim", Current)
  /\ UNCHANGED <<events, store, group, provider, verdict, runs, late, bearer, left>>

\* It then publishes the event and releases the lock; only now is the
\* provider called.
PublishClaim(o) ==
  /\ At(o, "claimed")
  /\ events' = events \cup {Ev("dispatching", Plain(o))}
  /\ lock' = Nobody
  /\ op' = [op EXCEPT ![o].pc = "run", ![o].att = Ev("dispatching", Plain(o))]
  /\ UNCHANGED <<claims, store, group, provider, verdict, runs, late, bearer, left>>

\* observer.run, which may not reach a provider that is gone by now.
Run(o) ==
  /\ At(o, "run")
  /\ runs' = runs + 1
  /\ provider' = IF Up /\ provider = "none" THEN "working" ELSE provider
  /\ Goto(o, "ran")
  /\ UNCHANGED <<events, claims, lock, store, group, verdict, late, bearer, left>>

-----------------------------------------------------------------------------
(* After the dispatch *)

\* run's own answer, or readRun: a receipt when the provider has one, which
\* may still be unread in full, and any other answer at any time.
ReadRun(o) ==
  /\ At(o, "ran") \/ (At(o, "readback") /\ bearer)
  /\ \E saw \in Reasons \cup (IF Up /\ provider = "recorded" THEN {"recorded", "unread"} ELSE {}) :
       op' = [op EXCEPT ![o].saw = saw,
                        ![o].pc = IF At(o, "ran") THEN "ran-settle" ELSE "settle"]
  /\ UNCHANGED <<events, claims, lock, store, group, provider, verdict, runs, late, bearer, left>>

ReadWithoutBearer(o) ==
  /\ At(o, "readback") /\ ~bearer
  /\ op' = [op EXCEPT ![o].saw = "uncertain", ![o].pc = "settle"]
  /\ UNCHANGED <<events, claims, lock, store, group, provider, verdict, runs, late, bearer, left>>

RecordAlways(o, stage) ==
  IF Current.phase \in InFlight \cup Settled THEN Publish(o, stage, Ev("recorded", Plain(None)))
  ELSE Keep(o, stage)

\* recordQualificationAttempt and quarantineQualificationAttempt on what the
\* log says now; an attempt that was quarantined when read is kept as read.
\* A run's own receipt is still looked up by the readback stage.
MarkRecorded(o, stage) ==
  CASE Current.phase \in InFlight -> Publish(o, stage, Ev("recorded", Plain(None)))
    [] Current.phase \in Settled \cup {"recorded"} -> Keep(o, stage)
    [] OTHER -> Refuse(o)

MarkQuarantined(o, stage) ==
  LET reason == op[o].saw
  IN CASE op[o].att.phase = "quarantined" -> UNCHANGED events /\ Proceed(o, stage, op[o].att)
       [] op[o].att.phase # "quarantined" /\ Current.phase = "dispatching" ->
            Publish(o, stage, Ev("quarantined", Plain(reason)))
       [] op[o].att.phase # "quarantined"
            /\ (Current.phase = "recorded" \/ Current = Ev("quarantined", Plain(reason))) -> Keep(o, stage)
       [] OTHER -> Refuse(o)

\* The receipt's pages could not be read: the log is consulted again.
MarkUnread(o, stage) ==
  CASE Current.phase = "dispatching" -> Publish(o, stage, Ev("quarantined", Plain("malformed")))
    [] Current.phase \in {"quarantined", "recorded"} -> Keep(o, stage)
    [] OTHER -> Refuse(o)

Settle(o) ==
  /\ At(o, "ran-settle") \/ At(o, "settle")
  /\ Unlocked
  /\ LET stage == IF At(o, "ran-settle") THEN "claim" ELSE "readback"
     IN CASE op[o].saw = "recorded" -> MarkRecorded(o, stage)
          [] op[o].saw = "unread" -> MarkUnread(o, stage)
          [] OTHER -> MarkQuarantined(o, stage)
  /\ UNCHANGED <<claims, lock, store, group, provider, verdict, runs, late, bearer, left>>

\* #outcomeFromRecorded reads the whole receipt again and judges it.
Judge(o) ==
  LET out == [status |-> verdict, basis |-> "recorded", on |-> "recorded"]
  IN /\ At(o, "judge") /\ bearer /\ Up /\ Unlocked
     /\ CASE Current.phase = "recorded" -> Publish(o, "judge", Ev("outcome", out))
          [] Current.phase \in Settled /\ Current.body = out -> Keep(o, "judge")
          [] OTHER -> Refuse(o)
     /\ UNCHANGED <<claims, lock, store, group, provider, verdict, runs, late, bearer, left>>

\* A receipt that cannot be read again leaves the attempt recorded.
JudgeFails(o) ==
  /\ At(o, "judge")
  /\ ~bearer \/ ~Up \/ left.faults > 0
  /\ IF bearer /\ Up THEN SpendFault ELSE UNCHANGED left
  /\ Proceed(o, "judge", op[o].att)
  /\ UNCHANGED <<events, claims, lock, store, group, provider, verdict, runs, late, bearer>>

\* #sealIfDeadline and sealDispatchDeadline: under the lock the log is read
\* again, and only an attempt that is still in flight is sealed, in two files.
Seal(o) ==
  /\ At(o, "seal") /\ Unlocked
  /\ CASE ~late -> UNCHANGED <<events, lock>> /\ Throws(o)
       [] late /\ Current.phase \in InFlight ->
            /\ events' = events \cup
                 IF Current.phase = "quarantined" THEN {} ELSE {Ev("quarantined", Plain("absent"))}
            /\ lock' = o
            /\ Goto(o, "sealing")
       [] late /\ Current.phase \in Settled \cup {"recorded"} -> Keep(o, "seal") /\ UNCHANGED lock
       [] OTHER -> Refuse(o) /\ UNCHANGED lock
  /\ UNCHANGED <<claims, store, group, provider, verdict, runs, late, bearer, left>>

SealOnDispatch(o) ==
  /\ At(o, "sealing")
  /\ Publish(o, "seal", Ev("outcome", [status |-> "unavailable", basis |-> "quarantined",
                                       on |-> "dispatching"]))
  /\ lock' = Nobody
  /\ UNCHANGED <<claims, store, group, provider, verdict, runs, late, bearer, left>>

SealOutcome(o) ==
  /\ At(o, "sealing")
  /\ Publish(o, "seal", Ev("outcome", [status |-> "unavailable", basis |-> "quarantined",
                                       on |-> BodyOf(events, "quarantined").on]))
  /\ lock' = Nobody
  /\ UNCHANGED <<claims, store, group, provider, verdict, runs, late, bearer, left>>

-----------------------------------------------------------------------------
(* Stop and attestation *)

ReleaseUnproved(o) ==
  /\ At(o, "release")
  /\ \/ /\ group \in {"running", "stopped"}
        /\ group' = "stopped"
        /\ provider' = IF provider = "working" THEN "lost" ELSE provider
     \/ UNCHANGED <<group, provider>>
  /\ Goto(o, "mark-stopped")
  /\ UNCHANGED <<events, claims, lock, store, verdict, runs, late, bearer, left>>

\* releaseQualificationTerminal stops the group or proves it stopped; a later
\* operation on the group blocks it.
Release(o) ==
  /\ At(o, "release")
  /\ IF group \in {"running", "stopped"}
     THEN /\ group' = "stopped"
          /\ provider' = IF provider = "working" THEN "lost" ELSE provider
          /\ Goto(o, "mark-stopped")
     ELSE UNCHANGED <<group, provider>> /\ Throws(o)
  /\ UNCHANGED <<events, claims, lock, store, verdict, runs, late, bearer, left>>

MarkStopped(o) ==
  /\ At(o, "mark-stopped") /\ Unlocked
  /\ IF Current.phase = "outcome"
     THEN Publish(o, "release", Ev("stopped", Current.body))
     ELSE Refuse(o)
  /\ UNCHANGED <<claims, lock, store, group, provider, verdict, runs, late, bearer, left>>

AttestUnchecked(o) ==
  /\ At(o, "append")
  /\ IF group \notin {"stopped", "later"}
     THEN UNCHANGED store /\ Throws(o)
     ELSE /\ store' = IF Contains(store, "qualified") THEN store ELSE Append(store, "qualified")
          /\ Goto(o, "mark-attested")
  /\ UNCHANGED <<events, claims, lock, group, provider, verdict, runs, late, bearer, left>>

\* #attest: the stop is verified, the group seen inactive, and the event
\* appended under the store's lock unless a revocation is there first.
Attest(o) ==
  /\ At(o, "append")
  /\ IF group \notin {"stopped", "later"} \/ (Revoked /\ ~Contains(store, "qualified"))
     THEN UNCHANGED store /\ Throws(o)
     ELSE /\ store' = IF Contains(store, "qualified") THEN store ELSE Append(store, "qualified")
          /\ Goto(o, "mark-attested")
  /\ UNCHANGED <<events, claims, lock, group, provider, verdict, runs, late, bearer, left>>

MarkAttested(o) ==
  /\ At(o, "mark-attested") /\ Unlocked
  /\ IF Current.phase = "stopped" /\ Current.body.status = "qualified"
     THEN events' = events \cup {Ev("attested", Current.body)}
     ELSE UNCHANGED events
  /\ Throws(o)
  /\ UNCHANGED <<claims, lock, store, group, provider, verdict, runs, late, bearer, left>>

-----------------------------------------------------------------------------
(* The surroundings *)

\* The operator's process dies; the kernel drops its lock.
Crash(o) ==
  /\ ~At(o, "idle") /\ left.faults > 0
  /\ Throws(o)
  /\ lock' = IF lock = o THEN Nobody ELSE lock
  /\ SpendFault
  /\ UNCHANGED <<events, claims, store, group, provider, verdict, runs, late, bearer>>

\* The provider finishes the run and keeps its receipt.
ProviderRecords ==
  /\ provider = "working" /\ Up
  /\ provider' = "recorded"
  /\ UNCHANGED <<events, claims, lock, store, group, verdict, runs, late, bearer, op, left>>

\* The clock passes the deadline written in the claim.
DeadlinePasses ==
  /\ claims # {} /\ ~late /\ ~left.timely
  /\ late' = TRUE
  /\ UNCHANGED <<events, claims, lock, store, group, provider, verdict, runs, bearer, op, left>>

LoseBearer ==
  /\ bearer /\ left.faults > 0
  /\ bearer' = FALSE
  /\ SpendFault
  /\ UNCHANGED <<events, claims, lock, store, group, provider, verdict, runs, late, op>>

RestoreBearer ==
  /\ ~bearer
  /\ bearer' = TRUE
  /\ UNCHANGED <<events, claims, lock, store, group, provider, verdict, runs, late, op, left>>

\* An administrator appends a revocation of the candidate on this host.
Revoke ==
  /\ left.revocable /\ ~Revoked
  /\ store' = Append(store, "revoked")
  /\ UNCHANGED <<events, claims, lock, group, provider, verdict, runs, late, bearer, op, left>>

\* A project session starts the group after the attempt, or ends.
Session ==
  /\ left.sessions
  /\ \/ group \in {"stopped", "later"} /\ group' = "session"
     \/ group = "session" /\ group' = "later"
  /\ UNCHANGED <<events, claims, lock, store, provider, verdict, runs, late, bearer, op, left>>

Init ==
  /\ events = {} /\ claims = {} /\ lock = Nobody /\ store = <<>>
  /\ group = "idle" /\ provider = "none"
  /\ runs = 0 /\ late = FALSE /\ bearer = TRUE /\ left \in Settings /\ verdict \in left.verdicts
  /\ op = [o \in Operators |-> Idle]

Step(o) ==
  \/ Look(o) \/ Check(o) \/ Activate(o) \/ Prepare(o) \/ Start(o) \/ MarkActive(o) \/ Tip(o)
  \/ Withdraw(o) \/ NoBearer(o) \/ Submit(o) \/ Claim(o) \/ PublishClaim(o) \/ Run(o)
  \/ ReadRun(o) \/ ReadWithoutBearer(o) \/ Settle(o) \/ Judge(o) \/ JudgeFails(o)
  \/ Seal(o) \/ SealOutcome(o) \/ Release(o) \/ MarkStopped(o) \/ Attest(o) \/ MarkAttested(o)

Next ==
  \/ \E o \in Operators : Apply(o) \/ Recover(o) \/ Step(o) \/ Crash(o)
  \/ ProviderRecords \/ DeadlinePasses \/ LoseBearer \/ RestoreBearer \/ Revoke \/ Session

Spec == Init /\ [][Next]_vars

\* A started call goes on, an idle operator is asked to recover, time passes.
Diligence ==
  /\ \A o \in Operators : WF_vars(Recover(o) \/ Step(o))
  /\ WF_vars(DeadlinePasses)

LiveSpec == Spec /\ Diligence

-----------------------------------------------------------------------------
(* Properties *)

TypeOK ==
  /\ events \subseteq [phase : Phases, body : Bodies]
  /\ claims \subseteq [phase : {"dispatching"}, body : {Plain(o) : o \in Operators}]
  /\ lock \in Operators \cup {Nobody}
  /\ store \in Seq({"qualified", "revoked"})
  /\ group \in {"idle", "running", "failed", "stopped", "session", "later"}
  /\ provider \in {"none", "working", "recorded", "lost"}
  /\ verdict \in {"qualified", "failed"}
  /\ runs \in Nat /\ late \in BOOLEAN /\ bearer \in BOOLEAN
  /\ left \in Setting
  /\ \A o \in Operators :
       /\ op[o].att \in Attempts
       /\ op[o].apply \in BOOLEAN /\ op[o].dispatch \in BOOLEAN /\ op[o].revoked \in BOOLEAN

\* However apply and recover overlap, crash and are repeated, the provider is
\* asked to run the case at most once (claimDispatching, #dispatchOnce).
DispatchedOnce == runs <= 1

\* The log's files can always be read back: no interleaving of operators and
\* no crash between two files leaves a directory that
\* resolveQualificationAttempts refuses.
WalReadable == Current.phase # "broken"

\* A qualified attestation is there only if the provider's receipt met the
\* criteria, the attempt no longer runs the group and no revocation came
\* before it (#attest, appendQualifiedUnlessRevoked).
QualifiedIsEarned ==
  \A i \in 1..Len(store) : store[i] = "qualified" =>
    /\ \A j \in 1..(i - 1) : store[j] # "revoked"
    /\ provider = "recorded" /\ verdict = "qualified"
    /\ group # "running"

\* A log that says stopped never stands beside a group this attempt still
\* has running (#stop, markStopped).
StoppedMeansReleased == Has(events, "stopped") => group # "running"

\* An outcome is the last word on the probe: a receipt, a quarantine or
\* another outcome that arrives later is not added to the log.
OutcomeIsFinal ==
  [][Has(events, "outcome") => events' \ events \subseteq
       [phase : {"stopped", "attested"}, body : {BodyOf(events, "outcome")}]]_vars

\* Once the group was started for an attempt, recovery ends with the attempt
\* stopped, revoked or not, whatever the provider answered, wherever the
\* operators crashed and whether or not the bearer is there (#continue,
\* #finishRevoked, #sealIfDeadline), unless a recorded receipt waits for ever
\* for the bearer it takes to judge it.  Time must pass: only the deadline
\* ends a dispatch whose receipt never comes.  An attempt whose operator died
\* between the stop and its event is overtaken by the next session's start and
\* keeps its outcome.
StartedAttemptStops ==
  ~left.timely /\ <>[](bearer \/ Current.phase # "recorded")
    => (Has(events, "active") ~> Has(events, "stopped") \/ group \in {"session", "later"})

\* The attempt's log, the provider, the group and the attestations agree.
AttemptIsSound ==
  TypeOK /\ DispatchedOnce /\ WalReadable /\ QualifiedIsEarned /\ StoppedMeansReleased
=============================================================================
