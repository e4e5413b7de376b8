------------------------ MODULE ThreadWritersProofs -------------------------
(***************************************************************************)
(* Proofs about ThreadWriters, for any number of processes, runs, teams,   *)
(* revisions and faults.                                                   *)
(*                                                                         *)
(* The argument: whoever works on a run holds the lease of its basis, and  *)
(* while it does the basis stays the head, because only a writer of that   *)
(* basis could move it.  So claims and documents are made for the revision *)
(* after the head only, and a claim, once linked, keeps its snapshot.      *)
(***************************************************************************)
EXTENDS ThreadWriters, SequenceTheorems, TLAPS

(* The steps between the claim of the run and its completion. *)
Owning == {"work"} \cup Saving \cup Attaching

(* A process past Acquire holds the lease of the basis of its run; one past *)
(* the guard executes a claimed run whose basis is still the head.         *)
LeaseInv ==
    \A p \in Procs :
        /\ pc[p] # "idle" => status[job[p]] # "absent"
        /\ pc[p] \in Leased => lease[basis[job[p]]] = p
        /\ pc[p] \in Owning => status[job[p]] \in Executing /\ basis[job[p]] = head

(* What a process knows of the store at each step of its save. *)
SaveInv ==
    \A p \in Procs :
        /\ pc[p] = "write" => claim[Successor(job[p])] = job[p]
        /\ pc[p] \in Attaching => doc[Successor(job[p])] = job[p]
        /\ pc[p] = "work" /\ fresh[p] => \A n \in Revisions : claim[n] # job[p]

(* A claim names a run that was claimed on the revision before. *)
ClaimInv ==
    \A n \in Revisions :
        claim[n] # None =>
            /\ status[claim[n]] \notin {"absent", "queued"}
            /\ basis[claim[n]] = n - 1
            /\ n <= head + 1

IInv == ThreadIsBacked /\ LeaseInv /\ SaveInv /\ ClaimInv
-----------------------------------------------------------------------------
(* What the error handler does: it fails the run it executes, or leaves it; *)
(* a careful executor fails it only before its first save.                 *)
LEMMA CatchEffect ==
    ASSUME TypeOK, NEW p \in Procs, pc[p] # "idle", Catch(p)
    PROVE  /\ \/ status' = status
              \/ /\ status[job[p]] \in Executing
                 /\ status' = [status EXCEPT ![job[p]] = "failed"]
                 /\ team.policy[job[p]] = "careful" => pc[p] = "work" /\ fresh[p]
           /\ pc' = [pc EXCEPT ![p] = "leave"]
           /\ UNCHANGED <<basis, head, lease, job, fresh>>
  <1>1. job[p] \in Runs /\ status = [status EXCEPT ![job[p]] = status[job[p]]]
    BY DEF TypeOK
  <1> QED BY <1>1 DEF Catch, FailsRun, SetStatus, Goto

(* Steps that end in the error handler: a failing call of any kind, or a   *)
(* save or completion that is refused.                                     *)
Caught(p) ==
    /\ pc[p] \in Owning
    /\ Catch(p)
    /\ \/ UNCHANGED store
       \/ pc[p] = "link" /\ LinkClaim(p) /\ UNCHANGED doc
       \/ pc[p] = "write" /\ LinkDoc(p) /\ UNCHANGED claim
    /\ faults' \in {faults, faults + 1} /\ faults' <= MaxFaults
    /\ UNCHANGED team

(* Steps inside the invocation that only move it on. *)
Passed(p) ==
    /\ \/ pc[p] = "work" /\ Goto(p, "lookup")
       \/ pc[p] = "lookup" /\ doc[Successor(job[p])] = None /\ Goto(p, "link")
       \/ pc[p] = "lookup" /\ doc[Successor(job[p])] = job[p] /\ Goto(p, "publish")
    /\ UNCHANGED <<team, project, store, lease, job, fresh, faults>>

(* The steps that get what they asked for. *)
Claimed(p) ==
    /\ pc[p] = "link" /\ LinkClaim(p) /\ claim'[Successor(job[p])] = job[p]
    /\ Goto(p, "write")
    /\ UNCHANGED <<team, project, doc, lease, job, fresh, faults>>
Completed(p) ==
    /\ pc[p] = "complete" /\ head = basis[job[p]]
    /\ SetStatus(job[p], "completed")
    /\ head' = Successor(job[p])
    /\ Goto(p, "leave")
    /\ UNCHANGED <<team, basis, store, lease, job, fresh, faults>>
Admitted(p) ==
    /\ pc[p] = "open"
    /\ status[job[p]] \in {"queued"} \cup Executing /\ BasisAvailable(job[p])
    /\ fresh' = [fresh EXCEPT ![p] = status[job[p]] = "queued"]
    /\ \/ status[job[p]] = "queued" /\ SetStatus(job[p], "running")
       \/ status[job[p]] # "queued" /\ UNCHANGED status
    /\ Goto(p, "work")
    /\ UNCHANGED <<team, basis, head, store, lease, job, faults>>
Refused(p) ==
    /\ pc[p] = "open" /\ Goto(p, "leave")
    /\ UNCHANGED <<team, project, store, lease, job, fresh, faults>>
Left(p) ==
    /\ pc[p] # "idle" /\ Release(p)
    /\ faults' \in {faults, faults + 1} /\ faults' <= MaxFaults
    /\ UNCHANGED <<team, project, store>>
Wrote(p) == WriteDocument(p) /\ UNCHANGED team
Published(p) == PublishRun(p) /\ UNCHANGED team

(* Every step of a process is of one of these kinds. *)
LEMMA StepKinds ==
    ASSUME TypeOK, NEW p \in Procs, Step(p) \/ Failure(p)
    PROVE  \/ Caught(p) \/ Passed(p) \/ Claimed(p) \/ Completed(p)
           \/ Admitted(p) \/ Refused(p) \/ Left(p) \/ Wrote(p) \/ Published(p)
  <1>0. faults \in Nat /\ faults <= MaxFaults /\ MaxFaults \in Nat
    BY WritersAssumption DEF TypeOK
  <1>1. CASE GuardAndClaim(p) /\ UNCHANGED team
    <2>1. job[p] \in Runs => status = [status EXCEPT ![job[p]] = status[job[p]]]
      BY DEF TypeOK
    <2>2. job[p] \in Runs
      BY <1>1 DEF GuardAndClaim, TypeOK
    <2> QED BY <1>1, <2>1, <2>2 DEF GuardAndClaim, SetStatus, Admitted, Refused, project
  <1>2. CASE Work(p) /\ UNCHANGED team
    BY <1>2 DEF Work, Passed
  <1>3. CASE Lookup(p) /\ UNCHANGED team
    BY <1>0, <1>3 DEF Lookup, Passed, Caught, Owning, Saving, project, store
  <1>4. CASE ClaimRevision(p) /\ UNCHANGED team
    BY <1>0, <1>4 DEF ClaimRevision, Claimed, Caught, Owning, Saving, store
  <1>5. CASE WriteDocument(p) \/ PublishRun(p)
    BY <1>5 DEF Wrote, Published, Step, Failure
  <1>6. CASE CompleteRun(p) /\ UNCHANGED team
    BY <1>0, <1>6 DEF CompleteRun, Completed, Caught, Owning, Attaching, store
  <1>7. CASE (Leave(p) \/ Crash(p)) /\ UNCHANGED team
    BY <1>0, <1>7 DEF Leave, Crash, Left, Fault
  <1>8. CASE (WorkFails(p) \/ SaveFails(p) \/ AttachFails(p)) /\ UNCHANGED team
    BY <1>0, <1>8 DEF WorkFails, SaveFails, AttachFails, Fault, Caught, Owning, store
  <1> QED BY <1>1, <1>2, <1>3, <1>4, <1>5, <1>6, <1>7, <1>8 DEF Step, Failure
(* A claimed run has a successor inside the bound. *)
LEMMA SuccessorIsRevision ==
    ASSUME TypeOK, NEW r \in Runs, status[r] # "absent"
    PROVE  basis[r] \in Revisions /\ Successor(r) \in Revisions
  BY WritersAssumption DEF TypeOK, Revisions, Successor

(* The shape of everything is kept by every step of every process. *)
LEMMA TypeStep ==
    ASSUME IInv, [Next]_vars PROVE TypeOK'
  <1>0. TypeOK /\ MaxRevision \in Nat \ {0} /\ MaxFaults \in Nat /\ None \notin Procs \cup Runs
    BY WritersAssumption DEF IInv, ThreadIsBacked
  <1>1. ASSUME NEW r \in Runs, QueueRun(r) PROVE TypeOK'
    BY <1>0, <1>1 DEF QueueRun, SetStatus, TypeOK, Revisions, Status, store
  <1>2. ASSUME NEW p \in Procs, NEW r \in Runs, Execute(p, r) PROVE TypeOK'
    BY <1>0, <1>2 DEF Execute, Goto, TypeOK, project, store
  <1>3. ASSUME NEW p \in Procs, Acquire(p) PROVE TypeOK'
    BY <1>0, <1>3 DEF Acquire, Goto, TypeOK, Leased, project, store
  <1>4. ASSUME NEW p \in Procs, Step(p) \/ Failure(p) PROVE TypeOK'
    <2>0. pc[p] # "idle" => /\ job[p] \in Runs /\ status[job[p]] # "absent"
                           /\ basis[job[p]] \in Revisions
                           /\ Successor(job[p]) \in Revisions
      BY <1>0, SuccessorIsRevision DEF IInv, LeaseInv, TypeOK
    <2>1. CASE Caught(p)
      <3>1. pc[p] # "idle"
        BY <2>1 DEF Caught, Owning, Saving, Attaching
      <3>2. job[p] \in Runs /\ Successor(job[p]) \in Revisions
        BY <2>0, <3>1
      <3>3. claim' \in [Revisions -> Runs \cup {None}] /\ doc' \in [Revisions -> Runs \cup {None}]
        BY <1>0, <2>1, <3>2 DEF Caught, LinkClaim, LinkDoc, TypeOK, store
      <3> QED BY <1>0, <2>1, <3>1, <3>2, <3>3, CatchEffect
              DEF Caught, TypeOK, Status, Executing, Leased
    <2>2. CASE Passed(p)
      BY <1>0, <2>0, <2>2 DEF Passed, TypeOK, Goto, Leased, Saving, Attaching, project, store
    <2>3. CASE Claimed(p)
      BY <1>0, <2>0, <2>3 DEF Claimed, TypeOK, LinkClaim, Goto, Leased, Saving, project
    <2>4. CASE Completed(p)
      BY <1>0, <2>0, <2>4 DEF Completed, TypeOK, SetStatus, Goto, Leased, Status, store
    <2>5. CASE Admitted(p)
      BY <1>0, <2>0, <2>5 DEF Admitted, TypeOK, SetStatus, Goto, Leased, Status, Executing, store
    <2>6. CASE Refused(p)
      BY <1>0, <2>0, <2>6 DEF Refused, TypeOK, Goto, Leased, project, store
    <2>7. CASE Left(p)
      BY <1>0, <2>0, <2>7 DEF Left, TypeOK, Release, Goto, project, store
    <2>8. CASE Wrote(p)
      BY <1>0, <2>0, <2>8
         DEF Wrote, TypeOK, WriteDocument, LinkDoc, Goto, Leased, Attaching, project
    <2>9. CASE Published(p)
      BY <1>0, <2>0, <2>9
         DEF Published, TypeOK, PublishRun, SetStatus, Goto, Leased, Attaching, Status, Executing,
             store
    <2> QED BY <1>0, <1>4, <2>1, <2>2, <2>3, <2>4, <2>5, <2>6, <2>7, <2>8, <2>9, StepKinds
  <1>5. CASE UNCHANGED vars
    BY <1>0, <1>5 DEF vars, TypeOK, project, store
  <1> QED BY <1>1, <1>2, <1>3, <1>4, <1>5 DEF Next
(* Two processes under the lease of one basis are the same process, and    *)
(* the run of a process is typed.                                          *)
LEMMA LeaseExcludes ==
    ASSUME IInv, NEW p \in Procs, pc[p] # "idle"
    PROVE  /\ TypeOK
           /\ job[p] \in Runs /\ status[job[p]] # "absent"
           /\ basis[job[p]] \in Revisions /\ Successor(job[p]) \in Revisions
           /\ \A q \in Procs : q # p /\ pc[q] \in Leased /\ pc[p] \in Leased =>
                 basis[job[q]] # basis[job[p]] /\ job[q] # job[p]
  <1>1. TypeOK /\ job[p] \in Runs /\ status[job[p]] # "absent"
    BY DEF IInv, ThreadIsBacked, TypeOK, LeaseInv
  <1>2. basis[job[p]] \in Revisions /\ Successor(job[p]) \in Revisions
    BY <1>1, SuccessorIsRevision
  <1> QED BY <1>1, <1>2 DEF IInv, LeaseInv

(* A process keeps its lease, its claimed run and its basis as the head    *)
(* until it leaves.                                                        *)
LEMMA LeaseStep ==
    ASSUME IInv, [Next]_vars PROVE LeaseInv'
  <1>0. TypeOK /\ LeaseInv /\ None \notin Procs \cup Runs
    BY WritersAssumption DEF IInv, ThreadIsBacked
  <1>1. ASSUME NEW r \in Runs, QueueRun(r) PROVE LeaseInv'
    BY <1>0, <1>1 DEF QueueRun, SetStatus, TypeOK, LeaseInv, Executing, Owning, Leased
  <1>2. ASSUME NEW p \in Procs, NEW r \in Runs, Execute(p, r) PROVE LeaseInv'
    BY <1>0, <1>2 DEF Execute, Goto, TypeOK, LeaseInv, Executing, Owning, Saving,
       Attaching, Leased, project
  <1>3. ASSUME NEW p \in Procs, Acquire(p) PROVE LeaseInv'
    <2>1. job[p] \in Runs /\ basis[job[p]] \in Revisions
      BY <1>3, LeaseExcludes DEF Acquire
    <2>2. ASSUME NEW q \in Procs, q # p, pc[q] \in Leased
          PROVE  basis[job[q]] # basis[job[p]] /\ lease'[basis[job[q]]] = q
      BY <1>0, <1>3, <2>1, <2>2 DEF Acquire, LeaseInv, TypeOK
    <2> QED BY <1>0, <1>3, <2>1, <2>2 DEF Acquire, Goto, TypeOK, LeaseInv, Owning, Saving,
            Attaching, Leased, project
  <1>4. ASSUME NEW p \in Procs, Step(p) \/ Failure(p) PROVE LeaseInv'
    <2> USE <1>0 DEF LeaseInv, Owning, Saving, Attaching, Leased
    <2>0. pc[p] # "idle" =>
            /\ job[p] \in Runs /\ status[job[p]] # "absent"
            /\ \A q \in Procs : q # p /\ pc[q] \in Leased /\ pc[p] \in Leased =>
                  basis[job[q]] # basis[job[p]] /\ job[q] # job[p]
      BY LeaseExcludes
    <2>1. CASE Caught(p)
      BY <2>0, <2>1, CatchEffect DEF Caught, TypeOK
    <2>2. CASE Passed(p)
      BY <2>0, <2>2 DEF Passed, Goto, project, store, TypeOK, Executing
    <2>3. CASE Claimed(p)
      BY <2>0, <2>3 DEF Claimed, Goto, project, TypeOK, Executing
    <2>4. CASE Completed(p)
      BY <2>0, <2>4 DEF Completed, SetStatus, Goto, store, TypeOK, Executing
    <2>5. CASE Admitted(p)
      BY <2>0, <2>5 DEF Admitted, BasisAvailable, SetStatus, Goto, store, TypeOK, Executing
    <2>6. CASE Refused(p)
      BY <2>0, <2>6 DEF Refused, Goto, project, store, TypeOK, Executing
    <2>7. CASE Left(p)
      <3>1. \A q \in Procs : pc[q] # "idle" => basis[job[q]] \in Revisions
        BY LeaseExcludes
      <3> QED BY <2>0, <2>7, <3>1 DEF Left, Release, Goto, project, TypeOK
    <2>8. CASE Wrote(p)
      BY <2>0, <2>8 DEF Wrote, WriteDocument, Goto, project, TypeOK, Executing
    <2>9. CASE Published(p)
      BY <2>0, <2>9 DEF Published, PublishRun, SetStatus, Goto, store, TypeOK, Executing
    <2> QED BY <1>4, <2>1, <2>2, <2>3, <2>4, <2>5, <2>6, <2>7, <2>8, <2>9, StepKinds
  <1>5. CASE UNCHANGED vars
    BY <1>0, <1>5 DEF vars, LeaseInv, project, store
  <1> QED BY <1>1, <1>2, <1>3, <1>4, <1>5 DEF Next
(* Claims are linked once, for the revision after the head, and documents  *)
(* only by the run their claim names: what the store holds is kept.        *)
LEMMA StoreStep ==
    ASSUME IInv, [Next]_vars
    PROVE  /\ \A n \in Revisions : claim[n] # None => claim'[n] = claim[n]
           /\ \A n \in Revisions : doc[n] # None => doc'[n] = doc[n]
           /\ \A n \in Revisions : claim'[n] # claim[n] =>
                 \E p \in Procs : /\ pc[p] = "link" /\ claim'[n] = job[p]
                                 /\ n = Successor(job[p])
           /\ \A n \in Revisions : doc'[n] # doc[n] =>
                 \E p \in Procs : /\ pc[p] = "write" /\ doc'[n] = job[p]
                                 /\ n = Successor(job[p])
  <1>0. TypeOK /\ RevisionsHaveOneOwner /\ SaveInv
    BY DEF IInv, ThreadIsBacked
  <1>1. CASE UNCHANGED store
    BY <1>1 DEF store
  <1>2. ASSUME NEW p \in Procs, pc[p] = "link", LinkClaim(p), UNCHANGED doc PROVE
           \A n \in Revisions :
                 /\ claim[n] # None => claim'[n] = claim[n]
                 /\ claim'[n] # claim[n] => claim'[n] = job[p] /\ n = Successor(job[p])
    BY <1>0, <1>2 DEF LinkClaim, TypeOK
  <1>3. ASSUME NEW p \in Procs, pc[p] = "write", LinkDoc(p), UNCHANGED claim PROVE
           \A n \in Revisions :
                 /\ doc[n] # None => doc'[n] = doc[n]
                 /\ doc'[n] # doc[n] => doc'[n] = job[p] /\ n = Successor(job[p])
    BY <1>0, <1>3 DEF LinkDoc, TypeOK, RevisionsHaveOneOwner, SaveInv
  <1>4. ASSUME NEW p \in Procs, Step(p) \/ Failure(p)
        PROVE  \/ UNCHANGED store
               \/ pc[p] = "link" /\ LinkClaim(p) /\ UNCHANGED doc
               \/ pc[p] = "write" /\ LinkDoc(p) /\ UNCHANGED claim
    BY <1>0, <1>4, StepKinds DEF Caught, Passed, Claimed, Completed, Admitted, Refused, Left,
       Wrote, WriteDocument, Published, PublishRun
  <1>5. \/ UNCHANGED store
        \/ \E p \in Procs : \/ pc[p] = "link" /\ LinkClaim(p) /\ UNCHANGED doc
                            \/ pc[p] = "write" /\ LinkDoc(p) /\ UNCHANGED claim
    BY <1>4 DEF Next, QueueRun, Execute, Acquire, vars
  <1> QED BY <1>1, <1>2, <1>3, <1>5

(* The steps that change the project.                                      *)
LEMMA ProjectStep ==
    ASSUME IInv, [Next]_vars
    PROVE  /\ team' = team
           /\ \/ UNCHANGED project
              \/ \E r \in Runs : QueueRun(r)
              \/ \E p \in Procs : Admitted(p) \/ Published(p) \/ Completed(p) \/ Caught(p)
  <1>1. TypeOK
    BY DEF IInv, ThreadIsBacked
  <1>2. ASSUME NEW p \in Procs, Step(p) \/ Failure(p)
        PROVE  /\ team' = team
               /\ \/ UNCHANGED project
                  \/ Admitted(p) \/ Published(p) \/ Completed(p) \/ Caught(p)
    BY <1>1, <1>2, StepKinds DEF Caught, Passed, Claimed, Completed, Admitted, Refused, Left,
       Wrote, WriteDocument, Published
  <1> QED BY <1>2 DEF Next, QueueRun, Execute, Acquire, vars

(* A process that works on a run executes it on the head. *)
LEMMA OwnerExecutes ==
    ASSUME IInv, NEW p \in Procs, pc[p] \in Owning
    PROVE  /\ pc[p] # "idle" /\ job[p] \in Runs /\ status[job[p]] \in Executing
           /\ basis[job[p]] = head /\ Successor(job[p]) = head + 1
           /\ head + 1 \in Revisions
  <1>1. pc[p] # "idle"
    BY DEF Owning, Saving, Attaching
  <1> QED BY <1>1, LeaseExcludes DEF IInv, LeaseInv, Successor

(* A step keeps the basis of every run that is queued, and a completed run *)
(* stays completed.                                                        *)
RunKept(r) ==
    /\ status[r] # "absent" => basis'[r] = basis[r] /\ status'[r] # "absent"
    /\ status[r] \notin {"absent", "queued"} => status'[r] \notin {"absent", "queued"}
    /\ status[r] = "completed" => status'[r] = "completed"
    /\ status'[r] \in Executing => status[r] \in {"queued"} \cup Executing

LEMMA RunsAreKept ==
    ASSUME IInv, [Next]_vars, NEW r \in Runs PROVE RunKept(r)
  <1> USE DEF RunKept, Executing
  <1>0. TypeOK
    BY DEF IInv, ThreadIsBacked
  <1>1. ASSUME NEW q \in Runs, QueueRun(q) PROVE RunKept(r)
    BY <1>0, <1>1 DEF QueueRun, SetStatus, TypeOK
  <1>2. ASSUME NEW p \in Procs, Admitted(p) PROVE RunKept(r)
    BY <1>0, <1>2, LeaseExcludes DEF Admitted, SetStatus, TypeOK
  <1>3. ASSUME NEW p \in Procs, Published(p) \/ Completed(p) PROVE RunKept(r)
    <2>1. pc[p] \in Owning
      BY <1>3 DEF Published, PublishRun, Completed, Owning, Attaching
    <2> QED BY <1>0, <1>3, <2>1, OwnerExecutes
            DEF Published, PublishRun, Completed, SetStatus, TypeOK
  <1>4. ASSUME NEW p \in Procs, Caught(p) PROVE RunKept(r)
    <2>1. pc[p] \in Owning /\ Catch(p)
      BY <1>4 DEF Caught
    <2> QED BY <1>0, <2>1, OwnerExecutes, CatchEffect DEF TypeOK
  <1> QED BY <1>1, <1>2, <1>3, <1>4, ProjectStep DEF project

-----------------------------------------------------------------------------
(* One listed run executes per basis: the guard saw the other.             *)
LEMMA ExecutingStep ==
    ASSUME IInv, [Next]_vars PROVE OneExecutingPerBasis'
  <1>0. TypeOK /\ OneExecutingPerBasis
    BY DEF IInv, ThreadIsBacked
  <1>1. SUFFICES ASSUME NEW r \in Runs, NEW s \in Runs, r # s,
                        status'[r] \in Executing, status'[s] \in Executing,
                        basis'[r] = basis'[s]
                 PROVE  {r, s} \ team'.listed # {}
    BY DEF OneExecutingPerBasis
  <1>2. basis[r] = basis[s] /\ team' = team
    BY <1>1, RunsAreKept, ProjectStep DEF RunKept, Executing
  <1>3. CASE status[r] \in Executing /\ status[s] \in Executing
    BY <1>0, <1>1, <1>2, <1>3 DEF OneExecutingPerBasis
  <1>4. ASSUME NEW a \in {r, s}, NEW b \in {r, s}, a # b, status[a] = "queued"
        PROVE  b \notin team.listed
    <2>1. PICK p \in Procs : Admitted(p) /\ job[p] = a
      <3>1. ASSUME NEW q \in Runs, QueueRun(q) PROVE FALSE
        BY <1>0, <1>1, <1>4, <3>1 DEF QueueRun, SetStatus, TypeOK, Executing
      <3>2. ASSUME NEW p \in Procs, Admitted(p) PROVE job[p] = a
        BY <1>0, <1>1, <1>4, <3>2, LeaseExcludes DEF Admitted, SetStatus, TypeOK, Executing
      <3>3. ASSUME NEW p \in Procs, Published(p) \/ Completed(p) \/ Caught(p) PROVE FALSE
        <4>1. pc[p] \in Owning
          BY <3>3 DEF Published, PublishRun, Completed, Caught, Owning, Attaching
        <4>2. job[p] # a
          BY <1>4, <4>1, OwnerExecutes DEF Executing
        <4> QED BY <1>0, <1>1, <1>4, <3>3, <4>1, <4>2, OwnerExecutes, CatchEffect
                DEF Published, PublishRun, Completed, Caught, SetStatus, TypeOK, Executing
      <3> QED BY <1>1, <1>4, <3>1, <3>2, <3>3, ProjectStep DEF project, Executing
    <2>2. status'[b] = status[b]
      BY <1>0, <1>1, <1>4, <2>1, LeaseExcludes DEF Admitted, SetStatus, TypeOK
    <2> QED BY <1>1, <1>2, <1>4, <2>1, <2>2 DEF Admitted, BasisAvailable
  <1> QED BY <1>1, <1>2, <1>3, <1>4, RunsAreKept DEF RunKept
(* The head moves only when a process completes its run, to the document   *)
(* that run wrote.                                                         *)
LEMMA HeadStep ==
    ASSUME IInv, [Next]_vars
    PROVE  \/ head' = head
           \/ \E p \in Procs :
                 /\ Completed(p) /\ job[p] \in Runs
                 /\ head' = head + 1 /\ head + 1 \in Revisions
                 /\ basis[job[p]] = head /\ doc[head + 1] = job[p]
                 /\ status' = [status EXCEPT ![job[p]] = "completed"]
                 /\ status[job[p]] \in Executing
                 /\ UNCHANGED <<basis, store>>
  <1>1. ASSUME NEW p \in Procs, Completed(p)
        PROVE  /\ job[p] \in Runs
               /\ head' = head + 1 /\ head + 1 \in Revisions
               /\ basis[job[p]] = head /\ doc[head + 1] = job[p]
               /\ status' = [status EXCEPT ![job[p]] = "completed"]
               /\ status[job[p]] \in Executing
               /\ UNCHANGED <<basis, store>>
    <2>1. pc[p] \in Owning /\ pc[p] \in Attaching
      BY <1>1 DEF Completed, Owning, Attaching
    <2>2. doc[Successor(job[p])] = job[p]
      BY <2>1 DEF IInv, SaveInv
    <2> QED BY <1>1, <2>1, <2>2, OwnerExecutes DEF Completed, SetStatus
  <1>2. ASSUME NEW p \in Procs, Caught(p) PROVE head' = head
    BY <1>2 DEF Caught, Catch
  <1> QED BY <1>1, <1>2, ProjectStep DEF project, QueueRun, Admitted, Published, PublishRun

(* The declared revisions stay backed, and a new one is. *)
LEMMA BackedStep ==
    ASSUME IInv, [Next]_vars PROVE DeclaredIsBacked'
  <1>0. TypeOK /\ DeclaredIsBacked /\ MaxRevision \in Nat /\ None \notin Runs
    BY WritersAssumption DEF IInv, ThreadIsBacked
  <1>1. SUFFICES ASSUME NEW n \in 2..head'
                 PROVE  doc'[n] \in Runs /\ status'[doc'[n]] = "completed"
                        /\ basis'[doc'[n]] = n - 1
    BY DEF DeclaredIsBacked
  <1>2. ASSUME n \in 2..head
        PROVE  doc'[n] \in Runs /\ status'[doc'[n]] = "completed"
               /\ basis'[doc'[n]] = n - 1
    <2>1. n \in Revisions /\ doc[n] \in Runs /\ status[doc[n]] = "completed"
          /\ basis[doc[n]] = n - 1
      BY <1>0, <1>2 DEF DeclaredIsBacked, TypeOK, Revisions
    <2>2. doc'[n] = doc[n]
      BY <1>0, <2>1, StoreStep
    <2> QED BY <2>1, <2>2, RunsAreKept DEF RunKept
  <1>3. CASE head' = head
    BY <1>1, <1>2, <1>3
  <1>4. ASSUME NEW p \in Procs, Completed(p), job[p] \in Runs,
               head' = head + 1, basis[job[p]] = head, doc[head + 1] = job[p],
               status' = [status EXCEPT ![job[p]] = "completed"],
               UNCHANGED <<basis, store>>
        PROVE  doc'[n] \in Runs /\ status'[doc'[n]] = "completed"
               /\ basis'[doc'[n]] = n - 1
    <2>1. head \in Nat /\ (n \in 2..head \/ n = head + 1)
      BY <1>0, <1>1, <1>4 DEF TypeOK, Revisions
    <2>2. CASE n = head + 1
      BY <1>0, <1>4, <2>1, <2>2 DEF TypeOK, store
    <2> QED BY <1>2, <2>1, <2>2
  <1> QED BY <1>3, <1>4, HeadStep

(* A claim is made for the revision after the head, by a claimed run.      *)
LEMMA ClaimStep ==
    ASSUME IInv, [Next]_vars PROVE ClaimInv' /\ RevisionsHaveOneOwner'
  <1>0. TypeOK /\ ClaimInv /\ RevisionsHaveOneOwner /\ SaveInv /\ None \notin Runs
    BY WritersAssumption DEF IInv, ThreadIsBacked
  <1>1. PICK h \in Nat : head' = h /\ head \in Nat /\ head <= h
    BY <1>0, HeadStep DEF TypeOK, Revisions
  <1>2. ASSUME NEW n \in Revisions, claim'[n] # None
        PROVE  /\ status'[claim'[n]] \notin {"absent", "queued"}
               /\ basis'[claim'[n]] = n - 1
               /\ n <= head' + 1
    <2>0. n \in Nat
      BY WritersAssumption DEF Revisions
    <2>1. CASE claim'[n] = claim[n]
      <3>1. claim[n] \in Runs /\ status[claim[n]] \notin {"absent", "queued"}
            /\ basis[claim[n]] = n - 1 /\ n <= head + 1
        BY <1>0, <1>2, <2>1 DEF TypeOK, ClaimInv
      <3>2. PICK r \in Runs : r = claim[n] /\ RunKept(r)
        BY <3>1, RunsAreKept
      <3> QED BY <1>1, <2>0, <2>1, <3>1, <3>2 DEF RunKept
    <2>2. CASE claim'[n] # claim[n]
      <3>1. PICK p \in Procs : pc[p] = "link" /\ claim'[n] = job[p] /\ n = Successor(job[p])
        BY <2>2, StoreStep
      <3>2. pc[p] \in Owning
        BY <3>1 DEF Owning, Saving
      <3>3. /\ job[p] \in Runs /\ status[job[p]] \in Executing
            /\ basis[job[p]] = head /\ n = head + 1
        BY <3>1, <3>2, OwnerExecutes
      <3>4. PICK r \in Runs : r = job[p] /\ RunKept(r)
        BY <3>3, RunsAreKept
      <3> QED BY <1>1, <2>0, <3>1, <3>3, <3>4 DEF RunKept, Executing
    <2> QED BY <2>1, <2>2
  <1>3. ASSUME NEW n \in Revisions, doc'[n] # None PROVE claim'[n] = doc'[n]
    <2>1. CASE doc'[n] = doc[n]
      BY <1>0, <1>3, <2>1, StoreStep DEF RevisionsHaveOneOwner
    <2>2. CASE doc'[n] # doc[n]
      <3>1. PICK p \in Procs : pc[p] = "write" /\ doc'[n] = job[p] /\ n = Successor(job[p])
        BY <2>2, StoreStep
      <3> QED BY <1>0, <1>3, <3>1, StoreStep DEF SaveInv
    <2> QED BY <2>1, <2>2
  <1> QED BY <1>2, <1>3 DEF ClaimInv, RevisionsHaveOneOwner
(* What a process knows of its own save is not disturbed by others, whose  *)
(* runs have another basis.                                                *)
LEMMA SaveStep ==
    ASSUME IInv, [Next]_vars PROVE SaveInv'
  <1>0. TypeOK /\ SaveInv /\ ClaimInv /\ RevisionsHaveOneOwner /\ None \notin Procs \cup Runs
    BY WritersAssumption DEF IInv, ThreadIsBacked
  <1>1. SUFFICES ASSUME NEW p \in Procs
                 PROVE  /\ pc'[p] = "write" => claim'[Successor(job[p])'] = job'[p]
                        /\ pc'[p] \in Attaching => doc'[Successor(job[p])'] = job'[p]
                        /\ pc'[p] = "work" /\ fresh'[p] =>
                              \A n \in Revisions : claim'[n] # job'[p]
    BY DEF SaveInv, Successor
  <1>2. ASSUME pc'[p] = pc[p], job'[p] = job[p], fresh'[p] = fresh[p], pc[p] \in Owning
        PROVE  /\ pc'[p] = "write" => claim'[Successor(job[p])'] = job'[p]
               /\ pc'[p] \in Attaching => doc'[Successor(job[p])'] = job'[p]
               /\ pc'[p] = "work" /\ fresh'[p] =>
                     \A n \in Revisions : claim'[n] # job'[p]
    <2>1. /\ job[p] \in Runs /\ status[job[p]] \in Executing /\ Successor(job[p]) \in Revisions
      BY <1>2, OwnerExecutes
    <2>2. Successor(job[p])' = Successor(job[p])
      BY <1>2, <2>1, RunsAreKept DEF Successor, RunKept, Executing
    <2>3. ASSUME NEW n \in Revisions, pc[p] = "work", claim'[n] = job[p] PROVE claim[n] = job[p]
      <3>1. ASSUME NEW q \in Procs, pc[q] = "link", job[q] = job[p] PROVE FALSE
        BY <2>3, <3>1, LeaseExcludes DEF Leased, Saving
      <3> QED BY <2>3, <3>1, StoreStep
    <2> QED BY <1>0, <1>2, <2>1, <2>2, <2>3, StoreStep DEF SaveInv
  <1>3. CASE pc'[p] \notin Owning
    BY <1>3 DEF Owning, Saving, Attaching
  <1>4. CASE Step(p) \/ Failure(p)
    <2>0. pc[p] # "idle" => /\ job[p] \in Runs /\ Successor(job[p]) \in Revisions
                           /\ status[job[p]] # "absent"
      BY LeaseExcludes
    <2> USE <1>0 DEF Attaching
    <2>1. CASE Passed(p)
      BY <2>0, <2>1 DEF Passed, Goto, TypeOK, project, store, Successor
    <2>2. CASE Claimed(p)
      BY <2>0, <2>2 DEF Claimed, Goto, TypeOK, project, Successor
    <2>3. CASE Admitted(p)
      <3>1. fresh'[p] => \A n \in Revisions : claim[n] # job[p]
        BY <2>0, <2>3 DEF Admitted, ClaimInv, TypeOK
      <3> QED BY <2>3, <3>1 DEF Admitted, Goto, TypeOK, store
    <2>4. CASE Wrote(p)
      BY <2>0, <2>4 DEF Wrote, WriteDocument, LinkDoc, Goto, TypeOK, project, Successor
    <2>5. CASE Published(p)
      BY <2>0, <2>5 DEF Published, PublishRun, SaveInv, Goto, TypeOK, store, Successor
    <2>6. CASE Completed(p) \/ Refused(p) \/ Left(p)
      BY <1>3, <2>6 DEF Completed, Refused, Left, Release, Goto, TypeOK, Owning, Saving
    <2>7. CASE Caught(p)
      BY <1>3, <2>0, <2>7, CatchEffect DEF Caught, TypeOK, Owning, Saving
    <2> QED BY <1>4, <2>1, <2>2, <2>3, <2>4, <2>5, <2>6, <2>7, StepKinds
  <1>5. CASE ~(Step(p) \/ Failure(p)) /\ pc'[p] \in Owning
    <2>1. ASSUME NEW q \in Procs, q # p, Step(q) \/ Failure(q)
          PROVE  pc'[p] = pc[p] /\ job'[p] = job[p] /\ fresh'[p] = fresh[p]
      BY <1>0, <2>1, StepKinds, CatchEffect DEF Caught, Passed, Claimed, Completed, Admitted,
         Refused, Left, Release, Wrote, WriteDocument, Published, PublishRun, Goto, TypeOK,
         Owning, Saving, Attaching
    <2>2. pc'[p] = pc[p] /\ job'[p] = job[p] /\ fresh'[p] = fresh[p]
      BY <1>0, <1>5, <2>1 DEF Next, QueueRun, Execute, Acquire, Goto, TypeOK, vars, Owning,
         Saving, Attaching
    <2> QED BY <1>2, <1>5, <2>2
  <1> QED BY <1>3, <1>4, <1>5

(* Nothing claimed is abandoned: a careful run fails only before its first *)
(* save, and a completed one is declared in the same step.                 *)
LEMMA OrphanStep ==
    ASSUME IInv, [Next]_vars PROVE NoOrphanRevision'
  <1>0. /\ TypeOK /\ NoOrphanRevision /\ SaveInv /\ ClaimInv
        /\ None \notin Runs /\ team' = team
    BY WritersAssumption, ProjectStep DEF IInv, ThreadIsBacked
  <1>1. SUFFICES ASSUME NEW n \in Revisions, n > head', claim'[n] # None
                 PROVE  /\ \/ status'[claim'[n]] \in Executing
                           \/ team.policy[claim'[n]] # "careful"
                        /\ basis'[claim'[n]] = n - 1 /\ n = head' + 1
    BY <1>0 DEF NoOrphanRevision
  <1>2. head \in Nat /\ head' \in Nat /\ n \in Nat /\ n <= head' + 1 /\ basis'[claim'[n]] = n - 1
    BY <1>0, <1>1, HeadStep, ClaimStep DEF TypeOK, Revisions, ClaimInv
  <1>3. head' = head
    <2>1. CASE head' = head + 1
      <3>1. claim'[n] = claim[n]
        <4>1. UNCHANGED store
          BY <1>2, <2>1, HeadStep
        <4> QED BY <4>1 DEF store
      <3> QED BY <1>0, <1>1, <1>2, <2>1, <3>1 DEF ClaimInv
    <2> QED BY <2>1, HeadStep
  <1>4. claim'[n] \in Runs /\ \/ status[claim'[n]] \in Executing
                              \/ team.policy[claim'[n]] # "careful"
    <2>1. CASE claim'[n] = claim[n]
      BY <1>0, <1>1, <1>3, <2>1 DEF NoOrphanRevision, TypeOK
    <2>2. CASE claim'[n] # claim[n]
      <3>1. PICK p \in Procs : pc[p] = "link" /\ claim'[n] = job[p]
        BY <2>2, StoreStep
      <3>2. pc[p] \in Owning
        BY <3>1 DEF Owning, Saving
      <3> QED BY <3>1, <3>2, OwnerExecutes
    <2> QED BY <2>1, <2>2
  <1>5. ASSUME status[claim'[n]] \in Executing, team.policy[claim'[n]] = "careful"
        PROVE  status'[claim'[n]] \in Executing
    <2>1. ASSUME NEW r \in Runs, QueueRun(r) PROVE status'[claim'[n]] \in Executing
      BY <1>0, <1>4, <1>5, <2>1 DEF QueueRun, SetStatus, TypeOK, Executing
    <2>2. ASSUME NEW p \in Procs, Admitted(p) \/ Published(p)
          PROVE  status'[claim'[n]] \in Executing
      BY <1>0, <1>4, <1>5, <2>2, LeaseExcludes
         DEF Admitted, Published, PublishRun, SetStatus, TypeOK, Executing
    <2>3. ASSUME NEW p \in Procs, Completed(p) PROVE FALSE
      <3>1. pc[p] \in Owning
        BY <2>3 DEF Completed, Owning, Attaching
      <3> QED BY <1>2, <1>3, <2>3, <3>1, OwnerExecutes DEF Completed
    <2>4. ASSUME NEW p \in Procs, Caught(p) PROVE status'[claim'[n]] \in Executing
      <3>1. pc[p] \in Owning /\ Catch(p) /\ pc[p] # "idle" /\ job[p] \in Runs
        BY <2>4, OwnerExecutes DEF Caught
      <3>2. pc[p] = "work" => claim'[n] = claim[n]
        BY <2>4 DEF Caught, store
      <3>3. pc[p] = "work" /\ fresh[p] => claim[n] # job[p]
        BY <1>0 DEF SaveInv
      <3> QED BY <1>0, <1>4, <1>5, <3>1, <3>2, <3>3, CatchEffect DEF TypeOK
    <2> QED BY <1>5, <2>1, <2>2, <2>3, <2>4, ProjectStep DEF project
  <1> QED BY <1>1, <1>2, <1>3, <1>4, <1>5
-----------------------------------------------------------------------------
(* The invariant holds initially and is kept by every step.                *)
LEMMA Invariance == Spec => []IInv
  <1>1. Init => IInv
    <2> SUFFICES ASSUME Init PROVE IInv
      OBVIOUS
    <2>1. TypeOK
      BY WritersAssumption DEF Init, TypeOK, Revisions, Status
    <2>2. OneExecutingPerBasis
      BY DEF Init, OneExecutingPerBasis, Executing
    <2>3. DeclaredIsBacked /\ NoOrphanRevision /\ RevisionsHaveOneOwner
      BY DEF Init, DeclaredIsBacked, NoOrphanRevision, RevisionsHaveOneOwner
    <2>4. LeaseInv /\ SaveInv /\ ClaimInv
      BY DEF Init, LeaseInv, SaveInv, ClaimInv, Leased, Owning, Saving, Attaching
    <2> QED BY <2>1, <2>2, <2>3, <2>4 DEF IInv, ThreadIsBacked
  <1>2. IInv /\ [Next]_vars => IInv'
    BY TypeStep, ExecutingStep, BackedStep, OrphanStep, ClaimStep, LeaseStep, SaveStep
       DEF IInv, ThreadIsBacked
  <1> QED BY <1>1, <1>2, PTL DEF Spec

(* Project, thread store and leases agree, whatever teams execute and      *)
(* wherever processes die: one listed writer per basis, declared revisions *)
(* backed by documents of completed runs, nothing claimed abandoned by a   *)
(* careful executor, one owner per revision.                               *)
THEOREM ThreadStaysBacked == Spec => []ThreadIsBacked
  BY Invariance, PTL DEF IInv

-----------------------------------------------------------------------------
(* Refinement of ThreadLog. *)

LogOf == [n \in 1..(head - 1) |-> doc[n + 1]]
DoneRuns == {r \in Runs : status[r] = "completed"}

(* A sequence that is one longer and agrees on the rest is an extension. *)
LEMMA AppendIsExtension ==
    ASSUME NEW S, NEW k \in Nat, NEW f \in [1..k -> S], NEW g \in [1..(k + 1) -> S],
           \A i \in 1..k : g[i] = f[i]
    PROVE  g = Append(f, g[k + 1])
  <1>1. f \in Seq(S) /\ g \in Seq(S) /\ Len(f) = k /\ Len(g) = k + 1 /\ g[k + 1] \in S
    BY SeqDef, LenProperties
  <1>2. /\ Append(f, g[k + 1]) \in Seq(S) /\ Len(Append(f, g[k + 1])) = k + 1
        /\ \A i \in 1..k : Append(f, g[k + 1])[i] = f[i]
        /\ Append(f, g[k + 1])[k + 1] = g[k + 1]
    BY <1>1, AppendProperties
  <1>3. \A i \in 1..(k + 1) : g[i] = Append(f, g[k + 1])[i]
    <2> SUFFICES ASSUME NEW i \in 1..(k + 1) PROVE g[i] = Append(f, g[k + 1])[i]
      OBVIOUS
    <2>1. i \in 1..k \/ i = k + 1
      OBVIOUS
    <2> QED BY <1>2, <2>1
  <1> QED BY <1>1, <1>2, <1>3, SeqEqual

(* The declared thread is a sequence of runs. *)
LEMMA LogIsSequence ==
    IInv => head - 1 \in Nat /\ LogOf \in [1..(head - 1) -> Runs]
  <1> SUFFICES ASSUME IInv PROVE head - 1 \in Nat /\ LogOf \in [1..(head - 1) -> Runs]
    OBVIOUS
  <1>1. head - 1 \in Nat /\ head \in Nat
    BY WritersAssumption DEF IInv, ThreadIsBacked, TypeOK, Revisions
  <1>2. ASSUME NEW n \in 1..(head - 1) PROVE doc[n + 1] \in Runs
    <2>1. n + 1 \in 2..head
      BY <1>1
    <2> QED BY <2>1 DEF IInv, ThreadIsBacked, DeclaredIsBacked
  <1> QED BY <1>1, <1>2 DEF LogOf

(* Completing a run appends it to the log; every other step leaves it. *)
LEMMA LogStep ==
    ASSUME IInv, IInv', [Next]_vars
    PROVE  \/ UNCHANGED <<LogOf, DoneRuns>>
           \/ \E r \in Runs : /\ r \notin DoneRuns
                              /\ LogOf' = Append(LogOf, r)
                              /\ DoneRuns' = DoneRuns \cup {r}
  <1>0. /\ TypeOK /\ DeclaredIsBacked /\ None \notin Runs
        /\ head \in Nat \ {0} /\ MaxRevision \in Nat
        /\ \A n \in 2..head : n \in Revisions
    BY WritersAssumption DEF IInv, ThreadIsBacked, TypeOK, Revisions
  <1>1. ASSUME NEW n \in 1..(head - 1) PROVE doc'[n + 1] = doc[n + 1]
    <2>1. n + 1 \in 2..head
      BY <1>0
    <2>2. n + 1 \in Revisions /\ doc[n + 1] # None
      BY <1>0, <2>1 DEF DeclaredIsBacked
    <2> QED BY <2>2, StoreStep
  <1>2. ASSUME NEW p \in Procs, Completed(p), job[p] \in Runs,
               head' = head + 1, doc[head + 1] = job[p],
               status' = [status EXCEPT ![job[p]] = "completed"],
               status[job[p]] \in Executing, UNCHANGED <<basis, store>>
        PROVE  /\ job[p] \notin DoneRuns
               /\ LogOf' = Append(LogOf, job[p])
               /\ DoneRuns' = DoneRuns \cup {job[p]}
    <2>1. job[p] \notin DoneRuns /\ DoneRuns' = DoneRuns \cup {job[p]}
      BY <1>0, <1>2 DEF DoneRuns, TypeOK, Executing
    <2>2. PICK k \in Nat : k = head - 1 /\ k + 1 = head
      BY <1>0
    <2>3. LogOf = [n \in 1..k |-> doc[n + 1]] /\ LogOf' = [n \in 1..(k + 1) |-> doc[n + 1]]
      BY <1>2, <2>2 DEF LogOf, store
    <2>4. LogOf \in [1..k -> Runs]
      BY <2>2, LogIsSequence
    <2>5. LogOf' \in [1..(k + 1) -> Runs]
      BY <1>2, <2>2, <2>3, <2>4
    <2>6. LogOf'[k + 1] = job[p] /\ \A i \in 1..k : LogOf'[i] = LogOf[i]
      BY <1>2, <2>2, <2>3
    <2>7. LogOf' = Append(LogOf, job[p])
      BY <2>4, <2>5, <2>6, AppendIsExtension
    <2> QED BY <2>1, <2>7
  <1>3. CASE head' = head
    <2>1. LogOf' = LogOf
      BY <1>1, <1>3 DEF LogOf
    <2>2. ASSUME NEW r \in Runs PROVE status'[r] = "completed" <=> status[r] = "completed"
      <3>1. status[r] = "completed" => status'[r] = "completed"
        BY RunsAreKept DEF RunKept
      <3>2. ASSUME NEW q \in Runs, QueueRun(q), status'[r] = "completed"
            PROVE  status[r] = "completed"
        BY <1>0, <3>2 DEF QueueRun, SetStatus, TypeOK
      <3>3. ASSUME NEW p \in Procs, Admitted(p) \/ Published(p), status'[r] = "completed"
            PROVE  status[r] = "completed"
        BY <1>0, <3>3 DEF Admitted, Published, PublishRun, SetStatus, TypeOK
      <3>4. ASSUME NEW p \in Procs, Completed(p) PROVE FALSE
        BY <1>0, <1>3, <3>4 DEF Completed, Successor
      <3>5. ASSUME NEW p \in Procs, Caught(p), status'[r] = "completed"
            PROVE  status[r] = "completed"
        <4>1. pc[p] # "idle" /\ Catch(p)
          BY <3>5 DEF Caught, Owning, Saving, Attaching
        <4> QED BY <1>0, <3>5, <4>1, CatchEffect DEF TypeOK
      <3> QED BY <3>1, <3>2, <3>3, <3>4, <3>5, ProjectStep DEF project
    <2> QED BY <2>1, <2>2 DEF DoneRuns
  <1> QED BY <1>2, <1>3, HeadStep

(* Processes, leases, claim files and dying writers implement the          *)
(* append-only log of results.                                             *)
THEOREM WritersImplementLog == Spec => ImplementsThreadLog
  <1>1. Init => Thread!Init
    <2> SUFFICES ASSUME Init PROVE Thread!Init
      OBVIOUS
    <2>1. LogOf = <<>> /\ DoneRuns = {}
      BY DEF Init, LogOf, DoneRuns
    <2> QED BY <2>1 DEF Thread!Init, LogOf, DoneRuns
  <1>2. IInv /\ IInv' /\ [Next]_vars =>
            [Thread!Next]_<<[n \in 1..(head - 1) |-> doc[n + 1]],
                            {r \in Runs : status[r] = "completed"}>>
    BY LogStep DEF LogOf, DoneRuns, Thread!Next, Thread!Declare
  <1> QED BY <1>1, <1>2, Invariance, PTL DEF Spec, ImplementsThreadLog, Thread!Spec
=============================================================================
