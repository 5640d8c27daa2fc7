---------------------------- MODULE SchedulerProofs ----------------------------
(* Proofs about Scheduler for every number of replicas, monitors and workers.  *)
EXTENDS Scheduler, TLAPS

USE StoreAssumption, SchedulerAssumption

--------------------------------------------------------------------------------
(* Type correctness.                                                           *)

(* The two newest rows are rows.                                               *)
LEMMA OpenOrExtendType ==
    ASSUME StoreTypeOK, NEW c \in Result, NEW S, S \subseteq Result, TwoDown(S)
    PROVE  OpenOrExtend(c, S) \subseteq Incident
<1> DEFINE y == CHOOSE y \in S : \E x \in S : NewestTwo(S, x, y)
<1>1. \E v \in S : \E x \in S : NewestTwo(S, x, v)
  BY DEF TwoDown
<1>2. y \in S
  BY <1>1
<1>3. y.at \in Time /\ c.at \in Time /\ c.mon \in Monitor
  BY <1>2 DEF Result
<1> HIDE DEF y
<1> DEFINE new == [mon |-> c.mon, first |-> y.at, last |-> c.at, opened |-> c.at, resolved |-> NULL]
<1>4. new \in Incident
  BY <1>3 DEF Incident
<1>5. \A i \in incidents : [i EXCEPT !.last = c.at] \in Incident
  BY <1>3 DEF StoreTypeOK, Incident
<1> QED
  BY <1>4, <1>5 DEF OpenOrExtend, StoreTypeOK, y

(* An insertion keeps the tables well typed.                                   *)
LEMMA CreateCheckType ==
    ASSUME StoreTypeOK, NEW c \in Result, CreateCheck(c)
    PROVE  StoreTypeOK'
<1>1. results' \subseteq Result
  BY DEF CreateCheck, StoreTypeOK
<1>2. Resolve(c) \subseteq Incident
  <2>1. \A i \in incidents : [i EXCEPT !.resolved = c.at] \in Incident
    BY DEF StoreTypeOK, Incident, Result
  <2> QED
    BY <2>1 DEF Resolve, StoreTypeOK
<1>3. UpdateIncident(c, results \cup {c}) \subseteq Incident
  <2> DEFINE S == {x \in results \cup {c} : x.mon = c.mon /\ x.source = "scheduled"}
  <2>1. S \subseteq Result
    BY DEF StoreTypeOK
  <2> HIDE DEF S
  <2>2. TwoDown(S) => OpenOrExtend(c, S) \subseteq Incident
    BY <2>1, OpenOrExtendType
  <2> QED
    BY <1>2, <2>2 DEF UpdateIncident, StoreTypeOK, S
<1> QED
  BY <1>1, <1>3 DEF CreateCheck, StoreTypeOK

(* The requests of users, retention and the clock keep the tables well typed.   *)
LEMMA StoreStepType ==
    ASSUME StoreTypeOK, StoreStep
    PROVE  StoreTypeOK'
<1>1. CASE RunRetention
  BY <1>1 DEF RunRetention, DeleteOlderThan, StoreTypeOK
<1>2. CASE Tick
  BY <1>2 DEF Tick, StoreTypeOK, Time
<1>3. ASSUME NEW m \in Monitor, CreateMonitor(m) PROVE StoreTypeOK'
  BY <1>3 DEF CreateMonitor, StoreTypeOK
<1>4. ASSUME NEW m \in Monitor, UpdateMonitor(m) PROVE StoreTypeOK'
  BY <1>4 DEF UpdateMonitor, StoreTypeOK
<1>5. ASSUME NEW m \in Monitor, DeleteMonitor(m) PROVE StoreTypeOK'
  BY <1>5 DEF DeleteMonitor, StoreTypeOK
<1>6. ASSUME NEW m \in Monitor, ManualCheck(m) PROVE StoreTypeOK'
  <2>1. PICK s \in {"up", "down"}, t \in createdAt[m] .. now :
           CreateCheck([mon |-> m, source |-> "manual", status |-> s, at |-> t])
    BY <1>6 DEF ManualCheck
  <2>2. t \in Time
    BY <2>1 DEF StoreTypeOK, Time
  <2>3. [mon |-> m, source |-> "manual", status |-> s, at |-> t] \in Result
    BY <2>1, <2>2 DEF Result
  <2> QED
    BY <2>1, <2>3, CreateCheckType
<1> QED
  BY <1>1, <1>2, <1>3, <1>4, <1>5, <1>6 DEF StoreStep

(* What a claimed check is stored as.                                          *)
LEMMA StoredType ==
    ASSUME TypeOK, NEW r \in Replica, NEW m \in Monitor
    PROVE  Stored(m, job[r][m]) \in Result
<1>1. job[r][m] \in Job
  BY DEF TypeOK
<1> QED
  BY <1>1 DEF Stored, Result, Job

(* Replacing one claim keeps the table of claims well typed.                    *)
LEMMA SetJobType ==
    ASSUME job \in [Replica -> [Monitor -> Job]], NEW r \in Replica, NEW m \in Monitor,
           NEW j \in Job, SetJob(r, m, j)
    PROVE  job' \in [Replica -> [Monitor -> Job]]
BY DEF SetJob

(* A step of one worker, of the process, or of the store keeps the types.       *)
LEMMA WorkType ==
    ASSUME TypeOK, NEW r \in Replica, NEW m \in Monitor, Work(r, m)
    PROVE  TypeOK'
<1> USE DEF TypeOK
<1>0. job[r][m] \in Job /\ NoJob \in Job /\ Queued \in Job /\ Done \in Job
  BY DEF Job, NoJob, Queued, Done, Time
<1>1. CASE TryLock(r, m)
  <2>1. StoreTypeOK'
    BY <1>1 DEF TryLock, storeVars, StoreTypeOK
  <2>2. job' \in [Replica -> [Monitor -> Job]]
    <3>1. UNCHANGED job \/ SetJob(r, m, Queued)
      BY <1>1 DEF TryLock
    <3> QED
      BY <1>0, <3>1, SetJobType
  <2>3. lock' \in [Monitor -> Replica \cup {None}]
    BY <1>1 DEF TryLock
  <2>4. candidates' \in [Replica -> SUBSET Monitor]
    BY <1>1 DEF TryLock
  <2> QED
    BY <1>1, <2>1, <2>2, <2>3, <2>4 DEF TryLock
<1>2. CASE StartCheck(r, m)
  <2>1. now \in Time /\ now' \in Time
    BY <1>2 DEF StartCheck, StoreTypeOK, Time
  <2>2. [state |-> "checking", at |-> now, status |-> "down"] \in Job
    BY <2>1 DEF Job
  <2>3. job' \in [Replica -> [Monitor -> Job]]
    BY <1>2, <2>2 DEF StartCheck, SetJob
  <2> QED
    BY <1>2, <2>1, <2>3 DEF StartCheck, StoreTypeOK
<1>3. CASE FinishCheck(r, m)
  <2>1. \A s \in {"up", "down", "cut"} :
           [state |-> "checked", at |-> job[r][m].at, status |-> s] \in Job
    BY <1>0 DEF Job
  <2>2. PICK s \in {"up", "down", "cut"} :
           SetJob(r, m, [state |-> "checked", at |-> job[r][m].at, status |-> s])
    BY <1>3 DEF FinishCheck
  <2>3. job' \in [Replica -> [Monitor -> Job]]
    BY <2>1, <2>2 DEF SetJob
  <2> QED
    BY <1>3, <2>3 DEF FinishCheck, storeVars, StoreTypeOK
<1>4. CASE StoreCheck(r, m)
  <2>1. StoreTypeOK'
    BY <1>4, StoredType, CreateCheckType DEF StoreCheck
  <2> QED
    BY <1>0, <1>4, <2>1 DEF StoreCheck, SetJob
<1>5. CASE StoreFails(r, m)
  BY <1>0, <1>5 DEF StoreFails, SetJob, storeVars, StoreTypeOK
<1>6. CASE Unlock(r, m)
  <2>1. StoreTypeOK' /\ UNCHANGED <<ctxDone, candidates>>
    BY <1>6 DEF Unlock, storeVars, StoreTypeOK
  <2>2. job' \in [Replica -> [Monitor -> Job]]
    BY <1>0, <1>6, SetJobType DEF Unlock
  <2>3. lock' \in [Monitor -> Replica \cup {None}]
    BY <1>6 DEF Unlock, Freed
  <2>4. leaked' \in [Replica -> SUBSET Monitor]
    BY <1>6 DEF Unlock
  <2>5. pc' \in [Replica -> {"down", "idle", "claiming", "running"}]
    BY <1>6 DEF Unlock
  <2> QED
    BY <2>1, <2>2, <2>3, <2>4, <2>5
<1> QED
  BY <1>1, <1>2, <1>3, <1>4, <1>5, <1>6 DEF Work

LEMMA ProcessType ==
    ASSUME TypeOK, NEW r \in Replica, Process(r)
    PROVE  TypeOK'
<1> USE DEF TypeOK
<1>0. /\ NoJob \in Job /\ Done \in Job
      /\ \A m \in Monitor : job[r][m] \in Job
      /\ Claims(r) \subseteq Monitor
      /\ \A S : Freed(r, S) \in [Monitor -> Replica \cup {None}]
  BY DEF Job, NoJob, Done, Time, Claims, Freed
<1>1. StoreTypeOK'
  BY DEF Process, ClaimDue, RunDue, ClaimFails, StopDispatch, Shutdown, Exit, Crash, Stop,
         Start, RetireSessions, LoseSessions, storeVars, StoreTypeOK
<1>2. CASE ClaimDue(r)
  <2>1. PICK B \in DueBatches(Workers) : candidates' = [candidates EXCEPT ![r] = B]
    BY <1>2 DEF ClaimDue
  <2>2. B \subseteq Monitor
    BY <2>1 DEF DueBatches
  <2> QED
    BY <1>1, <1>2, <2>1, <2>2 DEF ClaimDue
<1>3. CASE RunDue(r)
  BY <1>1, <1>3 DEF RunDue
<1>4. CASE ClaimFails(r)
  BY <1>0, <1>1, <1>4 DEF ClaimFails
<1>5. CASE StopDispatch(r)
  BY <1>0, <1>1, <1>5 DEF StopDispatch
<1>6. CASE Shutdown(r)
  BY <1>1, <1>6 DEF Shutdown
<1>7. CASE Stop(r)
  BY <1>0, <1>1, <1>7 DEF Stop
<1>8. CASE Start(r)
  BY <1>1, <1>8 DEF Start
<1>9. CASE RetireSessions(r)
  BY <1>0, <1>1, <1>9 DEF RetireSessions
<1>10. CASE LoseSessions(r)
  BY <1>0, <1>1, <1>10 DEF LoseSessions
<1> QED
  BY <1>2, <1>3, <1>4, <1>5, <1>6, <1>7, <1>8, <1>9, <1>10 DEF Process, Exit, Crash

(* Every variable of the scheduler keeps its type: the proof that the model is   *)
(* closed under its steps for any instance.                                     *)
THEOREM TypeCorrect == Spec => []TypeOK
<1>1. Init => TypeOK
  BY DEF Init, StoreInit, TypeOK, StoreTypeOK, Time, Job, NoJob
<1>2. TypeOK /\ [Next]_vars => TypeOK'
  <2> SUFFICES ASSUME TypeOK, [Next]_vars PROVE TypeOK'
    OBVIOUS
  <2>1. CASE StoreStep /\ UNCHANGED schedVars
    BY <2>1, StoreStepType DEF TypeOK, schedVars
  <2>2. ASSUME NEW r \in Replica, Process(r) PROVE TypeOK'
    BY <2>2, ProcessType
  <2>3. ASSUME NEW r \in Replica, NEW m \in Monitor, Work(r, m) PROVE TypeOK'
    BY <2>3, WorkType
  <2>4. CASE UNCHANGED vars
    BY <2>4 DEF vars, storeVars, schedVars, TypeOK, StoreTypeOK
  <2> QED
    BY <2>1, <2>2, <2>3, <2>4 DEF Next
<1> QED
  BY <1>1, <1>2, PTL DEF Spec

--------------------------------------------------------------------------------
(* Locks and claims, for instances whose replicas keep their sessions while a    *)
(* batch runs.  LocksMatchClaims is inductive on its own.                       *)

LEMMA SetJobValue ==
    ASSUME TypeOK, NEW r \in Replica, NEW m \in Monitor, NEW j, SetJob(r, m, j)
    PROVE  \A q \in Replica, n \in Monitor :
              job'[q][n] = IF q = r /\ n = m THEN j ELSE job[q][n]
BY DEF SetJob, TypeOK

LEMMA ResetJobsValue ==
    ASSUME TypeOK, NEW r \in Replica, job' = [job EXCEPT ![r] = [m \in Monitor |-> NoJob]]
    PROVE  \A q \in Replica, n \in Monitor :
              job'[q][n] = IF q = r THEN NoJob ELSE job[q][n]
BY DEF TypeOK

LEMMA WorkKeepsLocks ==
    ASSUME TypeOK, LocksMatchClaims, NEW r \in Replica, NEW m \in Monitor, Work(r, m)
    PROVE  LocksMatchClaims'
<1> USE DEF LocksMatchClaims, HasLock, IsClaimed, Claims, TypeOK
<1>1. CASE TryLock(r, m)
  <2>1. CASE lock[m] \in {None, r} /\ lock' = [lock EXCEPT ![m] = r] /\ SetJob(r, m, Queued)
    <3>1. \A q \in Replica, n \in Monitor :
             job'[q][n] = IF q = r /\ n = m THEN Queued ELSE job[q][n]
      BY <2>1, SetJobValue
    <3>2. UNCHANGED leaked
      BY <1>1 DEF TryLock
    <3> QED
      BY <2>1, <3>1, <3>2 DEF Queued
  <2>2. CASE UNCHANGED <<lock, job>>
    BY <1>1, <2>2 DEF TryLock
  <2> QED
    BY <1>1, <2>1, <2>2 DEF TryLock
<1>2. ASSUME NEW j, j.state # "none", job[r][m].state # "none", SetJob(r, m, j),
             UNCHANGED <<lock, leaked>>
      PROVE  LocksMatchClaims'
  <2>1. \A q \in Replica, n \in Monitor :
           job'[q][n] = IF q = r /\ n = m THEN j ELSE job[q][n]
    BY <1>2, SetJobValue
  <2> QED
    BY <1>2, <2>1
<1>3. CASE StartCheck(r, m)
  BY <1>2, <1>3 DEF StartCheck, CanStart
<1>4. CASE FinishCheck(r, m)
  BY <1>2, <1>4 DEF FinishCheck
<1>5. CASE StoreCheck(r, m)
  BY <1>2, <1>5 DEF StoreCheck, Done
<1>6. CASE StoreFails(r, m)
  BY <1>2, <1>6 DEF StoreFails, Done
<1>7. CASE Unlock(r, m)
  <2>1. \A q \in Replica, n \in Monitor :
           job'[q][n] = IF q = r /\ n = m THEN NoJob ELSE job[q][n]
    BY <1>7, SetJobValue DEF Unlock
  <2>2. CASE lock' = Freed(r, {m} \ leaked[r]) /\ UNCHANGED leaked
    BY <1>7, <2>1, <2>2 DEF Freed, NoJob, Unlock
  <2>3. CASE lock[m] = r /\ leaked' = [leaked EXCEPT ![r] = @ \cup {m}] /\ UNCHANGED lock
    BY <1>7, <2>1, <2>3 DEF NoJob, Unlock
  <2> QED
    BY <1>7, <2>2, <2>3 DEF Unlock
<1> QED
  BY <1>1, <1>3, <1>4, <1>5, <1>6, <1>7 DEF Work

LEMMA ProcessKeepsLocks ==
    ASSUME "session" \notin Faults, TypeOK, LocksMatchClaims, NEW r \in Replica, Process(r)
    PROVE  LocksMatchClaims'
<1> USE DEF LocksMatchClaims, HasLock, IsClaimed, Claims, TypeOK
<1>1. CASE UNCHANGED <<lock, leaked, job>>
  BY <1>1
<1>2. CASE ClaimFails(r)
  <2>1. \A q \in Replica, n \in Monitor :
           job'[q][n] = IF q = r THEN NoJob ELSE job[q][n]
    BY <1>2, ResetJobsValue DEF ClaimFails
  <2>2. CASE leaked' = [leaked EXCEPT ![r] = @ \cup Claims(r)] /\ UNCHANGED lock
    BY <1>2, <2>1, <2>2 DEF NoJob
  <2>3. CASE lock' = Freed(r, Claims(r) \ leaked[r]) /\ UNCHANGED leaked
    BY <1>2, <2>1, <2>3 DEF NoJob, Freed
  <2> QED
    BY <1>2, <2>2, <2>3 DEF ClaimFails
<1>3. CASE StopDispatch(r)
  <2>1. \A q \in Replica, n \in Monitor : (job'[q][n].state = "none") = (job[q][n].state = "none")
    BY <1>3 DEF StopDispatch, Done
  <2> QED
    BY <1>3, <2>1 DEF StopDispatch
<1>4. CASE Stop(r)
  <2>1. \A q \in Replica, n \in Monitor :
           job'[q][n] = IF q = r THEN NoJob ELSE job[q][n]
    BY <1>4, ResetJobsValue DEF Stop
  <2> QED
    BY <1>4, <2>1 DEF Stop, NoJob, Freed
<1>5. CASE RetireSessions(r)
  BY <1>5 DEF RetireSessions, Freed
<1> QED
  BY <1>1, <1>2, <1>3, <1>4, <1>5
  DEF Process, ClaimDue, RunDue, Shutdown, Exit, Crash, Start, LoseSessions

(* Locks and claims agree in every reachable state: no stop, crash, failed       *)
(* claim or failed unlock leaves a lock without an owner to blame.              *)
THEOREM LocksCorrect ==
    ASSUME "session" \notin Faults
    PROVE  Spec => []LocksMatchClaims
<1>1. Init => LocksMatchClaims
  BY DEF Init, LocksMatchClaims, HasLock, IsClaimed, Claims, NoJob
<1>2. TypeOK /\ LocksMatchClaims /\ [Next]_vars => LocksMatchClaims'
  <2> SUFFICES ASSUME TypeOK, LocksMatchClaims, [Next]_vars PROVE LocksMatchClaims'
    OBVIOUS
  <2>1. CASE UNCHANGED schedVars
    BY <2>1 DEF schedVars, LocksMatchClaims, HasLock, IsClaimed, Claims
  <2>2. ASSUME NEW r \in Replica, Process(r) PROVE LocksMatchClaims'
    BY <2>2, ProcessKeepsLocks
  <2>3. ASSUME NEW r \in Replica, NEW m \in Monitor, Work(r, m) PROVE LocksMatchClaims'
    BY <2>3, WorkKeepsLocks
  <2> QED
    BY <2>1, <2>2, <2>3 DEF Next, vars
<1> QED
  BY <1>1, <1>2, TypeCorrect, PTL DEF Spec

LEMMA LocksExclude == LocksMatchClaims => MutualExclusion
BY DEF LocksMatchClaims, HasLock, MutualExclusion, InFlight, Claims

(* No two replicas ever have the same monitor in their batches (README.md:24),   *)
(* as long as the server keeps the sessions of a replica that runs a batch.     *)
THEOREM ExclusionHolds ==
    ASSUME "session" \notin Faults
    PROVE  Spec => []MutualExclusion
BY LocksCorrect, LocksExclude, PTL
===============================================================================
