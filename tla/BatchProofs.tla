------------------------------ MODULE BatchProofs ------------------------------
(* What a batch does, from the claim to the release: proofs about Scheduler.    *)
EXTENDS SchedulerProofs, FiniteSetTheorems

(* What the place of runDue says of candidates and claims, and what the context *)
(* of the process says of checks it cut short.                                  *)
Phases ==
    \A r \in Replica :
        /\ pc[r] # "claiming" => candidates[r] = {}
        /\ \A m \in Monitor :
              /\ pc[r] \in {"idle", "down"} => job[r][m].state = "none"
              /\ pc[r] = "claiming" => job[r][m].state \in {"none", "queued"}
              /\ job[r][m].state = "checked" /\ job[r][m].status = "cut" => ctxDone[r]

LEMMA WorkKeepsPhases ==
    ASSUME TypeOK, Phases, NEW r \in Replica, NEW m \in Monitor, Work(r, m)
    PROVE  Phases'
<1> USE DEF Phases
<1>1. CASE TryLock(r, m)
  <2>1. CASE SetJob(r, m, Queued)
    <3>1. \A q \in Replica, n \in Monitor :
             job'[q][n] = IF q = r /\ n = m THEN Queued ELSE job[q][n]
      BY <2>1, SetJobValue
    <3> QED
      BY <1>1, <3>1 DEF TryLock, Queued, TypeOK
  <2>2. CASE UNCHANGED job
    BY <1>1, <2>2 DEF TryLock, TypeOK
  <2> QED
    BY <1>1, <2>1, <2>2 DEF TryLock
<1>2. ASSUME NEW j, SetJob(r, m, j), pc[r] = "running", UNCHANGED <<pc, ctxDone, candidates>>,
             j.state = "checked" /\ j.status = "cut" => ctxDone[r]
      PROVE  Phases'
  <2>1. \A q \in Replica, n \in Monitor :
           job'[q][n] = IF q = r /\ n = m THEN j ELSE job[q][n]
    BY <1>2, SetJobValue
  <2> QED
    BY <1>2, <2>1
<1>3. job[r][m].state \in {"checking", "checked"} => pc[r] = "running"
  BY DEF TypeOK
<1>4. CASE StartCheck(r, m)
  BY <1>2, <1>4 DEF StartCheck, CanStart
<1>5. CASE FinishCheck(r, m)
  <2>1. PICK s \in {"up", "down"} \cup (IF ctxDone[r] THEN {"cut"} ELSE {}) :
           SetJob(r, m, [state |-> "checked", at |-> job[r][m].at, status |-> s])
    BY <1>5 DEF FinishCheck
  <2> QED
    BY <1>2, <1>3, <1>5, <2>1 DEF FinishCheck
<1>6. CASE StoreCheck(r, m) \/ StoreFails(r, m)
  BY <1>2, <1>3, <1>6 DEF StoreCheck, StoreFails, Done
<1>7. CASE Unlock(r, m)
  <2>1. \A q \in Replica, n \in Monitor :
           job'[q][n] = IF q = r /\ n = m THEN NoJob ELSE job[q][n]
    BY <1>7, SetJobValue DEF Unlock
  <2>2. pc'[r] = "idle" => \A n \in Monitor : job'[r][n].state = "none"
    BY <1>7, <2>1 DEF Unlock, Claims, NoJob, TypeOK
  <2>3. pc'[r] \in {"idle", "running"} /\ \A q \in Replica \ {r} : pc'[q] = pc[q]
    BY <1>7 DEF Unlock, TypeOK
  <2> QED
    BY <1>7, <2>1, <2>2, <2>3 DEF Unlock, CanUnlock, NoJob
<1> QED
  BY <1>1, <1>4, <1>5, <1>6, <1>7 DEF Work

LEMMA ProcessKeepsPhases ==
    ASSUME TypeOK, Phases, NEW r \in Replica, Process(r)
    PROVE  Phases'
<1> USE DEF Phases
<1>1. CASE ClaimDue(r)
  BY <1>1 DEF ClaimDue, TypeOK
<1>2. CASE RunDue(r)
  BY <1>2 DEF RunDue, Claims, TypeOK
<1>3. CASE ClaimFails(r) \/ Stop(r)
  <2>1. \A q \in Replica, n \in Monitor : job'[q][n] = IF q = r THEN NoJob ELSE job[q][n]
    BY <1>3, ResetJobsValue DEF ClaimFails, Stop
  <2>2. /\ pc'[r] # "claiming" /\ candidates'[r] = {}
        /\ \A q \in Replica \ {r} :
              pc'[q] = pc[q] /\ candidates'[q] = candidates[q] /\ ctxDone'[q] = ctxDone[q]
    BY <1>3 DEF ClaimFails, Stop, TypeOK
  <2>3. \A m \in Monitor : job'[r][m].state = "none"
    BY <2>1 DEF NoJob
  <2>4. \A q \in Replica \ {r}, m \in Monitor : job'[q][m] = job[q][m]
    BY <2>1
  <2> QED
    BY <2>2, <2>3, <2>4
<1>4. CASE StopDispatch(r)
  <2>1. \A q \in Replica, n \in Monitor :
           job'[q][n] = IF q = r /\ job[q][n].state = "queued" THEN Done ELSE job[q][n]
    BY <1>4 DEF StopDispatch, TypeOK
  <2> QED
    BY <1>4, <2>1 DEF StopDispatch, Done
<1>5. CASE Shutdown(r)
  BY <1>5 DEF Shutdown, TypeOK
<1>6. CASE Start(r)
  BY <1>6 DEF Start, TypeOK
<1>7. CASE RetireSessions(r) \/ LoseSessions(r)
  BY <1>7 DEF RetireSessions, LoseSessions
<1> QED
  BY <1>1, <1>2, <1>3, <1>4, <1>5, <1>6, <1>7 DEF Process, Exit, Crash

LEMMA PhasesHold == Spec => []Phases
<1>1. Init => Phases
  BY DEF Init, Phases, NoJob
<1>2. TypeOK /\ Phases /\ [Next]_vars => Phases'
  <2> SUFFICES ASSUME TypeOK, Phases, [Next]_vars PROVE Phases'
    OBVIOUS
  <2>1. CASE UNCHANGED schedVars
    BY <2>1 DEF schedVars, Phases
  <2> QED
    BY <2>1, ProcessKeepsPhases, WorkKeepsPhases DEF Next, vars
<1> QED
  BY <1>1, <1>2, TypeCorrect, PTL DEF Spec

--------------------------------------------------------------------------------
(* The checks that a shutdown cuts short.                                       *)

(* Results and incidents of a batch come from StoreCheck only.                  *)
LEMMA WorkStores ==
    ASSUME NEW r \in Replica, NEW m \in Monitor, Work(r, m)
    PROVE  StoreCheck(r, m) \/ UNCHANGED <<results, incidents>>
BY DEF Work, TryLock, StartCheck, FinishCheck, StoreFails, Unlock, storeVars

LEMMA ProcessStores ==
    ASSUME NEW r \in Replica, Process(r)
    PROVE  UNCHANGED storeVars
BY DEF Process, ClaimDue, RunDue, ClaimFails, StopDispatch, Shutdown, Exit, Crash, Stop, Start,
       RetireSessions, LoseSessions

(* A check that a shutdown cut short leaves no row, whatever else runs (Check    *)
(* reports it as down, and Create gets the same cancelled context).             *)
THEOREM CutChecksVanish == Spec => CutChecksAreNotStored
<1> DEFINE Step == \A r \in Replica, m \in Monitor :
          /\ job[r][m].state = "checked" /\ job[r][m].status = "cut"
          /\ job'[r][m] # job[r][m]
          => results' \subseteq results /\ incidents' \subseteq incidents
<1>1. TypeOK /\ Phases /\ [Next]_vars => [Step]_vars
  <2> SUFFICES ASSUME TypeOK, Phases, [Next]_vars,
                      NEW r \in Replica, NEW m \in Monitor,
                      job[r][m].state = "checked", job[r][m].status = "cut",
                      job'[r][m] # job[r][m]
               PROVE  UNCHANGED <<results, incidents>>
    OBVIOUS
  <2>1. ASSUME NEW q \in Replica, NEW n \in Monitor, StoreCheck(q, n) PROVE FALSE
    <3>1. ctxDone[r]
      BY DEF Phases
    <3>2. q = r /\ n = m
      BY <2>1, SetJobValue DEF StoreCheck
    <3> QED
      BY <2>1, <3>1, <3>2 DEF StoreCheck
  <2> QED
    BY <2>1, WorkStores, ProcessStores DEF Next, vars, schedVars, storeVars
<1> QED
  BY <1>1, TypeCorrect, PhasesHold, PTL DEF Spec, CutChecksAreNotStored

--------------------------------------------------------------------------------
(* The interval between scheduled checks, for a single replica.                 *)

(* The scheduled results of m are older than t by an interval.                  *)
Apart(m, t) == \A x \in Scheduled(m) : x.at <= t - Interval

(* Candidates and queued claims are due, and a check that runs began when its    *)
(* monitor was.  Only the check itself can end that.                            *)
IntervalInv ==
    /\ ResultsApart
    /\ \A r \in Replica, m \in Monitor :
          /\ m \in candidates[r] => Apart(m, now)
          /\ job[r][m].state = "queued" => Apart(m, now)
          /\ job[r][m].state \in {"checking", "checked"} => Apart(m, job[r][m].at)

(* A step that adds no scheduled result, turns the clock not back, and makes no  *)
(* candidate and no claim.                                                      *)
LEMMA NoNewResults ==
    ASSUME TypeOK, IntervalInv, TypeOK',
           \A x \in results' : x.source = "scheduled" => x \in results,
           now' >= now,
           \A r \in Replica, m \in Monitor :
              /\ m \in candidates'[r] => m \in candidates[r]
              /\ job'[r][m].state \in {"queued", "checking", "checked"} =>
                    \/ job'[r][m].state = job[r][m].state /\ job'[r][m].at = job[r][m].at
                    \/ job'[r][m].state = "queued" /\ m \in candidates[r]
                    \/ job'[r][m].state = "checking" /\ job[r][m].state = "queued" /\ job'[r][m].at = now
                    \/ job'[r][m].state = "checked" /\ job[r][m].state = "checking"
                       /\ job'[r][m].at = job[r][m].at
    PROVE  IntervalInv'
<1>1. ResultsApart'
  BY DEF IntervalInv, ResultsApart
<1>2. now \in Int /\ now' \in Int /\ Interval \in Int
  BY StoreAssumption DEF TypeOK, StoreTypeOK, Time
<1>3. \A x \in results' : x.at \in Int
  BY DEF TypeOK, StoreTypeOK, Result, Time
<1>4. \A t : \A m \in Monitor : Apart(m, t) => Apart(m, t)'
  BY DEF Apart, Scheduled
<1>5. \A m \in Monitor : Apart(m, now) => Apart(m, now)'
  BY <1>2, <1>3 DEF Apart, Scheduled
<1> QED
  BY <1>1, <1>4, <1>5 DEF IntervalInv

(* Requests, retention and the clock.                                           *)
LEMMA StoreStepInterval ==
    ASSUME TypeOK, IntervalInv, StoreStep, UNCHANGED schedVars
    PROVE  IntervalInv'
<1>1. TypeOK'
  BY StoreStepType DEF TypeOK, schedVars
<1>2. now' >= now
  BY DEF StoreStep, RunRetention, DeleteOlderThan, Tick, CreateMonitor, UpdateMonitor, DeleteMonitor,
         ManualCheck, CreateCheck, TypeOK, StoreTypeOK, Time
<1>3. \A x \in results' : x.source = "scheduled" => x \in results
  <2>1. ASSUME NEW m \in Monitor, ManualCheck(m)
        PROVE  \A x \in results' : x.source = "scheduled" => x \in results
    BY <2>1 DEF ManualCheck, CreateCheck
  <2> QED
    BY <2>1 DEF StoreStep, RunRetention, DeleteOlderThan, Tick, CreateMonitor, UpdateMonitor,
                DeleteMonitor
<1> QED
  BY <1>1, <1>2, <1>3, NoNewResults DEF schedVars

LEMMA ProcessInterval ==
    ASSUME TypeOK, Phases, IntervalInv, NEW r \in Replica, Process(r)
    PROVE  IntervalInv'
<1>1. TypeOK'
  BY ProcessType
<1>2. UNCHANGED storeVars
  BY ProcessStores
<1>3. CASE ClaimDue(r)
  <2>1. PICK B \in DueBatches(Workers) : candidates' = [candidates EXCEPT ![r] = B]
    BY <1>3 DEF ClaimDue
  <2>2. \A m \in B : Apart(m, now)
    BY <2>1 DEF DueBatches, IsDue, Apart
  <2>3. \A t : \A m \in Monitor : Apart(m, t)' <=> Apart(m, t)
    BY <1>2 DEF Apart, Scheduled, storeVars
  <2>4. \A q \in Replica, m \in Monitor : m \in candidates'[q] => m \in candidates[q] \/ m \in B
    BY <2>1 DEF TypeOK
  <2> QED
    BY <1>2, <1>3, <2>2, <2>3, <2>4 DEF ClaimDue, IntervalInv, ResultsApart, storeVars
<1>4. CASE ~ClaimDue(r)
  <2>1. \A q \in Replica, m \in Monitor : m \in candidates'[q] => m \in candidates[q]
    BY <1>4 DEF Process, RunDue, ClaimFails, StopDispatch, Shutdown, Exit, Crash, Stop, Start,
                RetireSessions, LoseSessions, TypeOK
  <2>2. \A q \in Replica, m \in Monitor :
           job'[q][m] = job[q][m] \/ job'[q][m].state \in {"none", "done"}
    BY <1>4 DEF Process, RunDue, ClaimFails, StopDispatch, Shutdown, Exit, Crash, Stop, Start,
                RetireSessions, LoseSessions, NoJob, Done, TypeOK
  <2>3. now' >= now
    BY <1>2 DEF storeVars, TypeOK, StoreTypeOK, Time
  <2> QED
    BY <1>1, <1>2, <2>1, <2>2, <2>3, NoNewResults DEF storeVars
<1> QED
  BY <1>3, <1>4

LEMMA WorkInterval ==
    ASSUME \A p, q \in Replica : p = q,
           TypeOK, Phases, IntervalInv, NEW r \in Replica, NEW m \in Monitor, Work(r, m)
    PROVE  IntervalInv'
<1>1. TypeOK'
  BY WorkType
<1>2. now \in Int
  BY DEF TypeOK, StoreTypeOK, Time
<1>3. CASE StoreCheck(r, m)
  <2> DEFINE c == Stored(m, job[r][m])
  <2>1. results' = results \cup {c} /\ UNCHANGED <<now, candidates>>
    BY <1>3 DEF StoreCheck, CreateCheck
  <2>2. c \in Result /\ c.mon = m /\ c.at = job[r][m].at
    BY StoredType DEF Stored
  <2>3. Apart(m, c.at)
    BY <1>3, <2>2 DEF StoreCheck, IntervalInv
  <2> HIDE DEF c
  <2>4. \A t : \A n \in Monitor \ {m} : Apart(n, t) => Apart(n, t)'
    BY <2>1, <2>2 DEF Apart, Scheduled
  <2>5. ResultsApart'
    <3>1. \A x \in results : x.at \in Int
      BY DEF TypeOK, StoreTypeOK, Result, Time
    <3>2. c.at \in Int /\ Interval \in Nat \ {0}
      BY <2>2, StoreAssumption DEF Result, Time
    <3>3. \A x \in results : x.mon = m /\ x.source = "scheduled" => x.at <= c.at - Interval
      BY <2>3 DEF Apart, Scheduled
    <3> QED
      BY <2>1, <2>2, <3>1, <3>2, <3>3 DEF IntervalInv, ResultsApart
  <2>6. \A q \in Replica, n \in Monitor : job'[q][n] = IF n = m THEN Done ELSE job[q][n]
    BY <1>3, SetJobValue DEF StoreCheck
  <2>7. \A q \in Replica : candidates[q] = {}
    BY <1>3 DEF StoreCheck, Phases, TypeOK
  <2> QED
    BY <2>1, <2>4, <2>5, <2>6, <2>7 DEF IntervalInv, Done
<1>4. ASSUME NEW j, SetJob(r, m, j), UNCHANGED <<results, candidates>>, now' >= now,
             \/ j.state \in {"none", "done"}
             \/ j.state = "checking" /\ job[r][m].state = "queued" /\ j.at = now
             \/ j.state = "checked" /\ job[r][m].state = "checking" /\ j.at = job[r][m].at
      PROVE  IntervalInv'
  <2>1. \A q \in Replica, n \in Monitor :
           job'[q][n] = IF q = r /\ n = m THEN j ELSE job[q][n]
    BY <1>4, SetJobValue
  <2> QED
    BY <1>1, <1>4, <2>1, NoNewResults
<1>5. CASE TryLock(r, m)
  <2>1. UNCHANGED <<results, now>> /\ now' >= now
    BY <1>2, <1>5 DEF TryLock, storeVars
  <2>2. \A q \in Replica, n \in Monitor : n \in candidates'[q] => n \in candidates[q]
    BY <1>5 DEF TryLock, TypeOK
  <2>3. CASE UNCHANGED job
    BY <1>1, <2>1, <2>2, <2>3, NoNewResults
  <2>4. CASE SetJob(r, m, Queued)
    <3>1. \A q \in Replica, n \in Monitor :
             job'[q][n] = IF q = r /\ n = m THEN Queued ELSE job[q][n]
      BY <2>4, SetJobValue
    <3>2. m \in candidates[r]
      BY <1>5 DEF TryLock
    <3> QED
      BY <1>1, <2>1, <2>2, <3>1, <3>2, NoNewResults DEF Queued
  <2> QED
    BY <1>5, <2>3, <2>4 DEF TryLock
<1>6. CASE StartCheck(r, m)
  BY <1>2, <1>4, <1>6 DEF StartCheck, CanStart
<1>7. CASE FinishCheck(r, m)
  <2>1. PICK s : SetJob(r, m, [state |-> "checked", at |-> job[r][m].at, status |-> s])
    BY <1>7 DEF FinishCheck
  <2> QED
    BY <1>2, <1>4, <1>7, <2>1 DEF FinishCheck, storeVars
<1>8. CASE StoreFails(r, m) \/ Unlock(r, m)
  BY <1>2, <1>4, <1>8 DEF StoreFails, Unlock, Done, NoJob, storeVars
<1> QED
  BY <1>3, <1>5, <1>6, <1>7, <1>8 DEF Work

LEMMA IntervalInvariant ==
    ASSUME \A p, q \in Replica : p = q
    PROVE  Spec => []IntervalInv
<1>1. Init => IntervalInv
  BY DEF Init, StoreInit, IntervalInv, ResultsApart, NoJob
<1>2. TypeOK /\ Phases /\ IntervalInv /\ [Next]_vars => IntervalInv'
  <2> SUFFICES ASSUME TypeOK, Phases, IntervalInv, [Next]_vars PROVE IntervalInv'
    OBVIOUS
  <2>1. CASE UNCHANGED vars
    BY <2>1 DEF vars, storeVars, schedVars, IntervalInv, ResultsApart, Apart, Scheduled
  <2> QED
    BY <2>1, StoreStepInterval, ProcessInterval, WorkInterval DEF Next
<1> QED
  BY <1>1, <1>2, TypeCorrect, PhasesHold, PTL DEF Spec

(* With one replica the checks that are stored or may yet be are an interval      *)
(* apart: the snapshot of ClaimDue is then never older than the newest result of *)
(* the batch before it.  A check whose store failed or whose process died leaves *)
(* no result, and the monitor is due again at once (scheduler.go:66).            *)
THEOREM IntervalHolds ==
    ASSUME \A p, q \in Replica : p = q
    PROVE  Spec => []IntervalKept
<1>1. TypeOK /\ IntervalInv => IntervalKept
  <2> SUFFICES ASSUME TypeOK, IntervalInv, NEW r \in Replica, NEW m \in Monitor,
                      job[r][m].state \in {"checking", "checked"}, NEW x \in Scheduled(m)
               PROVE  job[r][m].at - x.at >= Interval
    BY DEF IntervalInv, IntervalKept, ChecksApart
  <2>1. x.at <= job[r][m].at - Interval
    BY DEF IntervalInv, Apart
  <2>2. x.at \in Int /\ job[r][m].at \in Int /\ Interval \in Int
    BY StoreAssumption DEF TypeOK, StoreTypeOK, Scheduled, Result, Job, Time
  <2> QED
    BY <2>1, <2>2
<1> QED
  BY <1>1, TypeCorrect, IntervalInvariant, PTL

(* Nor does it claim a monitor that is not due any more (the comment on ClaimDue, *)
(* internal/repository/monitor.go:81): the claims of one replica follow each     *)
(* other, and only between the snapshot of one and its locks could another one   *)
(* store a result.                                                              *)
THEOREM OnlyDueClaimed ==
    ASSUME \A p, q \in Replica : p = q
    PROVE  Spec => ClaimsOnlyDue
<1> DEFINE Step == \A r \in Replica, m \in Monitor : m \in Claims(r)' \ Claims(r) =>
                      \A x \in Scheduled(m) : x.at <= now - Interval
<1>1. TypeOK /\ IntervalInv /\ [Next]_vars => [Step]_vars
  <2> SUFFICES ASSUME TypeOK, IntervalInv, [Next]_vars, NEW r \in Replica, NEW m \in Monitor,
                      m \in Claims(r)' \ Claims(r)
               PROVE  Apart(m, now)
    BY DEF Apart
  <2>0. job'[r][m].state # "none" /\ job[r][m].state = "none"
    BY DEF Claims
  <2>1. ~UNCHANGED job
    BY <2>0
  <2>2. ASSUME NEW q \in Replica, Process(q) PROVE FALSE
    BY <2>0, <2>1, <2>2 DEF Process, ClaimDue, RunDue, ClaimFails, StopDispatch, Shutdown, Exit, Crash,
                       Stop, Start, RetireSessions, LoseSessions, NoJob, TypeOK
  <2>3. ASSUME NEW q \in Replica, NEW n \in Monitor, Work(q, n) PROVE Apart(m, now)
    <3>1. PICK j : SetJob(q, n, j)
      BY <2>1, <2>3 DEF Work, TryLock, StartCheck, FinishCheck, StoreCheck, StoreFails, Unlock
    <3>2. q = r /\ n = m
      BY <2>0, <3>1, SetJobValue
    <3>3. TryLock(r, m)
      BY <2>0, <2>3, <3>2 DEF Work, StartCheck, CanStart, FinishCheck, StoreCheck, StoreFails, Unlock,
                              CanUnlock
    <3> QED
      BY <3>3 DEF TryLock, IntervalInv
  <2> QED
    BY <2>1, <2>2, <2>3 DEF Next, vars, schedVars
<1> QED
  BY <1>1, IntervalInvariant, TypeCorrect, PTL DEF Spec, ClaimsOnlyDue

--------------------------------------------------------------------------------
(* Locks whose sessions may be lost.                                            *)

(* No lock is held for nothing; and while the query of a claim runs, what it has *)
(* claimed is locked, since its own session runs it.                            *)
LocksInv ==
    /\ NoLockOrphaned
    /\ \A r \in Replica : pc[r] = "claiming" => \A m \in Claims(r) : lock[m] = r

LEMMA WorkKeepsLocksInv ==
    ASSUME TypeOK, Phases, LocksInv, NEW r \in Replica, NEW m \in Monitor, Work(r, m)
    PROVE  LocksInv'
<1> USE DEF LocksInv, NoLockOrphaned, IsClaimed, Claims, TypeOK
<1>1. CASE TryLock(r, m)
  <2>1. CASE lock[m] \in {None, r} /\ lock' = [lock EXCEPT ![m] = r] /\ SetJob(r, m, Queued)
    <3>1. \A q \in Replica, n \in Monitor :
             job'[q][n] = IF q = r /\ n = m THEN Queued ELSE job[q][n]
      BY <2>1, SetJobValue
    <3>2. UNCHANGED <<leaked, pc>>
      BY <1>1 DEF TryLock
    <3>3. \A n \in Monitor : lock'[n] = IF n = m THEN r ELSE lock[n]
      BY <2>1
    <3>4. ASSUME NEW q \in Replica, NEW n \in Monitor, n \in leaked[q] PROVE lock'[n] = q
      BY SchedulerAssumption, <2>1, <3>3, <3>4
    <3>5. ASSUME NEW q \in Replica, NEW n \in Monitor, pc[q] = "claiming", job'[q][n].state # "none"
          PROVE  lock'[n] = q
      BY SchedulerAssumption, <2>1, <3>1, <3>3, <3>5
    <3>6. ASSUME NEW n \in Monitor, lock'[n] # None, n \notin leaked[lock'[n]]
          PROVE  job'[lock'[n]][n].state # "none"
      BY <2>1, <3>1, <3>3, <3>6 DEF Queued
    <3> QED
      BY <3>2, <3>4, <3>5, <3>6
  <2>2. CASE UNCHANGED <<lock, job>>
    BY <1>1, <2>2 DEF TryLock
  <2> QED
    BY <1>1, <2>1, <2>2 DEF TryLock
<1>2. ASSUME NEW j, j.state # "none", job[r][m].state # "none", SetJob(r, m, j),
             UNCHANGED <<lock, leaked, pc>>
      PROVE  LocksInv'
  <2>1. \A q \in Replica, n \in Monitor :
           job'[q][n] = IF q = r /\ n = m THEN j ELSE job[q][n]
    BY <1>2, SetJobValue
  <2> QED
    BY <1>2, <2>1
<1>3. CASE StartCheck(r, m)
  BY <1>2, <1>3 DEF StartCheck, CanStart
<1>6. CASE FinishCheck(r, m)
  BY <1>2, <1>6 DEF FinishCheck
<1>4. CASE StoreCheck(r, m) \/ StoreFails(r, m)
  BY <1>2, <1>4 DEF StoreCheck, StoreFails, Done
<1>5. CASE Unlock(r, m)
  <2>1. \A q \in Replica, n \in Monitor :
           job'[q][n] = IF q = r /\ n = m THEN NoJob ELSE job[q][n]
    BY <1>5, SetJobValue DEF Unlock
  <2>2. pc[r] = "running" /\ pc'[r] # "claiming" /\ \A q \in Replica \ {r} : pc'[q] = pc[q]
    BY <1>5 DEF Unlock, CanUnlock
  <2>3. CASE lock' = Freed(r, {m} \ leaked[r]) /\ UNCHANGED leaked
    BY <2>1, <2>2, <2>3 DEF Freed, NoJob
  <2>4. CASE lock[m] = r /\ leaked' = [leaked EXCEPT ![r] = @ \cup {m}] /\ UNCHANGED lock
    BY <2>1, <2>2, <2>4 DEF NoJob
  <2> QED
    BY <1>5, <2>3, <2>4 DEF Unlock
<1> QED
  BY <1>1, <1>3, <1>4, <1>5, <1>6 DEF Work

LEMMA ProcessKeepsLocksInv ==
    ASSUME TypeOK, Phases, LocksInv, NEW r \in Replica, Process(r)
    PROVE  LocksInv'
<1> USE DEF LocksInv, NoLockOrphaned, IsClaimed, Claims, TypeOK
<1>1. CASE ClaimDue(r)
  <2>1. \A m \in Monitor : job[r][m].state = "none"
    BY <1>1 DEF ClaimDue, Phases
  <2> QED
    BY <1>1, <2>1 DEF ClaimDue
<1>2. CASE RunDue(r) \/ Shutdown(r) \/ Start(r)
  BY <1>2 DEF RunDue, Shutdown, Start
<1>3. CASE ClaimFails(r)
  <2>1. \A q \in Replica, n \in Monitor : job'[q][n] = IF q = r THEN NoJob ELSE job[q][n]
    BY <1>3, ResetJobsValue DEF ClaimFails
  <2>2. /\ pc[r] = "claiming" /\ pc'[r] = "idle" /\ \A q \in Replica \ {r} : pc'[q] = pc[q]
        /\ \A m \in Claims(r) : lock[m] = r
    BY <1>3 DEF ClaimFails
  <2>3. CASE leaked' = [leaked EXCEPT ![r] = @ \cup Claims(r)] /\ UNCHANGED lock
    BY <2>1, <2>2, <2>3 DEF NoJob
  <2>4. CASE lock' = Freed(r, Claims(r) \ leaked[r]) /\ UNCHANGED leaked
    BY <2>1, <2>2, <2>4 DEF NoJob, Freed
  <2> QED
    BY <1>3, <2>3, <2>4 DEF ClaimFails
<1>4. CASE StopDispatch(r)
  <2>1. \A q \in Replica, n \in Monitor : (job'[q][n].state = "none") = (job[q][n].state = "none")
    BY <1>4 DEF StopDispatch, Done
  <2> QED
    BY <1>4, <2>1 DEF StopDispatch
<1>5. CASE Stop(r)
  <2>1. \A q \in Replica, n \in Monitor : job'[q][n] = IF q = r THEN NoJob ELSE job[q][n]
    BY <1>5, ResetJobsValue DEF Stop
  <2> QED
    BY <1>5, <2>1 DEF Stop, NoJob, Freed
<1>6. CASE RetireSessions(r)
  BY <1>6 DEF RetireSessions, Freed
<1>7. CASE LoseSessions(r)
  BY <1>7 DEF LoseSessions, Freed
<1> QED
  BY <1>1, <1>2, <1>3, <1>4, <1>5, <1>6, <1>7 DEF Process, Exit, Crash

(* Whatever sessions, claims and unlocks fail, a lock that is held is held for a  *)
(* claim of its holder or lies in a session of its pool (ClaimDue and             *)
(* ReleaseClaims ignore the errors of unlock, and nobody tells a batch that its   *)
(* session is gone).                                                            *)
THEOREM LocksHaveReasons == Spec => []NoLockOrphaned
<1>1. Init => LocksInv
  BY DEF Init, LocksInv, NoLockOrphaned, IsClaimed
<1>2. TypeOK /\ Phases /\ LocksInv /\ [Next]_vars => LocksInv'
  <2> SUFFICES ASSUME TypeOK, Phases, LocksInv, [Next]_vars PROVE LocksInv'
    OBVIOUS
  <2>1. CASE UNCHANGED schedVars
    BY <2>1 DEF schedVars, LocksInv, NoLockOrphaned, IsClaimed, Claims
  <2> QED
    BY <2>1, WorkKeepsLocksInv, ProcessKeepsLocksInv DEF Next, vars
<1>3. LocksInv => NoLockOrphaned
  BY DEF LocksInv
<1> QED
  BY <1>1, <1>2, <1>3, TypeCorrect, PhasesHold, PTL DEF Spec
--------------------------------------------------------------------------------
(* A batch goes on to its end.                                                  *)

(* A batch runs for a claim: runDue returns at once from a claim of nothing, and *)
(* the last unlock ends the batch.                                              *)
RunsForClaim == \A r \in Replica : pc[r] = "running" => \E m \in Monitor : job[r][m].state # "none"

LEMMA NextRuns == TypeOK /\ Phases /\ RunsForClaim /\ [Next]_vars => RunsForClaim'
<1> SUFFICES ASSUME TypeOK, Phases, RunsForClaim, [Next]_vars, NEW r \in Replica, pc'[r] = "running"
             PROVE  \E m \in Monitor : job'[r][m].state # "none"
  BY DEF RunsForClaim
<1>1. CASE UNCHANGED <<pc, job>>
  BY <1>1 DEF RunsForClaim
<1>2. ASSUME NEW q \in Replica, Process(q) PROVE \E m \in Monitor : job'[r][m].state # "none"
  <2>1. CASE RunDue(q)
    <3>1. pc[r] # "running" => \E m \in Monitor : job[r][m].state # "none"
      BY <2>1 DEF RunDue, TypeOK, Claims
    <3> QED
      BY <2>1, <3>1 DEF RunDue, RunsForClaim
  <2>2. CASE StopDispatch(q)
    <3>1. \A m \in Monitor : job[r][m].state # "none" => job'[r][m].state # "none"
      BY <2>2 DEF StopDispatch, Done, TypeOK
    <3>2. pc[r] = "running"
      BY <2>2 DEF StopDispatch
    <3> QED
      BY <3>1, <3>2 DEF RunsForClaim
  <2>3. CASE ClaimFails(q) \/ Stop(q)
    <3>1. q # r /\ pc'[r] = pc[r]
      BY <2>3 DEF ClaimFails, Stop, TypeOK
    <3>2. job'[r] = job[r]
      BY <2>3, <3>1 DEF ClaimFails, Stop, TypeOK
    <3> QED
      BY <3>1, <3>2 DEF RunsForClaim
  <2>4. CASE ClaimDue(q) \/ Shutdown(q) \/ Start(q) \/ RetireSessions(q) \/ LoseSessions(q)
    <3>1. pc[r] = "running" /\ UNCHANGED job
      BY <2>4 DEF ClaimDue, Shutdown, Start, RetireSessions, LoseSessions, TypeOK
    <3> QED
      BY <3>1 DEF RunsForClaim
  <2> QED
    BY <1>2, <2>1, <2>2, <2>3, <2>4 DEF Process, Exit, Crash
<1>3. ASSUME NEW q \in Replica, NEW n \in Monitor, Work(q, n)
      PROVE  \E m \in Monitor : job'[r][m].state # "none"
  <2>1. ASSUME NEW j, j.state # "none", SetJob(q, n, j), UNCHANGED pc
        PROVE  \E m \in Monitor : job'[r][m].state # "none"
    <3>1. \A m \in Monitor : job'[r][m] = IF r = q /\ m = n THEN j ELSE job[r][m]
      BY <2>1, SetJobValue
    <3> QED
      BY <2>1, <3>1 DEF RunsForClaim
  <2>2. CASE Unlock(q, n)
    <3>1. \A m \in Monitor : job'[r][m] = IF r = q /\ m = n THEN NoJob ELSE job[r][m]
      BY <2>2, SetJobValue DEF Unlock
    <3>2. CASE r # q
      <4>1. pc[r] = "running"
        BY <2>2, <3>2 DEF Unlock, TypeOK
      <4> QED
        BY <3>1, <3>2, <4>1 DEF RunsForClaim
    <3>3. CASE r = q
      <4>1. Claims(r) # {n} /\ n \in Claims(r)
        BY <2>2, <3>3 DEF Unlock, CanUnlock, TypeOK, Claims
      <4>2. PICK m \in Claims(r) : m # n
        BY <4>1
      <4> QED
        BY <3>1, <4>2 DEF Claims
    <3> QED
      BY <3>2, <3>3
  <2>3. CASE TryLock(q, n)
    BY <1>1, <2>1, <2>3 DEF TryLock, Queued
  <2>4. CASE StartCheck(q, n)
    BY <2>1, <2>4 DEF StartCheck
  <2>5. CASE FinishCheck(q, n)
    BY <2>1, <2>5 DEF FinishCheck
  <2>6. CASE StoreCheck(q, n) \/ StoreFails(q, n)
    BY <2>1, <2>6 DEF StoreCheck, StoreFails, Done
  <2> QED
    BY <1>3, <2>2, <2>3, <2>4, <2>5, <2>6 DEF Work
<1> QED
  BY <1>1, <1>2, <1>3 DEF Next, vars, schedVars

(* Some job of the batch can take its next step: a check that runs ends, one that *)
(* has ended is stored or given up; without these a worker is free for what is   *)
(* queued; and without that too the claims can be released.                     *)
LEMMA SomeJobGoesOn ==
    ASSUME TypeOK, RunsForClaim
    PROVE  BatchGoesOn
<1> SUFFICES ASSUME NEW r \in Replica, pc[r] = "running"
             PROVE  \E m \in Monitor :
                       \/ CanStart(r, m) \/ CanUnlock(r, m)
                       \/ job[r][m].state = "checking"
                       \/ job[r][m].state = "checked" /\ (GivesUp(r, m) \/ (~ctxDone[r] /\ Exists(m)))
  BY DEF BatchGoesOn
<1>1. CASE \E m \in Monitor : job[r][m].state \in {"checking", "checked"}
  BY <1>1 DEF GivesUp
<1>2. CASE InState(r, {"checking", "checked"}) = {} /\ \E m \in Monitor : job[r][m].state = "queued"
  <2>1. Cardinality({}) = 0 /\ 0 < Workers
    BY FS_EmptySet, SchedulerAssumption
  <2> QED
    BY <1>2, <2>1 DEF CanStart
<1>3. CASE InState(r, {"queued", "checking", "checked"}) = {}
  <2>1. PICK m \in Monitor : job[r][m].state # "none"
    BY DEF RunsForClaim
  <2>2. job[r][m].state = "done"
    BY <1>3, <2>1 DEF InState, TypeOK, Job
  <2> QED
    BY <1>3, <2>2 DEF CanUnlock
<1> QED
  BY <1>1, <1>2, <1>3 DEF InState

(* Whatever stops, faults and deletions come, for any number of workers and of    *)
(* claims, a batch is never stuck (runDue: the workers' loop, the dispatch loop,  *)
(* wg.Wait and the deferred ReleaseClaims).                                      *)
THEOREM BatchNeverStuck == Spec => []BatchGoesOn
<1>1. Init => RunsForClaim
  BY DEF Init, RunsForClaim
<1>2. TypeOK /\ Phases /\ RunsForClaim /\ [Next]_vars => RunsForClaim'
  BY NextRuns
<1>3. TypeOK /\ RunsForClaim => BatchGoesOn
  BY SomeJobGoesOn
<1> QED
  BY <1>1, <1>2, <1>3, TypeCorrect, PhasesHold, PTL DEF Spec

(* What a step may do to a candidate or a job of a batch.                       *)
Forward(s, t) ==
    \/ s # "none" /\ t = "none"
    \/ s = "queued" /\ t = "checking"
    \/ s = "checking" /\ t = "checked"
    \/ s \in {"queued", "checked"} /\ t = "done"

Stays(r, m) ==
    /\ job'[r][m].state = job[r][m].state
    /\ m \in candidates'[r] <=> m \in candidates[r]

Advances(r, m) ==
    /\ m \notin candidates'[r]
    /\ m \in candidates[r] \/ Forward(job[r][m].state, job'[r][m].state)

LEMMA FewerStepsLeft ==
    ASSUME TypeOK, TypeOK', NEW r \in Replica, NEW m \in Monitor, Advances(r, m)
    PROVE  StepsLeft(r, m)' < StepsLeft(r, m)
<1>1. /\ job[r][m].state \in {"none", "queued", "checking", "checked", "done"}
      /\ job'[r][m].state \in {"none", "queued", "checking", "checked", "done"}
  BY DEF TypeOK, Job
<1> QED
  BY <1>1 DEF Advances, StepsLeft, Forward

LEMMA WorkAdvances ==
    ASSUME TypeOK, Phases, NEW q \in Replica, NEW n \in Monitor, Work(q, n),
           NEW r \in Replica, NEW m \in Monitor
    PROVE  Stays(r, m) \/ Advances(r, m)
<1>1. ASSUME NEW j, SetJob(q, n, j), Forward(job[q][n].state, j.state), UNCHANGED candidates,
             candidates[q] = {}
      PROVE  Stays(r, m) \/ Advances(r, m)
  <2>1. job'[r][m] = IF r = q /\ m = n THEN j ELSE job[r][m]
    BY <1>1, SetJobValue
  <2> QED
    BY <1>1, <2>1 DEF Stays, Advances
<1>2. job[q][n].state \in {"checking", "checked"} \/ pc[q] = "running" => candidates[q] = {}
  BY DEF Phases, TypeOK
<1>3. CASE TryLock(q, n)
  <2>1. candidates'[r] = IF r = q THEN candidates[q] \ {n} ELSE candidates[r]
    BY <1>3 DEF TryLock, TypeOK
  <2>2. CASE q = r /\ n = m
    BY <1>3, <2>1, <2>2 DEF TryLock, Advances
  <2>3. CASE q # r \/ n # m
    <3>1. job'[r][m] = job[r][m]
      BY <1>3, <2>3, SetJobValue DEF TryLock
    <3> QED
      BY <2>1, <2>3, <3>1 DEF Stays
  <2> QED
    BY <2>2, <2>3
<1>4. CASE StartCheck(q, n)
  BY <1>1, <1>2, <1>4 DEF StartCheck, CanStart, Forward
<1>5. CASE FinishCheck(q, n)
  BY <1>1, <1>2, <1>5 DEF FinishCheck, Forward
<1>6. CASE StoreCheck(q, n) \/ StoreFails(q, n)
  BY <1>1, <1>2, <1>6 DEF StoreCheck, StoreFails, Done, Forward
<1>7. CASE Unlock(q, n)
  BY <1>1, <1>2, <1>7 DEF Unlock, CanUnlock, NoJob, Forward
<1> QED
  BY <1>3, <1>4, <1>5, <1>6, <1>7 DEF Work

LEMMA ProcessAdvances ==
    ASSUME TypeOK, Phases, NEW q \in Replica, Process(q),
           NEW r \in Replica, NEW m \in Monitor, pc[r] \in {"claiming", "running"}
    PROVE  Stays(r, m) \/ Advances(r, m)
<1>1. CASE r # q \/ UNCHANGED <<candidates, job>>
  <2>1. candidates'[r] = candidates[r] /\ job'[r] = job[r]
    BY <1>1 DEF Process, ClaimDue, RunDue, ClaimFails, StopDispatch, Shutdown, Exit, Crash, Stop,
       Start, RetireSessions, LoseSessions, TypeOK
  <2> QED
    BY <2>1 DEF Stays
<1>2. CASE r = q /\ (ClaimFails(q) \/ Exit(q) \/ Crash(q))
  <2>1. candidates'[r] = {} /\ job'[r][m] = NoJob
    BY <1>2 DEF ClaimFails, Exit, Crash, Stop, TypeOK
  <2> QED
    BY <2>1 DEF Stays, Advances, Forward, NoJob
<1>3. CASE r = q /\ StopDispatch(q)
  <2>1. /\ candidates'[r] = {} /\ candidates[r] = {}
        /\ job'[r][m] = job[r][m] \/ (job[r][m].state = "queued" /\ job'[r][m] = Done)
    BY <1>3 DEF StopDispatch, Phases, TypeOK
  <2> QED
    BY <2>1 DEF Stays, Advances, Forward, Done
<1>4. CASE r = q /\ (ClaimDue(q) \/ Start(q))
  BY <1>4 DEF ClaimDue, Start
<1> QED
  BY <1>1, <1>2, <1>3, <1>4 DEF Process, RunDue, Shutdown, RetireSessions, LoseSessions

(* Whatever happens to a batch brings it nearer to its end: with BatchNeverStuck, *)
(* for any number of workers, it takes at most five steps of its workers for     *)
(* each candidate until its last claim is released.                             *)
THEOREM BatchesMoveOn == Spec => BatchesOnlyAdvance
<1> DEFINE Step == \A r \in Replica, m \in Monitor : pc[r] \in {"claiming", "running"} =>
          \/ StepsLeft(r, m)' < StepsLeft(r, m)
          \/ /\ job'[r][m].state = job[r][m].state
             /\ m \in candidates'[r] <=> m \in candidates[r]
<1>1. TypeOK /\ TypeOK' /\ Phases /\ [Next]_vars => [Step]_vars
  <2> SUFFICES ASSUME TypeOK, TypeOK', Phases, [Next]_vars, NEW r \in Replica, NEW m \in Monitor,
                      pc[r] \in {"claiming", "running"}
               PROVE  StepsLeft(r, m)' < StepsLeft(r, m) \/ Stays(r, m)
    BY DEF Stays
  <2>1. Stays(r, m) \/ Advances(r, m)
    <3>1. CASE UNCHANGED <<candidates, job>>
      BY <3>1 DEF Stays
    <3> QED
      BY <3>1, WorkAdvances, ProcessAdvances DEF Next, vars, schedVars
  <2> QED
    BY <2>1, FewerStepsLeft
<1> QED
  BY <1>1, TypeCorrect, PhasesHold, PTL DEF Spec, BatchesOnlyAdvance
===============================================================================
