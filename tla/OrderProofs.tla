------------------------------ MODULE OrderProofs ------------------------------
(* Proof that the scheduled results of a monitor are stored in the order of     *)
(* their checks, for every instance whose replicas keep their sessions.         *)
EXTENDS SchedulerProofs

CheckRuns(r, m) == job[r][m].state \in {"checking", "checked"}

(* Stored results are in the past, and a check that runs is younger than all    *)
(* results of its monitor.  With at most one check per monitor this is inductive. *)
OrderInv ==
    /\ \A x \in results : x.source = "scheduled" => x.at < now
    /\ \A r \in Replica, m \in Monitor : CheckRuns(r, m) =>
          /\ job[r][m].at < now
          /\ \A x \in Scheduled(m) : x.at < job[r][m].at

(* The rows a step adds.                                                        *)
LEMMA CreateCheckRows ==
    ASSUME NEW c, CreateCheck(c)
    PROVE  /\ results' = results \cup {c}
           /\ UNCHANGED <<now, monitors, createdAt>>
BY DEF CreateCheck

(* No user, no clock and no retention adds a scheduled result.                  *)
LEMMA StoreStepRows ==
    ASSUME StoreTypeOK, StoreStep
    PROVE  /\ \A x \in results' \ results : x.source = "manual"
           /\ now <= now'
<1>1. CASE RunRetention
  BY <1>1 DEF RunRetention, DeleteOlderThan, StoreTypeOK, Time
<1>2. CASE Tick
  BY <1>2 DEF Tick, StoreTypeOK, Time
<1>3. ASSUME NEW m \in Monitor, ManualCheck(m)
      PROVE  /\ \A x \in results' \ results : x.source = "manual"
             /\ now <= now'
  BY <1>3, CreateCheckRows DEF ManualCheck, StoreTypeOK, Time
<1>4. ASSUME NEW m \in Monitor, CreateMonitor(m) \/ UpdateMonitor(m) \/ DeleteMonitor(m)
      PROVE  /\ \A x \in results' \ results : x.source = "manual"
             /\ now <= now'
  BY <1>4 DEF CreateMonitor, UpdateMonitor, DeleteMonitor, StoreTypeOK, Time
<1> QED
  BY <1>1, <1>2, <1>3, <1>4 DEF StoreStep

LEMMA StoreStepOrder ==
    ASSUME TypeOK, OrderInv, StoreStep, UNCHANGED schedVars
    PROVE  OrderInv'
<1>1. /\ \A x \in results' \ results : x.source = "manual"
      /\ now <= now'
  BY StoreStepRows DEF TypeOK
<1>2. \A m \in Monitor : Scheduled(m)' \subseteq Scheduled(m)
  BY <1>1 DEF Scheduled
<1>3. now \in Int /\ now' \in Int
  BY StoreStepType DEF TypeOK, StoreTypeOK, Time
<1>4. \A x \in results : x.at \in Int
  BY DEF TypeOK, StoreTypeOK, Result, Time
<1>5. \A r \in Replica, m \in Monitor : job[r][m].at \in Int
  BY DEF TypeOK, Job, Time
<1> QED
  BY <1>1, <1>2, <1>3, <1>4, <1>5 DEF OrderInv, CheckRuns, schedVars

LEMMA WorkOrder ==
    ASSUME TypeOK, MutualExclusion, OrderInv, NEW r \in Replica, NEW m \in Monitor, Work(r, m)
    PROVE  OrderInv'
<1> USE DEF OrderInv, CheckRuns
<1>0. /\ now \in Int
      /\ \A x \in results : x.at \in Int
      /\ \A q \in Replica, n \in Monitor : job[q][n].at \in Int
  BY DEF TypeOK, StoreTypeOK, Result, Job, Time
<1>1. ASSUME NEW j, j.state \notin {"checking", "checked"}, SetJob(r, m, j), UNCHANGED storeVars
      PROVE  OrderInv'
  <2>1. \A q \in Replica, n \in Monitor :
           job'[q][n] = IF q = r /\ n = m THEN j ELSE job[q][n]
    BY <1>1, SetJobValue
  <2> QED
    BY <1>1, <2>1 DEF storeVars, Scheduled
<1>2. CASE TryLock(r, m)
  <2>1. CASE UNCHANGED <<storeVars, job>>
    BY <2>1 DEF storeVars, Scheduled
  <2>2. CASE SetJob(r, m, Queued)
    BY <1>1, <1>2, <2>2 DEF TryLock, Queued
  <2> QED
    BY <1>2, <2>1, <2>2 DEF TryLock
<1>3. CASE StartCheck(r, m)
  <2> DEFINE j == [state |-> "checking", at |-> now, status |-> "down"]
  <2>1. \A q \in Replica, n \in Monitor :
           job'[q][n] = IF q = r /\ n = m THEN j ELSE job[q][n]
    BY <1>3, SetJobValue DEF StartCheck
  <2>2. now' = now + 1 /\ UNCHANGED results
    BY <1>3 DEF StartCheck
  <2> QED
    BY <1>0, <2>1, <2>2 DEF Scheduled
<1>4. CASE FinishCheck(r, m)
  <2>1. PICK s : SetJob(r, m, [state |-> "checked", at |-> job[r][m].at, status |-> s])
    BY <1>4 DEF FinishCheck
  <2>2. \A q \in Replica, n \in Monitor :
           job'[q][n] = IF q = r /\ n = m
                        THEN [state |-> "checked", at |-> job[r][m].at, status |-> s]
                        ELSE job[q][n]
    BY <2>1, SetJobValue
  <2>3. CheckRuns(r, m)
    BY <1>4 DEF FinishCheck
  <2> QED
    BY <1>4, <2>2, <2>3 DEF FinishCheck, storeVars, Scheduled
<1>5. CASE StoreCheck(r, m)
  <2> DEFINE c == Stored(m, job[r][m])
  <2>1. \A q \in Replica, n \in Monitor :
           job'[q][n] = IF q = r /\ n = m THEN Done ELSE job[q][n]
    BY <1>5, SetJobValue DEF StoreCheck
  <2>2. results' = results \cup {c} /\ UNCHANGED now
    BY <1>5, CreateCheckRows DEF StoreCheck
  <2>3. c.mon = m /\ c.at = job[r][m].at
    BY DEF Stored
  <2>4. InFlight(r, m) /\ CheckRuns(r, m)
    BY <1>5 DEF StoreCheck, InFlight
  <2>5. c.at < now
    BY <2>3, <2>4
  <2>6. ASSUME NEW q \in Replica, NEW n \in Monitor, CheckRuns(q, n)'
        PROVE  n # m /\ CheckRuns(q, n) /\ job'[q][n] = job[q][n]
    <3>1. ~ (q = r /\ n = m)
      BY <2>1, <2>6 DEF Done
    <3>2. job'[q][n] = job[q][n] /\ CheckRuns(q, n) /\ InFlight(q, n)
      BY <2>1, <2>6, <3>1 DEF InFlight
    <3> QED
      BY <2>4, <3>1, <3>2 DEF MutualExclusion
  <2>7. \A n \in Monitor : n # m => Scheduled(n)' = Scheduled(n)
    BY <2>2, <2>3 DEF Scheduled
  <2> HIDE DEF c
  <2> QED
    BY <2>2, <2>5, <2>6, <2>7
<1>6. CASE StoreFails(r, m)
  BY <1>1, <1>6 DEF StoreFails, Done
<1>7. CASE Unlock(r, m)
  BY <1>1, <1>7 DEF Unlock, NoJob
<1> QED
  BY <1>2, <1>3, <1>4, <1>5, <1>6, <1>7 DEF Work

LEMMA ProcessOrder ==
    ASSUME TypeOK, OrderInv, NEW r \in Replica, Process(r)
    PROVE  OrderInv'
<1>1. UNCHANGED storeVars
  BY DEF Process, ClaimDue, RunDue, ClaimFails, StopDispatch, Shutdown, Exit, Crash, Stop,
         Start, RetireSessions, LoseSessions
<1>2. \A q \in Replica, n \in Monitor : CheckRuns(q, n)' =>
         CheckRuns(q, n) /\ job'[q][n] = job[q][n]
  <2>1. CASE UNCHANGED job
    BY <2>1 DEF CheckRuns
  <2>2. CASE job' = [job EXCEPT ![r] = [n \in Monitor |-> NoJob]]
    BY <2>2, ResetJobsValue DEF CheckRuns, NoJob
  <2>3. CASE StopDispatch(r)
    BY <2>3 DEF StopDispatch, CheckRuns, Done, TypeOK
  <2> QED
    BY <2>1, <2>2, <2>3 DEF Process, ClaimDue, RunDue, ClaimFails, Shutdown, Exit, Crash,
       Stop, Start, RetireSessions, LoseSessions
<1> QED
  BY <1>1, <1>2 DEF OrderInv, storeVars, Scheduled

LEMMA OrderInvariant ==
    ASSUME "session" \notin Faults
    PROVE  Spec => []OrderInv
<1>1. Init => OrderInv
  BY DEF Init, StoreInit, OrderInv, CheckRuns, NoJob
<1>2. TypeOK /\ MutualExclusion /\ OrderInv /\ [Next]_vars => OrderInv'
  <2> SUFFICES ASSUME TypeOK, MutualExclusion, OrderInv, [Next]_vars PROVE OrderInv'
    OBVIOUS
  <2>1. CASE StoreStep /\ UNCHANGED schedVars
    BY <2>1, StoreStepOrder
  <2>2. ASSUME NEW r \in Replica, Process(r) PROVE OrderInv'
    BY <2>2, ProcessOrder
  <2>3. ASSUME NEW r \in Replica, NEW m \in Monitor, Work(r, m) PROVE OrderInv'
    BY <2>3, WorkOrder
  <2>4. CASE UNCHANGED vars
    BY <2>4 DEF vars, storeVars, schedVars, OrderInv, CheckRuns, Scheduled
  <2> QED
    BY <2>1, <2>2, <2>3, <2>4 DEF Next
<1> QED
  BY <1>1, <1>2, TypeCorrect, ExclusionHolds, PTL DEF Spec

(* The only step that adds a scheduled result is StoreCheck, and its check is    *)
(* younger than every stored one.                                              *)
LEMMA StepStoresInOrder ==
    ASSUME TypeOK, OrderInv, [Next]_vars, NEW x \in results' \ results, x.source = "scheduled"
    PROVE  \A y \in Scheduled(x.mon) : y.at < x.at
<1>1. CASE StoreStep
  BY <1>1, StoreStepRows DEF TypeOK
<1>2. ASSUME NEW r \in Replica, Process(r) PROVE FALSE
  BY <1>2 DEF Process, ClaimDue, RunDue, ClaimFails, StopDispatch, Shutdown, Exit, Crash, Stop,
         Start, RetireSessions, LoseSessions, storeVars
<1>3. ASSUME NEW r \in Replica, NEW m \in Monitor, Work(r, m)
      PROVE  \A y \in Scheduled(x.mon) : y.at < x.at
  <2>1. StoreCheck(r, m)
    BY <1>3 DEF Work, TryLock, StartCheck, FinishCheck, StoreFails, Unlock, storeVars
  <2>2. x = Stored(m, job[r][m])
    BY <2>1, CreateCheckRows DEF StoreCheck
  <2>3. x.mon = m /\ x.at = job[r][m].at
    BY <2>2 DEF Stored
  <2> QED
    BY <2>1, <2>3 DEF StoreCheck, OrderInv, CheckRuns
<1>4. CASE UNCHANGED vars
  BY <1>4 DEF vars, storeVars
<1> QED
  BY <1>1, <1>2, <1>3, <1>4 DEF Next

(* Replicas store the scheduled results of a monitor in the order of their       *)
(* checks: what updateIncident relies on when it looks at the newest two rows.  *)
THEOREM OrderHolds ==
    ASSUME "session" \notin Faults
    PROVE  Spec => StoresInOrder
<1>1. TypeOK /\ OrderInv /\ [Next]_vars =>
         [\A x \in results' \ results :
             x.source = "scheduled" => \A y \in Scheduled(x.mon) : y.at < x.at]_vars
  BY StepStoresInOrder
<1> QED
  BY <1>1, TypeCorrect, OrderInvariant, PTL DEF Spec, StoresInOrder
===============================================================================
