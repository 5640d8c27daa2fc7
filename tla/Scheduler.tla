------------------------------- MODULE Scheduler -------------------------------
(* The scheduler of each backend replica (internal/scheduler/scheduler.go) and *)
(* the advisory locks by which replicas share the monitors                     *)
(* (internal/repository/monitor.go, ClaimDue and ReleaseClaims).  A replica    *)
(* claims a batch of due monitors, checks them with a pool of workers, stores  *)
(* the results and releases the claims.  Replicas start, are shut down, crash  *)
(* and lose their database sessions.                                           *)
EXTENDS CheckStore

CONSTANTS
    Replica,    \* the backend processes
    None,       \* no replica holds the lock
    Workers,    \* s.workers: the workers of a replica and the limit of a claim
    Faults      \* the stops and faults that happen in an instance

ASSUME SchedulerAssumption ==
    /\ Workers \in Nat \ {0}
    /\ None \notin Replica
    /\ Faults \subseteq {"stop",     \* a process is shut down
                         "crash",    \* a process dies
                         "claim",    \* the claim query fails in the server
                         "store",    \* a transaction of Create fails
                         "unlock",   \* an unlock statement fails
                         "session"}  \* a replica loses its sessions in a batch

VARIABLES
    lock,       \* lock[m]: the replica one of whose sessions holds m's lock
    leaked,     \* leaked[r]: locks left behind in pooled sessions of r
    pc,         \* pc[r]: where runDue is
    ctxDone,    \* ctxDone[r]: the context of the process is cancelled
    candidates, \* candidates[r]: rows of the CTE the query has not yet tried to lock
    job         \* job[r][m]: the claim of r on m and its check

schedVars == <<lock, leaked, pc, ctxDone, candidates, job>>
vars == <<storeVars, schedVars>>

NoJob == [state |-> "none", at |-> 0, status |-> "down"]
Queued == [state |-> "queued", at |-> 0, status |-> "down"]
Done == [state |-> "done", at |-> 0, status |-> "down"]

(* A check "cut" was ended by the cancelled context: Check reports it as down.  *)
Job == [state : {"none", "queued", "checking", "checked", "done"},
        at : Time, status : {"up", "down", "cut"}]

TypeOK ==
    /\ StoreTypeOK
    /\ lock \in [Monitor -> Replica \cup {None}]
    /\ leaked \in [Replica -> SUBSET Monitor]
    /\ pc \in [Replica -> {"idle", "claiming", "running", "down"}]
    /\ ctxDone \in [Replica -> BOOLEAN]
    /\ candidates \in [Replica -> SUBSET Monitor]
    /\ job \in [Replica -> [Monitor -> Job]]

Init ==
    /\ StoreInit
    /\ lock = [m \in Monitor |-> None]
    /\ leaked = [r \in Replica |-> {}]
    /\ pc = [r \in Replica |-> "idle"]
    /\ ctxDone = [r \in Replica |-> FALSE]
    /\ candidates = [r \in Replica |-> {}]
    /\ job = [r \in Replica |-> [m \in Monitor |-> NoJob]]

Claims(r) == {m \in Monitor : job[r][m].state # "none"}
InState(r, states) == {m \in Monitor : job[r][m].state \in states}
SetJob(r, m, j) == job' = [job EXCEPT ![r][m] = j]

(* The locks after the sessions of r that hold the locks of S ended.            *)
Freed(r, S) == [m \in Monitor |-> IF m \in S /\ lock[m] = r THEN None ELSE lock[m]]

--------------------------------------------------------------------------------
(* ClaimDue.  The query materializes the due rows from the snapshot of the      *)
(* statement and only then tries the locks one by one: other replicas move in   *)
(* between.  A claim of nothing returns the connection and changes nothing.     *)

ClaimDue(r) ==
    /\ pc[r] = "idle" /\ ~ctxDone[r]
    /\ \E B \in DueBatches(Workers) \ {{}} :
          candidates' = [candidates EXCEPT ![r] = B]
    /\ pc' = [pc EXCEPT ![r] = "claiming"]
    /\ UNCHANGED <<storeVars, lock, leaked, ctxDone, job>>

(* Mutants: a shared lock, which every replica is granted; a lock of the         *)
(* transaction, which ends with the query.                                      *)
TryLockShared(r, m) ==
    /\ pc[r] = "claiming" /\ m \in candidates[r]
    /\ candidates' = [candidates EXCEPT ![r] = @ \ {m}]
    /\ lock' = [lock EXCEPT ![m] = IF @ = None THEN r ELSE @]
    /\ SetJob(r, m, Queued)
    /\ UNCHANGED <<storeVars, leaked, pc, ctxDone>>

TryLockOfTransaction(r, m) ==
    /\ pc[r] = "claiming" /\ m \in candidates[r]
    /\ candidates' = [candidates EXCEPT ![r] = @ \ {m}]
    /\ lock[m] = None
    /\ SetJob(r, m, Queued)
    /\ UNCHANGED <<storeVars, lock, leaked, pc, ctxDone>>

(* pg_try_advisory_lock: granted when the lock is free, or held by this very    *)
(* session; a lock leaked by an earlier claim of r is in the session the pool   *)
(* handed out, or in another one.                                              *)
TryLock(r, m) ==
    /\ pc[r] = "claiming" /\ m \in candidates[r]
    /\ candidates' = [candidates EXCEPT ![r] = @ \ {m}]
    /\ \/ /\ lock[m] \in {None, r}
          /\ lock' = [lock EXCEPT ![m] = r]
          /\ SetJob(r, m, Queued)
       \/ /\ lock[m] # None
          /\ UNCHANGED <<lock, job>>
    /\ UNCHANGED <<storeVars, leaked, pc, ctxDone>>

(* The query returned: run the batch, or give the connection back at once.      *)
RunDue(r) ==
    /\ pc[r] = "claiming" /\ candidates[r] = {}
    /\ pc' = [pc EXCEPT ![r] = IF Claims(r) = {} THEN "idle" ELSE "running"]
    /\ UNCHANGED <<storeVars, lock, leaked, ctxDone, candidates, job>>

(* The query fails after some locks were taken.  When the server reports the    *)
(* error the connection goes back to the pool with those locks, which belong to *)
(* the session and outlive the statement.  When the context is cancelled or the *)
(* connection is cut the session is gone and the locks with it.                 *)
ClaimFails(r) ==
    /\ pc[r] = "claiming"
    /\ \/ /\ "claim" \in Faults
          /\ leaked' = [leaked EXCEPT ![r] = @ \cup Claims(r)]
          /\ UNCHANGED lock
       \/ /\ ctxDone[r] \/ "session" \in Faults
          /\ lock' = Freed(r, Claims(r) \ leaked[r])
          /\ UNCHANGED leaked
    /\ pc' = [pc EXCEPT ![r] = "idle"]
    /\ candidates' = [candidates EXCEPT ![r] = {}]
    /\ job' = [job EXCEPT ![r] = [m \in Monitor |-> NoJob]]
    /\ UNCHANGED <<storeVars, ctxDone>>

--------------------------------------------------------------------------------
(* The batch.  A worker takes a job and starts the check; CheckedAt is the time *)
(* at which it starts.  Timestamps are finer than the model's clock, so the     *)
(* clock moves on: no two checks carry the same time.                           *)
CanStart(r, m) ==
    /\ pc[r] = "running" /\ job[r][m].state = "queued"
    /\ Cardinality(InState(r, {"checking", "checked"})) < Workers

StartCheck(r, m) ==
    /\ CanStart(r, m)
    /\ now < MaxTime
    /\ SetJob(r, m, [state |-> "checking", at |-> now, status |-> "down"])
    /\ now' = now + 1
    /\ UNCHANGED <<monitors, createdAt, results, incidents>>
    /\ UNCHANGED <<lock, leaked, pc, ctxDone, candidates>>

FinishCheck(r, m) ==
    /\ job[r][m].state = "checking"
    /\ \E s \in {"up", "down"} \cup (IF ctxDone[r] THEN {"cut"} ELSE {}) :
          SetJob(r, m, [state |-> "checked", at |-> job[r][m].at, status |-> s])
    /\ UNCHANGED <<storeVars, lock, leaked, pc, ctxDone, candidates>>

(* checks.Create(ctx, result): a transaction cannot begin on a done context.    *)
Stored(m, j) == [mon |-> m, source |-> "scheduled", at |-> j.at,
                 status |-> IF j.status = "up" THEN "up" ELSE "down"]

(* Mutant: checks.Create runs on context.Background().                          *)
StoreCheckInBackground(r, m) ==
    /\ job[r][m].state = "checked"
    /\ CreateCheck(Stored(m, job[r][m]))
    /\ SetJob(r, m, Done)
    /\ UNCHANGED <<lock, leaked, pc, ctxDone, candidates>>

StoreCheck(r, m) ==
    /\ job[r][m].state = "checked" /\ ~ctxDone[r]
    /\ CreateCheck(Stored(m, job[r][m]))
    /\ SetJob(r, m, Done)
    /\ UNCHANGED <<lock, leaked, pc, ctxDone, candidates>>

(* Mutants: a worker that gives a result up only when its context is done, or    *)
(* only when the monitor is gone, and retries otherwise; one that puts the       *)
(* monitor back into its queue.                                                 *)
GivesUpOnContext(r, m) == ctxDone[r]
GivesUpOnDelete(r, m) == ~Exists(m)

GivesUp(r, m) == ctxDone[r] \/ ~Exists(m) \/ "store" \in Faults

StoreFailsToQueue(r, m) ==
    /\ job[r][m].state = "checked" /\ GivesUp(r, m)
    /\ SetJob(r, m, IF ctxDone[r] THEN Done ELSE Queued)
    /\ UNCHANGED <<storeVars, lock, leaked, pc, ctxDone, candidates>>

StoreFails(r, m) ==
    /\ job[r][m].state = "checked" /\ GivesUp(r, m)
    /\ SetJob(r, m, Done)
    /\ UNCHANGED <<storeVars, lock, leaked, pc, ctxDone, candidates>>

(* The dispatch loop sees the cancelled context: what is queued is not checked. *)
StopDispatch(r) ==
    /\ pc[r] = "running" /\ ctxDone[r] /\ InState(r, {"queued"}) # {}
    /\ job' = [job EXCEPT ![r] = [m \in Monitor |->
                  IF job[r][m].state = "queued" THEN Done ELSE job[r][m]]]
    /\ UNCHANGED <<storeVars, lock, leaked, pc, ctxDone, candidates>>

CanUnlock(r, m) ==
    /\ pc[r] = "running" /\ InState(r, {"queued", "checking", "checked"}) = {}
    /\ job[r][m].state = "done"

(* A mutant: the connection is returned without unlocking.                      *)
UnlockNothing(r, m) ==
    /\ CanUnlock(r, m)
    /\ SetJob(r, m, NoJob)
    /\ pc' = [pc EXCEPT ![r] = IF Claims(r) = {m} THEN "idle" ELSE "running"]
    /\ UNCHANGED <<storeVars, lock, leaked, ctxDone, candidates>>

(* ReleaseClaims, once wg.Wait has returned: one unlock per claimed monitor, on *)
(* a context of its own, errors ignored; after the last one the connection goes *)
(* back to the pool.  Of a lock held twice by the session one hold remains.     *)
Unlock(r, m) ==
    /\ CanUnlock(r, m)
    /\ \/ /\ lock' = Freed(r, {m} \ leaked[r])
          /\ UNCHANGED leaked
       \/ /\ "unlock" \in Faults /\ lock[m] = r
          /\ leaked' = [leaked EXCEPT ![r] = @ \cup {m}]
          /\ UNCHANGED lock
    /\ SetJob(r, m, NoJob)
    /\ pc' = [pc EXCEPT ![r] = IF Claims(r) = {m} THEN "idle" ELSE "running"]
    /\ UNCHANGED <<storeVars, ctxDone, candidates>>

--------------------------------------------------------------------------------
(* The process and its sessions.                                               *)

(* SIGINT or SIGTERM cancels the context of scheduler, workers and queries.     *)
Shutdown(r) ==
    /\ "stop" \in Faults /\ pc[r] # "down" /\ ~ctxDone[r]
    /\ ctxDone' = [ctxDone EXCEPT ![r] = TRUE]
    /\ UNCHANGED <<storeVars, lock, leaked, pc, candidates, job>>

(* The process is gone and the server ends its sessions.                        *)
Stop(r) ==
    /\ pc' = [pc EXCEPT ![r] = "down"]
    /\ ctxDone' = [ctxDone EXCEPT ![r] = TRUE]
    /\ candidates' = [candidates EXCEPT ![r] = {}]
    /\ job' = [job EXCEPT ![r] = [m \in Monitor |-> NoJob]]
    /\ lock' = Freed(r, Monitor)
    /\ leaked' = [leaked EXCEPT ![r] = {}]
    /\ UNCHANGED storeVars

(* Run returns and pool.Close finds every connection back in the pool.          *)
Exit(r) == pc[r] = "idle" /\ ctxDone[r] /\ Stop(r)

Crash(r) == "crash" \in Faults /\ pc[r] # "down" /\ Stop(r)

Start(r) ==
    /\ pc[r] = "down"
    /\ pc' = [pc EXCEPT ![r] = "idle"]
    /\ ctxDone' = [ctxDone EXCEPT ![r] = FALSE]
    /\ UNCHANGED <<storeVars, lock, leaked, candidates, job>>

(* The pool retires idle connections after their lifetime: leaked locks end.    *)
RetireSessions(r) ==
    /\ leaked[r] \ Claims(r) # {}
    /\ lock' = Freed(r, leaked[r] \ Claims(r))
    /\ leaked' = [leaked EXCEPT ![r] = @ \cap Claims(r)]
    /\ UNCHANGED <<storeVars, pc, ctxDone, candidates, job>>

(* The server drops the sessions of r (a failover, a cut connection) while a    *)
(* batch runs.  Nothing tells the workers: they go on and store their results   *)
(* over new connections.                                                       *)
LoseSessions(r) ==
    /\ "session" \in Faults /\ pc[r] = "running"
    /\ lock' = Freed(r, Monitor)
    /\ leaked' = [leaked EXCEPT ![r] = {}]
    /\ UNCHANGED <<storeVars, pc, ctxDone, candidates, job>>

--------------------------------------------------------------------------------
Work(r, m) ==
    \/ TryLock(r, m) \/ StartCheck(r, m) \/ FinishCheck(r, m)
    \/ StoreCheck(r, m) \/ StoreFails(r, m) \/ Unlock(r, m)

Process(r) ==
    \/ ClaimDue(r) \/ RunDue(r) \/ ClaimFails(r) \/ StopDispatch(r)
    \/ Shutdown(r) \/ Exit(r) \/ Crash(r) \/ Start(r)
    \/ RetireSessions(r) \/ LoseSessions(r)

Next ==
    \/ StoreStep /\ UNCHANGED schedVars
    \/ \E r \in Replica : Process(r) \/ \E m \in Monitor : Work(r, m)

Spec == Init /\ [][Next]_vars

(* Goroutines run, statements return (with a result or an error), and a check    *)
(* ends by the client timeout of at most 30 s.  Nothing is assumed of users,    *)
(* stops, faults, the ticker, or the outcome of a check or a statement.         *)
Fairness ==
    \A r \in Replica :
        /\ WF_vars(RunDue(r)) /\ WF_vars(StopDispatch(r)) /\ WF_vars(Exit(r))
        /\ \A m \in Monitor :
              /\ WF_vars(TryLock(r, m))
              /\ WF_vars(StartCheck(r, m)) /\ WF_vars(FinishCheck(r, m))
              /\ WF_vars(StoreCheck(r, m) \/ StoreFails(r, m))
              /\ WF_vars(Unlock(r, m))

FairSpec == Spec /\ Fairness
--------------------------------------------------------------------------------
(* Properties.                                                                 *)

InFlight(r, m) == job[r][m].state \in {"queued", "checking", "checked"}

(* While the sessions live, no two replicas have the same monitor in their      *)
(* batches at once: from the claim until the result is stored or given up, the  *)
(* monitor belongs to one replica (README.md:24, what the advisory locks are    *)
(* for).                                                                       *)
MutualExclusion ==
    \A r, q \in Replica, m \in Monitor : InFlight(r, m) /\ InFlight(q, m) => r = q

(* Every claim is backed by a lock of its replica, and a lock is held for a     *)
(* claim or was left behind in the pool: a crash, a shutdown, a claim given up  *)
(* or a batch that ends keeps no monitor away from the other replicas.          *)
HasLock(m) == \A r \in Replica : m \in Claims(r) \cup leaked[r] => lock[m] = r
IsClaimed(m) == lock[m] # None => m \in Claims(lock[m]) \cup leaked[lock[m]]

LocksMatchClaims == \A m \in Monitor : HasLock(m) /\ IsClaimed(m)

(* Also when sessions are lost under a batch: no lock is ever held for nothing,  *)
(* so the other replicas wait for the end of a batch, or for the pool to retire  *)
(* the session of a lock left behind, and not for ever.  And what a replica took *)
(* for left behind is still locked.                                             *)
NoLockOrphaned ==
    \A m \in Monitor : IsClaimed(m) /\ \A r \in Replica : m \in leaked[r] => lock[m] = r

(* Scheduled results of a monitor are stored in the order in which their checks *)
(* began, whichever replicas made them: updateIncident, which looks at the two  *)
(* newest rows, always has its own row among them and on top.                   *)
StoresInOrder ==
    [][\A x \in results' \ results :
          x.source = "scheduled" => \A y \in Scheduled(x.mon) : y.at < x.at]_vars

(* A check that the shutdown cut short is never stored, so restarting a backend *)
(* does not count as a failure of the monitored site.                           *)
CutChecksAreNotStored ==
    [][\A r \in Replica, m \in Monitor :
          /\ job[r][m].state = "checked" /\ job[r][m].status = "cut"
          /\ job'[r][m] # job[r][m]
          => results' \subseteq results /\ incidents' \subseteq incidents]_vars

(* A batch is never stuck: it runs for a claim, and one of its jobs can take its *)
(* next step: whatever becomes of the monitor, the context or the sessions, a    *)
(* worker stores its result or gives it up, and wg.Wait and ReleaseClaims are    *)
(* reached.                                                                     *)
BatchGoesOn ==
    \A r \in Replica : pc[r] = "running" =>
        \E m \in Monitor :
            \/ CanStart(r, m) \/ CanUnlock(r, m)
            \/ job[r][m].state = "checking"
            \/ job[r][m].state = "checked" /\ (GivesUp(r, m) \/ (~ctxDone[r] /\ Exists(m)))

(* And it goes on to its end: whatever happens to a candidate or a job brings it  *)
(* nearer, no candidate comes back and none is added.  A batch of n monitors     *)
(* takes at most 5n steps of its workers.                                       *)
StepsLeft(r, m) ==
    IF m \in candidates[r] THEN 5
    ELSE CASE job[r][m].state = "queued" -> 4
           [] job[r][m].state = "checking" -> 3
           [] job[r][m].state = "checked" -> 2
           [] job[r][m].state = "done" -> 1
           [] job[r][m].state = "none" -> 0

BatchesOnlyAdvance ==
    [][\A r \in Replica, m \in Monitor : pc[r] \in {"claiming", "running"} =>
          \/ StepsLeft(r, m)' < StepsLeft(r, m)
          \/ /\ job'[r][m].state = job[r][m].state
             /\ m \in candidates'[r] <=> m \in candidates[r]]_vars

(* A batch ends and its claims are released, also when monitors are deleted     *)
(* under it, stores fail, sessions are lost or the process is told to stop;     *)
(* unless the model's clock has run out.                                       *)
BatchesEnd ==
    \A r \in Replica :
        pc[r] \in {"claiming", "running"} ~> pc[r] \in {"idle", "down"} \/ now = MaxTime

(* A process told to stop does stop: whatever its workers are at, the batch     *)
(* ends and the connection comes back for pool.Close (cmd/server/main.go).      *)
ShutdownCompletes == \A r \in Replica : ctxDone[r] ~> pc[r] = "down"

(* Only monitors that are still due enter a batch (the comment on ClaimDue,      *)
(* internal/repository/monitor.go:81: "atomically claims due monitors").        *)
ClaimsOnlyDue ==
    [][\A r \in Replica, m \in Monitor : m \in Claims(r)' \ Claims(r) =>
          \A x \in Scheduled(m) : x.at <= now - Interval]_vars

(* The incident table tells the truth about the scheduled results that are      *)
(* retained: two failures in a row have an active incident, and while an        *)
(* incident is active the newest result is not a success.                       *)
IncidentsAccurate ==
    \A m \in Monitor :
        /\ TwoDown(Scheduled(m)) => Active(m) # {}
        /\ Active(m) # {} => \A x \in Scheduled(m) : x.status = "up" =>
               \E y \in Scheduled(m) : y.at > x.at

(* The history of a monitor makes sense: an incident begins with a failure      *)
(* before the one that opened it, is resolved after its last failure (no        *)
(* negative duration), and two incidents of a monitor never overlap; at most    *)
(* one is active.                                                              *)
Before(i, j) == i.resolved # NULL /\ i.resolved < j.first
IncidentTimeline ==
    \A i \in incidents :
        /\ i.first < i.opened /\ i.opened <= i.last
        /\ i.resolved # NULL => i.last < i.resolved
        /\ \A j \in incidents \ {i} : j.mon = i.mon => Before(i, j) \/ Before(j, i)

(* With one replica the stored checks of a monitor are an interval apart: two    *)
(* scheduled results are, and a check under way began an interval after every    *)
(* result that is stored by now, whatever crashes, stores that fail, manual      *)
(* checks and retention came in between.  A check that left no result does       *)
(* not count: its monitor stays due and is checked again at once.               *)
ResultsApart ==
    \A x, y \in results :
        /\ x.mon = y.mon /\ x.source = "scheduled" /\ y.source = "scheduled"
        /\ x.at < y.at
        => y.at - x.at >= Interval
ChecksApart ==
    \A r \in Replica, m \in Monitor : job[r][m].state \in {"checking", "checked"} =>
        \A x \in Scheduled(m) : job[r][m].at - x.at >= Interval

IntervalKept == ResultsApart /\ ChecksApart

(* The system implements the lifecycle of incidents: two failures in a row of   *)
(* retained scheduled checks open one incident, further ones keep it, one       *)
(* success closes it, and nothing else (manual checks, pauses, crashes, results *)
(* that are lost, retention) moves it.                                          *)
Streak(S) ==
    IF TwoDown(S) THEN 2
    ELSE IF \E x \in S : x.status = "down" /\ \A y \in S : y.at <= x.at THEN 1
    ELSE 0

Lifecycle == INSTANCE IncidentLifecycle WITH
    streak <- [m \in Monitor |-> Streak(Scheduled(m))],
    outage <- [m \in Monitor |-> Active(m) # {}],
    outages <- [m \in Monitor |-> Cardinality({i \in incidents : i.mon = m})]

ImplementsLifecycle == Lifecycle!Spec

(* Storing a result does to the incidents of its monitor what CreateTx shows that *)
(* the statements of a call do under the lock, when nothing was forgotten in     *)
(* between.  No call runs between two steps; there times begin at 1.             *)
CallRows(m) ==
    {[at |-> x.at + 1, status |-> x.status, source |-> x.source] :
        x \in {x \in results : x.mon = m}}
CallIncidents(m) ==
    {[id |-> i.opened + 1, first |-> i.first + 1, last |-> i.last + 1, resolved |-> i.resolved + 1] :
        i \in {i \in incidents : i.mon = m}}

Calls(m) == INSTANCE CreateTx WITH
    MaxTx <- MaxTime + 1, exists <- Exists(m), results <- CallRows(m),
    incidents <- CallIncidents(m), tx <- <<>>, locked <- TRUE, settled <- TRUE,
    forgotten <- {}

StoresLikeCalls ==
    [][\A m \in Monitor : \A c \in CallRows(m)' \ CallRows(m) :
          Calls(m)!AtOnce(c, CallRows(m)')]_vars
===============================================================================
