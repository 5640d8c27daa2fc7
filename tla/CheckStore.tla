------------------------------ MODULE CheckStore ------------------------------
(* The PostgreSQL tables of the monitor (migrations/000001_initial.up.sql) and *)
(* the statements that internal/repository runs on them.  A monitor is a row   *)
(* of monitors, a check a row of check_results, an outage a row of incidents.  *)
(* Every statement, and the transaction of PostgresChecks.Create, is one step. *)
EXTENDS Integers, FiniteSets

CONSTANTS
    Monitor,    \* the ids a monitor may get; an id is never used twice
    Interval,   \* interval_seconds, the same for every monitor
    Retention,  \* how long raw results are kept
    MaxTime,    \* bound on the clock
    Requests    \* the requests of the API that an instance makes

ASSUME StoreAssumption ==
    /\ Interval \in Nat \ {0}
    /\ Retention \in Nat
    /\ MaxTime \in Nat
    /\ Requests \subseteq {"update", "delete", "manual"}

VARIABLES
    now,        \* the clock the processes and the server share
    monitors,   \* monitors[m]: not created, enabled, paused or deleted
    createdAt,  \* createdAt[m]: monitors.created_at
    results,    \* the rows of check_results
    incidents   \* the rows of incidents

storeVars == <<now, monitors, createdAt, results, incidents>>

Time == 0 .. MaxTime
NULL == -1      \* resolved_at of an active incident

Result == [mon : Monitor, source : {"scheduled", "manual"},
           status : {"up", "down"}, at : Time]
Incident == [mon : Monitor, first : Time, last : Time, opened : Time,
             resolved : Time \cup {NULL}]

StoreTypeOK ==
    /\ now \in Time
    /\ monitors \in [Monitor -> {"absent", "enabled", "paused", "deleted"}]
    /\ createdAt \in [Monitor -> Time]
    /\ results \subseteq Result
    /\ incidents \subseteq Incident

StoreInit ==
    /\ now = 0
    /\ monitors = [m \in Monitor |-> "absent"]
    /\ createdAt = [m \in Monitor |-> 0]
    /\ results = {}
    /\ incidents = {}

--------------------------------------------------------------------------------
(* Queries.                                                                    *)

Exists(m) == monitors[m] \in {"enabled", "paused"}
Scheduled(m) == {x \in results : x.mon = m /\ x.source = "scheduled"}
IsActive(i) == i.resolved = NULL
Active(m) == {i \in incidents : i.mon = m /\ IsActive(i)}

(* The two newest rows of a set both say "down": what the count over            *)
(* ORDER BY checked_at DESC LIMIT 2 compares with 2.  x is the newest, y the    *)
(* one before it.                                                              *)
NewestTwo(S, x, y) ==
    /\ x \in S /\ y \in S /\ y.at < x.at
    /\ \A z \in S \ {x, y} : z.at < y.at

TwoDown(S) == \E x, y \in S : NewestTwo(S, x, y) /\ x.status = "down" /\ y.status = "down"

(* Mutant: the end of the interval is missed by one.                           *)
IsDueEarly(m) ==
    /\ monitors[m] = "enabled"
    /\ \A x \in Scheduled(m) : x.at <= now - Interval + 1

(* The rows of the CTE "due": enabled, and no scheduled result younger than     *)
(* the interval.                                                               *)
IsDue(m) ==
    /\ monitors[m] = "enabled"
    /\ \A x \in Scheduled(m) : x.at <= now - Interval

(* due_order: the newest result of any source, else the creation time.         *)
DueOrder(m) ==
    LET ats == {x.at : x \in {x \in results : x.mon = m}}
    IN  IF ats = {} THEN createdAt[m]
        ELSE CHOOSE t \in ats : \A u \in ats : u <= t

(* ORDER BY due_order, id LIMIT limit.  Ids are random, so the tie-break is     *)
(* any choice between equals.                                                  *)
DueBatches(limit) ==
    LET due == {m \in Monitor : IsDue(m)}
    IN  {B \in SUBSET due :
            /\ Cardinality(B) = IF Cardinality(due) < limit THEN Cardinality(due) ELSE limit
            /\ \A m \in B, n \in due \ B : DueOrder(m) <= DueOrder(n)}

--------------------------------------------------------------------------------
(* Statements.                                                                 *)

(* Mutant: the UPDATE lacks "state='active'".                                  *)
ResolveAll(c) ==
    {IF i.mon = c.mon THEN [i EXCEPT !.resolved = c.at] ELSE i : i \in incidents}

(* updateIncident, run on the rows rs that already contain the result c.       *)
Resolve(c) ==
    {IF i \in Active(c.mon) THEN [i EXCEPT !.resolved = c.at] ELSE i : i \in incidents}

(* Mutant: first_failure_at is left without a value.                           *)
OpenWithoutFirst(c, S) ==
    incidents \cup {[mon |-> c.mon, first |-> NULL, last |-> c.at,
                     opened |-> c.at, resolved |-> NULL]}

OpenOrExtend(c, S) ==
    LET first == (CHOOSE y \in S : \E x \in S : NewestTwo(S, x, y)).at
    IN  IF Active(c.mon) = {}
        THEN incidents \cup {[mon |-> c.mon, first |-> first, last |-> c.at,
                              opened |-> c.at, resolved |-> NULL]}
        ELSE {IF i \in Active(c.mon) THEN [i EXCEPT !.last = c.at] ELSE i : i \in incidents}

(* Mutants: all failures are counted, not those among the newest two; the       *)
(* results are counted without "source='scheduled'".                            *)
UpdateIncidentAllFailures(c, rs) ==
    LET S == {x \in rs : x.mon = c.mon /\ x.source = "scheduled"}
        twoFailures == \E x, y \in S : x # y /\ x.status = "down" /\ y.status = "down"
    IN  IF c.status = "up" THEN Resolve(c)
        ELSE IF twoFailures THEN OpenOrExtend(c, S) ELSE incidents

UpdateIncidentAnySource(c, rs) ==
    LET S == {x \in rs : x.mon = c.mon}
    IN  IF c.status = "up" THEN Resolve(c)
        ELSE IF TwoDown(S) THEN OpenOrExtend(c, S) ELSE incidents

UpdateIncident(c, rs) ==
    LET S == {x \in rs : x.mon = c.mon /\ x.source = "scheduled"}
    IN  IF c.status = "up" THEN Resolve(c)
        ELSE IF TwoDown(S) THEN OpenOrExtend(c, S) ELSE incidents

(* PostgresChecks.Create: one transaction; the foreign key makes it fail once   *)
(* the monitor is deleted.                                                     *)
CreateCheck(c) ==
    /\ Exists(c.mon)
    /\ results' = results \cup {c}
    /\ incidents' = IF c.source = "scheduled"
                    THEN UpdateIncident(c, results \cup {c}) ELSE incidents
    /\ UNCHANGED <<now, monitors, createdAt>>

(* PostgresChecks.DeleteOlderThan.                                             *)
DeleteOlderThan(cutoff) ==
    /\ results' = {x \in results : x.at >= cutoff}
    /\ UNCHANGED <<now, monitors, createdAt, incidents>>

(* RunRetention: when a process starts and then daily, so at any time.          *)
RunRetention == DeleteOlderThan(now - Retention)

(* PostgresMonitors.Create and Update (the enabled column), and Delete with its  *)
(* cascades.                                                                   *)
CreateMonitor(m) ==
    /\ monitors[m] = "absent"
    /\ \E s \in {"enabled", "paused"} : monitors' = [monitors EXCEPT ![m] = s]
    /\ createdAt' = [createdAt EXCEPT ![m] = now]
    /\ UNCHANGED <<now, results, incidents>>

UpdateMonitor(m) ==
    /\ Exists(m)
    /\ \E s \in {"enabled", "paused"} : monitors' = [monitors EXCEPT ![m] = s]
    /\ UNCHANGED <<now, createdAt, results, incidents>>

DeleteMonitor(m) ==
    /\ Exists(m)
    /\ monitors' = [monitors EXCEPT ![m] = "deleted"]
    /\ results' = {x \in results : x.mon # m}
    /\ incidents' = {i \in incidents : i.mon # m}
    /\ UNCHANGED <<now, createdAt>>

(* MonitorAPI.check: the check started at some time since the monitor was       *)
(* created and its result is stored now.                                       *)
ManualCheck(m) ==
    \E s \in {"up", "down"}, t \in createdAt[m] .. now :
        CreateCheck([mon |-> m, source |-> "manual", status |-> s, at |-> t])

Tick ==
    /\ now < MaxTime
    /\ now' = now + 1
    /\ UNCHANGED <<monitors, createdAt, results, incidents>>

StoreStep ==
    \/ RunRetention
    \/ Tick
    \/ \E m \in Monitor :
          \/ CreateMonitor(m)
          \/ "update" \in Requests /\ UpdateMonitor(m)
          \/ "delete" \in Requests /\ DeleteMonitor(m)
          \/ "manual" \in Requests /\ ManualCheck(m)
===============================================================================
