------------------------------- MODULE CreateTx --------------------------------
(* PostgresChecks.Create for one monitor, statement by statement: concurrent    *)
(* transactions at PostgreSQL's default level READ COMMITTED, where every       *)
(* statement has a snapshot of its own, beside retention and the deletion of    *)
(* the monitor.  CheckStore takes Create as one step.                           *)
EXTENDS Naturals, FiniteSets

CONSTANT MaxTx      \* bound on the calls of Create

ASSUME TxAssumption == MaxTx \in Nat

(* Call t stores the result checked at time t; no two have one time.            *)
Tx == 1 .. MaxTx
NULL == 0

VARIABLES
    exists,     \* the row of the monitor
    results,    \* the committed results
    incidents,  \* the committed incidents, named by the call that opened them
    tx,         \* tx[t]: the call
    locked,     \* the scheduler's lock holds: one scheduled check after the other
    settled,    \* history: a scheduled result was stored since it does, or always
    forgotten   \* history: the committed results that retention has deleted since
                \* failures were counted last

vars == <<exists, results, incidents, tx, locked, settled, forgotten>>

Result == [at : Tx, status : {"up", "down"}, source : {"scheduled", "manual"}]
Incident == [id : Tx, first : Tx, last : Tx, resolved : Tx \cup {NULL}]
Running == {"begun", "inserted", "looked", "opening", "written"}

(* A call: the result it stores, how far it is, the active incident or the      *)
(* first failure its last query saw, and the row of incidents it has written.   *)
Call == [phase : {"new", "ended"} \cup Running, row : Result,
         saw : Tx \cup {NULL}, wrote : SUBSET Incident]
NoRow == [at |-> 1, status |-> "up", source |-> "manual"]
NoCall == [phase |-> "new", row |-> NoRow, saw |-> NULL, wrote |-> {}]

TypeOK ==
    /\ {exists, locked, settled} \subseteq BOOLEAN
    /\ results \subseteq Result
    /\ forgotten \subseteq Result
    /\ incidents \subseteq Incident
    /\ tx \in [Tx -> Call]

Init ==
    /\ exists = TRUE
    /\ results = {} /\ incidents = {}
    /\ tx = [t \in Tx |-> NoCall]
    /\ locked = TRUE /\ settled = TRUE
    /\ forgotten = {}

At(t, phase) == tx[t].phase = phase
IsRunning(t) == tx[t].phase \in Running
Scheduled(S) == {x \in S : x.source = "scheduled"}
SchedulerRuns == \E t \in Tx : IsRunning(t) /\ tx[t].row.source = "scheduled"
Active == {i \in incidents : i.resolved = NULL}

(* The newest n rows of S: ORDER BY checked_at DESC LIMIT n.                     *)
Newest(S, n) == {x \in S : Cardinality({y \in S : y.at > x.at}) < n}
Downs(S) == {x \in S : x.status = "down"}
TwoDown(S) == Cardinality(Downs(Newest(Scheduled(S), 2))) = 2

(* A statement of t sees what is committed and what t did itself.               *)
Visible(t) == results \cup {tx[t].row}

Put(t, c) == tx' = [tx EXCEPT ![t] = c]
KeepStore == UNCHANGED <<exists, results, incidents, locked, settled>>
Keep == KeepStore /\ UNCHANGED forgotten

--------------------------------------------------------------------------------

(* Create is called.  Under the scheduler's lock a scheduled check begins when   *)
(* the one before it is stored.                                                 *)
Begin(t) ==
    /\ At(t, "new")
    /\ \E x \in Result :
         /\ x.at = t
         /\ locked /\ x.source = "scheduled" =>
              /\ ~SchedulerRuns
              /\ \A u \in Tx : ~At(u, "new") /\ tx[u].row.source = "scheduled" => u < t
         /\ Put(t, [NoCall EXCEPT !.phase = "begun", !.row = x])
    /\ Keep

(* The foreign key takes a share of the monitor's row; without it the           *)
(* statement fails.                                                             *)
Insert(t) ==
    /\ At(t, "begun")
    /\ Put(t, [tx[t] EXCEPT !.phase = IF ~exists THEN "ended"
                                      ELSE IF tx[t].row.source = "manual" THEN "written"
                                      ELSE "inserted"])
    /\ Keep

(* Success: the UPDATE begins and sees the active incidents of its snapshot.    *)
LookForActive(t) ==
    /\ At(t, "inserted") /\ tx[t].row.status = "up"
    /\ IF Active = {} THEN Put(t, [tx[t] EXCEPT !.phase = "written"])
       ELSE \E i \in Active : Put(t, [tx[t] EXCEPT !.phase = "looked", !.saw = i.id])
    /\ Keep

(* Call t waits for call u: its UPDATE for a transaction that has written the    *)
(* row it is to resolve, its INSERT, by the unique index, for one that opened,   *)
(* extended or resolved the active incident.                                    *)
Writes(u, id) == \E i \in tx[u].wrote : i.id = id
WaitsFor(t, u) ==
    \/ At(t, "looked") /\ Writes(u, tx[t].saw)
    \/ At(t, "opening") /\ tx[t].saw # NULL /\ tx[u].wrote # {}
Waits(t) == \E u \in Tx : WaitsFor(t, u)

(* Once it need not wait, it looks at the row again.                            *)
Resolve(t) ==
    /\ At(t, "looked") /\ ~Waits(t)
    /\ Put(t, [tx[t] EXCEPT !.phase = "written",
                            !.wrote = {[i EXCEPT !.resolved = t] :
                                         i \in {i \in Active : i.id = tx[t].saw}}])
    /\ Keep

(* Failure: the count of failures among the newest two.                         *)
(* Mutant: the count runs before the insert.                                    *)
CountFailuresBefore(t) ==
    /\ At(t, "inserted") /\ tx[t].row.status = "down"
    /\ Put(t, [tx[t] EXCEPT !.phase = IF TwoDown(results) THEN "opening" ELSE "written"])
    /\ forgotten' = {}
    /\ KeepStore

CountFailures(t) ==
    /\ At(t, "inserted") /\ tx[t].row.status = "down"
    /\ Put(t, [tx[t] EXCEPT !.phase = IF TwoDown(Visible(t)) THEN "opening" ELSE "written"])
    /\ forgotten' = {}
    /\ KeepStore

(* Mutant: the subquery takes the last of them (max instead of min).             *)
LastFailure(t) ==
    /\ At(t, "opening") /\ tx[t].saw = NULL
    /\ \E x \in Newest(Downs(Scheduled(Visible(t))), 1) : Put(t, [tx[t] EXCEPT !.saw = x.at])
    /\ Keep

(* The INSERT begins: its subquery takes the first of the newest two failures.  *)
FirstFailures(t) ==
    LET failures == Newest(Downs(Scheduled(Visible(t))), 2)
    IN  {x \in failures : \A y \in failures : x.at <= y.at}

FirstFailure(t) ==
    /\ At(t, "opening") /\ tx[t].saw = NULL
    /\ \E x \in FirstFailures(t) : Put(t, [tx[t] EXCEPT !.saw = x.at])
    /\ Keep

(* Mutant: first_failure_at is left without a value.                            *)
OpenedWithoutFirst(t) == [id |-> t, first |-> NULL, last |-> t, resolved |-> NULL]

Opened(t) == [id |-> t, first |-> tx[t].saw, last |-> t, resolved |-> NULL]

(* Mutant: no unique index, and no ON CONFLICT: the row is inserted if the       *)
(* snapshot has no active incident.                                             *)
OpenUnlessSeen(t) ==
    /\ At(t, "opening") /\ tx[t].saw # NULL
    /\ Put(t, [tx[t] EXCEPT !.phase = "written",
                            !.wrote = IF Active = {} THEN {Opened(t)}
                                      ELSE {[i EXCEPT !.last = t] : i \in Active}])
    /\ Keep

(* ON CONFLICT: what is there now, once it need not wait, is extended.           *)
OpenOrExtend(t) ==
    /\ At(t, "opening") /\ tx[t].saw # NULL /\ ~Waits(t)
    /\ Put(t, [tx[t] EXCEPT !.phase = "written",
                            !.wrote = IF Active = {} THEN {Opened(t)}
                                      ELSE {[i EXCEPT !.last = t] : i \in Active}])
    /\ Keep

Commit(t) ==
    LET w == tx[t].wrote
    IN  /\ At(t, "written")
        /\ results' = Visible(t)
        /\ incidents' = {i \in incidents : \A j \in w : j.id # i.id} \cup w
        /\ Put(t, [tx[t] EXCEPT !.phase = "ended", !.wrote = {}])
        /\ settled' = (settled \/ (locked /\ tx[t].row.source = "scheduled"))
        /\ UNCHANGED <<exists, locked, forgotten>>

(* Mutant: nothing rolls the transaction back, what it wrote stays locked.      *)
FailOpen(t) ==
    /\ IsRunning(t)
    /\ Put(t, [tx[t] EXCEPT !.phase = "ended"])
    /\ Keep

(* A statement, the connection or the context fails: deferred Rollback.         *)
Fail(t) ==
    /\ IsRunning(t)
    /\ Put(t, [tx[t] EXCEPT !.phase = "ended", !.wrote = {}])
    /\ Keep

--------------------------------------------------------------------------------

(* The cutoff lies 30 days back, before every check in progress.                *)
DeleteOlderThan(cutoff) ==
    /\ \A t \in Tx : ~At(t, "ended") => cutoff <= t
    /\ results' = {x \in results : x.at >= cutoff}
    /\ forgotten' = forgotten \cup (results \ results')
    /\ UNCHANGED <<exists, incidents, tx, locked, settled>>

(* Mutant: no foreign key: nothing waits for the monitor's row.                 *)
DeleteAtOnce ==
    /\ exists
    /\ exists' = FALSE
    /\ results' = {} /\ incidents' = {}
    /\ UNCHANGED <<tx, locked, settled, forgotten>>

(* DELETE FROM monitors waits for the shares of its row, then cascades.         *)
DeleteMonitor ==
    /\ exists
    /\ \A t \in Tx : IsRunning(t) => At(t, "begun")
    /\ exists' = FALSE
    /\ results' = {} /\ incidents' = {}
    /\ UNCHANGED <<tx, locked, settled, forgotten>>

(* The session with the scheduler's lock ends while its checks go on; and the    *)
(* schedulers have agreed again.                                                *)
LoseLock ==
    /\ locked
    /\ locked' = FALSE /\ settled' = FALSE
    /\ UNCHANGED <<exists, results, incidents, tx, forgotten>>

TakeLock ==
    /\ ~locked /\ ~SchedulerRuns
    /\ locked' = TRUE
    /\ UNCHANGED <<exists, results, incidents, tx, settled, forgotten>>

Statement(t) ==
    \/ Insert(t) \/ LookForActive(t) \/ Resolve(t) \/ CountFailures(t)
    \/ FirstFailure(t) \/ OpenOrExtend(t) \/ Commit(t)

Next ==
    \/ DeleteMonitor \/ LoseLock \/ TakeLock
    \/ \E t \in Tx : Begin(t) \/ Statement(t) \/ Fail(t) \/ DeleteOlderThan(t)

Spec == Init /\ [][Next]_vars

--------------------------------------------------------------------------------
(* Properties.                                                                  *)

(* One active incident per monitor, however many transactions count two          *)
(* failures at the same time (ON CONFLICT of updateIncident).                    *)
OneActive == \A i, j \in Active : i = j

(* While the scheduler's lock holds, taking Create as one step is right: two     *)
(* retained failures in a row have an active incident, and after a success there *)
(* is none, with manual results, retention, failing statements and deletion in  *)
(* between.  And what concurrent transactions got wrong while it did not hold,   *)
(* the first scheduled result stored under the lock puts right.                  *)
OutagesRecorded ==
    locked /\ settled /\ ~SchedulerRuns =>
        /\ TwoDown(results) => Active # {}
        /\ (\E x \in Newest(Scheduled(results), 1) : x.status = "up") => Active = {}

(* Create as CheckStore has it: what storing c does to the incidents if all its  *)
(* statements see S, the results with c.  A first failure that was deleted since *)
(* the count is missed: then the incident may name c itself.                    *)
AtOnce(c, S) ==
    LET ignored == \/ c.source = "manual"
                   \/ c.status = "up" /\ Active = {}
                   \/ c.status = "down" /\ ~TwoDown(S)
        updated(i) == IF c.status = "up" THEN [i EXCEPT !.resolved = c.at] ELSE [i EXCEPT !.last = c.at]
        opened(x) == [id |-> c.at, first |-> x.at, last |-> c.at, resolved |-> NULL]
        newest == Newest(Scheduled(S), 2)
    IN  IF ignored THEN incidents' = incidents
        ELSE IF Active # {} THEN \E i \in Active : incidents' = (incidents \ {i}) \cup {updated(i)}
        ELSE \E x \in newest :
               (x = c => \E y \in newest : y \notin results') /\ incidents' = incidents \cup {opened(x)}

(* Under the scheduler's lock taking Create as one step is right, with manual    *)
(* results, retention and deletion between its statements: what a commit makes   *)
(* of the incidents is what one step would make of them.  The one exception is   *)
(* the result before it: if retention deletes that after the call has counted    *)
(* it, it still counts.  A call that was rolled back, or a result that was gone  *)
(* when the call counted, never does.                                           *)
CommitsAreSteps ==
    [][locked => \A c \in results' \ results :
         \/ AtOnce(c, results')
         \/ \E y \in Scheduled(forgotten) : AtOnce(c, results' \cup {y})]_vars

(* No result and no incident outlives its monitor, not even one whose           *)
(* transaction ran while the monitor was deleted.                               *)
NothingOutlives == ~exists => results = {} /\ incidents = {}

(* Call t can take its next statement: it waits for nobody, and the subquery     *)
(* finds a first failure.                                                       *)
CanGoOn(t) ==
    /\ IsRunning(t) /\ ~Waits(t)
    /\ At(t, "opening") /\ tx[t].saw = NULL => FirstFailures(t) # {}

(* No circle of waiting, whatever locks the statements take and whatever fails:  *)
(* a call only waits for one that can go on, and while calls run one of them    *)
(* can.  Each takes a few statements, so they all end.                          *)
SomeCallGoesOn ==
    /\ \A t, u \in Tx : IsRunning(t) /\ WaitsFor(t, u) => CanGoOn(u)
    /\ (\E t \in Tx : IsRunning(t)) => \E t \in Tx : CanGoOn(t)
===============================================================================
