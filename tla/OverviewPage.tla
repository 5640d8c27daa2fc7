----------------------------- MODULE OverviewPage -----------------------------
(* The page /overview of the dashboard (pages/overview.component.ts) and the    *)
(* handler behind it (PostgresHistory.Overview, internal/repository/history.go),*)
(* which builds one answer from many statements while checks are stored.        *)
(* Uptime, latency and counts of checks are numbers on the page only.           *)
EXTENDS Naturals, FiniteSets

CONSTANTS
    Monitor,
    Ranges,         \* the choices of TimeRangeComponent
    Day,            \* the shortest of them, 24h, and the first one shown
    Attention,      \* how many monitors the priority queue shows
    Slot,           \* bound on the requests under way at one time
    NoData,         \* nothing loaded yet
    MaxLoads,       \* bound on the loads of the user
    MaxChanges      \* bound on what happens to the monitors meanwhile

ASSUME OverviewAssumption ==
    /\ Day \in Ranges
    /\ Attention \in Nat \ {0} /\ MaxLoads \in Nat \ {0} /\ MaxChanges \in Nat

VARIABLES
    state,          \* state[m]: not created yet, enabled, paused or deleted
    last,           \* last[m]: the newest result of m, of any source
    recent,         \* the monitors whose newest result is younger than a day
    incidents,      \* the monitors with an active incident
    changes,
    requests,       \* requests[s]: GET /overview in slot s
    data, loading, error, range,    \* the signals of the page
    loads,          \* the number of loads so far; numbers the requests
    alone, steady   \* history: since the last load began no other request ran,
                    \* and nothing happened to the monitors

fleet == <<state, last, recent, incidents, changes>>
page == <<data, loading, error, range, loads>>
vars == <<fleet, requests, page, alone, steady>>

Status == {"pending", "up", "down"}
Summaries == [Monitor -> Status \cup {"none", "paused"}]

(* What the code reads of an answer: the count of monitors (is there one), the  *)
(* count of active incidents, and a summary per monitor.                        *)
Answer == [load : 1 .. MaxLoads, range : Ranges, any : BOOLEAN, incident : BOOLEAN,
           monitors : Summaries]
ASSUME NoDataAssumption == NoData \notin Answer

Request == [phase : {"free", "sent", "counted", "listed", "failed"},
            todo : SUBSET Monitor, answer : Answer]
Blank(n, r) == [load |-> n, range |-> r, any |-> FALSE, incident |-> FALSE,
                monitors |-> [m \in Monitor |-> "none"]]
Idle == [phase |-> "free", todo |-> {}, answer |-> Blank(1, Day)]
Ask(n, r) == [phase |-> "sent", todo |-> {}, answer |-> Blank(n, r)]

TypeOK ==
    /\ state \in [Monitor -> {"new", "enabled", "paused", "deleted"}]
    /\ last \in [Monitor -> Status]
    /\ recent \subseteq Monitor /\ incidents \subseteq Monitor
    /\ changes \in 0 .. MaxChanges
    /\ requests \in [Slot -> Request]
    /\ data \in Answer \cup {NoData}
    /\ {loading, error, alone, steady} \subseteq BOOLEAN
    /\ range \in Ranges
    /\ loads \in 1 .. MaxLoads

Busy(s) == requests[s].phase # "free"
Quiet == \A s \in Slot : ~Busy(s)
Exists(m) == state[m] \in {"enabled", "paused"}

--------------------------------------------------------------------------------
(* What happens to the monitors: checks end, a day passes, users write.         *)

Change ==
    /\ changes < MaxChanges
    /\ changes' = changes + 1
    /\ steady' = FALSE
    /\ UNCHANGED <<requests, page, alone>>

(* A result is stored; only a scheduled one touches the incident, which a       *)
(* success ends and a second failure opens.                                     *)
StoreResult(m, s, scheduled) ==
    /\ Exists(m)
    /\ last' = [last EXCEPT ![m] = s]
    /\ recent' = recent \cup {m}
    /\ incidents' \in IF ~scheduled THEN {incidents}
                      ELSE IF s = "up" THEN {incidents \ {m}}
                      ELSE {incidents, incidents \cup {m}}
    /\ Change
    /\ UNCHANGED state

(* A request fixes the start of its range when it begins, so for the requests   *)
(* under way the day has not passed yet.                                        *)
DayPasses(m) ==
    /\ m \in recent
    /\ Quiet
    /\ recent' = recent \ {m}
    /\ Change
    /\ UNCHANGED <<state, last, incidents>>

Create(m) ==
    /\ state[m] = "new"
    /\ \E s \in {"enabled", "paused"} : state' = [state EXCEPT ![m] = s]
    /\ Change
    /\ UNCHANGED <<last, recent, incidents>>

Toggle(m) ==
    /\ Exists(m)
    /\ state' = [state EXCEPT ![m] = IF @ = "enabled" THEN "paused" ELSE "enabled"]
    /\ Change
    /\ UNCHANGED <<last, recent, incidents>>

Delete(m) ==
    /\ Exists(m)
    /\ state' = [state EXCEPT ![m] = "deleted"]
    /\ incidents' = incidents \ {m}
    /\ last' = [last EXCEPT ![m] = "pending"]
    /\ recent' = recent \ {m}
    /\ Change

--------------------------------------------------------------------------------
(* PostgresHistory.Overview, statement by statement.                            *)

(* Summary: the newest point in the range.                                      *)
StatusIn(m, r) == IF r = Day /\ m \notin recent THEN "pending" ELSE last[m]

(* Mutant: the enabled column in place of the newest point.                     *)
SummaryOfRow(m, r) == state[m]

SummaryOf(m, r) == IF state[m] = "paused" THEN "paused" ELSE StatusIn(m, r)

Put(s, r) == requests' = [requests EXCEPT ![s] = r] /\ UNCHANGED <<fleet, page, alone, steady>>
Failed(s) == [requests[s] EXCEPT !.phase = "failed", !.todo = {}]

(* The count of monitors; its error is the answer.                              *)
CountMonitors(s) ==
    /\ requests[s].phase = "sent"
    /\ Put(s, [requests[s] EXCEPT !.phase = "counted", !.answer.any = \E m \in Monitor : Exists(m)])

(* The error of the count of incidents is dropped: it stays zero.  Then the     *)
(* list of the monitors.                                                        *)
CountIncidents(s) ==
    /\ requests[s].phase = "counted"
    /\ \E ok \in BOOLEAN :
         Put(s, [requests[s] EXCEPT !.phase = "listed",
                                    !.todo = {m \in Monitor : Exists(m)},
                                    !.answer.incident = ok /\ incidents # {}])

(* One summary; a monitor deleted since the list fails the answer.              *)
Summarise(s, m) ==
    /\ requests[s].phase = "listed" /\ m \in requests[s].todo
    /\ Put(s, IF Exists(m)
              THEN [requests[s] EXCEPT !.todo = @ \ {m},
                                       !.answer.monitors[m] = SummaryOf(m, requests[s].answer.range)]
              ELSE Failed(s))

(* Any statement or the connection may fail.                                    *)
RequestFails(s) ==
    /\ requests[s].phase \in {"sent", "counted", "listed"}
    /\ Put(s, Failed(s))

--------------------------------------------------------------------------------
(* The page.                                                                    *)

(* Mutant: the choice is not remembered.                                        *)
LoadForgetsRange(s, r) ==
    /\ ~Busy(s)
    /\ loads < MaxLoads
    /\ loads' = loads + 1
    /\ loading' = TRUE
    /\ error' = FALSE
    /\ requests' = [requests EXCEPT ![s] = Ask(loads', r)]
    /\ alone' = Quiet
    /\ steady' = TRUE
    /\ UNCHANGED <<fleet, data, range>>

Load(s, r) ==
    /\ ~Busy(s)
    /\ loads < MaxLoads
    /\ loads' = loads + 1
    /\ range' = r
    /\ loading' = TRUE
    /\ error' = FALSE
    /\ requests' = [requests EXCEPT ![s] = Ask(loads', r)]
    /\ alone' = Quiet
    /\ steady' = TRUE
    /\ UNCHANGED <<fleet, data>>

(* The range buttons are never disabled.                                        *)
ChooseRange(s) == \E r \in Ranges : Load(s, r)
Refresh(s) == ~loading /\ Load(s, range)
Retry(s) == error /\ Load(s, range)

Shown(s) ==
    /\ requests[s].phase = "listed" /\ requests[s].todo = {}
    /\ data' = requests[s].answer
    /\ loading' = FALSE
    /\ requests' = [requests EXCEPT ![s] = Idle]
    /\ UNCHANGED <<fleet, error, range, loads, alone, steady>>

(* Mutants: no error handler; no finalize.                                      *)
LoadFailsSilently(s) ==
    /\ requests[s].phase = "failed"
    /\ loading' = FALSE
    /\ requests' = [requests EXCEPT ![s] = Idle]
    /\ UNCHANGED <<fleet, data, error, range, loads, alone, steady>>

LoadFailsForever(s) ==
    /\ requests[s].phase = "failed"
    /\ error' = TRUE
    /\ requests' = [requests EXCEPT ![s] = Idle]
    /\ UNCHANGED <<fleet, data, loading, range, loads, alone, steady>>

LoadFails(s) ==
    /\ requests[s].phase = "failed"
    /\ error' = TRUE
    /\ loading' = FALSE
    /\ requests' = [requests EXCEPT ![s] = Idle]
    /\ UNCHANGED <<fleet, data, range, loads, alone, steady>>

(* The constructor loads the first range.                                      *)
Init ==
    /\ state \in [Monitor -> {"new", "enabled"}]
    /\ last \in [Monitor -> Status]
    /\ recent = {m \in Monitor : last[m] # "pending"}
    /\ \A m \in Monitor : state[m] = "new" => last[m] = "pending"
    /\ incidents \in SUBSET {m \in Monitor : last[m] = "down"}
    /\ changes = 0
    /\ \E s \in Slot : requests = [t \in Slot |-> IF t = s THEN Ask(1, Day) ELSE Idle]
    /\ data = NoData /\ loading = TRUE /\ error = FALSE /\ range = Day /\ loads = 1
    /\ alone = TRUE /\ steady = TRUE

Fleet == \E m \in Monitor :
    \/ \E s \in {"up", "down"}, scheduled \in BOOLEAN : StoreResult(m, s, scheduled)
    \/ DayPasses(m) \/ Create(m) \/ Toggle(m) \/ Delete(m)
Handle(s) ==
    CountMonitors(s) \/ CountIncidents(s) \/ RequestFails(s) \/ \E m \in Monitor : Summarise(s, m)
User(s) == ChooseRange(s) \/ Refresh(s) \/ Retry(s)

Next == Fleet \/ \E s \in Slot : User(s) \/ Handle(s) \/ Shown(s) \/ LoadFails(s)

(* The server answers or the request fails, and the browser delivers it.        *)
Fairness == \A s \in Slot : WF_vars(Handle(s)) /\ WF_vars(Shown(s) \/ LoadFails(s))

Spec == Init /\ [][Next]_vars /\ Fairness

--------------------------------------------------------------------------------
(* What the template derives from an answer v.                                  *)

Down(v) == {m \in Monitor : v.monitors[m] = "down"}
(* Mutant: only incidents count, which need a second failure.                   *)
FleetStateOfIncidents(v) == IF v.incident THEN "down" ELSE "up"

FleetState(v) == IF v.incident \/ Down(v) # {} THEN "down" ELSE "up"

(* Mutant: failures and monitors without data change places.                    *)
RankPendingFirst(v, m) == CASE v.monitors[m] = "down" -> 1
                            [] v.monitors[m] = "pending" -> 0
                            [] v.monitors[m] = "up" -> 2
                            [] v.monitors[m] = "paused" -> 3

Rank(v, m) == CASE v.monitors[m] = "down" -> 0
                [] v.monitors[m] = "pending" -> 1
                [] v.monitors[m] = "up" -> 2
                [] v.monitors[m] = "paused" -> 3

(* ranked, filtered, cut; names break ties, so equals come in any order.        *)
Queues(v) ==
    LET unwell == {m \in Monitor : v.monitors[m] \in {"down", "pending"}}
    IN  {Q \in SUBSET unwell :
            /\ Cardinality(Q) = IF Cardinality(unwell) < Attention
                                THEN Cardinality(unwell) ELSE Attention
            /\ \A m \in Q, n \in unwell \ Q : Rank(v, m) <= Rank(v, n)}

--------------------------------------------------------------------------------
(* Properties.                                                                  *)

Settled == Quiet /\ ~error /\ data # NoData

(* The page is never left blank: when nothing is under way any more it shows    *)
(* data or an error, in whatever order overlapping loads ended.                 *)
NeverBlank == Quiet => error \/ data # NoData

(* While the page says it is loading, the latest load is under way and will bring *)
(* the selected range: an earlier one that ends may hide that, but none leaves   *)
(* the page waiting for nothing.                                                *)
LoadingHasRequest ==
    loading => \E s \in Slot :
                  Busy(s) /\ requests[s].answer.load = loads /\ requests[s].answer.range = range

(* Unless loads overlapped, the values shown without a notice are those of the  *)
(* selected range and of the latest load.                                       *)
ShowsLatest == Settled /\ alone => data.range = range /\ data.load = loads

(* "All reporting websites are healthy" is true of the fleet: if nothing has    *)
(* happened to it since the load began, no enabled monitor is down in the       *)
(* range; nor is the page of an empty fleet shown instead.  The answer was put   *)
(* together from many statements, and the count of incidents may have failed    *)
(* unnoticed.                                                                   *)
HealthyIsTrue ==
    Settled /\ alone /\ steady /\ (~data.any \/ FleetState(data) = "up") =>
        \A m \in Monitor : state[m] = "enabled" => StatusIn(m, range) # "down"

(* The priority queue hides a failing monitor only behind failing ones, and is  *)
(* empty ("No enabled monitor is reporting a failure") only without failures.   *)
QueueShowsFailures ==
    data # NoData => \A Q \in Queues(data) : Down(data) \subseteq Q \/ (Q # {} /\ Q \subseteq Down(data))

(* Every load ends, with or without an answer.                                  *)
LoadingEnds == loading ~> ~loading

(* What the labels of the page say ("Successful checks in the selected range",  *)
(* "Selected 24 hours"), with no condition on overlapping loads.                *)
ShowsSelectedRange == Settled => data.range = range
===============================================================================
