-------------------------- MODULE OverviewPageProofs ---------------------------
(* Proofs about OverviewPage, for any monitors, ranges and numbers of loads.    *)
EXTENDS OverviewPage, FiniteSetTheorems, TLAPS

LEMMA IdleType == Idle \in Request
  BY OverviewAssumption DEF Idle, Request, Blank, Answer, Summaries

LEMMA AskType ==
  ASSUME NEW n \in 1 .. MaxLoads, NEW r \in Ranges
  PROVE  Ask(n, r) \in Request
  BY DEF Ask, Request, Blank, Answer, Summaries

LEMMA InitType == Init => TypeOK
<1> SUFFICES ASSUME Init PROVE TypeOK
  OBVIOUS
<1>1. 1 \in 1 .. MaxLoads
  BY OverviewAssumption
<1>2. requests \in [Slot -> Request]
  BY <1>1, IdleType, AskType, OverviewAssumption DEF Init
<1>3. recent \subseteq Monitor /\ incidents \subseteq Monitor
  BY DEF Init
<1>4. state \in [Monitor -> {"new", "enabled", "paused", "deleted"}] /\ last \in [Monitor -> Status]
  BY DEF Init
<1>5. changes \in 0 .. MaxChanges /\ loads \in 1 .. MaxLoads /\ range \in Ranges /\ data = NoData
  BY <1>1, OverviewAssumption DEF Init
<1>6. {loading, error, alone, steady} \subseteq BOOLEAN
  BY DEF Init
<1>q. QED BY <1>2, <1>3, <1>4, <1>5, <1>6 DEF TypeOK

(* What happens to the monitors.                                                *)
LEMMA FleetType == TypeOK /\ Fleet => TypeOK'
<1> SUFFICES ASSUME TypeOK, NEW m \in Monitor,
                    \/ \E s \in {"up", "down"}, scheduled \in BOOLEAN : StoreResult(m, s, scheduled)
                    \/ DayPasses(m) \/ Create(m) \/ Toggle(m) \/ Delete(m)
             PROVE  TypeOK'
  BY DEF Fleet
<1> USE DEF TypeOK, Change, page, Status
<1>0. changes < MaxChanges => changes + 1 \in 0 .. MaxChanges
  BY OverviewAssumption
<1>1. ASSUME NEW s \in {"up", "down"}, NEW scheduled \in BOOLEAN, StoreResult(m, s, scheduled)
      PROVE  TypeOK'
  <2>1. incidents' \subseteq Monitor
    BY <1>1 DEF StoreResult
  <2>q. QED BY <1>0, <1>1, <2>1 DEF StoreResult
<1>2. CASE DayPasses(m)
  BY <1>0, <1>2 DEF DayPasses
<1>3. CASE Create(m)
  BY <1>0, <1>3 DEF Create
<1>4. CASE Toggle(m)
  BY <1>0, <1>4 DEF Toggle
<1>5. CASE Delete(m)
  BY <1>0, <1>5 DEF Delete
<1>q. QED BY <1>1, <1>2, <1>3, <1>4, <1>5

(* A statement of a request keeps its load and range, keeps it busy, and         *)
(* changes no signal of the page.                                               *)
LEMMA HandleStep ==
  ASSUME TypeOK, NEW s \in Slot, Handle(s)
  PROVE  /\ Busy(s)
         /\ \E r \in Request : /\ Put(s, r)
                               /\ r.phase # "free"
                               /\ r.answer.load = requests[s].answer.load
                               /\ r.answer.range = requests[s].answer.range
<1>t. requests[s] \in Request /\ requests[s].answer \in Answer
  BY DEF TypeOK, Request
<1> USE DEF Request, Answer, Summaries, Status, Failed, Busy
<1>1. CASE CountMonitors(s)
  <2> DEFINE r == [requests[s] EXCEPT !.phase = "counted", !.answer.any = \E m \in Monitor : Exists(m)]
  <2>1. r \in Request /\ r.phase = "counted"
        /\ r.answer.load = requests[s].answer.load /\ r.answer.range = requests[s].answer.range
    BY <1>t
  <2>2. Put(s, r)
    BY <1>1 DEF CountMonitors
  <2>3. Busy(s)
    BY <1>1 DEF CountMonitors
  <2> HIDE DEF r
  <2>q. QED BY <2>1, <2>2, <2>3
<1>2. CASE CountIncidents(s)
  <2>1. PICK ok \in BOOLEAN : Put(s, [requests[s] EXCEPT !.phase = "listed",
                                        !.todo = {m \in Monitor : Exists(m)},
                                        !.answer.incident = ok /\ incidents # {}])
    BY <1>2 DEF CountIncidents
  <2> DEFINE r == [requests[s] EXCEPT !.phase = "listed", !.todo = {m \in Monitor : Exists(m)},
                                      !.answer.incident = ok /\ incidents # {}]
  <2>2. r \in Request /\ r.phase = "listed"
        /\ r.answer.load = requests[s].answer.load /\ r.answer.range = requests[s].answer.range
    BY <1>t
  <2>3. Busy(s)
    BY <1>2 DEF CountIncidents
  <2> HIDE DEF r
  <2>q. QED BY <2>1, <2>2, <2>3 DEF r
<1>f. ASSUME Busy(s), Put(s, Failed(s))
      PROVE  /\ Busy(s)
             /\ \E r \in Request : /\ Put(s, r)
                                   /\ r.phase # "free"
                                   /\ r.answer.load = requests[s].answer.load
                                   /\ r.answer.range = requests[s].answer.range
  <2>1. Failed(s) \in Request /\ Failed(s).phase = "failed" /\ Failed(s).answer = requests[s].answer
    BY <1>t
  <2> HIDE DEF Failed
  <2>q. QED BY <1>f, <2>1
<1>3. CASE RequestFails(s)
  BY <1>3, <1>f DEF RequestFails
<1>4. ASSUME NEW m \in Monitor, Summarise(s, m)
      PROVE  /\ Busy(s)
             /\ \E r \in Request : /\ Put(s, r)
                                   /\ r.phase # "free"
                                   /\ r.answer.load = requests[s].answer.load
                                   /\ r.answer.range = requests[s].answer.range
  <2>0. SummaryOf(m, requests[s].answer.range) \in Status \cup {"none", "paused"}
    BY DEF SummaryOf, StatusIn, TypeOK
  <2>1. CASE Exists(m)
    <3> DEFINE r == [requests[s] EXCEPT !.todo = @ \ {m},
                       !.answer.monitors[m] = SummaryOf(m, requests[s].answer.range)]
    <3>1. r \in Request /\ r.phase = requests[s].phase
          /\ r.answer.load = requests[s].answer.load /\ r.answer.range = requests[s].answer.range
      BY <1>t, <2>0
    <3>2. Put(s, r) /\ Busy(s)
      BY <1>4, <2>1 DEF Summarise
    <3> HIDE DEF r
    <3>q. QED BY <3>1, <3>2
  <2>2. CASE ~Exists(m)
    <3>1. Put(s, Failed(s)) /\ Busy(s)
      BY <1>4, <2>2 DEF Summarise
    <3>q. QED BY <1>f, <3>1
  <2>q. QED BY <2>1, <2>2
<1>q. QED BY <1>1, <1>2, <1>3, <1>4 DEF Handle

LEMMA HandleType == ASSUME TypeOK, NEW s \in Slot, Handle(s) PROVE TypeOK'
<1>1. PICK r \in Request : Put(s, r)
  BY HandleStep
<1>q. QED BY <1>1 DEF Put, fleet, page, TypeOK

(* Every choice of the user is a load.                                          *)
LEMMA UserLoads == ASSUME TypeOK, NEW s \in Slot, User(s) PROVE \E r \in Ranges : Load(s, r)
  BY DEF User, ChooseRange, Refresh, Retry, TypeOK

LEMMA LoadType == ASSUME TypeOK, NEW s \in Slot, NEW r \in Ranges, Load(s, r) PROVE TypeOK'
<1>1. loads' \in 1 .. MaxLoads
  BY OverviewAssumption DEF Load, TypeOK
<1>2. requests' \in [Slot -> Request]
  BY <1>1, AskType DEF Load, TypeOK
<1>3. loading' \in BOOLEAN /\ error' \in BOOLEAN /\ steady' \in BOOLEAN
  BY DEF Load
<1>4. alone' \in BOOLEAN
  BY Zenon DEF Load, Quiet
<1>q. QED BY <1>1, <1>2, <1>3, <1>4 DEF Load, fleet, TypeOK

LEMMA AnswerType == ASSUME TypeOK, NEW s \in Slot, Shown(s) \/ LoadFails(s) PROVE TypeOK'
<1>1. requests' \in [Slot -> Request]
  BY IdleType DEF Shown, LoadFails, TypeOK
<1>2. data' \in Answer \cup {NoData}
  BY DEF Shown, LoadFails, TypeOK, Request
<1>3. {loading', error', alone', steady'} \subseteq BOOLEAN
  BY DEF Shown, LoadFails, TypeOK
<1>q. QED BY <1>1, <1>2, <1>3 DEF Shown, LoadFails, fleet, TypeOK

LEMMA NextType == TypeOK /\ [Next]_vars => TypeOK'
<1> SUFFICES ASSUME TypeOK, [Next]_vars PROVE TypeOK'
  OBVIOUS
<1>1. CASE UNCHANGED vars
  BY <1>1 DEF vars, fleet, page, TypeOK
<1>q. QED BY <1>1, FleetType, HandleType, UserLoads, LoadType, AnswerType DEF Next

(* Types are kept (Overview of history.go and the signals of the page).         *)
THEOREM TypeCorrect == Spec => []TypeOK
  BY InitType, NextType, PTL DEF Spec

--------------------------------------------------------------------------------
(* The page is never blank.                                                     *)

(* An answer is data; a failure is an error; everything else keeps a request    *)
(* under way or changes neither.                                                *)
LEMMA NextBlank == TypeOK /\ NeverBlank /\ [Next]_vars => NeverBlank'
<1> SUFFICES ASSUME TypeOK, NeverBlank, [Next]_vars, Quiet' PROVE error' \/ data' # NoData
  BY DEF NeverBlank
<1>1. CASE Fleet \/ UNCHANGED vars
  <2>1. UNCHANGED <<requests, error, data>>
    BY <1>1 DEF Fleet, StoreResult, DayPasses, Create, Toggle, Delete, Change, page, vars
  <2>q. QED BY <2>1 DEF NeverBlank, Quiet, Busy
<1>2. ASSUME NEW s \in Slot, User(s) PROVE FALSE
  <2>1. PICK r \in Ranges : Load(s, r)
    BY <1>2, UserLoads
  <2>2. requests'[s].phase = "sent"
    BY <2>1 DEF Load, Ask, TypeOK
  <2>q. QED BY <2>2 DEF Quiet, Busy
<1>3. ASSUME NEW s \in Slot, Handle(s) PROVE FALSE
  <2>1. PICK r \in Request : Put(s, r) /\ r.phase # "free"
    BY <1>3, HandleStep
  <2>q. QED BY <2>1 DEF Put, TypeOK, Quiet, Busy
<1>4. ASSUME NEW s \in Slot, Shown(s) PROVE data' # NoData
  BY <1>4, NoDataAssumption DEF Shown, TypeOK, Request
<1>5. ASSUME NEW s \in Slot, LoadFails(s) PROVE error'
  BY <1>5 DEF LoadFails
<1>q. QED BY <1>1, <1>2, <1>3, <1>4, <1>5 DEF Next

(* In whatever order overlapping loads end, the page shows data or an error     *)
(* when the last of them has ended (the finalize and error handlers of load).   *)
THEOREM NeverLeftBlank == Spec => []NeverBlank
<1>1. Init => NeverBlank
  BY DEF Init, NeverBlank, Quiet, Busy, Ask
<1>q. QED BY <1>1, NextBlank, TypeCorrect, PTL DEF Spec

--------------------------------------------------------------------------------
(* The page waits for the latest load.                                          *)

LEMMA NextLoading == TypeOK /\ LoadingHasRequest /\ [Next]_vars => LoadingHasRequest'
<1> DEFINE Awaited(s) ==
      Busy(s) /\ requests[s].answer.load = loads /\ requests[s].answer.range = range
<1> SUFFICES ASSUME TypeOK, LoadingHasRequest, [Next]_vars, loading'
             PROVE  \E s \in Slot : Awaited(s)'
  BY DEF LoadingHasRequest
<1>1. CASE Fleet \/ UNCHANGED vars
  <2>1. UNCHANGED <<requests, loading, loads, range>>
    BY <1>1 DEF Fleet, StoreResult, DayPasses, Create, Toggle, Delete, Change, page, vars
  <2>q. QED BY <2>1 DEF LoadingHasRequest, Busy
<1>2. ASSUME NEW s \in Slot, User(s) PROVE \E u \in Slot : Awaited(u)'
  <2>1. PICK r \in Ranges : Load(s, r)
    BY <1>2, UserLoads
  <2>2. requests'[s] = Ask(loads', r) /\ range' = r
    BY <2>1 DEF Load, TypeOK
  <2>q. QED BY <2>2 DEF Ask, Blank, Busy
<1>3. ASSUME NEW s \in Slot, Handle(s) PROVE \E u \in Slot : Awaited(u)'
  <2>1. PICK r \in Request : /\ Put(s, r) /\ r.phase # "free"
                             /\ r.answer.load = requests[s].answer.load
                             /\ r.answer.range = requests[s].answer.range
    BY <1>3, HandleStep
  <2>2. UNCHANGED <<loading, loads, range>>
    BY <2>1 DEF Put, page
  <2>3. PICK u \in Slot : Awaited(u)
    BY <2>2 DEF LoadingHasRequest
  <2>4. requests' = [requests EXCEPT ![s] = r]
    BY <2>1 DEF Put
  <2>5. Awaited(u)'
    BY <2>1, <2>2, <2>3, <2>4 DEF TypeOK, Busy
  <2>q. QED BY <2>5
<1>4. ASSUME NEW s \in Slot, Shown(s) \/ LoadFails(s) PROVE FALSE
  BY <1>4 DEF Shown, LoadFails
<1>q. QED BY <1>1, <1>2, <1>3, <1>4 DEF Next

(* However loads overlap, the page never waits for a load that is not under way,  *)
(* and the one it waits for is that of the selected range (load and finalize of  *)
(* overview.component.ts): the safety half of LoadingEnds.                      *)
THEOREM LoadingIsTrue == Spec => []LoadingHasRequest
<1>1. Init => LoadingHasRequest
  BY DEF Init, LoadingHasRequest, Busy, Ask, Blank
<1>q. QED BY <1>1, NextLoading, TypeCorrect, PTL DEF Spec

--------------------------------------------------------------------------------
(* Loads that do not overlap.                                                   *)

(* After a load that began alone the one request under way, or else what it     *)
(* left behind, is of the selected range and of the latest load.                *)
LatestInv ==
    alone =>
        /\ \A s \in Slot : Busy(s) => /\ requests[s].answer.load = loads
                                      /\ requests[s].answer.range = range
                                      /\ \A t \in Slot : Busy(t) => t = s
        /\ Settled => data.load = loads /\ data.range = range

LEMMA NextLatest == TypeOK /\ LatestInv /\ [Next]_vars => LatestInv'
<1> SUFFICES ASSUME TypeOK, LatestInv, [Next]_vars, alone' PROVE LatestInv'
  BY DEF LatestInv
<1> USE DEF Busy, Quiet, Settled
<1>1. CASE Fleet \/ UNCHANGED vars
  <2>1. UNCHANGED <<requests, page, alone>>
    BY <1>1 DEF Fleet, StoreResult, DayPasses, Create, Toggle, Delete, Change, vars
  <2>q. QED BY <2>1 DEF LatestInv, page
<1>2. ASSUME NEW s \in Slot, User(s) PROVE LatestInv'
  <2>1. PICK r \in Ranges : Load(s, r)
    BY <1>2, UserLoads
  <2>2. \A t \in Slot : ~Busy(t)
    BY <2>1 DEF Load
  <2>3. requests' = [requests EXCEPT ![s] = Ask(loads', r)] /\ range' = r
    BY <2>1 DEF Load
  <2>4. Ask(loads', r).phase = "sent" /\ Ask(loads', r).answer.load = loads'
        /\ Ask(loads', r).answer.range = range'
    BY <2>3 DEF Ask, Blank
  <2>5. \A t \in Slot : requests'[t].phase # "free" <=> t = s
    BY <2>2, <2>3, <2>4 DEF TypeOK
  <2>6. requests'[s] = Ask(loads', r)
    BY <2>3 DEF TypeOK
  <2>q. QED BY <2>4, <2>5, <2>6 DEF LatestInv
<1>3. ASSUME NEW s \in Slot, Handle(s) PROVE LatestInv'
  <2>1. PICK r \in Request : /\ Put(s, r) /\ r.phase # "free"
                             /\ r.answer.load = requests[s].answer.load
                             /\ r.answer.range = requests[s].answer.range
    BY <1>3, HandleStep
  <2>2. Busy(s)
    BY <1>3, HandleStep
  <2>3. requests'[s] = r /\ \A t \in Slot \ {s} : requests'[t] = requests[t]
    BY <2>1 DEF Put, TypeOK
  <2>4. UNCHANGED <<data, loading, error, range, loads, alone>>
    BY <2>1 DEF Put, page
  <2>q. QED BY <2>1, <2>2, <2>3, <2>4 DEF LatestInv
<1>4. ASSUME NEW s \in Slot, Shown(s) PROVE LatestInv'
  <2>1. Busy(s) /\ alone
    BY <1>4 DEF Shown
  <2>2. \A t \in Slot : ~(requests'[t].phase # "free")
    BY <1>4, <2>1 DEF Shown, LatestInv, TypeOK, Idle
  <2>3. data'.load = loads' /\ data'.range = range'
    BY <1>4, <2>1 DEF Shown, LatestInv
  <2>q. QED BY <2>2, <2>3 DEF LatestInv
<1>5. ASSUME NEW s \in Slot, LoadFails(s) PROVE LatestInv'
  <2>1. Busy(s) /\ alone
    BY <1>5 DEF LoadFails
  <2>2. \A t \in Slot : ~(requests'[t].phase # "free")
    BY <1>5, <2>1 DEF LoadFails, LatestInv, TypeOK, Idle
  <2>3. error'
    BY <1>5 DEF LoadFails
  <2>q. QED BY <2>2, <2>3 DEF LatestInv
<1>q. QED BY <1>1, <1>2, <1>3, <1>4, <1>5 DEF Next

LEMMA InitLatest == Init => LatestInv
  BY DEF Init, LatestInv, Busy, Settled, Quiet, Ask, Blank, Idle

LEMMA LatestImplies == LatestInv => ShowsLatest
  BY DEF LatestInv, ShowsLatest

(* Unless loads overlapped, the page shows the answer to the latest load under  *)
(* the range it was asked for (load and range of the page).                     *)
THEOREM LatestShown == Spec => []ShowsLatest
  BY InitLatest, NextLatest, LatestImplies, TypeCorrect, PTL DEF Spec

--------------------------------------------------------------------------------
(* The page tells the truth about a fleet that stays as it is.                  *)

SomeMonitor == \E m \in Monitor : Exists(m)
Truthful(v) == /\ v.any = SomeMonitor
           /\ \A m \in Monitor : Exists(m) => v.monitors[m] = SummaryOf(m, v.range)

(* Statement by statement the answer of a request that began alone comes to say *)
(* what is stored, as long as nothing happens to the monitors.                  *)
TrueInv ==
    alone /\ steady =>
        /\ \A s \in Slot :
             LET q == requests[s]
             IN  /\ q.phase \in {"counted", "listed"} => q.answer.any = SomeMonitor
                 /\ q.phase = "listed" =>
                      \A m \in Monitor : Exists(m) =>
                          m \in q.todo \/ q.answer.monitors[m] = SummaryOf(m, q.answer.range)
        /\ Settled => Truthful(data)

LEMMA InitTrue == Init => TrueInv
  BY DEF Init, TrueInv, Settled, Ask, Idle

(* What a statement of s leaves for the others.                                 *)
LEMMA TruePut ==
  ASSUME TypeOK, TrueInv, NEW s \in Slot, NEW r \in Request, Put(s, r), r.phase # "free",
         alone /\ steady /\ r.phase \in {"counted", "listed"} => r.answer.any = SomeMonitor,
         alone /\ steady /\ r.phase = "listed" =>
            \A m \in Monitor : Exists(m) =>
                m \in r.todo \/ r.answer.monitors[m] = SummaryOf(m, r.answer.range)
  PROVE  TrueInv'
<1>1. requests'[s] = r /\ \A t \in Slot \ {s} : requests'[t] = requests[t]
  BY DEF Put, TypeOK
<1>2. UNCHANGED <<fleet, page, alone, steady>>
  BY DEF Put
<1>3. ~Settled'
  BY <1>1 DEF Settled, Quiet, Busy
<1>4. SomeMonitor' = SomeMonitor /\ \A m \in Monitor : Exists(m)' = Exists(m)
  BY <1>2 DEF SomeMonitor, Exists, fleet
<1>5. \A m \in Monitor, q \in Ranges : SummaryOf(m, q)' = SummaryOf(m, q)
  BY <1>2 DEF SummaryOf, StatusIn, fleet
<1>6. \A t \in Slot : requests'[t].answer.range \in Ranges
  BY <1>1 DEF TypeOK, Request, Answer
<1>7. alone' = alone /\ steady' = steady
  BY <1>2
<1>q. QED BY <1>1, <1>3, <1>4, <1>5, <1>6, <1>7 DEF TrueInv

LEMMA TrueHandle == ASSUME TypeOK, TrueInv, NEW s \in Slot, Handle(s) PROVE TrueInv'
<1>t. requests[s] \in Request
  BY DEF TypeOK
<1> USE DEF Request, Answer, Summaries
<1>f. ASSUME Put(s, Failed(s)) PROVE TrueInv'
  <2>1. Failed(s) \in Request /\ Failed(s).phase = "failed"
    BY <1>t DEF Failed
  <2> HIDE DEF Request
  <2>q. QED BY <1>f, <2>1, TruePut
<1>1. CASE CountMonitors(s)
  <2> DEFINE r == [requests[s] EXCEPT !.phase = "counted", !.answer.any = \E m \in Monitor : Exists(m)]
  <2>1. r \in Request /\ r.phase = "counted"
    BY <1>t
  <2>2. r.answer.any = SomeMonitor
    BY <1>t DEF SomeMonitor
  <2>3. Put(s, r)
    BY <1>1 DEF CountMonitors
  <2> HIDE DEF r, Request
  <2>q. QED BY <2>1, <2>2, <2>3, TruePut
<1>2. CASE CountIncidents(s)
  <2>1. PICK ok \in BOOLEAN : Put(s, [requests[s] EXCEPT !.phase = "listed",
                                        !.todo = {m \in Monitor : Exists(m)},
                                        !.answer.incident = ok /\ incidents # {}])
    BY <1>2 DEF CountIncidents
  <2> DEFINE r == [requests[s] EXCEPT !.phase = "listed", !.todo = {m \in Monitor : Exists(m)},
                                      !.answer.incident = ok /\ incidents # {}]
  <2>2. r \in Request /\ r.phase = "listed" /\ r.todo = {m \in Monitor : Exists(m)}
        /\ r.answer.any = requests[s].answer.any
    BY <1>t
  <2>3. requests[s].phase = "counted"
    BY <1>2 DEF CountIncidents
  <2>4. alone /\ steady => requests[s].answer.any = SomeMonitor
    BY <2>3 DEF TrueInv
  <2>5. Put(s, r)
    BY <2>1
  <2> HIDE DEF r, Request
  <2>q. QED BY <2>2, <2>4, <2>5, TruePut
<1>3. CASE RequestFails(s)
  BY <1>3, <1>f DEF RequestFails
<1>4. ASSUME NEW m \in Monitor, Summarise(s, m) PROVE TrueInv'
  <2>1. CASE ~Exists(m)
    BY <1>4, <1>f, <2>1 DEF Summarise
  <2>2. CASE Exists(m)
    <3> DEFINE q == requests[s]
               sum == SummaryOf(m, q.answer.range)
               r == [q EXCEPT !.todo = @ \ {m}, !.answer.monitors[m] = sum]
    <3>1. sum \in Status \cup {"none", "paused"}
      BY DEF SummaryOf, StatusIn, TypeOK, Status
    <3>2. /\ r \in Request /\ r.phase = q.phase /\ r.todo = q.todo \ {m}
          /\ r.answer.any = q.answer.any /\ r.answer.range = q.answer.range
          /\ r.answer.monitors = [q.answer.monitors EXCEPT ![m] = sum]
      BY <1>t, <3>1
    <3>3. q.phase = "listed" /\ Put(s, r)
      BY <1>4, <2>2 DEF Summarise
    <3>4. q.answer.monitors \in [Monitor -> Status \cup {"none", "paused"}]
      BY <1>t
    <3>5. alone /\ steady => q.answer.any = SomeMonitor
      BY <3>3 DEF TrueInv
    <3>6. alone /\ steady => \A n \in Monitor : Exists(n) =>
             n \in q.todo \/ q.answer.monitors[n] = SummaryOf(n, q.answer.range)
      BY <3>3 DEF TrueInv
    <3>7. alone /\ steady => \A n \in Monitor : Exists(n) =>
             n \in r.todo \/ r.answer.monitors[n] = SummaryOf(n, r.answer.range)
      <4> HIDE DEF r, Request
      <4>q. QED BY <3>2, <3>4, <3>6
    <3> HIDE DEF r, Request
    <3>q. QED BY <3>2, <3>3, <3>5, <3>7, TruePut
  <2>q. QED BY <2>1, <2>2
<1>q. QED BY <1>1, <1>2, <1>3, <1>4 DEF Handle

LEMMA NextTrue == TypeOK /\ TrueInv /\ LatestInv /\ [Next]_vars => TrueInv'
<1> SUFFICES ASSUME TypeOK, TrueInv, LatestInv, [Next]_vars, alone', steady' PROVE TrueInv'
  BY DEF TrueInv
<1> USE DEF Busy, Quiet, Settled
<1>1. CASE UNCHANGED vars
  <2>1. SomeMonitor' = SomeMonitor /\ \A m \in Monitor : Exists(m)' = Exists(m)
    BY <1>1 DEF SomeMonitor, Exists, vars, fleet
  <2>2. \A m \in Monitor, q \in Ranges : SummaryOf(m, q)' = SummaryOf(m, q)
    BY <1>1 DEF SummaryOf, StatusIn, vars, fleet
  <2>3. \A t \in Slot : requests[t].answer.range \in Ranges
    BY DEF TypeOK, Request, Answer
  <2>4. Settled => data.range \in Ranges
    BY DEF TypeOK, Answer
  <2>5. UNCHANGED <<requests, data, error, alone, steady>>
    BY <1>1 DEF vars, page
  <2>q. QED BY <2>1, <2>2, <2>3, <2>4, <2>5 DEF TrueInv, Truthful
<1>2. CASE Fleet
  BY <1>2 DEF Fleet, StoreResult, DayPasses, Create, Toggle, Delete, Change
<1>3. ASSUME NEW s \in Slot, User(s) PROVE TrueInv'
  <2>1. PICK r \in Ranges : Load(s, r)
    BY <1>3, UserLoads
  <2>2. \A t \in Slot : requests[t].phase = "free"
    BY <2>1 DEF Load
  <2>3. requests' = [requests EXCEPT ![s] = Ask(loads', r)]
    BY <2>1 DEF Load
  <2>4. \A t \in Slot : requests'[t].phase \in {"free", "sent"}
    BY <2>2, <2>3 DEF TypeOK, Ask
  <2>5. requests'[s].phase = "sent"
    BY <2>3 DEF TypeOK, Ask
  <2>q. QED BY <2>4, <2>5 DEF TrueInv
<1>4. ASSUME NEW s \in Slot, Handle(s) PROVE TrueInv'
  BY <1>4, TrueHandle
<1>5. ASSUME NEW s \in Slot, Shown(s) \/ LoadFails(s) PROVE TrueInv'
  <2>1. UNCHANGED <<state, last, recent, alone, steady>>
    BY <1>5 DEF Shown, LoadFails, fleet
  <2>2. SomeMonitor' = SomeMonitor /\ \A m \in Monitor : Exists(m)' = Exists(m)
    BY <2>1 DEF SomeMonitor, Exists
  <2>3. \A m \in Monitor, q \in Ranges : SummaryOf(m, q)' = SummaryOf(m, q)
    BY <2>1 DEF SummaryOf, StatusIn
  <2>4. Busy(s)
    BY <1>5 DEF Shown, LoadFails
  <2>5. \A t \in Slot : requests'[t].phase = "free"
    <3>1. requests' = [requests EXCEPT ![s] = Idle]
      BY <1>5 DEF Shown, LoadFails
    <3>2. \A t \in Slot : Busy(t) => t = s
      BY <2>1, <2>4 DEF LatestInv
    <3>q. QED BY <3>1, <3>2 DEF TypeOK, Idle
  <2>6. CASE LoadFails(s)
    BY <2>5, <2>6 DEF LoadFails, TrueInv
  <2>7. CASE Shown(s)
    <3>1. Truthful(requests[s].answer)
      BY <2>1, <2>7 DEF Shown, TrueInv, Truthful
    <3>2. data' = requests[s].answer
      BY <2>7 DEF Shown
    <3>3. data'.range \in Ranges
      BY <3>2 DEF TypeOK, Request, Answer
    <3>4. Truthful(data)'
      BY <2>2, <2>3, <3>1, <3>2, <3>3 DEF Truthful
    <3>q. QED BY <2>5, <3>4 DEF TrueInv
  <2>q. QED BY <1>5, <2>6, <2>7
<1>q. QED BY <1>1, <1>2, <1>3, <1>4, <1>5 DEF Next

LEMMA TrueImplies == TypeOK /\ TrueInv /\ LatestInv => HealthyIsTrue
<1> SUFFICES ASSUME TypeOK, TrueInv, LatestInv, Settled, alone, steady,
                    ~data.any \/ FleetState(data) = "up",
                    NEW m \in Monitor, state[m] = "enabled"
             PROVE  StatusIn(m, range) # "down"
  BY DEF HealthyIsTrue
<1>1. Truthful(data) /\ data.range = range
  BY DEF TrueInv, LatestInv
<1>2. Exists(m)
  BY DEF Exists
<1>3. data.any /\ data.monitors[m] = SummaryOf(m, range)
  BY <1>1, <1>2 DEF Truthful, SomeMonitor
<1>4. SummaryOf(m, range) = StatusIn(m, range)
  BY DEF SummaryOf
<1>5. Down(data) = {}
  BY <1>3 DEF FleetState
<1>q. QED BY <1>3, <1>4, <1>5 DEF Down

(* "All reporting websites are healthy" is true whenever a load began alone and *)
(* nothing happened to the fleet since, although the answer comes from many      *)
(* statements and the count of incidents may have failed (fleetState, Overview).*)
THEOREM HealthyHolds == Spec => []HealthyIsTrue
  BY InitTrue, NextTrue, InitLatest, NextLatest, TrueImplies, TypeCorrect, PTL DEF Spec

--------------------------------------------------------------------------------
(* The priority queue.                                                          *)

(* Failing monitors come before all others, so what a full queue leaves out when *)
(* a failing monitor is left out is only more of them.                          *)
LEMMA QueueOrder ==
  ASSUME IsFiniteSet(Monitor), NEW v, NEW Q \in Queues(v)
  PROVE  Down(v) \subseteq Q \/ (Q # {} /\ Q \subseteq Down(v))
<1> DEFINE unwell == {m \in Monitor : v.monitors[m] \in {"down", "pending"}}
<1>0. /\ Q \subseteq unwell
      /\ Cardinality(Q) = IF Cardinality(unwell) < Attention THEN Cardinality(unwell) ELSE Attention
      /\ \A m \in Q, n \in unwell \ Q : Rank(v, m) <= Rank(v, n)
  BY DEF Queues
<1>1. IsFiniteSet(unwell) /\ IsFiniteSet(Q)
  BY <1>0, FS_Subset
<1>2. Cardinality(unwell) \in Nat /\ Cardinality(Q) \in Nat
  BY <1>1, FS_CardinalityType
<1>3. SUFFICES ASSUME NEW d \in Down(v) \ Q PROVE Q # {} /\ Q \subseteq Down(v)
  OBVIOUS
<1>4. d \in unwell \ Q /\ Rank(v, d) = 0
  BY DEF Down, Rank
<1>5. Cardinality(Q) = Attention
  <2>1. Cardinality(Q) < Cardinality(unwell)
    BY <1>0, <1>1, <1>2, <1>4, FS_Subset
  <2>q. QED BY <1>0, <1>2, <2>1, OverviewAssumption
<1>6. Q # {}
  BY <1>5, FS_EmptySet, OverviewAssumption
<1>7. ASSUME NEW m \in Q PROVE m \in Down(v)
  <2>1. Rank(v, m) <= 0
    BY <1>0, <1>4
  <2>2. v.monitors[m] \in {"down", "pending"} /\ m \in Monitor
    BY <1>0
  <2>q. QED BY <2>1, <2>2 DEF Rank, Down
<1>q. QED BY <1>6, <1>7

(* The queue hides a failing monitor only behind failing ones, and says that     *)
(* there are none only if there are none, whatever the size of the fleet and the *)
(* length of the queue (attention of overview.component.ts).                    *)
THEOREM QueueHolds == ASSUME IsFiniteSet(Monitor) PROVE Spec => []QueueShowsFailures
<1>1. QueueShowsFailures
  BY QueueOrder DEF QueueShowsFailures
<1>q. QED BY <1>1, PTL
===============================================================================
