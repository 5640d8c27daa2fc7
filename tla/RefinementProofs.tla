--------------------------- MODULE RefinementProofs ---------------------------
(* Every step of Scheduler is a step of IncidentLifecycle or leaves its          *)
(* variables alone, and stores a result as the statements of CreateTx do, for    *)
(* every instance whose replicas keep their sessions.                           *)
EXTENDS IncidentProofs, FiniteSetTheorems

--------------------------------------------------------------------------------
(* The streak of a set of results.                                              *)

(* A success that is newer than everything ends the streak.                     *)
LEMMA StreakEnds ==
    ASSUME NEW S, NEW c, \A z \in S \cup {c} : z.at \in Int, \A z \in S : z.at < c.at,
           c.status = "up"
    PROVE  ~TwoDown(S \cup {c}) /\ Streak(S \cup {c}) = 0
<1> DEFINE T == S \cup {c}
<1>1. c \in T /\ \A z \in T \ {c} : z.at < c.at
  OBVIOUS
<1>2. ~TwoDown(T)
  <2> SUFFICES ASSUME TwoDown(T) PROVE FALSE
    OBVIOUS
  <2>1. PICK x \in T, y \in T : NewestTwo(T, x, y) /\ x.status = "down"
    BY DEF TwoDown
  <2>2. x = c
    BY <1>1, <2>1, NewestIsNew
  <2> QED
    BY <2>1, <2>2
<1>3. ASSUME NEW x \in T, x.status = "down", \A y \in T : y.at <= x.at PROVE FALSE
  <2>1. x \in S /\ c.at <= x.at
    BY <1>1, <1>3
  <2> QED
    BY <2>1
<1> QED
  BY <1>2, <1>3 DEF Streak

(* A failure that is newer than everything makes a streak of one of none.        *)
LEMMA StreakBegins ==
    ASSUME NEW S, NEW c, \A z \in S \cup {c} : z.at \in Int, \A z \in S : z.at < c.at,
           c.status = "down", Streak(S) = 0
    PROVE  ~TwoDown(S \cup {c}) /\ Streak(S \cup {c}) = 1
<1> DEFINE T == S \cup {c}
<1>1. c \in T /\ \A z \in T \ {c} : z.at < c.at
  OBVIOUS
<1>2. ~ \E x \in S : x.status = "down" /\ \A y \in S : y.at <= x.at
  BY DEF Streak
<1>3. ~TwoDown(T)
  <2> SUFFICES ASSUME TwoDown(T) PROVE FALSE
    OBVIOUS
  <2>1. PICK x \in T, y \in T : NewestTwo(T, x, y) /\ y.status = "down"
    BY DEF TwoDown
  <2>2. x = c /\ y # c /\ y \in S
    BY <1>1, <2>1, NewestIsNew
  <2>3. \A z \in S : z = y \/ z.at < y.at
    BY <2>1, <2>2 DEF NewestTwo
  <2>4. \A z \in S : z.at <= y.at
    BY <2>2, <2>3
  <2> QED
    BY <1>2, <2>1, <2>2, <2>4
<1>4. \A y \in T : y.at <= c.at
  OBVIOUS
<1> QED
  BY <1>1, <1>3, <1>4 DEF Streak

(* A failure that is newer than everything makes two of one or more.             *)
LEMMA StreakGrows ==
    ASSUME NEW S, NEW c, \A z \in S \cup {c} : z.at \in Int, \A z \in S : z.at < c.at,
           \A x, y \in S : x.at = y.at => x = y,
           c.status = "down", Streak(S) # 0
    PROVE  TwoDown(S \cup {c}) /\ Streak(S \cup {c}) = 2
<1> DEFINE T == S \cup {c}
<1>1. PICK y \in S : y.status = "down" /\ \A z \in S : z.at <= y.at
  <2>1. CASE TwoDown(S)
    <3>1. PICK x \in S, w \in S : NewestTwo(S, x, w) /\ x.status = "down"
      BY <2>1 DEF TwoDown
    <3>2. \A z \in S : z.at <= x.at
      BY <3>1 DEF NewestTwo
    <3> QED
      BY <3>1, <3>2
  <2>2. CASE ~TwoDown(S)
    BY <2>2 DEF Streak
  <2> QED
    BY <2>1, <2>2
<1>2. NewestTwo(T, c, y)
  <2>1. \A z \in S \ {y} : z.at < y.at
    BY <1>1
  <2> QED
    BY <1>1, <2>1 DEF NewestTwo
<1>3. TwoDown(T)
  BY <1>1, <1>2 DEF TwoDown
<1> QED
  BY <1>3 DEF Streak

(* Retention never makes a streak longer.                                       *)
LEMMA StreakForgotten ==
    ASSUME NEW S, NEW cutoff \in Int, \A z \in S : z.at \in Int
    PROVE  Streak({z \in S : z.at >= cutoff}) <= Streak(S)
<1> DEFINE T == {z \in S : z.at >= cutoff}
<1>1. TwoDown(T) => TwoDown(S)
  BY SuffixTwoDown
<1>2. ASSUME NEW x \in T, x.status = "down", \A y \in T : y.at <= x.at
      PROVE  \E u \in S : u.status = "down" /\ \A y \in S : y.at <= u.at
  <2>1. ASSUME NEW y \in S PROVE y.at <= x.at
    <3>1. x.at >= cutoff /\ x.at \in Int /\ y.at \in Int
      OBVIOUS
    <3> QED
      BY <1>2, <3>1
  <2> QED
    BY <1>2, <2>1
<1> HIDE DEF T
<1>3. Streak(T) <= Streak(S)
  <2>1. CASE TwoDown(S)
    BY <2>1 DEF Streak
  <2>2. CASE ~TwoDown(S) /\ \E u \in S : u.status = "down" /\ \A y \in S : y.at <= u.at
    BY <1>1, <2>2 DEF Streak
  <2>3. CASE ~TwoDown(T) /\ ~ \E x \in T : x.status = "down" /\ \A y \in T : y.at <= x.at
    BY <2>3 DEF Streak
  <2> QED
    BY <1>1, <1>2, <2>1, <2>2, <2>3
<1> QED
  BY <1>3 DEF T

LEMMA StreakType == \A S : Streak(S) \in 0 .. 2
BY DEF Streak

--------------------------------------------------------------------------------
(* The number of incidents of a monitor.                                        *)

Of(m) == {i \in incidents : i.mon = m}

(* There are finitely many: an incident is made of four times.                  *)
LEMMA FinitelyMany ==
    ASSUME StoreTypeOK, NEW m \in Monitor
    PROVE  IsFiniteSet(Of(m))
<1> DEFINE Span == Time \cup {NULL}
           Pairs == Span \X Span
           f == [i \in Of(m) |-> <<<<i.first, i.last>>, <<i.opened, i.resolved>>>>]
<1>1. IsFiniteSet(Time)
  <2>1. 0 \in Int /\ MaxTime \in Int
    BY StoreAssumption
  <2> QED
    BY <2>1, FS_Interval, Zenon DEF Time
<1>2. IsFiniteSet(Span)
  BY <1>1, FS_AddElement
<1>3. IsFiniteSet(Pairs)
  BY <1>2, FS_Product
<1> HIDE DEF Span
<1>4. IsFiniteSet(Pairs \X Pairs)
  <2> HIDE DEF Pairs
  <2> QED
    BY <1>3, FS_Product
<1>5. \A i \in Of(m) : i \in Incident /\ i.mon = m
  BY DEF Of, StoreTypeOK
<1>6. \A i \in Of(m) : i.first \in Span /\ i.last \in Span /\ i.opened \in Span /\ i.resolved \in Span
  BY <1>5 DEF Incident, Span
<1>7. f \in [Of(m) -> Pairs \X Pairs]
  BY <1>6
<1>8. ASSUME NEW i \in Of(m), NEW j \in Of(m), f[i] = f[j] PROVE i = j
  <2>1. i.first = j.first /\ i.last = j.last /\ i.opened = j.opened /\ i.resolved = j.resolved
    BY <1>8
  <2>2. i.mon = j.mon /\ i \in Incident /\ j \in Incident
    BY <1>5
  <2> QED
    BY <2>1, <2>2 DEF Incident
<1> HIDE DEF f, Pairs
<1>9. f \in Injection(Of(m), Pairs \X Pairs)
  BY <1>7, <1>8 DEF Injection, IsInjective
<1> QED
  BY <1>4, <1>9, FS_Injection

(* Rewriting the active row neither adds nor removes one, and moves none to      *)
(* another monitor.                                                             *)
LEMMA RewriteCounts ==
    ASSUME StoreTypeOK, IncidentTimeline, NEW c, Fresh(c), Resolves(c) \/ Extends(c)
    PROVE  \A m \in Monitor : Cardinality(Of(m)') = Cardinality(Of(m))
<1> SUFFICES ASSUME NEW m \in Monitor
             PROVE  Cardinality(Of(m)') = Cardinality(Of(m))
  OBVIOUS
<1> DEFINE g(k) == IF k \in Active(c.mon)
                   THEN IF c.status = "up" THEN [k EXCEPT !.resolved = c.at]
                                           ELSE [k EXCEPT !.last = c.at]
                   ELSE k
           f == [k \in Of(m) |-> g(k)]
<1>1. incidents' = {g(k) : k \in incidents}
  BY DEF Resolves, Extends, Resolve
<1>2. ASSUME NEW k \in incidents
      PROVE  /\ g(k).mon = k.mon
             /\ g(k).first = k.first
  <2>1. k \in Incident
    BY DEF StoreTypeOK
  <2> QED
    BY <2>1 DEF Incident, Active, IsActive
<1>3. ASSUME NEW k \in Of(m), NEW n \in Of(m), g(k) = g(n) PROVE k = n
  <2> SUFFICES ASSUME k # n PROVE FALSE
    OBVIOUS
  <2>1. k \in incidents /\ n \in incidents /\ k.mon = m /\ n.mon = m
    BY DEF Of
  <2>2. k.first = n.first
    BY <1>2, <1>3, <2>1
  <2>3. Before(k, n) \/ Before(n, k)
    BY <2>1 DEF IncidentTimeline
  <2>4. /\ k.resolved # NULL => k.first < k.resolved
        /\ n.resolved # NULL => n.first < n.resolved
        /\ k.resolved \in Int /\ n.resolved \in Int /\ k.first \in Int /\ n.first \in Int
    <3>1. \A i \in incidents : /\ i.first \in Int /\ i.opened \in Int /\ i.last \in Int
                               /\ i.resolved \in Int
      BY DEF StoreTypeOK, Incident, Time, NULL
    <3>2. \A i \in incidents : /\ i.first < i.opened /\ i.opened <= i.last
                               /\ i.resolved # NULL => i.last < i.resolved
      BY DEF IncidentTimeline
    <3> QED
      BY <2>1, <3>1, <3>2
  <2> QED
    BY <2>2, <2>3, <2>4 DEF Before
<1>4. Of(m)' = {g(k) : k \in Of(m)}
  BY <1>1, <1>2 DEF Of
<1> HIDE DEF g
<1>5. f \in [Of(m) -> Of(m)']
  BY <1>4
<1>6. f \in Bijection(Of(m), Of(m)')
  BY <1>3, <1>4, <1>5 DEF Bijection, Injection, IsInjective, Surjection
<1>7. ExistsBijection(Of(m), Of(m)')
  BY <1>6 DEF ExistsBijection
<1> QED
  BY <1>7, FinitelyMany, FS_Bijection

(* A new incident counts for its monitor only.                                  *)
LEMMA OpenCounts ==
    ASSUME StoreTypeOK, NEW c, Fresh(c), Opens(c), NEW m \in Monitor
    PROVE  Cardinality(Of(m)') = IF m = c.mon THEN Cardinality(Of(m)) + 1 ELSE Cardinality(Of(m))
<1>1. PICK first :
        incidents' = incidents \cup {[mon |-> c.mon, first |-> first, last |-> c.at,
                                      opened |-> c.at, resolved |-> NULL]}
  BY DEF Opens
<1> DEFINE new == [mon |-> c.mon, first |-> first, last |-> c.at,
                   opened |-> c.at, resolved |-> NULL]
<1>2. new.mon = c.mon /\ new.resolved = NULL /\ incidents' = incidents \cup {new}
  BY <1>1
<1> HIDE DEF new
<1>3. new \notin incidents
  BY <1>2 DEF Opens, Active, IsActive
<1>4. CASE m = c.mon
  <2>1. Of(m)' = Of(m) \cup {new} /\ new \notin Of(m)
    BY <1>2, <1>3, <1>4 DEF Of
  <2> QED
    BY <1>4, <2>1, FinitelyMany, FS_AddElement
<1>5. CASE m # c.mon
  <2>1. Of(m)' = Of(m)
    BY <1>2, <1>5 DEF Of
  <2> QED
    BY <1>5, <2>1
<1> QED
  BY <1>4, <1>5

(* Which monitors have an active incident afterwards.                           *)
LEMMA FreshActive ==
    ASSUME StoreTypeOK, NEW c, Fresh(c), NEW m \in Monitor
    PROVE  /\ m # c.mon => (Active(m)' # {} <=> Active(m) # {})
           /\ m = c.mon /\ Resolves(c) => Active(m)' = {}
           /\ m = c.mon /\ (Extends(c) \/ Opens(c)) => Active(m)' # {}
<1>0. c.at # NULL /\ incidents \subseteq Incident
  BY DEF Fresh, Result, Time, NULL, StoreTypeOK
<1>1. ASSUME Resolves(c)
      PROVE  /\ m # c.mon => Active(m)' = Active(m)
             /\ m = c.mon => Active(m)' = {}
  <2>1. incidents' = {IF k \in Active(c.mon) THEN [k EXCEPT !.resolved = c.at] ELSE k : k \in incidents}
    BY <1>1 DEF Resolves, Resolve
  <2>2. \A k \in incidents : [k EXCEPT !.resolved = c.at].mon = k.mon
                              /\ [k EXCEPT !.resolved = c.at].resolved = c.at
    BY <1>0 DEF Incident
  <2> QED
    BY <1>0, <2>1, <2>2 DEF Active, IsActive
<1>2. ASSUME Extends(c)
      PROVE  /\ m # c.mon => Active(m)' = Active(m)
             /\ m = c.mon => Active(m)' # {}
  <2>1. incidents' = {IF k \in Active(c.mon) THEN [k EXCEPT !.last = c.at] ELSE k : k \in incidents}
    BY <1>2 DEF Extends
  <2>2. \A k \in incidents : [k EXCEPT !.last = c.at].mon = k.mon
                              /\ [k EXCEPT !.last = c.at].resolved = k.resolved
    BY <1>0 DEF Incident
  <2>3. Active(c.mon) # {}
    BY <1>2 DEF Extends
  <2>4. m # c.mon => Active(m)' = Active(m)
    BY <2>1, <2>2 DEF Active, IsActive
  <2>5. PICK k \in incidents : k \in Active(c.mon)
    BY <2>3 DEF Active
  <2>6. [k EXCEPT !.last = c.at] \in Active(c.mon)'
    BY <2>1, <2>2, <2>5 DEF Active, IsActive
  <2> QED
    BY <2>4, <2>6
<1>3. ASSUME Opens(c)
      PROVE  /\ m # c.mon => Active(m)' = Active(m)
             /\ m = c.mon => Active(m)' # {}
  <2>1. PICK new : /\ new.mon = c.mon /\ new.resolved = NULL
                   /\ incidents' = incidents \cup {new}
    BY <1>3 DEF Opens
  <2>2. new \in Active(c.mon)'
    BY <2>1 DEF Active, IsActive
  <2>3. m # c.mon => Active(m)' = Active(m)
    BY <2>1 DEF Active
  <2> QED
    BY <2>2, <2>3
<1>4. Ignores(c) => Active(m)' = Active(m)
  BY DEF Ignores, Active
<1>5. m = c.mon /\ Resolves(c) => Active(m)' = {}
  BY <1>1
<1>6. m = c.mon /\ (Extends(c) \/ Opens(c)) => Active(m)' # {}
  BY <1>2, <1>3
<1>7. m # c.mon => Active(m)' = Active(m)
  BY <1>1, <1>2, <1>3, <1>4, FreshCases
<1> QED
  BY <1>5, <1>6, <1>7

--------------------------------------------------------------------------------
(* Steps.                                                                       *)

(* A step that leaves the newest results and the incidents alone.               *)
LEMMA Stutters ==
    ASSUME UNCHANGED incidents, \A m \in Monitor : Scheduled(m)' = Scheduled(m)
    PROVE  UNCHANGED Lifecycle!vars
<1>1. \A m \in Monitor : Active(m)' = Active(m)
  BY DEF Active
<1> QED
  BY <1>1 DEF Lifecycle!vars

(* StoreCheck: a success, a first failure or a further one.                      *)
LEMMA FreshSimulates ==
    ASSUME StoreTypeOK, TablesInv, NEW c, Fresh(c)
    PROVE  Lifecycle!Next
<1> DEFINE S == Scheduled(c.mon)
<1>0. StoreTypeOK /\ DistinctTimes /\ IncidentTimeline /\ c.mon \in Monitor
      /\ c.status \in {"up", "down"}
  BY DEF TablesInv, Fresh, Result
<1>1. /\ S' = S \cup {c}
      /\ \A z \in S \cup {c} : z.at \in Int
      /\ \A z \in S : z.at < c.at
      /\ \A x, y \in S : x.at = y.at => x = y
      /\ \A m \in Monitor : m # c.mon => Scheduled(m)' = Scheduled(m)
  BY <1>0, FreshRows DEF DistinctTimes
<1>2. \A m \in Monitor : m # c.mon => (Active(m)' # {} <=> Active(m) # {})
  BY <1>0, FreshActive
<1> HIDE DEF S
<1>3. CASE c.status = "up"
  <2>1. Streak(S') = 0
    BY <1>1, <1>3, StreakEnds
  <2>2. Resolves(c)
    BY <1>0, <1>3, FreshCases DEF Ignores, Extends, Opens
  <2>3. Active(c.mon)' = {}
    BY <1>0, <2>2, FreshActive
  <2>4. \A m \in Monitor : Cardinality(Of(m)') = Cardinality(Of(m))
    BY <1>0, <2>2, RewriteCounts
  <2>5. Lifecycle!Succeed(c.mon)
    BY <1>0, <1>1, <1>2, <2>1, <2>3, <2>4 DEF Lifecycle!Succeed, S, Of
  <2> QED
    BY <1>0, <2>5 DEF Lifecycle!Next
<1>4. CASE c.status = "down" /\ Streak(S) = 0
  <2>1. ~TwoDown(S \cup {c}) /\ Streak(S') = 1
    BY <1>1, <1>4, StreakBegins
  <2>2. UNCHANGED incidents
    <3>1. incidents' = UpdateIncident(c, results \cup {c})
      BY <1>0, FreshRows
    <3>2. {x \in results \cup {c} : x.mon = c.mon /\ x.source = "scheduled"} = S \cup {c}
      BY <1>0, FreshRows DEF S
    <3> QED
      BY <1>4, <2>1, <3>1, <3>2 DEF UpdateIncident
  <2>3. Lifecycle!FailOnce(c.mon)
    BY <1>0, <1>1, <1>4, <2>1, <2>2 DEF Lifecycle!FailOnce, S, Active
  <2> QED
    BY <1>0, <2>3 DEF Lifecycle!Next
<1>5. CASE c.status = "down" /\ Streak(S) # 0
  <2>1. TwoDown(S \cup {c}) /\ Streak(S') = 2
    BY <1>1, <1>5, StreakGrows
  <2>2. Extends(c) \/ Opens(c)
    BY <1>0, <1>5, <2>1, FreshCases DEF Resolves, Ignores, S
  <2>3. Active(c.mon)' # {}
    BY <1>0, <2>2, FreshActive
  <2>4. Streak(S) >= 1
    BY <1>5, StreakType
  <2>5. \A m \in Monitor :
           Cardinality(Of(m)') = IF m = c.mon /\ Active(c.mon) = {} THEN Cardinality(Of(m)) + 1
                                                                     ELSE Cardinality(Of(m))
    <3>1. CASE Extends(c)
      BY <1>0, <3>1, RewriteCounts DEF Extends
    <3>2. CASE Opens(c)
      BY <1>0, <3>2, OpenCounts DEF Opens
    <3> QED
      BY <2>2, <3>1, <3>2
  <2>6. Lifecycle!FailAgain(c.mon)
    BY <1>0, <1>1, <1>2, <2>1, <2>3, <2>4, <2>5 DEF Lifecycle!FailAgain, S, Of
  <2> QED
    BY <1>0, <2>6 DEF Lifecycle!Next
<1> QED
  BY <1>0, <1>3, <1>4, <1>5

(* Retention, requests and the clock.                                           *)
LEMMA StoreStepSimulates ==
    ASSUME StoreTypeOK, StoreStep
    PROVE  Lifecycle!Next \/ UNCHANGED Lifecycle!vars
<1>1. CASE RunRetention
  <2> DEFINE cutoff == now - Retention
  <2>1. cutoff \in Int /\ \A x \in results : x.at \in Int
    BY StoreAssumption DEF StoreTypeOK, Result, Time
  <2>2. results' = {x \in results : x.at >= cutoff} /\ UNCHANGED incidents
    BY <1>1 DEF RunRetention, DeleteOlderThan
  <2> HIDE DEF cutoff
  <2>3. ASSUME NEW m \in Monitor
        PROVE  Streak(Scheduled(m)') \in 0 .. 2 /\ Streak(Scheduled(m)') <= Streak(Scheduled(m))
    <3>1. Scheduled(m)' = {x \in Scheduled(m) : x.at >= cutoff}
      BY <2>2 DEF Scheduled
    <3>2. \A z \in Scheduled(m) : z.at \in Int
      BY <2>1 DEF Scheduled
    <3> QED
      BY <2>1, <3>1, <3>2, StreakForgotten, StreakType
  <2>4. Lifecycle!Forget
    BY <2>2, <2>3 DEF Lifecycle!Forget, Active
  <2> QED
    BY <2>4 DEF Lifecycle!Next
<1>2. ASSUME NEW d \in Monitor, DeleteMonitor(d)
      PROVE  Lifecycle!Next
  <2>1. /\ results' = {x \in results : x.mon # d}
        /\ incidents' = {i \in incidents : i.mon # d}
    BY <1>2 DEF DeleteMonitor
  <2>2. Scheduled(d)' = {} /\ Active(d)' = {} /\ Of(d)' = {}
    BY <2>1 DEF Scheduled, Active, Of
  <2>3. \A m \in Monitor : m # d => /\ Scheduled(m)' = Scheduled(m) /\ Active(m)' = Active(m)
                                    /\ Of(m)' = Of(m)
    BY <2>1 DEF Scheduled, Active, Of
  <2>4. Streak({}) = 0 /\ Cardinality({}) = 0
    BY FS_EmptySet DEF Streak, TwoDown
  <2>5. Lifecycle!Delete(d)
    BY <2>2, <2>3, <2>4 DEF Lifecycle!Delete, Of
  <2> QED
    BY <2>5 DEF Lifecycle!Next
<1>3. ASSUME NEW m \in Monitor, ManualCheck(m)
      PROVE  UNCHANGED Lifecycle!vars
  <2>1. PICK x : /\ x.source = "manual" /\ results' = results \cup {x}
                 /\ UNCHANGED incidents
    BY <1>3 DEF ManualCheck, CreateCheck
  <2>2. \A n : Scheduled(n)' = Scheduled(n)
    BY <2>1 DEF Scheduled
  <2> QED
    BY <2>1, <2>2, Stutters
<1>4. CASE UNCHANGED <<results, incidents>>
  BY <1>4, Stutters DEF Scheduled
<1> QED
  BY <1>1, <1>2, <1>3, <1>4 DEF StoreStep, Tick, CreateMonitor, UpdateMonitor

(* The scheduler keeps the promise about outages: two failures in a row open one *)
(* incident, further ones keep it, one success closes it, and no crash, restart, *)
(* pause, manual check, lost result or retention moves it (updateIncident).      *)
THEOREM LifecycleImplemented ==
    ASSUME "session" \notin Faults
    PROVE  Spec => ImplementsLifecycle
<1>1. Init => Lifecycle!Init
  <2> SUFFICES ASSUME Init PROVE Lifecycle!Init
    OBVIOUS
  <2>1. \A m \in Monitor : Scheduled(m) = {} /\ Active(m) = {} /\ Of(m) = {}
    BY DEF Init, StoreInit, Scheduled, Active, Of
  <2>2. Streak({}) = 0 /\ Cardinality({}) = 0
    BY FS_EmptySet DEF Streak, TwoDown
  <2> QED
    BY <2>1, <2>2 DEF Lifecycle!Init, Of
<1>2. TypeOK /\ OrderInv /\ IncidentInv /\ [Next]_vars => [Lifecycle!Next]_(Lifecycle!vars)
  <2> SUFFICES ASSUME TypeOK, OrderInv, IncidentInv, [Next]_vars
               PROVE  Lifecycle!Next \/ UNCHANGED Lifecycle!vars
    OBVIOUS
  <2>0. StoreTypeOK /\ TablesInv /\ IncidentsPast
    BY DEF TypeOK, IncidentInv
  <2>1. CASE StoreStep
    BY <2>0, <2>1, StoreStepSimulates
  <2>2. ASSUME NEW r \in Replica, NEW m \in Monitor, StoreCheck(r, m)
        PROVE  Lifecycle!Next
    <3>1. Fresh(Stored(m, job[r][m]))
      BY <2>0, <2>2, StoreCheckFresh
    <3> QED
      BY <2>0, <3>1, FreshSimulates
  <2>3. CASE UNCHANGED <<results, incidents>>
    BY <2>3, Stutters DEF Scheduled
  <2>4. ASSUME NEW r \in Replica, Process(r) PROVE UNCHANGED <<results, incidents>>
    BY <2>0, <2>4, ProcessPast DEF storeVars
  <2>5. ASSUME NEW r \in Replica, NEW m \in Monitor, Work(r, m), ~StoreCheck(r, m)
        PROVE  UNCHANGED <<results, incidents>>
    BY <2>5 DEF Work, TryLock, StartCheck, FinishCheck, StoreFails, Unlock, storeVars
  <2>6. UNCHANGED vars => UNCHANGED <<results, incidents>>
    BY DEF vars, storeVars
  <2> QED
    BY <2>1, <2>2, <2>3, <2>4, <2>5, <2>6 DEF Next
<1> QED
  BY <1>1, <1>2, TypeCorrect, OrderInvariant, IncidentInvariant, PTL
     DEF Spec, ImplementsLifecycle, Lifecycle!Spec

--------------------------------------------------------------------------------
(* Storing a result does what the statements of a call do under the lock.       *)

(* A set of rows that can be counted and ordered by time.                       *)
Dated(Q) ==
    /\ IsFiniteSet(Q)
    /\ \A z \in Q : z.at \in Int
    /\ \A y, z \in Q : y.at = z.at => y = z

LEMMA DatedScheduled ==
    ASSUME StoreTypeOK, DistinctTimes, NEW m \in Monitor
    PROVE  Dated(Scheduled(m))
<1> DEFINE S == Scheduled(m)
           f == [x \in S |-> x.at]
<1>1. \A x \in S : x.at \in Time /\ x.at \in Int
  BY DEF StoreTypeOK, Scheduled, Result, Time
<1>2. \A x, y \in S : x.at = y.at => x = y
  BY DEF DistinctTimes
<1>3. f \in Injection(S, Time)
  BY <1>1, <1>2 DEF Injection, IsInjective
<1>4. IsFiniteSet(Time)
  <2>1. 0 \in Int /\ MaxTime \in Int
    BY StoreAssumption
  <2> QED
    BY <2>1, FS_Interval, Zenon DEF Time
<1> HIDE DEF f
<1>5. IsFiniteSet(S)
  BY <1>3, <1>4, FS_Injection
<1> QED
  BY <1>1, <1>2, <1>5 DEF Dated

(* A set with two elements, and only such a set, is a pair.                      *)
LEMMA Pair ==
    ASSUME NEW D, IsFiniteSet(D)
    PROVE  Cardinality(D) = 2 <=> \E x, y \in D : x # y /\ D = {x, y}
<1>1. ASSUME Cardinality(D) = 2
      PROVE  \E x, y \in D : x # y /\ D = {x, y}
  <2>1. PICK x : x \in D
    BY <1>1, FS_EmptySet
  <2>2. IsFiniteSet(D \ {x}) /\ Cardinality(D \ {x}) = 1
    BY <1>1, <2>1, FS_RemoveElement
  <2>3. PICK y : D \ {x} = {y}
    BY <2>2, FS_Singleton
  <2> QED
    BY <2>1, <2>3
<1>2. ASSUME NEW x \in D, NEW y \in D, x # y, D = {x, y}
      PROVE  Cardinality(D) = 2
  <2>1. IsFiniteSet({x}) /\ Cardinality({x}) = 1
    BY FS_Singleton
  <2>2. Cardinality({x} \cup {y}) = 2
    BY <1>2, <2>1, FS_AddElement
  <2>3. D = {x} \cup {y}
    BY <1>2
  <2> QED
    BY <2>2, <2>3
<1> QED
  BY <1>1, <1>2

(* A row is among the newest two unless two others are newer.                   *)
LEMMA AmongNewestTwo ==
    ASSUME NEW Q, Dated(Q), NEW x \in Q
    PROVE  Cardinality({y \in Q : y.at > x.at}) < 2
             <=> \A y, z \in Q : y.at > x.at /\ z.at > x.at => y = z
<1> DEFINE N == {y \in Q : y.at > x.at}
<1>1. IsFiniteSet(N)
  BY FS_Subset DEF Dated
<1>2. Cardinality(N) \in Nat
  BY <1>1, FS_CardinalityType
<1>3. ASSUME Cardinality(N) < 2, NEW y \in N, NEW z \in N, y # z
      PROVE  FALSE
  <2>1. {y, z} \in SUBSET N
    OBVIOUS
  <2>2. IsFiniteSet({y, z}) /\ Cardinality({y, z}) <= Cardinality(N)
    BY <1>1, <2>1, FS_Subset
  <2>3. Cardinality({y, z}) = 2
    BY <1>3, <2>2, Pair
  <2> QED
    BY <1>2, <1>3, <2>2, <2>3
<1>4. ASSUME \A y, z \in N : y = z
      PROVE  Cardinality(N) < 2
  <2>1. CASE N = {}
    BY <2>1, FS_EmptySet
  <2>2. CASE N # {}
    <3>1. PICK y : N = {y}
      BY <1>4, <2>2
    <3>2. Cardinality({y}) = 1
      BY FS_Singleton
    <3> QED
      BY <3>1, <3>2
  <2> QED
    BY <2>1, <2>2
<1> QED
  BY <1>3, <1>4

(* Counting the failures among the newest two, as the query of a call does, says  *)
(* what TwoDown says.                                                           *)
LEMMA CountIsTwoDown ==
    ASSUME NEW Q, Dated(Q)
    PROVE  LET newest == {x \in Q : Cardinality({y \in Q : y.at > x.at}) < 2}
           IN  Cardinality({x \in newest : x.status = "down"}) = 2 <=> TwoDown(Q)
<1> DEFINE N == {x \in Q : Cardinality({y \in Q : y.at > x.at}) < 2}
           D == {x \in N : x.status = "down"}
<1>1. \A x \in Q : x \in N <=> \A y, z \in Q : y.at > x.at /\ z.at > x.at => y = z
  BY AmongNewestTwo
<1>2. IsFiniteSet(D)
  BY FS_Subset DEF Dated
<1>3. \A x \in D : x \in N /\ x \in Q /\ x.status = "down"
  OBVIOUS
<1>4. \A x \in N : x \in Q /\ (x.status = "down" => x \in D)
  OBVIOUS
<1> HIDE DEF N, D
<1>5. ASSUME NEW x \in D, NEW y \in D, y.at < x.at
      PROVE  NewestTwo(Q, x, y)
  <2>1. ASSUME NEW z \in Q, z # x, z # y PROVE z.at < y.at
    <3>1. ~(z.at > y.at)
      BY <1>1, <1>3, <1>5, <2>1 DEF Dated
    <3>2. z.at # y.at /\ z.at \in Int /\ y.at \in Int
      BY <1>3, <2>1 DEF Dated
    <3> QED
      BY <3>1, <3>2
  <2> QED
    BY <1>3, <1>5, <2>1 DEF NewestTwo
<1>6. ASSUME Cardinality(D) = 2 PROVE TwoDown(Q)
  <2>1. PICK x \in D, y \in D : x # y
    BY <1>2, <1>6, Pair
  <2>2. y.at < x.at \/ x.at < y.at
    BY <1>3, <2>1 DEF Dated
  <2> QED
    BY <1>3, <1>5, <2>2 DEF TwoDown
<1>7. ASSUME TwoDown(Q) PROVE Cardinality(D) = 2
  <2>1. PICK x \in Q, y \in Q : /\ NewestTwo(Q, x, y)
                                /\ x.status = "down" /\ y.status = "down"
    BY <1>7 DEF TwoDown
  <2>2. \A z \in Q : z.at \in Int
    BY DEF Dated
  <2>3. x \in N
    BY <1>1, <2>1, <2>2 DEF NewestTwo
  <2>4. y \in N
    BY <1>1, <2>1, <2>2 DEF NewestTwo
  <2>5. ASSUME NEW z \in D, z # x, z # y PROVE FALSE
    <3>1. x.at > z.at /\ y.at > z.at /\ z \in N /\ z \in Q /\ x # y
      BY <1>3, <2>1, <2>2, <2>5 DEF NewestTwo
    <3> QED
      BY <1>1, <3>1
  <2>6. x # y /\ D = {x, y}
    BY <1>4, <2>1, <2>2, <2>3, <2>4, <2>5 DEF NewestTwo
  <2> QED
    BY <1>2, <2>6, Pair
<1> QED
  BY <1>6, <1>7 DEF D, N

(* A result and an incident as a call of CreateTx knows them.                    *)
AsRow(x) == [at |-> x.at + 1, status |-> x.status, source |-> x.source]
AsCall(i) ==
    [id |-> i.opened + 1, first |-> i.first + 1, last |-> i.last + 1, resolved |-> i.resolved + 1]

LEMMA RowsAndCalls ==
    /\ \A m \in Monitor : CallRows(m) = {AsRow(x) : x \in {x \in results : x.mon = m}}
    /\ \A m \in Monitor : CallIncidents(m) = {AsCall(i) : i \in Of(m)}
BY DEF CallRows, CallIncidents, AsRow, AsCall, Of

(* Moving the times keeps order and number.                                     *)
LEMMA RowsMoved ==
    ASSUME NEW T, Dated(T)
    PROVE  /\ Dated({AsRow(x) : x \in T})
           /\ TwoDown({AsRow(x) : x \in T}) <=> TwoDown(T)
<1> DEFINE Q == {AsRow(x) : x \in T}
           f == [x \in T |-> AsRow(x)]
<1>1. \A x \in T : x.at \in Int /\ AsRow(x).at = x.at + 1 /\ AsRow(x).status = x.status
  BY DEF Dated, AsRow
<1>2. \A z \in Q : \E x \in T : z = AsRow(x)
  OBVIOUS
<1>3. \A x \in T : AsRow(x) \in Q
  OBVIOUS
<1>4. f \in Surjection(T, Q)
  BY DEF Surjection
<1> HIDE DEF Q, f
<1>5. IsFiniteSet(Q)
  BY <1>4, FS_Surjection DEF Dated
<1>6. \A z \in Q : z.at \in Int
  BY <1>1, <1>2
<1>7. \A x, y \in T : x.at = y.at => x = y
  BY DEF Dated
<1>8. ASSUME NEW z \in Q, NEW w \in Q, z.at = w.at PROVE z = w
  <2>1. PICK x \in T, y \in T : z = AsRow(x) /\ w = AsRow(y)
    BY <1>2
  <2>2. x.at = y.at
    BY <1>1, <1>8, <2>1
  <2> QED
    BY <1>7, <2>1, <2>2
<1>9. ASSUME NEW x \in T, NEW y \in T
      PROVE  NewestTwo(Q, AsRow(x), AsRow(y)) <=> NewestTwo(T, x, y)
  <2>1. ASSUME NewestTwo(T, x, y) PROVE NewestTwo(Q, AsRow(x), AsRow(y))
    <3>1. ASSUME NEW z \in Q, z # AsRow(x), z # AsRow(y) PROVE z.at < AsRow(y).at
      <4>1. PICK w \in T : z = AsRow(w)
        BY <1>2
      <4>2. w # x /\ w # y
        BY <3>1, <4>1
      <4>3. w.at < y.at
        BY <2>1, <4>2 DEF NewestTwo
      <4> QED
        BY <1>1, <4>1, <4>3
    <3>2. AsRow(y).at < AsRow(x).at
      BY <1>1, <2>1 DEF NewestTwo
    <3> QED
      BY <1>3, <3>1, <3>2 DEF NewestTwo
  <2>2. ASSUME NewestTwo(Q, AsRow(x), AsRow(y)) PROVE NewestTwo(T, x, y)
    <3>1. ASSUME NEW w \in T, w # x, w # y PROVE w.at < y.at
      <4>1. w.at # x.at /\ w.at # y.at
        BY <1>7, <3>1
      <4>2. AsRow(w).at # AsRow(x).at /\ AsRow(w).at # AsRow(y).at
        BY <1>1, <4>1
      <4>3. AsRow(w) \in Q /\ AsRow(w) # AsRow(x) /\ AsRow(w) # AsRow(y)
        BY <1>3, <4>2
      <4>4. AsRow(w).at < AsRow(y).at
        BY <2>2, <4>3 DEF NewestTwo
      <4> QED
        BY <1>1, <4>4
    <3>2. y.at < x.at
      BY <1>1, <2>2 DEF NewestTwo
    <3> QED
      BY <3>1, <3>2 DEF NewestTwo
  <2> QED
    BY <2>1, <2>2
<1>10. TwoDown(Q) <=> TwoDown(T)
  <2>1. ASSUME TwoDown(T) PROVE TwoDown(Q)
    BY <1>1, <1>3, <1>9, <2>1 DEF TwoDown
  <2>2. ASSUME TwoDown(Q) PROVE TwoDown(T)
    <3>1. PICK z \in Q, w \in Q : /\ NewestTwo(Q, z, w)
                                  /\ z.status = "down" /\ w.status = "down"
      BY <2>2 DEF TwoDown
    <3>2. PICK x \in T, y \in T : z = AsRow(x) /\ w = AsRow(y)
      BY <1>2
    <3> QED
      BY <1>1, <1>9, <3>1, <3>2 DEF TwoDown
  <2> QED
    BY <2>1, <2>2
<1> QED
  BY <1>5, <1>6, <1>8, <1>10 DEF Dated, Q

LEMMA SameCount ==
    ASSUME NEW m, NEW S
    PROVE  Calls(m)!Cardinality(S) = Cardinality(S)
BY DEF Cardinality, Calls!Cardinality

(* The count of a call, in terms of the rows of the store.                      *)
LEMMA CallCounts ==
    ASSUME NEW m \in Monitor, NEW R, NEW T, Dated(T),
           Calls(m)!Scheduled(R) = {AsRow(x) : x \in T}
    PROVE  Calls(m)!TwoDown(R) <=> TwoDown(T)
<1> DEFINE Q == {AsRow(x) : x \in T}
<1>1. Dated(Q) /\ (TwoDown(Q) <=> TwoDown(T))
  BY RowsMoved
<1>2. Calls(m)!TwoDown(R) <=>
        LET newest == {x \in Q : Cardinality({y \in Q : y.at > x.at}) < 2}
        IN  Cardinality({x \in newest : x.status = "down"}) = 2
  <2>1. \A S : Calls(m)!Cardinality(S) = Cardinality(S)
    BY SameCount
  <2>2. Calls(m)!Newest(Q, 2) = {x \in Q : Cardinality({y \in Q : y.at > x.at}) < 2}
    BY <2>1 DEF Calls!Newest
  <2> HIDE DEF Q
  <2>3. Calls(m)!TwoDown(R) <=>
          Cardinality({x \in Calls(m)!Newest(Q, 2) : x.status = "down"}) = 2
    BY <2>1 DEF Calls!TwoDown, Calls!Downs, Q
  <2> QED
    BY <2>2, <2>3
<1> HIDE DEF Q
<1> QED
  BY <1>1, <1>2, CountIsTwoDown

(* What the statements of a call see of the incidents.                          *)
LEMMA CallsActive ==
    ASSUME StoreTypeOK, NEW m \in Monitor
    PROVE  Calls(m)!Active = {AsCall(i) : i \in Active(m)}
<1>1. \A i \in Of(m) : i.resolved \in Int /\ (AsCall(i).resolved = 0 <=> i.resolved = NULL)
  BY DEF Of, StoreTypeOK, Incident, Time, NULL, AsCall
<1>2. CallIncidents(m) = {AsCall(i) : i \in Of(m)}
  BY RowsAndCalls
<1>3. Active(m) = {i \in Of(m) : i.resolved = NULL}
  BY DEF Active, IsActive, Of
<1>4. Calls(m)!Active = {i \in CallIncidents(m) : i.resolved = 0}
  BY DEF Calls!Active, Calls!NULL
<1> HIDE DEF AsCall
<1> QED
  BY <1>1, <1>2, <1>3, <1>4

(* Two incidents of a monitor that look alike to a call are one.                *)
LEMMA CallsDiffer ==
    ASSUME StoreTypeOK, NEW m \in Monitor, NEW i \in Of(m), NEW j \in Of(m),
           AsCall(i) = AsCall(j)
    PROVE  i = j
<1>1. i \in Incident /\ j \in Incident /\ i.mon = m /\ j.mon = m
  BY DEF Of, StoreTypeOK
<1>2. /\ i.opened + 1 = j.opened + 1 /\ i.first + 1 = j.first + 1
      /\ i.last + 1 = j.last + 1 /\ i.resolved + 1 = j.resolved + 1
  BY DEF AsCall
<1>3. \A k \in {i, j} : /\ k.opened \in Int /\ k.first \in Int
                         /\ k.last \in Int /\ k.resolved \in Int
  BY <1>1 DEF Incident, Time, NULL
<1>4. i.opened = j.opened /\ i.first = j.first /\ i.last = j.last /\ i.resolved = j.resolved
  BY <1>2, <1>3
<1> QED
  BY <1>1, <1>4 DEF Incident

(* At most one incident of a monitor is active.                                 *)
LEMMA OneIsActive ==
    ASSUME IncidentTimeline, StoreTypeOK, NEW m \in Monitor, NEW i \in Active(m), NEW j \in Active(m)
    PROVE  i = j
<1> SUFFICES ASSUME i # j PROVE FALSE
  OBVIOUS
<1>1. Before(i, j) \/ Before(j, i)
  BY DEF IncidentTimeline, Active
<1> QED
  BY <1>1 DEF Before, Active, IsActive

(* A row of the store that changes is a row of the call that changes.            *)
LEMMA CallsRewritten ==
    ASSUME StoreTypeOK, NEW m \in Monitor, NEW a \in Of(m), NEW b, b.mon = m,
           incidents' = (incidents \ {a}) \cup {b}
    PROVE  CallIncidents(m)' = (CallIncidents(m) \ {AsCall(a)}) \cup {AsCall(b)}
<1>1. Of(m)' = (Of(m) \ {a}) \cup {b}
  BY DEF Of
<1>2. /\ CallIncidents(m) = {AsCall(i) : i \in Of(m)}
      /\ CallIncidents(m)' = {AsCall(i) : i \in Of(m)'}
  BY DEF CallIncidents, AsCall, Of
<1>3. \A i \in Of(m) : AsCall(i) = AsCall(a) => i = a
  BY CallsDiffer
<1> QED
  BY <1>1, <1>2, <1>3

(* The rows that a call sees once the result is stored.                         *)
LEMMA FreshRowsOfCall ==
    ASSUME StoreTypeOK, TablesInv, NEW s, Fresh(s)
    PROVE  LET T == Scheduled(s.mon) \cup {s}
               R == CallRows(s.mon)'
           IN  /\ Dated(T)
               /\ Calls(s.mon)!Scheduled(R) = {AsRow(x) : x \in T}
               /\ Calls(s.mon)!TwoDown(R) <=> TwoDown(T)
<1> DEFINE m == s.mon
           T == Scheduled(m) \cup {s}
           R == CallRows(m)'
<1>1. m \in Monitor /\ s \in Result
  BY DEF Fresh, Result
<1>2. /\ Scheduled(m)' = T /\ s \notin Scheduled(m)
      /\ \A z \in T : z.at \in Int
      /\ \A z \in Scheduled(m) : z.at < s.at
  BY FreshRows
<1>3. Dated(T)
  <2>1. Dated(Scheduled(m))
    BY <1>1, DatedScheduled DEF TablesInv
  <2>2. IsFiniteSet(T)
    BY <2>1, FS_AddElement DEF Dated
  <2>3. ASSUME NEW y \in T, NEW z \in T, y.at = z.at PROVE y = z
    <3>1. CASE y = s \/ z = s
      <4>1. \A x \in Scheduled(m) : x.at # s.at
        BY <1>2
      <4> QED
        BY <2>3, <3>1, <4>1
    <3>2. CASE y \in Scheduled(m) /\ z \in Scheduled(m)
      BY <2>1, <2>3, <3>2 DEF Dated
    <3> QED
      BY <3>1, <3>2
  <2> QED
    BY <1>2, <2>2, <2>3 DEF Dated
<1>4. Calls(m)!Scheduled(R) = {AsRow(x) : x \in T}
  <2>1. R = {AsRow(x) : x \in {x \in results' : x.mon = m}}
    BY DEF CallRows, AsRow
  <2>2. \A x : AsRow(x).source = x.source
    BY DEF AsRow
  <2>3. Calls(m)!Scheduled(R) = {x \in R : x.source = "scheduled"}
    BY DEF Calls!Scheduled
  <2>4. Scheduled(m)' = {x \in {x \in results' : x.mon = m} : x.source = "scheduled"}
    BY DEF Scheduled
  <2> HIDE DEF R, T
  <2> QED
    BY <1>2, <2>1, <2>2, <2>3, <2>4
<1> HIDE DEF T, R
<1>5. Calls(m)!TwoDown(R) <=> TwoDown(T)
  BY <1>1, <1>3, <1>4, CallCounts
<1> QED
  BY <1>3, <1>4, <1>5 DEF T, R

(* The step that stores a scheduled result is what a call does.                  *)
LEMMA FreshIsCall ==
    ASSUME StoreTypeOK, TablesInv, NEW s, Fresh(s), NEW R, R = CallRows(s.mon)'
    PROVE  Calls(s.mon)!AtOnce(AsRow(s), R)
<1> DEFINE m == s.mon
           c == AsRow(s)
           T == Scheduled(m) \cup {s}
           A == Calls(m)!Active
<1>1. m \in Monitor /\ s.at \in Int /\ s.status \in {"up", "down"} /\ s.source = "scheduled"
  BY DEF Fresh, Result, Time
<1>2. c.at = s.at + 1 /\ c.status = s.status /\ c.source = "scheduled"
  BY <1>1 DEF AsRow
<1>3. Dated(T) /\ Calls(m)!Scheduled(R) = {AsRow(x) : x \in T} /\ (Calls(m)!TwoDown(R) <=> TwoDown(T))
  BY FreshRowsOfCall
<1>4. A = {AsCall(i) : i \in Active(m)}
  BY <1>1, CallsActive
<1>5. \A i \in Active(m) : i \in Of(m) /\ i \in Incident /\ i.mon = m /\ i \in incidents
  BY DEF Active, Of, StoreTypeOK
<1>6. ASSUME NEW a \in Active(m) PROVE Active(m) = {a}
  BY <1>1, OneIsActive DEF TablesInv
<1>7. incidents' = IF s.status = "up" THEN Resolve(s)
                   ELSE IF TwoDown(T) THEN OpenOrExtend(s, T) ELSE incidents
  <2>1. /\ incidents' = UpdateIncident(s, results \cup {s})
        /\ {x \in results \cup {s} : x.mon = s.mon /\ x.source = "scheduled"} = T
    BY FreshRows
  <2> QED
    BY <2>1, Zenon DEF UpdateIncident
<1>8. incidents' = incidents => CallIncidents(m)' = CallIncidents(m)
  BY DEF CallIncidents
<1>0. R = CallRows(m)'
  OBVIOUS
<1> HIDE DEF m, c, T, A
<1>9. CASE s.status = "up" /\ Active(m) = {}
  <2>1. incidents' = incidents
    BY <1>7, <1>9 DEF Resolve, m
  <2>2. A = {}
    BY <1>4, <1>9
  <2> QED
    BY <1>2, <1>8, <1>9, <2>1, <2>2 DEF Calls!AtOnce, m, c, A
<1>10. CASE s.status = "up" /\ Active(m) # {}
  <2>1. PICK a \in Active(m) : TRUE
    BY <1>10
  <2> DEFINE b == [a EXCEPT !.resolved = s.at]
  <2>2. incidents' = (incidents \ {a}) \cup {b}
    BY <1>5, <1>6, <1>7, <1>10, <2>1 DEF Resolve, m
  <2>3. b.mon = m /\ AsCall(b) = [AsCall(a) EXCEPT !.resolved = c.at]
    BY <1>2, <1>5 DEF Incident, AsCall
  <2> HIDE DEF b
  <2>4. CallIncidents(m)' = (CallIncidents(m) \ {AsCall(a)})
                              \cup {[AsCall(a) EXCEPT !.resolved = c.at]}
    BY <1>1, <1>5, <2>2, <2>3, CallsRewritten
  <2>5. AsCall(a) \in A /\ A # {}
    BY <1>4
  <2> QED
    BY <1>2, <1>10, <2>4, <2>5 DEF Calls!AtOnce, m, c, A
<1>11. CASE s.status = "down" /\ ~TwoDown(T)
  BY <1>2, <1>3, <1>7, <1>8, <1>11 DEF Calls!AtOnce, m, c, A
<1>12. CASE s.status = "down" /\ TwoDown(T) /\ Active(m) # {}
  <2>1. PICK a \in Active(m) : TRUE
    BY <1>12
  <2> DEFINE b == [a EXCEPT !.last = s.at]
  <2>2. incidents' = (incidents \ {a}) \cup {b}
    BY <1>5, <1>6, <1>7, <1>12, <2>1 DEF OpenOrExtend, m
  <2>3. b.mon = m /\ AsCall(b) = [AsCall(a) EXCEPT !.last = c.at]
    BY <1>2, <1>5 DEF Incident, AsCall
  <2> HIDE DEF b
  <2>4. CallIncidents(m)' = (CallIncidents(m) \ {AsCall(a)})
                              \cup {[AsCall(a) EXCEPT !.last = c.at]}
    BY <1>1, <1>5, <2>2, <2>3, CallsRewritten
  <2>5. AsCall(a) \in A /\ A # {}
    BY <1>4
  <2> QED
    BY <1>2, <1>3, <1>12, <2>4, <2>5 DEF Calls!AtOnce, m, c, A
<1>13. CASE s.status = "down" /\ TwoDown(T) /\ Active(m) = {}
  <2>1. Opens(s)
    BY <1>7, <1>13, FreshCases DEF Resolves, Ignores, Extends, m, T
  <2>2. PICK y \in Scheduled(m) :
          /\ \A z \in Scheduled(m) \ {y} : z.at < y.at
          /\ incidents' = incidents \cup {[mon |-> m, first |-> y.at, last |-> s.at,
                                           opened |-> s.at, resolved |-> NULL]}
    BY <2>1 DEF Opens, m
  <2>3. y \in T /\ y.at < s.at /\ \A z \in T : z.at \in Int
    BY <1>3, FreshRows DEF T, m, Dated
  <2> DEFINE new == [mon |-> m, first |-> y.at, last |-> s.at,
                     opened |-> s.at, resolved |-> NULL]
             x == AsRow(y)
             opened == [id |-> c.at, first |-> x.at, last |-> c.at, resolved |-> Calls(m)!NULL]
  <2>4. AsCall(new) = opened
    BY <1>2 DEF AsCall, AsRow, NULL, Calls!NULL
  <2>5. CallIncidents(m)' = CallIncidents(m) \cup {opened}
    <3>1. new.mon = m /\ incidents' = incidents \cup {new}
      BY <2>2
    <3> HIDE DEF new, opened
    <3>2. Of(m)' = Of(m) \cup {new}
      BY <3>1 DEF Of
    <3>3. CallIncidents(m)' = {AsCall(i) : i \in Of(m)'} /\ CallIncidents(m) = {AsCall(i) : i \in Of(m)}
      BY DEF CallIncidents, AsCall, Of
    <3> QED
      BY <2>4, <3>2, <3>3
  <2>6. x # c
    BY <1>1, <1>2, <2>3 DEF AsRow
  <2>7. x \in Calls(m)!Newest(Calls(m)!Scheduled(R), 2)
    <3> DEFINE Q == {AsRow(z) : z \in T}
    <3>1. Dated(Q) /\ x \in Q
      BY <1>3, <2>3, RowsMoved
    <3>2. ASSUME NEW z \in Q, z.at > x.at PROVE z = c
      <4>1. PICK w \in T : z = AsRow(w)
        OBVIOUS
      <4>2. w.at > y.at
        BY <2>3, <3>2, <4>1 DEF AsRow
      <4>3. w = s
        BY <2>2, <2>3, <4>2 DEF T
      <4> QED
        BY <4>1, <4>3 DEF c
    <3> HIDE DEF Q, x
    <3>3. Cardinality({z \in Q : z.at > x.at}) < 2
      BY <3>1, <3>2, AmongNewestTwo
    <3>4. Cardinality({z \in Q : z.at > x.at}) = Calls(m)!Cardinality({z \in Q : z.at > x.at})
      BY SameCount
    <3> QED
      BY <1>3, <3>1, <3>3, <3>4 DEF Calls!Newest, Q
  <2>8. A = {}
    BY <1>4, <1>13
  <2> HIDE DEF x
  <2> QED
    BY <1>0, <1>2, <1>3, <1>13, <2>5, <2>6, <2>7, <2>8 DEF Calls!AtOnce, m, c, A
<1> QED
  BY <1>1, <1>9, <1>10, <1>11, <1>12, <1>13 DEF m, c

(* A row that is new to a call is a result that this step stores.                *)
LEMMA StepIsCall ==
    ASSUME TypeOK, OrderInv, IncidentInv, [Next]_vars, NEW m \in Monitor,
           NEW R, R = CallRows(m)', NEW c \in R \ CallRows(m)
    PROVE  Calls(m)!AtOnce(c, R)
<1>0. StoreTypeOK /\ TablesInv /\ IncidentsPast
  BY DEF TypeOK, IncidentInv
<1>1. PICK x \in results' : x.mon = m /\ c = AsRow(x)
  BY DEF CallRows, AsRow
<1>2. x \notin results
  BY <1>1 DEF CallRows, AsRow
<1>3. ASSUME NEW r \in Replica, NEW n \in Monitor, StoreCheck(r, n)
      PROVE  Calls(m)!AtOnce(c, R)
  <2> DEFINE s == Stored(n, job[r][n])
  <2>1. Fresh(s)
    BY <1>0, <1>3, StoreCheckFresh
  <2>2. results' = results \cup {s}
    BY <1>3 DEF StoreCheck, CreateCheck
  <2>3. x = s
    BY <1>2, <2>2
  <2>4. Fresh(x)
    BY <2>1, <2>3
  <2> HIDE DEF s
  <2>5. \A rows : rows = CallRows(x.mon)' => Calls(x.mon)!AtOnce(AsRow(x), rows)
    BY <1>0, <2>4, FreshIsCall
  <2> QED
    BY <1>1, <2>5
<1>4. ASSUME NEW n \in Monitor, ManualCheck(n)
      PROVE  Calls(m)!AtOnce(c, R)
  <2>1. PICK s : s.source = "manual" /\ results' = results \cup {s} /\ incidents' = incidents
    BY <1>4 DEF ManualCheck, CreateCheck
  <2>2. c.source = "manual"
    BY <1>1, <1>2, <2>1 DEF AsRow
  <2>3. CallIncidents(m)' = CallIncidents(m)
    BY <2>1 DEF CallIncidents
  <2> QED
    BY <2>2, <2>3 DEF Calls!AtOnce
<1>5. CASE results' \subseteq results
  BY <1>2, <1>5
<1>6. ASSUME NEW r \in Replica, Process(r) PROVE results' = results
  BY <1>0, <1>6, ProcessPast DEF storeVars
<1>7. ASSUME NEW r \in Replica, NEW n \in Monitor, Work(r, n), ~StoreCheck(r, n)
      PROVE  results' = results
  BY <1>7 DEF Work, TryLock, StartCheck, FinishCheck, StoreFails, Unlock, storeVars
<1>8. ASSUME StoreStep, \A n \in Monitor : ~ManualCheck(n) PROVE results' \subseteq results
  BY <1>8 DEF StoreStep, RunRetention, DeleteOlderThan, Tick, CreateMonitor, UpdateMonitor, DeleteMonitor
<1>9. UNCHANGED vars => results' = results
  BY DEF vars, storeVars
<1> QED
  BY <1>3, <1>4, <1>5, <1>6, <1>7, <1>8, <1>9 DEF Next

(* Every step that stores a result, of the scheduler or of a user, does to the    *)
(* incidents of its monitor what the statements of PostgresChecks.Create do      *)
(* together under the lock (CreateIsOneStep of CreateTxProofs).                  *)
THEOREM StoresAreCalls ==
    ASSUME "session" \notin Faults
    PROVE  Spec => StoresLikeCalls
<1>1. TypeOK /\ OrderInv /\ IncidentInv /\ [Next]_vars
        => [\A m \in Monitor : \A c \in CallRows(m)' \ CallRows(m) :
              Calls(m)!AtOnce(c, CallRows(m)')]_vars
  BY StepIsCall
<1> QED
  BY <1>1, TypeCorrect, OrderInvariant, IncidentInvariant, PTL DEF Spec, StoresLikeCalls
===============================================================================
