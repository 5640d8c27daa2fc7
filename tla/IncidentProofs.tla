---------------------------- MODULE IncidentProofs ----------------------------
(* Proofs that incidents agree with the stored results and with each other, for *)
(* every instance whose replicas keep their sessions.                           *)
EXTENDS OrderProofs

(* No two scheduled results of a monitor carry the same time.                   *)
DistinctTimes ==
    \A m \in Monitor : \A x, y \in Scheduled(m) : x.at = y.at => x = y

(* A failure that is not newer than the end of an incident is older than the     *)
(* success that ended it, and that success is still stored.                     *)
ResolvedBySuccess ==
    \A i \in incidents : i.resolved # NULL =>
        \A z \in Scheduled(i.mon) : z.status = "down" /\ z.at <= i.resolved =>
            \E u \in Scheduled(i.mon) : u.status = "up" /\ u.at = i.resolved /\ z.at < u.at

TablesInv == DistinctTimes /\ ResolvedBySuccess /\ IncidentTimeline /\ IncidentsAccurate

(* What is written in an incident lies in the past, and before every check of    *)
(* its monitor that runs.                                                       *)
IncidentsPast ==
    \A i \in incidents :
        /\ i.last < now /\ i.resolved < now
        /\ \A r \in Replica : CheckRuns(r, i.mon) =>
              i.last < job[r][i.mon].at /\ i.resolved < job[r][i.mon].at

IncidentInv == TablesInv /\ IncidentsPast

--------------------------------------------------------------------------------
(* A result that is newer than everything known of its monitor.                 *)

(* Only the new row can be the newest of the two.                               *)
LEMMA NewestIsNew ==
    ASSUME NEW S, NEW c \in S, \A z \in S : z.at \in Int,
           \A z \in S \ {c} : z.at < c.at,
           NEW x, NEW y, NewestTwo(S, x, y)
    PROVE  x = c /\ y # c /\ y \in S /\ y.at < c.at
BY DEF NewestTwo

(* What CreateCheck makes of the tables, case by case.                          *)
LEMMA FirstIsSecondNewest ==
    ASSUME NEW S, TwoDown(S)
    PROVE  \E x, y \in S : /\ NewestTwo(S, x, y)
                           /\ y = CHOOSE v \in S : \E w \in S : NewestTwo(S, w, v)
<1> DEFINE y == CHOOSE v \in S : \E w \in S : NewestTwo(S, w, v)
<1>1. \E v \in S : \E w \in S : NewestTwo(S, w, v)
  BY DEF TwoDown
<1>2. y \in S /\ \E w \in S : NewestTwo(S, w, y)
  BY <1>1
<1> QED
  BY <1>2

(* The newest two rows are unique when times are distinct.                      *)
LEMMA NewestTwoUnique ==
    ASSUME NEW S, \A z \in S : z.at \in Int,
           NEW x, NEW y, NewestTwo(S, x, y), NEW v, NEW w, NewestTwo(S, v, w)
    PROVE  x = v /\ y = w
BY DEF NewestTwo

(* The situation in which StoreCheck finds the tables.                          *)
Fresh(c) ==
    /\ c \in Result /\ c.source = "scheduled" /\ CreateCheck(c)
    /\ \A y \in Scheduled(c.mon) : y.at < c.at
    /\ \A i \in incidents : i.mon = c.mon => i.last < c.at /\ i.resolved < c.at

LEMMA FreshRows ==
    ASSUME StoreTypeOK, NEW c, Fresh(c)
    PROVE  /\ Scheduled(c.mon)' = Scheduled(c.mon) \cup {c}
           /\ \A m \in Monitor : m # c.mon => Scheduled(m)' = Scheduled(m)
           /\ {x \in results \cup {c} : x.mon = c.mon /\ x.source = "scheduled"}
                = Scheduled(c.mon) \cup {c}
           /\ c \notin Scheduled(c.mon)
           /\ \A z \in Scheduled(c.mon) \cup {c} : z.at \in Int
           /\ \A z \in Scheduled(c.mon) : z.at < c.at
           /\ incidents' = UpdateIncident(c, results \cup {c})
<1>1. results' = results \cup {c} /\ incidents' = UpdateIncident(c, results \cup {c})
  BY DEF Fresh, CreateCheck
<1>2. \A z \in results \cup {c} : z.at \in Int
  BY DEF Fresh, StoreTypeOK, Result, Time
<1> QED
  BY <1>1, <1>2 DEF Fresh, Scheduled

LEMMA FreshDistinct ==
    ASSUME StoreTypeOK, DistinctTimes, NEW c, Fresh(c)
    PROVE  DistinctTimes'
<1> SUFFICES ASSUME NEW m \in Monitor, NEW x \in Scheduled(m)', NEW y \in Scheduled(m)', x.at = y.at
             PROVE  x = y
  BY DEF DistinctTimes, Scheduled
<1>1. CASE m # c.mon
  <2>1. Scheduled(m)' = Scheduled(m)
    BY <1>1, FreshRows
  <2> QED
    BY <2>1 DEF DistinctTimes
<1>2. CASE m = c.mon
  <2>1. x \in Scheduled(m) \cup {c} /\ y \in Scheduled(m) \cup {c}
    BY <1>2, FreshRows
  <2>2. \A z \in Scheduled(m) : z.at < c.at /\ z.at \in Int
    BY <1>2, FreshRows
  <2>3. c.at \in Int
    BY FreshRows
  <2> QED
    BY <2>1, <2>2, <2>3 DEF DistinctTimes
<1> QED
  BY <1>1, <1>2

(* The four things updateIncident can do with a fresh result.                   *)
Resolves(c) == c.status = "up" /\ incidents' = Resolve(c)
Ignores(c) ==
    /\ c.status = "down" /\ incidents' = incidents
    /\ ~TwoDown(Scheduled(c.mon) \cup {c})
Extends(c) ==
    /\ c.status = "down" /\ Active(c.mon) # {}
    /\ incidents' = {IF i \in Active(c.mon) THEN [i EXCEPT !.last = c.at] ELSE i : i \in incidents}
Opens(c) ==
    /\ c.status = "down" /\ Active(c.mon) = {}
    /\ \E y \in Scheduled(c.mon) :
          /\ y.status = "down" /\ \A z \in Scheduled(c.mon) \ {y} : z.at < y.at
          /\ incidents' = incidents \cup {[mon |-> c.mon, first |-> y.at, last |-> c.at,
                                          opened |-> c.at, resolved |-> NULL]}

LEMMA FreshCases ==
    ASSUME StoreTypeOK, NEW c, Fresh(c)
    PROVE  Resolves(c) \/ Ignores(c) \/ Extends(c) \/ Opens(c)
<1> DEFINE S == Scheduled(c.mon) \cup {c}
<1>1. incidents' = IF c.status = "up" THEN Resolve(c)
                   ELSE IF TwoDown(S) THEN OpenOrExtend(c, S) ELSE incidents
  <2>1. incidents' = UpdateIncident(c, results \cup {c})
    BY FreshRows
  <2>2. {x \in results \cup {c} : x.mon = c.mon /\ x.source = "scheduled"} = S
    BY FreshRows
  <2> QED
    BY <2>1, <2>2, Zenon DEF UpdateIncident
<1>2. c.status \in {"up", "down"}
  BY DEF Fresh, Result
<1>3. ASSUME c.status = "down", TwoDown(S), Active(c.mon) = {}
      PROVE  Opens(c)
  <2>1. PICK x \in S, y \in S : /\ NewestTwo(S, x, y)
                               /\ y = CHOOSE v \in S : \E w \in S : NewestTwo(S, w, v)
    BY <1>3, FirstIsSecondNewest
  <2>2. PICK v \in S, w \in S : NewestTwo(S, v, w) /\ w.status = "down"
    BY <1>3 DEF TwoDown
  <2>3. /\ c \in S /\ c \notin Scheduled(c.mon)
        /\ \A z \in S : z.at \in Int
        /\ \A z \in S \ {c} : z.at < c.at
    BY FreshRows
  <2> HIDE DEF S
  <2>4. x = v /\ y = w
    BY <2>1, <2>2, <2>3, NewestTwoUnique
  <2>5. x = c /\ y # c
    BY <2>1, <2>3, NewestIsNew
  <2>6. y \in Scheduled(c.mon) /\ y.status = "down"
    BY <2>1, <2>2, <2>4, <2>5 DEF S
  <2>7. \A z \in Scheduled(c.mon) \ {y} : z.at < y.at
    BY <2>1, <2>3, <2>5 DEF NewestTwo, S
  <2>8. incidents' = incidents \cup {[mon |-> c.mon, first |-> y.at, last |-> c.at,
                                     opened |-> c.at, resolved |-> NULL]}
    BY <1>1, <1>3, <2>1 DEF OpenOrExtend
  <2> QED
    BY <1>3, <2>6, <2>7, <2>8 DEF Opens
<1>4. ASSUME c.status = "down", TwoDown(S), Active(c.mon) # {}
      PROVE  Extends(c)
  BY <1>1, <1>4 DEF Extends, OpenOrExtend
<1> QED
  BY <1>1, <1>2, <1>3, <1>4 DEF Resolves, Ignores

(* Where a row of the new incident table comes from.                            *)
LEMMA RowOrigin ==
    ASSUME StoreTypeOK, NEW c, Fresh(c), NEW i \in incidents'
    PROVE  \/ i \in incidents
           \/ \E k \in Active(c.mon) : /\ i.mon = k.mon /\ i.first = k.first
                                      /\ i.opened = k.opened
                                      /\ \/ /\ c.status = "up"
                                            /\ i.resolved = c.at /\ i.last = k.last
                                         \/ /\ c.status = "down"
                                            /\ i.resolved = NULL /\ i.last = c.at
           \/ Opens(c) /\ i.mon = c.mon /\ i.resolved = NULL /\ i.last = c.at
<1>0. \A k \in incidents : k \in Incident
  BY DEF StoreTypeOK
<1>1. CASE Resolves(c)
  <2>1. CASE i \notin incidents
    <3>1. PICK k \in Active(c.mon) : i = [k EXCEPT !.resolved = c.at]
      BY <1>1, <2>1 DEF Resolves, Resolve
    <3>2. k \in Incident
      BY <1>0, <3>1 DEF Active
    <3>3. i.mon = k.mon /\ i.first = k.first /\ i.opened = k.opened /\ i.last = k.last
          /\ i.resolved = c.at
      BY <3>1, <3>2 DEF Incident
    <3> QED
      BY <1>1, <3>1, <3>3 DEF Resolves
  <2> QED
    BY <2>1
<1>2. CASE Extends(c)
  <2>1. CASE i \notin incidents
    <3>1. PICK k \in Active(c.mon) : i = [k EXCEPT !.last = c.at]
      BY <1>2, <2>1 DEF Extends
    <3>2. k \in Incident /\ k.resolved = NULL
      BY <1>0, <3>1 DEF Active, IsActive
    <3>3. i.mon = k.mon /\ i.first = k.first /\ i.opened = k.opened /\ i.last = c.at
          /\ i.resolved = NULL
      BY <3>1, <3>2 DEF Incident
    <3> QED
      BY <1>2, <3>1, <3>3 DEF Extends
  <2> QED
    BY <2>1
<1>3. CASE Opens(c)
  BY <1>3 DEF Opens
<1>4. CASE Ignores(c)
  BY <1>4 DEF Ignores
<1> QED
  BY <1>1, <1>2, <1>3, <1>4, FreshCases

LEMMA FreshResolved ==
    ASSUME StoreTypeOK, ResolvedBySuccess, NEW c, Fresh(c)
    PROVE  ResolvedBySuccess'
<1> SUFFICES ASSUME NEW i \in incidents', i.resolved # NULL, NEW z \in Scheduled(i.mon)',
                    z.status = "down", z.at <= i.resolved
             PROVE  \E u \in Scheduled(i.mon)' :
                       u.status = "up" /\ u.at = i.resolved /\ z.at < u.at
  BY DEF ResolvedBySuccess
<1>1. CASE i \in incidents /\ i.mon # c.mon
  <2>1. Scheduled(i.mon)' = Scheduled(i.mon)
    BY <1>1, FreshRows DEF StoreTypeOK, Incident
  <2> QED
    BY <1>1, <2>1 DEF ResolvedBySuccess
<1>2. CASE i \in incidents /\ i.mon = c.mon
  <2>1. Scheduled(i.mon)' = Scheduled(i.mon) \cup {c}
    BY <1>2, FreshRows
  <2>2. i.resolved < c.at /\ i.resolved \in Int /\ c.at \in Int
    BY <1>2 DEF Fresh, StoreTypeOK, Incident, Result, Time, NULL
  <2>3. z \in Scheduled(i.mon)
    BY <2>1, <2>2
  <2> QED
    BY <1>2, <2>1, <2>3 DEF ResolvedBySuccess
<1>3. CASE i \notin incidents
  <2>1. i.mon = c.mon /\ i.resolved = c.at /\ c.status = "up"
    BY <1>3, RowOrigin DEF Active
  <2>2. Scheduled(i.mon)' = Scheduled(c.mon) \cup {c} /\ \A y \in Scheduled(c.mon) : y.at < c.at
    BY <2>1, FreshRows
  <2>3. z # c
    BY <2>1
  <2> QED
    BY <2>1, <2>2, <2>3
<1> QED
  BY <1>1, <1>2, <1>3

(* A row that changes keeps its beginning, and an ended incident does not change. *)
LEMMA FreshTimeline ==
    ASSUME StoreTypeOK, IncidentTimeline, ResolvedBySuccess, NEW c, Fresh(c)
    PROVE  IncidentTimeline'
<1>0. /\ \A k \in incidents : k.first \in Int /\ k.opened \in Int /\ k.last \in Int /\ k.resolved \in Int
      /\ c.at \in Int /\ c.at # NULL
      /\ \A y \in Scheduled(c.mon) : y.at \in Int
  BY DEF StoreTypeOK, Incident, Fresh, Result, Time, NULL, Scheduled
<1>1. ASSUME NEW f, f = [k \in incidents |-> IF k \in Active(c.mon)
                           THEN IF c.status = "up" THEN [k EXCEPT !.resolved = c.at]
                                                   ELSE [k EXCEPT !.last = c.at]
                           ELSE k],
             incidents' = {f[k] : k \in incidents}
      PROVE  IncidentTimeline'
  <2>1. ASSUME NEW k \in incidents
        PROVE  /\ f[k].mon = k.mon /\ f[k].first = k.first /\ f[k].opened = k.opened
               /\ k.resolved # NULL => f[k] = k
               /\ f[k].first < f[k].opened /\ f[k].opened <= f[k].last
               /\ f[k].resolved # NULL => f[k].last < f[k].resolved
    <3>1. k \in Incident
      BY DEF StoreTypeOK
    <3>2. k.first < k.opened /\ k.opened <= k.last /\ (k.resolved # NULL => k.last < k.resolved)
      BY DEF IncidentTimeline
    <3>3. CASE k \notin Active(c.mon)
      BY <1>1, <3>2, <3>3
    <3>4. CASE k \in Active(c.mon)
      <4>1. k.resolved = NULL /\ k.last < c.at
        BY <3>4 DEF Active, IsActive, Fresh
      <4>2. CASE c.status = "up"
        <5>1. f[k] = [k EXCEPT !.resolved = c.at]
          BY <1>1, <3>4, <4>2
        <5>2. f[k].mon = k.mon /\ f[k].first = k.first /\ f[k].opened = k.opened
              /\ f[k].last = k.last /\ f[k].resolved = c.at
          BY <3>1, <5>1 DEF Incident
        <5> QED
          BY <3>2, <4>1, <5>2
      <4>3. CASE c.status # "up"
        <5>1. f[k] = [k EXCEPT !.last = c.at]
          BY <1>1, <3>4, <4>3
        <5>2. f[k].mon = k.mon /\ f[k].first = k.first /\ f[k].opened = k.opened
              /\ f[k].last = c.at /\ f[k].resolved = k.resolved
          BY <3>1, <5>1 DEF Incident
        <5> QED
          BY <1>0, <3>2, <4>1, <5>2
      <4> QED
        BY <4>2, <4>3
    <3> QED
      BY <3>3, <3>4
  <2>2. ASSUME NEW k \in incidents, NEW n \in incidents, f[k] # f[n], k.mon = n.mon
        PROVE  Before(f[k], f[n]) \/ Before(f[n], f[k])
    <3>1. k # n
      BY <2>2
    <3>2. Before(k, n) \/ Before(n, k)
      BY <2>2, <3>1 DEF IncidentTimeline
    <3> QED
      BY <2>1, <3>2 DEF Before
  <2>3. ASSUME NEW i \in incidents'
        PROVE  /\ i.first < i.opened /\ i.opened <= i.last
               /\ i.resolved # NULL => i.last < i.resolved
               /\ \A j \in incidents' \ {i} : j.mon = i.mon => Before(i, j) \/ Before(j, i)
    <3>1. PICK k \in incidents : i = f[k]
      BY <1>1
    <3>2. ASSUME NEW j \in incidents' \ {i}, j.mon = i.mon
          PROVE  Before(i, j) \/ Before(j, i)
      <4>1. PICK n \in incidents : j = f[n]
        BY <1>1
      <4> QED
        BY <2>1, <2>2, <3>1, <3>2, <4>1
    <3> QED
      BY <2>1, <3>1, <3>2
  <2> QED
    BY <2>3 DEF IncidentTimeline, Before
<1>2. CASE Resolves(c) \/ Extends(c)
  <2> DEFINE f == [k \in incidents |-> IF k \in Active(c.mon)
                      THEN IF c.status = "up" THEN [k EXCEPT !.resolved = c.at]
                                              ELSE [k EXCEPT !.last = c.at]
                      ELSE k]
  <2>1. \A k \in incidents : f[k] = IF k \in Active(c.mon)
                      THEN IF c.status = "up" THEN [k EXCEPT !.resolved = c.at]
                                              ELSE [k EXCEPT !.last = c.at]
                      ELSE k
    OBVIOUS
  <2>2. incidents' = {f[k] : k \in incidents}
    BY <1>2, <2>1 DEF Resolves, Extends, Resolve
  <2> QED
    BY <1>1, <2>2
<1>3. CASE Ignores(c)
  BY <1>3 DEF Ignores, IncidentTimeline, Before
<1>4. CASE Opens(c)
  <2>1. PICK y \in Scheduled(c.mon) :
          /\ y.status = "down" /\ \A z \in Scheduled(c.mon) \ {y} : z.at < y.at
          /\ incidents' = incidents \cup {[mon |-> c.mon, first |-> y.at, last |-> c.at,
                                          opened |-> c.at, resolved |-> NULL]}
    BY <1>4 DEF Opens
  <2> DEFINE new == [mon |-> c.mon, first |-> y.at, last |-> c.at, opened |-> c.at, resolved |-> NULL]
  <2>2. y.at < c.at
    BY FreshRows
  <2>3. ASSUME NEW i \in incidents, i.mon = c.mon
        PROVE  Before(i, new)
    <3>1. i.resolved # NULL
      BY <1>4, <2>3 DEF Opens, Active, IsActive
    <3>2. ~(y.at <= i.resolved)
      <4> SUFFICES ASSUME y.at <= i.resolved PROVE FALSE
        OBVIOUS
      <4>1. PICK u \in Scheduled(c.mon) : u.status = "up" /\ y.at < u.at
        BY <2>1, <2>3, <3>1 DEF ResolvedBySuccess
      <4>2. u # y
        BY <2>1, <4>1
      <4> QED
        BY <1>0, <2>1, <4>1, <4>2
    <3> QED
      BY <1>0, <3>1, <3>2 DEF Before
  <2>4. new.first < new.opened /\ new.opened <= new.last /\ new.resolved = NULL
    BY <1>0, <2>2
  <2>5. incidents' = incidents \cup {new} /\ new.mon = c.mon
    BY <2>1
  <2> HIDE DEF new
  <2> QED
    BY <2>3, <2>4, <2>5 DEF IncidentTimeline, Before
<1> QED
  BY <1>2, <1>3, <1>4, FreshCases

LEMMA FreshAccurate ==
    ASSUME StoreTypeOK, IncidentsAccurate, NEW c, Fresh(c)
    PROVE  IncidentsAccurate'
<1>0. /\ \A k \in incidents : k \in Incident
      /\ c.at \in Int /\ c.at # NULL /\ c.mon \in Monitor
  BY DEF StoreTypeOK, Fresh, Result, Time, NULL
<1> SUFFICES ASSUME NEW m \in Monitor
             PROVE  /\ TwoDown(Scheduled(m)') => Active(m)' # {}
                    /\ Active(m)' # {} => \A x \in Scheduled(m)' : x.status = "up" =>
                           \E y \in Scheduled(m)' : y.at > x.at
  BY DEF IncidentsAccurate, TwoDown, NewestTwo
<1>1. CASE m # c.mon
  <2>1. Scheduled(m)' = Scheduled(m)
    BY <1>1, FreshRows
  <2>2. ASSUME NEW k \in Active(m) PROVE k \in Active(m)'
    <3>1. k \in incidents /\ k.mon = m /\ k \notin Active(c.mon)
      BY <1>1 DEF Active
    <3>2. k \in incidents'
      BY <3>1, FreshCases DEF Resolves, Resolve, Ignores, Extends, Opens
    <3> QED
      BY <3>2 DEF Active, IsActive
  <2>3. ASSUME NEW k \in Active(m)' PROVE k \in Active(m)
    BY <1>1, RowOrigin DEF Active, IsActive
  <2>4. /\ TwoDown(Scheduled(m)) => Active(m) # {}
        /\ Active(m) # {} => \A x \in Scheduled(m) : x.status = "up" =>
               \E y \in Scheduled(m) : y.at > x.at
    BY DEF IncidentsAccurate
  <2>5. (Active(m)' # {}) <=> (Active(m) # {})
    BY <2>2, <2>3
  <2> QED
    BY <2>1, <2>4, <2>5
<1>2. CASE m = c.mon
  <2> DEFINE S == Scheduled(m) \cup {c}
  <2>1. /\ Scheduled(m)' = S /\ c \in S
        /\ \A z \in S : z.at \in Int
        /\ \A z \in S \ {c} : z.at < c.at
    BY <1>2, FreshRows
  <2> HIDE DEF S
  <2>2. CASE Resolves(c)
    <3>1. ~TwoDown(S)
      BY <2>1, <2>2, NewestIsNew DEF TwoDown, Resolves
    <3>2. ASSUME NEW i \in Active(m)' PROVE FALSE
      <4>1. i \in incidents' /\ i.mon = m /\ i.resolved = NULL
        BY <3>2 DEF Active, IsActive
      <4>2. PICK k \in incidents :
               i = IF k \in Active(c.mon) THEN [k EXCEPT !.resolved = c.at] ELSE k
        BY <2>2, <4>1 DEF Resolves, Resolve
      <4>3. k \in Active(c.mon)
        BY <1>2, <4>1, <4>2 DEF Active, IsActive
      <4>4. i.resolved = c.at
        BY <1>0, <4>2, <4>3 DEF Incident
      <4> QED
        BY <1>0, <4>1, <4>4
    <3> QED
      BY <2>1, <3>1, <3>2
  <2>3. ASSUME c.status = "down"
        PROVE  \A x \in S : x.status = "up" => \E y \in S : y.at > x.at
    BY <2>1, <2>3
  <2>4. CASE Ignores(c)
    BY <1>2, <2>1, <2>3, <2>4 DEF Ignores, S
  <2>5. CASE Extends(c)
    <3>1. PICK k \in incidents : k \in Active(c.mon)
      BY <2>5 DEF Extends, Active
    <3>2. [k EXCEPT !.last = c.at] \in incidents'
      BY <2>5, <3>1 DEF Extends
    <3>3. [k EXCEPT !.last = c.at].mon = m /\ [k EXCEPT !.last = c.at].resolved = NULL
      <4>1. k \in Incident /\ k.mon = m /\ k.resolved = NULL
        BY <1>0, <1>2, <3>1 DEF Active, IsActive
      <4> QED
        BY <4>1 DEF Incident
    <3>4. [k EXCEPT !.last = c.at] \in Active(m)'
      BY <3>2, <3>3 DEF Active, IsActive
    <3> QED
      BY <2>1, <2>3, <2>5, <3>4 DEF Extends
  <2>6. CASE Opens(c)
    <3>1. PICK i \in incidents' : i.mon = c.mon /\ i.resolved = NULL
      <4>1. PICK y : [mon |-> c.mon, first |-> y.at, last |-> c.at, opened |-> c.at,
                      resolved |-> NULL] \in incidents'
        BY <2>6 DEF Opens
      <4> QED
        BY <4>1
    <3>2. i \in Active(m)'
      BY <1>2, <3>1 DEF Active, IsActive
    <3> QED
      BY <2>1, <2>3, <2>6, <3>2 DEF Opens
  <2> QED
    BY <2>2, <2>4, <2>5, <2>6, FreshCases
<1> QED
  BY <1>1, <1>2

--------------------------------------------------------------------------------
(* The other steps of the store.                                               *)

(* A suffix of the history has the same newest two rows.                        *)
LEMMA SuffixTwoDown ==
    ASSUME NEW S, NEW T, T \subseteq S, NEW cutoff \in Int, \A z \in S : z.at \in Int,
           \A z \in S : z.at >= cutoff => z \in T, \A z \in T : z.at >= cutoff, TwoDown(T)
    PROVE  TwoDown(S)
<1>1. PICK x \in T, y \in T : NewestTwo(T, x, y) /\ x.status = "down" /\ y.status = "down"
  BY DEF TwoDown
<1>2. NewestTwo(S, x, y)
  <2>1. ASSUME NEW z \in S \ {x, y} PROVE z.at < y.at
    <3>1. CASE z \in T
      BY <1>1, <3>1 DEF NewestTwo
    <3>2. CASE z \notin T
      <4>1. z.at < cutoff /\ y.at >= cutoff
        BY <3>2
      <4> QED
        BY <4>1
    <3> QED
      BY <3>1, <3>2
  <2> QED
    BY <1>1, <2>1 DEF NewestTwo
<1> QED
  BY <1>1, <1>2 DEF TwoDown

LEMMA RetentionTables ==
    ASSUME StoreTypeOK, TablesInv, RunRetention
    PROVE  TablesInv'
<1> DEFINE cutoff == now - Retention
<1>0. cutoff \in Int /\ \A x \in results : x.at \in Int
  BY StoreAssumption DEF StoreTypeOK, Result, Time
<1>1. results' = {x \in results : x.at >= cutoff} /\ UNCHANGED incidents
  BY DEF RunRetention, DeleteOlderThan
<1> HIDE DEF cutoff
<1>2. \A m : Scheduled(m)' = {x \in Scheduled(m) : x.at >= cutoff}
  BY <1>1 DEF Scheduled
<1>3. \A m : \A x \in Scheduled(m) : x.at \in Int
  BY <1>0 DEF Scheduled
<1>4. DistinctTimes'
  BY <1>2 DEF TablesInv, DistinctTimes
<1>5. ResolvedBySuccess'
  <2> SUFFICES ASSUME NEW i \in incidents, i.resolved # NULL, NEW z \in Scheduled(i.mon)',
                      z.status = "down", z.at <= i.resolved
               PROVE  \E u \in Scheduled(i.mon)' :
                         u.status = "up" /\ u.at = i.resolved /\ z.at < u.at
    BY <1>1 DEF ResolvedBySuccess
  <2>1. z \in Scheduled(i.mon) /\ z.at >= cutoff
    BY <1>2
  <2>2. PICK u \in Scheduled(i.mon) : u.status = "up" /\ u.at = i.resolved /\ z.at < u.at
    BY <2>1 DEF TablesInv, ResolvedBySuccess
  <2>3. u.at >= cutoff
    BY <1>0, <1>3, <2>1, <2>2
  <2> QED
    BY <1>2, <2>2, <2>3
<1>6. IncidentTimeline'
  BY <1>1 DEF TablesInv, IncidentTimeline, Before
<1>7. IncidentsAccurate'
  <2> SUFFICES ASSUME NEW m \in Monitor
               PROVE  /\ TwoDown(Scheduled(m)') => Active(m)' # {}
                      /\ Active(m)' # {} => \A x \in Scheduled(m)' : x.status = "up" =>
                             \E y \in Scheduled(m)' : y.at > x.at
    BY DEF IncidentsAccurate, TwoDown, NewestTwo
  <2>1. Active(m)' = Active(m)
    BY <1>1 DEF Active, IsActive
  <2>2. TwoDown(Scheduled(m)') => TwoDown(Scheduled(m))
    <3> DEFINE S == Scheduled(m)
               T == {x \in S : x.at >= cutoff}
    <3>1. \A z \in S : z.at \in Int
      BY <1>3
    <3> HIDE DEF S
    <3>2. TwoDown(T) => TwoDown(S)
      BY <1>0, <3>1, SuffixTwoDown
    <3> QED
      BY <1>2, <3>2 DEF S
  <2>3. ASSUME NEW x \in Scheduled(m)', x.status = "up", Active(m) # {}
        PROVE  \E y \in Scheduled(m)' : y.at > x.at
    <3>1. x \in Scheduled(m) /\ x.at >= cutoff
      BY <1>2, <2>3
    <3>2. PICK y \in Scheduled(m) : y.at > x.at
      BY <2>3, <3>1 DEF TablesInv, IncidentsAccurate
    <3>3. y.at >= cutoff
      BY <1>0, <1>3, <3>1, <3>2
    <3> QED
      BY <1>2, <3>2, <3>3
  <2> QED
    BY <2>1, <2>2, <2>3 DEF TablesInv, IncidentsAccurate
<1> QED
  BY <1>4, <1>5, <1>6, <1>7 DEF TablesInv

(* Rows of other sources, other monitors, and monitors that go, do not matter.   *)
LEMMA OtherTables ==
    ASSUME StoreTypeOK, TablesInv,
           incidents' = incidents, \A m \in Monitor : Scheduled(m)' = Scheduled(m)
    PROVE  TablesInv'
<1>1. incidents' = incidents /\ \A m \in Monitor : Scheduled(m)' = Scheduled(m)
  OBVIOUS
<1>2. \A m : Active(m)' = Active(m)
  BY <1>1 DEF Active, IsActive
<1>3. \A i \in incidents : i.mon \in Monitor
  BY DEF StoreTypeOK, Incident
<1>4. DistinctTimes'
  BY <1>1 DEF TablesInv, DistinctTimes
<1>5. ResolvedBySuccess'
  BY <1>1, <1>3 DEF TablesInv, ResolvedBySuccess
<1>6. IncidentTimeline'
  BY <1>1 DEF TablesInv, IncidentTimeline, Before
<1>7. IncidentsAccurate'
  BY <1>1, <1>2 DEF TablesInv, IncidentsAccurate, TwoDown, NewestTwo
<1> QED
  BY <1>4, <1>5, <1>6, <1>7 DEF TablesInv

LEMMA DeleteTables ==
    ASSUME StoreTypeOK, TablesInv, NEW d \in Monitor, DeleteMonitor(d)
    PROVE  TablesInv'
<1>1. /\ results' = {x \in results : x.mon # d}
      /\ incidents' = {i \in incidents : i.mon # d}
  BY DEF DeleteMonitor
<1>2. Scheduled(d)' = {} /\ Active(d)' = {}
  BY <1>1 DEF Scheduled, Active
<1>3. \A m \in Monitor : m # d => Scheduled(m)' = Scheduled(m) /\ Active(m)' = Active(m)
  BY <1>1 DEF Scheduled, Active, IsActive
<1>4. \A i \in incidents' : i \in incidents /\ i.mon # d /\ i.mon \in Monitor
  BY <1>1 DEF StoreTypeOK, Incident
<1>5. DistinctTimes'
  BY <1>2, <1>3 DEF TablesInv, DistinctTimes
<1>6. ResolvedBySuccess'
  BY <1>3, <1>4 DEF TablesInv, ResolvedBySuccess
<1>7. IncidentTimeline'
  BY <1>4 DEF TablesInv, IncidentTimeline, Before
<1>8. IncidentsAccurate'
  <2> SUFFICES ASSUME NEW m \in Monitor
               PROVE  /\ TwoDown(Scheduled(m)') => Active(m)' # {}
                      /\ Active(m)' # {} => \A x \in Scheduled(m)' : x.status = "up" =>
                             \E y \in Scheduled(m)' : y.at > x.at
    BY DEF IncidentsAccurate, TwoDown, NewestTwo
  <2>1. CASE m = d
    BY <1>2, <2>1 DEF TwoDown, NewestTwo
  <2>2. CASE m # d
    BY <1>3, <2>2 DEF TablesInv, IncidentsAccurate
  <2> QED
    BY <2>1, <2>2
<1> QED
  BY <1>5, <1>6, <1>7, <1>8 DEF TablesInv

LEMMA StoreStepTables ==
    ASSUME StoreTypeOK, TablesInv, StoreStep
    PROVE  TablesInv'
<1>1. CASE RunRetention
  BY <1>1, RetentionTables
<1>2. CASE UNCHANGED <<results, incidents>>
  BY <1>2, OtherTables DEF Scheduled
<1>3. ASSUME NEW m \in Monitor, ManualCheck(m) PROVE TablesInv'
  <2>1. PICK s \in {"up", "down"}, t \in createdAt[m] .. now :
           CreateCheck([mon |-> m, source |-> "manual", status |-> s, at |-> t])
    BY <1>3 DEF ManualCheck
  <2>2. UNCHANGED incidents
    BY <2>1 DEF CreateCheck
  <2>3. \A n \in Monitor : Scheduled(n)' = Scheduled(n)
    BY <2>1, CreateCheckRows DEF Scheduled
  <2> QED
    BY <2>2, <2>3, OtherTables
<1>4. ASSUME NEW m \in Monitor, DeleteMonitor(m) PROVE TablesInv'
  BY <1>4, DeleteTables
<1> QED
  BY <1>1, <1>2, <1>3, <1>4 DEF StoreStep, Tick, CreateMonitor, UpdateMonitor

--------------------------------------------------------------------------------
(* Incidents lie in the past, and StoreCheck finds the tables in a fresh state.  *)

LEMMA StoreCheckFresh ==
    ASSUME TypeOK, OrderInv, IncidentsPast, NEW r \in Replica, NEW m \in Monitor,
           StoreCheck(r, m)
    PROVE  Fresh(Stored(m, job[r][m]))
<1> DEFINE c == Stored(m, job[r][m])
<1>1. c \in Result
  BY StoredType
<1>2. c.mon = m /\ c.source = "scheduled" /\ c.at = job[r][m].at
  BY DEF Stored
<1>3. CreateCheck(c) /\ CheckRuns(r, m)
  BY DEF StoreCheck, CheckRuns
<1> HIDE DEF c
<1>4. \A y \in Scheduled(m) : y.at < c.at
  BY <1>2, <1>3 DEF OrderInv
<1>5. \A i \in incidents : i.mon = m => i.last < c.at /\ i.resolved < c.at
  BY <1>2, <1>3 DEF IncidentsPast
<1>6. Fresh(c)
  BY <1>1, <1>2, <1>3, <1>4, <1>5 DEF Fresh
<1> QED
  BY <1>6 DEF c

(* Rows that a fresh result adds or changes are about its monitor and end with it. *)
LEMMA FreshRowsPast ==
    ASSUME StoreTypeOK, NEW c, Fresh(c), NEW i \in incidents' \ incidents
    PROVE  i.mon = c.mon /\ i.last <= c.at /\ i.resolved <= c.at
<1>1. \A k \in Active(c.mon) : k.mon = c.mon /\ k.last < c.at /\ k.last \in Int
  BY DEF Active, Fresh, StoreTypeOK, Incident, Time
<1>2. c.at \in Int /\ c.at >= 0
  BY DEF Fresh, Result, Time
<1> QED
  BY <1>1, <1>2, RowOrigin DEF NULL

LEMMA StoreStepPast ==
    ASSUME TypeOK, IncidentsPast, StoreStep, UNCHANGED schedVars
    PROVE  IncidentsPast'
<1>1. incidents' \subseteq incidents
  BY DEF StoreStep, RunRetention, DeleteOlderThan, Tick, CreateMonitor, UpdateMonitor,
         DeleteMonitor, ManualCheck, CreateCheck
<1>2. now <= now' /\ now \in Int /\ now' \in Int
  BY StoreStepRows, StoreStepType DEF TypeOK, StoreTypeOK, Time
<1>3. \A i \in incidents : i.last \in Int /\ i.resolved \in Int
  BY DEF TypeOK, StoreTypeOK, Incident, Time, NULL
<1> QED
  BY <1>1, <1>2, <1>3 DEF IncidentsPast, CheckRuns, schedVars

LEMMA WorkPast ==
    ASSUME TypeOK, MutualExclusion, OrderInv, IncidentsPast,
           NEW r \in Replica, NEW m \in Monitor, Work(r, m)
    PROVE  IncidentsPast'
<1>0. /\ now \in Int
      /\ \A i \in incidents : i.mon \in Monitor /\ i.last \in Int /\ i.resolved \in Int
      /\ \A q \in Replica, n \in Monitor : job[q][n].at \in Int
  BY DEF TypeOK, StoreTypeOK, Incident, Job, Time, NULL
<1>1. ASSUME UNCHANGED storeVars,
             \A q \in Replica, n \in Monitor : CheckRuns(q, n)' =>
                CheckRuns(q, n) /\ job'[q][n].at = job[q][n].at
      PROVE  IncidentsPast'
  BY <1>0, <1>1 DEF IncidentsPast, storeVars
<1>2. ASSUME NEW j, j.state \notin {"checking", "checked"}, SetJob(r, m, j), UNCHANGED storeVars
      PROVE  IncidentsPast'
  <2>1. \A q \in Replica, n \in Monitor :
           job'[q][n] = IF q = r /\ n = m THEN j ELSE job[q][n]
    BY <1>2, SetJobValue
  <2> QED
    BY <1>1, <1>2, <2>1 DEF CheckRuns
<1>3. CASE TryLock(r, m)
  <2>1. CASE UNCHANGED <<storeVars, job>>
    BY <1>1, <2>1 DEF CheckRuns
  <2>2. CASE SetJob(r, m, Queued)
    BY <1>2, <1>3, <2>2 DEF TryLock, Queued
  <2> QED
    BY <1>3, <2>1, <2>2 DEF TryLock
<1>4. CASE StartCheck(r, m)
  <2>1. \A q \in Replica, n \in Monitor :
           job'[q][n] = IF q = r /\ n = m
                        THEN [state |-> "checking", at |-> now, status |-> "down"]
                        ELSE job[q][n]
    BY <1>4, SetJobValue DEF StartCheck
  <2>2. now' = now + 1 /\ UNCHANGED incidents
    BY <1>4 DEF StartCheck
  <2> QED
    BY <1>0, <2>1, <2>2 DEF IncidentsPast, CheckRuns
<1>5. CASE FinishCheck(r, m)
  <2>1. PICK s : SetJob(r, m, [state |-> "checked", at |-> job[r][m].at, status |-> s])
    BY <1>5 DEF FinishCheck
  <2>2. \A q \in Replica, n \in Monitor :
           job'[q][n] = IF q = r /\ n = m
                        THEN [state |-> "checked", at |-> job[r][m].at, status |-> s]
                        ELSE job[q][n]
    BY <2>1, SetJobValue
  <2>3. job[r][m].state = "checking"
    BY <1>5 DEF FinishCheck
  <2> QED
    BY <1>1, <1>5, <2>2, <2>3 DEF FinishCheck, CheckRuns
<1>6. CASE StoreCheck(r, m)
  <2> DEFINE c == Stored(m, job[r][m])
  <2>1. \A q \in Replica, n \in Monitor :
           job'[q][n] = IF q = r /\ n = m THEN Done ELSE job[q][n]
    BY <1>6, SetJobValue DEF StoreCheck
  <2>2. c.mon = m /\ c.at = job[r][m].at /\ UNCHANGED now
    BY <1>6, CreateCheckRows DEF Stored, StoreCheck
  <2>3. InFlight(r, m) /\ CheckRuns(r, m)
    BY <1>6 DEF StoreCheck, InFlight, CheckRuns
  <2>4. c.at < now
    BY <2>2, <2>3 DEF OrderInv
  <2>5. Fresh(c)
    BY <1>6, StoreCheckFresh
  <2>6. ASSUME NEW q \in Replica, NEW n \in Monitor, CheckRuns(q, n)'
        PROVE  n # m /\ CheckRuns(q, n) /\ job'[q][n] = job[q][n]
    <3>1. ~ (q = r /\ n = m)
      BY <2>1, <2>6 DEF Done, CheckRuns
    <3>2. job'[q][n] = job[q][n] /\ CheckRuns(q, n) /\ InFlight(q, n)
      BY <2>1, <2>6, <3>1 DEF InFlight, CheckRuns
    <3> QED
      BY <2>3, <3>1, <3>2 DEF MutualExclusion
  <2> HIDE DEF c
  <2>7. ASSUME NEW i \in incidents'
        PROVE  /\ i.last < now' /\ i.resolved < now'
               /\ \A q \in Replica : CheckRuns(q, i.mon)' =>
                     i.last < job'[q][i.mon].at /\ i.resolved < job'[q][i.mon].at
    <3>1. CASE i \in incidents
      BY <1>0, <2>2, <2>6, <3>1 DEF IncidentsPast
    <3>2. CASE i \notin incidents
      <4>1. i.mon = m /\ i.last <= c.at /\ i.resolved <= c.at
        BY <2>2, <2>5, <3>2, FreshRowsPast DEF TypeOK
      <4>2. i.last \in Int /\ i.resolved \in Int /\ c.at \in Int
        BY <1>6, <2>2, <1>0, WorkType DEF Work, TypeOK, StoreTypeOK, Incident, Time, NULL
      <4> QED
        BY <1>0, <2>2, <2>4, <2>6, <4>1, <4>2
    <3> QED
      BY <3>1, <3>2
  <2> QED
    BY <2>7 DEF IncidentsPast
<1>7. CASE StoreFails(r, m)
  BY <1>2, <1>7 DEF StoreFails, Done
<1>8. CASE Unlock(r, m)
  BY <1>2, <1>8 DEF Unlock, NoJob
<1> QED
  BY <1>3, <1>4, <1>5, <1>6, <1>7, <1>8 DEF Work

(* No step of a process writes a table, and it starts no check.                 *)
LEMMA ProcessPast ==
    ASSUME TypeOK, IncidentsPast, NEW r \in Replica, Process(r)
    PROVE  UNCHANGED storeVars /\ IncidentsPast'
<1>1. UNCHANGED storeVars
  BY DEF Process, ClaimDue, RunDue, ClaimFails, StopDispatch, Shutdown, Exit, Crash, Stop,
         Start, RetireSessions, LoseSessions
<1>2. \A q \in Replica, n \in Monitor : CheckRuns(q, n)' =>
         CheckRuns(q, n) /\ job'[q][n] = job[q][n]
  <2>1. CASE UNCHANGED job
    BY <2>1 DEF CheckRuns
  <2>2. CASE job' = [job EXCEPT ![r] = [n \in Monitor |-> NoJob]]
    BY <2>2, ResetJobsValue DEF CheckRuns, NoJob
  <2>3. CASE StopDispatch(r)
    BY <2>3 DEF StopDispatch, CheckRuns, Done, TypeOK
  <2> QED
    BY <2>1, <2>2, <2>3 DEF Process, ClaimDue, RunDue, ClaimFails, Shutdown, Exit, Crash,
       Stop, Start, RetireSessions, LoseSessions
<1>3. \A i \in incidents : i.mon \in Monitor
  BY DEF TypeOK, StoreTypeOK, Incident
<1> QED
  BY <1>1, <1>2, <1>3 DEF IncidentsPast, storeVars

(* A worker changes the tables only in StoreCheck, with a fresh result.          *)
LEMMA WorkTables ==
    ASSUME TypeOK, OrderInv, IncidentInv, NEW r \in Replica, NEW m \in Monitor, Work(r, m)
    PROVE  TablesInv'
<1>1. CASE StoreCheck(r, m)
  <2>1. Fresh(Stored(m, job[r][m]))
    BY <1>1, StoreCheckFresh DEF IncidentInv
  <2>2. StoreTypeOK /\ TablesInv
    BY DEF TypeOK, IncidentInv
  <2> QED
    BY <2>1, <2>2, FreshDistinct, FreshResolved, FreshTimeline, FreshAccurate DEF TablesInv
<1>2. CASE ~StoreCheck(r, m)
  <2>1. UNCHANGED <<results, incidents>>
    BY <1>2 DEF Work, TryLock, StartCheck, FinishCheck, StoreFails, Unlock, storeVars
  <2> QED
    BY <2>1, OtherTables DEF IncidentInv, TypeOK, Scheduled
<1> QED
  BY <1>1, <1>2

LEMMA IncidentInvariant ==
    ASSUME "session" \notin Faults
    PROVE  Spec => []IncidentInv
<1>1. Init => IncidentInv
  BY DEF Init, StoreInit, IncidentInv, TablesInv, DistinctTimes, ResolvedBySuccess, Scheduled,
         IncidentTimeline, IncidentsAccurate, Active, TwoDown, NewestTwo, IncidentsPast
<1>2. TypeOK /\ MutualExclusion /\ OrderInv /\ IncidentInv /\ [Next]_vars => IncidentInv'
  <2> SUFFICES ASSUME TypeOK, MutualExclusion, OrderInv, IncidentInv, [Next]_vars
               PROVE  IncidentInv'
    OBVIOUS
  <2>0. StoreTypeOK /\ TablesInv /\ IncidentsPast
    BY DEF TypeOK, IncidentInv
  <2>1. CASE StoreStep /\ UNCHANGED schedVars
    BY <2>0, <2>1, StoreStepTables, StoreStepPast DEF IncidentInv
  <2>2. ASSUME NEW r \in Replica, Process(r) PROVE IncidentInv'
    <3>1. UNCHANGED <<results, incidents>> /\ IncidentsPast'
      BY <2>0, <2>2, ProcessPast DEF storeVars
    <3> QED
      BY <2>0, <3>1, OtherTables DEF IncidentInv, Scheduled
  <2>3. ASSUME NEW r \in Replica, NEW m \in Monitor, Work(r, m) PROVE IncidentInv'
    BY <2>0, <2>3, WorkTables, WorkPast DEF IncidentInv
  <2>4. CASE UNCHANGED vars
    <3>1. UNCHANGED <<now, results, incidents, job>>
      BY <2>4 DEF vars, storeVars, schedVars
    <3>2. IncidentsPast'
      BY <2>0, <3>1 DEF IncidentsPast, CheckRuns
    <3> QED
      BY <2>0, <3>1, <3>2, OtherTables DEF IncidentInv, Scheduled
  <2> QED
    BY <2>1, <2>2, <2>3, <2>4 DEF Next
<1> QED
  BY <1>1, <1>2, TypeCorrect, ExclusionHolds, OrderInvariant, PTL DEF Spec

(* The incidents of a monitor never overlap and never have a negative duration,  *)
(* whichever replicas store their results and whatever is deleted in between.   *)
THEOREM TimelineHolds ==
    ASSUME "session" \notin Faults
    PROVE  Spec => []IncidentTimeline
<1>1. IncidentInv => IncidentTimeline
  BY DEF IncidentInv, TablesInv
<1> QED
  BY <1>1, IncidentInvariant, PTL

(* Two failures in a row always have an active incident, and an active incident  *)
(* is never older than the newest success: the dashboard shows what is stored.  *)
THEOREM AccuracyHolds ==
    ASSUME "session" \notin Faults
    PROVE  Spec => []IncidentsAccurate
<1>1. IncidentInv => IncidentsAccurate
  BY DEF IncidentInv, TablesInv
<1> QED
  BY <1>1, IncidentInvariant, PTL
===============================================================================
