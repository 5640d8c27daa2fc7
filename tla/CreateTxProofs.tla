---------------------------- MODULE CreateTxProofs -----------------------------
(* Proofs about CreateTx, for any number of calls.                              *)
EXTENDS CreateTx, FiniteSetTheorems, TLAPS

LEMMA InitType == Init => TypeOK
  BY TxAssumption DEF Init, TypeOK, NoCall, NoRow, Call, Result, Incident, Running, Tx, NULL

(* A call is replaced by one of the right type.                                 *)
LEMMA PutType ==
  ASSUME TypeOK, NEW t \in Tx, NEW c \in Call, Put(t, c), Keep
  PROVE  TypeOK'
  BY DEF TypeOK, Put, Keep, KeepStore

LEMMA VisibleType ==
  ASSUME TypeOK, NEW t \in Tx
  PROVE  Visible(t) \subseteq Result
  BY DEF TypeOK, Visible, Call

(* Every step keeps the types.                                                  *)
LEMMA NextType == TypeOK /\ [Next]_vars => TypeOK'
<1> SUFFICES ASSUME TypeOK, [Next]_vars PROVE TypeOK'
  OBVIOUS
<1> USE DEF Running, NULL
<1>t. ASSUME NEW t \in Tx PROVE tx[t] \in Call
  BY DEF TypeOK
<1>1. ASSUME NEW t \in Tx, Begin(t) PROVE TypeOK'
  <2>1. PICK x \in Result : Put(t, [NoCall EXCEPT !.phase = "begun", !.row = x])
    BY <1>1 DEF Begin
  <2>2. [NoCall EXCEPT !.phase = "begun", !.row = x] \in Call
    BY DEF NoCall, NoRow, Call, Result
  <2>q. QED BY <1>1, <2>1, <2>2, PutType DEF Begin
<1>2. ASSUME NEW t \in Tx, Insert(t) PROVE TypeOK'
  <2>1. PICK p \in {"ended", "written", "inserted"} : Put(t, [tx[t] EXCEPT !.phase = p])
    BY <1>2 DEF Insert
  <2>2. [tx[t] EXCEPT !.phase = p] \in Call
    BY <1>t DEF Call
  <2>q. QED BY <1>2, <2>1, <2>2, PutType DEF Insert
<1>3. ASSUME NEW t \in Tx, LookForActive(t) PROVE TypeOK'
  <2>1. CASE Active = {}
    <3>1. [tx[t] EXCEPT !.phase = "written"] \in Call
      BY <1>t DEF Call
    <3>q. QED BY <1>3, <2>1, <3>1, PutType DEF LookForActive
  <2>2. CASE Active # {}
    <3>1. PICK i \in Active : Put(t, [tx[t] EXCEPT !.phase = "looked", !.saw = i.id])
      BY <1>3, <2>2 DEF LookForActive
    <3>2. i.id \in Tx
      BY <3>1 DEF Active, TypeOK, Incident
    <3>3. [tx[t] EXCEPT !.phase = "looked", !.saw = i.id] \in Call
      BY <1>t, <3>2 DEF Call
    <3>q. QED BY <1>3, <3>1, <3>3, PutType DEF LookForActive
  <2>q. QED BY <2>1, <2>2
<1>4. ASSUME NEW t \in Tx, Resolve(t) PROVE TypeOK'
  <2> DEFINE w == {[i EXCEPT !.resolved = t] : i \in {i \in Active : i.id = tx[t].saw}}
  <2>1. w \subseteq Incident
    BY DEF Active, TypeOK, Incident
  <2> HIDE DEF w
  <2>2. [tx[t] EXCEPT !.phase = "written", !.wrote = w] \in Call
    BY <1>t, <2>1 DEF Call
  <2>q. QED BY <1>4, <2>2, PutType DEF Resolve, w
<1>5. ASSUME NEW t \in Tx, CountFailures(t) PROVE TypeOK'
  <2>1. PICK p \in {"opening", "written"} : Put(t, [tx[t] EXCEPT !.phase = p])
    BY <1>5 DEF CountFailures
  <2>2. [tx[t] EXCEPT !.phase = p] \in Call
    BY <1>t DEF Call
  <2>q. QED BY <1>5, <2>1, <2>2 DEF CountFailures, Put, KeepStore, TypeOK
<1>6. ASSUME NEW t \in Tx, FirstFailure(t) PROVE TypeOK'
  <2>1. PICK x \in Newest(Downs(Scheduled(Visible(t))), 2) : Put(t, [tx[t] EXCEPT !.saw = x.at])
    BY <1>6 DEF FirstFailure, FirstFailures
  <2>2. x.at \in Tx
    BY <2>1, VisibleType DEF Newest, Downs, Scheduled, Result
  <2>3. [tx[t] EXCEPT !.saw = x.at] \in Call
    BY <1>t, <2>2 DEF Call
  <2>q. QED BY <1>6, <2>1, <2>3, PutType DEF FirstFailure
<1>7. ASSUME NEW t \in Tx, OpenOrExtend(t) PROVE TypeOK'
  <2> DEFINE w == IF Active = {} THEN {Opened(t)} ELSE {[i EXCEPT !.last = t] : i \in Active}
  <2>1. tx[t].saw \in Tx
    BY <1>7, <1>t DEF OpenOrExtend, Call
  <2>2. w \subseteq Incident
    BY <2>1 DEF Active, TypeOK, Incident, Opened
  <2> HIDE DEF w
  <2>3. [tx[t] EXCEPT !.phase = "written", !.wrote = w] \in Call
    BY <1>t, <2>2 DEF Call
  <2>q. QED BY <1>7, <2>3, PutType DEF OpenOrExtend, w
<1>8. ASSUME NEW t \in Tx, Commit(t) PROVE TypeOK'
  <2>1. [tx[t] EXCEPT !.phase = "ended", !.wrote = {}] \in Call
    BY <1>t DEF Call
  <2>2. tx[t].wrote \subseteq Incident
    BY <1>t DEF Call
  <2>3. tx' \in [Tx -> Call]
    BY <1>8, <2>1 DEF Commit, Put, TypeOK
  <2>4. incidents' \subseteq Incident
    BY <1>8, <2>2 DEF Commit, TypeOK
  <2>5. results' \subseteq Result
    BY <1>8, VisibleType DEF Commit
  <2>6. {exists', locked', settled'} \subseteq BOOLEAN
    BY <1>8 DEF Commit, TypeOK
  <2>7. forgotten' \subseteq Result
    BY <1>8 DEF Commit, TypeOK
  <2>q. QED BY <2>3, <2>4, <2>5, <2>6, <2>7 DEF TypeOK
<1>9. ASSUME NEW t \in Tx, Fail(t) PROVE TypeOK'
  <2>1. [tx[t] EXCEPT !.phase = "ended", !.wrote = {}] \in Call
    BY <1>t DEF Call
  <2>q. QED BY <1>9, <2>1, PutType DEF Fail
<1>10. CASE (\E t \in Tx : DeleteOlderThan(t)) \/ DeleteMonitor \/ LoseLock \/ TakeLock \/ UNCHANGED vars
  BY <1>10 DEF DeleteOlderThan, DeleteMonitor, LoseLock, TakeLock, vars, TypeOK
<1>q. QED BY <1>1, <1>2, <1>3, <1>4, <1>5, <1>6, <1>7, <1>8, <1>9, <1>10 DEF Next, Statement

(* Types are kept (PostgresChecks.Create and the tables).                       *)
THEOREM TypeCorrect == Spec => []TypeOK
<1>1. Init => TypeOK
  BY InitType
<1>2. TypeOK /\ [Next]_vars => TypeOK'
  BY NextType
<1>q. QED BY <1>1, <1>2, PTL DEF Spec

--------------------------------------------------------------------------------
(* No result outlives its monitor.                                              *)

(* When the monitor is gone no call has got past the foreign key.               *)
DeletedInv == ~exists => results = {} /\ incidents = {} /\ \A t \in Tx : IsRunning(t) => At(t, "begun")

LEMMA NextDeleted == TypeOK /\ DeletedInv /\ [Next]_vars => DeletedInv'
<1> SUFFICES ASSUME TypeOK, DeletedInv, [Next]_vars, ~exists' PROVE DeletedInv'
  BY DEF DeletedInv
<1> USE DEF Running, IsRunning, At
<1>1. CASE exists
  BY <1>1 DEF Next, Statement, Begin, Insert, LookForActive, Resolve, CountFailures, FirstFailure,
      OpenOrExtend, Commit, Fail, DeleteOlderThan, DeleteMonitor, LoseLock, TakeLock, vars, Keep, KeepStore,
      DeletedInv
<1>2. CASE ~exists
  <2>0. results = {} /\ incidents = {} /\ \A t \in Tx : IsRunning(t) => At(t, "begun")
    BY <1>2 DEF DeletedInv
  <2>1. ASSUME NEW t \in Tx, Begin(t) PROVE DeletedInv'
    BY <2>0, <2>1 DEF Begin, Put, Keep, KeepStore, NoCall, DeletedInv, TypeOK
  <2>2. ASSUME NEW t \in Tx, Insert(t) PROVE DeletedInv'
    BY <1>2, <2>0, <2>2 DEF Insert, Put, Keep, KeepStore, DeletedInv, TypeOK, Call
  <2>3. ASSUME NEW t \in Tx, Fail(t) PROVE DeletedInv'
    BY <2>0, <2>3 DEF Fail, Put, Keep, KeepStore, DeletedInv, TypeOK, Call
  <2>4. ASSUME NEW t \in Tx, Statement(t), ~Insert(t) PROVE FALSE
    BY <2>0, <2>4 DEF Statement, LookForActive, Resolve, CountFailures, FirstFailure, OpenOrExtend, Commit
  <2>5. CASE (\E t \in Tx : DeleteOlderThan(t)) \/ DeleteMonitor \/ LoseLock \/ TakeLock \/ UNCHANGED vars
    BY <2>0, <2>5 DEF DeleteOlderThan, DeleteMonitor, LoseLock, TakeLock, vars, DeletedInv
  <2>q. QED BY <2>1, <2>2, <2>3, <2>4, <2>5 DEF Next
<1>q. QED BY <1>1, <1>2

(* Whatever calls run while the monitor is deleted, nothing of it remains.      *)
THEOREM NothingRemains == Spec => []NothingOutlives
<1>1. Init => DeletedInv
  BY DEF Init, DeletedInv
<1>2. TypeOK /\ DeletedInv /\ [Next]_vars => DeletedInv'
  BY NextDeleted
<1>3. DeletedInv => NothingOutlives
  BY DEF DeletedInv, NothingOutlives
<1>q. QED BY <1>1, <1>2, <1>3, TypeCorrect, PTL DEF Spec

--------------------------------------------------------------------------------
(* One active incident.                                                         *)

(* At most one call has written a row of incidents that is not committed, and   *)
(* while it has, that row is the active incident, if there is one.              *)
OneWriter ==
    /\ \A t, u \in Tx : tx[t].wrote # {} /\ tx[u].wrote # {} => t = u
    /\ \A t \in Tx : \A i, j \in tx[t].wrote : i = j
    /\ \A t \in Tx : \A j \in tx[t].wrote : \A i \in Active : i.id = j.id
ActiveInv == OneActive /\ OneWriter

(* A step that adds no row to incidents and writes none keeps the invariant.    *)
LEMMA QuietStep ==
  ASSUME ActiveInv, UNCHANGED incidents, \A t \in Tx : tx'[t].wrote \in {tx[t].wrote, {}}
  PROVE  ActiveInv'
<1>1. Active' = Active
  BY DEF Active
<1>q. QED BY <1>1 DEF ActiveInv, OneActive, OneWriter

(* What a call writes, beside what the others have written.                     *)
LEMMA WriteStep ==
  ASSUME TypeOK, ActiveInv, UNCHANGED incidents, NEW t \in Tx, NEW w,
         \A u \in Tx : tx'[u].wrote = IF u = t THEN w ELSE tx[u].wrote,
         \A i, j \in w : i = j,
         \A j \in w : \A i \in Active : i.id = j.id,
         w # {} => \A u \in Tx \ {t} : tx[u].wrote = {}
  PROVE  ActiveInv'
<1>1. Active' = Active
  BY DEF Active
<1>q. QED BY <1>1 DEF ActiveInv, OneActive, OneWriter

LEMMA CommitStep ==
  ASSUME TypeOK, ActiveInv, NEW t \in Tx, Commit(t)
  PROVE  ActiveInv'
<1> DEFINE w == tx[t].wrote
<1>1. \A u \in Tx : tx'[u].wrote = IF u = t THEN {} ELSE tx[u].wrote
  BY DEF Commit, Put, TypeOK, Call
<1>2. CASE w = {}
  <2>1. incidents' = incidents
    BY <1>2 DEF Commit
  <2>q. QED BY <1>1, <2>1, QuietStep
<1>3. CASE w # {}
  <2>1. \A u \in Tx : tx'[u].wrote = {}
    BY <1>1, <1>3 DEF ActiveInv, OneWriter
  <2>2. \A i \in Active' : i \in w
    BY <1>3 DEF Commit, Active, ActiveInv, OneWriter
  <2>q. QED BY <2>1, <2>2 DEF ActiveInv, OneActive, OneWriter
<1>q. QED BY <1>2, <1>3

LEMMA NextActive == TypeOK /\ ActiveInv /\ [Next]_vars => ActiveInv'
<1> SUFFICES ASSUME TypeOK, ActiveInv, [Next]_vars PROVE ActiveInv'
  OBVIOUS
<1>1. ASSUME NEW t \in Tx, Begin(t) PROVE ActiveInv'
  <2>1. \A u \in Tx : tx'[u].wrote \in {tx[u].wrote, {}}
    BY <1>1 DEF Begin, Put, NoCall, TypeOK
  <2>q. QED BY <1>1, <2>1, QuietStep DEF Begin, Keep, KeepStore
<1>2. ASSUME NEW t \in Tx, Insert(t) \/ LookForActive(t) \/ CountFailures(t) \/ FirstFailure(t) \/ Fail(t)
      PROVE  ActiveInv'
  <2>1. \A u \in Tx : tx'[u].wrote \in {tx[u].wrote, {}}
    <3>1. CASE Insert(t)
      BY <3>1 DEF Insert, Put, TypeOK, Call
    <3>2. CASE LookForActive(t)
      <4>1. CASE Active = {}
        BY <3>2, <4>1 DEF LookForActive, Put, TypeOK, Call
      <4>2. CASE Active # {}
        <5>1. PICK i \in Active : tx' = [tx EXCEPT ![t] = [tx[t] EXCEPT !.phase = "looked", !.saw = i.id]]
          BY <3>2, <4>2 DEF LookForActive, Put
        <5>q. QED BY <5>1 DEF TypeOK, Call
      <4>q. QED BY <4>1, <4>2
    <3>3. CASE CountFailures(t)
      BY <3>3 DEF CountFailures, Put, TypeOK, Call
    <3>4. CASE FirstFailure(t)
      BY <3>4 DEF FirstFailure, Put, TypeOK, Call
    <3>5. CASE Fail(t)
      BY <3>5 DEF Fail, Put, TypeOK, Call
    <3>q. QED BY <1>2, <3>1, <3>2, <3>3, <3>4, <3>5
  <2>2. UNCHANGED incidents
    BY <1>2 DEF Insert, LookForActive, CountFailures, FirstFailure, Fail, Keep, KeepStore
  <2>q. QED BY <2>1, <2>2, QuietStep
<1>3. ASSUME NEW t \in Tx, Resolve(t) PROVE ActiveInv'
  <2> DEFINE w == {[i EXCEPT !.resolved = t] : i \in {i \in Active : i.id = tx[t].saw}}
  <2>1. \A u \in Tx : tx'[u].wrote = IF u = t THEN w ELSE tx[u].wrote
    BY <1>3 DEF Resolve, Put, TypeOK, Call
  <2>2. \A i, j \in w : i = j
    BY DEF ActiveInv, OneActive
  <2>3. \A j \in w : j.id = tx[t].saw
    BY DEF Active, TypeOK, Incident
  <2>4. w # {} => \E i \in Active : i.id = tx[t].saw
    OBVIOUS
  <2>5. \A j \in w : \A i \in Active : i.id = j.id
    BY <2>3, <2>4 DEF ActiveInv, OneActive
  <2>6. w # {} => \A u \in Tx \ {t} : tx[u].wrote = {}
    BY <1>3, <2>4 DEF Resolve, Waits, WaitsFor, Writes, ActiveInv, OneWriter
  <2>7. UNCHANGED incidents
    BY <1>3 DEF Resolve, Keep, KeepStore
  <2> HIDE DEF w
  <2>q. QED BY <2>1, <2>2, <2>5, <2>6, <2>7, WriteStep
<1>4. ASSUME NEW t \in Tx, OpenOrExtend(t) PROVE ActiveInv'
  <2> DEFINE w == IF Active = {} THEN {Opened(t)} ELSE {[i EXCEPT !.last = t] : i \in Active}
  <2>1. \A u \in Tx : tx'[u].wrote = IF u = t THEN w ELSE tx[u].wrote
    BY <1>4 DEF OpenOrExtend, Put, TypeOK, Call
  <2>2. \A i, j \in w : i = j
    BY DEF ActiveInv, OneActive
  <2>3. \A j \in w : \A i \in Active : i.id = j.id
    BY DEF ActiveInv, OneActive, Active, TypeOK, Incident
  <2>4. \A u \in Tx \ {t} : tx[u].wrote = {}
    BY <1>4 DEF OpenOrExtend, Waits, WaitsFor
  <2>5. UNCHANGED incidents
    BY <1>4 DEF OpenOrExtend, Keep, KeepStore
  <2> HIDE DEF w
  <2>q. QED BY <2>1, <2>2, <2>3, <2>4, <2>5, WriteStep
<1>5. CASE DeleteMonitor
  <2>1. Active' = {}
    BY <1>5 DEF DeleteMonitor, Active
  <2>q. QED BY <1>5, <2>1 DEF DeleteMonitor, ActiveInv, OneActive, OneWriter
<1>6. CASE (\E t \in Tx : DeleteOlderThan(t)) \/ LoseLock \/ TakeLock \/ UNCHANGED vars
  BY <1>6, QuietStep DEF DeleteOlderThan, LoseLock, TakeLock, vars
<1>q. QED BY <1>1, <1>2, <1>3, <1>4, <1>5, <1>6, CommitStep DEF Next, Statement

(* However many calls count two failures at once, a monitor never has two       *)
(* active incidents (ON CONFLICT of updateIncident), locked or not.             *)
THEOREM OneIncident == Spec => []OneActive
<1>1. Init => ActiveInv
  BY DEF Init, ActiveInv, OneActive, OneWriter, Active, NoCall
<1>2. TypeOK /\ ActiveInv /\ [Next]_vars => ActiveInv'
  BY NextActive
<1>3. ActiveInv => OneActive
  BY DEF ActiveInv
<1>q. QED BY <1>1, <1>2, <1>3, TypeCorrect, PTL DEF Spec

--------------------------------------------------------------------------------
(* Outages are recorded.                                                        *)

(* A stored result is that of an ended call, and has its number as its time.     *)
DatedInv ==
    /\ IsFiniteSet(results)
    /\ \A t \in Tx : ~At(t, "new") => tx[t].row.at = t
    /\ \A x \in results : At(x.at, "ended") /\ tx[x.at].row = x

(* What the phase of a call says of its row and of what it has written.          *)
PhaseInv == \A t \in Tx :
    /\ At(t, "begun") \/ At(t, "inserted") => tx[t].saw = NULL
    /\ At(t, "inserted") \/ At(t, "looked") \/ At(t, "opening") => tx[t].row.source = "scheduled"
    /\ At(t, "looked") => tx[t].row.status = "up"
    /\ At(t, "opening") => tx[t].row.status = "down"
    /\ tx[t].wrote # {} => At(t, "written") /\ tx[t].row.source = "scheduled"

(* Under the lock the scheduled calls run one after the other, in the order of   *)
(* their times.                                                                 *)
InTurn(t) == \A u \in Tx \ {t} :
    ~At(u, "new") /\ tx[u].row.source = "scheduled" => At(u, "ended") /\ u < t

(* What a call is about to commit is right for the results with its own.         *)
Correct(t) ==
    /\ At(t, "looked") => \A i \in Active : i.id = tx[t].saw
    /\ At(t, "written") /\ tx[t].row.status = "up" =>
         /\ \A j \in tx[t].wrote : j.resolved # NULL
         /\ \A i \in Active : Writes(t, i.id)
    /\ At(t, "written") /\ tx[t].row.status = "down" =>
         (\E j \in tx[t].wrote : j.resolved = NULL) \/ ~TwoDown(Visible(t))

ScheduledRun(t) == IsRunning(t) /\ tx[t].row.source = "scheduled"
TurnInv == locked => \A t \in Tx : ScheduledRun(t) => InTurn(t)
CorrectInv == locked => \A t \in Tx : ScheduledRun(t) => Correct(t)

Recorded ==
    /\ TwoDown(results) => Active # {}
    /\ (\E x \in Newest(Scheduled(results), 1) : x.status = "up") => Active = {}

OutageInv ==
    /\ DatedInv /\ PhaseInv /\ TurnInv /\ CorrectInv
    /\ settled => locked /\ Recorded

(* Sets of fewer than two.                                                      *)
LEMMA FewerThanTwo ==
  ASSUME NEW S, IsFiniteSet(S)
  PROVE  Cardinality(S) < 2 <=> \A x, y \in S : x = y
<1>1. Cardinality(S) \in Nat
  BY FS_CardinalityType
<1>2. ASSUME Cardinality(S) < 2, NEW x \in S, NEW y \in S, x # y PROVE FALSE
  <2>1. IsFiniteSet({x}) /\ Cardinality({x}) = 1
    BY FS_Singleton
  <2>2. Cardinality({x} \cup {y}) = 2 /\ IsFiniteSet({x} \cup {y})
    BY <1>2, <2>1, FS_AddElement
  <2>3. Cardinality({x} \cup {y}) <= Cardinality(S)
    BY FS_Subset
  <2>q. QED BY <1>1, <1>2, <2>2, <2>3
<1>3. ASSUME \A x, y \in S : x = y PROVE Cardinality(S) < 2
  <2>1. CASE S = {}
    BY <2>1, FS_EmptySet
  <2>2. CASE S # {}
    <3>1. PICK x \in S : S = {x}
      BY <1>3, <2>2
    <3>q. QED BY <3>1, FS_Singleton
  <2>q. QED BY <2>1, <2>2
<1>q. QED BY <1>2, <1>3

(* A finite set of results of different times.                                  *)
DistinctTimes(S) == S \subseteq Result /\ IsFiniteSet(S) /\ \A x, y \in S : x.at = y.at => x = y

(* ORDER BY checked_at DESC LIMIT 1: the newest row.                             *)
LEMMA NewestOne ==
  ASSUME NEW S, DistinctTimes(S)
  PROVE  Newest(S, 1) = {x \in S : \A y \in S : y.at <= x.at}
<1>1. SUFFICES ASSUME NEW x \in S
               PROVE  Cardinality({y \in S : y.at > x.at}) < 1 <=> \A y \in S : y.at <= x.at
  BY DEF Newest
<1>2. IsFiniteSet({y \in S : y.at > x.at})
  BY FS_Subset DEF DistinctTimes
<1>3. \A y \in S : y.at \in Nat /\ x.at \in Nat
  BY DEF DistinctTimes, Result, Tx
<1>q. QED BY <1>2, <1>3, FS_EmptySet, FS_CardinalityType

(* LIMIT 2: the rows with at most one newer.                                     *)
LEMMA NewestTwo ==
  ASSUME NEW S, DistinctTimes(S)
  PROVE  Newest(S, 2) = {x \in S : \A y, z \in S : y.at > x.at /\ z.at > x.at => y = z}
<1>1. SUFFICES ASSUME NEW x \in S
               PROVE  Cardinality({y \in S : y.at > x.at}) < 2
                      <=> \A y, z \in S : y.at > x.at /\ z.at > x.at => y = z
  BY DEF Newest
<1>2. IsFiniteSet({y \in S : y.at > x.at})
  BY FS_Subset DEF DistinctTimes
<1>q. QED BY <1>2, FewerThanTwo

(* There are at most two of them.                                               *)
LEMMA AtMostTwo ==
  ASSUME NEW S, DistinctTimes(S), NEW x \in Newest(S, 2), NEW y \in Newest(S, 2), x # y
  PROVE  Newest(S, 2) = {x, y}
<1> SUFFICES ASSUME NEW z \in Newest(S, 2), z # x, z # y PROVE FALSE
  OBVIOUS
<1>1. /\ x \in S /\ \A u, v \in S : u.at > x.at /\ v.at > x.at => u = v
      /\ y \in S /\ \A u, v \in S : u.at > y.at /\ v.at > y.at => u = v
      /\ z \in S /\ \A u, v \in S : u.at > z.at /\ v.at > z.at => u = v
  BY NewestTwo
<1>2. x.at \in Nat /\ y.at \in Nat /\ z.at \in Nat /\ x.at # y.at /\ x.at # z.at /\ y.at # z.at
  BY <1>1 DEF DistinctTimes, Result, Tx
<1>q. QED BY <1>1, <1>2

(* The count of updateIncident is two when the newest two scheduled results are  *)
(* failures.                                                                    *)
LEMMA TwoDownIs ==
  ASSUME NEW S, DistinctTimes(Scheduled(S))
  PROVE  TwoDown(S) <=> \E x, y \in Newest(Scheduled(S), 2) : x # y /\ x.status = "down" /\ y.status = "down"
<1> DEFINE N == Newest(Scheduled(S), 2)
           D == Downs(N)
<1>1. IsFiniteSet(N) /\ IsFiniteSet(D)
  BY FS_Subset DEF Newest, Downs, DistinctTimes
<1>2. Cardinality(D) \in Nat
  BY <1>1, FS_CardinalityType
<1>3. ASSUME Cardinality(D) = 2 PROVE \E x, y \in N : x # y /\ x.status = "down" /\ y.status = "down"
  BY <1>1, <1>3, FewerThanTwo DEF Downs
<1>4. ASSUME NEW x \in N, NEW y \in N, x # y, x.status = "down", y.status = "down"
      PROVE  Cardinality(D) = 2
  <2>1. D = {x} \cup {y}
    BY <1>4, AtMostTwo DEF Downs
  <2>2. IsFiniteSet({x}) /\ Cardinality({x}) = 1
    BY FS_Singleton
  <2>q. QED BY <1>4, <2>1, <2>2, FS_AddElement
<1>q. QED BY <1>3, <1>4 DEF TwoDown

(* The stored results have different times, also with the row of a call.         *)
LEMMA ResultsDistinct ==
  ASSUME TypeOK, DatedInv
  PROVE  DistinctTimes(Scheduled(results))
  BY FS_Subset DEF DatedInv, DistinctTimes, Scheduled, TypeOK

LEMMA VisibleDistinct ==
  ASSUME TypeOK, DatedInv, NEW t \in Tx, IsRunning(t)
  PROVE  DistinctTimes(Scheduled(Visible(t))) /\ IsFiniteSet(Visible(t))
<1>1. IsFiniteSet(Visible(t))
  BY FS_AddElement DEF DatedInv, Visible
<1>2. IsFiniteSet(Scheduled(Visible(t))) /\ Scheduled(Visible(t)) \subseteq Result
  BY <1>1, FS_Subset, VisibleType DEF Scheduled
<1>3. ~At(t, "new") /\ ~At(t, "ended")
  BY DEF IsRunning, At, Running
<1>4. \A x, y \in Visible(t) : x.at = y.at => x = y
  BY <1>3 DEF Visible, DatedInv
<1>q. QED BY <1>1, <1>2, <1>4 DEF DistinctTimes, Scheduled

(* Retention keeps the newest rows: what is the newest afterwards was so before. *)
LEMMA NewestKept ==
  ASSUME NEW S \in SUBSET Result, NEW cutoff \in Tx, NEW n
  PROVE  Newest({x \in S : x.at >= cutoff}, n) \subseteq Newest(S, n)
<1> DEFINE T == {x \in S : x.at >= cutoff}
<1>1. SUFFICES ASSUME NEW x \in T
               PROVE  {y \in T : y.at > x.at} = {y \in S : y.at > x.at}
  BY DEF Newest
<1>2. \A y \in S : y.at \in Nat /\ x.at \in Nat /\ cutoff \in Nat
  BY DEF Result, Tx
<1>q. QED BY <1>2

LEMMA RetentionTwoDown ==
  ASSUME NEW S \in SUBSET Result, DistinctTimes(Scheduled(S)), NEW cutoff \in Tx,
         TwoDown({x \in S : x.at >= cutoff})
  PROVE  TwoDown(S)
<1> DEFINE T == {x \in S : x.at >= cutoff}
<1>1. Scheduled(T) = {x \in Scheduled(S) : x.at >= cutoff}
  BY DEF Scheduled
<1>2. DistinctTimes(Scheduled(T))
  BY <1>1, FS_Subset DEF DistinctTimes
<1>3. Newest(Scheduled(T), 2) \subseteq Newest(Scheduled(S), 2)
  BY <1>1, NewestKept DEF Scheduled
<1>q. QED BY <1>2, <1>3, TwoDownIs

(* The row of a call in turn is the newest.                                      *)
LEMMA RowIsNewest ==
  ASSUME TypeOK, DatedInv, NEW t \in Tx, ScheduledRun(t), InTurn(t)
  PROVE  /\ Newest(Scheduled(Visible(t)), 1) = {tx[t].row}
         /\ TwoDown(Visible(t)) => tx[t].row.status = "down"
<1> DEFINE r == tx[t].row
           S == Scheduled(Visible(t))
<1>1. r \in S /\ r.at = t /\ t \in Nat
  BY DEF ScheduledRun, IsRunning, Running, At, DatedInv, Visible, Scheduled, Tx
<1>2. DistinctTimes(S)
  BY VisibleDistinct DEF ScheduledRun
<1>3. ASSUME NEW x \in S, x # r PROVE x.at < t /\ x.at \in Nat
  <2>1. x \in results /\ x.source = "scheduled"
    BY <1>3 DEF Scheduled, Visible
  <2>2. x.at \in Tx /\ At(x.at, "ended") /\ tx[x.at].row = x
    BY <2>1 DEF TypeOK, DatedInv, Result
  <2>3. x.at # t
    BY <1>1, <1>3, <2>2
  <2>q. QED BY <2>1, <2>2, <2>3 DEF InTurn, At, Tx
<1>4. Newest(S, 1) = {x \in S : \A y \in S : y.at <= x.at}
  BY <1>2, NewestOne
<1>5. Newest(S, 1) = {r}
  BY <1>1, <1>3, <1>4
<1>6. ASSUME TwoDown(Visible(t)) PROVE r.status = "down"
  <2>1. PICK x, y \in Newest(S, 2) : x # y /\ x.status = "down" /\ y.status = "down"
    BY <1>2, <1>6, TwoDownIs
  <2>2. Newest(S, 2) = {u \in S : \A y2, z \in S : y2.at > u.at /\ z.at > u.at => y2 = z}
    BY <1>2, NewestTwo
  <2>3. ASSUME x # r, y # r PROVE FALSE
    <3>1. x.at < t /\ y.at < t /\ x.at \in Nat /\ y.at \in Nat /\ x \in S /\ y \in S
      BY <1>3, <2>2, <2>3
    <3>2. x.at # y.at
      BY <1>2, <2>1, <3>1 DEF DistinctTimes
    <3>3. CASE x.at < y.at
      <4>1. y = r
        BY <1>1, <2>2, <3>1, <3>3
      <4>q. QED BY <2>3, <4>1
    <3>4. CASE y.at < x.at
      <4>1. x = r
        BY <1>1, <2>2, <3>1, <3>4
      <4>q. QED BY <2>3, <4>1
    <3>q. QED BY <3>1, <3>2, <3>3, <3>4
  <2>q. QED BY <2>1, <2>3
<1>q. QED BY <1>5, <1>6

(* A statement of t, or its failure: the other calls stay as they are.           *)
Moves(t) ==
    /\ IsRunning(t) /\ ~At(t, "new")' /\ ~At(t, "begun")'
    /\ tx'[t].row = tx[t].row
    /\ \A u \in Tx \ {t} : tx'[u] = tx[u]
    /\ UNCHANGED locked

LEMMA StatementMoves ==
  ASSUME TypeOK, NEW t \in Tx, Statement(t) \/ Fail(t)
  PROVE  Moves(t)
<1>t. tx[t] \in Call /\ DOMAIN tx = Tx
  BY DEF TypeOK
<1>1. PICK p \in {"inserted", "looked", "opening", "written", "ended"}, n \in Tx \cup {NULL}, w \in SUBSET Incident :
        tx' = [tx EXCEPT ![t] = [tx[t] EXCEPT !.phase = p, !.saw = n, !.wrote = w]]
  <2> DEFINE C(p, n, w) == [tx[t] EXCEPT !.phase = p, !.saw = n, !.wrote = w]
  <2>0. tx[t].saw \in Tx \cup {NULL} /\ tx[t].wrote \in SUBSET Incident
    BY <1>t DEF Call
  <2>1. CASE Insert(t)
    <3>1. PICK p \in {"ended", "written", "inserted"} : tx' = [tx EXCEPT ![t] = [tx[t] EXCEPT !.phase = p]]
      BY <2>1 DEF Insert, Put
    <3>2. [tx[t] EXCEPT !.phase = p] = C(p, tx[t].saw, tx[t].wrote)
      BY <1>t DEF Call
    <3>q. QED BY <2>0, <3>1, <3>2
  <2>2. CASE CountFailures(t)
    <3>1. PICK p \in {"opening", "written"} : tx' = [tx EXCEPT ![t] = [tx[t] EXCEPT !.phase = p]]
      BY <2>2 DEF CountFailures, Put
    <3>2. [tx[t] EXCEPT !.phase = p] = C(p, tx[t].saw, tx[t].wrote)
      BY <1>t DEF Call
    <3>q. QED BY <2>0, <3>1, <3>2
  <2>3. CASE LookForActive(t)
    <3>1. CASE Active = {}
      <4>1. [tx[t] EXCEPT !.phase = "written"] = C("written", tx[t].saw, tx[t].wrote)
        BY <1>t DEF Call
      <4>2. tx' = [tx EXCEPT ![t] = [tx[t] EXCEPT !.phase = "written"]]
        BY <2>3, <3>1 DEF LookForActive, Put
      <4>q. QED BY <2>0, <4>1, <4>2
    <3>2. CASE Active # {}
      <4>1. PICK i \in Active : tx' = [tx EXCEPT ![t] = [tx[t] EXCEPT !.phase = "looked", !.saw = i.id]]
        BY <2>3, <3>2 DEF LookForActive, Put
      <4>2. i.id \in Tx
        BY DEF Active, TypeOK, Incident
      <4>3. [tx[t] EXCEPT !.phase = "looked", !.saw = i.id] = C("looked", i.id, tx[t].wrote)
        BY <1>t DEF Call
      <4>q. QED BY <2>0, <4>1, <4>2, <4>3
    <3>q. QED BY <3>1, <3>2
  <2>4. CASE FirstFailure(t)
    <3>1. PICK x \in Newest(Downs(Scheduled(Visible(t))), 2) : tx' = [tx EXCEPT ![t] = [tx[t] EXCEPT !.saw = x.at]]
      BY <2>4 DEF FirstFailure, FirstFailures, Put
    <3>2. x.at \in Tx
      BY <3>1, VisibleType DEF Newest, Downs, Scheduled, Result
    <3>3. [tx[t] EXCEPT !.saw = x.at] = C("opening", x.at, tx[t].wrote)
      BY <1>t, <2>4 DEF Call, FirstFailure, At
    <3>q. QED BY <2>0, <3>1, <3>2, <3>3
  <2>5. CASE Resolve(t)
    <3> DEFINE w == {[i EXCEPT !.resolved = t] : i \in {i \in Active : i.id = tx[t].saw}}
    <3>1. w \subseteq Incident
      BY DEF Active, TypeOK, Incident
    <3> HIDE DEF w
    <3>2. [tx[t] EXCEPT !.phase = "written", !.wrote = w] = C("written", tx[t].saw, w)
      BY <1>t DEF Call
    <3>3. tx' = [tx EXCEPT ![t] = [tx[t] EXCEPT !.phase = "written", !.wrote = w]]
      BY <2>5 DEF Resolve, Put, w
    <3>q. QED BY <2>0, <3>1, <3>2, <3>3
  <2>6. CASE OpenOrExtend(t)
    <3> DEFINE w == IF Active = {} THEN {Opened(t)} ELSE {[i EXCEPT !.last = t] : i \in Active}
    <3>0. tx[t].saw \in Tx
      BY <2>0, <2>6 DEF OpenOrExtend
    <3>1. w \subseteq Incident
      BY <3>0 DEF Active, TypeOK, Incident, Opened, NULL
    <3> HIDE DEF w
    <3>2. [tx[t] EXCEPT !.phase = "written", !.wrote = w] = C("written", tx[t].saw, w)
      BY <1>t DEF Call
    <3>3. tx' = [tx EXCEPT ![t] = [tx[t] EXCEPT !.phase = "written", !.wrote = w]]
      BY <2>6 DEF OpenOrExtend, Put, w
    <3>q. QED BY <2>0, <3>1, <3>2, <3>3
  <2>7. CASE Commit(t) \/ Fail(t)
    <3>1. [tx[t] EXCEPT !.phase = "ended", !.wrote = {}] = C("ended", tx[t].saw, {})
      BY <1>t DEF Call
    <3>2. tx' = [tx EXCEPT ![t] = [tx[t] EXCEPT !.phase = "ended", !.wrote = {}]]
      BY <2>7 DEF Commit, Fail, Put
    <3>q. QED BY <2>0, <3>1, <3>2
  <2>q. QED BY <2>1, <2>2, <2>3, <2>4, <2>5, <2>6, <2>7 DEF Statement
<1>2. tx'[t].phase = p /\ tx'[t].row = tx[t].row /\ \A u \in Tx \ {t} : tx'[u] = tx[u]
  BY <1>1, <1>t DEF Call
<1>3. IsRunning(t) /\ UNCHANGED locked
  BY DEF Statement, Insert, LookForActive, Resolve, CountFailures, FirstFailure, OpenOrExtend, Commit,
         Fail, IsRunning, At, Running, Keep, KeepStore
<1>q. QED BY <1>2, <1>3 DEF Moves, At

(* Results are dated.                                                           *)
LEMMA BeginIs ==
  ASSUME TypeOK, NEW t \in Tx, Begin(t)
  PROVE  /\ At(t, "new") /\ At(t, "begun")' /\ tx'[t].row.at = t
         /\ tx'[t].wrote = {} /\ tx'[t].saw = NULL
         /\ \A u \in Tx \ {t} : tx'[u] = tx[u]
         /\ UNCHANGED <<exists, results, incidents, locked, settled>>
         /\ locked /\ tx'[t].row.source = "scheduled" =>
              /\ ~SchedulerRuns
              /\ \A u \in Tx : ~At(u, "new") /\ tx[u].row.source = "scheduled" => u < t
<1>1. PICK x \in Result :
         /\ x.at = t
         /\ locked /\ x.source = "scheduled" =>
              /\ ~SchedulerRuns
              /\ \A u \in Tx : ~At(u, "new") /\ tx[u].row.source = "scheduled" => u < t
         /\ Put(t, [NoCall EXCEPT !.phase = "begun", !.row = x])
  BY DEF Begin
<1>2. tx'[t] = [NoCall EXCEPT !.phase = "begun", !.row = x] /\ \A u \in Tx \ {t} : tx'[u] = tx[u]
  BY <1>1 DEF Put, TypeOK
<1>3. tx'[t].row = x /\ tx'[t].phase = "begun" /\ tx'[t].wrote = {} /\ tx'[t].saw = NULL
  BY <1>2 DEF NoCall
<1>q. QED BY <1>1, <1>2, <1>3 DEF Begin, At, Keep, KeepStore

LEMMA NextDated == TypeOK /\ DatedInv /\ [Next]_vars => DatedInv'
<1> SUFFICES ASSUME TypeOK, DatedInv, [Next]_vars PROVE DatedInv'
  OBVIOUS
<1> USE DEF DatedInv, At
<1>r. \A x \in results : x.at \in Tx
  BY DEF TypeOK, Result
<1>1. ASSUME NEW t \in Tx, Begin(t) PROVE DatedInv'
  BY <1>1, <1>r, BeginIs
<1>2. ASSUME NEW t \in Tx, Statement(t) \/ Fail(t) PROVE DatedInv'
  <2>1. Moves(t)
    BY <1>2, StatementMoves
  <2>2. tx[t].phase # "ended" /\ tx[t].phase # "new"
    BY <2>1 DEF Moves, IsRunning, Running
  <2>3. CASE results' = results
    BY <1>r, <2>1, <2>2, <2>3 DEF Moves
  <2>4. CASE Commit(t)
    <3>1. results' = results \cup {tx[t].row} /\ tx'[t].phase = "ended"
      BY <2>4 DEF Commit, Visible, Put, TypeOK, Call
    <3>2. IsFiniteSet(results')
      BY <3>1, FS_AddElement
    <3>q. QED BY <1>r, <2>1, <2>2, <3>1, <3>2 DEF Moves
  <2>q. QED BY <1>2, <2>3, <2>4
        DEF Statement, Insert, LookForActive, Resolve, CountFailures, FirstFailure, OpenOrExtend, Fail, Keep, KeepStore
<1>3. CASE (\E t \in Tx : DeleteOlderThan(t)) \/ DeleteMonitor
  <2>1. results' \subseteq results /\ tx' = tx
    BY <1>3 DEF DeleteOlderThan, DeleteMonitor
  <2>2. IsFiniteSet(results')
    BY <2>1, FS_Subset
  <2>q. QED BY <2>1, <2>2
<1>4. CASE LoseLock \/ TakeLock \/ UNCHANGED vars
  BY <1>4 DEF LoseLock, TakeLock, vars
<1>q. QED BY <1>1, <1>2, <1>3, <1>4 DEF Next

(* Phases.                                                                      *)
LEMMA NextPhase == TypeOK /\ PhaseInv /\ [Next]_vars => PhaseInv'
<1> SUFFICES ASSUME TypeOK, PhaseInv, [Next]_vars PROVE PhaseInv'
  OBVIOUS
<1>1. ASSUME NEW t \in Tx, Begin(t) PROVE PhaseInv'
  BY <1>1, BeginIs DEF PhaseInv, At
<1>2. ASSUME NEW t \in Tx, Statement(t) \/ Fail(t) PROVE PhaseInv'
  <2> DEFINE P(u) ==
        /\ At(u, "begun") \/ At(u, "inserted") => tx[u].saw = NULL
        /\ At(u, "inserted") \/ At(u, "looked") \/ At(u, "opening") => tx[u].row.source = "scheduled"
        /\ At(u, "looked") => tx[u].row.status = "up"
        /\ At(u, "opening") => tx[u].row.status = "down"
        /\ tx[u].wrote # {} => At(u, "written") /\ tx[u].row.source = "scheduled"
  <2>1. Moves(t)
    BY <1>2, StatementMoves
  <2>2. tx'[t].row = tx[t].row /\ tx[t].row.source \in {"scheduled", "manual"} /\ tx[t] \in Call /\ P(t)
    BY <2>1 DEF Moves, TypeOK, Call, Result, PhaseInv
  <2>3. P(t)'
    <3> USE DEF At, Put, TypeOK, Call
    <3>1. CASE Insert(t)
      BY <2>2, <3>1 DEF Insert
    <3>2. CASE LookForActive(t)
      <4>1. tx'[t].phase \in {"written", "looked"} /\ tx'[t].wrote = tx[t].wrote
        BY <3>2 DEF LookForActive
      <4>q. QED BY <2>2, <3>2, <4>1 DEF LookForActive
    <3>3. CASE Resolve(t)
      BY <2>2, <3>3 DEF Resolve
    <3>4. CASE CountFailures(t)
      BY <2>2, <3>4 DEF CountFailures
    <3>5. CASE FirstFailure(t)
      <4>1. tx'[t].phase = "opening" /\ tx'[t].wrote = tx[t].wrote
        BY <3>5 DEF FirstFailure
      <4>q. QED BY <2>2, <3>5, <4>1 DEF FirstFailure
    <3>6. CASE OpenOrExtend(t)
      BY <2>2, <3>6 DEF OpenOrExtend
    <3>7. CASE Commit(t) \/ Fail(t)
      <4>1. tx' = [tx EXCEPT ![t] = [tx[t] EXCEPT !.phase = "ended", !.wrote = {}]]
        BY <3>7 DEF Commit, Fail
      <4>2. tx'[t].phase = "ended" /\ tx'[t].wrote = {}
        BY <2>2, <4>1
      <4>q. QED BY <4>2
    <3> HIDE DEF At, Put, TypeOK, Call, P
    <3>q. QED BY <1>2, <3>1, <3>2, <3>3, <3>4, <3>5, <3>6, <3>7 DEF Statement
  <2>4. \A u \in Tx \ {t} : P(u)'
    BY <2>1 DEF Moves, PhaseInv, At
  <2>q. QED BY <2>3, <2>4 DEF PhaseInv
<1>3. CASE (\E t \in Tx : DeleteOlderThan(t)) \/ DeleteMonitor \/ LoseLock \/ TakeLock \/ UNCHANGED vars
  BY <1>3 DEF DeleteOlderThan, DeleteMonitor, LoseLock, TakeLock, vars, PhaseInv, At
<1>q. QED BY <1>1, <1>2, <1>3 DEF Next

(* Under the lock the scheduled calls take turns.                               *)
LEMMA NextTurn == TypeOK /\ TurnInv /\ [Next]_vars => TurnInv'
<1> SUFFICES ASSUME TypeOK, TurnInv, [Next]_vars, locked', NEW u \in Tx, ScheduledRun(u)' PROVE InTurn(u)'
  BY DEF TurnInv
<1>p. \A v \in Tx : At(v, "new") \/ At(v, "ended") \/ IsRunning(v)
  BY DEF TypeOK, Call, At, IsRunning
<1>1. ASSUME NEW t \in Tx, Begin(t) PROVE InTurn(u)'
  <2>1. /\ At(t, "new") /\ \A v \in Tx \ {t} : tx'[v] = tx[v] /\ (At(v, "new")' <=> At(v, "new"))
                                               /\ (At(v, "ended")' <=> At(v, "ended"))
        /\ locked
    BY <1>1, BeginIs DEF At
  <2>2. CASE u = t
    <3>1. ~SchedulerRuns /\ \A v \in Tx : ~At(v, "new") /\ tx[v].row.source = "scheduled" => v < t
      BY <1>1, <2>1, <2>2, BeginIs DEF ScheduledRun
    <3>q. QED BY <1>p, <2>1, <2>2, <3>1 DEF InTurn, SchedulerRuns
  <2>3. CASE u # t
    <3>1. ScheduledRun(u)
      BY <2>1, <2>3 DEF ScheduledRun, IsRunning
    <3>2. tx'[t].row.source # "scheduled"
      BY <1>1, <2>1, <3>1, BeginIs DEF ScheduledRun, SchedulerRuns
    <3>3. InTurn(u)
      BY <2>1, <3>1 DEF TurnInv
    <3>q. QED BY <2>1, <3>2, <3>3 DEF InTurn
  <2>q. QED BY <2>2, <2>3
<1>2. ASSUME NEW t \in Tx, Statement(t) \/ Fail(t) PROVE InTurn(u)'
  <2>1. Moves(t)
    BY <1>2, StatementMoves
  <2>2. ~At(t, "new") /\ ~At(t, "ended") /\ tx'[t].row = tx[t].row /\ IsRunning(t) /\ locked
    BY <2>1 DEF Moves, IsRunning, Running, At
  <2>3. \A v \in Tx \ {t} : tx'[v] = tx[v] /\ (At(v, "new")' <=> At(v, "new"))
                            /\ (At(v, "ended")' <=> At(v, "ended"))
    BY <2>1 DEF Moves, At
  <2>4. ScheduledRun(u)
    BY <2>2, <2>3 DEF ScheduledRun, IsRunning
  <2>5. InTurn(u)
    BY <2>2, <2>4 DEF TurnInv
  <2>q. QED BY <2>2, <2>3, <2>5 DEF InTurn
<1>3. CASE TakeLock
  BY <1>3 DEF TakeLock, SchedulerRuns, ScheduledRun, IsRunning
<1>4. CASE LoseLock
  BY <1>4 DEF LoseLock
<1>5. CASE (\E t \in Tx : DeleteOlderThan(t)) \/ DeleteMonitor \/ UNCHANGED vars
  <2>1. tx' = tx /\ locked' = locked
    BY <1>5 DEF DeleteOlderThan, DeleteMonitor, vars
  <2>q. QED BY <2>1 DEF TurnInv, InTurn, ScheduledRun, IsRunning, At
<1>q. QED BY <1>1, <1>2, <1>3, <1>4, <1>5 DEF Next

--------------------------------------------------------------------------------
(* What a call writes is right.                                                 *)

(* A call that does nothing itself: neither the active incident nor the newest   *)
(* two results it would see have changed against it.                            *)
LEMMA CorrectKept ==
  ASSUME NEW u \in Tx, Correct(u), tx'[u] = tx[u], Active' = Active,
         TwoDown(Visible(u))' => TwoDown(Visible(u))
  PROVE  Correct(u)'
  BY DEF Correct, At, Writes

(* While a scheduled call runs under the lock, others that move are manual and   *)
(* change nothing it depends on.                                                *)
LEMMA OthersAreManual ==
  ASSUME TypeOK, TurnInv, locked, NEW u \in Tx, ScheduledRun(u), NEW t \in Tx \ {u}, IsRunning(t)
  PROVE  tx[t].row.source # "scheduled"
<1>1. InTurn(u)
  BY DEF TurnInv
<1>2. ~At(t, "new") /\ ~At(t, "ended")
  BY DEF IsRunning, Running, At
<1>q. QED BY <1>1, <1>2 DEF InTurn

LEMMA ScheduledUnion ==
  ASSUME NEW S, NEW x, x.source # "scheduled"
  PROVE  Scheduled(S \cup {x}) = Scheduled(S)
  BY DEF Scheduled

(* A manual result does not count.                                              *)
LEMMA ManualCommit ==
  ASSUME TypeOK, PhaseInv, NEW t \in Tx, Commit(t), tx[t].row.source # "scheduled"
  PROVE  UNCHANGED <<incidents, settled>> /\ Scheduled(results') = Scheduled(results)
<1>1. tx[t].wrote = {}
  BY DEF PhaseInv
<1>2. incidents' = incidents
  BY <1>1 DEF Commit
<1>3. settled' = settled
  BY DEF Commit, TypeOK
<1>4. Scheduled(results') = Scheduled(results)
  BY ScheduledUnion DEF Commit, Visible
<1>q. QED BY <1>2, <1>3, <1>4

(* Statements other than the commit change nothing that is committed.            *)
LEMMA NoCommit ==
  ASSUME NEW t \in Tx, Statement(t) \/ Fail(t), ~Commit(t)
  PROVE  UNCHANGED <<exists, results, incidents, locked, settled>>
  BY DEF Statement, Insert, LookForActive, Resolve, CountFailures, FirstFailure, OpenOrExtend, Fail, Keep, KeepStore

LEMMA CorrectOther ==
  ASSUME TypeOK, PhaseInv, TurnInv, CorrectInv, locked, NEW t \in Tx, Statement(t) \/ Fail(t),
         NEW u \in Tx \ {t}, ScheduledRun(u)
  PROVE  Correct(u)'
<1>1. Moves(t)
  BY StatementMoves
<1>2. tx[t].row.source # "scheduled"
  BY <1>1, OthersAreManual DEF Moves
<1>3. incidents' = incidents /\ Scheduled(results') = Scheduled(results)
  BY <1>2, NoCommit, ManualCommit
<1>4. tx'[u] = tx[u]
  BY <1>1 DEF Moves
<1>5. Scheduled(results' \cup {tx[u].row}) = Scheduled(results \cup {tx[u].row})
  BY <1>3 DEF Scheduled
<1>6. TwoDown(Visible(u))' => TwoDown(Visible(u))
  BY <1>4, <1>5 DEF TwoDown, Visible
<1>7. Active' = Active
  BY <1>3 DEF Active
<1>8. Correct(u)
  BY DEF CorrectInv
<1>q. QED BY <1>4, <1>6, <1>7, <1>8, CorrectKept

LEMMA CorrectOwn ==
  ASSUME TypeOK, ActiveInv, PhaseInv, CorrectInv, locked, NEW t \in Tx, Statement(t) \/ Fail(t),
         ScheduledRun(t)'
  PROVE  Correct(t)'
<1>1. Moves(t)
  BY StatementMoves
<1>2. tx'[t].row = tx[t].row /\ ScheduledRun(t)
  BY <1>1 DEF Moves, ScheduledRun
<1>3. Correct(t) /\ tx[t] \in Call
  BY <1>2 DEF CorrectInv, TypeOK
<1>4. ~Commit(t) /\ ~Fail(t)
  <2>1. ASSUME Commit(t) \/ Fail(t) PROVE tx'[t].phase = "ended"
    <3>1. tx' = [tx EXCEPT ![t] = [tx[t] EXCEPT !.phase = "ended", !.wrote = {}]]
      BY <2>1 DEF Commit, Fail, Put
    <3>q. QED BY <3>1 DEF TypeOK, Call
  <2>q. QED BY <2>1 DEF ScheduledRun, IsRunning, Running
<1>5. UNCHANGED <<results, incidents>> /\ Active' = Active /\ Visible(t)' = Visible(t)
  BY <1>2, <1>4, NoCommit DEF Active, Visible
<1>6. CASE Insert(t)
  <2>1. tx'[t].phase = "inserted"
    BY <1>2, <1>3, <1>6 DEF Insert, Put, TypeOK, Call, ScheduledRun, IsRunning, Running
  <2>q. QED BY <2>1 DEF Correct, At
<1>7. CASE LookForActive(t)
  <2>1. CASE Active = {}
    <3>1. tx'[t] = [tx[t] EXCEPT !.phase = "written"]
      BY <1>7, <2>1 DEF LookForActive, Put, TypeOK
    <3>2. tx'[t].phase = "written" /\ tx'[t].wrote = {} /\ tx'[t].row.status = "up"
      BY <1>2, <1>3, <1>7, <3>1 DEF Call, LookForActive, PhaseInv, At
    <3>q. QED BY <1>5, <2>1, <3>2 DEF Correct, At
  <2>2. CASE Active # {}
    <3>1. PICK i \in Active : tx' = [tx EXCEPT ![t] = [tx[t] EXCEPT !.phase = "looked", !.saw = i.id]]
      BY <1>7, <2>2 DEF LookForActive, Put
    <3>2. tx'[t].phase = "looked" /\ tx'[t].saw = i.id
      BY <1>3, <3>1 DEF TypeOK, Call
    <3>q. QED BY <1>5, <3>2 DEF Correct, At, ActiveInv, OneActive
  <2>q. QED BY <2>1, <2>2
<1>8. CASE Resolve(t)
  <2> DEFINE w == {[i EXCEPT !.resolved = t] : i \in {i \in Active : i.id = tx[t].saw}}
  <2>1. \A i \in Active : i.id = tx[t].saw
    BY <1>3, <1>8 DEF Resolve, Correct
  <2>2. \A i \in Active : [i EXCEPT !.resolved = t].id = i.id /\ [i EXCEPT !.resolved = t].resolved = t
    BY DEF Active, TypeOK, Incident
  <2>3. \A j \in w : j.resolved # NULL
    <3>1. t # NULL
      BY DEF NULL, Tx
    <3>2. \A j \in w : j.resolved = t
      BY <2>2
    <3>q. QED BY <3>1, <3>2
  <2>4. \A i \in Active : \E j \in w : j.id = i.id
    BY <2>1, <2>2
  <2> HIDE DEF w
  <2>5. tx' = [tx EXCEPT ![t] = [tx[t] EXCEPT !.phase = "written", !.wrote = w]]
    BY <1>8 DEF Resolve, Put, w
  <2>6. tx'[t].phase = "written" /\ tx'[t].wrote = w
    BY <1>3, <2>5 DEF TypeOK, Call
  <2>7. tx'[t].row.status # "down"
    BY <1>2, <1>8 DEF Resolve, PhaseInv
  <2>q. QED BY <1>5, <2>3, <2>4, <2>6, <2>7 DEF Correct, At, Writes
<1>9. CASE CountFailures(t)
  <2>1. PICK p \in {"opening", "written"} :
          /\ tx' = [tx EXCEPT ![t] = [tx[t] EXCEPT !.phase = p]]
          /\ p = "written" => ~TwoDown(Visible(t))
    BY <1>9 DEF CountFailures, Put
  <2>2. tx'[t].phase = p /\ tx'[t].row.status = "down"
    BY <1>2, <1>3, <1>9, <2>1 DEF CountFailures, TypeOK, Call
  <2>3. ~At(t, "looked")' /\ (At(t, "written")' => ~TwoDown(Visible(t))')
    BY <1>5, <2>1, <2>2 DEF At, TwoDown
  <2>q. QED BY <2>2, <2>3 DEF Correct
<1>10. CASE FirstFailure(t)
  <2>1. PICK x \in Newest(Downs(Scheduled(Visible(t))), 2) : tx' = [tx EXCEPT ![t] = [tx[t] EXCEPT !.saw = x.at]]
    BY <1>10 DEF FirstFailure, FirstFailures, Put
  <2>2. tx'[t].phase = "opening"
    BY <1>3, <1>10, <2>1 DEF FirstFailure, At, TypeOK, Call
  <2>q. QED BY <2>2 DEF Correct, At
<1>11. CASE OpenOrExtend(t)
  <2> DEFINE w == IF Active = {} THEN {Opened(t)} ELSE {[i EXCEPT !.last = t] : i \in Active}
  <2>1. \E j \in w : j.resolved = NULL
    <3>1. CASE Active = {}
      BY <3>1 DEF Opened
    <3>2. CASE Active # {}
      <4>1. PICK i \in Active : TRUE
        BY <3>2
      <4>2. [i EXCEPT !.last = t].resolved = NULL
        BY DEF Active, TypeOK, Incident
      <4>q. QED BY <3>2, <4>2
    <3>q. QED BY <3>1, <3>2
  <2> HIDE DEF w
  <2>2. tx' = [tx EXCEPT ![t] = [tx[t] EXCEPT !.phase = "written", !.wrote = w]]
    BY <1>11 DEF OpenOrExtend, Put, w
  <2>3. tx'[t].phase = "written" /\ tx'[t].wrote = w
    BY <1>3, <2>2 DEF TypeOK, Call
  <2>4. tx'[t].row.status # "up"
    BY <1>2, <1>11 DEF OpenOrExtend, PhaseInv
  <2>q. QED BY <2>1, <2>3, <2>4 DEF Correct, At
<1>q. QED BY <1>4, <1>6, <1>7, <1>8, <1>9, <1>10, <1>11 DEF Statement

LEMMA NextCorrect ==
  TypeOK /\ ActiveInv /\ DatedInv /\ PhaseInv /\ TurnInv /\ CorrectInv /\ [Next]_vars => CorrectInv'
<1> SUFFICES ASSUME TypeOK, ActiveInv, DatedInv, PhaseInv, TurnInv, CorrectInv, [Next]_vars,
                    locked', NEW u \in Tx, ScheduledRun(u)'
             PROVE  Correct(u)'
  BY DEF CorrectInv
<1>1. ASSUME NEW t \in Tx, Begin(t) PROVE Correct(u)'
  <2>2. CASE u = t
    BY <1>1, <2>2, BeginIs DEF At, Correct
  <2>3. CASE u # t
    <3>1. tx'[u] = tx[u] /\ UNCHANGED <<results, incidents, locked>>
      BY <1>1, <2>3, BeginIs
    <3>2. Correct(u) /\ Active' = Active /\ Visible(u)' = Visible(u)
      BY <3>1 DEF CorrectInv, ScheduledRun, IsRunning, Active, Visible
    <3>3. TwoDown(Visible(u))' => TwoDown(Visible(u))
      BY <3>2 DEF TwoDown
    <3>q. QED BY <3>1, <3>2, <3>3, CorrectKept
  <2>q. QED BY <2>2, <2>3
<1>2. ASSUME NEW t \in Tx, Statement(t) \/ Fail(t) PROVE Correct(u)'
  <2>1. Moves(t)
    BY <1>2, StatementMoves
  <2>2. CASE u = t
    BY <1>2, <2>1, <2>2, CorrectOwn DEF Moves
  <2>3. CASE u # t
    <3>1. ScheduledRun(u)
      BY <2>1, <2>3 DEF Moves, ScheduledRun, IsRunning
    <3>q. QED BY <1>2, <2>1, <2>3, <3>1, CorrectOther DEF Moves
  <2>q. QED BY <2>2, <2>3
<1>3. ASSUME NEW cutoff \in Tx, DeleteOlderThan(cutoff) PROVE Correct(u)'
  <2>1. tx' = tx /\ incidents' = incidents /\ results' = {x \in results : x.at >= cutoff} /\ locked
    BY <1>3 DEF DeleteOlderThan
  <2>2. ScheduledRun(u) /\ Correct(u)
    BY <2>1 DEF CorrectInv, ScheduledRun, IsRunning
  <2>3. tx[u].row.at = u /\ u >= cutoff
    BY <1>3, <2>2 DEF DatedInv, DeleteOlderThan, ScheduledRun, IsRunning, Running, At
  <2>4. Visible(u)' = {x \in Visible(u) : x.at >= cutoff}
    BY <2>1, <2>3 DEF Visible
  <2>5. TwoDown(Visible(u))' => TwoDown(Visible(u))
    <3>1. DistinctTimes(Scheduled(Visible(u)))
      BY <2>2, VisibleDistinct DEF ScheduledRun
    <3>2. TwoDown(Visible(u))' = TwoDown({x \in Visible(u) : x.at >= cutoff})
      BY <2>4 DEF TwoDown
    <3>q. QED BY <3>1, <3>2, RetentionTwoDown, VisibleType
  <2>q. QED BY <2>1, <2>2, <2>5, CorrectKept DEF Active
<1>4. CASE DeleteMonitor
  BY <1>4 DEF DeleteMonitor, ScheduledRun, IsRunning, Correct, At
<1>5. CASE LoseLock \/ TakeLock
  BY <1>5 DEF LoseLock, TakeLock, SchedulerRuns, ScheduledRun, IsRunning
<1>6. CASE UNCHANGED vars
  <2>1. UNCHANGED <<results, incidents, tx, locked>>
    BY <1>6 DEF vars
  <2>2. Correct(u) /\ Active' = Active /\ Visible(u)' = Visible(u)
    BY <2>1 DEF CorrectInv, ScheduledRun, IsRunning, Active, Visible
  <2>3. TwoDown(Visible(u))' => TwoDown(Visible(u))
    BY <2>2 DEF TwoDown
  <2>q. QED BY <2>1, <2>2, <2>3, CorrectKept
<1>q. QED BY <1>1, <1>2, <1>3, <1>4, <1>5, <1>6 DEF Next

--------------------------------------------------------------------------------

(* What is recorded is a matter of the scheduled results and the incidents.     *)
LEMMA RecordedSame ==
  ASSUME Recorded, incidents' = incidents, Scheduled(results') = Scheduled(results)
  PROVE  Recorded'
<1>1. Active' = Active
  BY DEF Active
<1>2. TwoDown(results)' = TwoDown(results)
  BY DEF TwoDown
<1>3. Newest(Scheduled(results), 1)' = Newest(Scheduled(results), 1)
  BY DEF Newest
<1>q. QED BY <1>1, <1>2, <1>3 DEF Recorded

(* The commit of a scheduled call in turn.                                       *)
LEMMA CommitRecords ==
  ASSUME TypeOK, DatedInv, PhaseInv, NEW t \in Tx, Commit(t), ScheduledRun(t), InTurn(t), Correct(t)
  PROVE  Recorded'
<1> DEFINE r == tx[t].row
           w == tx[t].wrote
<1>1. results' = Visible(t) /\ At(t, "written")
      /\ incidents' = {i \in incidents : \A j \in w : j.id # i.id} \cup w
  BY DEF Commit
<1>2. Newest(Scheduled(results'), 1) = {r} /\ (TwoDown(results') => r.status = "down")
  BY <1>1, RowIsNewest
<1>3. r.status \in {"up", "down"}
  BY DEF TypeOK, Call, Result
<1>4. TwoDown(results)' = TwoDown(results') /\ Newest(Scheduled(results), 1)' = Newest(Scheduled(results'), 1)
  BY DEF TwoDown, Newest
<1>5. CASE r.status = "up"
  <2>1. \A i \in Active : Writes(t, i.id)
    BY <1>1, <1>5 DEF Correct
  <2>2. \A j \in w : j.resolved # NULL
    BY <1>1, <1>5 DEF Correct
  <2>3. Active' = {}
    BY <1>1, <2>1, <2>2 DEF Active, Writes
  <2>q. QED BY <1>2, <1>4, <1>5, <2>3 DEF Recorded
<1>6. CASE r.status = "down"
  <2>1. (\E j \in w : j.resolved = NULL) \/ ~TwoDown(Visible(t))
    BY <1>1, <1>6 DEF Correct
  <2>2. TwoDown(results)' => Active' # {}
    BY <1>1, <1>4, <2>1 DEF Active
  <2>q. QED BY <1>2, <1>4, <1>6, <2>2 DEF Recorded
<1>q. QED BY <1>3, <1>5, <1>6

LEMMA NextRecorded ==
  ASSUME TypeOK, DatedInv, PhaseInv, TurnInv, CorrectInv, settled => locked /\ Recorded, [Next]_vars, settled'
  PROVE  locked' /\ Recorded'
<1>1. ASSUME NEW t \in Tx, Commit(t) PROVE locked' /\ Recorded'
  <2>0. locked' = locked /\ IsRunning(t)
    BY <1>1 DEF Commit, IsRunning, Running, At
  <2>1. CASE tx[t].row.source # "scheduled"
    BY <1>1, <2>0, <2>1, ManualCommit, RecordedSame
  <2>2. CASE tx[t].row.source = "scheduled"
    <3>1. locked
      BY <1>1 DEF Commit
    <3>2. ScheduledRun(t) /\ InTurn(t) /\ Correct(t)
      BY <2>0, <2>2, <3>1 DEF ScheduledRun, TurnInv, CorrectInv
    <3>q. QED BY <1>1, <2>0, <3>1, <3>2, CommitRecords
  <2>q. QED BY <2>1, <2>2
<1>2. ASSUME NEW t \in Tx, Begin(t) \/ Statement(t) \/ Fail(t), ~Commit(t) PROVE locked' /\ Recorded'
  <2>1. UNCHANGED <<results, incidents, locked, settled>>
    BY <1>2, NoCommit, BeginIs
  <2>q. QED BY <2>1, RecordedSame
<1>3. ASSUME NEW cutoff \in Tx, DeleteOlderThan(cutoff) PROVE locked' /\ Recorded'
  <2> DEFINE R == {x \in results : x.at >= cutoff}
  <2>1. results' = R /\ UNCHANGED <<incidents, locked, settled>>
    BY <1>3 DEF DeleteOlderThan
  <2>2. locked /\ Recorded /\ Active' = Active
    BY <2>1 DEF Active
  <2>3. results \in SUBSET Result /\ DistinctTimes(Scheduled(results))
    BY ResultsDistinct DEF TypeOK
  <2>4. TwoDown(R) => TwoDown(results)
    BY <2>3, RetentionTwoDown
  <2>5. Scheduled(R) = {x \in Scheduled(results) : x.at >= cutoff}
    BY DEF Scheduled
  <2>6. Newest(Scheduled(R), 1) \subseteq Newest(Scheduled(results), 1)
    BY <2>3, <2>5, NewestKept DEF Scheduled
  <2>7. TwoDown(results)' = TwoDown(R) /\ Newest(Scheduled(results), 1)' = Newest(Scheduled(R), 1)
    BY <2>1 DEF TwoDown, Newest
  <2>q. QED BY <2>1, <2>2, <2>4, <2>6, <2>7 DEF Recorded
<1>4. CASE DeleteMonitor
  <2>1. results' = {} /\ Active' = {} /\ UNCHANGED <<locked, settled>>
    BY <1>4 DEF DeleteMonitor, Active
  <2>2. Scheduled(results') = {}
    BY <2>1 DEF Scheduled
  <2>3. DistinctTimes(Scheduled({})) /\ Newest(Scheduled({}), 2) = {}
    BY FS_EmptySet DEF DistinctTimes, Scheduled, Newest
  <2>4. ~TwoDown({})
    BY <2>3, TwoDownIs
  <2>5. ~TwoDown(results)'
    BY <2>1, <2>4 DEF TwoDown
  <2>q. QED BY <2>1, <2>5 DEF Recorded
<1>5. CASE LoseLock \/ TakeLock
  BY <1>5 DEF LoseLock, TakeLock
<1>6. CASE UNCHANGED vars
  BY <1>6, RecordedSame DEF vars
<1>q. QED BY <1>1, <1>2, <1>3, <1>4, <1>5, <1>6 DEF Next

LEMMA InitOutage == Init => OutageInv
<1> SUFFICES ASSUME Init PROVE OutageInv
  OBVIOUS
<1>1. \A t \in Tx : At(t, "new") /\ ~IsRunning(t) /\ tx[t].wrote = {}
  BY DEF Init, At, IsRunning, Running, NoCall
<1>2. DatedInv /\ PhaseInv /\ TurnInv /\ CorrectInv
  BY <1>1, FS_EmptySet DEF Init, DatedInv, PhaseInv, TurnInv, CorrectInv, ScheduledRun, At
<1>3. DistinctTimes(Scheduled(results)) /\ Newest(Scheduled(results), 1) = {} /\ Newest(Scheduled(results), 2) = {}
  BY FS_EmptySet DEF Init, DistinctTimes, Scheduled, Newest
<1>4. ~TwoDown(results)
  BY <1>3, TwoDownIs
<1>q. QED BY <1>2, <1>3, <1>4 DEF OutageInv, Recorded, Init

LEMMA NextOutage == TypeOK /\ ActiveInv /\ OutageInv /\ [Next]_vars => OutageInv'
  BY NextDated, NextPhase, NextTurn, NextCorrect, NextRecorded DEF OutageInv

(* While the scheduler's lock holds, two retained failures in a row have an      *)
(* active incident and a success leaves none, however the statements of manual   *)
(* checks, retention, failures and deletion come in between; and the first       *)
(* scheduled result stored under a lock taken again puts right what concurrent   *)
(* calls got wrong (updateIncident in PostgresChecks.Create).                    *)
THEOREM OutagesAreRecorded == Spec => []OutagesRecorded
<1>1. Init => ActiveInv
  BY DEF Init, ActiveInv, OneActive, OneWriter, Active, NoCall
<1>2. TypeOK /\ ActiveInv /\ [Next]_vars => ActiveInv'
  BY NextActive
<1>3. OutageInv => OutagesRecorded
  BY DEF OutageInv, Recorded, OutagesRecorded
<1>q. QED BY <1>1, <1>2, <1>3, InitOutage, NextOutage, TypeCorrect, PTL DEF Spec

--------------------------------------------------------------------------------
(* No circle of waiting.                                                        *)

LEMMA LeastNumber ==
  ASSUME NEW T \in SUBSET Nat, T # {}
  PROVE  \E x \in T : \A y \in T : x <= y
<1>1. PICK x \in T : \A y \in T : <<y, x>> \notin OpToRel(<, Nat)
  BY NatLessThanWellFounded, WFMin
<1>2. \A y \in T : ~(y < x)
  BY <1>1 DEF OpToRel
<1>q. QED BY <1>2

(* The subquery for the first failure finds a row.                               *)
LEMMA FirstIsFound ==
  ASSUME NEW S, DistinctTimes(S), S # {}
  PROVE  \E x \in Newest(S, 2) : \A y \in Newest(S, 2) : x.at <= y.at
<1>0. \A x \in S : x.at \in Nat /\ MaxTx - x.at \in Nat
  BY TxAssumption DEF DistinctTimes, Result, Tx
<1>1. Newest(S, 2) # {} /\ Newest(S, 2) \subseteq S
  <2>1. PICK n \in {MaxTx - x.at : x \in S} : \A k \in {MaxTx - x.at : x \in S} : n <= k
    <3> HIDE DEF Tx
    <3>1. {MaxTx - x.at : x \in S} \in SUBSET Nat /\ {MaxTx - x.at : x \in S} # {}
      BY <1>0
    <3>q. QED BY <3>1, LeastNumber
  <2>2. PICK x \in S : \A y \in S : MaxTx - x.at <= MaxTx - y.at
    BY <2>1
  <2>3. \A y \in S : ~(y.at > x.at)
    BY <1>0, <2>2, TxAssumption
  <2>4. x \in Newest(S, 2)
    BY <2>3, NewestTwo
  <2>q. QED BY <2>4 DEF Newest
<1>2. PICK n \in {x.at : x \in Newest(S, 2)} : \A k \in {x.at : x \in Newest(S, 2)} : n <= k
  <2>1. {x.at : x \in Newest(S, 2)} \in SUBSET Nat /\ {x.at : x \in Newest(S, 2)} # {}
    BY <1>0, <1>1
  <2>q. QED BY <2>1, LeastNumber
<1>q. QED BY <1>2

(* Who has written waits for nobody: it commits or fails.                       *)
LEMMA WriterGoesOn ==
  ASSUME PhaseInv, NEW u \in Tx, tx[u].wrote # {}
  PROVE  CanGoOn(u)
<1>1. At(u, "written")
  BY DEF PhaseInv
<1>q. QED BY <1>1 DEF CanGoOn, IsRunning, Running, At, Waits, WaitsFor

(* Without a writer nobody has anything to wait for.                            *)
LEMMA SomeoneGoesOn ==
  ASSUME TypeOK, DatedInv, PhaseInv
  PROVE  SomeCallGoesOn
<1>0. \A t, u \in Tx : WaitsFor(t, u) => tx[u].wrote # {}
  BY DEF WaitsFor, Writes
<1>1. ASSUME NEW t \in Tx, NEW u \in Tx, WaitsFor(t, u) PROVE CanGoOn(u)
  BY <1>0, <1>1, WriterGoesOn
<1>2. ASSUME NEW t \in Tx, IsRunning(t) PROVE \E u \in Tx : CanGoOn(u)
  <2>1. CASE \E u \in Tx : tx[u].wrote # {}
    BY <2>1, WriterGoesOn
  <2>2. CASE \A u \in Tx : tx[u].wrote = {}
    <3>1. ASSUME At(t, "opening"), tx[t].saw = NULL PROVE FirstFailures(t) # {}
      <4> DEFINE D == Downs(Scheduled(Visible(t)))
      <4>1. tx[t].row \in D
        BY <3>1 DEF PhaseInv, Downs, Scheduled, Visible
      <4>2. DistinctTimes(Scheduled(Visible(t)))
        BY <1>2, VisibleDistinct
      <4>3. DistinctTimes(D)
        BY <4>2, FS_Subset DEF DistinctTimes, Downs
      <4>4. \E x \in Newest(D, 2) : \A y \in Newest(D, 2) : x.at <= y.at
        <5> HIDE DEF D
        <5>q. QED BY <4>1, <4>3, FirstIsFound
      <4>q. QED BY <4>4 DEF FirstFailures
    <3>2. ~Waits(t)
      BY <1>0, <2>2 DEF Waits
    <3>q. QED BY <1>2, <3>1, <3>2 DEF CanGoOn
  <2>q. QED BY <2>1, <2>2
<1>q. QED BY <1>1, <1>2 DEF SomeCallGoesOn

(* However many calls run, they never wait for each other in a circle: a call    *)
(* waits only for one that has what it needs for its next statement, and while   *)
(* calls run there is one (the row locks and the unique index that               *)
(* updateIncident relies on).                                                   *)
THEOREM NoCircle == Spec => []SomeCallGoesOn
<1>1. Init => ActiveInv
  BY DEF Init, ActiveInv, OneActive, OneWriter, Active, NoCall
<1>2. TypeOK /\ ActiveInv /\ [Next]_vars => ActiveInv'
  BY NextActive
<1>3. TypeOK /\ OutageInv => SomeCallGoesOn
  BY SomeoneGoesOn DEF OutageInv
<1>q. QED BY <1>1, <1>2, <1>3, InitOutage, NextOutage, TypeCorrect, PTL DEF Spec

--------------------------------------------------------------------------------
(* Create is one step.                                                       *)

(* The rows of incidents are named by calls that have ended, each by another.    *)
NamesInv ==
    /\ \A i, j \in incidents : i.id = j.id => i = j
    /\ \A i \in incidents : At(i.id, "ended")
    /\ \A t \in Tx : \A j \in tx[t].wrote : j.id = t \/ At(j.id, "ended")

(* The newest scheduled result is a failure of time n.                           *)
NewestFailed(n) == \E x \in Scheduled(results) :
    x.status = "down" /\ x.at = n /\ \A z \in Scheduled(results) : z.at <= x.at

(* Call u stored a failure that retention has deleted since the last count.      *)
ForgotFailure(u) ==
    /\ tx[u].row \in forgotten
    /\ At(u, "ended") /\ tx[u].row.source = "scheduled" /\ tx[u].row.status = "down"
    /\ \A x \in results : u < x.at
    /\ \A v \in Tx : ~At(v, "ended") => u < v

(* Call t may open an incident that names n as its first failure.                *)
MayOpen(t, n) ==
    \/ NewestFailed(n)
    \/ Scheduled(results) = {} /\ \E u \in Tx : ForgotFailure(u) /\ n \in {u, t}

Resolving(t) == {[i EXCEPT !.resolved = t] : i \in Active}
Opening(t, n) ==
    IF Active = {} THEN {[id |-> t, first |-> n, last |-> t, resolved |-> NULL]}
    ELSE {[i EXCEPT !.last = t] : i \in Active}

(* What a call in turn writes is what one step would.                            *)
Exact(t) ==
    /\ At(t, "opening") =>
         (\E n \in Tx : MayOpen(t, n)) /\ (tx[t].saw # NULL => MayOpen(t, tx[t].saw))
    /\ At(t, "written") /\ tx[t].row.status = "up" => tx[t].wrote = Resolving(t)
    /\ At(t, "written") /\ tx[t].row.status = "down" =>
         \/ tx[t].wrote = {} /\ \A n \in Tx : ~NewestFailed(n)
         \/ \E n \in Tx : MayOpen(t, n) /\ tx[t].wrote = Opening(t, n)

ExactInv == locked => \A t \in Tx : ScheduledRun(t) => Exact(t)

LEMMA WroteNamed ==
  ASSUME TypeOK, PhaseInv, NamesInv, NEW t \in Tx, Statement(t) \/ Fail(t), NEW j \in tx'[t].wrote
  PROVE  j.id = t \/ At(j.id, "ended")
<1>t. tx[t] \in Call /\ \A i \in incidents : i.id \in Tx /\ i \in Incident
  BY DEF TypeOK, Incident
<1>1. CASE tx'[t].wrote \subseteq tx[t].wrote
  BY <1>1 DEF NamesInv
<1>2. CASE Resolve(t)
  <2> DEFINE w == {[i EXCEPT !.resolved = t] : i \in {i \in Active : i.id = tx[t].saw}}
  <2>1. \A k \in w : At(k.id, "ended")
    <3>1. \A i \in Active : [i EXCEPT !.resolved = t].id = i.id /\ At(i.id, "ended")
      BY <1>t DEF Active, Incident, NamesInv
    <3>q. QED BY <3>1
  <2> HIDE DEF w
  <2>2. tx' = [tx EXCEPT ![t] = [tx[t] EXCEPT !.phase = "written", !.wrote = w]]
    BY <1>2 DEF Resolve, Put, w
  <2>q. QED BY <1>t, <2>1, <2>2 DEF TypeOK, Call
<1>3. CASE OpenOrExtend(t)
  <2> DEFINE w == IF Active = {} THEN {Opened(t)} ELSE {[i EXCEPT !.last = t] : i \in Active}
  <2>1. \A k \in w : k.id = t \/ At(k.id, "ended")
    <3>1. \A i \in Active : [i EXCEPT !.last = t].id = i.id /\ At(i.id, "ended")
      BY <1>t DEF Active, Incident, NamesInv
    <3>2. Opened(t).id = t
      BY DEF Opened
    <3>q. QED BY <3>1, <3>2
  <2> HIDE DEF w
  <2>2. tx' = [tx EXCEPT ![t] = [tx[t] EXCEPT !.phase = "written", !.wrote = w]]
    BY <1>3 DEF OpenOrExtend, Put, w
  <2>q. QED BY <1>t, <2>1, <2>2 DEF TypeOK, Call
<1>4. CASE ~Resolve(t) /\ ~OpenOrExtend(t)
  <2> USE DEF Put, TypeOK, Call
  <2>1. CASE Insert(t) \/ CountFailures(t)
    BY <1>1, <1>t, <2>1 DEF Insert, CountFailures
  <2>2. CASE LookForActive(t)
    <3>1. tx'[t].wrote = tx[t].wrote
      BY <1>t, <2>2 DEF LookForActive
    <3>q. QED BY <1>1, <3>1
  <2>3. CASE FirstFailure(t)
    <3>1. tx'[t].wrote = tx[t].wrote
      BY <1>t, <2>3 DEF FirstFailure
    <3>q. QED BY <1>1, <3>1
  <2>4. CASE Commit(t) \/ Fail(t)
    <3>1. tx' = [tx EXCEPT ![t] = [tx[t] EXCEPT !.phase = "ended", !.wrote = {}]]
      BY <2>4 DEF Commit, Fail
    <3>2. tx'[t].wrote = {}
      BY <1>t, <3>1
    <3>q. QED BY <3>2
  <2> HIDE DEF Put, TypeOK, Call
  <2>q. QED BY <1>4, <2>1, <2>2, <2>3, <2>4 DEF Statement
<1>q. QED BY <1>2, <1>3, <1>4

LEMMA NextNames == TypeOK /\ ActiveInv /\ PhaseInv /\ NamesInv /\ [Next]_vars => NamesInv'
<1> SUFFICES ASSUME TypeOK, ActiveInv, PhaseInv, NamesInv, [Next]_vars PROVE NamesInv'
  OBVIOUS
<1>r. \A i \in incidents : i.id \in Tx
  BY DEF TypeOK, Incident
<1>w. \A v \in Tx : \A j \in tx[v].wrote : j.id \in Tx
  BY DEF TypeOK, Call, Incident
<1>1. ASSUME NEW t \in Tx, Begin(t) PROVE NamesInv'
  <2>1. \A v \in Tx : At(v, "ended") => At(v, "ended")'
    BY <1>1, BeginIs DEF At
  <2>2. incidents' = incidents /\ tx'[t].wrote = {} /\ \A v \in Tx \ {t} : tx'[v] = tx[v]
    BY <1>1, BeginIs
  <2>q. QED BY <1>r, <1>w, <2>1, <2>2 DEF NamesInv
<1>2. ASSUME NEW t \in Tx, Statement(t) \/ Fail(t) PROVE NamesInv'
  <2>1. Moves(t)
    BY <1>2, StatementMoves
  <2>2. ~At(t, "ended") /\ \A v \in Tx : At(v, "ended") => At(v, "ended")'
    BY <2>1 DEF Moves, At, IsRunning, Running
  <2>3. \A v \in Tx : \A j \in tx'[v].wrote : j.id \in Tx /\ (j.id = v \/ At(j.id, "ended")')
    <3>1. TypeOK'
      BY NextType, <1>2 DEF Next
    <3>2. \A v \in Tx : \A j \in tx'[v].wrote : j.id \in Tx
      BY <3>1 DEF TypeOK, Call, Incident
    <3>3. \A j \in tx'[t].wrote : j.id = t \/ At(j.id, "ended")
      BY <1>2, WroteNamed
    <3>4. \A v \in Tx \ {t} : tx'[v] = tx[v]
      BY <2>1 DEF Moves
    <3>q. QED BY <1>w, <2>2, <3>2, <3>3, <3>4 DEF NamesInv
  <2>4. CASE ~Commit(t)
    <3>1. incidents' = incidents
      BY <1>2, <2>4, NoCommit
    <3>q. QED BY <1>r, <2>2, <2>3, <3>1 DEF NamesInv
  <2>5. CASE Commit(t)
    <3>1. incidents' = {i \in incidents : \A j \in tx[t].wrote : j.id # i.id} \cup tx[t].wrote
      BY <2>5 DEF Commit
    <3>2. \A i, j \in tx[t].wrote : i = j
      BY DEF ActiveInv, OneWriter
    <3>3. \A i, j \in incidents' : i.id = j.id => i = j
      BY <3>1, <3>2 DEF NamesInv
    <3>4. tx'[t].phase = "ended"
      <4>1. tx' = [tx EXCEPT ![t] = [tx[t] EXCEPT !.phase = "ended", !.wrote = {}]]
        BY <2>5 DEF Commit, Put
      <4>q. QED BY <4>1 DEF TypeOK, Call
    <3>5. \A i \in incidents' : At(i.id, "ended")'
      BY <1>r, <1>w, <2>2, <3>1, <3>4 DEF NamesInv, At
    <3>q. QED BY <2>3, <3>3, <3>5 DEF NamesInv
  <2>q. QED BY <2>4, <2>5
<1>3. CASE (\E t \in Tx : DeleteOlderThan(t)) \/ DeleteMonitor \/ LoseLock \/ TakeLock \/ UNCHANGED vars
  <2>1. tx' = tx /\ incidents' \in {incidents, {}}
    BY <1>3 DEF DeleteOlderThan, DeleteMonitor, LoseLock, TakeLock, vars
  <2>q. QED BY <2>1 DEF NamesInv, At
<1>q. QED BY <1>1, <1>2, <1>3 DEF Next

(* The newest two of rows that are all older than c, and c.                      *)
LEMMA NewestPair ==
  ASSUME NEW R, NEW c, DistinctTimes(R \cup {c}), \A z \in R : z.at < c.at,
         NEW x \in R, \A z \in R : z.at <= x.at
  PROVE  Newest(R \cup {c}, 2) = {x, c}
<1> DEFINE S == R \cup {c}
<1>1. \A z \in S : z.at \in Nat
  BY DEF DistinctTimes, Result, Tx
<1>2. Newest(S, 2) = {u \in S : \A y, z \in S : y.at > u.at /\ z.at > u.at => y = z}
  BY NewestTwo
<1>3. x \in Newest(S, 2)
  BY <1>1, <1>2
<1>4. c \in Newest(S, 2)
  <2>1. \A z \in S : ~(z.at > c.at)
    BY <1>1
  <2>q. QED BY <1>2, <2>1
<1>q. QED BY <1>1, <1>3, <1>4, AtMostTwo

LEMMA TwoDownPair ==
  ASSUME NEW S, NEW c, c.source = "scheduled", DistinctTimes(Scheduled(S) \cup {c}),
         \A z \in Scheduled(S) : z.at < c.at
  PROVE  TwoDown(S \cup {c}) <=>
           c.status = "down" /\ \E x \in Scheduled(S) : x.status = "down" /\ \A z \in Scheduled(S) : z.at <= x.at
<1> DEFINE R == Scheduled(S)
<1>1. Scheduled(S \cup {c}) = R \cup {c}
  BY DEF Scheduled
<1>2. \A z \in R \cup {c} : z.at \in Nat
  BY DEF DistinctTimes, Result, Tx
<1>3. TwoDown(S \cup {c}) <=>
        \E x, y \in Newest(R \cup {c}, 2) : x # y /\ x.status = "down" /\ y.status = "down"
  BY <1>1, TwoDownIs
<1>4. ASSUME NEW x \in R, x.status = "down", \A z \in R : z.at <= x.at, c.status = "down"
      PROVE  TwoDown(S \cup {c})
  <2>1. Newest(R \cup {c}, 2) = {x, c}
    BY <1>4, NewestPair
  <2>2. x # c
    BY <1>2, <1>4
  <2>q. QED BY <1>3, <1>4, <2>1, <2>2
<1>5. ASSUME NEW x \in Newest(R \cup {c}, 2), NEW y \in Newest(R \cup {c}, 2), x # y
      PROVE  \E z \in {x, y} : z \in R /\ {x, y} = {z, c} /\ \A u \in R : u.at <= z.at
  <2>1. Newest(R \cup {c}, 2) =
          {u \in R \cup {c} : \A v, z \in R \cup {c} : v.at > u.at /\ z.at > u.at => v = z}
    BY NewestTwo
  <2>2. x \in R \cup {c} /\ y \in R \cup {c} /\ x.at # y.at
    BY <1>5, <2>1 DEF DistinctTimes
  <2>3. ASSUME NEW z \in {x, y}, z # c PROVE \A u \in R : u.at <= z.at
    <3>1. SUFFICES ASSUME NEW u \in R, u.at > z.at PROVE FALSE
      BY <1>2, <2>2, <2>3
    <3>2. z \in R /\ z.at < c.at /\ u.at < c.at
      BY <2>2, <2>3
    <3>3. u = c
      BY <2>1, <3>1, <3>2, <1>2
    <3>q. QED BY <1>2, <3>2, <3>3
  <2>4. x = c \/ y = c
    BY <1>2, <2>2, <2>3
  <2>q. QED BY <1>5, <2>2, <2>3, <2>4
<1>6. ASSUME TwoDown(S \cup {c})
      PROVE  c.status = "down" /\ \E x \in R : x.status = "down" /\ \A z \in R : z.at <= x.at
  <2>1. PICK x, y \in Newest(R \cup {c}, 2) : x # y /\ x.status = "down" /\ y.status = "down"
    BY <1>3, <1>6
  <2>2. PICK z \in {x, y} : z \in R /\ {x, y} = {z, c} /\ \A u \in R : u.at <= z.at
    BY <1>5, <2>1
  <2>q. QED BY <2>1, <2>2
<1>q. QED BY <1>4, <1>6

(* A scheduled call in turn is newer than every scheduled result.                *)
LEMMA OlderInTurn ==
  ASSUME TypeOK, DatedInv, NEW t \in Tx, ScheduledRun(t), InTurn(t)
  PROVE  /\ tx[t].row.at = t /\ tx[t].row \notin results /\ tx[t].row.source = "scheduled"
         /\ \A x \in Scheduled(results) : x.at < t
         /\ Scheduled(Visible(t)) = Scheduled(results) \cup {tx[t].row}
         /\ DistinctTimes(Scheduled(results) \cup {tx[t].row})
<1>1. tx[t].row.at = t /\ ~At(t, "ended") /\ tx[t].row.source = "scheduled"
  BY DEF ScheduledRun, IsRunning, Running, At, DatedInv
<1>2. tx[t].row \notin results
  BY <1>1 DEF DatedInv
<1>3. ASSUME NEW x \in Scheduled(results) PROVE x.at < t
  <2>1. x.at \in Tx /\ At(x.at, "ended") /\ tx[x.at].row = x /\ x.source = "scheduled"
    BY DEF TypeOK, DatedInv, Result, Scheduled
  <2>q. QED BY <1>1, <2>1 DEF InTurn, At, Tx
<1>4. Scheduled(Visible(t)) = Scheduled(results) \cup {tx[t].row}
  BY <1>1 DEF Scheduled, Visible
<1>5. DistinctTimes(Scheduled(Visible(t)))
  BY VisibleDistinct DEF ScheduledRun
<1>q. QED BY <1>1, <1>2, <1>3, <1>4, <1>5

(* It counts two failures if it is one and the result before it was one.        *)
LEMMA CountInTurn ==
  ASSUME TypeOK, DatedInv, NEW t \in Tx, ScheduledRun(t), InTurn(t)
  PROVE  TwoDown(Visible(t)) <=> tx[t].row.status = "down" /\ \E n \in Tx : NewestFailed(n)
<1>1. TwoDown(results \cup {tx[t].row}) <=>
        /\ tx[t].row.status = "down"
        /\ \E x \in Scheduled(results) : x.status = "down" /\ \A z \in Scheduled(results) : z.at <= x.at
  <2>1. /\ tx[t].row.source = "scheduled" /\ DistinctTimes(Scheduled(results) \cup {tx[t].row})
        /\ \A z \in Scheduled(results) : z.at < tx[t].row.at
    BY OlderInTurn
  <2>q. QED BY <2>1, TwoDownPair
<1>2. \A x \in Scheduled(results) : x.at \in Tx
  BY DEF TypeOK, Result, Scheduled
<1>q. QED BY <1>1, <1>2 DEF Visible, NewestFailed

LEMMA ForgotStays ==
  ASSUME NEW u \in Tx, ForgotFailure(u), tx'[u] = tx[u], forgotten \subseteq forgotten',
         \A v \in Tx : At(v, "ended") => At(v, "ended")',
         \A x \in results' : x \in results \/ \E v \in Tx : ~At(v, "ended") /\ x.at = v
  PROVE  ForgotFailure(u)'
  BY DEF ForgotFailure, At

(* Steps that leave the scheduled results alone.                                *)
LEMMA MayOpenStays ==
  ASSUME NEW t \in Tx, NEW n \in Tx, MayOpen(t, n), Scheduled(results') = Scheduled(results),
         forgotten \subseteq forgotten',
         \A v \in Tx : At(v, "ended") => tx'[v] = tx[v],
         \A x \in results' : x \in results \/ \E v \in Tx : ~At(v, "ended") /\ x.at = v
  PROVE  MayOpen(t, n)'
<1>1. CASE NewestFailed(n)
  BY <1>1 DEF MayOpen, NewestFailed, Scheduled
<1>2. CASE Scheduled(results) = {} /\ \E u \in Tx : ForgotFailure(u) /\ n \in {u, t}
  <2>1. PICK u \in Tx : ForgotFailure(u) /\ n \in {u, t}
    BY <1>2
  <2>2. At(u, "ended")
    BY <2>1 DEF ForgotFailure
  <2>3. ForgotFailure(u)'
    BY <2>1, <2>2, ForgotStays DEF At
  <2>4. Scheduled(results)' = {}
    BY <1>2 DEF Scheduled
  <2>q. QED BY <2>1, <2>3, <2>4 DEF MayOpen
<1>q. QED BY <1>1, <1>2 DEF MayOpen

(* Retention deletes the newest failure only after all the rest, and then it is  *)
(* a forgotten one.                                                             *)
LEMMA RetentionMayOpen ==
  ASSUME TypeOK, DatedInv, NEW cutoff \in Tx, DeleteOlderThan(cutoff), NEW t \in Tx, ScheduledRun(t), NEW n \in Tx
  PROVE  /\ MayOpen(t, n) => MayOpen(t, n)'
         /\ NewestFailed(n)' => NewestFailed(n)
<1>1. /\ results' = {x \in results : x.at >= cutoff} /\ tx' = tx
      /\ forgotten' = forgotten \cup (results \ results')
      /\ \A v \in Tx : ~At(v, "ended") => cutoff <= v
  BY DEF DeleteOlderThan
<1>2. Scheduled(results)' = {x \in Scheduled(results) : x.at >= cutoff}
  BY <1>1 DEF Scheduled
<1>3. \A x \in results : x.at \in Nat
  BY DEF TypeOK, Result, Tx
<1>n. cutoff \in Nat /\ n \in Nat /\ \A v \in Tx : v \in Nat
  BY DEF Tx
<1>4. ASSUME NewestFailed(n) PROVE MayOpen(t, n)'
  <2>1. PICK x \in Scheduled(results) :
          x.status = "down" /\ x.at = n /\ \A z \in Scheduled(results) : z.at <= x.at
    BY <1>4 DEF NewestFailed
  <2>2. CASE x.at >= cutoff
    <3>1. NewestFailed(n)'
      BY <1>2, <2>1, <2>2 DEF NewestFailed
    <3>q. QED BY <3>1 DEF MayOpen
  <2>3. CASE ~(x.at >= cutoff)
    <3>1. Scheduled(results)' = {}
      BY <1>2, <1>3, <1>n, <2>1, <2>3 DEF Scheduled
    <3>2. x \in results /\ x.source = "scheduled" /\ At(n, "ended") /\ tx[n].row = x
      BY <2>1 DEF Scheduled, DatedInv
    <3>3. \A z \in results' : n < z.at
      BY <1>1, <1>3, <1>n, <2>1, <2>3
    <3>4. \A v \in Tx : ~At(v, "ended") => n < v
      BY <1>1, <1>n, <2>1, <2>3
    <3>6. tx[n].row \in forgotten'
      <4>1. x \notin results'
        BY <1>1, <2>3
      <4>2. x \in forgotten'
        BY <1>1, <3>2, <4>1
      <4>q. QED BY <3>2, <4>2
    <3>5. ForgotFailure(n)'
      BY <1>1, <2>1, <3>2, <3>3, <3>4, <3>6 DEF ForgotFailure, At
    <3>q. QED BY <3>1, <3>5 DEF MayOpen
  <2>q. QED BY <2>2, <2>3
<1>5. ASSUME Scheduled(results) = {}, NEW u \in Tx, ForgotFailure(u), n \in {u, t} PROVE MayOpen(t, n)'
  <2>1. Scheduled(results)' = {}
    BY <1>2, <1>5
  <2>2. ForgotFailure(u)'
    BY <1>1, <1>5, ForgotStays DEF At
  <2>q. QED BY <1>5, <2>1, <2>2 DEF MayOpen
<1>6. ASSUME NewestFailed(n)' PROVE NewestFailed(n)
  <2>1. PICK x \in Scheduled(results)' :
          x.status = "down" /\ x.at = n /\ \A z \in Scheduled(results)' : z.at <= x.at
    BY <1>6 DEF NewestFailed
  <2>2. x \in Scheduled(results) /\ x.at >= cutoff
    BY <1>2, <2>1
  <2>3. ASSUME NEW z \in Scheduled(results) PROVE z.at <= x.at
    <3>1. z.at \in Nat /\ x.at \in Nat
      BY <1>3, <2>2 DEF Scheduled
    <3>q. QED BY <1>2, <1>n, <2>1, <2>2, <3>1
  <2>q. QED BY <2>1, <2>2, <2>3 DEF NewestFailed
<1>q. QED BY <1>4, <1>5, <1>6 DEF MayOpen

LEMMA ExactKept ==
  ASSUME NEW u \in Tx, Exact(u), tx'[u] = tx[u], tx[u].saw \in Tx \cup {NULL}, Active' = Active,
         \A n \in Tx : (MayOpen(u, n) => MayOpen(u, n)') /\ (NewestFailed(n)' => NewestFailed(n))
  PROVE  Exact(u)'
<1>1. Resolving(u)' = Resolving(u) /\ \A n \in Tx : Opening(u, n)' = Opening(u, n)
  BY DEF Resolving, Opening
<1>q. QED BY <1>1 DEF Exact, At

(* What stays of results and calls when a statement of t is executed.            *)
LEMMA EndedStay ==
  ASSUME TypeOK, DatedInv, NEW t \in Tx, Statement(t) \/ Fail(t)
  PROVE  /\ \A v \in Tx : At(v, "ended") => tx'[v] = tx[v]
         /\ \A x \in results' : x \in results \/ \E v \in Tx : ~At(v, "ended") /\ x.at = v
         /\ ~CountFailures(t) => forgotten' = forgotten
<1>1. Moves(t)
  BY StatementMoves
<1>4. ~CountFailures(t) => forgotten' = forgotten
  BY DEF Statement, Insert, LookForActive, Resolve, FirstFailure, OpenOrExtend, Commit, Fail, Keep, KeepStore
<1>2. ~At(t, "ended") /\ ~At(t, "new")
  BY <1>1 DEF Moves, IsRunning, Running, At
<1>3. \A x \in results' : x \in results \/ x = tx[t].row
  BY NoCommit DEF Commit, Visible
<1>q. QED BY <1>1, <1>2, <1>3, <1>4 DEF Moves, DatedInv

LEMMA ExactOther ==
  ASSUME TypeOK, DatedInv, PhaseInv, TurnInv, ExactInv, locked, NEW t \in Tx, Statement(t) \/ Fail(t),
         NEW u \in Tx \ {t}, ScheduledRun(u)
  PROVE  Exact(u)'
<1>1. Moves(t)
  BY StatementMoves
<1>2. tx[t].row.source # "scheduled"
  BY <1>1, OthersAreManual DEF Moves
<1>3. incidents' = incidents /\ Scheduled(results') = Scheduled(results)
  BY <1>2, NoCommit, ManualCommit
<1>4. tx'[u] = tx[u] /\ tx[u].saw \in Tx \cup {NULL} /\ Exact(u)
  BY <1>1 DEF Moves, TypeOK, Call, ExactInv
<1>8. ~CountFailures(t)
  BY <1>2 DEF CountFailures, PhaseInv
<1>5. \A n \in Tx : MayOpen(u, n) => MayOpen(u, n)'
  BY <1>3, <1>8, EndedStay, MayOpenStays
<1>6. \A n \in Tx : NewestFailed(n)' => NewestFailed(n)
  BY <1>3 DEF NewestFailed, Scheduled
<1>7. Active' = Active
  BY <1>3 DEF Active
<1>q. QED BY <1>4, <1>5, <1>6, <1>7, ExactKept

(* The first of the newest two failures, when the count was two.                 *)
LEMMA FirstInTurn ==
  ASSUME TypeOK, DatedInv, NEW t \in Tx, ScheduledRun(t), InTurn(t), tx[t].row.status = "down",
         NEW n \in Tx, MayOpen(t, n),
         NEW x \in Newest(Downs(Scheduled(Visible(t))), 2),
         \A y \in Newest(Downs(Scheduled(Visible(t))), 2) : x.at <= y.at
  PROVE  MayOpen(t, x.at)
<1> DEFINE c == tx[t].row
           R == Downs(Scheduled(results))
<1>1. /\ c.at = t /\ DistinctTimes(Scheduled(results) \cup {c}) /\ \A z \in Scheduled(results) : z.at < c.at
      /\ Scheduled(Visible(t)) = Scheduled(results) \cup {c}
  BY OlderInTurn
<1>2. Downs(Scheduled(Visible(t))) = R \cup {c}
  BY <1>1 DEF Downs
<1>3. DistinctTimes(R \cup {c}) /\ \A z \in R : z.at < c.at
  BY <1>1, <1>2, FS_Subset DEF DistinctTimes, Downs
<1>4. CASE NewestFailed(n)
  <2>1. PICK y \in R : y.at = n /\ \A z \in R : z.at <= y.at
    BY <1>4 DEF NewestFailed, Downs
  <2>2. Newest(R \cup {c}, 2) = {y, c}
    BY <1>3, <2>1, NewestPair
  <2>3. x = y
    <3>1. x \in {y, c} /\ x.at <= y.at
      BY <1>2, <2>2
    <3>2. y.at < c.at /\ y.at \in Nat /\ c.at \in Nat
      BY <1>1, <1>3 DEF DistinctTimes, Result, Tx
    <3>q. QED BY <3>1, <3>2
  <2>q. QED BY <1>4, <2>1, <2>3 DEF MayOpen
<1>5. CASE ~NewestFailed(n)
  <2>1. PICK u \in Tx : ForgotFailure(u)
    BY <1>5 DEF MayOpen
  <2>2. Scheduled(results) = {}
    BY <1>5 DEF MayOpen
  <2>3. x = c
    BY <1>2, <2>2 DEF Newest, Downs
  <2>q. QED BY <1>1, <2>1, <2>2, <2>3 DEF MayOpen
<1>q. QED BY <1>4, <1>5

LEMMA ExactOwn ==
  ASSUME TypeOK, ActiveInv, DatedInv, PhaseInv, TurnInv, CorrectInv, ExactInv, locked,
         NEW t \in Tx, Statement(t) \/ Fail(t), ScheduledRun(t)'
  PROVE  Exact(t)'
<1>1. Moves(t)
  BY StatementMoves
<1>2. tx'[t].row = tx[t].row /\ ScheduledRun(t)
  BY <1>1 DEF Moves, ScheduledRun
<1>3. Exact(t) /\ Correct(t) /\ InTurn(t) /\ tx[t] \in Call
  BY <1>2 DEF ExactInv, CorrectInv, TurnInv, TypeOK
<1>4. ~Commit(t) /\ ~Fail(t)
  <2>1. ASSUME Commit(t) \/ Fail(t) PROVE tx'[t].phase = "ended"
    <3>1. tx' = [tx EXCEPT ![t] = [tx[t] EXCEPT !.phase = "ended", !.wrote = {}]]
      BY <2>1 DEF Commit, Fail, Put
    <3>q. QED BY <3>1 DEF TypeOK, Call
  <2>q. QED BY <2>1 DEF ScheduledRun, IsRunning, Running
<1>5. UNCHANGED <<results, incidents>> /\ Active' = Active
  BY <1>4, NoCommit DEF Active
<1>6. ASSUME ~CountFailures(t) PROVE \A n \in Tx : MayOpen(t, n) => MayOpen(t, n)'
  BY <1>5, <1>6, EndedStay, MayOpenStays
<1>7. /\ Resolving(t)' = Resolving(t) /\ \A n \in Tx : Opening(t, n)' = Opening(t, n)
      /\ \A n \in Tx : NewestFailed(n)' <=> NewestFailed(n)
  BY <1>5 DEF Resolving, Opening, NewestFailed, Scheduled
<1>8. CASE Insert(t)
  <2>1. tx'[t].phase = "inserted"
    BY <1>2, <1>3, <1>8 DEF Insert, Put, TypeOK, Call, ScheduledRun, IsRunning, Running
  <2>q. QED BY <2>1 DEF Exact, At
<1>9. CASE LookForActive(t)
  <2>1. CASE Active = {}
    <3>1. tx'[t] = [tx[t] EXCEPT !.phase = "written"]
      BY <1>9, <2>1 DEF LookForActive, Put, TypeOK
    <3>2. tx'[t].phase = "written" /\ tx'[t].wrote = {} /\ tx'[t].row.status = "up"
      BY <1>2, <1>3, <1>9, <3>1 DEF Call, LookForActive, PhaseInv, At
    <3>3. Resolving(t) = {}
      BY <2>1 DEF Resolving
    <3>q. QED BY <1>7, <3>2, <3>3 DEF Exact, At
  <2>2. CASE Active # {}
    <3>1. PICK i \in Active : tx' = [tx EXCEPT ![t] = [tx[t] EXCEPT !.phase = "looked", !.saw = i.id]]
      BY <1>9, <2>2 DEF LookForActive, Put
    <3>2. tx'[t].phase = "looked"
      BY <1>3, <3>1 DEF TypeOK, Call
    <3>q. QED BY <3>2 DEF Exact, At
  <2>q. QED BY <2>1, <2>2
<1>10. CASE Resolve(t)
  <2> DEFINE w == {[i EXCEPT !.resolved = t] : i \in {i \in Active : i.id = tx[t].saw}}
  <2>1. \A i \in Active : i.id = tx[t].saw
    BY <1>3, <1>10 DEF Resolve, Correct
  <2>2. w = Resolving(t)
    BY <2>1 DEF Resolving
  <2> HIDE DEF w
  <2>3. tx' = [tx EXCEPT ![t] = [tx[t] EXCEPT !.phase = "written", !.wrote = w]]
    BY <1>10 DEF Resolve, Put, w
  <2>4. tx'[t].phase = "written" /\ tx'[t].wrote = w
    BY <1>3, <2>3 DEF TypeOK, Call
  <2>5. tx'[t].row.status # "down"
    BY <1>2, <1>10 DEF Resolve, PhaseInv
  <2>q. QED BY <1>7, <2>2, <2>4, <2>5 DEF Exact, At
<1>11. CASE CountFailures(t)
  <2>1. PICK p \in {"opening", "written"} :
          /\ tx' = [tx EXCEPT ![t] = [tx[t] EXCEPT !.phase = p]]
          /\ p = "written" <=> ~TwoDown(Visible(t))
    BY <1>11 DEF CountFailures, Put
  <2>2. tx'[t].phase = p /\ tx'[t].row.status = "down" /\ tx'[t].wrote = {} /\ tx'[t].saw = tx[t].saw
    BY <1>2, <1>3, <1>11, <2>1 DEF CountFailures, TypeOK, Call, PhaseInv, At
  <2>3. TwoDown(Visible(t)) <=> \E n \in Tx : NewestFailed(n)
    BY <1>2, <1>3, <1>11, CountInTurn DEF CountFailures
  <2>4. ASSUME p = "written" PROVE \A n \in Tx : ~NewestFailed(n)'
    BY <1>7, <2>1, <2>3, <2>4
  <2>5. ASSUME p = "opening" PROVE \E n \in Tx : MayOpen(t, n)'
    BY <1>7, <2>1, <2>3, <2>5 DEF MayOpen
  <2>6. tx[t].saw = NULL
    BY <1>11 DEF CountFailures, PhaseInv
  <2>q. QED BY <2>2, <2>4, <2>5, <2>6 DEF Exact, At, MayOpen
<1>12. CASE FirstFailure(t)
  <2>1. PICK x \in Newest(Downs(Scheduled(Visible(t))), 2) :
          /\ \A y \in Newest(Downs(Scheduled(Visible(t))), 2) : x.at <= y.at
          /\ tx' = [tx EXCEPT ![t] = [tx[t] EXCEPT !.saw = x.at]]
    BY <1>12 DEF FirstFailure, FirstFailures, Put
  <2>2. tx'[t].phase = "opening" /\ tx'[t].saw = x.at
    BY <1>3, <1>12, <2>1 DEF FirstFailure, At, TypeOK, Call
  <2>3. PICK n \in Tx : MayOpen(t, n)
    BY <1>3, <1>12 DEF Exact, FirstFailure
  <2>4. x.at \in Tx
    BY VisibleType DEF Newest, Downs, Scheduled, Result
  <2>5. tx[t].row.status = "down"
    BY <1>12 DEF FirstFailure, PhaseInv
  <2>6. MayOpen(t, x.at)
    BY <1>2, <1>3, <2>1, <2>3, <2>5, FirstInTurn
  <2>9. ~CountFailures(t)
    BY <1>12 DEF FirstFailure, CountFailures, At
  <2>7. MayOpen(t, x.at)'
    BY <1>6, <2>4, <2>6, <2>9
  <2>8. MayOpen(t, tx[t].saw)'
    BY <2>2, <2>7 DEF MayOpen
  <2>q. QED BY <2>2, <2>4, <2>7, <2>8 DEF Exact, At
<1>13. CASE OpenOrExtend(t)
  <2> DEFINE w == IF Active = {} THEN {Opened(t)} ELSE {[i EXCEPT !.last = t] : i \in Active}
  <2>1. tx[t].saw \in Tx /\ MayOpen(t, tx[t].saw) /\ w = Opening(t, tx[t].saw)
    BY <1>3, <1>13 DEF OpenOrExtend, Exact, Call, Opening, Opened
  <2> HIDE DEF w
  <2>2. tx' = [tx EXCEPT ![t] = [tx[t] EXCEPT !.phase = "written", !.wrote = w]]
    BY <1>13 DEF OpenOrExtend, Put, w
  <2>3. tx'[t].phase = "written" /\ tx'[t].wrote = w
    BY <1>3, <2>2 DEF TypeOK, Call
  <2>4. tx'[t].row.status # "up"
    BY <1>2, <1>13 DEF OpenOrExtend, PhaseInv
  <2>5. PICK n \in Tx : n = tx[t].saw
    BY <2>1
  <2>7. ~CountFailures(t)
    BY <1>13 DEF OpenOrExtend, CountFailures, At
  <2>6. MayOpen(t, n)' /\ tx'[t].wrote = Opening(t, n)'
    BY <1>6, <1>7, <2>1, <2>3, <2>5, <2>7
  <2>q. QED BY <2>3, <2>4, <2>6 DEF Exact, At
<1>q. QED BY <1>4, <1>8, <1>9, <1>10, <1>11, <1>12, <1>13 DEF Statement

LEMMA NextExact ==
  /\ TypeOK /\ ActiveInv /\ DatedInv /\ PhaseInv /\ TurnInv /\ CorrectInv /\ ExactInv
  /\ [Next]_vars
  => ExactInv'
<1> SUFFICES ASSUME TypeOK, ActiveInv, DatedInv, PhaseInv, TurnInv, CorrectInv, ExactInv, [Next]_vars,
                    locked', NEW u \in Tx, ScheduledRun(u)'
             PROVE  Exact(u)'
  BY DEF ExactInv
<1>1. ASSUME ScheduledRun(u), locked, tx'[u] = tx[u], incidents' = incidents,
             \A n \in Tx : (MayOpen(u, n) => MayOpen(u, n)') /\ (NewestFailed(n)' => NewestFailed(n))
      PROVE  Exact(u)'
  <2>1. Active' = Active
    BY <1>1 DEF Active
  <2>2. Exact(u) /\ tx[u].saw \in Tx \cup {NULL}
    BY <1>1 DEF ExactInv, TypeOK, Call
  <2>q. QED BY <1>1, <2>1, <2>2, ExactKept
<1>2. ASSUME NEW t \in Tx, Begin(t) PROVE Exact(u)'
  <2>1. CASE u = t
    BY <1>2, <2>1, BeginIs DEF At, Exact
  <2>2. CASE u # t
    <3>1. tx'[u] = tx[u] /\ UNCHANGED <<results, incidents, locked, forgotten>>
      BY <1>2, <2>2, BeginIs DEF Begin, Keep, KeepStore
    <3>2. \A v \in Tx : At(v, "ended") => tx'[v] = tx[v]
      BY <1>2, BeginIs DEF At
    <3>3. \A n \in Tx : MayOpen(u, n) => MayOpen(u, n)'
      BY <3>1, <3>2, MayOpenStays DEF Scheduled
    <3>4. \A n \in Tx : NewestFailed(n)' => NewestFailed(n)
      BY <3>1 DEF NewestFailed, Scheduled
    <3>q. QED BY <1>1, <3>1, <3>3, <3>4 DEF ScheduledRun, IsRunning
  <2>q. QED BY <2>1, <2>2
<1>3. ASSUME NEW t \in Tx, Statement(t) \/ Fail(t) PROVE Exact(u)'
  <2>1. Moves(t)
    BY <1>3, StatementMoves
  <2>2. CASE u = t
    BY <1>3, <2>1, <2>2, ExactOwn DEF Moves
  <2>3. CASE u # t
    <3>1. ScheduledRun(u)
      BY <2>1, <2>3 DEF Moves, ScheduledRun, IsRunning
    <3>q. QED BY <1>3, <2>1, <2>3, <3>1, ExactOther DEF Moves
  <2>q. QED BY <2>2, <2>3
<1>4. ASSUME NEW cutoff \in Tx, DeleteOlderThan(cutoff) PROVE Exact(u)'
  <2>1. tx' = tx /\ incidents' = incidents /\ locked' = locked
    BY <1>4 DEF DeleteOlderThan
  <2>2. ScheduledRun(u)
    BY <2>1 DEF ScheduledRun, IsRunning
  <2>3. \A n \in Tx : (MayOpen(u, n) => MayOpen(u, n)') /\ (NewestFailed(n)' => NewestFailed(n))
    BY <1>4, <2>2, RetentionMayOpen
  <2>q. QED BY <1>1, <2>1, <2>2, <2>3
<1>5. CASE DeleteMonitor
  BY <1>5 DEF DeleteMonitor, ScheduledRun, IsRunning, Exact, At
<1>6. CASE LoseLock \/ TakeLock
  BY <1>6 DEF LoseLock, TakeLock, SchedulerRuns, ScheduledRun, IsRunning
<1>7. CASE UNCHANGED vars
  <2>1. UNCHANGED <<results, incidents, tx, locked, forgotten>>
    BY <1>7 DEF vars
  <2>2. \A n \in Tx : MayOpen(u, n) => MayOpen(u, n)'
    BY <2>1, MayOpenStays DEF Scheduled
  <2>3. \A n \in Tx : NewestFailed(n)' => NewestFailed(n)
    BY <2>1 DEF NewestFailed, Scheduled
  <2>q. QED BY <1>1, <2>1, <2>2, <2>3 DEF ScheduledRun, IsRunning
<1>q. QED BY <1>2, <1>3, <1>4, <1>5, <1>6, <1>7 DEF Next

(* What the commit does to the incidents: it rewrites the active one, or adds.   *)
LEMMA CommitRewrites ==
  ASSUME TypeOK, ActiveInv, NamesInv, NEW t \in Tx, Commit(t), NEW i \in Active, NEW j,
         j.id = i.id, tx[t].wrote = {j}
  PROVE  incidents' = (incidents \ {i}) \cup {j}
<1>1. incidents' = {k \in incidents : k.id # j.id} \cup {j}
  BY DEF Commit
<1>2. \A k \in incidents : k.id = i.id <=> k = i
  BY DEF NamesInv, Active
<1>q. QED BY <1>1, <1>2

LEMMA OpeningWrites ==
  ASSUME TypeOK, ActiveInv, NamesInv, NEW t \in Tx, Commit(t), NEW n \in Tx, tx[t].wrote = Opening(t, n)
  PROVE  IF Active # {} THEN \E i \in Active : incidents' = (incidents \ {i}) \cup {[i EXCEPT !.last = t]}
         ELSE incidents' = incidents \cup {[id |-> t, first |-> n, last |-> t, resolved |-> NULL]}
<1>1. ASSUME NEW i \in Active PROVE incidents' = (incidents \ {i}) \cup {[i EXCEPT !.last = t]}
  <2>1. Active = {i}
    BY DEF ActiveInv, OneActive
  <2>2. tx[t].wrote = {[i EXCEPT !.last = t]}
    BY <2>1 DEF Opening
  <2>3. [i EXCEPT !.last = t].id = i.id
    BY DEF Active, TypeOK, Incident
  <2>q. QED BY <2>2, <2>3, CommitRewrites
<1>2. ASSUME Active = {}
      PROVE  incidents' = incidents \cup {[id |-> t, first |-> n, last |-> t, resolved |-> NULL]}
  <2> DEFINE j == [id |-> t, first |-> n, last |-> t, resolved |-> NULL]
  <2>1. incidents' = {k \in incidents : k.id # j.id} \cup {j}
    BY <1>2 DEF Commit, Opening
  <2>2. \A k \in incidents : k.id # t
    BY DEF NamesInv, Commit, At
  <2>q. QED BY <2>1, <2>2
<1>q. QED BY <1>1, <1>2

LEMMA CommitIsOneStep ==
  ASSUME TypeOK, ActiveInv, DatedInv, PhaseInv, NamesInv,
         NEW t \in Tx, Commit(t), ScheduledRun(t), InTurn(t), Exact(t)
  PROVE  AtOnce(tx[t].row, results') \/ \E y \in Scheduled(forgotten) : AtOnce(tx[t].row, results' \cup {y})
<1> DEFINE c == tx[t].row
<1>1. /\ c.at = t /\ c.source = "scheduled" /\ c.status \in {"up", "down"} /\ c \in Result
      /\ At(t, "written") /\ results' = Visible(t)
  BY OlderInTurn DEF TypeOK, Call, Result, Commit
<1>2. CASE c.status = "up"
  <2>1. tx[t].wrote = Resolving(t)
    BY <1>1, <1>2 DEF Exact
  <2>2. CASE Active = {}
    <3>1. incidents' = incidents
      BY <2>1, <2>2 DEF Resolving, Commit
    <3>q. QED BY <1>2, <2>2, <3>1 DEF AtOnce
  <2>3. ASSUME NEW i \in Active PROVE AtOnce(c, results')
    <3>1. Active = {i}
      BY DEF ActiveInv, OneActive
    <3>2. tx[t].wrote = {[i EXCEPT !.resolved = t]}
      BY <2>1, <3>1 DEF Resolving
    <3>3. [i EXCEPT !.resolved = t].id = i.id
      BY DEF Active, TypeOK, Incident
    <3>4. incidents' = (incidents \ {i}) \cup {[i EXCEPT !.resolved = t]}
      BY <3>2, <3>3, CommitRewrites
    <3>q. QED BY <1>1, <1>2, <3>4 DEF AtOnce
  <2>q. QED BY <2>2, <2>3
<1>3. ASSUME c.status = "down", tx[t].wrote = {}, \A n \in Tx : ~NewestFailed(n)
      PROVE  AtOnce(c, results')
  <2>1. incidents' = incidents
    BY <1>3 DEF Commit
  <2>2. ~TwoDown(results')
    BY <1>1, <1>3, CountInTurn
  <2>q. QED BY <1>3, <2>1, <2>2 DEF AtOnce
<1>4. ASSUME c.status = "down", NEW n \in Tx, NewestFailed(n), tx[t].wrote = Opening(t, n)
      PROVE  AtOnce(c, results')
  <2>1. TwoDown(results')
    BY <1>1, <1>4, CountInTurn
  <2>2. PICK x \in Scheduled(results) : x.at = n /\ \A z \in Scheduled(results) : z.at <= x.at
    BY <1>4 DEF NewestFailed
  <2>3. Newest(Scheduled(results'), 2) = {x, c}
    <3>1. DistinctTimes(Scheduled(results) \cup {c}) /\ \A z \in Scheduled(results) : z.at < c.at
      BY <1>1, OlderInTurn
    <3>2. Newest(Scheduled(results) \cup {c}, 2) = {x, c}
      BY <2>2, <3>1, NewestPair
    <3>3. Scheduled(results') = Scheduled(results) \cup {c}
      BY <1>1, OlderInTurn
    <3>q. QED BY <3>2, <3>3
  <2>4. x # c
    BY <2>2, OlderInTurn DEF Scheduled
  <2>5. CASE Active # {}
    <3>1. PICK i \in Active : incidents' = (incidents \ {i}) \cup {[i EXCEPT !.last = t]}
      BY <1>4, <2>5, OpeningWrites
    <3>q. QED BY <1>1, <1>4, <2>1, <3>1 DEF AtOnce
  <2>6. CASE Active = {}
    <3>1. incidents' = incidents \cup {[id |-> t, first |-> n, last |-> t, resolved |-> NULL]}
      BY <1>4, <2>6, OpeningWrites
    <3>q. QED BY <1>1, <1>4, <2>1, <2>2, <2>3, <2>4, <2>6, <3>1 DEF AtOnce
  <2>q. QED BY <2>5, <2>6
<1>5. ASSUME c.status = "down", NEW n \in Tx, tx[t].wrote = Opening(t, n), Scheduled(results) = {},
             NEW u \in Tx, ForgotFailure(u), n \in {u, t}
      PROVE  \E y \in Scheduled(forgotten) : AtOnce(c, results' \cup {y})
  <2> DEFINE y == tx[u].row
             S == results' \cup {y}
  <2>1. /\ At(u, "ended") /\ y.source = "scheduled" /\ y.status = "down" /\ y.at = u /\ y \in Result
        /\ u < t /\ \A x \in results : u < x.at
    BY <1>1, <1>5 DEF ForgotFailure, DatedInv, At, TypeOK, Call
  <2>2. y \in Scheduled(forgotten) /\ y \notin results' /\ y # c
    <3>1. \A x \in results' : u < x.at
      BY <1>1, <2>1 DEF Visible
    <3>2. \A x \in results' : x.at \in Nat /\ u \in Nat
      BY <1>1, VisibleType DEF Result, Tx
    <3>3. y \in Scheduled(forgotten)
      BY <1>5, <2>1 DEF ForgotFailure, Scheduled
    <3>q. QED BY <1>1, <2>1, <3>1, <3>2, <3>3 DEF Visible
  <2>3. Scheduled(results \cup {y}) = {y} /\ S = (results \cup {y}) \cup {c}
    BY <1>1, <1>5, <2>1 DEF Scheduled, Visible
  <2>4. Scheduled(S) = {y} \cup {c}
    BY <1>1, <2>3 DEF Scheduled
  <2>5. DistinctTimes({y} \cup {c})
    <3>1. IsFiniteSet({y} \cup {c})
      BY FS_Singleton, FS_AddElement
    <3>2. y.at # c.at
      BY <1>1, <2>1 DEF Tx
    <3>q. QED BY <1>1, <2>1, <3>1, <3>2 DEF DistinctTimes
  <2>6. y.at < c.at /\ y.at <= y.at
    BY <1>1, <2>1 DEF Tx
  <2>7. Newest(Scheduled(S), 2) = {y, c}
    <3> DEFINE R == {y}
    <3>1. y \in R /\ \A z \in R : z.at < c.at /\ z.at <= y.at
      BY <2>6
    <3>2. DistinctTimes(R \cup {c}) /\ Scheduled(S) = R \cup {c}
      BY <2>4, <2>5
    <3> HIDE DEF R, y, c, S
    <3>3. Newest(R \cup {c}, 2) = {y, c}
      BY <3>1, <3>2, NewestPair
    <3>q. QED BY <3>2, <3>3
  <2>8. TwoDown(S)
    <3>1. TwoDown((results \cup {y}) \cup {c})
      BY <1>1, <1>5, <2>1, <2>3, <2>5, <2>6, TwoDownPair
    <3>q. QED BY <2>3, <3>1
  <2>9. CASE Active # {}
    <3>1. PICK i \in Active : incidents' = (incidents \ {i}) \cup {[i EXCEPT !.last = t]}
      BY <1>5, <2>9, OpeningWrites
    <3>2. AtOnce(c, S)
      BY <1>1, <1>5, <2>8, <3>1 DEF AtOnce
    <3>q. QED BY <2>2, <3>2
  <2>10. CASE Active = {}
    <3>1. incidents' = incidents \cup {[id |-> t, first |-> n, last |-> t, resolved |-> NULL]}
      BY <1>5, <2>10, OpeningWrites
    <3>2. y \in Newest(Scheduled(S), 2) /\ y \notin results'
      BY <2>2, <2>7
    <3>3. PICK x \in {y, c} : n = x.at
      BY <1>1, <1>5, <2>1
    <3>4. AtOnce(c, S)
      BY <1>1, <1>5, <2>7, <2>8, <2>10, <3>1, <3>2, <3>3 DEF AtOnce
    <3>q. QED BY <2>2, <3>4
  <2>q. QED BY <2>9, <2>10
<1>q. QED BY <1>1, <1>2, <1>3, <1>4, <1>5 DEF Exact, MayOpen

LEMMA StepsExact ==
  ASSUME TypeOK, ActiveInv, OutageInv, NamesInv, ExactInv, [Next]_vars, locked, NEW c \in results' \ results
  PROVE  AtOnce(c, results') \/ \E y \in Scheduled(forgotten) : AtOnce(c, results' \cup {y})
<1>1. PICK t \in Tx : Commit(t)
  <2>1. ASSUME NEW t \in Tx, Begin(t) \/ Statement(t) \/ Fail(t), ~Commit(t) PROVE FALSE
    BY <2>1, BeginIs, NoCommit
  <2>2. CASE DeleteMonitor \/ LoseLock \/ TakeLock \/ (\E t \in Tx : DeleteOlderThan(t)) \/ UNCHANGED vars
    BY <2>2 DEF DeleteMonitor, LoseLock, TakeLock, DeleteOlderThan, vars
  <2>q. QED BY <2>1, <2>2 DEF Next
<1>2. c = tx[t].row /\ IsRunning(t)
  BY <1>1 DEF Commit, Visible, IsRunning, Running, At
<1>3. CASE c.source = "scheduled"
  <2>1. ScheduledRun(t) /\ InTurn(t) /\ Exact(t)
    BY <1>2, <1>3 DEF ScheduledRun, OutageInv, TurnInv, ExactInv
  <2>q. QED BY <1>1, <1>2, <2>1, CommitIsOneStep DEF OutageInv
<1>4. CASE c.source # "scheduled"
  <2>1. incidents' = incidents
    BY <1>1, <1>2, <1>4, ManualCommit DEF OutageInv
  <2>2. c.source = "manual"
    BY <1>2, <1>4 DEF TypeOK, Call, Result
  <2>q. QED BY <2>1, <2>2 DEF AtOnce
<1>q. QED BY <1>3, <1>4

(* Under the scheduler's lock PostgresChecks.Create does to the incidents what it *)
(* would do if it were one step, whatever manual calls, failures, retention and  *)
(* deletion come between its statements; only a committed scheduled result that   *)
(* retention has deleted since this call counted it may still count.            *)
THEOREM CreateIsOneStep == Spec => CommitsAreSteps
<1>1. Init => ActiveInv /\ NamesInv /\ ExactInv
  <2>1. ASSUME Init PROVE \A t \in Tx : ~IsRunning(t) /\ tx[t].wrote = {}
    BY <2>1 DEF Init, IsRunning, Running, NoCall
  <2>q. QED BY <2>1 DEF Init, ActiveInv, OneActive, OneWriter, Active, NamesInv, ExactInv, ScheduledRun
<1>2. TypeOK /\ ActiveInv /\ [Next]_vars => ActiveInv'
  BY NextActive
<1>3. TypeOK /\ ActiveInv /\ OutageInv /\ NamesInv /\ ExactInv /\ [Next]_vars => NamesInv' /\ ExactInv'
  BY NextNames, NextExact DEF OutageInv
<1>4. TypeOK /\ ActiveInv /\ OutageInv /\ NamesInv /\ ExactInv /\ [Next]_vars
      => [locked => \A c \in results' \ results :
            \/ AtOnce(c, results')
            \/ \E y \in Scheduled(forgotten) : AtOnce(c, results' \cup {y})]_vars
  BY StepsExact
<1>q. QED BY <1>1, <1>2, <1>3, <1>4, InitOutage, NextOutage, TypeCorrect, PTL DEF Spec, CommitsAreSteps
================================================================================
