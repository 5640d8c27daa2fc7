-------------------------- MODULE MonitorsPageProofs ---------------------------
(* Proofs about MonitorsPage, for any monitors, contents and numbers of calls.  *)
EXTENDS MonitorsPage, TLAPS

(* Toggles, checks and deletes are about a monitor.                             *)
Aimed == \A s \in Slot : calls[s].kind \in {"toggle", "check", "delete"} => calls[s].mon \in Monitor

Kinds == {"load", "save", "toggle", "check", "delete"}

LEMMA Values == NoCall \in Call /\ NoOverview \in Overview /\ AskOverview \in Overview /\ Empty \in Rows
  BY DEF NoCall, Call, NoOverview, AskOverview, Overview, Empty, Rows

LEMMA RequestType ==
  ASSUME NEW kind \in Kinds, NEW m \in Monitor \cup {NoMonitor}, NEW body \in Row \cup {NoRow}
  PROVE  Request(kind, m, body) \in Call /\ Request(kind, m, body).kind = kind
         /\ Request(kind, m, body).mon = m
  BY Values DEF Request, NoCall, Call, Kinds

LEMMA InitType == Init => TypeOK
<1> SUFFICES ASSUME Init PROVE TypeOK
  OBVIOUS
<1>1. Request("load", NoMonitor, NoRow) \in Call
  BY RequestType DEF Kinds
<1>2. calls \in [Slot -> Call] /\ overviews \in [Slot -> Overview]
  BY <1>1, Values DEF Init
<1>3. rows \in Rows /\ created \subseteq Monitor /\ checked \subseteq Monitor
  BY DEF Init, APIInit
<1>4. {loading, error, telemetryUnavailable, saving, alone} \subseteq BOOLEAN
  BY DEF Init
<1>5. moved \subseteq Monitor
  BY DEF Init
<1>q. QED BY <1>2, <1>3, <1>4, <1>5, Values, PageAssumption DEF Init, TypeOK, APITypeOK

--------------------------------------------------------------------------------
(* The server.                                                                  *)

LEMMA AdvanceType ==
  ASSUME APITypeOK, NEW s \in Slot,
         NEW p \in {"free", "sent", "read", "ok", "failed", "got"}, Advance(s, p)
  PROVE  calls' \in [Slot -> Call]
         /\ \A t \in Slot : calls'[t].kind = calls[t].kind /\ calls'[t].mon = calls[t].mon
  BY DEF APITypeOK, Advance, Call

LEMMA StatementType ==
  ASSUME APITypeOK, NEW m \in Monitor, NEW row \in Row, Insert(m, row) \/ Update(m, row) \/ Delete(m)
  PROVE  rows' \in Rows /\ created' \subseteq Monitor /\ checked' \subseteq Monitor
<1>1. rows' \in Rows
  BY DEF Insert, Update, Delete, APITypeOK, Rows
<1>q. QED BY <1>1 DEF Insert, Update, Delete, APITypeOK

LEMMA RefuseType ==
  ASSUME APITypeOK, NEW s \in Slot, Refuse(s)
  PROVE  APITypeOK' /\ \A t \in Slot : calls'[t].kind = calls[t].kind /\ calls'[t].mon = calls[t].mon
  BY AdvanceType DEF Refuse, store, APITypeOK

(* A handler keeps the types, and what the calls ask for.                       *)
LEMMA ServeType ==
  ASSUME APITypeOK, Aimed, NEW s \in Slot, Serve(s)
  PROVE  APITypeOK' /\ \A t \in Slot : calls'[t].kind = calls[t].kind /\ calls'[t].mon = calls[t].mon
<1> DEFINE Goal == APITypeOK' /\ \A t \in Slot : calls'[t].kind = calls[t].kind /\ calls'[t].mon = calls[t].mon
<1>t. calls[s].mon \in Monitor \cup {NoMonitor} /\ calls[s].body \in Row \cup {NoRow}
  BY DEF APITypeOK, Call
<1>1. CASE ServeCreate(s)
  <2>1. CASE Refuse(s)
    BY <2>1, RefuseType
  <2>2. CASE ~Refuse(s)
    <3>1. PICK m \in Monitor : Insert(m, calls[s].body)
      BY <1>1, <2>2 DEF ServeCreate
    <3>2. Advance(s, "ok") /\ UNCHANGED overviews
      BY <1>1, <2>2 DEF ServeCreate
    <3>3. rows' \in Rows /\ created' \subseteq Monitor /\ checked' \subseteq Monitor
      BY <1>t, <3>1 DEF Insert, APITypeOK, Rows
    <3>q. QED BY <3>2, <3>3, AdvanceType DEF APITypeOK
  <2>q. QED BY <2>1, <2>2
<1>2. CASE ServeGet(s)
  <2>1. CASE Refuse(s)
    BY <2>1, RefuseType
  <2>2. CASE ~Refuse(s)
    <3>1. Advance(s, "read") /\ UNCHANGED <<store, overviews>>
      BY <1>2, <2>2 DEF ServeGet
    <3>q. QED BY <3>1, AdvanceType DEF store, APITypeOK
  <2>q. QED BY <2>1, <2>2
<1>3. CASE ServePatch(s)
  <2>1. CASE Refuse(s)
    BY <2>1, RefuseType
  <2>2. CASE ~Refuse(s)
    <3>1. Update(calls[s].mon, calls[s].body) /\ Advance(s, "ok") /\ UNCHANGED overviews
      BY <1>3, <2>2 DEF ServePatch
    <3>2. rows' \in Rows /\ created' \subseteq Monitor /\ checked' \subseteq Monitor
      BY <1>t, <3>1 DEF Update, APITypeOK, Rows
    <3>q. QED BY <3>1, <3>2, AdvanceType DEF APITypeOK
  <2>q. QED BY <2>1, <2>2
<1>4. CASE ServeCheck(s)
  <2>1. CASE Refuse(s)
    BY <2>1, RefuseType
  <2>2. CASE ~Refuse(s)
    <3>1. checked' = checked \cup {calls[s].mon} /\ Advance(s, "ok") /\ UNCHANGED <<rows, created, overviews>>
      BY <1>4, <2>2 DEF ServeCheck
    <3>2. calls[s].mon \in Monitor
      BY <1>4 DEF ServeCheck, At, Aimed
    <3>q. QED BY <3>1, <3>2, AdvanceType DEF APITypeOK
  <2>q. QED BY <2>1, <2>2
<1>5. CASE ServeDelete(s)
  <2>1. CASE Refuse(s)
    BY <2>1, RefuseType
  <2>2. CASE ~Refuse(s)
    <3>1. Delete(calls[s].mon) /\ Advance(s, "ok") /\ UNCHANGED overviews
      BY <1>5, <2>2 DEF ServeDelete
    <3>2. rows' \in Rows /\ created' \subseteq Monitor /\ checked' \subseteq Monitor
      BY <3>1 DEF Delete, APITypeOK, Rows
    <3>q. QED BY <3>1, <3>2, AdvanceType DEF APITypeOK
  <2>q. QED BY <2>1, <2>2
<1>6. CASE ServeList(s)
  <2>0. [calls[s] EXCEPT !.phase = "ok", !.list = rows] \in Call
    BY DEF APITypeOK, Call
  <2>1. calls' \in [Slot -> Call]
    BY <1>6, <2>0 DEF ServeList, APITypeOK
  <2>2. \A t \in Slot : calls'[t].kind = calls[t].kind /\ calls'[t].mon = calls[t].mon
    BY <1>6 DEF ServeList, APITypeOK, Call
  <2>q. QED BY <1>6, <2>1, <2>2 DEF ServeList, APITypeOK, store
<1>7. CASE OverviewList(s) \/ OverviewSummaries(s)
  <2>1. overviews' \in [Slot -> Overview]
    BY <1>7 DEF OverviewList, OverviewSummaries, APITypeOK, Overview, NoOverview
  <2>q. QED BY <1>7, <2>1 DEF OverviewList, OverviewSummaries, APITypeOK, store
<1>q. QED BY <1>1, <1>2, <1>3, <1>4, <1>5, <1>6, <1>7 DEF Serve

LEMMA HandledType ==
  ASSUME TypeOK, Aimed, NEW s \in Slot, Handled(s)
  PROVE  TypeOK' /\ UNCHANGED <<status, dialog, actionPending>>
         /\ \A t \in Slot : calls'[t].kind = calls[t].kind /\ calls'[t].mon = calls[t].mon
  BY ServeType DEF Handled, shown, status, dialog, history, TypeOK

LEMMA LostType ==
  ASSUME TypeOK, NEW s \in Slot, Lost(s)
  PROVE  TypeOK' /\ UNCHANGED <<status, dialog, actionPending>>
         /\ \A t \in Slot : calls'[t].kind = calls[t].kind /\ calls'[t].mon = calls[t].mon
<1>1. APITypeOK' /\ \A t \in Slot : calls'[t].kind = calls[t].kind /\ calls'[t].mon = calls[t].mon
  <2>1. CASE OverviewFails(s)
    BY <2>1 DEF OverviewFails, store, TypeOK, APITypeOK, Overview, NoOverview
  <2>2. CASE CallFails(s)
    BY <2>2, RefuseType DEF CallFails, TypeOK
  <2>q. QED BY <2>1, <2>2 DEF Lost
<1>2. alone' \in BOOLEAN
  <2>1. CASE alone' = alone
    BY <2>1 DEF TypeOK
  <2>2. CASE alone' # alone
    BY <2>2, Zenon DEF Lost
  <2>q. QED BY <2>1, <2>2
<1>3. UNCHANGED <<shown, status, dialog, actionPending, made, moved>>
  BY DEF Lost
<1>4. {loading', error', telemetryUnavailable', saving', alone'} \subseteq BOOLEAN
  BY <1>2, <1>3 DEF status, dialog, TypeOK
<1>q. QED BY <1>1, <1>3, <1>4 DEF shown, dialog, TypeOK

LEMMA OtherType ==
  ASSUME TypeOK, OtherClient
  PROVE  TypeOK' /\ UNCHANGED <<status, dialog, actionPending, calls>>
<1>1. rows' \in Rows /\ created' \subseteq Monitor /\ checked' \subseteq Monitor
  <2>1. PICK m \in Monitor : Delete(m) \/ \E row \in Row : Insert(m, row) \/ Update(m, row)
    BY DEF OtherClient, Elsewhere
  <2>q. QED BY <2>1 DEF Insert, Delete, Update, TypeOK, APITypeOK, Rows
<1>2. made' \in 0 .. MaxCalls
  BY PageAssumption DEF OtherClient, Another, TypeOK
<1>q. QED BY <1>1, <1>2 DEF OtherClient, Elsewhere, shown, status, dialog, TypeOK, APITypeOK

LEMMA BackgroundType ==
  ASSUME TypeOK, NEW m \in Monitor, Background(m)
  PROVE  TypeOK' /\ UNCHANGED <<status, dialog, actionPending, calls>>
<1>1. UNCHANGED <<rows, created, calls, overviews>> /\ checked' \subseteq Monitor
  BY DEF Background, ResultStored, ResultAges, TypeOK, APITypeOK
<1>2. made' \in 0 .. MaxCalls
  BY PageAssumption DEF Background, Another, TypeOK
<1>q. QED BY <1>1, <1>2 DEF Background, shown, status, dialog, TypeOK, APITypeOK

--------------------------------------------------------------------------------
(* The page.                                                                    *)

LEMMA ReleaseType ==
  ASSUME APITypeOK, NEW s \in Slot, Release(s), UNCHANGED store
  PROVE  /\ APITypeOK'
         /\ calls'[s].kind = "none"
         /\ \A t \in Slot \ {s} : calls'[t] = calls[t]
  BY Values DEF Release, store, APITypeOK, NoCall

LEMMA LoadType ==
  ASSUME APITypeOK, NEW s \in Slot, Load(s), UNCHANGED store
  PROVE  /\ APITypeOK'
         /\ {loading', error', telemetryUnavailable', alone'} \subseteq BOOLEAN
         /\ loading' = TRUE /\ moved' = {}
         /\ calls'[s].kind = "load"
         /\ \A t \in Slot \ {s} : calls'[t] = calls[t]
<1>1. Request("load", NoMonitor, NoRow) \in Call /\ Request("load", NoMonitor, NoRow).kind = "load"
  BY RequestType DEF Kinds
<1>2. APITypeOK'
  BY <1>1, Values DEF Load, store, APITypeOK
<1>3. alone' \in BOOLEAN
  BY Zenon DEF Load
<1>4. loading' = TRUE /\ error' = FALSE /\ telemetryUnavailable' = FALSE
  BY DEF Load
<1>q. QED BY <1>1, <1>2, <1>3, <1>4 DEF Load, APITypeOK

LEMMA SendType ==
  ASSUME TypeOK, NEW s \in Slot, NEW kind \in Kinds, NEW m \in Monitor \cup {NoMonitor},
         NEW body \in Row \cup {NoRow}, Send(s, kind, m, body)
  PROVE  /\ APITypeOK' /\ alone' \in BOOLEAN /\ made' \in 0 .. MaxCalls
         /\ UNCHANGED <<shown, status, moved>>
         /\ calls[s].kind = "none"
         /\ calls'[s].kind = kind /\ calls'[s].mon = m
         /\ \A t \in Slot \ {s} : calls'[t] = calls[t]
<1>1. APITypeOK'
  BY RequestType DEF Send, store, TypeOK, APITypeOK
<1>2. alone' \in BOOLEAN
  <2>1. alone' = (alone /\ Quiet)
    BY DEF Send
  <2>q. QED BY Zenon, <2>1
<1>3. made' \in 0 .. MaxCalls
  BY PageAssumption DEF Send, Another, TypeOK
<1>q. QED BY <1>1, <1>2, <1>3, RequestType DEF Send, Free, NoCall, TypeOK, APITypeOK

(* The answers to loads.                                                        *)
LEMMA ShowType ==
  ASSUME TypeOK, NEW s \in Slot, Show(s), UNCHANGED store
  PROVE  /\ APITypeOK' /\ items' \in Rows /\ summaries' \subseteq Monitor /\ loading' = FALSE
         /\ calls'[s].kind = "none"
         /\ \A t \in Slot \ {s} : calls'[t] = calls[t]
  BY ReleaseType DEF Show, TypeOK, APITypeOK, Call, Overview

(* What an answer leaves of the calls: s is over, or asks for a load now.       *)
Answered(s, kinds) == calls'[s].kind \in kinds /\ \A t \in Slot \ {s} : calls'[t] = calls[t]

LEMMA ListArrivesType ==
  ASSUME TypeOK, NEW s \in Slot, ListArrives(s)
  PROVE  /\ TypeOK' /\ UNCHANGED <<saving, actionPending>>
         /\ calls[s].kind = "load"
         /\ \/ Answered(s, {"none"}) /\ loading' = FALSE
            \/ Answered(s, {"load"}) /\ loading' = loading
<1>1. CASE overviews[s].phase = "got"
  <2>1. Show(s) /\ UNCHANGED store
    BY <1>1 DEF ListArrives
  <2>q. QED BY <2>1, ShowType DEF ListArrives, At, Answered, dialog, history, TypeOK
<1>2. CASE overviews[s].phase # "got"
  <2>1. Advance(s, "got") /\ UNCHANGED <<overviews, shown, loading, store>>
    BY <1>2 DEF ListArrives
  <2>2. APITypeOK'
    BY <2>1, AdvanceType DEF store, TypeOK, APITypeOK
  <2>3. Answered(s, {"load"})
    BY <2>1 DEF ListArrives, At, Answered, Advance, TypeOK, APITypeOK, Call
  <2>q. QED BY <2>1, <2>2, <2>3 DEF ListArrives, At, shown, dialog, history, TypeOK
<1>q. QED BY <1>1, <1>2

LEMMA OverviewArrivesType ==
  ASSUME TypeOK, NEW s \in Slot, OverviewArrives(s)
  PROVE  /\ TypeOK' /\ UNCHANGED <<saving, actionPending>>
         /\ \/ calls[s].kind = "load" /\ Answered(s, {"none"}) /\ loading' = FALSE
            \/ UNCHANGED <<calls, loading>>
<1>0. telemetryUnavailable' \in BOOLEAN
  BY DEF OverviewArrives, TypeOK
<1>1. CASE At(s, "load", "got")
  <2>1. Show(s) /\ UNCHANGED store
    BY <1>1 DEF OverviewArrives
  <2>q. QED BY <1>0, <1>1, <2>1, ShowType DEF OverviewArrives, At, Answered, dialog, history, TypeOK
<1>2. CASE ~At(s, "load", "got")
  <2>1. overviews' = [overviews EXCEPT ![s].phase = "got"] /\ UNCHANGED <<calls, shown, loading, store>>
    BY <1>2 DEF OverviewArrives
  <2>2. APITypeOK'
    BY <2>1 DEF store, TypeOK, APITypeOK, Overview
  <2>q. QED BY <1>0, <2>1, <2>2 DEF OverviewArrives, shown, dialog, history, TypeOK
<1>q. QED BY <1>1, <1>2

LEMMA LoadFailsType ==
  ASSUME TypeOK, NEW s \in Slot, LoadFails(s)
  PROVE  TypeOK' /\ Answered(s, {"none"}) /\ calls[s].kind = "load" /\ loading' = FALSE
         /\ UNCHANGED <<saving, actionPending>>
  BY ReleaseType DEF LoadFails, At, Answered, shown, dialog, history, TypeOK

(* The answers to saves and actions.                                            *)
Actions == {"toggle", "check", "delete"}

LEMMA SaveAnswerType ==
  ASSUME TypeOK, NEW s \in Slot, Saved(s) \/ SaveFails(s)
  PROVE  /\ TypeOK' /\ calls[s].kind = "save" /\ saving' = FALSE /\ UNCHANGED actionPending
         /\ \/ Answered(s, {"load"})
            \/ Answered(s, {"none"}) /\ UNCHANGED loading
<1>1. CASE Saved(s)
  <2>1. Load(s) /\ UNCHANGED store
    BY <1>1 DEF Saved
  <2>2. {loading', error', telemetryUnavailable', saving', alone'} \subseteq BOOLEAN
    BY <1>1, <2>1, LoadType DEF Saved, TypeOK
  <2>q. QED BY <1>1, <2>1, <2>2, LoadType DEF Saved, At, Answered, shown, TypeOK
<1>2. CASE SaveFails(s)
  BY <1>2, ReleaseType DEF SaveFails, At, Answered, shown, status, history, TypeOK
<1>q. QED BY <1>1, <1>2

LEMMA ActionAnswerType ==
  ASSUME TypeOK, NEW s \in Slot, Toggled(s) \/ Checked(s) \/ Removed(s) \/ ActionFails(s)
  PROVE  /\ TypeOK' /\ calls[s].kind \in Actions /\ actionPending' = NoMonitor /\ UNCHANGED saving
         /\ \/ Answered(s, {"load"})
            \/ Answered(s, {"none"}) /\ UNCHANGED loading
<1> USE DEF Actions
<1>1. CASE Toggled(s)
  <2>1. Release(s) /\ UNCHANGED store
    BY <1>1 DEF Toggled
  <2>2. calls[s].body \in Row \cup {NoRow}
    BY DEF TypeOK, APITypeOK, Call
  <2>3. items' \in Rows
    BY <1>1, <2>2 DEF Toggled, TypeOK, Rows
  <2>q. QED BY <1>1, <2>1, <2>3, ReleaseType DEF Toggled, At, Answered, dialog, status, history, TypeOK
<1>2. CASE Checked(s)
  <2>1. Load(s) /\ UNCHANGED store
    BY <1>2 DEF Checked
  <2>2. {loading', error', telemetryUnavailable', saving', alone'} \subseteq BOOLEAN
    BY <1>2, <2>1, LoadType DEF Checked, dialog, TypeOK
  <2>q. QED BY <1>2, <2>1, <2>2, LoadType DEF Checked, At, Answered, shown, dialog, TypeOK
<1>3. CASE Removed(s)
  <2>1. items' \in Rows
    BY <1>3 DEF Removed, TypeOK, Rows
  <2>q. QED BY <1>3, <2>1, ReleaseType DEF Removed, At, Answered, dialog, status, history, TypeOK
<1>4. CASE ActionFails(s)
  BY <1>4, ReleaseType DEF ActionFails, At, Answered, shown, dialog, status, history, TypeOK
<1>q. QED BY <1>1, <1>2, <1>3, <1>4

(* The user.                                                                    *)
LEMMA SaveType ==
  ASSUME TypeOK, NEW s \in Slot, Save(s)
  PROVE  TypeOK' /\ ~saving /\ saving' = TRUE /\ Answered(s, {"save"})
         /\ calls[s].kind = "none" /\ UNCHANGED <<loading, actionPending>>
<1>1. form \in Monitor \cup {NoMonitor}
  BY DEF Save, FormShown, TypeOK
<1>2. PICK body \in Row : Send(s, "save", form, body)
  BY DEF Save
<1>3. "save" \in Kinds
  BY DEF Kinds
<1>q. QED BY <1>1, <1>2, <1>3, SendType DEF Save, shown, status, Answered, TypeOK

LEMMA ActionType ==
  ASSUME TypeOK, NEW s \in Slot, NEW m \in Monitor, Toggle(s, m) \/ Check(s, m) \/ Remove(s, m)
  PROVE  TypeOK' /\ actionPending' = m /\ Answered(s, Actions) /\ calls'[s].mon = m
         /\ calls[s].kind = "none" /\ UNCHANGED <<loading, saving>>
<1>1. PICK kind \in Actions, body \in Row \cup {NoRow} : Send(s, kind, m, body)
  <2>1. CASE Toggle(s, m)
    <3>1. [items[m] EXCEPT !.enabled = ~@] \in Row
      BY <2>1 DEF Toggle, Drawn, TypeOK, Rows, Row
    <3>q. QED BY <2>1, <3>1 DEF Toggle, Actions
  <2>2. CASE Check(s, m) \/ Remove(s, m)
    BY <2>2 DEF Check, Remove, Actions
  <2>q. QED BY <2>1, <2>2
<1>2. kind \in Kinds
  BY DEF Kinds, Actions
<1>3. actionPending' = m /\ UNCHANGED dialog
  BY DEF Toggle, Check, Remove
<1>q. QED BY <1>1, <1>2, <1>3, SendType DEF shown, status, dialog, Answered, TypeOK

LEMMA RetryType ==
  ASSUME TypeOK, Retry
  PROVE  TypeOK' /\ UNCHANGED <<saving, actionPending>> /\ loading' = TRUE
         /\ \E s \in Slot : Answered(s, {"load"}) /\ calls[s].kind = "none"
<1>1. PICK s \in Slot : Free(s) /\ Load(s)
  BY DEF Retry
<1>2. UNCHANGED <<store, shown, dialog, actionPending>> /\ made' \in 0 .. MaxCalls
  BY PageAssumption DEF Retry, Another, TypeOK
<1>3. calls[s].kind = "none"
  BY <1>1 DEF Free, NoCall
<1>q. QED BY <1>1, <1>2, <1>3, LoadType DEF shown, dialog, Answered, TypeOK

LEMMA FormType ==
  ASSUME TypeOK, OpenForm \/ CloseForm \/ (\E m \in Monitor : Edit(m)) \/ UNCHANGED vars
  PROVE  TypeOK' /\ UNCHANGED <<calls, loading, saving, actionPending>>
<1>1. UNCHANGED <<apiVars, shown, status, saving, actionPending, made, history>>
  BY DEF OpenForm, CloseForm, Edit, vars, dialog
<1>2. form' \in Monitor \cup {NoMonitor, Closed}
  BY DEF OpenForm, CloseForm, Edit, vars, dialog, TypeOK
<1>q. QED BY <1>1, <1>2 DEF apiVars, store, shown, status, history, TypeOK, APITypeOK

--------------------------------------------------------------------------------
(* The invariant.                                                               *)

(* The saving signal is set as long as a save is under way.                     *)
SaveInv == OneSave /\ \A s \in Slot : calls[s].kind = "save" => saving
PageInv == Aimed /\ SaveInv /\ PendingHasCall

(* A step that leaves what the calls ask for and what is pending as it was.     *)
LEMMA SameCalls ==
  ASSUME PageInv, UNCHANGED <<loading, saving, actionPending>>,
         \A t \in Slot : calls'[t].kind = calls[t].kind /\ calls'[t].mon = calls[t].mon
  PROVE  PageInv'
  BY DEF PageInv, Aimed, SaveInv, OneSave, PendingHasCall, Of

(* An answer ends a call or makes it a load, and clears what waited for it.     *)
LEMMA AnswerStep ==
  ASSUME PageInv, NEW s \in Slot, Answered(s, {"none", "load"}),
         loading' => calls'[s].kind = "load" \/ (loading /\ calls[s].kind # "load"),
         saving' <=> saving /\ calls[s].kind # "save",
         actionPending' = NoMonitor \/ (actionPending' = actionPending /\ calls[s].kind \notin Actions)
  PROVE  PageInv'
<1> USE DEF Answered, Actions
<1>1. Aimed'
  BY DEF PageInv, Aimed
<1>2. OneSave'
  BY DEF PageInv, SaveInv, OneSave, Of
<1>3. \A t \in Slot : calls'[t].kind = "save" => saving'
  BY DEF PageInv, SaveInv, OneSave, Of
<1>4. loading' => Of({"load"})' # {}
  BY DEF PageInv, PendingHasCall, Of
<1>5. saving' => Of({"save"})' # {}
  BY DEF PageInv, PendingHasCall, Of
<1>6. actionPending' # NoMonitor =>
        \E t \in Of({"toggle", "check", "delete"})' : calls'[t].mon = actionPending'
  BY DEF PageInv, PendingHasCall, Of
<1>q. QED BY <1>1, <1>2, <1>3, <1>4, <1>5, <1>6 DEF PageInv, SaveInv, PendingHasCall

(* A new call waits for its end, and only a save sets the saving signal.        *)
LEMMA CallStep ==
  ASSUME PageInv, NEW s \in Slot, calls[s].kind = "none", Answered(s, Kinds),
         loading' => calls'[s].kind = "load" \/ loading,
         saving' <=> saving \/ calls'[s].kind = "save",
         calls'[s].kind = "save" => ~saving,
         calls'[s].kind \in Actions => calls'[s].mon \in Monitor,
         actionPending' = actionPending
         \/ (calls'[s].kind \in Actions /\ actionPending' = calls'[s].mon)
  PROVE  PageInv'
<1> USE DEF Answered, Actions, Kinds
<1>1. Aimed'
  BY DEF PageInv, Aimed
<1>2. OneSave'
  <2>1. CASE calls'[s].kind = "save"
    BY <2>1 DEF PageInv, SaveInv, OneSave, Of
  <2>2. CASE calls'[s].kind # "save"
    BY <2>2 DEF PageInv, SaveInv, OneSave, Of
  <2>q. QED BY <2>1, <2>2
<1>3. \A t \in Slot : calls'[t].kind = "save" => saving'
  BY DEF PageInv, SaveInv
<1>4. loading' => Of({"load"})' # {}
  BY DEF PageInv, PendingHasCall, Of
<1>5. saving' => Of({"save"})' # {}
  BY DEF PageInv, PendingHasCall, Of
<1>6. actionPending' # NoMonitor =>
        \E t \in Of({"toggle", "check", "delete"})' : calls'[t].mon = actionPending'
  BY DEF PageInv, PendingHasCall, Of
<1>q. QED BY <1>1, <1>2, <1>3, <1>4, <1>5, <1>6 DEF PageInv, SaveInv, PendingHasCall

LEMMA NextPage == TypeOK /\ PageInv /\ [Next]_vars => TypeOK' /\ PageInv'
<1> SUFFICES ASSUME TypeOK, PageInv, [Next]_vars PROVE TypeOK' /\ PageInv'
  OBVIOUS
<1>0. Aimed
  BY DEF PageInv
<1> USE DEF Answered, Actions
<1>1. CASE OpenForm \/ CloseForm \/ (\E m \in Monitor : Edit(m)) \/ UNCHANGED vars
  BY <1>1, FormType, SameCalls
<1>2. CASE OtherClient \/ \E m \in Monitor : Background(m)
  BY <1>2, OtherType, BackgroundType, SameCalls DEF status, dialog
<1>3. ASSUME NEW s \in Slot, Handled(s) \/ Lost(s) PROVE TypeOK' /\ PageInv'
  BY <1>0, <1>3, HandledType, LostType, SameCalls DEF status, dialog
<1>4. CASE Retry
  <2>1. PICK s \in Slot : Answered(s, {"load"}) /\ calls[s].kind = "none"
    BY <1>4, RetryType
  <2>2. TypeOK' /\ UNCHANGED <<saving, actionPending>>
    BY <1>4, RetryType
  <2>q. QED BY <2>1, <2>2, CallStep DEF Kinds
<1>5. ASSUME NEW s \in Slot, Save(s) PROVE TypeOK' /\ PageInv'
  <2>1. TypeOK' /\ ~saving /\ saving' = TRUE /\ Answered(s, {"save"}) /\ calls[s].kind = "none"
        /\ UNCHANGED <<loading, actionPending>>
    BY <1>5, SaveType
  <2>q. QED BY <2>1, CallStep DEF Kinds
<1>6. ASSUME NEW s \in Slot, NEW m \in Monitor, Toggle(s, m) \/ Check(s, m) \/ Remove(s, m)
      PROVE  TypeOK' /\ PageInv'
  <2>1. TypeOK' /\ actionPending' = m /\ Answered(s, Actions) /\ calls'[s].mon = m
        /\ calls[s].kind = "none" /\ UNCHANGED <<loading, saving>>
    BY <1>6, ActionType
  <2>q. QED BY <2>1, CallStep DEF Kinds
<1>7. ASSUME NEW s \in Slot, ListArrives(s) \/ OverviewArrives(s) \/ LoadFails(s)
      PROVE  TypeOK' /\ PageInv'
  <2>1. CASE UNCHANGED <<calls, loading>>
    BY <1>7, <2>1, OverviewArrivesType, ListArrivesType, LoadFailsType, SameCalls
  <2>2. CASE ~UNCHANGED <<calls, loading>>
    <3>1. TypeOK' /\ calls[s].kind = "load" /\ Answered(s, {"none", "load"})
          /\ UNCHANGED <<saving, actionPending>>
      BY <1>7, <2>2, OverviewArrivesType, ListArrivesType, LoadFailsType
    <3>2. loading' => calls'[s].kind = "load"
      BY <1>7, <2>2, OverviewArrivesType, ListArrivesType, LoadFailsType
    <3>q. QED BY <3>1, <3>2, AnswerStep
  <2>q. QED BY <2>1, <2>2
<1>8. ASSUME NEW s \in Slot, Saved(s) \/ SaveFails(s) PROVE TypeOK' /\ PageInv'
  <2>1. TypeOK' /\ calls[s].kind = "save" /\ saving' = FALSE /\ UNCHANGED actionPending
    BY <1>8, SaveAnswerType
  <2>2. Answered(s, {"none", "load"}) /\ (loading' => calls'[s].kind = "load" \/ loading)
    BY <1>8, SaveAnswerType
  <2>q. QED BY <2>1, <2>2, AnswerStep
<1>9. ASSUME NEW s \in Slot, Toggled(s) \/ Checked(s) \/ Removed(s) \/ ActionFails(s)
      PROVE  TypeOK' /\ PageInv'
  <2>1. TypeOK' /\ calls[s].kind \in Actions /\ actionPending' = NoMonitor /\ UNCHANGED saving
    BY <1>9, ActionAnswerType
  <2>2. Answered(s, {"none", "load"}) /\ (loading' => calls'[s].kind = "load" \/ loading)
    BY <1>9, ActionAnswerType
  <2>3. saving \in BOOLEAN /\ saving' \in BOOLEAN
    BY <2>1 DEF TypeOK
  <2>q. QED BY <2>1, <2>2, <2>3, AnswerStep
<1>q. QED BY <1>1, <1>2, <1>3, <1>4, <1>5, <1>6, <1>7, <1>8, <1>9
      DEF Next, User, Answer

LEMMA InitPage == Init => PageInv
  BY RequestType, APIAssumption
     DEF Init, PageInv, Aimed, SaveInv, OneSave, PendingHasCall, Of, NoCall, Kinds

(* Types are kept, by the page and by the handlers of the API.                  *)
THEOREM TypeCorrect == Spec => []TypeOK
  BY InitType, InitPage, NextPage, PTL DEF Spec

(* However loads, saves and actions overlap, whatever the page says is under    *)
(* way is (the finalize of every subscription).                                 *)
THEOREM PendingIsTrue == Spec => []PendingHasCall
<1>1. PageInv => PendingHasCall
  BY DEF PageInv
<1>q. QED BY <1>1, InitType, InitPage, NextPage, PTL DEF Spec

(* The form can be closed and opened again while its save is under way, and     *)
(* still no second save is sent (the saving signal of save).                    *)
THEOREM SavesAreSingle == Spec => []OneSave
<1>1. PageInv => OneSave
  BY DEF PageInv, SaveInv
<1>q. QED BY <1>1, InitType, InitPage, NextPage, PTL DEF Spec

--------------------------------------------------------------------------------
(* The page and the store.                                                      *)

(* A free slot is empty, an overview belongs to a load, and what is written is a  *)
(* row.                                                                         *)
Shape == \A s \in Slot :
    /\ Free(s) \/ (calls[s].kind # "none" /\ calls[s].phase # "free")
    /\ calls[s].kind # "load" => overviews[s] = NoOverview
    /\ calls[s].kind \in {"save", "toggle"} => calls[s].body \in Row

ChecksExist == \A m \in checked : Stored(m)

OneByOne == \A s, t \in Slot : ~Free(s) /\ ~Free(t) => s = t

(* S tells which monitors were checked in the last day, except for those whose   *)
(* results came or went by themselves since the last load.                      *)
Known(S) == \A m \in Monitor \ moved : m \in S <=> m \in checked

(* What the answers to a load that runs alone say.                              *)
LoadTrue(s) ==
    LET v == overviews[s]
    IN  /\ calls[s].phase \in {"ok", "got"} => calls[s].list = rows
        /\ v.phase = "listed" => v.seen = {m \in Monitor : Stored(m)}
        /\ v.phase = "ok" => Known(v.seen)
        /\ v.phase = "failed" => v.seen = {}
        /\ v.phase = "got" => IF telemetryUnavailable THEN v.seen = {} ELSE Known(v.seen)
        /\ v.phase \in {"sent", "listed", "ok", "failed"} => ~telemetryUnavailable

(* A list of monitors, with the summaries of the page, says what is stored.      *)
Says(list) ==
    /\ list = rows
    /\ telemetryUnavailable => summaries = {}
    /\ ~telemetryUnavailable =>
         \A m \in Monitor \ moved : list[m] # NoRow => (m \in summaries <=> m \in checked)

(* The list of the page as the answer to a served call will leave it.           *)
After(s) ==
    IF At(s, "toggle", "ok")
    THEN [m \in Monitor |-> IF m = calls[s].mon /\ items[m] # NoRow THEN calls[s].body ELSE items[m]]
    ELSE IF At(s, "delete", "ok") THEN [items EXCEPT ![calls[s].mon] = NoRow]
    ELSE items

(* Saves and checks that were served are followed by a load.                    *)
LoadFollows(s) == At(s, "save", "ok") \/ At(s, "check", "ok")

(* The body of a toggle is the row on the page, flipped.                        *)
Flips(s) ==
    ~error /\ (calls[s].phase # "ok" => calls[s].body = [items[calls[s].mon] EXCEPT !.enabled = ~@])

AloneInv ==
    /\ OneByOne
    /\ \A s \in Slot : calls[s].kind = "load" => LoadTrue(s)
    /\ \A s \in Slot : calls[s].kind = "toggle" => Flips(s)
    /\ ~error /\ Quiet => Says(items)
    /\ ~error => \A s \in Slot : calls[s].kind \notin {"none", "load"} /\ ~LoadFollows(s) => Says(After(s))

AgreeInv == Shape /\ ChecksExist /\ (alone => AloneInv)

(* While calls go one by one, the others are free.                              *)
LEMMA OthersFree ==
  ASSUME OneByOne, NEW s \in Slot, ~Free(s)
  PROVE  \A t \in Slot \ {s} : Free(t) /\ calls[t].kind = "none" /\ ~LoadFollows(t)
  BY DEF OneByOne, Free, NoCall, LoadFollows, At

(* A step after which s is busy: the others are as they were, and free if calls  *)
(* go one by one.                                                               *)
LEMMA BusyStep ==
  ASSUME Shape', ChecksExist', NEW s \in Slot, ~Free(s)', calls'[s].kind # "none",
         \A t \in Slot \ {s} : calls'[t] = calls[t],
         alone' => /\ \A t \in Slot \ {s} : Free(t)
                   /\ calls'[s].kind = "load" => LoadTrue(s)'
                   /\ calls'[s].kind = "toggle" => Flips(s)'
                   /\ ~error' /\ calls'[s].kind # "load" /\ ~LoadFollows(s)' => Says(After(s))'
  PROVE  AgreeInv'
<1> SUFFICES ASSUME alone' PROVE AloneInv'
  BY DEF AgreeInv
<1>1. \A t \in Slot \ {s} : calls'[t] = NoCall /\ calls'[t].kind = "none" /\ Free(t)'
  BY DEF Free, NoCall
<1>2. OneByOne'
  BY <1>1 DEF OneByOne
<1>3. ~Quiet'
  BY DEF Quiet
<1>q. QED BY <1>1, <1>2, <1>3 DEF AloneInv

(* A step after which s is free: so is every slot if calls go one by one.        *)
LEMMA FreeStep ==
  ASSUME TypeOK, AgreeInv, NEW s \in Slot, Release(s), UNCHANGED <<rows, checked, history>>,
         ~Free(s), alone /\ ~error' => Says(items)'
  PROVE  AgreeInv'
<1>1. /\ \A t \in Slot \ {s} : calls'[t] = calls[t] /\ overviews'[t] = overviews[t]
      /\ calls'[s] = NoCall /\ overviews'[s] = NoOverview
  BY DEF Release, TypeOK, APITypeOK
<1>2. Shape'
  BY <1>1 DEF AgreeInv, Shape, Free, NoCall
<1>3. ChecksExist'
  BY DEF AgreeInv, ChecksExist, Stored
<1>4. ASSUME alone PROVE AloneInv'
  <2>1. \A t \in Slot : calls'[t] = NoCall /\ calls'[t].kind = "none" /\ Free(t)'
    BY <1>1, <1>4, OthersFree DEF AgreeInv, AloneInv, Free, NoCall
  <2>q. QED BY <1>4, <2>1 DEF AloneInv, OneByOne
<1>5. alone' = alone
  BY DEF history
<1>q. QED BY <1>2, <1>3, <1>4, <1>5 DEF AgreeInv

(* A load begins.                                                               *)
LEMMA LoadStep ==
  ASSUME TypeOK, AgreeInv, NEW s \in Slot, Load(s), UNCHANGED <<rows, checked>>
  PROVE  AgreeInv'
<1> DEFINE c == Request("load", NoMonitor, NoRow)
<1>1. c.kind = "load" /\ c.phase = "sent" /\ c # NoCall
  BY DEF Request, NoCall
<1> HIDE DEF c
<1>2. /\ \A t \in Slot \ {s} : calls'[t] = calls[t] /\ overviews'[t] = overviews[t]
      /\ calls'[s] = c /\ overviews'[s] = AskOverview
      /\ telemetryUnavailable' = FALSE
      /\ alone' => \A t \in Slot \ {s} : Free(t)
  BY DEF Load, TypeOK, APITypeOK, c
<1>3. Shape'
  BY <1>1, <1>2 DEF AgreeInv, Shape, Free
<1>4. ChecksExist'
  BY DEF AgreeInv, ChecksExist, Stored
<1>5. LoadTrue(s)'
  BY <1>1, <1>2 DEF LoadTrue, AskOverview, NoOverview
<1>q. QED BY <1>1, <1>2, <1>3, <1>4, <1>5, BusyStep DEF Free

(* A call other than a load is sent.                                            *)
LEMMA SendStep ==
  ASSUME TypeOK, AgreeInv, NEW s \in Slot, NEW kind \in {"save", "toggle", "check", "delete"},
         NEW m \in Monitor \cup {NoMonitor}, NEW body \in Row \cup {NoRow}, Send(s, kind, m, body),
         kind \in {"save", "toggle"} => body \in Row,
         kind = "toggle" => ~error /\ body = [items[m] EXCEPT !.enabled = ~@]
  PROVE  AgreeInv'
<1> DEFINE c == Request(kind, m, body)
<1>1. c.kind = kind /\ c.phase = "sent" /\ c # NoCall /\ c.body = body /\ c.mon = m
  BY DEF Request, NoCall
<1> HIDE DEF c
<1>2. /\ \A t \in Slot \ {s} : calls'[t] = calls[t]
      /\ calls'[s] = c
      /\ UNCHANGED <<rows, checked, overviews, items, summaries, error, telemetryUnavailable, moved>>
      /\ calls[s].kind = "none"
  BY DEF Send, TypeOK, APITypeOK, store, shown, status, Free, NoCall, c
<1>a. alone' => alone /\ Quiet
  BY Zenon DEF Send
<1>3. Shape'
  BY <1>1, <1>2 DEF AgreeInv, Shape, Free
<1>4. ChecksExist'
  BY <1>2 DEF AgreeInv, ChecksExist, Stored
<1>5. kind = "toggle" => Flips(s)'
  BY <1>1, <1>2 DEF Flips
<1>6. alone' /\ ~error' => Says(After(s))'
  <2>1. After(s)' = items
    BY <1>1, <1>2 DEF After, At
  <2>2. alone' /\ ~error' => Says(items)
    BY <1>2, <1>a DEF AgreeInv, AloneInv
  <2>q. QED BY <1>2, <2>1, <2>2 DEF Says
<1>q. QED BY <1>a, <1>1, <1>2, <1>3, <1>4, <1>5, <1>6, BusyStep DEF Free, Quiet

(* The answers to a load.                                                       *)
LEMMA ShowStep ==
  ASSUME TypeOK, AgreeInv, NEW s \in Slot, Show(s), UNCHANGED <<rows, checked, history>>,
         calls[s].kind = "load", calls[s].phase \in {"ok", "got"},
         alone => IF telemetryUnavailable' THEN overviews[s].seen = {} ELSE Known(overviews[s].seen)
  PROVE  AgreeInv'
<1>1. ~Free(s)
  BY DEF Free, NoCall
<1>2. ASSUME alone PROVE Says(items)'
  <2>1. items' = rows
    BY <1>2 DEF Show, AgreeInv, AloneInv, LoadTrue
  <2>2. IF telemetryUnavailable' THEN summaries' = {} ELSE Known(summaries')
    BY <1>2 DEF Show
  <2>q. QED BY <2>1, <2>2 DEF Says, Known, history
<1>q. QED BY <1>1, <1>2, FreeStep DEF Show

(* An overview under way is that of a load.                                     *)
LEMMA OverviewOfLoad ==
  ASSUME Shape, NEW s \in Slot, overviews[s].phase # "free"
  PROVE  calls[s].kind = "load" /\ ~Free(s)
  BY DEF Shape, NoOverview, Free, NoCall

LEMMA ListArrivesStep ==
  ASSUME TypeOK, AgreeInv, NEW s \in Slot, ListArrives(s)
  PROVE  AgreeInv'
<1>0. calls[s].kind = "load" /\ calls[s].phase = "ok" /\ ~Free(s)
      /\ UNCHANGED <<rows, checked, history, alone, moved, telemetryUnavailable>>
  BY DEF ListArrives, At, Free, NoCall, store, history
<1>1. CASE overviews[s].phase = "got"
  <2>1. alone => IF telemetryUnavailable' THEN overviews[s].seen = {} ELSE Known(overviews[s].seen)
    BY <1>0, <1>1 DEF AgreeInv, AloneInv, LoadTrue
  <2>q. QED BY <1>0, <1>1, <2>1, ShowStep DEF ListArrives
<1>2. CASE overviews[s].phase # "got"
  <2>1. /\ \A t \in Slot \ {s} : calls'[t] = calls[t]
        /\ calls'[s] = [calls[s] EXCEPT !.phase = "got"]
        /\ UNCHANGED overviews
    BY <1>2 DEF ListArrives, Advance, TypeOK, APITypeOK
  <2>2. calls'[s].kind = "load" /\ calls'[s].list = calls[s].list /\ calls'[s].phase = "got"
    BY <1>0, <2>1 DEF TypeOK, APITypeOK, Call
  <2>f. ~Free(s)'
    BY <2>2 DEF Free, NoCall
  <2>3. Shape' /\ ~Free(s)'
    BY <2>1, <2>2, <2>f DEF AgreeInv, Shape, Free
  <2>4. ChecksExist'
    BY <1>0 DEF AgreeInv, ChecksExist, Stored
  <2>5. alone => LoadTrue(s)' /\ OneByOne
    BY <1>0, <2>1, <2>2 DEF AgreeInv, AloneInv, LoadTrue, Known, Stored
  <2>q. QED BY <1>0, <2>1, <2>2, <2>3, <2>4, <2>5, BusyStep, OthersFree
<1>q. QED BY <1>1, <1>2

LEMMA OverviewArrivesStep ==
  ASSUME TypeOK, AgreeInv, NEW s \in Slot, OverviewArrives(s)
  PROVE  AgreeInv'
<1>0. overviews[s].phase \in {"failed", "ok"} /\ UNCHANGED <<rows, checked, history, alone, moved>>
  BY DEF OverviewArrives, store, history
<1>1. calls[s].kind = "load" /\ ~Free(s)
  BY <1>0, OverviewOfLoad DEF AgreeInv
<1>2. ASSUME alone
      PROVE  IF telemetryUnavailable' THEN overviews[s].seen = {} ELSE Known(overviews[s].seen)
  <2>1. LoadTrue(s)
    BY <1>1, <1>2 DEF AgreeInv, AloneInv
  <2>2. telemetryUnavailable' = (overviews[s].phase = "failed")
    BY <2>1 DEF OverviewArrives, LoadTrue, TypeOK
  <2>q. QED BY <1>0, <2>1, <2>2 DEF LoadTrue
<1>3. CASE At(s, "load", "got")
  BY <1>0, <1>1, <1>2, <1>3, ShowStep DEF OverviewArrives, At
<1>4. CASE ~At(s, "load", "got")
  <2>1. /\ overviews' = [overviews EXCEPT ![s].phase = "got"]
        /\ UNCHANGED calls
    BY <1>4 DEF OverviewArrives
  <2>2. /\ \A t \in Slot \ {s} : overviews'[t] = overviews[t]
        /\ overviews'[s].phase = "got" /\ overviews'[s].seen = overviews[s].seen
    BY <2>1 DEF TypeOK, APITypeOK, Overview
  <2>3. Shape' /\ ChecksExist'
    BY <1>0, <1>1, <2>1, <2>2 DEF AgreeInv, Shape, Free, ChecksExist, Stored
  <2>4. alone => LoadTrue(s)' /\ OneByOne
    BY <1>0, <1>1, <1>2, <2>1, <2>2 DEF AgreeInv, AloneInv, LoadTrue, Known
  <2>5. ~Free(s)'
    BY <1>1, <2>1 DEF Free
  <2>q. QED BY <1>0, <1>1, <2>1, <2>3, <2>4, <2>5, BusyStep, OthersFree
<1>q. QED BY <1>3, <1>4

(* The other answers.                                                           *)
LEMMA AnswerAgrees ==
  ASSUME TypeOK, AgreeInv, NEW s \in Slot, Answer(s)
  PROVE  AgreeInv'
<1>1. CASE LoadFails(s)
  BY <1>1, FreeStep DEF LoadFails, At, Free, NoCall, store, history
<1>2. CASE Saved(s) \/ Checked(s)
  BY <1>2, LoadStep DEF Saved, Checked, store
<1>3. CASE SaveFails(s) \/ ActionFails(s) \/ Toggled(s) \/ Removed(s)
  <2>1. /\ Release(s) /\ calls[s].kind \notin {"none", "load"} /\ ~Free(s) /\ ~LoadFollows(s)
        /\ UNCHANGED <<rows, checked, history, moved, error, telemetryUnavailable, summaries>>
    BY <1>3 DEF SaveFails, ActionFails, Toggled, Removed, At, LoadFollows, Free, NoCall,
                store, shown, status, history
  <2>2. items' = After(s)
    BY <1>3 DEF SaveFails, ActionFails, Toggled, Removed, At, After, shown
  <2>3. alone /\ ~error => Says(After(s))
    BY <2>1 DEF AgreeInv, AloneInv
  <2>4. alone /\ ~error' => Says(items)'
    BY <2>1, <2>2, <2>3 DEF Says
  <2>q. QED BY <2>1, <2>4, FreeStep
<1>q. QED BY <1>1, <1>2, <1>3, ListArrivesStep, OverviewArrivesStep DEF Answer

LEMMA UserAgrees ==
  ASSUME TypeOK, AgreeInv, User
  PROVE  AgreeInv'
<1>1. CASE Retry
  BY <1>1, LoadStep DEF Retry, store
<1>2. CASE OpenForm \/ CloseForm \/ \E m \in Monitor : Edit(m)
  <2>1. UNCHANGED <<apiVars, shown, status, alone, moved>>
    BY <1>2 DEF OpenForm, CloseForm, Edit, history
  <2>q. QED BY <2>1 DEF apiVars, store, shown, status, AgreeInv, Shape, ChecksExist, Stored, AloneInv,
            OneByOne, LoadTrue, Known, Flips, Quiet, Free, Says, After, At, LoadFollows
<1>3. ASSUME NEW s \in Slot, Save(s) PROVE AgreeInv'
  <2>1. PICK body \in Row : Send(s, "save", form, body)
    BY <1>3 DEF Save
  <2>2. form \in Monitor \cup {NoMonitor}
    BY <1>3 DEF Save, FormShown, TypeOK
  <2>q. QED BY <2>1, <2>2, SendStep
<1>4. ASSUME NEW s \in Slot, NEW m \in Monitor, Toggle(s, m) PROVE AgreeInv'
  <2>1. [items[m] EXCEPT !.enabled = ~@] \in Row /\ ~error
    BY <1>4 DEF Toggle, Drawn, TypeOK, Rows, Row
  <2>q. QED BY <1>4, <2>1, SendStep DEF Toggle
<1>5. ASSUME NEW s \in Slot, NEW m \in Monitor, Check(s, m) \/ Remove(s, m) PROVE AgreeInv'
  BY <1>5, SendStep DEF Check, Remove
<1>q. QED BY <1>1, <1>2, <1>3, <1>4, <1>5 DEF User

(* The handlers and failures: s moves to phase p, the other calls stay.          *)
LEMMA AdvanceIs ==
  ASSUME TypeOK, NEW s \in Slot, NEW p, Advance(s, p)
  PROVE  /\ \A t \in Slot \ {s} : calls'[t] = calls[t]
         /\ calls'[s].phase = p
         /\ calls'[s].kind = calls[s].kind /\ calls'[s].mon = calls[s].mon
         /\ calls'[s].body = calls[s].body /\ calls'[s].list = calls[s].list
  BY DEF Advance, TypeOK, APITypeOK, Call

(* The shape after a call that was under way has moved on.                      *)
LEMMA ShapeKept ==
  ASSUME Shape, NEW s \in Slot, NEW p \in {"read", "ok", "failed"}, calls[s].kind # "none",
         \A t \in Slot \ {s} : calls'[t] = calls[t],
         calls'[s].kind = calls[s].kind, calls'[s].body = calls[s].body, calls'[s].phase = p,
         UNCHANGED overviews
  PROVE  Shape' /\ ~Free(s) /\ ~Free(s)'
<1>1. ~Free(s) /\ ~Free(s)'
  BY DEF Free, NoCall
<1>q. QED BY <1>1 DEF Shape, Free

(* The monitor was looked up, or the call has failed: nothing is stored, and an  *)
(* answer that was not served changes nothing on the page.                      *)
LEMMA UnservedStep ==
  ASSUME TypeOK, AgreeInv, NEW s \in Slot, NEW p \in {"read", "failed"}, Advance(s, p),
         calls[s].kind # "none",
         UNCHANGED <<rows, checked, overviews, items, summaries, error, telemetryUnavailable, moved>>,
         alone' => alone /\ (calls[s].phase = "ok" => calls[s].kind = "load")
  PROVE  AgreeInv'
<1>1. Shape' /\ ~Free(s) /\ ~Free(s)'
  BY AdvanceIs, ShapeKept DEF AgreeInv
<1>2. ChecksExist'
  BY DEF AgreeInv, ChecksExist, Stored
<1>3. ASSUME alone' PROVE \A t \in Slot \ {s} : Free(t)
  BY <1>1, <1>3, OthersFree DEF AgreeInv, AloneInv
<1>4. ASSUME alone', calls'[s].kind = "load" PROVE LoadTrue(s)'
  <2>1. LoadTrue(s)
    BY <1>4, AdvanceIs DEF AgreeInv, AloneInv
  <2>2. calls'[s].phase \notin {"ok", "got"} /\ overviews' = overviews
        /\ telemetryUnavailable' = telemetryUnavailable /\ rows' = rows /\ checked' = checked
        /\ moved' = moved
    BY AdvanceIs
  <2>q. QED BY <2>1, <2>2 DEF LoadTrue, Known, Stored
<1>5. ASSUME alone', calls'[s].kind = "toggle" PROVE Flips(s)'
  BY <1>5, AdvanceIs DEF AgreeInv, AloneInv, Flips
<1>6. ASSUME alone', ~error', calls'[s].kind # "load" PROVE Says(After(s))'
  <2>1. After(s)' = items' /\ After(s) = items
    BY <1>6, AdvanceIs DEF After, At
  <2>2. calls[s].kind \notin {"none", "load"} /\ ~LoadFollows(s)
    BY <1>6, AdvanceIs DEF LoadFollows, At
  <2>3. Says(After(s))
    BY <1>6, <2>2 DEF AgreeInv, AloneInv
  <2>q. QED BY <2>1, <2>3 DEF Says
<1>q. QED BY <1>1, <1>2, <1>3, <1>4, <1>5, <1>6, AdvanceIs, BusyStep

(* A served call: the store has changed.                                        *)
LEMMA ServedStep ==
  ASSUME TypeOK, AgreeInv, NEW s \in Slot, Advance(s, "ok"),
         calls[s].kind \in {"save", "toggle", "check", "delete"}, UNCHANGED <<overviews, alone, error>>,
         ChecksExist',
         alone /\ ~error /\ calls[s].kind \in {"toggle", "delete"} => Says(After(s))'
  PROVE  AgreeInv'
<1>1. Shape' /\ ~Free(s) /\ ~Free(s)'
  BY AdvanceIs, ShapeKept DEF AgreeInv
<1>3. ASSUME alone' PROVE \A t \in Slot \ {s} : Free(t)
  BY <1>1, <1>3, OthersFree DEF AgreeInv, AloneInv
<1>5. ASSUME alone', calls'[s].kind = "toggle" PROVE Flips(s)'
  BY <1>5, AdvanceIs DEF AgreeInv, AloneInv, Flips
<1>6. LoadFollows(s)' \/ calls[s].kind \in {"toggle", "delete"}
  BY AdvanceIs DEF LoadFollows, At
<1>q. QED BY <1>1, <1>3, <1>5, <1>6, AdvanceIs, BusyStep

(* Before a call is served, the page says what is stored.                       *)
LEMMA SaysBefore ==
  ASSUME AgreeInv, alone, ~error, NEW s \in Slot, calls[s].kind \notin {"none", "load"},
         calls[s].phase # "ok"
  PROVE  Says(items)
<1>1. ~LoadFollows(s) /\ After(s) = items
  BY DEF LoadFollows, After, At
<1>q. QED BY <1>1 DEF AgreeInv, AloneInv

LEMMA PatchAgrees ==
  ASSUME TypeOK, AgreeInv, NEW s \in Slot, ServePatch(s), ~Refuse(s),
         UNCHANGED <<items, summaries, error, telemetryUnavailable, alone, moved>>
  PROVE  AgreeInv'
<1> DEFINE m == calls[s].mon
           body == calls[s].body
<1>0. /\ calls[s].kind \in {"save", "toggle"} /\ calls[s].phase = "read"
      /\ Stored(m) /\ rows' = [rows EXCEPT ![m] = body] /\ UNCHANGED <<checked, overviews>>
      /\ Advance(s, "ok")
  BY DEF ServePatch, At, Update
<1>1. body \in Row /\ body # NoRow
  BY <1>0, APIAssumption DEF AgreeInv, Shape, Row
<1>2. ChecksExist'
  BY <1>0, <1>1 DEF AgreeInv, ChecksExist, Stored, TypeOK, APITypeOK, Rows
<1>3. ASSUME alone, ~error, calls[s].kind = "toggle" PROVE Says(After(s))'
  <2>1. Says(items)
    BY <1>0, <1>3, SaysBefore
  <2>2. After(s)' = [n \in Monitor |-> IF n = m /\ items[n] # NoRow THEN body ELSE items[n]]
    BY <1>0, <1>3, AdvanceIs DEF After, At
  <2>3. items = rows /\ items[m] # NoRow
    BY <1>0, <2>1 DEF Says, Stored
  <2>4. After(s)' = rows'
    BY <1>0, <2>2, <2>3 DEF TypeOK, APITypeOK, Rows
  <2>5. \A n \in Monitor : rows'[n] # NoRow <=> rows[n] # NoRow
    BY <1>0, <1>1, <2>3 DEF TypeOK, APITypeOK, Rows
  <2>6. {n \in Monitor : rows'[n] # NoRow} = {n \in Monitor : items[n] # NoRow}
    BY <2>3, <2>5
  <2>q. QED BY <1>0, <2>1, <2>4, <2>6 DEF Says
<1>q. QED BY <1>0, <1>2, <1>3, ServedStep

LEMMA DeleteAgrees ==
  ASSUME TypeOK, Aimed, AgreeInv, NEW s \in Slot, ServeDelete(s), ~Refuse(s),
         UNCHANGED <<items, summaries, error, telemetryUnavailable, alone, moved>>
  PROVE  AgreeInv'
<1> DEFINE m == calls[s].mon
<1>0. /\ calls[s].kind = "delete" /\ calls[s].phase = "sent"
      /\ rows' = [rows EXCEPT ![m] = NoRow] /\ checked' = checked \ {m} /\ UNCHANGED overviews
      /\ Advance(s, "ok")
  BY DEF ServeDelete, At, Delete
<1>1. m \in Monitor
  BY <1>0 DEF Aimed
<1>2. ChecksExist'
  BY <1>0 DEF AgreeInv, ChecksExist, Stored, TypeOK, APITypeOK, Rows
<1>3. ASSUME alone, ~error PROVE Says(After(s))'
  <2>1. Says(items)
    BY <1>0, <1>3, SaysBefore
  <2>2. After(s)' = [items EXCEPT ![m] = NoRow]
    BY <1>0, AdvanceIs DEF After, At
  <2>3. After(s)' = rows'
    BY <1>0, <2>1, <2>2 DEF Says
  <2>4. {n \in Monitor : rows'[n] # NoRow} = {n \in Monitor : items[n] # NoRow} \ {m}
    BY <1>0, <1>1, <2>1 DEF Says, TypeOK, APITypeOK, Rows
  <2>q. QED BY <1>0, <2>1, <2>3, <2>4 DEF Says
<1>q. QED BY <1>0, <1>2, <1>3, ServedStep

LEMMA CheckServed ==
  ASSUME TypeOK, Aimed, AgreeInv, NEW s \in Slot, ServeCheck(s), ~Refuse(s),
         UNCHANGED <<alone, error>>
  PROVE  AgreeInv'
<1>0. /\ calls[s].kind = "check" /\ Stored(calls[s].mon) /\ checked' = checked \cup {calls[s].mon}
      /\ UNCHANGED <<rows, overviews>> /\ Advance(s, "ok")
  BY DEF ServeCheck, At
<1>1. ChecksExist'
  BY <1>0 DEF AgreeInv, ChecksExist, Stored
<1>q. QED BY <1>0, <1>1, ServedStep

LEMMA CreateServed ==
  ASSUME TypeOK, AgreeInv, NEW s \in Slot, ServeCreate(s), ~Refuse(s), UNCHANGED <<alone, error>>
  PROVE  AgreeInv'
<1>0. calls[s].kind = "save" /\ Advance(s, "ok") /\ UNCHANGED overviews
  BY DEF ServeCreate, At
<1>1. PICK m \in Monitor : Insert(m, calls[s].body)
  BY DEF ServeCreate
<1>2. calls[s].body # NoRow
  BY <1>0, APIAssumption DEF AgreeInv, Shape, Row
<1>3. ChecksExist'
  BY <1>1, <1>2 DEF Insert, AgreeInv, ChecksExist, Stored, TypeOK, APITypeOK, Rows
<1>q. QED BY <1>0, <1>3, ServedStep

(* A step of the answers to a load.                                             *)
LEMMA LoadServed ==
  ASSUME TypeOK, AgreeInv, NEW s \in Slot, UNCHANGED <<rows, checked, alone, moved>>,
         calls[s].kind = "load", calls'[s].kind = "load", calls'[s].phase # "free",
         \A t \in Slot \ {s} : calls'[t] = calls[t] /\ overviews'[t] = overviews[t],
         alone /\ LoadTrue(s) => LoadTrue(s)'
  PROVE  AgreeInv'
<1>1. ~Free(s) /\ ~Free(s)'
  BY DEF Free, NoCall
<1>2. Shape'
  BY <1>1 DEF AgreeInv, Shape, Free
<1>3. ChecksExist'
  BY DEF AgreeInv, ChecksExist, Stored
<1>4. ASSUME alone PROVE LoadTrue(s)' /\ OneByOne
  BY <1>4 DEF AgreeInv, AloneInv
<1>q. QED BY <1>1, <1>2, <1>3, <1>4, BusyStep, OthersFree

LEMMA ListServed ==
  ASSUME TypeOK, AgreeInv, NEW s \in Slot, ServeList(s), UNCHANGED <<telemetryUnavailable, alone, moved>>
  PROVE  AgreeInv'
<1>1. /\ \A t \in Slot \ {s} : calls'[t] = calls[t]
      /\ calls'[s].kind = "load" /\ calls'[s].phase = "ok" /\ calls'[s].list = rows
      /\ calls[s].kind = "load"
      /\ UNCHANGED <<rows, checked, overviews>>
  BY DEF ServeList, At, store, TypeOK, APITypeOK, Call
<1>2. LoadTrue(s) => LoadTrue(s)'
  BY <1>1 DEF LoadTrue, Known, Stored
<1>q. QED BY <1>1, <1>2, LoadServed

LEMMA OverviewServed ==
  ASSUME TypeOK, AgreeInv, NEW s \in Slot, OverviewList(s) \/ OverviewSummaries(s) \/ OverviewFails(s),
         UNCHANGED <<telemetryUnavailable, alone, moved>>
  PROVE  AgreeInv'
<1>0. overviews[s].phase # "free"
  BY DEF OverviewList, OverviewSummaries, OverviewFails
<1>1. /\ calls[s].kind = "load" /\ calls[s].phase # "free" /\ calls'[s].phase # "free"
      /\ UNCHANGED <<rows, checked, calls>>
  BY <1>0, OverviewOfLoad
     DEF OverviewList, OverviewSummaries, OverviewFails, store, AgreeInv, Shape
<1>2. \A t \in Slot \ {s} : overviews'[t] = overviews[t]
  BY DEF OverviewList, OverviewSummaries, OverviewFails, TypeOK, APITypeOK
<1>3. CASE OverviewList(s)
  <2>1. overviews'[s] = [phase |-> "listed", seen |-> {m \in Monitor : Stored(m)}]
    BY <1>3 DEF OverviewList, TypeOK, APITypeOK
  <2>2. {m \in Monitor : Stored(m)}' = {m \in Monitor : Stored(m)}
    BY <1>1 DEF Stored
  <2>3. LoadTrue(s) => LoadTrue(s)'
    BY <1>1, <1>3, <2>1, <2>2 DEF OverviewList, LoadTrue
  <2>q. QED BY <1>1, <1>2, <2>3, LoadServed
<1>4. CASE OverviewSummaries(s) /\ overviews'[s].phase = "ok"
  <2>1. overviews'[s] = [phase |-> "ok", seen |-> overviews[s].seen \cap checked]
    BY <1>4 DEF OverviewSummaries, NoOverview, TypeOK, APITypeOK
  <2>2. {m \in Monitor : Stored(m)} \cap checked = checked
    BY DEF AgreeInv, ChecksExist, TypeOK, APITypeOK
  <2>3. LoadTrue(s) => LoadTrue(s)'
    BY <1>1, <1>4, <2>1, <2>2 DEF OverviewSummaries, LoadTrue, Known
  <2>q. QED BY <1>1, <1>2, <2>3, LoadServed
<1>5. CASE OverviewFails(s) \/ (OverviewSummaries(s) /\ overviews'[s].phase # "ok")
  <2>1. overviews'[s] = [NoOverview EXCEPT !.phase = "failed"]
        /\ overviews[s].phase \in {"sent", "listed", "ok"}
    BY <1>5 DEF OverviewSummaries, OverviewFails, TypeOK, APITypeOK
  <2>2. overviews'[s].phase = "failed" /\ overviews'[s].seen = {}
    BY <2>1 DEF NoOverview
  <2>3. LoadTrue(s) => LoadTrue(s)'
    BY <1>1, <2>1, <2>2 DEF LoadTrue
  <2>q. QED BY <1>1, <1>2, <2>3, LoadServed
<1>q. QED BY <1>3, <1>4, <1>5

LEMMA HandledAgrees ==
  ASSUME TypeOK, Aimed, AgreeInv, NEW s \in Slot, Handled(s)
  PROVE  AgreeInv'
<1>0. Serve(s) /\ UNCHANGED <<items, summaries, error, telemetryUnavailable, alone, moved>>
  BY DEF Handled, shown, status, history
<1>1. CASE ServeGet(s) \/ Refuse(s)
  <2>1. PICK p \in {"read", "failed"} : Advance(s, p) /\ UNCHANGED <<store, overviews>>
    BY <1>1 DEF ServeGet, Refuse
  <2>2. calls[s].kind # "none" /\ (calls[s].phase = "ok" => calls[s].kind = "load")
    <3>1. ASSUME Free(s) PROVE FALSE
      <4>1. calls[s].phase = "free" /\ calls[s].kind = "none"
        BY <3>1 DEF Free, NoCall
      <4>2. overviews[s] = NoOverview
        BY <4>1 DEF AgreeInv, Shape
      <4>q. QED BY <1>0, <4>1, <4>2
        DEF Serve, ServeCreate, ServeGet, ServePatch, ServeCheck, ServeDelete, ServeList,
            OverviewList, OverviewSummaries, At, NoOverview
    <3>2. calls[s].kind # "none"
      BY <3>1 DEF AgreeInv, Shape
    <3>3. ASSUME calls[s].phase = "ok", calls[s].kind # "load" PROVE FALSE
      <4>1. overviews[s] = NoOverview
        BY <3>3 DEF AgreeInv, Shape
      <4>q. QED BY <1>0, <3>3, <4>1
        DEF Serve, ServeCreate, ServeGet, ServePatch, ServeCheck, ServeDelete, ServeList,
            OverviewList, OverviewSummaries, At, NoOverview
    <3>q. QED BY <3>2, <3>3
  <2>q. QED BY <1>0, <2>1, <2>2, UnservedStep DEF store
<1>2. CASE ServeList(s) \/ OverviewList(s) \/ OverviewSummaries(s)
  BY <1>0, <1>2, ListServed, OverviewServed
<1>3. CASE ~Refuse(s) /\ (ServeCreate(s) \/ ServePatch(s) \/ ServeCheck(s) \/ ServeDelete(s))
  BY <1>0, <1>3, CreateServed, PatchAgrees, CheckServed, DeleteAgrees
<1>q. QED BY <1>0, <1>1, <1>2, <1>3 DEF Serve

LEMMA LostAgrees ==
  ASSUME TypeOK, AgreeInv, NEW s \in Slot, Lost(s)
  PROVE  AgreeInv'
<1>0. UNCHANGED <<items, summaries, error, telemetryUnavailable, moved>>
  BY DEF Lost, shown, status
<1>1. CASE OverviewFails(s) /\ UNCHANGED alone
  BY <1>0, <1>1, OverviewServed
<1>2. CASE CallFails(s) /\ alone' = (alone /\ (calls[s].phase = "ok" => calls[s].kind = "load"))
  <2>1. Advance(s, "failed") /\ UNCHANGED <<rows, checked, overviews>>
        /\ calls[s].phase # "free"
    BY <1>2 DEF CallFails, Refuse, store
  <2>2. calls[s].kind # "none"
    BY <2>1 DEF AgreeInv, Shape, Free, NoCall
  <2>3. alone' => alone /\ (calls[s].phase = "ok" => calls[s].kind = "load")
    BY Zenon, <1>2
  <2>q. QED BY <1>0, <2>1, <2>2, <2>3, UnservedStep
<1>q. QED BY <1>1, <1>2 DEF Lost

LEMMA OtherAgrees ==
  ASSUME TypeOK, AgreeInv, OtherClient
  PROVE  AgreeInv'
<1>1. alone' = FALSE /\ UNCHANGED <<calls, overviews>>
  BY DEF OtherClient, Elsewhere
<1>2. Shape'
  BY <1>1 DEF AgreeInv, Shape, Free
<1>3. ChecksExist'
  <2>1. PICK m \in Monitor : Delete(m) \/ \E row \in Row : Insert(m, row) \/ Update(m, row)
    BY DEF OtherClient, Elsewhere
  <2>2. \A row \in Row : row # NoRow
    BY APIAssumption DEF Row
  <2>q. QED BY <2>1, <2>2 DEF Insert, Delete, Update, AgreeInv, ChecksExist, Stored, TypeOK, APITypeOK, Rows
<1>q. QED BY <1>1, <1>2, <1>3 DEF AgreeInv

(* Results that come and go by themselves change what is known of their monitor  *)
(* only, and that is excepted until the next load.                              *)
LEMMA BackgroundAgrees ==
  ASSUME TypeOK, AgreeInv, NEW m \in Monitor, Background(m)
  PROVE  AgreeInv'
<1>1. /\ UNCHANGED <<rows, calls, overviews, items, summaries, error, telemetryUnavailable, alone>>
      /\ moved' = moved \cup {m}
      /\ \A n \in Monitor \ {m} : n \in checked' <=> n \in checked
  BY DEF Background, ResultStored, ResultAges, shown, status
<1>2. Shape'
  BY <1>1 DEF AgreeInv, Shape, Free
<1>3. ChecksExist'
  BY DEF Background, ResultStored, ResultAges, AgreeInv, ChecksExist, Stored
<1>4. ASSUME NEW S, Known(S) PROVE \A n \in Monitor \ moved' : n \in S <=> n \in checked'
  BY <1>1, <1>4 DEF Known
<1>5. ASSUME NEW s \in Slot, LoadTrue(s) PROVE LoadTrue(s)'
  BY <1>1, <1>4, <1>5 DEF LoadTrue, Known, Stored
<1>6. ASSUME NEW list, Says(list)
      PROVE  /\ list = rows'
             /\ telemetryUnavailable' => summaries' = {}
             /\ ~telemetryUnavailable' => \A n \in Monitor \ moved' :
                    list[n] # NoRow => (n \in summaries' <=> n \in checked')
  BY <1>1, <1>6 DEF Says
<1>7. \A s \in Slot : (After(s))' = After(s) /\ (Flips(s))' = Flips(s)
                     /\ (LoadFollows(s))' = LoadFollows(s)
  BY <1>1 DEF After, Flips, LoadFollows, At
<1>8. ASSUME alone PROVE AloneInv'
  <2>1. AloneInv
    BY <1>8 DEF AgreeInv
  <2>2. OneByOne' /\ (Quiet' <=> Quiet)
    BY <1>1, <2>1 DEF AloneInv, OneByOne, Quiet, Free
  <2>3. \A s \in Slot : calls'[s].kind = "load" => LoadTrue(s)'
    BY <1>1, <1>5, <2>1 DEF AloneInv
  <2>4. \A s \in Slot : calls'[s].kind = "toggle" => Flips(s)'
    BY <1>1, <1>7, <2>1 DEF AloneInv
  <2>5. ~error' /\ Quiet' => Says(items)'
    BY <1>1, <1>6, <2>1, <2>2 DEF AloneInv, Says
  <2>6. ~error' => \A s \in Slot :
           calls'[s].kind \notin {"none", "load"} /\ ~LoadFollows(s)' => Says(After(s))'
    BY <1>1, <1>6, <1>7, <2>1 DEF AloneInv, Says
  <2>q. QED BY <2>2, <2>3, <2>4, <2>5, <2>6 DEF AloneInv
<1>q. QED BY <1>1, <1>2, <1>3, <1>8 DEF AgreeInv

LEMMA InitAgrees == Init => AgreeInv
<1> SUFFICES ASSUME Init PROVE AgreeInv
  OBVIOUS
<1> DEFINE c == Request("load", NoMonitor, NoRow)
<1>1. c.kind = "load" /\ c.phase = "sent" /\ c # NoCall
  BY DEF Request, NoCall
<1> HIDE DEF c
<1>2. PICK s \in Slot : /\ calls = [t \in Slot |-> IF t = s THEN c ELSE NoCall]
                        /\ overviews = [t \in Slot |-> IF t = s THEN AskOverview ELSE NoOverview]
  BY DEF Init, c
<1>3. NoCall.kind = "none" /\ AskOverview.phase = "sent"
  BY DEF NoCall, AskOverview, NoOverview
<1>4. \A t \in Slot \ {s} : Free(t) /\ calls[t].kind = "none"
  BY <1>2, <1>3 DEF Free
<1>5. calls[s] = c /\ ~Free(s) /\ ~Quiet
  BY <1>1, <1>2 DEF Free, Quiet
<1>6. Shape
  BY <1>1, <1>2, <1>3, <1>4, <1>5 DEF Shape
<1>7. ChecksExist
  BY DEF Init, APIInit, ChecksExist
<1>8. LoadTrue(s)
  BY <1>1, <1>2, <1>3, <1>5 DEF LoadTrue, Init
<1>9. AloneInv
  BY <1>1, <1>4, <1>5, <1>8 DEF AloneInv, OneByOne
<1>q. QED BY <1>6, <1>7, <1>9 DEF AgreeInv

LEMMA NextAgrees == TypeOK /\ Aimed /\ AgreeInv /\ [Next]_vars => AgreeInv'
<1> SUFFICES ASSUME TypeOK, Aimed, AgreeInv, [Next]_vars PROVE AgreeInv'
  OBVIOUS
<1>1. CASE UNCHANGED vars
  BY <1>1 DEF vars, apiVars, store, shown, status, dialog, history, AgreeInv, Shape, ChecksExist, Stored,
       AloneInv, OneByOne, LoadTrue, Known, Flips, Quiet, Free, Says, After, At, LoadFollows
<1>q. QED BY <1>1, UserAgrees, OtherAgrees, BackgroundAgrees, AnswerAgrees, HandledAgrees, LostAgrees DEF Next

(* PostgreSQL is the source of truth: once nothing is under way, a page whose    *)
(* user acts on one thing at a time, while nobody else writes monitors, shows    *)
(* the monitors that are stored, whatever failed in between (load after save and *)
(* check, the local changes of toggle and remove), and of each whether it was    *)
(* checked in the last day, as of the last load.                                *)
THEOREM QuietPageAgrees == Spec => []PageAgrees
<1>1. TypeOK /\ AgreeInv => PageAgrees
  BY DEF AgreeInv, AloneInv, Says, PageAgrees
<1>2. PageInv => Aimed
  BY DEF PageInv
<1>q. QED BY <1>1, <1>2, InitType, InitPage, NextPage, InitAgrees, NextAgrees, PTL DEF Spec

(* While a toggle of a lone user is at its statement, only its own handler      *)
(* can serve it.                                                                *)
LEMMA OnlyItsHandler ==
  ASSUME TypeOK, AgreeInv, [Next]_vars, NEW s \in Slot, alone, At(s, "toggle", "read"), At(s, "toggle", "ok")'
  PROVE  ServePatch(s) /\ ~Refuse(s)
<1>0. /\ ~Free(s) /\ calls[s].kind = "toggle" /\ calls[s].phase = "read"
      /\ calls'[s].kind = "toggle" /\ calls'[s].phase = "ok" /\ overviews[s] = NoOverview
  BY DEF At, Free, NoCall, AgreeInv, Shape
<1>1. \A t \in Slot \ {s} : Free(t) /\ calls[t].kind = "none" /\ calls[t].phase = "free"
                            /\ overviews[t] = NoOverview
  BY <1>0, OthersFree DEF AgreeInv, AloneInv, Shape, Free, NoCall
<1>2. ASSUME NEW t \in Slot, \A u \in Slot \ {t} : calls'[u] = calls[u] PROVE t = s
  BY <1>0, <1>2
<1>3. ASSUME NEW t \in Slot, Answer(t) PROVE FALSE
  BY <1>0, <1>1, <1>3
     DEF Answer, ListArrives, OverviewArrives, LoadFails, Saved, SaveFails, Toggled, Checked, Removed,
         ActionFails, At, NoOverview
<1>4. ASSUME NEW t \in Slot, NEW kind, NEW m, NEW body, Send(t, kind, m, body) PROVE FALSE
  <2>1. Free(t) /\ \A u \in Slot \ {t} : calls'[u] = calls[u]
    BY <1>4 DEF Send, TypeOK, APITypeOK
  <2>q. QED BY <1>0, <1>2, <2>1
<1>5. ~User
  <2>1. ASSUME NEW t \in Slot, Free(t), Load(t) PROVE FALSE
    <3>1. \A u \in Slot \ {t} : calls'[u] = calls[u]
      BY <2>1 DEF Load, TypeOK, APITypeOK
    <3>q. QED BY <1>0, <1>2, <2>1, <3>1
  <2>2. calls' # calls
    BY <1>0
  <2>q. QED BY <1>4, <2>1, <2>2
            DEF User, Retry, OpenForm, CloseForm, Edit, Save, Toggle, Check, Remove, apiVars
<1>6. ~OtherClient /\ (\A m \in Monitor : ~Background(m)) /\ ~UNCHANGED vars
  BY <1>0 DEF OtherClient, Elsewhere, Background, ResultStored, ResultAges, vars, apiVars
<1>7. ASSUME NEW t \in Slot, Lost(t) PROVE FALSE
  <2>1. CASE OverviewFails(t)
    BY <1>0, <2>1 DEF OverviewFails
  <2>2. CASE CallFails(t)
    <3>1. Advance(t, "failed")
      BY <2>2 DEF CallFails, Refuse
    <3>2. t = s
      BY <1>2, <3>1, AdvanceIs
    <3>q. QED BY <1>0, <3>1, <3>2, AdvanceIs
  <2>q. QED BY <1>7, <2>1, <2>2 DEF Lost
<1>8. ASSUME NEW t \in Slot, Handled(t) PROVE ServePatch(s) /\ ~Refuse(s)
  <2>1. Serve(t)
    BY <1>8 DEF Handled
  <2>2. t = s
    BY <1>0, <1>1, <2>1
       DEF Serve, ServeCreate, ServeGet, ServePatch, ServeCheck, ServeDelete, ServeList,
           OverviewList, OverviewSummaries, At, NoOverview
  <2>3. ~Refuse(s)
    BY <1>0, AdvanceIs DEF Refuse
  <2>q. QED BY <1>0, <2>1, <2>2, <2>3
      DEF Serve, ServeCreate, ServeGet, ServeCheck, ServeDelete, ServeList,
          OverviewList, OverviewSummaries, At, NoOverview
<1>q. QED BY <1>3, <1>5, <1>6, <1>7, <1>8 DEF Next

(* The cached monitor that a toggle writes back is the stored one but for       *)
(* enabled, because the page of a lone user agrees with the store when the      *)
(* toggle is sent and nothing can change either before it is served.            *)
LEMMA ToggleStep ==
  ASSUME TypeOK, Aimed, AgreeInv, [Next]_vars,
         NEW s \in Slot, alone, At(s, "toggle", "read"), At(s, "toggle", "ok")'
  PROVE  LET m == calls[s].mon
         IN  rows' = [rows EXCEPT ![m].enabled = ~@]
<1>0. calls[s].kind = "toggle" /\ calls[s].phase = "read" /\ calls[s].mon \in Monitor
  BY DEF At, Aimed
<1>1. rows' = [rows EXCEPT ![calls[s].mon] = calls[s].body]
  BY OnlyItsHandler DEF ServePatch, Update
<1>2. Flips(s)
  BY <1>0 DEF AgreeInv, AloneInv
<1>3. items = rows
  BY <1>0, <1>2, SaysBefore DEF Flips, Says
<1>4. calls[s].body = [rows[calls[s].mon] EXCEPT !.enabled = ~@]
  BY <1>0, <1>2, <1>3 DEF Flips
<1>q. QED BY <1>1, <1>4 DEF TypeOK, APITypeOK, Rows

(* toggle writes the whole cached monitor back, and yet pausing or resuming      *)
(* from the page of a lone user changes nothing but enabled.                    *)
THEOREM TogglesFlip == Spec => ToggleOnlyFlips
<1>1. TypeOK /\ Aimed /\ AgreeInv /\ [Next]_vars =>
        [\A s \in Slot :
           /\ alone
           /\ At(s, "toggle", "read")
           /\ At(s, "toggle", "ok")'
           => LET m == calls[s].mon
              IN  rows' = [rows EXCEPT ![m].enabled = ~@]]_vars
  BY ToggleStep
<1>2. PageInv => Aimed
  BY DEF PageInv
<1>q. QED BY <1>1, <1>2, InitType, InitPage, NextPage, InitAgrees, NextAgrees, PTL DEF Spec, ToggleOnlyFlips
===============================================================================
