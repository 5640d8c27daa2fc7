----------------------------- MODULE MonitorsPage -----------------------------
(* The page /monitors of the dashboard (pages/monitors.component.ts): its       *)
(* signals, what the user may do in each state of the page, and what each       *)
(* answer of the API does to it.  What only chooses how the list is drawn       *)
(* (search, filter, sort, view, the action menus) and texts (toast, messages of *)
(* the form and of failed actions) are not part of the state.                   *)
EXTENDS MonitorAPI, Naturals

CONSTANTS
    Closed,                 \* no form
    MaxCalls                \* bound on the calls of the user and of other clients and
                            \* on the results that come and go by themselves

ASSUME PageAssumption ==
    /\ Closed \notin Monitor \cup {NoMonitor}
    /\ MaxCalls \in Nat

VARIABLES
    items,                  \* the monitors the page shows
    summaries,              \* the monitors whose summary has a status
    loading,
    error,                  \* the last load failed
    telemetryUnavailable,
    form,                   \* Closed, the monitor edited, NoMonitor for a new one
    saving,
    actionPending,
    made,                   \* how many of these there were, see MaxCalls
    alone,                  \* history, no variable of the code: TRUE while the calls
                            \* since a load that ran by itself went one by one, no
                            \* answer was lost and nobody else wrote a monitor
    moved                   \* history: the monitors whose first result of a day came,
                            \* or whose last one went, since a load was asked for

shown == <<items, summaries>>
status == <<loading, error, telemetryUnavailable>>
dialog == <<form, saving>>
history == <<alone, moved>>
vars == <<apiVars, shown, status, dialog, actionPending, made, history>>

TypeOK ==
    /\ APITypeOK
    /\ items \in Rows
    /\ summaries \subseteq Monitor
    /\ {loading, error, telemetryUnavailable, saving, alone} \subseteq BOOLEAN
    /\ form \in Monitor \cup {NoMonitor, Closed}
    /\ actionPending \in Monitor \cup {NoMonitor}
    /\ made \in 0 .. MaxCalls
    /\ moved \subseteq Monitor

Another == made < MaxCalls /\ made' = made + 1

Free(s) == calls[s] = NoCall
Quiet == \A s \in Slot : Free(s)

Release(s) ==
    /\ calls' = [calls EXCEPT ![s] = NoCall]
    /\ overviews' = [overviews EXCEPT ![s] = NoOverview]

--------------------------------------------------------------------------------
(* load(): the list and the overview are requested together.                    *)

(* Mutant: the notice of an earlier load is not taken back.                     *)
LoadKeepsNotice(s) ==
    /\ calls' = [calls EXCEPT ![s] = Request("load", NoMonitor, NoRow)]
    /\ overviews' = [overviews EXCEPT ![s] = AskOverview]
    /\ loading' = TRUE
    /\ error' = FALSE
    /\ alone' = \A t \in Slot \ {s} : Free(t)
    /\ moved' = {}
    /\ UNCHANGED telemetryUnavailable

Load(s) ==
    /\ calls' = [calls EXCEPT ![s] = Request("load", NoMonitor, NoRow)]
    /\ overviews' = [overviews EXCEPT ![s] = AskOverview]
    /\ loading' = TRUE
    /\ error' = FALSE
    /\ telemetryUnavailable' = FALSE
    /\ alone' = \A t \in Slot \ {s} : Free(t)
    /\ moved' = {}

(* The constructor loads.                                                      *)
Init ==
    /\ APIInit
    /\ \E s \in Slot :
         /\ calls = [t \in Slot |-> IF t = s THEN Request("load", NoMonitor, NoRow) ELSE NoCall]
         /\ overviews = [t \in Slot |-> IF t = s THEN AskOverview ELSE NoOverview]
    /\ items = Empty /\ summaries = {}
    /\ loading = TRUE /\ error = FALSE /\ telemetryUnavailable = FALSE
    /\ form = Closed /\ saving = FALSE
    /\ actionPending = NoMonitor
    /\ made = 0
    /\ alone = TRUE
    /\ moved = {}

(* forkJoin has both answers: next, then finalize.                              *)
Show(s) ==
    /\ items' = calls[s].list
    /\ summaries' = overviews[s].seen
    /\ loading' = FALSE
    /\ Release(s)

ListArrives(s) ==
    /\ At(s, "load", "ok")
    /\ IF overviews[s].phase = "got" THEN Show(s)
       ELSE Advance(s, "got") /\ UNCHANGED <<overviews, shown, loading>>
    /\ UNCHANGED <<store, error, telemetryUnavailable, dialog, actionPending, made, history>>

(* catchError turns a failed overview into none.                                *)
OverviewArrives(s) ==
    /\ \/ overviews[s].phase = "failed" /\ telemetryUnavailable' = TRUE
       \/ overviews[s].phase = "ok" /\ UNCHANGED telemetryUnavailable
    /\ IF At(s, "load", "got") THEN Show(s)
       ELSE /\ overviews' = [overviews EXCEPT ![s].phase = "got"]
            /\ UNCHANGED <<calls, shown, loading>>
    /\ UNCHANGED <<store, error, dialog, actionPending, made, history>>

(* Mutant: no finalize, loading ends with an answer only.                       *)
LoadFailsForever(s) ==
    /\ At(s, "load", "failed")
    /\ error' = TRUE
    /\ Release(s)
    /\ UNCHANGED <<store, shown, loading, telemetryUnavailable, dialog, actionPending, made, history>>

(* A failed list fails the load and cancels the overview.                       *)
LoadFails(s) ==
    /\ At(s, "load", "failed")
    /\ error' = TRUE
    /\ loading' = FALSE
    /\ Release(s)
    /\ UNCHANGED <<store, shown, telemetryUnavailable, dialog, actionPending, made, history>>

--------------------------------------------------------------------------------
(* What the user does.  The modal form covers the page; the list is drawn only  *)
(* when the page is neither loading nor in error.                               *)

FormShown == form # Closed
Drawn(m) == ~FormShown /\ ~loading /\ ~error /\ items[m] # NoRow

Send(s, kind, m, body) ==
    /\ Free(s)
    /\ Another
    /\ calls' = [calls EXCEPT ![s] = Request(kind, m, body)]
    /\ alone' = (alone /\ Quiet)
    /\ UNCHANGED <<store, overviews, shown, status, moved>>

Retry ==
    /\ error /\ ~FormShown
    /\ \E s \in Slot : Free(s) /\ Load(s)
    /\ Another
    /\ UNCHANGED <<store, shown, dialog, actionPending>>

OpenForm ==
    /\ ~FormShown
    /\ form' = NoMonitor
    /\ UNCHANGED <<apiVars, shown, status, saving, actionPending, made, history>>

Edit(m) ==
    /\ Drawn(m)
    /\ form' = m
    /\ UNCHANGED <<apiVars, shown, status, saving, actionPending, made, history>>

CloseForm ==
    /\ FormShown
    /\ form' = Closed
    /\ UNCHANGED <<apiVars, shown, status, saving, actionPending, made, history>>

(* Mutants: the button stays enabled while saving; the form is submitted        *)
(* although it is closed.                                                      *)
SaveTwice(s) ==
    /\ FormShown
    /\ saving' = TRUE
    /\ \E body \in Row : Send(s, "save", form, body)
    /\ UNCHANGED <<form, actionPending>>

SaveClosed(s) ==
    /\ ~saving
    /\ saving' = TRUE
    /\ \E body \in Row : Send(s, "save", form, body)
    /\ UNCHANGED <<form, actionPending>>

(* Any valid content of the form; the button is disabled while saving.          *)
Save(s) ==
    /\ FormShown /\ ~saving
    /\ saving' = TRUE
    /\ \E body \in Row : Send(s, "save", form, body)
    /\ UNCHANGED <<form, actionPending>>

(* toggle sends the monitor as the page has it.                                *)
Toggle(s, m) ==
    /\ Drawn(m)
    /\ actionPending' = m
    /\ Send(s, "toggle", m, [items[m] EXCEPT !.enabled = ~@])
    /\ UNCHANGED dialog

Check(s, m) ==
    /\ Drawn(m) /\ actionPending # m
    /\ actionPending' = m
    /\ Send(s, "check", m, NoRow)
    /\ UNCHANGED dialog

Remove(s, m) ==
    /\ Drawn(m)
    /\ actionPending' = m
    /\ Send(s, "delete", m, NoRow)
    /\ UNCHANGED dialog

--------------------------------------------------------------------------------
(* Answers to save, toggle, check and delete: next or error, then finalize.     *)

(* Mutant: the list is not read again.                                         *)
SavedUnseen(s) ==
    /\ At(s, "save", "ok")
    /\ form' = Closed
    /\ saving' = FALSE
    /\ Release(s)
    /\ UNCHANGED <<store, shown, status, actionPending, made, history>>

Saved(s) ==
    /\ At(s, "save", "ok")
    /\ form' = Closed
    /\ saving' = FALSE
    /\ Load(s)
    /\ UNCHANGED <<store, shown, actionPending, made>>

(* The form stays open, whichever it is by now.                                 *)
SaveFails(s) ==
    /\ At(s, "save", "failed")
    /\ saving' = FALSE
    /\ Release(s)
    /\ UNCHANGED <<store, shown, status, form, actionPending, made, history>>

Toggled(s) ==
    /\ At(s, "toggle", "ok")
    /\ items' = [m \in Monitor |-> IF m = calls[s].mon /\ items[m] # NoRow
                                   THEN calls[s].body ELSE items[m]]
    /\ actionPending' = NoMonitor
    /\ Release(s)
    /\ UNCHANGED <<store, summaries, status, dialog, made, history>>

Checked(s) ==
    /\ At(s, "check", "ok")
    /\ actionPending' = NoMonitor
    /\ Load(s)
    /\ UNCHANGED <<store, shown, dialog, made>>

Removed(s) ==
    /\ At(s, "delete", "ok")
    /\ items' = [items EXCEPT ![calls[s].mon] = NoRow]
    /\ actionPending' = NoMonitor
    /\ Release(s)
    /\ UNCHANGED <<store, summaries, status, dialog, made, history>>

(* Mutant: no finalize, the action ends with an answer only.                    *)
ActionFailsForever(s) ==
    /\ At(s, "toggle", "failed") \/ At(s, "check", "failed") \/ At(s, "delete", "failed")
    /\ Release(s)
    /\ UNCHANGED <<store, shown, status, dialog, actionPending, made, history>>

ActionFails(s) ==
    /\ At(s, "toggle", "failed") \/ At(s, "check", "failed") \/ At(s, "delete", "failed")
    /\ actionPending' = NoMonitor
    /\ Release(s)
    /\ UNCHANGED <<store, shown, status, dialog, made, history>>

Answer(s) ==
    \/ ListArrives(s) \/ OverviewArrives(s) \/ LoadFails(s)
    \/ Saved(s) \/ SaveFails(s) \/ Toggled(s) \/ Checked(s) \/ Removed(s) \/ ActionFails(s)

User ==
    \/ Retry \/ OpenForm \/ CloseForm \/ \E m \in Monitor : Edit(m)
    \/ \E s \in Slot : Save(s) \/ \E m \in Monitor : Toggle(s, m) \/ Check(s, m) \/ Remove(s, m)

(* What happens to calls outside the page.  A failure after the call was        *)
(* served leaves the page without an answer to what it did.                     *)
Handled(s) == Serve(s) /\ UNCHANGED <<shown, status, dialog, actionPending, made, history>>

Lost(s) ==
    /\ \/ OverviewFails(s) /\ UNCHANGED alone
       \/ CallFails(s) /\ alone' = (alone /\ (calls[s].phase = "ok" => calls[s].kind = "load"))
    /\ UNCHANGED <<shown, status, dialog, actionPending, made, moved>>

(* Other writes of monitors: other clients, and handlers of calls the browser    *)
(* has given up, which go on and may write late.                                *)
OtherClient ==
    /\ Elsewhere
    /\ Another
    /\ alone' = FALSE
    /\ UNCHANGED <<shown, status, dialog, actionPending, moved>>

(* Results come and go while the page, which does not poll, is not told.        *)
Background(m) ==
    /\ ResultStored(m) \/ ResultAges(m)
    /\ Another
    /\ moved' = moved \cup {m}
    /\ UNCHANGED <<shown, status, dialog, actionPending, alone>>

Next ==
    \/ User \/ OtherClient \/ \E m \in Monitor : Background(m)
    \/ \E s \in Slot : Answer(s) \/ Handled(s) \/ Lost(s)

(* A call does not hang for the page: it is answered, or the browser, the proxy  *)
(* in front of the server or the server's write timeout gives it up (the code    *)
(* sets no deadline for a statement).  Browsers deliver answers and report      *)
(* failures.  Nothing is assumed of the user, other clients or the scheduler.   *)
Fairness == \A s \in Slot : WF_vars(Handled(s) \/ Lost(s)) /\ WF_vars(Answer(s))

Spec == Init /\ [][Next]_vars /\ Fairness

--------------------------------------------------------------------------------
(* Properties.                                                                  *)

Of(kinds) == {s \in Slot : calls[s].kind \in kinds}

(* Whatever overlaps, a page that says it is loading, saving or acting on a     *)
(* monitor has the call under way whose end clears that (finalize in load,      *)
(* save, toggle, check and remove).                                             *)
PendingHasCall ==
    /\ loading => Of({"load"}) # {}
    /\ saving => Of({"save"}) # {}
    /\ actionPending # NoMonitor =>
         \E s \in Of({"toggle", "check", "delete"}) : calls[s].mon = actionPending

(* At most one save is under way, though the form may be closed and opened      *)
(* again while it is: the saving signal outlives the form.                      *)
OneSave == \A s, t \in Of({"save"}) : s = t

(* PostgreSQL is the source of truth: after a load that ran alone, and as long  *)
(* as the user acts on one thing at a time and nobody else writes monitors, the  *)
(* page that waits for nothing shows the stored monitors.  Unless it says that   *)
(* live status is unavailable, it shows each as checked in the last day or as    *)
(* awaiting data rightly; except those whose results came or went by themselves  *)
(* since it loaded last, for the page does not poll.                            *)
PageAgrees ==
    alone /\ Quiet /\ ~error =>
        /\ items = rows
        /\ telemetryUnavailable => summaries = {}
        /\ ~telemetryUnavailable => \A m \in Monitor \ moved :
               items[m] # NoRow => (m \in summaries <=> m \in checked)

(* Pausing or resuming a monitor from a page that agrees with the store changes *)
(* nothing but enabled, although the whole cached monitor is written back.      *)
ToggleOnlyFlips ==
    [][\A s \in Slot :
         /\ alone
         /\ At(s, "toggle", "read")
         /\ At(s, "toggle", "ok")'
         => LET m == calls[s].mon
            IN  rows' = [rows EXCEPT ![m].enabled = ~@]]_vars

(* The page does not hang: every load, save and action ends.                    *)
Responds ==
    /\ loading ~> ~loading
    /\ saving ~> ~saving
    /\ (actionPending # NoMonitor) ~> (actionPending = NoMonitor)
===============================================================================
