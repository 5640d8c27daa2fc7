------------------------------ MODULE MonitorAPI ------------------------------
(* The HTTP interface of the monitors as one browser sees it                   *)
(* (internal/handler/monitor_api.go, monitor-api.service.ts): calls that are   *)
(* under way, the handlers that serve them one database statement at a time,   *)
(* and the rows of monitors.  Name, URL, interval, timeout, expected status    *)
(* and keyword of a monitor are one value of Config.                           *)
EXTENDS FiniteSets

CONSTANTS
    Monitor,    \* the ids a monitor may get; an id is never used twice
    Config,     \* what the form of a monitor can say, names and URLs unique
    Slot,       \* bound on the calls under way at one time
    NoMonitor,  \* no id: a monitor to be created, no menu, no action
    NoRow       \* no such monitor

ASSUME APIAssumption ==
    /\ NoMonitor \notin Monitor
    /\ NoRow \notin [config : Config, enabled : BOOLEAN]

VARIABLES
    rows,       \* the table monitors
    created,    \* the ids used so far
    checked,    \* the monitors with a result in the last 24 hours
    calls,      \* calls[s]: the call in slot s
    overviews   \* overviews[s]: the overview request beside a list request in s

store == <<rows, created, checked>>
apiVars == <<store, calls, overviews>>

Row == [config : Config, enabled : BOOLEAN]
Rows == [Monitor -> Row \cup {NoRow}]
Empty == [m \in Monitor |-> NoRow]
Stored(m) == rows[m] # NoRow

(* A call: what it asks for, its target, its body, how far it is, and, of GET  *)
(* /monitors, the list in the answer.                                          *)
Call == [kind : {"none", "load", "save", "toggle", "check", "delete"},
         mon : Monitor \cup {NoMonitor}, body : Row \cup {NoRow},
         phase : {"free", "sent", "read", "ok", "failed", "got"}, list : Rows]
NoCall == [kind |-> "none", mon |-> NoMonitor, body |-> NoRow,
           phase |-> "free", list |-> Empty]
Request(kind, m, body) ==
    [NoCall EXCEPT !.kind = kind, !.mon = m, !.body = body, !.phase = "sent"]

(* GET /overview: the monitors it listed, then those with a result.             *)
Overview == [phase : {"free", "sent", "listed", "ok", "failed", "got"},
             seen : SUBSET Monitor]
NoOverview == [phase |-> "free", seen |-> {}]
AskOverview == [NoOverview EXCEPT !.phase = "sent"]

APITypeOK ==
    /\ rows \in Rows
    /\ created \subseteq Monitor
    /\ checked \subseteq Monitor
    /\ calls \in [Slot -> Call]
    /\ overviews \in [Slot -> Overview]

(* Any monitors, with and without such results, and no two with one content.    *)
APIInit ==
    /\ rows \in Rows
    /\ \A m, n \in Monitor : m # n /\ Stored(m) /\ Stored(n) => rows[m].config # rows[n].config
    /\ created = {m \in Monitor : Stored(m)}
    /\ checked \in SUBSET created

--------------------------------------------------------------------------------
(* The statements of PostgresMonitors.  Two rows never share a name or URL.     *)

Unique(m, row) == \A n \in Monitor \ {m} : Stored(n) => rows[n].config # row.config

Insert(m, row) ==
    /\ m \notin created
    /\ Unique(m, row)
    /\ rows' = [rows EXCEPT ![m] = row]
    /\ created' = created \cup {m}
    /\ UNCHANGED checked

Update(m, row) ==
    /\ Stored(m)
    /\ Unique(m, row)
    /\ rows' = [rows EXCEPT ![m] = row]
    /\ UNCHANGED <<created, checked>>

Delete(m) ==
    /\ Stored(m)
    /\ rows' = [rows EXCEPT ![m] = NoRow]
    /\ checked' = checked \ {m}
    /\ UNCHANGED created

--------------------------------------------------------------------------------
(* The handlers.  Advance moves the call of s to its next phase.                *)

At(s, kind, phase) == calls[s].kind = kind /\ calls[s].phase = phase
Advance(s, phase) == calls' = [calls EXCEPT ![s].phase = phase]
Refuse(s) == Advance(s, "failed") /\ UNCHANGED <<store, overviews>>

(* POST /monitors: every error of the insert is a conflict.                     *)
ServeCreate(s) ==
    /\ At(s, "save", "sent") /\ calls[s].mon = NoMonitor
    /\ IF \E m \in Monitor \ created : Unique(m, calls[s].body)
       THEN /\ \E m \in Monitor : Insert(m, calls[s].body)
            /\ Advance(s, "ok") /\ UNCHANGED overviews
       ELSE Refuse(s)

(* PATCH, DELETE and check begin by looking the monitor up, the last two        *)
(* statements apart from it.                                                   *)
ServeGet(s) ==
    /\ At(s, "save", "sent") \/ At(s, "toggle", "sent") \/ At(s, "check", "sent")
    /\ calls[s].mon # NoMonitor
    /\ IF Stored(calls[s].mon)
       THEN Advance(s, "read") /\ UNCHANGED <<store, overviews>>
       ELSE Refuse(s)

(* The body of the page names every column (but an empty keyword of a toggled    *)
(* monitor), so nothing of the row that was read survives the merge: what       *)
(* another client wrote in between is lost.                                     *)
ServePatch(s) ==
    LET m == calls[s].mon
    IN  /\ At(s, "save", "read") \/ At(s, "toggle", "read")
        /\ IF Stored(m) /\ Unique(m, calls[s].body)
           THEN Update(m, calls[s].body) /\ Advance(s, "ok") /\ UNCHANGED overviews
           ELSE Refuse(s)

(* The result is stored when the check is over, if the monitor still exists.    *)
ServeCheck(s) ==
    /\ At(s, "check", "read")
    /\ IF Stored(calls[s].mon)
       THEN /\ checked' = checked \cup {calls[s].mon}
            /\ Advance(s, "ok") /\ UNCHANGED <<rows, created, overviews>>
       ELSE Refuse(s)

ServeDelete(s) ==
    /\ At(s, "delete", "sent")
    /\ IF Stored(calls[s].mon)
       THEN Delete(calls[s].mon) /\ Advance(s, "ok") /\ UNCHANGED overviews
       ELSE Refuse(s)

ServeList(s) ==
    /\ At(s, "load", "sent")
    /\ calls' = [calls EXCEPT ![s].phase = "ok", ![s].list = rows]
    /\ UNCHANGED <<store, overviews>>

(* GET /overview lists the monitors and then summarises them one by one; the    *)
(* first that is gone fails the whole answer.  The summaries are one step: a    *)
(* monitor gone by then was deleted before or after its own summary.            *)
OverviewList(s) ==
    /\ overviews[s].phase = "sent"
    /\ overviews' = [overviews EXCEPT ![s] =
                       [phase |-> "listed", seen |-> {m \in Monitor : Stored(m)}]]
    /\ UNCHANGED <<store, calls>>

OverviewSummaries(s) ==
    /\ overviews[s].phase = "listed"
    /\ \/ overviews' = [overviews EXCEPT ![s] = [phase |-> "ok", seen |-> @.seen \cap checked]]
       \/ /\ \E m \in overviews[s].seen : ~Stored(m)
          /\ overviews' = [overviews EXCEPT ![s] = [NoOverview EXCEPT !.phase = "failed"]]
    /\ UNCHANGED <<store, calls>>

Serve(s) ==
    \/ ServeCreate(s) \/ ServeGet(s) \/ ServePatch(s) \/ ServeCheck(s) \/ ServeDelete(s)
    \/ ServeList(s) \/ OverviewList(s) \/ OverviewSummaries(s)

(* A call fails on its way, in the server, or on its way back, served or not:   *)
(* writeTimeout is 15 s, a manual check may take 30 s.                          *)
CallFails(s) ==
    /\ calls[s].phase \in {"sent", "read", "ok"}
    /\ Refuse(s)

OverviewFails(s) ==
    /\ overviews[s].phase \in {"sent", "listed", "ok"}
    /\ overviews' = [overviews EXCEPT ![s] = [NoOverview EXCEPT !.phase = "failed"]]
    /\ UNCHANGED <<store, calls>>

(* Another client creates, changes or deletes a monitor.                       *)
Elsewhere ==
    /\ \E m \in Monitor :
         \/ Delete(m)
         \/ \E row \in Row : Insert(m, row) \/ (row # rows[m] /\ Update(m, row))
    /\ UNCHANGED <<calls, overviews>>

(* Nobody calls, and still results come and go: the scheduler, or a check another *)
(* client asked for, stores the first one of a monitor in the last 24 hours, and  *)
(* the last one leaves the 24 hours the page asks for.  (Retention deletes what   *)
(* left them 29 days before.)  An overview that is being answered may or may not *)
(* count it still: its own 24 hours begin when the server takes it up.           *)
ResultStored(m) ==
    /\ Stored(m) /\ m \notin checked
    /\ checked' = checked \cup {m}
    /\ UNCHANGED <<rows, created, calls, overviews>>

ResultAges(m) ==
    /\ m \in checked
    /\ checked' = checked \ {m}
    /\ UNCHANGED <<rows, created, calls, overviews>>
===============================================================================
