---- MODULE Notifications ----
(*****************************************************************************)
(* The notification service (notifications/notifications.go): it taps the    *)
(* MQTT queue and tells the user what becomes of a print.  Telling is done   *)
(* in the same goroutine and may take seconds, during which events wait in a *)
(* channel that drops what does not fit.                                     *)
(*                                                                           *)
(* Progress is in steps of which Full make 100 %.                            *)
(*****************************************************************************)
EXTENDS Integers, Sequences

CONSTANTS
    QueueCap,  \* capacity of the events channel
    Full,      \* 100 %
    Interval,  \* IntervalPercent
    MaxValue   \* MaxValue, 0 for no limit

VARIABLES
    state,      \* the MQTT queue's state of the print
    progress,   \* and its progress, which outlives the print
    events,     \* the channel
    running,    \* is WorkerRun tapping?
    wanted,     \* IsEventEnabled(EventPrintProgress)
    lastState, lastNotified, sendCount, \* as in the service
    sending,    \* the notice on its way, or Nothing, and by which way
    told        \* history: [open, percent, count] of the notices sent

noticeVars == <<state, progress, events, running, wanted, lastState, lastNotified, sendCount, sending, told>>
printer == <<state, progress>>

None == "none"
Over == {"idle", "aborted"}

Event(kind, value) == [kind |-> kind, value |-> value, via |-> None]
Nothing == Event(None, 0)
Untold == [open |-> FALSE, percent |-> -1, count |-> 0]

Init ==
    /\ state = "idle" /\ progress \in {0, Full}
    /\ events = <<>> /\ running = FALSE /\ wanted = TRUE
    /\ lastState = None /\ lastNotified = -1 /\ sendCount = 0
    /\ sending = Nothing /\ told = Untold

---------------------------------------------------------------------------
(* The MQTT queue: a state is announced when it changes.                     *)

(* The tap; events are dropped when the channel is full. *)
Tapped(e) == events' = IF running /\ Len(events) < QueueCap THEN Append(events, e) ELSE events

PrintState(to) ==
    /\ to # state /\ state' = to
    /\ to = "paused" => state = "printing"
    /\ to \in Over => state \notin Over
    /\ Tapped(Event("state", to))
    /\ UNCHANGED <<progress, running, wanted, lastState, lastNotified, sendCount, sending, told>>

(* A print may begin with the progress of the one before. *)
PrintSchedule(p) ==
    /\ state = "printing"
    /\ p \in {progress, 0} \cup {progress + 1} /\ p <= Full
    /\ progress' = p
    /\ Tapped(Event("progress", p))
    /\ UNCHANGED <<state, running, wanted, lastState, lastNotified, sendCount, sending, told>>

---------------------------------------------------------------------------
(* The service.                                                              *)

WorkerRun ==
    /\ ~running /\ sending = Nothing
    /\ running' = TRUE /\ events' = <<>>
    /\ UNCHANGED <<printer, wanted, lastState, lastNotified, sendCount, sending, told>>

RunReturns ==
    /\ running /\ sending = Nothing
    /\ running' = FALSE
    /\ UNCHANGED <<printer, events, wanted, lastState, lastNotified, sendCount, sending, told>>

(* The user changes the settings, which are read for each event. *)
NotificationsUpdate ==
    /\ wanted' = ~wanted
    /\ UNCHANGED <<printer, events, running, lastState, lastNotified, sendCount, sending, told>>

Threshold == IF lastNotified < 0 THEN Interval ELSE lastNotified + Interval

(* An old 100 % at the beginning of a print is stale. *)
Crossed(p) == p >= Threshold /\ ~(lastNotified < 0 /\ p >= Full)

MayTell(p) ==
    /\ wanted /\ lastState = "printing" /\ Crossed(p)
    /\ MaxValue > 0 => sendCount < MaxValue

Sends(e) == sending' = [e EXCEPT !.via = "apprise"]

Takes == running /\ sending = Nothing /\ events # <<>> /\ events' = Tail(events)
First == Head(events)

MaybeProgressNotification ==
    /\ Takes /\ First.kind = "progress"
    /\ IF MayTell(First.value)
       THEN /\ lastNotified' = First.value /\ sendCount' = sendCount + 1
            /\ Sends(First)
       ELSE UNCHANGED <<lastNotified, sendCount, sending>>
    /\ UNCHANGED <<printer, running, wanted, lastState, told>>

(* Mutant of Notice: a print that goes on after a pause is a new one. *)
NoticeForgetsPause(prev, now) ==
    CASE now = "printing" /\ prev # "printing" -> "started"
      [] now = "paused" /\ prev = "printing" -> "paused"
      [] now = "idle" /\ prev \in {"printing", "paused"} -> "finished"
      [] now = "aborted" /\ prev \in {"printing", "paused"} -> "failed"
      [] OTHER -> None

(* What a change of state is to the user, if anything. *)
Notice(prev, now) ==
    CASE now = "printing" /\ prev = "paused" -> "resumed"
      [] now = "printing" /\ prev \notin {"paused", "printing"} -> "started"
      [] now = "paused" /\ prev = "printing" -> "paused"
      [] now = "idle" /\ prev \in {"printing", "paused"} -> "finished"
      [] now = "aborted" /\ prev \in {"printing", "paused"} -> "failed"
      [] OTHER -> None

Resets == {"started", "finished", "failed"}

HandleStateTransition ==
    /\ Takes /\ First.kind = "state"
    /\ lastState' = First.value
    /\ LET n == Notice(lastState, First.value)
       IN /\ IF n = None THEN UNCHANGED sending ELSE Sends(Event(n, 0))
          /\ lastNotified' = IF n \in Resets THEN -1 ELSE lastNotified
          /\ sendCount' = IF n \in Resets THEN 0 ELSE sendCount
    /\ UNCHANGED <<printer, running, wanted, told>>

(* One way after the other, each with its own settings as they are now.  It  *)
(* goes out, or fails; either is recorded in the history.  An event that the *)
(* user has turned off meanwhile is one that fails.                          *)
Arrives == sending.kind # "progress" \/ wanted

SendEventDetailed ==
    /\ sending.via = "apprise"
    /\ sending' = [sending EXCEPT !.via = "home"]
    /\ told' =
         CASE sending.kind = "started" -> [Untold EXCEPT !.open = TRUE]
           [] sending.kind \in {"finished", "failed"} -> Untold
           [] sending.kind = "progress" /\ Arrives ->
                [told EXCEPT !.percent = sending.value, !.count = @ + 1]
           [] OTHER -> told
    /\ UNCHANGED <<printer, events, running, wanted, lastState, lastNotified, sendCount>>

SendHomeAnnouncement ==
    /\ sending.via = "home" /\ sending' = Nothing
    /\ UNCHANGED <<printer, events, running, wanted, lastState, lastNotified, sendCount, told>>

Next ==
    \/ \E s \in {"idle", "printing", "paused", "aborted"} : PrintState(s)
    \/ \E p \in 0..Full : PrintSchedule(p)
    \/ WorkerRun \/ RunReturns \/ NotificationsUpdate
    \/ MaybeProgressNotification \/ HandleStateTransition
    \/ SendEventDetailed \/ SendHomeAnnouncement

Spec == Init /\ [][Next]_noticeVars

---------------------------------------------------------------------------
(* Whatever events are dropped while a notice is on its way, and however     *)
(* often the worker restarts: no print is started twice without an end in    *)
(* between, and of one print each notice of progress is at least an interval *)
(* ahead of the last and there are at most MaxValue.                         *)
NoticesMakeSense ==
    [][sending.via = "apprise" /\ sending'.via = "home" =>
         /\ sending.kind = "started" => ~told.open
         /\ sending.kind = "progress" =>
              /\ told.percent < 0 \/ sending.value >= told.percent + Interval
              /\ MaxValue > 0 => told'.count <= MaxValue]_noticeVars
====
