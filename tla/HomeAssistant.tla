---- MODULE HomeAssistant ----
(*****************************************************************************)
(* The bridge to Home Assistant (service/homeassistant.go): a worker merges  *)
(* what the MQTT queue reports into one state and publishes the whole of it  *)
(* as a retained message; the MQTT library's own goroutine does the same     *)
(* whenever a connection is made, beside the worker.                         *)
(*                                                                           *)
(* Of the state only the print's status is told from the other fields, which *)
(* are the temperatures, the progress and the light.  A publication that its *)
(* connection's loss overtakes counts as not made.                           *)
(*****************************************************************************)
EXTENDS Naturals, Sequences

CONSTANTS
    UpdateCap,   \* capacity of updateQ
    CommandCap   \* capacity of cmdQ

VARIABLES
    enabled,     \* s.enabled
    worker,      \* "dormant" (not wanted), "off", "on", "stopping" or "closing"
    link,        \* s.client: "none", "up" or "lost"
    subscribed,  \* to the light's topic
    updates,     \* updateQ
    commands,    \* how many commands are in cmdQ
    state,       \* the status in s.state
    sending,     \* the worker's payload, << >> if it publishes nothing
    hello,       \* the goroutine of onConnected: "none", "online", "read" or "publish"
    greeting,    \* and its payload
    available,   \* the broker: the retained availability
    retained,    \* and the retained state
    status,      \* history: the last status reported
    missed       \* history: which did not get into updateQ

haVars == <<enabled, worker, link, subscribed, updates, commands, state, sending,
            hello, greeting, available, retained, status, missed>>
broker == <<available, retained>>
connection == <<link, subscribed, hello, greeting>>

Statuses == {"idle", "printing"}
Other == "other"  \* an update that is not of the status

Init ==
    /\ enabled \in BOOLEAN /\ worker = IF enabled THEN "off" ELSE "dormant"
    /\ link = "none" /\ subscribed = FALSE
    /\ updates = <<>> /\ commands = 0
    /\ state = "idle" /\ sending = <<>>
    /\ hello = "none" /\ greeting = "idle"
    /\ available = FALSE /\ retained = "idle"
    /\ status = "idle" /\ missed = FALSE

---------------------------------------------------------------------------
(* Others.                                                                   *)

(* UpdateState: what does not fit is dropped. *)
UpdateState(update) == updates' = IF Len(updates) < UpdateCap THEN Append(updates, update) ELSE updates

(* Notify, of a print_state event: one is sent when the status changes. *)
NotifyStatus ==
    /\ status' \in Statuses \ {status}
    /\ UpdateState(status')
    /\ missed' = (updates' = updates)
    /\ UNCHANGED <<enabled, worker, connection, commands, state, sending, broker>>

(* And of anything else, which the printer reports all the time. *)
NotifyOther ==
    /\ UpdateState(Other)
    /\ UNCHANGED <<enabled, worker, connection, commands, state, sending, broker, status, missed>>

(* A command for the light, dropped like updates are. *)
LightSet ==
    /\ link = "up" /\ subscribed /\ commands < CommandCap
    /\ commands' = commands + 1
    /\ UNCHANGED <<enabled, worker, connection, updates, state, sending, broker, status, missed>>

(* A restart wants the service; one that runs is stopped first. *)
Configure(on) ==
    /\ enabled' = on
    /\ worker' = CASE worker = "dormant" -> "off" [] worker = "on" -> "stopping" [] OTHER -> worker
    /\ UNCHANGED <<connection, updates, commands, state, sending, broker, status, missed>>

---------------------------------------------------------------------------
(* The worker.                                                               *)

(* Without Home Assistant the worker runs and has no client.  An attempt to  *)
(* connect that fails is made again; it is left out.                         *)
WorkerStart ==
    /\ worker = "off" /\ worker' = "on"
    /\ IF enabled
       THEN hello = "none" /\ link' = "up" /\ hello' = "online"
       ELSE UNCHANGED <<link, hello>>
    /\ UNCHANGED <<enabled, subscribed, updates, commands, state, sending, greeting, broker, status, missed>>

Free == worker = "on" /\ sending = <<>>

Merged(update) == IF update = Other THEN state ELSE update

(* Mutant of Payload: an update that changes nothing here is not published. *)
PayloadOfNews(update) == IF Merged(update) = state THEN <<>> ELSE <<Merged(update)>>

Payload(update) == <<Merged(update)>>

(* Merged and marshalled under the lock, published after. *)
Apply(update) == state' = Merged(update) /\ sending' = Payload(update)

ApplyUpdate ==
    /\ Free /\ updates # <<>>
    /\ Apply(Head(updates))
    /\ updates' = Tail(updates)
    /\ UNCHANGED <<enabled, worker, connection, commands, broker, status, missed>>

(* The printer is told first; its refusal is ignored. *)
HandleLightCommand ==
    /\ Free /\ commands > 0
    /\ Apply(Other)
    /\ commands' = commands - 1
    /\ UNCHANGED <<enabled, worker, connection, updates, broker, status, missed>>

(* publish does nothing without a connection. *)
Publish ==
    /\ sending # <<>> /\ sending' = <<>>
    /\ retained' = IF link = "up" THEN sending[1] ELSE retained
    /\ UNCHANGED <<enabled, worker, connection, updates, commands, state, available, status, missed>>

Heartbeat ==
    /\ Free /\ link = "up"
    /\ available' = TRUE
    /\ UNCHANGED <<enabled, worker, connection, updates, commands, state, sending, retained, status, missed>>

WorkerStop ==
    /\ worker = "stopping" /\ sending = <<>>
    /\ worker' = "closing"
    /\ available' = IF link = "up" THEN FALSE ELSE available
    /\ UNCHANGED <<enabled, connection, updates, commands, state, sending, retained, status, missed>>

Disconnect ==
    /\ worker = "closing" /\ worker' = "off"
    /\ link' = "none" /\ subscribed' = FALSE
    /\ UNCHANGED <<enabled, updates, commands, state, sending, hello, greeting, broker, status, missed>>

---------------------------------------------------------------------------
(* The connection.                                                           *)

(* The broker publishes the will. *)
ConnectionLost ==
    /\ link = "up" /\ link' = "lost"
    /\ available' = FALSE /\ subscribed' = FALSE
    /\ UNCHANGED <<enabled, worker, updates, commands, state, sending, hello, greeting, retained, status, missed>>

Reconnect ==
    /\ link = "lost" /\ hello = "none"
    /\ link' = "up" /\ hello' = "online"
    /\ UNCHANGED <<enabled, worker, subscribed, updates, commands, state, sending, greeting, broker, status, missed>>

Greets(from, to) ==
    /\ hello = from /\ hello' = to
    /\ UNCHANGED <<enabled, worker, link, updates, commands, state, sending, status, missed>>

OnConnected ==
    /\ Greets("online", "read")
    /\ available' = IF link = "up" THEN TRUE ELSE available
    /\ UNCHANGED <<subscribed, greeting, retained>>

PublishCurrentState ==
    /\ Greets("read", "publish")
    /\ greeting' = state
    /\ UNCHANGED <<subscribed, broker>>

Subscribe ==
    /\ Greets("publish", "none")
    /\ retained' = IF link = "up" THEN greeting ELSE retained
    /\ subscribed' = (link = "up")
    /\ UNCHANGED <<greeting, available>>

Next ==
    \/ NotifyStatus \/ NotifyOther
    \/ LightSet
    \/ \E on \in BOOLEAN : Configure(on)
    \/ WorkerStart \/ ApplyUpdate \/ HandleLightCommand \/ Publish \/ Heartbeat
    \/ WorkerStop \/ Disconnect
    \/ ConnectionLost \/ Reconnect
    \/ OnConnected \/ PublishCurrentState \/ Subscribe

(* The steps of one goroutine; select takes an update in the end, among all  *)
(* it may choose; and the printer reports its temperatures all the time.     *)
Works == WorkerStart \/ Publish \/ WorkerStop \/ Disconnect
Connects == OnConnected \/ PublishCurrentState \/ Subscribe

Spec ==
    /\ Init /\ [][Next]_haVars
    /\ WF_haVars(Works) /\ WF_haVars(Connects)
    /\ SF_haVars(ApplyUpdate) /\ WF_haVars(NotifyOther)

---------------------------------------------------------------------------
(* Home Assistant shows the print's status in the end, once the connection   *)
(* is up for good and unless the queue was full when it changed: although    *)
(* the two goroutines publish in any order, and the older state may be the   *)
(* last, it is put right by the next update, whatever that is about.         *)
StatusIsShown ==
    <>[](worker = "on" /\ link = "up" /\ ~missed) /\ <>[][FALSE]_status
      => <>[](retained = status /\ available)
====
