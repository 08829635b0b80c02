---- MODULE PowerSaving ----
(*****************************************************************************)
(* Power saving (service/power_saving.go): one goroutine that switches the   *)
(* printer's smart socket off once the printer has been idle for long, and   *)
(* on for a print or a visit to the dashboard.  It hears of both through a   *)
(* bounded queue that drops what does not fit, and reaches the socket        *)
(* through Home Assistant, which may be down.  Others use the socket too:    *)
(* the user (handler/print_monitor_socket.go) and the power cycle of a stuck *)
(* upload (service/power_controller.go).                                     *)
(*****************************************************************************)
EXTENDS Naturals, Sequences

CONSTANT QueueCap   \* capacity of cmdCh

VARIABLES
    printer,   \* "idle", "printing", "paused" or "dark" (without power)
    heard,     \* has the worker been told of the print at hand?
    socket,    \* "on" or "off"
    reachable, \* does Home Assistant answer, and the socket it?
    cfgOn,     \* socket and power saving configured and enabled
    queue,     \* cmdCh: [event, own], own: about the print at hand
    known,     \* printActive
    idle,      \* idleSince: "none", "recent" or "long"
    awake,     \* is awakeUntil in the future?
    backoff,   \* nextAttempt: "none", "future" or "past"
    pc,        \* the worker: "select", "probe", "off" or "on"
    cycle      \* has a power cycle switched the socket off?

world == <<printer, socket, reachable, cfgOn, cycle>>
worker == <<heard, known, idle, awake, backoff, pc>>
vars == <<world, queue, worker>>

Init ==
    /\ printer = "idle" /\ heard = FALSE /\ socket = "on"
    /\ reachable = TRUE /\ cfgOn \in BOOLEAN /\ cycle = FALSE
    /\ queue = <<>> /\ known = FALSE /\ idle = "none"
    /\ awake = FALSE /\ backoff = "none" /\ pc = "select"

---------------------------------------------------------------------------
(* Notify and TouchDashboard: a full queue drops the event.                  *)

Send(q, event) == IF Len(q) < QueueCap THEN Append(q, [event |-> event, own |-> event \in {"printing", "paused"}]) ELSE q

Earlier(q) == [i \in DOMAIN q |-> [q[i] EXCEPT !.own = FALSE]]

Report(state) ==
    /\ printer' = state
    /\ IF state = "idle" \/ printer = "idle"
       THEN heard' = FALSE /\ queue' = Send(Earlier(queue), state)
       ELSE heard' = heard /\ queue' = Send(queue, state)
    /\ UNCHANGED <<socket, reachable, cfgOn, cycle, known, idle, awake, backoff, pc>>

Starts == printer = "idle" /\ Report("printing")
Resumes == printer = "paused" /\ Report("printing")
Pauses == printer = "printing" /\ Report("paused")
Ends == printer \in {"printing", "paused"} /\ Report("idle")

(* Reported as a change when the printer lost its power in a print. *)
Boots ==
    /\ printer = "dark" /\ socket # "off"
    /\ \/ Report("idle")
       \/ printer' = "idle" /\ UNCHANGED <<socket, reachable, cfgOn, cycle, queue, worker>>

TouchDashboard == queue' = Send(queue, "dashboard") /\ UNCHANGED <<world, worker>>

---------------------------------------------------------------------------
(* The outside: settings, Home Assistant, and other users of the socket.     *)

Switch(s) == socket' = s /\ printer' = IF s = "off" THEN "dark" ELSE printer

SaveSettings == cfgOn' = ~cfgOn /\ UNCHANGED <<printer, socket, reachable, cycle, queue, worker>>

HomeAssistantChanges == reachable' = ~reachable /\ UNCHANGED <<printer, socket, cfgOn, cycle, queue, worker>>

Others == UNCHANGED <<reachable, cfgOn, queue, worker>>

SmartSocketControl(s) == reachable /\ cfgOn /\ Switch(s) /\ UNCHANGED cycle /\ Others

CycleOff == reachable /\ ~cycle /\ cycle' = TRUE /\ Switch("off") /\ Others

(* After ten seconds; when the upload's context ends first, or Home          *)
(* Assistant fails, the socket stays off.                                    *)
CycleOn == cycle /\ cycle' = FALSE /\ (IF reachable THEN Switch("on") ELSE UNCHANGED <<printer, socket>>) /\ Others
CycleCancelled == cycle /\ cycle' = FALSE /\ UNCHANGED <<printer, socket>> /\ Others

---------------------------------------------------------------------------
(* The worker.                                                               *)

(* evaluate, up to the state probe.  The tests are on a copy, which nothing  *)
(* changes: only this goroutine writes what it is a copy of.                 *)
Resting(isKnown, since) == cfgOn /\ ~isKnown /\ ~awake /\ since = "long"

(* Mutant of MayTry: any pending attempt defers. *)
MayTryOnce == backoff = "none"

MayTry == backoff # "future"

Tick ==
    /\ pc = "select"
    /\ pc' = IF Resting(known, idle) /\ MayTry THEN "probe" ELSE "select"
    /\ UNCHANGED <<world, queue, heard, known, idle, awake, backoff>>

WakeForDashboard ==
    /\ awake' = TRUE
    /\ idle' = IF idle = "none" THEN "recent" ELSE idle
    /\ pc' = IF awake THEN "select" ELSE "on"
    /\ UNCHANGED known

PrintRuns ==
    /\ known' = TRUE
    /\ idle' = "none"
    /\ pc' = IF known THEN "select" ELSE "on"
    /\ UNCHANGED awake

(* Mutant of PrintPauses: a paused print is treated as none. *)
PauseIsIdle == known' = FALSE /\ idle' = "recent" /\ pc' = "select" /\ UNCHANGED awake

PrintPauses == known' = TRUE /\ UNCHANGED <<idle, awake>> /\ pc' = "select"

(* evaluate is called, and finds that the idle time has not passed. *)
PrintEnds ==
    /\ known' = FALSE
    /\ idle' = "recent"
    /\ pc' = "select"
    /\ UNCHANGED awake

HandleCommand ==
    /\ pc = "select" /\ queue # <<>>
    /\ queue' = Tail(queue)
    /\ LET cmd == Head(queue) IN
       IF ~cfgOn THEN UNCHANGED worker
       ELSE /\ \/ cmd.event = "dashboard" /\ WakeForDashboard
               \/ cmd.event = "printing" /\ PrintRuns
               \/ cmd.event = "paused" /\ PrintPauses
               \/ cmd.event = "idle" /\ PrintEnds
            /\ heard' = (heard \/ (cmd.event \in {"printing", "paused"} /\ cmd.own))
            /\ UNCHANGED backoff
    /\ UNCHANGED world

NoteFailure == backoff' = "future"
NoteSuccess == backoff' = "none"

Probe ==
    /\ pc = "probe"
    /\ IF reachable THEN NoteSuccess ELSE NoteFailure
    /\ pc' = IF reachable /\ socket = "on" THEN "off" ELSE "select"
    /\ UNCHANGED <<world, queue, heard, known, idle, awake>>

TurnOff ==
    /\ pc = "off" /\ pc' = "select"
    /\ IF reachable
       THEN NoteSuccess /\ Switch("off")
       ELSE NoteFailure /\ UNCHANGED <<printer, socket>>
    /\ UNCHANGED <<reachable, cfgOn, cycle, queue, heard, known, idle, awake>>

(* A failed turn_on is not tried again; one of a socket that is unavailable  *)
(* to Home Assistant counts as done.                                         *)
TurnOn ==
    /\ pc = "on" /\ pc' = "select"
    /\ IF reachable
       THEN NoteSuccess /\ Switch("on")
       ELSE backoff' \in {backoff, "none"} /\ UNCHANGED <<printer, socket>>
    /\ UNCHANGED <<reachable, cfgOn, cycle, queue, heard, known, idle, awake>>

TimePasses ==
    /\ \/ idle = "recent" /\ idle' = "long" /\ UNCHANGED <<awake, backoff>>
       \/ awake /\ awake' = FALSE /\ UNCHANGED <<idle, backoff>>
       \/ backoff = "future" /\ backoff' = "past" /\ UNCHANGED <<idle, awake>>
    /\ UNCHANGED <<world, queue, heard, known, pc>>

---------------------------------------------------------------------------
Next ==
    \/ Starts \/ Resumes \/ Pauses \/ Ends \/ Boots \/ TouchDashboard \/ SaveSettings \/ HomeAssistantChanges
    \/ \E s \in {"on", "off"} : SmartSocketControl(s)
    \/ CycleOff \/ CycleOn \/ CycleCancelled
    \/ Tick \/ HandleCommand \/ Probe \/ TurnOff \/ TurnOn \/ TimePasses

(* The worker's select takes a tick and a command in turn, in the long run,  *)
(* and its requests have time limits; deadlines pass.                        *)
Fairness ==
    /\ SF_vars(Tick) /\ SF_vars(HandleCommand)
    /\ WF_vars(Probe) /\ WF_vars(TurnOff) /\ WF_vars(TurnOn)
    /\ WF_vars(TimePasses)

Spec == Init /\ [][Next]_vars /\ Fairness

---------------------------------------------------------------------------
(* Power saving never takes the power from a print it has been told of, be   *)
(* it paused: not by a decision made before the print, nor by one made on    *)
(* events that were queued before it.  A print whose start is dropped, or    *)
(* was ignored while power saving was off, has no such protection.           *)
KnownPrintKeepsPower ==
    [][TurnOff /\ socket' = "off" => ~(heard /\ printer \in {"printing", "paused"})]_vars

(* When Home Assistant answers, nobody prints and nobody visits, an idle     *)
(* printer's socket is off in the end, whatever failed before.               *)
Quiet == cfgOn /\ reachable /\ ~known /\ idle # "none" /\ queue = <<>>

IdleSocketGoesOff == []<>(Quiet => socket = "off")
====
