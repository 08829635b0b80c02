---- MODULE VideoStream ----
(*****************************************************************************)
(* Live video: browser tabs on /ws/video switch it on and off                *)
(* (web/ws/video.go), VideoQueue (service/videoqueue.go) asks the printer    *)
(* for the stream over a PPPP service it starts but never borrows, and       *)
(* restarts itself when no frame comes.  Uploads borrow and return the same  *)
(* PPPP service, which stops under the stream.                               *)
(*                                                                           *)
(* The worker loop is BaseWorker's, here in six places; Borrow and Return    *)
(* are ServiceManager's, here in one step each.  A frame has no content: of  *)
(* the queue only its length is kept.                                        *)
(*****************************************************************************)
EXTENDS Naturals, FiniteSets

CONSTANTS
    Clients,    \* browser tabs
    Switcher,   \* does a user also send video_enabled on /ws/ctrl?
    QueueCap    \* capacity of frameCh

VARIABLES
    stage,     \* what each client, and the user on /ws/ctrl, is doing
    refs,      \* the manager's count for videoqueue
    enabled,   \* VideoEnabledField
    wanted,    \* does the worker loop want to run?
    worker,    \* where the worker loop is
    handlers,  \* video handlers registered with PPPP: 2 stands for "several"
    frames,    \* length of frameCh
    age,       \* of lastFrameAt: "fresh" or "stale"
    pppp,      \* the PPPP service: "off", "connecting" or "up"
    upload,    \* does an upload hold ppppservice?
    live       \* does the printer send frames?

queue == <<enabled, wanted, worker, handlers, frames, age>>
lan == <<pppp, upload, live>>
vars == <<stage, refs, queue, lan>>

Ctrl == "ctrl"
Users == Clients \cup {Ctrl}

Init ==
    /\ stage = [u \in Users |-> "out"] /\ refs = 0
    /\ enabled = FALSE /\ wanted = FALSE /\ worker = "stopped"
    /\ handlers = 0 /\ frames = 0 /\ age = "stale"
    /\ pppp = "off" /\ upload = FALSE /\ live = FALSE

To(u, s) == stage' = [stage EXCEPT ![u] = s]

---------------------------------------------------------------------------
(* Calls on the worker.  In "ready" the loop is between WorkerStart and      *)
(* WorkerRun, and may no longer notice them.                                 *)

InRun == worker \in {"idling", "running"}

Interrupt ==
    IF InRun THEN worker' = "stopping"
    ELSE IF worker = "ready" THEN worker' \in {"ready", "stopping"}
    ELSE worker' = worker

Start == wanted' = TRUE /\ worker' = worker
Stop == wanted' = FALSE /\ Interrupt
Restart == wanted' = TRUE /\ Interrupt

NoCall == UNCHANGED <<wanted, worker>>

---------------------------------------------------------------------------
(* SetVideoEnabled sets the flag under its lock, and looks at State and      *)
(* calls the worker after the unlock.                                        *)

SwitchOn(u, done) ==
    /\ enabled' = TRUE
    /\ age' = IF enabled THEN age ELSE "stale"
    /\ To(u, IF enabled THEN done ELSE "wake")
    /\ UNCHANGED <<refs, wanted, worker, handlers, frames, lan>>

SwitchOff(u, done) ==
    /\ enabled' = FALSE
    /\ To(u, IF enabled THEN "sleep" ELSE done)
    /\ UNCHANGED <<refs, wanted, worker, handlers, frames, age, lan>>

Calls(u, done) ==
    /\ To(u, done)
    /\ UNCHANGED <<refs, enabled, handlers, frames, age, lan>>

(* Mutant of Wake: a worker that idles in the dark is left alone. *)
WakeStopped(u) ==
    /\ stage[u] = "wake"
    /\ IF worker = "stopped" THEN Start ELSE NoCall
    /\ Calls(u, IF u = Ctrl THEN "out" ELSE "borrow")

Wake(u) ==
    /\ stage[u] = "wake"
    /\ IF worker = "stopped" THEN Start ELSE Restart
    /\ Calls(u, IF u = Ctrl THEN "out" ELSE "borrow")

Sleep(u) ==
    /\ stage[u] = "sleep"
    /\ IF worker \in {"ready", "idling", "running"} THEN Stop ELSE NoCall
    /\ Calls(u, IF u = Ctrl THEN "out" ELSE "return")

---------------------------------------------------------------------------
(* A tab on /ws/video.                                                       *)

Connect(c) == stage[c] = "out" /\ SwitchOn(c, "borrow")

Borrow(u) ==
    /\ stage[u] = IF u = Ctrl THEN "out" ELSE "borrow"
    /\ To(u, "watching")
    /\ refs' = refs + 1
    /\ IF refs = 0 THEN Start ELSE NoCall
    /\ UNCHANGED <<enabled, handlers, frames, age, lan>>

\* The tab is closed: its tap goes first, and then the deferred function.
Leave(c) ==
    /\ stage[c] = "watching"
    /\ To(c, "leaving")
    /\ UNCHANGED <<refs, queue, lan>>

\* Is it the last?
CheckRefs(c) ==
    /\ stage[c] = "leaving"
    /\ To(c, IF refs = 1 THEN "disable" ELSE "return")
    /\ UNCHANGED <<refs, queue, lan>>

Disable(c) == stage[c] = "disable" /\ SwitchOff(c, "return")

Return(u) ==
    /\ stage[u] = IF u = Ctrl THEN "watching" ELSE "return"
    /\ To(u, "out")
    /\ refs' = refs - 1
    /\ IF refs = 1 /\ ~enabled THEN Stop ELSE NoCall
    /\ UNCHANGED <<enabled, handlers, frames, age, lan>>

\* The user on /ws/ctrl: light, quality and profile borrow the queue, and
\* return it; video_enabled does not.
CtrlBorrows == Borrow(Ctrl)
CtrlOn == Switcher /\ stage[Ctrl] = "out" /\ SwitchOn(Ctrl, "out")
CtrlOff == Switcher /\ stage[Ctrl] = "out" /\ SwitchOff(Ctrl, "out")

---------------------------------------------------------------------------
(* The worker of VideoQueue.                                                 *)

Worker == UNCHANGED <<stage, refs, enabled, wanted, upload>>

\* WorkerStart with video off does nothing.
StartDark ==
    /\ worker = "stopped" /\ wanted /\ ~enabled
    /\ worker' = "ready"
    /\ UNCHANGED <<handlers, frames, age, pppp, live>> /\ Worker

StartPPPP ==
    /\ worker = "stopped" /\ wanted /\ enabled
    /\ worker' = "waiting"
    /\ pppp' = IF pppp = "off" THEN "connecting" ELSE pppp
    /\ UNCHANGED <<handlers, frames, age, live>> /\ Worker

\* Six seconds without a connection, or the service was stopped meanwhile.
StartFails ==
    /\ worker = "waiting" /\ pppp # "up"
    /\ worker' = "stopped"
    /\ UNCHANGED <<handlers, frames, age, pppp, live>> /\ Worker

Register ==
    /\ worker = "waiting" /\ pppp = "up"
    /\ worker' = "registered"
    /\ handlers' = IF handlers = 2 THEN 2 ELSE handlers + 1
    /\ UNCHANGED <<frames, age, pppp, live>> /\ Worker

\* There is no client left to send the command with.
LiveFails ==
    /\ worker = "registered" /\ pppp = "off"
    /\ worker' = "stopped"
    /\ UNCHANGED <<handlers, frames, age, pppp, live>> /\ Worker

StartLive ==
    /\ worker = "registered" /\ pppp # "off"
    /\ worker' = "ready" /\ age' = "fresh"
    /\ live' = (pppp = "up")
    /\ UNCHANGED <<handlers, frames, pppp>> /\ Worker

Unwanted ==
    /\ worker = "ready" /\ ~wanted
    /\ worker' = "stopping"
    /\ UNCHANGED <<handlers, frames, age, pppp, live>> /\ Worker

\* WorkerRun reads the flag anew.
Run ==
    /\ worker = "ready"
    /\ worker' = IF enabled THEN "running" ELSE "idling"
    /\ UNCHANGED <<handlers, frames, age, pppp, live>> /\ Worker

TakeFrame ==
    /\ worker = "running" /\ frames > 0
    /\ frames' = frames - 1 /\ age' = "fresh"
    /\ UNCHANGED <<worker, handlers, pppp, live>> /\ Worker

Consumers == {c \in Clients : stage[c] = "watching"}

Stall ==
    /\ worker = "running" /\ age = "stale" /\ Consumers # {}
    /\ worker' = "stopping"
    /\ UNCHANGED <<handlers, frames, age, pppp, live>> /\ Worker

(* Mutant of StopLive: it is the switch that stops the stream. *)
StopEnabledLive == live' = (live /\ ~enabled)
StopLive == live' = FALSE

WorkerStop ==
    /\ worker = "stopping"
    /\ worker' = "stopped"
    /\ StopLive
    /\ UNCHANGED <<handlers, frames, age, pppp>> /\ Worker

---------------------------------------------------------------------------
(* PPPP, the printer and time.                                               *)

OnlyLan == UNCHANGED <<stage, refs, enabled, wanted, worker, handlers, age>>

\* dispatchVideo feeds a frame once for every handler; FeedFrame drops the
\* oldest when the queue is full.
FeedFrame ==
    /\ live /\ handlers > 0
    /\ frames' = IF frames + handlers > QueueCap THEN QueueCap ELSE frames + handlers
    /\ UNCHANGED lan /\ OnlyLan

SessionUp ==
    /\ pppp = "connecting" /\ pppp' = "up"
    /\ UNCHANGED <<frames, upload, live>> /\ OnlyLan

\* The session is lost; the service restarts itself.
SessionLost ==
    /\ pppp = "up" /\ pppp' = "connecting" /\ live' = FALSE
    /\ UNCHANGED <<frames, upload>> /\ OnlyLan

UploadBegins ==
    /\ ~upload /\ upload' = TRUE
    /\ pppp' = IF pppp = "off" THEN "connecting" ELSE pppp
    /\ UNCHANGED <<frames, live>> /\ OnlyLan

\* Return stops the service: nobody else holds it, the video queue included.
UploadEnds ==
    /\ upload /\ upload' = FALSE
    /\ pppp' = "off" /\ live' = FALSE
    /\ UNCHANGED frames /\ OnlyLan

CameraHangs ==
    /\ live /\ live' = FALSE
    /\ UNCHANGED <<frames, pppp, upload>> /\ OnlyLan

\* Five seconds in which no frame came.
Age ==
    /\ age = "fresh" /\ ~live /\ frames = 0
    /\ age' = "stale"
    /\ UNCHANGED <<stage, refs, enabled, wanted, worker, handlers, frames, lan>>

Switches(u) == Wake(u) \/ Sleep(u) \/ Return(u)
Serves(c) == Borrow(c) \/ CheckRefs(c) \/ Disable(c)

Loop ==
    \/ StartDark \/ StartPPPP \/ StartFails \/ Register \/ LiveFails
    \/ StartLive \/ Unwanted \/ Run \/ Stall \/ WorkerStop

Disturbance == SessionLost \/ UploadEnds \/ CameraHangs

Next ==
    \/ \E u \in Users : Switches(u)
    \/ \E c \in Clients : Serves(c) \/ Connect(c) \/ Leave(c)
    \/ CtrlOn \/ CtrlOff \/ CtrlBorrows
    \/ Loop \/ TakeFrame
    \/ FeedFrame \/ SessionUp \/ Disturbance \/ UploadBegins \/ Age

\* The goroutines are scheduled; the select of WorkerRun does not overlook a
\* tick for ever; a service that wants a session gets one when nothing
\* disturbs it; a live printer sends frames.
Fairness ==
    /\ \A u \in Users : WF_vars(Switches(u))
    /\ \A c \in Clients : WF_vars(Serves(c))
    /\ WF_vars(Loop) /\ SF_vars(Register) /\ SF_vars(Stall)
    /\ WF_vars(TakeFrame)
    /\ WF_vars(SessionUp) /\ WF_vars(FeedFrame) /\ WF_vars(Age)

Spec == Init /\ [][Next]_vars /\ Fairness

---------------------------------------------------------------------------
(* Properties.                                                               *)

\* A worker that has stopped has left no stream running at the printer,
\* whichever of tab, user, upload and session ended first.
StoppedIsDark == worker = "stopped" => ~live

\* While a tab watches and nobody's Stop came late, frames keep coming, unless
\* the session, an upload or the camera disturbs the stream again and again:
\* the stall detection (videoqueue.go:463) brings it back after each of them.
Watched == enabled /\ wanted /\ Consumers # {}

VideoFlows ==
    \/ []<>~Watched
    \/ []<><<Disturbance>>_vars
    \/ []<><<TakeFrame>>_vars

====
