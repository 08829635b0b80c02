----------------------------- MODULE BaseWorker -----------------------------
(***************************************************************************)
(* The lifecycle of one background service: BaseWorker of                  *)
(* internal/service/worker.go.                                             *)
(*                                                                         *)
(* One goroutine, runLoop, calls the hooks WorkerInit, WorkerStart,        *)
(* WorkerRun and WorkerStop of the service.  Any other goroutine may call  *)
(* Start, Stop, Restart and Shutdown; each takes w.mu once and is atomic.  *)
(* The loop takes w.mu for a moment only: it copies what it needs at the   *)
(* top of each iteration, unlocks, and acts on the copy, so an API call    *)
(* may fall between the copy and the action taken on it.                   *)
(*                                                                         *)
(* Time is abstracted to what the loop asks of it: a holdoff deadline is   *)
(* "none" (the zero Time), "pending" or "past".                            *)
(***************************************************************************)

VARIABLES
  state,        \* w.state
  wanted,       \* w.wanted
  initialized,  \* w.initialized
  loopCtx,      \* w.loopCtx: "none" before the first Start
  runCancel,    \* w.runCancel is not nil
  runDone,      \* the context of the latest run was cancelled by runCancel
  holdoff,      \* w.holdoffUntil
  signal,       \* w.stopSignalChan holds its one token
  pc,           \* where the loop goroutine is; "none": w.loopDone is nil
  snap,         \* what the loop copied at the top of this iteration
  afterStop,    \* where stopWorker returns to: "exit" or "stopped"
  live,         \* history: WorkerStart succeeded, no WorkerStop since
  asked         \* history: where the loop was when Restart was last called on
                \* a loop not shut down, "none" once a WorkerStop has followed

vars == <<state, wanted, initialized, loopCtx, runCancel, runDone, holdoff,
          signal, pc, snap, afterStop, live, asked>>

RunStates == {"Stopped", "Starting", "Running", "Stopping"}
Holdoffs  == {"none", "pending", "past"}
LoopPCs   == {"none", "init", "read", "dispatch", "wait",
              "startHook", "runHook", "stopHook", "exit"}

(***************************************************************************)
(* At most one of the hooks runs at a time, in the loop goroutine.         *)
(***************************************************************************)
InHook == pc \in {"startHook", "runHook", "stopHook"}

NoLoop == pc = "none"

(* Mutant of RunCtxDone. *)
RunCtxDetached == runDone

RunCtxDone == runDone \/ loopCtx = "cancelled"

Snapshots == [state : RunStates, wanted : BOOLEAN, holdoff : Holdoffs,
              cancelled : BOOLEAN]

Init ==
  /\ state = "Stopped"
  /\ wanted = FALSE
  /\ initialized = FALSE
  /\ loopCtx = "none"
  /\ runCancel = FALSE
  /\ runDone = FALSE
  /\ holdoff = "none"
  /\ signal = FALSE
  /\ pc = "none"
  /\ snap = [state |-> "Stopped", wanted |-> FALSE, holdoff |-> "none",
             cancelled |-> FALSE]
  /\ afterStop = "stopped"
  /\ live = FALSE
  /\ asked = "none"

-----------------------------------------------------------------------------
(* The API, called by any goroutine.                                       *)

(* A loop is spawned only when there is none. *)
SpawnLoop ==
  /\ loopCtx' = IF NoLoop THEN "live" ELSE loopCtx
  /\ pc'      = IF NoLoop THEN "init" ELSE pc

CancelRun == runDone' = (runDone \/ runCancel)

Start ==
  /\ wanted' = TRUE
  /\ SpawnLoop
  /\ signal' = TRUE
  /\ UNCHANGED <<state, initialized, runCancel, runDone, holdoff, snap,
                 afterStop, live, asked>>

Stop ==
  /\ wanted' = FALSE
  /\ CancelRun
  /\ signal' = TRUE
  /\ UNCHANGED <<state, initialized, loopCtx, runCancel, holdoff, pc, snap,
                 afterStop, live, asked>>

Restart ==
  /\ CancelRun
  /\ wanted' = TRUE
  /\ holdoff' = "pending"
  /\ state' = "Stopping"
  /\ SpawnLoop
  /\ signal' = TRUE
  /\ asked' = IF loopCtx = "live" THEN pc ELSE "none"
  /\ UNCHANGED <<initialized, runCancel, snap, afterStop, live>>

(* Shutdown then blocks its caller until the loop is gone, at most 5 s. *)
Shutdown ==
  /\ loopCtx # "none"
  /\ wanted' = FALSE
  /\ CancelRun
  /\ loopCtx' = "cancelled"
  /\ signal' = TRUE
  /\ UNCHANGED <<state, initialized, runCancel, holdoff, pc, snap, afterStop,
                 live, asked>>

-----------------------------------------------------------------------------
(* The loop goroutine.                                                     *)

(* WorkerInit runs in the first loop only. *)
LoopInit ==
  /\ pc = "init"
  /\ initialized' = TRUE
  /\ pc' = "read"
  /\ UNCHANGED <<state, wanted, loopCtx, runCancel, runDone, holdoff, signal,
                 snap, afterStop, live, asked>>

(* The copy made under the lock at the top of an iteration, and whether    *)
(* the loop's context was over by then.                                    *)
LoopRead ==
  /\ pc = "read"
  /\ snap' = [state |-> state, wanted |-> wanted, holdoff |-> holdoff,
              cancelled |-> loopCtx = "cancelled"]
  /\ pc' = "dispatch"
  /\ UNCHANGED <<state, wanted, initialized, loopCtx, runCancel, runDone,
                 holdoff, signal, afterStop, live, asked>>

(* A loop context that is over when it is looked at, between the copy and   *)
(* what is done with it, makes this the last iteration.                     *)
Proceeds == pc = "dispatch" /\ ~snap.cancelled

(* A Restart that came after the copy has replaced the deadline the copy   *)
(* holds; only then may the copied deadline pass before the current one.   *)
CopiedHoldoffOver ==
  snap.holdoff # "pending" \/ state # snap.state

(* First half of stopWorker: forget and cancel the run context. *)
StopWorker(next) ==
  /\ runCancel' = FALSE
  /\ CancelRun
  /\ afterStop' = next
  /\ pc' = "stopHook"

DispatchCancelled ==
  /\ pc = "dispatch"
  /\ loopCtx = "cancelled"
  /\ StopWorker("exit")
  /\ UNCHANGED <<state, wanted, initialized, loopCtx, holdoff, signal, snap,
                 live, asked>>

DispatchWait ==
  /\ Proceeds
  /\ \/ snap.state = "Stopped" /\ ~snap.wanted
     \/ snap.state \in {"Stopped", "Starting"} /\ snap.holdoff = "pending"
  /\ pc' = "wait"
  /\ UNCHANGED <<state, wanted, initialized, loopCtx, runCancel, runDone,
                 holdoff, signal, snap, afterStop, live, asked>>

DispatchStarting ==
  /\ Proceeds
  /\ snap.state = "Stopped"
  /\ snap.wanted
  /\ CopiedHoldoffOver
  /\ holdoff' = "none"
  /\ state' = "Starting"
  /\ pc' = "read"
  /\ UNCHANGED <<wanted, initialized, loopCtx, runCancel, runDone, signal,
                 snap, afterStop, live, asked>>

CallWorkerStart ==
  /\ Proceeds
  /\ snap.state = "Starting"
  /\ CopiedHoldoffOver
  /\ pc' = "startHook"
  /\ UNCHANGED <<state, wanted, initialized, loopCtx, runCancel, runDone,
                 holdoff, signal, snap, afterStop, live, asked>>

(* The first of the two ways out of state Running: nobody wants it. *)
DispatchUnwanted ==
  /\ Proceeds
  /\ snap.state = "Running"
  /\ ~snap.wanted
  /\ state' = "Stopping"
  /\ pc' = "read"
  /\ UNCHANGED <<wanted, initialized, loopCtx, runCancel, runDone, holdoff,
                 signal, snap, afterStop, live, asked>>

(* newRunContext makes a fresh context: whatever was cancelled before it   *)
(* no longer counts.                                                       *)
CallWorkerRun ==
  /\ Proceeds
  /\ snap.state = "Running"
  /\ snap.wanted
  /\ runCancel' = TRUE
  /\ runDone' = FALSE
  /\ pc' = "runHook"
  /\ UNCHANGED <<state, wanted, initialized, loopCtx, holdoff, signal, snap,
                 afterStop, live, asked>>

DispatchStopping ==
  /\ Proceeds
  /\ snap.state = "Stopping"
  /\ StopWorker("stopped")
  /\ UNCHANGED <<state, wanted, initialized, loopCtx, holdoff, signal, snap,
                 live, asked>>

(* Mutant of Wake. *)
WakeOnSignalOnly ==
  /\ pc = "wait"
  /\ signal
  /\ signal' = FALSE
  /\ pc' = "read"
  /\ UNCHANGED <<state, wanted, initialized, loopCtx, runCancel, runDone,
                 holdoff, snap, afterStop, live, asked>>

(* waitLoopSignal ends with a token or with the 50 ms tick. *)
Wake ==
  /\ pc = "wait"
  /\ signal' = FALSE
  /\ pc' = "read"
  /\ UNCHANGED <<state, wanted, initialized, loopCtx, runCancel, runDone,
                 holdoff, snap, afterStop, live, asked>>

-----------------------------------------------------------------------------
(* What the hooks of the service answer.                                   *)

WorkerStartOk ==
  /\ pc = "startHook"
  /\ holdoff' = "none"
  /\ state' = "Running"
  /\ live' = TRUE
  /\ pc' = "read"
  /\ UNCHANGED <<wanted, initialized, loopCtx, runCancel, runDone, signal,
                 snap, afterStop, asked>>

WorkerStartFails ==
  /\ pc = "startHook"
  /\ holdoff' = IF wanted THEN "pending" ELSE holdoff
  /\ state' = "Stopped"
  /\ pc' = "wait"
  /\ UNCHANGED <<wanted, initialized, loopCtx, runCancel, runDone, signal,
                 snap, afterStop, live, asked>>

(* WorkerRun must block until its context is cancelled, then returns nil. *)
WorkerRunDone ==
  /\ pc = "runHook"
  /\ RunCtxDone
  /\ pc' = "read"
  /\ UNCHANGED <<state, wanted, initialized, loopCtx, runCancel, runDone,
                 holdoff, signal, snap, afterStop, live, asked>>

(* Mutant of WorkerRunFails. *)
RunFailureSkipsStop ==
  /\ pc = "runHook"
  /\ holdoff' \in {"pending", "past"}
  /\ state' = "Stopped"
  /\ pc' = "read"
  /\ UNCHANGED <<wanted, initialized, loopCtx, runCancel, runDone, signal,
                 snap, afterStop, live, asked>>

(* It may give up at any time: ErrServiceRestartSignal sets a holdoff of   *)
(* one second, any other error one that is over at once.                   *)
WorkerRunFails ==
  /\ pc = "runHook"
  /\ holdoff' \in {"pending", "past"}
  /\ state' = "Stopping"
  /\ pc' = "read"
  /\ UNCHANGED <<wanted, initialized, loopCtx, runCancel, runDone, signal,
                 snap, afterStop, live, asked>>

(* WorkerStop has returned inside the loop. *)
WorkerStopped ==
  /\ pc = "stopHook"
  /\ afterStop = "stopped"
  /\ holdoff' = IF wanted /\ holdoff = "none" THEN "pending" ELSE holdoff
  /\ state' = "Stopped"
  /\ live' = FALSE
  /\ asked' = "none"
  /\ pc' = "read"
  /\ UNCHANGED <<wanted, initialized, loopCtx, runCancel, runDone, signal,
                 snap, afterStop>>

(* WorkerStop has returned on the way out of a cancelled loop. *)
WorkerStoppedLast ==
  /\ pc = "stopHook"
  /\ afterStop = "exit"
  /\ live' = FALSE
  /\ asked' = "none"
  /\ pc' = "exit"
  /\ UNCHANGED <<state, wanted, initialized, loopCtx, runCancel, runDone,
                 holdoff, signal, snap, afterStop>>

(* Mutant of LoopExit. *)
LoopExitKeepsState ==
  /\ pc = "exit"
  /\ runCancel' = FALSE
  /\ pc' = "none"
  /\ UNCHANGED <<state, wanted, initialized, loopCtx, runDone, holdoff, signal,
                 snap, afterStop, live, asked>>

(* The deferred function of runLoop. *)
LoopExit ==
  /\ pc = "exit"
  /\ state' = "Stopped"
  /\ runCancel' = FALSE
  /\ pc' = "none"
  /\ UNCHANGED <<wanted, initialized, loopCtx, runDone, holdoff, signal, snap,
                 afterStop, live, asked>>

(* A pending deadline is reached; a copy of it is never a later one. *)
HoldoffOver ==
  /\ holdoff = "pending"
  /\ holdoff' = "past"
  /\ snap' = [snap EXCEPT !.holdoff = IF @ = "pending" THEN "past" ELSE @]
  /\ UNCHANGED <<state, wanted, initialized, loopCtx, runCancel, runDone,
                 signal, pc, afterStop, live, asked>>

-----------------------------------------------------------------------------

Api == Start \/ Stop \/ Restart \/ Shutdown

Dispatch ==
  \/ DispatchCancelled
  \/ DispatchWait
  \/ DispatchStarting
  \/ CallWorkerStart
  \/ DispatchUnwanted
  \/ CallWorkerRun
  \/ DispatchStopping

Hooks ==
  \/ WorkerStartOk
  \/ WorkerStartFails
  \/ WorkerRunDone
  \/ WorkerRunFails
  \/ WorkerStopped
  \/ WorkerStoppedLast

Loop == LoopInit \/ LoopRead \/ Dispatch \/ Wake \/ LoopExit

Next == Api \/ Loop \/ Hooks \/ HoldoffOver

Spec == Init /\ [][Next]_vars

(***************************************************************************)
(* Go schedules the loop goroutine; WorkerStart and WorkerStop return;     *)
(* WorkerRun returns once its context is cancelled, and may otherwise      *)
(* block for ever.  Nobody is obliged to call the API.                     *)
(***************************************************************************)
Fairness ==
  /\ WF_vars(Loop)
  /\ WF_vars(WorkerStartOk \/ WorkerStartFails)
  /\ WF_vars(WorkerRunDone)
  /\ WF_vars(WorkerStopped \/ WorkerStoppedLast)
  /\ WF_vars(HoldoffOver)

FairSpec == Spec /\ Fairness

-----------------------------------------------------------------------------

TypeOK ==
  /\ state \in RunStates
  /\ wanted \in BOOLEAN
  /\ initialized \in BOOLEAN
  /\ loopCtx \in {"none", "live", "cancelled"}
  /\ runCancel \in BOOLEAN
  /\ runDone \in BOOLEAN
  /\ holdoff \in Holdoffs
  /\ signal \in BOOLEAN
  /\ pc \in LoopPCs
  /\ snap \in Snapshots
  /\ afterStop \in {"exit", "stopped"}
  /\ live \in BOOLEAN
  /\ asked \in LoopPCs

(***************************************************************************)
(* The service never leaks: WorkerStart is never called on a service that  *)
(* is already started, WorkerRun only on one that is, whatever Start,      *)
(* Stop, Restart and Shutdown calls fall between the loop's copy of the    *)
(* state and the hook it calls on it, and the loop never ends with the     *)
(* service still started.                                                  *)
(***************************************************************************)
NoDoubleStart == pc = "startHook" => ~live
RunOnlyStarted == pc = "runHook" => live
NothingLeftRunning == pc \in {"none", "exit"} => ~live
HookOrder == NoDoubleStart /\ RunOnlyStarted /\ NothingLeftRunning

(***************************************************************************)
(* A started service is never reported stopped or starting: State() of a   *)
(* worker that holds its resources is Running or Stopping, and a worker    *)
(* whose State() is Running holds them, until the loop is on its way out.  *)
(***************************************************************************)
StateIsHonest ==
  /\ live => state \in {"Running", "Stopping"}
  /\ state = "Running" => live \/ pc = "exit"

(***************************************************************************)
(* The pace of retries: a step that calls WorkerStart never does so while  *)
(* the holdoff left by a failure is still pending, unless a Restart        *)
(* arrived after the loop made its copy.                                   *)
(***************************************************************************)
NoHotRetry ==
  [][CallWorkerStart => (holdoff # "pending" \/ state = "Stopping")]_vars

(***************************************************************************)
(* The loop implements the contract its services are written against.      *)
(***************************************************************************)
HookPhase ==
  CASE pc = "startHook" -> "starting"
    [] pc = "runHook"   -> "running"
    [] pc = "stopHook"  -> "stopping"
    [] ~InHook          -> IF live THEN "up" ELSE "down"

Contract == INSTANCE WorkerContract WITH phase <- HookPhase

(* Every behaviour of the loop is one the contract of the hooks allows.    *)
ContractHolds == Contract!Spec

(* Shutdown ends the loop goroutine, whatever else is called meanwhile. *)
ShutdownEndsLoop == loopCtx = "cancelled" ~> NoLoop

(* A service that stays wanted and is not shut down is, again and again,   *)
(* up or being started: a failed WorkerStart is retried for ever.          *)
WantedIsRetried ==
  <>[](wanted /\ loopCtx = "live" /\ asked = "none")
     => []<>(live \/ pc = "startHook")

=============================================================================
