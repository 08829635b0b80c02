---------------------------- MODULE Live_proofs ----------------------------
(***************************************************************************)
(* Proofs about the worker loop and about live video, its busiest user.    *)
(*                                                                         *)
(* BaseWorker: the hooks are called on a copy of the state made before an  *)
(* unlock, so HookOrder is not inductive: IInv says what the copy and the  *)
(* shared state still have to do with each other.                          *)
(*                                                                         *)
(* VideoStream: a stopped worker leaves no stream because, whoever calls,  *)
(* only the worker itself starts one, and only a step before it runs.      *)
(***************************************************************************)
EXTENDS MCLive, TLAPS

-----------------------------------------------------------------------------
(* BaseWorker.                                                             *)

(* A copy the loop still holds is right about the service, if not about    *)
(* w.state: only the loop itself starts and stops the service.             *)
CopyIsRight ==
  pc = "dispatch" =>
    /\ snap.state \in {"Stopped", "Starting"} => ~live
    /\ snap.state = "Running" => live

(* A loop that has not made its first copy has not started the service.    *)
FreshLoop == pc = "init" => ~live

(* Of the API calls only Restart touches what was copied, and it shows.    *)
CopyIsFresh ==
  pc = "dispatch" =>
    state = "Stopping" \/ (state = snap.state /\ holdoff = snap.holdoff)

IInv == TypeOK /\ HookOrder /\ StateIsHonest /\ CopyIsRight /\ CopyIsFresh
        /\ FreshLoop

LEMMA InitTyped == Init => TypeOK
<1> SUFFICES ASSUME Init PROVE TypeOK
  OBVIOUS
<1>1. snap \in Snapshots
  BY Zenon DEF Init, Snapshots, RunStates, Holdoffs
<1> QED BY <1>1 DEF Init, TypeOK, RunStates, Holdoffs, LoopPCs

LEMMA StepTyped == TypeOK /\ [Next]_vars => TypeOK'
<1> SUFFICES ASSUME TypeOK, [Next]_vars PROVE TypeOK'
  OBVIOUS
<1>1. runDone' \in BOOLEAN
  BY Zenon DEF TypeOK, vars, Next, Api, Loop, Dispatch, Hooks, Start, Stop,
     Restart, Shutdown, LoopInit, LoopRead, Wake, LoopExit, DispatchCancelled,
     DispatchWait, DispatchStarting, CallWorkerStart, DispatchUnwanted,
     CallWorkerRun, DispatchStopping, StopWorker, CancelRun, WorkerStartOk,
     WorkerStartFails, WorkerRunDone, WorkerRunFails, WorkerStopped,
     WorkerStoppedLast, HoldoffOver
<1>2. snap' \in Snapshots
  <2>1. CASE LoopRead
    BY <2>1, Zenon DEF LoopRead, TypeOK, Snapshots
  <2>2. CASE HoldoffOver
    BY <2>2 DEF HoldoffOver, TypeOK, Snapshots, Holdoffs
  <2>3. CASE UNCHANGED snap
    BY <2>3 DEF TypeOK
  <2> QED
    BY <2>1, <2>2, <2>3 DEF vars, Next, Api, Loop, Dispatch, Hooks, Start, Stop,
       Restart, Shutdown, LoopInit, Wake, LoopExit, DispatchCancelled,
       DispatchWait, DispatchStarting, CallWorkerStart, DispatchUnwanted,
       CallWorkerRun, DispatchStopping, WorkerStartOk, WorkerStartFails,
       WorkerRunDone, WorkerRunFails, WorkerStopped, WorkerStoppedLast
<1> USE <1>1, <1>2 DEF TypeOK, RunStates, Holdoffs, LoopPCs
<1>3. CASE Api
  BY <1>3 DEF Api, Start, Stop, Restart, Shutdown, SpawnLoop, NoLoop
<1>4. CASE LoopInit \/ LoopRead \/ Wake \/ LoopExit
  BY <1>4 DEF LoopInit, LoopRead, Wake, LoopExit
<1>5. CASE Dispatch
  BY <1>5 DEF Dispatch, DispatchCancelled, DispatchWait, DispatchStarting,
     CallWorkerStart, DispatchUnwanted, CallWorkerRun, DispatchStopping,
     StopWorker
<1>6. CASE Hooks
  BY <1>6 DEF Hooks, WorkerStartOk, WorkerStartFails, WorkerRunDone,
     WorkerRunFails, WorkerStopped, WorkerStoppedLast
<1>7. CASE HoldoffOver
  BY <1>7 DEF HoldoffOver
<1>8. CASE UNCHANGED vars
  BY <1>8 DEF vars
<1> QED BY <1>3, <1>4, <1>5, <1>6, <1>7, <1>8 DEF Next, Loop

LEMMA TypeCorrect == Spec => []TypeOK
BY InitTyped, StepTyped, PTL DEF Spec

LEMMA Inductive == Spec => []IInv
<1>1. Init => IInv
  BY InitTyped DEF Init, IInv, HookOrder,
     NoDoubleStart, RunOnlyStarted, NothingLeftRunning, StateIsHonest,
     CopyIsRight, CopyIsFresh, FreshLoop
<1>2. TypeOK' /\ IInv /\ [Next]_vars => IInv'
  <2> SUFFICES ASSUME TypeOK', IInv, [Next]_vars
               PROVE (HookOrder /\ StateIsHonest /\ CopyIsRight /\ CopyIsFresh
                        /\ FreshLoop)'
    BY DEF IInv
  <2> USE DEF IInv, TypeOK, Snapshots, RunStates, LoopPCs, HookOrder,
      NoDoubleStart, RunOnlyStarted, NothingLeftRunning, StateIsHonest,
      CopyIsRight, CopyIsFresh, FreshLoop
  <2>1. CASE Api
    BY <2>1 DEF Api, Start, Stop, Restart, Shutdown, SpawnLoop, NoLoop
  <2>2. CASE LoopInit
    BY <2>2 DEF LoopInit
  <2>3. CASE LoopRead
    BY <2>3 DEF LoopRead
  <2>4. CASE Dispatch
    BY <2>4 DEF Dispatch, DispatchCancelled, DispatchWait, DispatchStarting,
       CallWorkerStart, DispatchUnwanted, CallWorkerRun, DispatchStopping,
       StopWorker, Proceeds
  <2>5. CASE Wake
    BY <2>5 DEF Wake
  <2>6. CASE LoopExit
    BY <2>6 DEF LoopExit
  <2>7. CASE Hooks
    BY <2>7 DEF Hooks, WorkerStartOk, WorkerStartFails, WorkerRunDone,
       WorkerRunFails, WorkerStopped, WorkerStoppedLast
  <2>8. CASE HoldoffOver
    BY <2>8 DEF HoldoffOver, Holdoffs
  <2>9. CASE UNCHANGED vars
    BY <2>9 DEF vars
  <2> QED BY <2>1, <2>2, <2>3, <2>4, <2>5, <2>6, <2>7, <2>8, <2>9 DEF Next, Loop
<1> QED BY <1>1, <1>2, TypeCorrect, PTL DEF Spec

(***************************************************************************)
(* No interleaving of Start, Stop, Restart and Shutdown makes the loop     *)
(* start a started service, run one that is not started, or end with the   *)
(* service still started.                                                  *)
(***************************************************************************)
THEOREM HookOrderHolds == Spec => []HookOrder
BY Inductive, PTL DEF IInv

(* State() never reports a service that holds its resources as stopped.    *)
THEOREM StateIsHonestHolds == Spec => []StateIsHonest
BY Inductive, PTL DEF IInv

(***************************************************************************)
(* The worker loop implements the contract of the hooks: every step of it, *)
(* and every API call, is a step of the contract or leaves the service     *)
(* where it was.                                                           *)
(***************************************************************************)
THEOREM ImplementsContract == Spec => ContractHolds
<1>1. Init => Contract!Init
  BY DEF Init, Contract!Init, HookPhase, InHook
<1>2. IInv /\ [Next]_vars => [Contract!Next]_HookPhase
  <2> SUFFICES ASSUME IInv, [Next]_vars PROVE [Contract!Next]_HookPhase
    OBVIOUS
  <2> USE DEF IInv, TypeOK, LoopPCs, HookOrder, NoDoubleStart, RunOnlyStarted,
      NothingLeftRunning, CopyIsRight, FreshLoop, HookPhase, InHook
  <2>1. CASE Api
    BY <2>1 DEF Api, Start, Stop, Restart, Shutdown, SpawnLoop, NoLoop
  <2>2. CASE LoopInit \/ LoopRead \/ Wake \/ LoopExit
    BY <2>2 DEF LoopInit, LoopRead, Wake, LoopExit
  <2>3. CASE Dispatch
    <3>1. CASE DispatchWait \/ DispatchStarting \/ DispatchUnwanted
      BY <3>1 DEF DispatchWait, DispatchStarting, DispatchUnwanted, Proceeds
    <3>2. CASE CallWorkerStart
      BY <3>2 DEF CallWorkerStart, Proceeds, Contract!Next, Contract!CallStart
    <3>3. CASE CallWorkerRun
      BY <3>3 DEF CallWorkerRun, Proceeds, Contract!Next, Contract!CallRun
    <3>4. CASE DispatchCancelled \/ DispatchStopping
      BY <3>4 DEF DispatchCancelled, DispatchStopping, StopWorker, Proceeds,
         Contract!Next, Contract!CallStop
    <3> QED BY <2>3, <3>1, <3>2, <3>3, <3>4 DEF Dispatch
  <2>4. CASE Hooks
    <3>1. CASE WorkerStartOk
      BY <3>1 DEF WorkerStartOk, Contract!Next, Contract!StartOk
    <3>2. CASE WorkerStartFails
      BY <3>2 DEF WorkerStartFails, Contract!Next, Contract!StartFails
    <3>3. CASE WorkerRunDone \/ WorkerRunFails
      BY <3>3 DEF WorkerRunDone, WorkerRunFails, Contract!Next, Contract!RunReturns
    <3>4. CASE WorkerStopped \/ WorkerStoppedLast
      BY <3>4 DEF WorkerStopped, WorkerStoppedLast, Contract!Next,
         Contract!StopReturns
    <3> QED BY <2>4, <3>1, <3>2, <3>3, <3>4 DEF Hooks
  <2>5. CASE HoldoffOver
    BY <2>5 DEF HoldoffOver
  <2>6. CASE UNCHANGED vars
    BY <2>6 DEF vars
  <2> QED BY <2>1, <2>2, <2>3, <2>4, <2>5, <2>6 DEF Next, Loop
<1> QED BY <1>1, <1>2, Inductive, PTL DEF Spec, ContractHolds, Contract!Spec

(***************************************************************************)
(* WorkerStart is not retried before the holdoff a failure left is over,   *)
(* unless a Restart came after the loop made its copy.                     *)
(***************************************************************************)
THEOREM NoHotRetryHolds == Spec => NoHotRetry
<1>1. IInv => (CallWorkerStart => (holdoff # "pending" \/ state = "Stopping"))
  BY DEF IInv, CopyIsFresh, CallWorkerStart, Proceeds, CopiedHoldoffOver
<1> QED BY <1>1, Inductive, PTL DEF Spec, NoHotRetry

-----------------------------------------------------------------------------
(* VideoStream.                                                            *)

(* The printer streams only while a started worker is there to stop it.    *)
StreamHasWorker == streaming => worker \in {"ready", "idling", "running", "stopping"}

(* Calls reach the worker between its steps: they may send it to stop, or  *)
(* leave it where it is.                                                   *)
LEMMA CallKeepsStream ==
  ASSUME StreamHasWorker, UNCHANGED streaming,
         Video!Start \/ Video!Stop \/ Video!Restart \/ Video!NoCall \/ UNCHANGED worker
  PROVE  StreamHasWorker'
BY DEF StreamHasWorker, Video!Start, Video!Stop, Video!Restart, Video!NoCall,
       Video!Interrupt, Video!InRun

LEMMA VideoStep == StreamHasWorker /\ [Video!Next]_(Video!vars) => StreamHasWorker'
<1> SUFFICES ASSUME StreamHasWorker, [Video!Next]_(Video!vars) PROVE StreamHasWorker'
  OBVIOUS
<1> USE DEF Video!vars, Video!queue, Video!lan
<1>1. ASSUME NEW u \in Video!Users, Video!Switches(u) PROVE StreamHasWorker'
  BY <1>1, CallKeepsStream
  DEF Video!Switches, Video!Wake, Video!Sleep, Video!Return, Video!Calls
<1>2. ASSUME NEW c \in Tabs, Video!Serves(c) \/ Video!Connect(c) \/ Video!Leave(c)
      PROVE  StreamHasWorker'
  BY <1>2, CallKeepsStream
  DEF Video!Serves, Video!Borrow, Video!CheckRefs, Video!Disable, Video!Connect, Video!Leave,
      Video!SwitchOn, Video!SwitchOff
<1>3. CASE Video!CtrlOn \/ Video!CtrlOff \/ Video!CtrlBorrows
  BY <1>3, CallKeepsStream
  DEF Video!CtrlOn, Video!CtrlOff, Video!CtrlBorrows, Video!Borrow, Video!SwitchOn, Video!SwitchOff
<1>4. CASE Video!StartDark \/ Video!StartPPPP \/ Video!StartFails \/ Video!Register
  BY <1>4
  DEF StreamHasWorker, Video!StartDark, Video!StartPPPP, Video!StartFails, Video!Register
<1>5. CASE Video!LiveFails \/ Video!StartLive \/ Video!Unwanted \/ Video!Run
  BY <1>5 DEF StreamHasWorker, Video!LiveFails, Video!StartLive, Video!Unwanted, Video!Run
<1>6. CASE Video!Stall \/ Video!WorkerStop \/ Video!TakeFrame
  BY <1>6 DEF StreamHasWorker, Video!Stall, Video!WorkerStop, Video!StopLive, Video!TakeFrame
<1>7. CASE Video!FeedFrame \/ Video!SessionUp \/ Video!Disturbance \/ Video!UploadBegins \/ Video!Age
  BY <1>7
  DEF StreamHasWorker, Video!FeedFrame, Video!SessionUp, Video!Disturbance, Video!SessionLost,
      Video!UploadEnds, Video!CameraHangs, Video!UploadBegins, Video!Age, Video!OnlyLan
<1>8. CASE UNCHANGED Video!vars
  BY <1>8 DEF StreamHasWorker
<1> QED BY <1>1, <1>2, <1>3, <1>4, <1>5, <1>6, <1>7, <1>8 DEF Video!Next, Video!Loop

(* For any number of tabs, and a queue of frames of any size: a video      *)
(* queue that has stopped has left no stream running at the printer,       *)
(* whichever of tab, user, upload and session ended first                  *)
(* (videoqueue.go:471).                                                    *)
THEOREM StoppedIsDarkHolds == Video!Spec => []StoppedIsDark
<1>1. Video!Init => StreamHasWorker
  BY DEF Video!Init, StreamHasWorker
<1>2. StreamHasWorker => StoppedIsDark
  BY DEF StreamHasWorker, StoppedIsDark, Video!StoppedIsDark
<1> QED BY <1>1, <1>2, VideoStep, PTL DEF Video!Spec
=============================================================================
