--------------------------- MODULE WorkerContract ---------------------------
(***************************************************************************)
(* What the author of a service may rely on: the order in which the hooks  *)
(* of workerHooks (internal/service/worker.go) are called, one at a time.  *)
(* BaseWorker implements it; the services are written against it.          *)
(*                                                                         *)
(* WorkerStop may be called on a service whose WorkerStart never ran or    *)
(* failed, so it must tolerate that; WorkerStart is never called twice     *)
(* without a WorkerStop between, and WorkerRun only on a started service.  *)
(***************************************************************************)

VARIABLE phase

Init == phase = "down"

CallStart   == phase = "down" /\ phase' = "starting"
StartOk     == phase = "starting" /\ phase' = "up"
StartFails  == phase = "starting" /\ phase' = "down"
CallRun     == phase = "up" /\ phase' = "running"
RunReturns  == phase = "running" /\ phase' = "up"
CallStop    == phase \in {"down", "up"} /\ phase' = "stopping"
StopReturns == phase = "stopping" /\ phase' = "down"

Next ==
  \/ CallStart
  \/ StartOk
  \/ StartFails
  \/ CallRun
  \/ RunReturns
  \/ CallStop
  \/ StopReturns

Spec == Init /\ [][Next]_phase

=============================================================================
