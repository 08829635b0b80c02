---- MODULE TransferQueue ----
(*****************************************************************************)
(* The queue of uploads (service/filetransfer.go) between the handlers that  *)
(* ask for one and the upload itself, which module FileUpload has in full.   *)
(* A handler borrows the service, sends its request into a channel and waits *)
(* for the answer or for the end of its own context, whichever comes first:  *)
(* a request nobody waits for stays in the queue, across a stop of the       *)
(* worker too.                                                               *)
(*                                                                           *)
(* As in ServiceManager, the calls of Start and Stop follow Borrow and       *)
(* Return after the unlock, and may be overtaken.                            *)
(*****************************************************************************)
EXTENDS Integers, Sequences, FiniteSets

CONSTANTS
    Transfers,   \* HTTP requests, of which each handler serves one
    NoTransfer,
    ReqCap,      \* capacity of reqCh
    MaxRestarts  \* bound: calls of RestartAll

VARIABLES
    at,          \* at[r]: where the handler of r is
    prints,      \* prints[r]: is the print to be started?
    gone,        \* the requests whose context has ended
    reqCh,       \* the channel of requests
    result,      \* result[r]: the channel the answer comes back by
    serving,     \* the request being uploaded
    wanted, active, cancelled, \* of the worker: wanted, in WorkerRun, its context
    printing,    \* IsPrinting
    restarts

transferVars == <<at, prints, gone, reqCh, result, serving, wanted, active, cancelled, printing, restarts>>
worker == <<wanted, active, cancelled>>

None == "none"
Holding == {"start", "send", "wait"}

(* The handlers that have borrowed the service: its reference count.  The    *)
(* count is lowered in the step that leaves them.                            *)
Holders == {r \in Transfers : at[r] \in Holding}

Init ==
    /\ at = [r \in Transfers |-> "new"] /\ prints = [r \in Transfers |-> FALSE]
    /\ gone = {} /\ reqCh = <<>> /\ result = [r \in Transfers |-> None]
    /\ serving = NoTransfer
    /\ wanted = FALSE /\ active = FALSE /\ cancelled = FALSE
    /\ printing = FALSE /\ restarts = 0

---------------------------------------------------------------------------
(* The handlers.                                                             *)

Goes(r, place) == at' = [at EXCEPT ![r] = place]

(* A reprint looks whether the printer is busy; it starts the print.         *)
HistoryReprint(r) ==
    /\ at[r] = "new"
    /\ ~printing
    /\ Goes(r, "checked") /\ prints' = [prints EXCEPT ![r] = TRUE]
    /\ UNCHANGED <<gone, reqCh, result, serving, worker, printing, restarts>>

(* An upload from the slicer does not look.                                  *)
SlicerUpload(r, print) ==
    /\ at[r] = "new"
    /\ Goes(r, "checked") /\ prints' = [prints EXCEPT ![r] = print]
    /\ UNCHANGED <<gone, reqCh, result, serving, worker, printing, restarts>>

Borrow(r) ==
    /\ at[r] = "checked"
    /\ Goes(r, IF Holders = {} THEN "start" ELSE "send")
    /\ UNCHANGED <<prints, gone, reqCh, result, serving, worker, printing, restarts>>

IssueStart(r) ==
    /\ at[r] = "start" /\ Goes(r, "send")
    /\ wanted' = TRUE
    /\ UNCHANGED <<prints, gone, reqCh, result, serving, active, cancelled, printing, restarts>>

SendFile(r) ==
    /\ at[r] = "send" /\ Len(reqCh) < ReqCap
    /\ Goes(r, "wait") /\ reqCh' = Append(reqCh, r)
    /\ UNCHANGED <<prints, gone, result, serving, worker, printing, restarts>>

(* The count falls now; the Stop is called later. *)
Return(r) == Goes(r, IF Holders = {r} THEN "stop" ELSE "over")

TakesResult(r) ==
    /\ at[r] = "wait" /\ result[r] # None
    /\ Return(r) /\ result' = [result EXCEPT ![r] = None]
    /\ UNCHANGED <<prints, gone, reqCh, serving, worker, printing, restarts>>

(* The client hangs up.  The handler sees it where it waits. *)
ContextEnds(r) ==
    /\ at[r] \in {"checked"} \cup Holding /\ gone' = gone \cup {r}
    /\ UNCHANGED <<at, prints, reqCh, result, serving, worker, printing, restarts>>

GivesUp(r) ==
    /\ at[r] \in {"send", "wait"} /\ r \in gone
    /\ Return(r)
    /\ UNCHANGED <<prints, gone, reqCh, result, serving, worker, printing, restarts>>

IssueStop(r) ==
    /\ at[r] = "stop" /\ Goes(r, "over")
    /\ wanted' = FALSE /\ cancelled' = TRUE
    /\ UNCHANGED <<prints, gone, reqCh, result, serving, active, printing, restarts>>

(* A reload of the configuration, a switch of printers. *)
RestartAll ==
    /\ restarts < MaxRestarts /\ restarts' = restarts + 1
    /\ wanted' = TRUE /\ cancelled' = TRUE
    /\ UNCHANGED <<at, prints, gone, reqCh, result, serving, active, printing>>

---------------------------------------------------------------------------
(* The worker.                                                               *)

WorkerStart ==
    /\ ~active /\ wanted
    /\ active' = TRUE /\ cancelled' = FALSE
    /\ UNCHANGED <<at, prints, gone, reqCh, result, serving, wanted, printing, restarts>>

(* Mutant of Remaining: a worker that stops empties its queue. *)
NoneRemain == <<>>

(* What WorkerStop leaves of the queue. *)
Remaining == reqCh

(* Between two uploads only: an upload runs in the context of its request. *)
WorkerStop ==
    /\ active /\ serving = NoTransfer /\ cancelled
    /\ active' = FALSE /\ reqCh' = Remaining
    /\ UNCHANGED <<at, prints, gone, result, serving, wanted, cancelled, printing, restarts>>

(* Of a context that has ended and a request, either may be chosen. *)
WorkerRun ==
    /\ active /\ serving = NoTransfer /\ reqCh # <<>>
    /\ serving' = Head(reqCh) /\ reqCh' = Tail(reqCh)
    /\ UNCHANGED <<at, prints, gone, result, worker, printing, restarts>>

(* Upload returns, which it does in the end (FileUpload); the print starts   *)
(* if that was asked for, whatever the printer does at the time.             *)
HandleUpload(ok) ==
    /\ serving # NoTransfer /\ serving' = NoTransfer
    /\ result' = [result EXCEPT ![serving] = IF ok THEN "nil" ELSE "error"]
    /\ printing' = (printing \/ (ok /\ prints[serving]))
    /\ UNCHANGED <<at, prints, gone, reqCh, worker, restarts>>

PrintEnds ==
    /\ printing /\ printing' = FALSE
    /\ UNCHANGED <<at, prints, gone, reqCh, result, serving, worker, restarts>>

ServiceStep == WorkerStart \/ WorkerStop \/ WorkerRun \/ \E ok \in BOOLEAN : HandleUpload(ok)

HandlerStep(r) ==
    \/ HistoryReprint(r) \/ \E print \in BOOLEAN : SlicerUpload(r, print)
    \/ Borrow(r) \/ IssueStart(r) \/ SendFile(r) \/ TakesResult(r)
    \/ ContextEnds(r) \/ GivesUp(r) \/ IssueStop(r)

Next ==
    \/ ServiceStep \/ RestartAll \/ PrintEnds
    \/ \E r \in Transfers : HandlerStep(r)

(* The loop of the worker goes on, and so does a handler that has an answer. *)
(* Nothing is asked of a client, who may never hang up.                      *)
Fairness ==
    /\ WF_transferVars(ServiceStep)
    /\ \A r \in Transfers : WF_transferVars(TakesResult(r))

Spec == Init /\ [][Next]_transferVars /\ Fairness

---------------------------------------------------------------------------
(* A handler that waits is answered in the end, whatever was abandoned       *)
(* before it in the queue, however often the worker is stopped and started   *)
(* in between, and whoever else hangs up.  Only a service that is not wanted *)
(* answers nobody: the Stop of a Return that is called late, after the Start *)
(* of the next Borrow, leaves it so (BorrowedIsWanted in ServiceManager).    *)
WaitersAreAnswered ==
    \A r \in Transfers : at[r] = "wait" /\ wanted ~> at[r] # "wait" \/ ~wanted
====
