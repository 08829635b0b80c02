--------------------------- MODULE ServiceManager ---------------------------
(***************************************************************************)
(* ServiceManager of internal/service/manager.go: services shared by       *)
(* reference count.  Any goroutine (an HTTP or websocket handler) borrows  *)
(* and returns services; m.mu covers the count only.  The call of Start or *)
(* Stop that the count asks for is made after the unlock, so it is a step  *)
(* of its own and calls of other goroutines may fall before it.            *)
(*                                                                         *)
(* Of a service, BaseWorker gives here what the API calls decide: whether  *)
(* it is wanted and whether its loop goroutine lives.                      *)
(***************************************************************************)
EXTENDS Integers, Sequences, FiniteSets

CONSTANTS
  Services,  \* the registered services
  Order,     \* m.order: the services in the order of their registration
  Video,     \* the services named "videoqueue" (at most one)
  Clients    \* goroutines that use the manager

ASSUME ClientsAssumption == IsFiniteSet(Clients)
ASSUME OrderAssumption ==
  /\ Order \in Seq(Services) /\ Order # <<>>
  /\ \A s \in Services : \E i \in 1..Len(Order) : Order[i] = s
ASSUME VideoAssumption == Video \subseteq Services

VARIABLES
  refs,     \* m.refs
  holds,    \* the services each client has borrowed and not returned
  call,     \* the API call each client still owes: its kind and services
  wanted,   \* w.wanted of each service
  loop,     \* the loop of each service: "none", "live" or "cancelled"
  videoOn,  \* q.VideoEnabledField of the video queue
  main,     \* where the main goroutine is, "serve" until Shutdown is called
  left,     \* how many services the current pass of Shutdown has left
  overlap,  \* history: two manager calls on the service were open at once
  pinned,   \* history: Restart or SetVideoEnabled was called on the service
  late,     \* history: a service was started or restarted during Shutdown
  gaveUp    \* history: Shutdown stopped waiting for a loop

vars == <<refs, holds, call, wanted, loop, videoOn, main, left, overlap,
          pinned, late, gaveUp>>
services == <<wanted, loop>>
history  == <<overlap, pinned, late, gaveUp>>

Kinds == {"none", "start", "stop", "stopIfRunning", "restart"}
NoCall == [kind |-> "none", svcs |-> <<>>]
CallOf(kind, s) == [kind |-> kind, svcs |-> <<s>>]

Idle(c) == call[c] = NoCall

(* Client c still owes service s the Start or Stop its count asked for.    *)
Owes(c, s) == call[c].kind \in {"start", "stop"} /\ Head(call[c].svcs) = s

Quiet(s) == \A c \in Clients : ~Owes(c, s)

Init ==
  /\ refs = [s \in Services |-> 0]
  /\ holds = [c \in Clients |-> {}]
  /\ call = [c \in Clients |-> NoCall]
  /\ wanted = [s \in Services |-> FALSE]
  /\ loop = [s \in Services |-> "none"]
  /\ videoOn = FALSE
  /\ main = "serve"
  /\ left = 0
  /\ overlap = [s \in Services |-> FALSE]
  /\ pinned = [s \in Services |-> FALSE]
  /\ late = FALSE
  /\ gaveUp = FALSE

-----------------------------------------------------------------------------
(* What the calls do to a service (BaseWorker).                            *)

CallStart(s) ==
  /\ wanted' = [wanted EXCEPT ![s] = TRUE]
  /\ loop' = [loop EXCEPT ![s] = IF @ = "none" THEN "live" ELSE @]

CallStop(s) ==
  /\ wanted' = [wanted EXCEPT ![s] = FALSE]
  /\ UNCHANGED loop

(* Mutant of CallShutdown. *)
ShutdownIsStop(s) == CallStop(s)

CallShutdown(s) ==
  /\ wanted' = [wanted EXCEPT ![s] = FALSE]
  /\ loop' = [loop EXCEPT ![s] = IF @ = "live" THEN "cancelled" ELSE @]

(* A cancelled loop runs WorkerStop and ends.                              *)
LoopEnds(s) ==
  /\ loop[s] = "cancelled"
  /\ loop' = [loop EXCEPT ![s] = "none"]
  /\ UNCHANGED <<refs, holds, call, wanted, videoOn, main, left, history>>

-----------------------------------------------------------------------------
(* The manager's operations, under m.mu.                                   *)

NoteOverlap(s) ==
  overlap' = [overlap EXCEPT ![s] = @ \/ ~Quiet(s)]

Borrow(c, s) ==
  /\ Idle(c)
  /\ s \notin holds[c]
  /\ refs' = [refs EXCEPT ![s] = @ + 1]
  /\ holds' = [holds EXCEPT ![c] = @ \cup {s}]
  /\ call' = IF refs'[s] = 1 THEN [call EXCEPT ![c] = CallOf("start", s)]
                             ELSE call
  /\ NoteOverlap(s)
  /\ UNCHANGED <<services, videoOn, main, left, pinned, late, gaveUp>>

(* Mutant of KeepVideoQueueRunning. *)
KeepEverything(s) == TRUE

KeepVideoQueueRunning(s) == s \in Video /\ videoOn

(* Callers return what they borrowed; a count of 0 is left alone.          *)
MayReturn(c, s) == Idle(c) /\ s \in holds[c] /\ refs[s] > 0

Return(c, s) ==
  /\ MayReturn(c, s)
  /\ refs' = [refs EXCEPT ![s] = @ - 1]
  /\ holds' = [holds EXCEPT ![c] = @ \ {s}]
  /\ call' = IF refs'[s] = 0 /\ ~KeepVideoQueueRunning(s)
             THEN [call EXCEPT ![c] = CallOf("stop", s)]
             ELSE call
  /\ NoteOverlap(s)
  /\ UNCHANGED <<services, videoOn, main, left, pinned, late, gaveUp>>

(* The names and services are copied under m.mu, then restarted in order.  *)
RestartAll(c) ==
  /\ Idle(c)
  /\ call' = [call EXCEPT ![c] = [kind |-> "restart", svcs |-> Order]]
  /\ UNCHANGED <<refs, holds, services, videoOn, main, left, history>>

(* SetVideoEnabled is not the manager's, but decides what Return does.     *)
SetVideoEnabled(c, s) ==
  /\ Idle(c)
  /\ s \in Video
  /\ videoOn' = ~videoOn
  /\ pinned' = [pinned EXCEPT ![s] = TRUE]
  /\ call' = [call EXCEPT ![c] =
                CallOf(IF videoOn' THEN "restart" ELSE "stopIfRunning", s)]
  /\ UNCHANGED <<refs, holds, services, main, left, overlap, late, gaveUp>>

-----------------------------------------------------------------------------
(* The calls made after the unlock.                                        *)

LateIf(b) == late' = (late \/ (b /\ main # "serve"))

IssueStart(c) ==
  /\ call[c].kind = "start"
  /\ CallStart(Head(call[c].svcs))
  /\ call' = [call EXCEPT ![c] = NoCall]
  /\ LateIf(TRUE)
  /\ UNCHANGED <<refs, holds, videoOn, main, left, overlap, pinned, gaveUp>>

IssueStop(c) ==
  /\ call[c].kind \in {"stop", "stopIfRunning"}
  /\ CallStop(Head(call[c].svcs))
  /\ call' = [call EXCEPT ![c] = NoCall]
  /\ UNCHANGED <<refs, holds, videoOn, main, left, history>>

(* A video queue that is not in state Running is not stopped.              *)
SkipStop(c) ==
  /\ call[c].kind = "stopIfRunning"
  /\ call' = [call EXCEPT ![c] = NoCall]
  /\ UNCHANGED <<refs, holds, services, videoOn, main, left, history>>

IssueRestart(c) ==
  /\ call[c].kind = "restart"
  /\ CallStart(Head(call[c].svcs))
  /\ pinned' = [pinned EXCEPT ![Head(call[c].svcs)] = TRUE]
  /\ call' = [call EXCEPT ![c] =
                IF Len(@.svcs) = 1 THEN NoCall
                ELSE [kind |-> "restart", svcs |-> Tail(@.svcs)]]
  /\ LateIf(TRUE)
  /\ UNCHANGED <<refs, holds, videoOn, main, left, overlap, gaveUp>>

-----------------------------------------------------------------------------
(* Shutdown, by the main goroutine while handlers may still be running:    *)
(* one pass of Stop, one of Shutdown, both in reverse order.               *)

Shutdown ==
  /\ main = "serve"
  /\ main' = "stopping"
  /\ left' = Len(Order)
  /\ UNCHANGED <<refs, holds, call, services, videoOn, history>>

StopNext ==
  /\ main = "stopping"
  /\ IF left = 0
     THEN main' = "joining" /\ left' = Len(Order) /\ UNCHANGED services
     ELSE CallStop(Order[left]) /\ left' = left - 1 /\ UNCHANGED main
  /\ UNCHANGED <<refs, holds, call, videoOn, history>>

ShutdownNext ==
  /\ main = "joining"
  /\ IF left = 0
     THEN main' = "done" /\ UNCHANGED services
     ELSE CallShutdown(Order[left]) /\ main' = "waiting"
  /\ UNCHANGED <<refs, holds, call, videoOn, left, history>>

(* The wait ends with the loop, or after workerShutdownTimeout.            *)
Joined ==
  /\ main = "waiting"
  /\ loop[Order[left]] # "cancelled"
  /\ main' = "joining"
  /\ left' = left - 1
  /\ UNCHANGED <<refs, holds, call, services, videoOn, history>>

GiveUp ==
  /\ main = "waiting"
  /\ loop[Order[left]] = "cancelled"
  /\ main' = "joining"
  /\ left' = left - 1
  /\ gaveUp' = TRUE
  /\ UNCHANGED <<refs, holds, call, services, videoOn, overlap, pinned, late>>

-----------------------------------------------------------------------------

ClientStep(c) ==
  \/ \E s \in Services : Borrow(c, s) \/ Return(c, s) \/ SetVideoEnabled(c, s)
  \/ RestartAll(c)
  \/ IssueStart(c)
  \/ IssueStop(c)
  \/ SkipStop(c)
  \/ IssueRestart(c)

MainStep == Shutdown \/ StopNext \/ ShutdownNext \/ Joined \/ GiveUp

Next ==
  \/ \E c \in Clients : ClientStep(c)
  \/ MainStep
  \/ \E s \in Services : LoopEnds(s)

Spec == Init /\ [][Next]_vars

-----------------------------------------------------------------------------

TypeOK ==
  /\ refs \in [Services -> Nat]
  /\ holds \in [Clients -> SUBSET Services]
  /\ call \in [Clients -> [kind : Kinds, svcs : Seq(Services)]]
  /\ \A c \in Clients : call[c].kind # "none" => call[c].svcs # <<>>
  /\ wanted \in [Services -> BOOLEAN]
  /\ loop \in [Services -> {"none", "live", "cancelled"}]
  /\ videoOn \in BOOLEAN
  /\ main \in {"serve", "stopping", "joining", "waiting", "done"}
  /\ left \in 0..Len(Order)
  /\ main = "waiting" => left > 0
  /\ overlap \in [Services -> BOOLEAN]
  /\ pinned \in [Services -> BOOLEAN]
  /\ late \in BOOLEAN
  /\ gaveUp \in BOOLEAN

Holders(s) == {c \in Clients : s \in holds[c]}

(* The count of a service is the number of those who hold it, so a service *)
(* is never stopped by the count of somebody else's borrow.                *)
RefsExact == \A s \in Services : refs[s] = Cardinality(Holders(s))

(***************************************************************************)
(* When Borrow and Return do what their comments say: while the calls on   *)
(* a service never overlapped and nobody restarted it past the manager, a  *)
(* service without an open call is wanted if and only if somebody holds    *)
(* it (or it is the video queue, kept for live video).                     *)
(***************************************************************************)
SerialUseIsCounted ==
  \A s \in Services :
    main = "serve" /\ Quiet(s) /\ ~overlap[s] /\ ~pinned[s] =>
      /\ refs[s] > 0 => wanted[s]
      /\ wanted[s] => refs[s] > 0 \/ s \in Video

(***************************************************************************)
(* Shutdown leaves no loop behind that it did not give up on: unless a     *)
(* handler starts a service while Shutdown runs, or a hook takes longer    *)
(* than the wait, every service goroutine is gone when it returns.         *)
(***************************************************************************)
ShutdownLeavesNone ==
  main = "done" /\ ~late /\ ~gaveUp => \A s \in Services : loop[s] = "none"

(***************************************************************************)
(* "Borrow increments the reference count and auto-starts on transition    *)
(* 0->1": a service somebody holds, and no call on which is open, is       *)
(* wanted.  The code does not keep this: a Stop owed by a Return can       *)
(* arrive after the Start of the Borrow that followed it.                  *)
(***************************************************************************)
BorrowedIsWanted ==
  \A s \in Services :
    main = "serve" /\ ~pinned[s] /\ Quiet(s) /\ refs[s] > 0 => wanted[s]

=============================================================================
