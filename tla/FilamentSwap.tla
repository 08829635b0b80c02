---- MODULE FilamentSwap ----
(*****************************************************************************)
(* The filament service's guided swap (web/handler/filament_service.go).     *)
(* Its one record, filamentSwapValue, is shared by every request and by the  *)
(* goroutines that unload the old filament and load the new one.  The        *)
(* handlers lock filamentSwapMu for each look at the record and let it go    *)
(* between two looks; a token says whose swap an update is about.            *)
(*****************************************************************************)
EXTENDS Naturals

CONSTANTS
    Requests,  \* the HTTP requests that may be under way at once
    MaxSwaps   \* bound: swaps started

ASSUME SwapAssumption == MaxSwaps \in Nat

Swaps == 1..MaxSwaps
None == [token |-> 0, mode |-> "manual", phase |-> "none"]

VARIABLES
    swap,     \* filamentSwapValue, None when nil
    request,  \* request -> [pc, token, mode]
    stages,   \* the goroutines: [token, kind, pc, by]
    started,  \* tokens handed out so far
    unloaded  \* swaps whose unload G-code was sent

vars == <<swap, request, stages, started, unloaded>>

Modes == {"manual", "legacy"}
Kinds == {"unload", "load"}
activePhases == {"heating_unload", "unloading", "heating_load", "loading"}
Phases == activePhases \cup {"none", "await_manual_swap", "error"}
Idle == [pc |-> "idle", token |-> 0, mode |-> "manual"]

Swapped == [token : Swaps \cup {0}, mode : Modes, phase : Phases]
Steps == {"idle", "register", "ready", "confirm", "verify", "finish"}
Asked == [pc : Steps, token : Swaps \cup {0}, mode : Modes]
Goroutines == [token : Swaps \cup {0}, kind : Kinds, pc : {"begin", "wait", "send"}, by : Requests]

TypeOK ==
    /\ swap \in Swapped
    /\ request \in [Requests -> Asked]
    /\ stages \subseteq Goroutines
    /\ started \in 0..MaxSwaps /\ unloaded \subseteq Swaps \cup {0}

Init ==
    /\ swap = None /\ request = [r \in Requests |-> Idle] /\ stages = {}
    /\ started = 0 /\ unloaded = {}

Active == swap.phase \in activePhases

---------------------------------------------------------------------------
(* The record: updates and the clearing apply to the swap they name only.    *)

(* Mutant of swapTokenMatches: whatever swap is there. *)
SwapThere(token) == swap # None

swapTokenMatches(token) == swap # None /\ swap.token = token

swapStateUpdate(token, phase) ==
    swap' = IF swapTokenMatches(token) THEN [swap EXCEPT !.phase = phase] ELSE swap

swapStateClear(token) ==
    swap' = IF swapTokenMatches(token) THEN None ELSE swap

Becomes(r, pc) == request' = [request EXCEPT ![r].pc = pc]
Answers(r) == request' = [request EXCEPT ![r] = Idle]

(* go runLegacySwapUnload, go runLegacySwapLoad: the model lets a request     *)
(* start one goroutine of a kind for a swap at a time.                        *)
Launch(r, kind) ==
    LET s == [token |-> request[r].token, kind |-> kind, pc |-> "begin", by |-> r]
    IN  /\ \A t \in stages : t.by = r /\ t.kind = kind => t.token # s.token
        /\ stages' = stages \cup {s}

---------------------------------------------------------------------------
(* FilamentServiceSwapStart                                                  *)

SwapStart(r) ==
    /\ request[r] = Idle /\ started < MaxSwaps
    /\ swap = None
    /\ started' = started + 1
    /\ \E mode \in Modes :
         request' = [request EXCEPT ![r] = [pc |-> "register", token |-> started', mode |-> mode]]
    /\ UNCHANGED <<swap, stages, unloaded>>

SwapRegister(r) ==
    /\ request[r].pc = "register"
    /\ swap' = [token |-> request[r].token, mode |-> request[r].mode,
                phase |-> IF request[r].mode = "legacy" THEN "heating_unload" ELSE "await_manual_swap"]
    /\ Becomes(r, "ready")
    /\ UNCHANGED <<stages, started, unloaded>>

(* assertFilamentServiceReady: no MQTT, or a print is active; or the preheat
   G-code of a manual swap cannot be sent. *)
SwapNotReady(r) ==
    /\ request[r].pc = "ready"
    /\ swapStateClear(request[r].token) /\ Answers(r)
    /\ UNCHANGED <<stages, started, unloaded>>

SwapReady(r) ==
    /\ request[r].pc = "ready"
    /\ IF request[r].mode = "legacy" THEN Launch(r, "unload") ELSE UNCHANGED stages
    /\ Answers(r)
    /\ UNCHANGED <<swap, started, unloaded>>

---------------------------------------------------------------------------
(* FilamentServiceSwapConfirm, with or without a token, and SwapCancel.      *)

SwapConfirm(r) ==
    /\ request[r] = Idle
    /\ swap # None /\ ~Active
    /\ request' = [request EXCEPT ![r] = [token |-> swap.token, mode |-> swap.mode,
                                          pc |-> IF swap.mode = "legacy" THEN "confirm" ELSE "finish"]]
    /\ UNCHANGED <<swap, stages, started, unloaded>>

SwapFinish(r) ==
    /\ request[r].pc = "finish"
    /\ swapStateClear(request[r].token) /\ Answers(r)
    /\ UNCHANGED <<stages, started, unloaded>>

SwapHeating(r) ==
    /\ request[r].pc = "confirm"
    /\ swapStateUpdate(request[r].token, "heating_load") /\ Becomes(r, "verify")
    /\ UNCHANGED <<stages, started, unloaded>>

SwapVerifyFails(r) ==
    /\ request[r].pc = "verify"
    /\ swapStateUpdate(request[r].token, "error") /\ Answers(r)
    /\ UNCHANGED <<stages, started, unloaded>>

SwapVerify(r) ==
    /\ request[r].pc = "verify"
    /\ Launch(r, "load") /\ Answers(r)
    /\ UNCHANGED <<swap, started, unloaded>>

SwapCancel(r) ==
    /\ request[r] = Idle
    /\ swap # None /\ ~Active
    /\ swap' = None
    /\ UNCHANGED <<request, stages, started, unloaded>>

---------------------------------------------------------------------------
(* runLegacySwapUnload and runLegacySwapLoad                                 *)

Goes(s, pc) == stages' = (stages \ {s}) \cup {[s EXCEPT !.pc = pc]}
Ends(s) == stages' = stages \ {s}

Heating(kind) == IF kind = "unload" THEN "heating_unload" ELSE "heating_load"
Moving(kind) == IF kind = "unload" THEN "unloading" ELSE "loading"

(* The swap is gone: nothing is done for it. *)
StageGone(s) ==
    /\ s.pc = "begin" /\ ~swapTokenMatches(s.token)
    /\ Ends(s)
    /\ UNCHANGED <<swap, request, started, unloaded>>

StageHeat(s) ==
    /\ s.pc = "begin" /\ swapTokenMatches(s.token)
    /\ swapStateUpdate(s.token, Heating(s.kind)) /\ Goes(s, "wait")
    /\ UNCHANGED <<request, started, unloaded>>

(* Hot already, or waitForNozzle saw the temperature come. *)
StageMove(s) ==
    /\ \/ s.pc = "begin" /\ swapTokenMatches(s.token)
       \/ s.pc = "wait"
    /\ swapStateUpdate(s.token, Moving(s.kind)) /\ Goes(s, "send")
    /\ UNCHANGED <<request, started, unloaded>>

StageSend(s) ==
    /\ s.pc = "send" /\ Ends(s)
    /\ IF s.kind = "unload"
       THEN unloaded' = unloaded \cup {s.token} /\ swapStateUpdate(s.token, "await_manual_swap")
       ELSE unloaded' = unloaded /\ swapStateClear(s.token)
    /\ UNCHANGED <<request, started>>

(* Mutant of StageFails: the failure is logged, not recorded. *)
StageFailsSilently(s) ==
    /\ \/ s.pc = "begin" /\ swapTokenMatches(s.token)
       \/ s.pc \in {"wait", "send"}
    /\ Ends(s)
    /\ UNCHANGED <<swap, request, started, unloaded>>

(* MQTT or the heater let it down (waitForNozzle gives up after
   filamentServiceHeatTimeoutS), or a print has begun. *)
StageFails(s) ==
    /\ \/ s.pc = "begin" /\ swapTokenMatches(s.token)
       \/ s.pc \in {"wait", "send"}
    /\ swapStateUpdate(s.token, "error") /\ Ends(s)
    /\ UNCHANGED <<request, started, unloaded>>

---------------------------------------------------------------------------
Serves(r) ==
    \/ SwapRegister(r) \/ SwapNotReady(r) \/ SwapReady(r)
    \/ SwapFinish(r) \/ SwapHeating(r) \/ SwapVerifyFails(r) \/ SwapVerify(r)

Asks(r) == SwapStart(r) \/ SwapConfirm(r) \/ SwapCancel(r)

Stage(s) ==
    \/ StageGone(s) \/ StageHeat(s) \/ StageMove(s) \/ StageSend(s) \/ StageFails(s)

Next ==
    \/ \E r \in Requests : Serves(r) \/ Asks(r)
    \/ \E s \in stages : Stage(s)

StageOf(token) == \E s \in stages : s.token = token /\ Stage(s)

(* Requests and goroutines run; of the goroutines of one swap it is enough   *)
(* that one does.                                                            *)
Fairness ==
    /\ \A r \in Requests : WF_vars(Serves(r))
    /\ \A token \in Swaps : WF_vars(StageOf(token))

Spec == Init /\ [][Next]_vars /\ Fairness

---------------------------------------------------------------------------
(* The user is asked to take the old filament out only when the printer was  *)
(* told to let go of it: a swap that lost the race for the record never      *)
(* moves the winner's phase on.                                              *)
AwaitMeansUnloaded ==
    swap.mode = "legacy" /\ swap.phase = "await_manual_swap" => swap.token \in unloaded

(* A running stage always ends, in success, in an error or by the swap's     *)
(* end: confirm and cancel, which a running stage locks out, open again.     *)
StageEnds == Active ~> ~Active

====
