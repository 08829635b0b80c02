------------------------ MODULE FilamentSwap_proofs ------------------------
(***************************************************************************)
(* Proofs about FilamentSwap.  Two swaps may pass the conflict check and   *)
(* the loser's goroutines go on, so what keeps the record right is that    *)
(* each update names the swap it is about.                                 *)
(***************************************************************************)
EXTENDS FilamentSwap, TLAPS

(* What an update does to the record.                                      *)
LEMMA UpdateKeeps ==
  ASSUME TypeOK, NEW t, NEW p \in Phases, swapStateUpdate(t, p)
  PROVE  /\ swap' \in Swapped
         /\ swap'.token = swap.token /\ swap'.mode = swap.mode
         /\ swap'.phase = swap.phase \/ (swap'.phase = p /\ swap.token = t)
BY DEF TypeOK, swapStateUpdate, swapTokenMatches, Swapped

LEMMA ClearKeeps ==
  ASSUME TypeOK, NEW t, swapStateClear(t)
  PROVE  /\ swap' \in Swapped
         /\ swap' = swap \/ swap' = None
BY DEF TypeOK, swapStateClear, swapTokenMatches, Swapped, None, Modes, Phases

LEMMA AnswersKeeps ==
  ASSUME TypeOK, NEW r \in Requests, Answers(r)
  PROVE  request' \in [Requests -> Asked]
BY DEF TypeOK, Answers, Asked, Idle, Modes, Steps

LEMMA BecomesKeeps ==
  ASSUME TypeOK, NEW r \in Requests, NEW pc \in Steps, Becomes(r, pc)
  PROVE  request' \in [Requests -> Asked]
BY DEF TypeOK, Becomes, Asked

LEMMA LaunchKeeps ==
  ASSUME TypeOK, NEW r \in Requests, NEW kind \in Kinds, Launch(r, kind)
  PROVE  stages' \subseteq Goroutines
BY DEF TypeOK, Launch, Asked, Goroutines

LEMMA GoesKeeps ==
  ASSUME TypeOK, NEW s \in stages, NEW pc \in {"begin", "wait", "send"}, Goes(s, pc)
  PROVE  stages' \subseteq Goroutines
BY DEF TypeOK, Goes, Goroutines

(* One step of a request or of a stage keeps everything typed.             *)
LEMMA RequestTyped ==
  ASSUME TypeOK, NEW r \in Requests, Serves(r) \/ Asks(r)
  PROVE  TypeOK'
<1>1. CASE SwapStart(r)
  BY <1>1, SwapAssumption DEF SwapStart, TypeOK, Asked, Steps, Swaps
<1>2. CASE SwapRegister(r)
  <2>1. swap' \in Swapped
    BY <1>2 DEF SwapRegister, TypeOK, Asked, Swapped, Phases, activePhases
  <2>2. request' \in [Requests -> Asked]
    BY <1>2, BecomesKeeps DEF SwapRegister, Steps
  <2> QED BY <1>2, <2>1, <2>2 DEF SwapRegister, TypeOK
<1>3. CASE SwapNotReady(r) \/ SwapFinish(r)
  <2>1. swap' \in Swapped /\ request' \in [Requests -> Asked]
    BY <1>3, ClearKeeps, AnswersKeeps DEF SwapNotReady, SwapFinish
  <2> QED BY <1>3, <2>1 DEF SwapNotReady, SwapFinish, TypeOK
<1>4. CASE SwapReady(r)
  <2>1. request' \in [Requests -> Asked]
    BY <1>4, AnswersKeeps DEF SwapReady
  <2>2. stages' \subseteq Goroutines
    BY <1>4, LaunchKeeps DEF SwapReady, Kinds, TypeOK
  <2> QED BY <1>4, <2>1, <2>2 DEF SwapReady, TypeOK
<1>5. CASE SwapConfirm(r)
  <2>1. request' \in [Requests -> Asked]
    BY <1>5 DEF SwapConfirm, TypeOK, Asked, Swapped, Steps
  <2> QED BY <1>5, <2>1 DEF SwapConfirm, TypeOK
<1>6. CASE SwapHeating(r)
  <2>1. swap' \in Swapped /\ request' \in [Requests -> Asked]
    BY <1>6, UpdateKeeps, BecomesKeeps DEF SwapHeating, Phases, activePhases, Steps
  <2> QED BY <1>6, <2>1 DEF SwapHeating, TypeOK
<1>7. CASE SwapVerifyFails(r)
  <2>1. swap' \in Swapped /\ request' \in [Requests -> Asked]
    BY <1>7, UpdateKeeps, AnswersKeeps DEF SwapVerifyFails, Phases
  <2> QED BY <1>7, <2>1 DEF SwapVerifyFails, TypeOK
<1>8. CASE SwapVerify(r)
  <2>1. request' \in [Requests -> Asked] /\ stages' \subseteq Goroutines
    BY <1>8, AnswersKeeps, LaunchKeeps DEF SwapVerify, Kinds
  <2> QED BY <1>8, <2>1 DEF SwapVerify, TypeOK
<1>9. CASE SwapCancel(r)
  BY <1>9 DEF SwapCancel, TypeOK, None, Swapped, Modes, Phases
<1> QED BY <1>1, <1>2, <1>3, <1>4, <1>5, <1>6, <1>7, <1>8, <1>9 DEF Serves, Asks

LEMMA StageTyped ==
  ASSUME TypeOK, NEW s \in stages, Stage(s)
  PROVE  TypeOK'
<1>1. s.token \in Swaps \cup {0} /\ s.kind \in Kinds
  BY DEF TypeOK, Goroutines
<1>2. Heating(s.kind) \in Phases /\ Moving(s.kind) \in Phases
  BY DEF Heating, Moving, Phases, activePhases
<1>3. Ends(s) => stages' \subseteq Goroutines
  BY DEF Ends, TypeOK
<1>4. CASE StageGone(s)
  BY <1>3, <1>4 DEF StageGone, TypeOK
<1>5. CASE StageHeat(s)
  <2>1. swap' \in Swapped /\ stages' \subseteq Goroutines
    BY <1>2, <1>5, UpdateKeeps, GoesKeeps DEF StageHeat
  <2> QED BY <1>5, <2>1 DEF StageHeat, TypeOK
<1>6. CASE StageMove(s)
  <2>1. swap' \in Swapped /\ stages' \subseteq Goroutines
    BY <1>2, <1>6, UpdateKeeps, GoesKeeps DEF StageMove
  <2> QED BY <1>6, <2>1 DEF StageMove, TypeOK
<1>7. CASE StageSend(s)
  <2>1. swap' \in Swapped
    BY <1>7, UpdateKeeps, ClearKeeps DEF StageSend, Phases
  <2>2. unloaded' \subseteq Swaps \cup {0}
    BY <1>1, <1>7 DEF StageSend, TypeOK
  <2> QED BY <1>3, <1>7, <2>1, <2>2 DEF StageSend, TypeOK
<1>8. CASE StageFails(s)
  <2>1. swap' \in Swapped
    BY <1>8, UpdateKeeps DEF StageFails, Phases
  <2> QED BY <1>3, <1>8, <2>1 DEF StageFails, TypeOK
<1> QED BY <1>4, <1>5, <1>6, <1>7, <1>8 DEF Stage

LEMMA StepTyped == TypeOK /\ [Next]_vars => TypeOK'
<1> SUFFICES ASSUME TypeOK, [Next]_vars PROVE TypeOK'
  OBVIOUS
<1>1. CASE UNCHANGED vars
  BY <1>1 DEF vars, TypeOK
<1> QED BY <1>1, RequestTyped, StageTyped DEF Next

(* Every variable keeps its type, for any requests and any number of swaps *)
(* (filament_service.go: filamentSwapState and its goroutines).            *)
THEOREM TypeCorrect == Spec => []TypeOK
<1>1. Init => TypeOK
  BY SwapAssumption DEF Init, TypeOK, None, Idle, Swapped, Asked, Modes, Phases, Steps
<1> QED BY <1>1, StepTyped, PTL DEF Spec

(* An update that sets no await_manual_swap, or only for a swap whose      *)
(* unloading was sent, keeps the promise.                                  *)
LEMMA UpdateHonest ==
  ASSUME TypeOK, AwaitMeansUnloaded, NEW t, NEW p \in Phases, swapStateUpdate(t, p),
         unloaded \subseteq unloaded', p = "await_manual_swap" => t \in unloaded'
  PROVE  AwaitMeansUnloaded'
BY UpdateKeeps DEF AwaitMeansUnloaded

LEMMA ClearHonest ==
  ASSUME TypeOK, AwaitMeansUnloaded, NEW t, swapStateClear(t), unloaded \subseteq unloaded'
  PROVE  AwaitMeansUnloaded'
BY ClearKeeps DEF AwaitMeansUnloaded, None

LEMMA StepHonest == TypeOK /\ AwaitMeansUnloaded /\ [Next]_vars => AwaitMeansUnloaded'
<1> SUFFICES ASSUME TypeOK, AwaitMeansUnloaded, [Next]_vars PROVE AwaitMeansUnloaded'
  OBVIOUS
<1>1. ASSUME NEW r \in Requests, Serves(r) \/ Asks(r) PROVE AwaitMeansUnloaded'
  <2>1. CASE SwapRegister(r)
    BY <2>1 DEF SwapRegister, AwaitMeansUnloaded, TypeOK, Asked
  <2>2. CASE SwapNotReady(r) \/ SwapFinish(r)
    BY <2>2, ClearHonest DEF SwapNotReady, SwapFinish
  <2>3. CASE SwapHeating(r) \/ SwapVerifyFails(r)
    BY <2>3, UpdateHonest DEF SwapHeating, SwapVerifyFails, Phases, activePhases
  <2>4. CASE SwapCancel(r)
    BY <2>4 DEF SwapCancel, AwaitMeansUnloaded, None
  <2>5. CASE SwapStart(r) \/ SwapReady(r) \/ SwapConfirm(r) \/ SwapVerify(r)
    BY <2>5 DEF SwapStart, SwapReady, SwapConfirm, SwapVerify, AwaitMeansUnloaded
  <2> QED BY <1>1, <2>1, <2>2, <2>3, <2>4, <2>5 DEF Serves, Asks
<1>2. ASSUME NEW s \in stages, Stage(s) PROVE AwaitMeansUnloaded'
  <2>1. Heating(s.kind) \in activePhases /\ Moving(s.kind) \in activePhases
    BY DEF Heating, Moving, activePhases
  <2>2. CASE StageGone(s)
    BY <2>2 DEF StageGone, AwaitMeansUnloaded
  <2>3. CASE StageHeat(s) \/ StageMove(s) \/ StageFails(s)
    BY <2>1, <2>3, UpdateHonest DEF StageHeat, StageMove, StageFails, Phases, activePhases
  <2>4. CASE StageSend(s)
    <3>1. CASE s.kind = "unload"
      BY <2>4, <3>1, UpdateHonest DEF StageSend, Phases
    <3>2. CASE s.kind # "unload"
      BY <2>4, <3>2, ClearHonest DEF StageSend
    <3> QED BY <3>1, <3>2
  <2> QED BY <1>2, <2>2, <2>3, <2>4 DEF Stage
<1>3. CASE UNCHANGED vars
  BY <1>3 DEF vars, AwaitMeansUnloaded
<1> QED BY <1>1, <1>2, <1>3 DEF Next

(* However many swaps and requests there are, and whichever swap lost the  *)
(* race for the record, a legacy swap asks for the filament to be taken    *)
(* out only after its own unloading was sent.                              *)
THEOREM AwaitMeansUnloadedHolds == Spec => []AwaitMeansUnloaded
<1>1. Init => AwaitMeansUnloaded
  BY DEF Init, AwaitMeansUnloaded, None
<1> QED BY <1>1, TypeCorrect, StepHonest, PTL DEF Spec
=============================================================================
