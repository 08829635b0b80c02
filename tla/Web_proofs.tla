----------------------------- MODULE Web_proofs -----------------------------
(***************************************************************************)
(* Proofs about what the handlers of the web server share.                 *)
(*                                                                         *)
(* ServiceManager, for any number of services and clients: what a client   *)
(* owes the manager ties the counts to what was asked of the services.     *)
(*                                                                         *)
(* ConfigStore: nobody else writes between a request's read of the file    *)
(* and its write, because both are under one hold of the lock.             *)
(*                                                                         *)
(* ZOffset: a move that is alone knows where the printer is, before it and *)
(* after it, and so what a report may say; the only request loses no       *)
(* wakeup either.                                                          *)
(***************************************************************************)
EXTENDS MCWeb, FiniteSetTheorems, SequenceTheorems, TLAPS

-----------------------------------------------------------------------------
(* ServiceManager.                                                         *)

(* While the calls on a service have not overlapped, at most one client    *)
(* owes it a call, and the count still says what that call was owed for.   *)
OneOwed(s) ==
  \A c, d \in Clients : Owes(c, s) /\ Owes(d, s) => c = d

OwedMatchesCount(s) ==
  \A c \in Clients : Owes(c, s) =>
    IF call[c].kind = "start" THEN refs[s] > 0 ELSE refs[s] = 0

SerialInv ==
  \A s \in Services :
    main = "serve" /\ ~overlap[s] /\ ~pinned[s] =>
      /\ OneOwed(s)
      /\ OwedMatchesCount(s)
      /\ Quiet(s) /\ refs[s] > 0 => wanted[s]
      /\ Quiet(s) /\ wanted[s] => refs[s] > 0 \/ s \in Video

(* Only SetVideoEnabled owes a conditional stop, and it has left its mark. *)
CondStopPinned ==
  \A c \in Clients :
    call[c].kind = "stopIfRunning" => pinned[Head(call[c].svcs)]

IInv == TypeOK /\ SerialInv /\ CondStopPinned

LEMMA OrderType ==
  /\ Order \in Seq(Services)
  /\ Order # <<>>
  /\ Len(Order) \in Nat
BY OrderAssumption

LEMMA CallTyped ==
  ASSUME NEW k \in Kinds, NEW q \in Seq(Services)
  PROVE  [kind |-> k, svcs |-> q] \in [kind : Kinds, svcs : Seq(Services)]
OBVIOUS

CallRecords == [kind : Kinds, svcs : Seq(Services)]

CallsTyped ==
  /\ call \in [Clients -> CallRecords]
  /\ \A c \in Clients : call[c].kind # "none" => call[c].svcs # <<>>

(* What a client owes is replaced by a well-formed call.                   *)
LEMMA SetCall ==
  ASSUME CallsTyped, NEW c \in Clients, NEW q \in CallRecords,
         q.kind # "none" => q.svcs # <<>>,
         call' = [call EXCEPT ![c] = q]
  PROVE  CallsTyped'
<1>1. call' \in [Clients -> CallRecords]
  BY DEF CallsTyped
<1>2. \A d \in Clients : call'[d] = IF d = c THEN q ELSE call[d]
  BY DEF CallsTyped
<1> QED BY <1>1, <1>2 DEF CallsTyped

LEMMA CallOfTyped ==
  ASSUME NEW k \in Kinds, NEW s \in Services
  PROVE  CallOf(k, s) \in CallRecords /\ CallOf(k, s).svcs # <<>>
BY CallTyped DEF CallOf, CallRecords

LEMMA TypeCorrect == Spec => []TypeOK
<1>1. Init => TypeOK
  <2> SUFFICES ASSUME Init PROVE TypeOK
    OBVIOUS
  <2>1. NoCall \in [kind : Kinds, svcs : Seq(Services)]
    BY CallTyped DEF NoCall, Kinds
  <2>2. call \in [Clients -> [kind : Kinds, svcs : Seq(Services)]]
    BY <2>1 DEF Init
  <2>3. \A c \in Clients : call[c].kind = "none"
    BY DEF Init, NoCall
  <2>4. /\ overlap \in [Services -> BOOLEAN] /\ pinned \in [Services -> BOOLEAN]
        /\ wanted \in [Services -> BOOLEAN] /\ late \in BOOLEAN
        /\ gaveUp \in BOOLEAN /\ videoOn \in BOOLEAN
    BY Zenon DEF Init
  <2>5. refs \in [Services -> Nat] /\ left \in 0..Len(Order) /\ main = "serve"
    BY OrderType DEF Init
  <2>6. /\ holds \in [Clients -> SUBSET Services]
        /\ loop \in [Services -> {"none", "live", "cancelled"}]
    BY DEF Init
  <2> QED BY <2>2, <2>3, <2>4, <2>5, <2>6 DEF TypeOK
<1>2. TypeOK /\ [Next]_vars => TypeOK'
  <2> SUFFICES ASSUME TypeOK, [Next]_vars PROVE TypeOK'
    OBVIOUS
  <2>0. CallsTyped
    BY DEF TypeOK, CallsTyped, CallRecords
  <2>01. NoCall \in CallRecords /\ NoCall.kind = "none"
    BY CallTyped DEF NoCall, Kinds, CallRecords
  <2>02. ASSUME CallsTyped',
                refs' \in [Services -> Nat],
                holds' \in [Clients -> SUBSET Services],
                overlap' \in [Services -> BOOLEAN],
                pinned' \in [Services -> BOOLEAN],
                wanted' \in [Services -> BOOLEAN],
                loop' \in [Services -> {"none", "live", "cancelled"}],
                late' \in BOOLEAN, gaveUp' \in BOOLEAN, videoOn' \in BOOLEAN,
                main' \in {"serve", "stopping", "joining", "waiting", "done"},
                left' \in 0..Len(Order),
                main' = "waiting" => left' > 0
         PROVE  TypeOK'
    BY <2>02 DEF TypeOK, CallsTyped, CallRecords
  <2> USE OrderType
  <2>1. ASSUME NEW c \in Clients, NEW s \in Services, Borrow(c, s)
        PROVE TypeOK'
    <3>1. overlap' \in [Services -> BOOLEAN]
      BY <2>1, Zenon DEF TypeOK, Borrow, NoteOverlap
    <3>2. refs' \in [Services -> Nat] /\ holds' \in [Clients -> SUBSET Services]
      BY <2>1 DEF TypeOK, Borrow
    <3>3. call' = call \/ call' = [call EXCEPT ![c] = CallOf("start", s)]
      BY <2>1 DEF Borrow
    <3>4. CallsTyped'
      BY <2>0, <3>3, SetCall, CallOfTyped DEF Kinds, CallsTyped
    <3> QED BY <2>1, <2>02, <3>1, <3>2, <3>4 DEF TypeOK, Borrow, services
  <2>2. ASSUME NEW c \in Clients, NEW s \in Services, Return(c, s)
        PROVE TypeOK'
    <3>1. overlap' \in [Services -> BOOLEAN]
      BY <2>2, Zenon DEF TypeOK, Return, MayReturn, NoteOverlap
    <3>2. refs' \in [Services -> Nat] /\ holds' \in [Clients -> SUBSET Services]
      BY <2>2 DEF TypeOK, Return, MayReturn
    <3>3. call' = call \/ call' = [call EXCEPT ![c] = CallOf("stop", s)]
      BY <2>2 DEF Return, MayReturn
    <3>4. CallsTyped'
      BY <2>0, <3>3, SetCall, CallOfTyped DEF Kinds, CallsTyped
    <3> QED BY <2>2, <2>02, <3>1, <3>2, <3>4 DEF TypeOK, Return, MayReturn, services
  <2>3. ASSUME NEW c \in Clients, NEW s \in Services, SetVideoEnabled(c, s)
        PROVE TypeOK'
    <3>1. PICK k \in {"restart", "stopIfRunning"} :
             call' = [call EXCEPT ![c] = CallOf(k, s)]
      BY <2>3 DEF SetVideoEnabled
    <3>2. CallsTyped'
      BY <2>0, <3>1, SetCall, CallOfTyped DEF Kinds
    <3>3. videoOn' \in BOOLEAN /\ pinned' \in [Services -> BOOLEAN]
      BY <2>3, Zenon DEF TypeOK, SetVideoEnabled
    <3> QED BY <2>3, <2>02, <3>2, <3>3 DEF TypeOK, SetVideoEnabled, services
  <2>4. ASSUME NEW c \in Clients, RestartAll(c) PROVE TypeOK'
    <3>1. [kind |-> "restart", svcs |-> Order] \in CallRecords
      BY CallTyped DEF Kinds, CallRecords
    <3>2. CallsTyped'
      BY <2>0, <2>4, <3>1, SetCall DEF RestartAll
    <3> QED BY <2>4, <2>02, <3>2 DEF TypeOK, RestartAll, services, history
  <2>5. ASSUME NEW c \in Clients, IssueStart(c) \/ IssueRestart(c)
        PROVE TypeOK'
    <3>1. Head(call[c].svcs) \in Services /\ call[c].svcs \in Seq(Services)
      <4>1. call[c].kind # "none" /\ call[c].svcs \in Seq(Services)
        BY <2>5, <2>0 DEF CallsTyped, CallRecords, IssueStart, IssueRestart
      <4> QED BY <4>1, <2>0, HeadTailProperties DEF CallsTyped
    <3>2. CASE IssueStart(c)
      BY <2>0, <2>01, <3>2, SetCall DEF IssueStart, TypeOK, CallStart, CallsTyped,
         CallRecords, LateIf
    <3>3. CASE IssueRestart(c)
      <4>1. CallsTyped'
        <5> DEFINE q == IF Len(call[c].svcs) = 1 THEN NoCall
                        ELSE [kind |-> "restart", svcs |-> Tail(call[c].svcs)]
        <5>1. call[c].svcs # <<>>
          BY <2>0, <3>3 DEF CallsTyped, IssueRestart
        <5>2. Len(call[c].svcs) # 1 =>
                Tail(call[c].svcs) \in Seq(Services) /\ Tail(call[c].svcs) # <<>>
          <6>1. /\ Tail(call[c].svcs) \in Seq(Services)
                /\ Len(Tail(call[c].svcs)) = Len(call[c].svcs) - 1
            BY <3>1, <5>1, HeadTailProperties, Zenon
          <6>2. Len(call[c].svcs) \in Nat /\ Len(<<>>) = 0
            BY <3>1
          <6>3. ASSUME Tail(call[c].svcs) = <<>> PROVE Len(call[c].svcs) = 1
            <7>1. Len(Tail(call[c].svcs)) = 0
              BY <6>2, <6>3
            <7> QED BY <6>1, <6>2, <7>1
          <6> QED BY <6>1, <6>3
        <5>3. q \in CallRecords /\ (q.kind # "none" => q.svcs # <<>>)
          BY <2>01, <5>2, CallTyped DEF Kinds, CallRecords
        <5>4. call' = [call EXCEPT ![c] = q]
          BY <2>0, <3>3 DEF IssueRestart, CallsTyped
        <5> QED BY <2>0, <5>3, <5>4, SetCall
      <4>2. late' \in BOOLEAN /\ pinned' \in [Services -> BOOLEAN]
        BY <3>3, Zenon DEF IssueRestart, LateIf, TypeOK
      <4> QED
        BY <2>02, <3>1, <3>3, <4>1, <4>2 DEF TypeOK, IssueRestart, CallStart
    <3> QED BY <2>5, <3>2, <3>3
  <2>6. ASSUME NEW c \in Clients, IssueStop(c) \/ SkipStop(c) PROVE TypeOK'
    <3>1. CallsTyped'
      BY <2>0, <2>01, <2>6, SetCall DEF IssueStop, SkipStop
    <3> QED BY <2>6, <2>02, <3>1 DEF TypeOK, IssueStop, SkipStop, CallStop,
            services, history
  <2>7. CASE MainStep
    <3> USE DEF TypeOK
    <3>1. CallsTyped' <=> CallsTyped
      BY <2>7 DEF MainStep, Shutdown, StopNext, ShutdownNext, Joined, GiveUp,
         CallsTyped
    <3>2. UNCHANGED <<refs, holds, videoOn, overlap, pinned, late>>
      BY <2>7 DEF MainStep, Shutdown, StopNext, ShutdownNext, Joined, GiveUp,
         history
    <3>3. /\ left' \in 0..Len(Order)
          /\ main' \in {"serve", "stopping", "joining", "waiting", "done"}
          /\ main' = "waiting" => left' > 0
      BY <2>7 DEF MainStep, Shutdown, StopNext, ShutdownNext, Joined, GiveUp
    <3>4. gaveUp' \in BOOLEAN
      BY <2>7 DEF MainStep, Shutdown, StopNext, ShutdownNext, Joined, GiveUp,
         history
    <3>5. /\ wanted' \in [Services -> BOOLEAN]
          /\ loop' \in [Services -> {"none", "live", "cancelled"}]
      BY <2>7 DEF MainStep, Shutdown, StopNext, ShutdownNext, Joined, GiveUp,
         CallStop, CallShutdown, services
    <3> QED BY <2>0, <2>02, <3>1, <3>2, <3>3, <3>4, <3>5
  <2>8. ASSUME NEW s \in Services, LoopEnds(s) PROVE TypeOK'
    BY <2>8 DEF TypeOK, LoopEnds, history
  <2>9. CASE UNCHANGED vars
    BY <2>9 DEF TypeOK, vars, services, history
  <2> QED
    BY <2>1, <2>2, <2>3, <2>4, <2>5, <2>6, <2>7, <2>8, <2>9
       DEF Next, ClientStep
<1> QED BY <1>1, <1>2, PTL DEF Spec

-----------------------------------------------------------------------------
(* The count.                                                              *)

LEMMA RefsInit == Init => RefsExact
<1> SUFFICES ASSUME Init, NEW s \in Services
             PROVE  refs[s] = Cardinality(Holders(s))
  BY DEF RefsExact
<1>1. Holders(s) = {} /\ refs[s] = 0
  BY DEF Init, Holders
<1> QED BY <1>1, FS_EmptySet

LEMMA RefsStep == TypeOK /\ RefsExact /\ [Next]_vars => RefsExact'
<1> SUFFICES ASSUME TypeOK, RefsExact, [Next]_vars, NEW t \in Services
             PROVE  refs'[t] = Cardinality(Holders(t)')
  BY DEF RefsExact
<1>0. refs[t] = Cardinality(Holders(t)) /\ refs[t] \in Nat
  BY DEF RefsExact, TypeOK
<1>00. IsFiniteSet(Holders(t))
  BY ClientsAssumption, FS_Subset DEF Holders
<1>1. ASSUME NEW c \in Clients, NEW s \in Services, Borrow(c, s)
      PROVE  refs'[t] = Cardinality(Holders(t)')
  <2>1. CASE s = t
    <3>1. Holders(t)' = Holders(t) \cup {c} /\ c \notin Holders(t)
      BY <1>1, <2>1 DEF Borrow, Holders, TypeOK
    <3>2. refs'[t] = refs[t] + 1
      BY <1>1, <2>1 DEF Borrow, TypeOK
    <3> QED BY <1>0, <1>00, <3>1, <3>2, FS_AddElement
  <2>2. CASE s # t
    <3>1. Holders(t)' = Holders(t) /\ refs'[t] = refs[t]
      BY <1>1, <2>2 DEF Borrow, Holders, TypeOK
    <3> QED BY <1>0, <3>1
  <2> QED BY <2>1, <2>2
<1>2. ASSUME NEW c \in Clients, NEW s \in Services, Return(c, s)
      PROVE  refs'[t] = Cardinality(Holders(t)')
  <2>1. CASE s = t
    <3>1. Holders(t)' = Holders(t) \ {c} /\ c \in Holders(t)
      BY <1>2, <2>1 DEF Return, MayReturn, Holders, TypeOK
    <3>2. refs'[t] = refs[t] - 1
      BY <1>2, <2>1 DEF Return, MayReturn, TypeOK
    <3> QED BY <1>0, <1>00, <3>1, <3>2, FS_RemoveElement
  <2>2. CASE s # t
    <3>1. Holders(t)' = Holders(t) /\ refs'[t] = refs[t]
      BY <1>2, <2>2 DEF Return, MayReturn, Holders, TypeOK
    <3> QED BY <1>0, <3>1
  <2> QED BY <2>1, <2>2
<1>3. CASE UNCHANGED <<refs, holds>>
  BY <1>0, <1>3 DEF Holders
<1>4. (\E c \in Clients : \E s \in Services : Borrow(c, s) \/ Return(c, s))
        \/ UNCHANGED <<refs, holds>>
  BY DEF Next, vars, ClientStep, MainStep, SetVideoEnabled, RestartAll, IssueStart,
     IssueStop, SkipStop, IssueRestart, Shutdown, StopNext, ShutdownNext,
     Joined, GiveUp, LoopEnds
<1> QED BY <1>1, <1>2, <1>3, <1>4

(***************************************************************************)
(* The reference count of a service is the number of those who hold it,    *)
(* for any number of clients and services and any interleaving.            *)
(***************************************************************************)
THEOREM RefsExactHolds == Spec => []RefsExact
BY RefsInit, RefsStep, TypeCorrect, PTL DEF Spec

-----------------------------------------------------------------------------
(* What the count asks for.                                                *)

LEMMA CondStopStep == TypeOK /\ CondStopPinned /\ [Next]_vars => CondStopPinned'
<1> SUFFICES ASSUME TypeOK, CondStopPinned, [Next]_vars,
                    NEW d \in Clients, call'[d].kind = "stopIfRunning"
             PROVE  pinned'[Head(call'[d].svcs)]
  BY DEF CondStopPinned
<1> USE DEF TypeOK
<1>1. ASSUME NEW c \in Clients, NEW s \in Services, SetVideoEnabled(c, s)
      PROVE  pinned'[Head(call'[d].svcs)]
  <2>1. CASE d = c
    <3>1. call'[d].svcs = <<s>>
      BY <1>1, <2>1 DEF SetVideoEnabled, CallOf
    <3> QED BY <1>1, <3>1 DEF SetVideoEnabled
  <2>2. CASE d # c
    <3>1. call'[d] = call[d] /\ call[d].svcs # <<>>
      BY <1>1, <2>2 DEF SetVideoEnabled
    <3>2. Head(call[d].svcs) \in Services
      BY <3>1, HeadTailProperties
    <3> QED BY <1>1, <3>1, <3>2 DEF SetVideoEnabled, CondStopPinned
  <2> QED BY <2>1, <2>2
<1>2. ASSUME NEW c \in Clients, IssueRestart(c)
      PROVE  pinned'[Head(call'[d].svcs)]
  <2>1. d # c /\ call'[d] = call[d] /\ call[d].svcs # <<>>
    BY <1>2 DEF IssueRestart, NoCall
  <2>2. Head(call[d].svcs) \in Services
    BY <2>1, HeadTailProperties
  <2> QED BY <1>2, <2>1, <2>2 DEF IssueRestart, CondStopPinned
<1>3. CASE pinned' = pinned /\ call'[d] = call[d]
  BY <1>3 DEF CondStopPinned
<1>4. ASSUME NEW c \in Clients, NEW s \in Services, Borrow(c, s) \/ Return(c, s)
      PROVE  pinned' = pinned /\ call'[d] = call[d]
  <2>1. CallOf("start", s).kind = "start" /\ CallOf("stop", s).kind = "stop"
    BY DEF CallOf
  <2> QED BY <1>4, <2>1 DEF Borrow, Return, MayReturn
<1>5. ASSUME NEW c \in Clients,
             RestartAll(c) \/ IssueStart(c) \/ IssueStop(c) \/ SkipStop(c)
      PROVE  pinned' = pinned /\ call'[d] = call[d]
  <2>1. PICK q : call' = [call EXCEPT ![c] = q] /\ q.kind # "stopIfRunning"
    <3>1. CASE RestartAll(c)
      <4> DEFINE q == [kind |-> "restart", svcs |-> Order]
      <4>1. call' = [call EXCEPT ![c] = q] /\ q.kind = "restart"
        BY <3>1 DEF RestartAll
      <4> HIDE DEF q
      <4> QED BY <4>1
    <3>2. CASE IssueStart(c) \/ IssueStop(c) \/ SkipStop(c)
      <4>1. call' = [call EXCEPT ![c] = NoCall] /\ NoCall.kind = "none"
        BY <3>2 DEF IssueStart, IssueStop, SkipStop, NoCall
      <4> QED BY <4>1
    <3> QED BY <1>5, <3>1, <3>2
  <2>2. d # c
    BY <2>1
  <2> QED BY <1>5, <2>1, <2>2 DEF RestartAll, IssueStart, IssueStop, SkipStop,
          history
<1>6. ASSUME MainStep \/ (\E s \in Services : LoopEnds(s)) \/ UNCHANGED vars
      PROVE  pinned' = pinned /\ call'[d] = call[d]
  BY <1>6 DEF MainStep, Shutdown, StopNext, ShutdownNext, Joined, GiveUp,
     LoopEnds, vars, history
<1> QED BY <1>1, <1>2, <1>3, <1>4, <1>5, <1>6 DEF Next, ClientStep

LEMMA SerialInit == Init => SerialInv /\ CondStopPinned
BY DEF Init, SerialInv, CondStopPinned, OneOwed, OwedMatchesCount, Owes, Quiet,
   NoCall

(***************************************************************************)
(* The step of SerialInv, for one service t at a time.  Its history only   *)
(* grows, so what it excludes after a step it excluded before it.          *)
(***************************************************************************)
LEMMA SerialStep == IInv /\ [Next]_vars => SerialInv'
<1> SUFFICES ASSUME IInv, [Next]_vars, NEW t \in Services,
                    main' = "serve", ~overlap'[t], ~pinned'[t]
             PROVE  /\ OneOwed(t)'
                    /\ OwedMatchesCount(t)'
                    /\ (Quiet(t) /\ refs[t] > 0 => wanted[t])'
                    /\ (Quiet(t) /\ wanted[t] => refs[t] > 0 \/ t \in Video)'
  BY DEF SerialInv
<1> DEFINE Good == /\ OneOwed(t)
                   /\ OwedMatchesCount(t)
                   /\ Quiet(t) /\ refs[t] > 0 => wanted[t]
                   /\ Quiet(t) /\ wanted[t] => refs[t] > 0 \/ t \in Video
<1>0. refs[t] \in Nat
  BY DEF IInv, TypeOK
<1>1. (main = "serve" /\ ~overlap[t] /\ ~pinned[t]) => Good
  BY DEF IInv, SerialInv
<1> USE DEF IInv, TypeOK
<1>2. ASSUME NEW c \in Clients, NEW s \in Services, Borrow(c, s) PROVE Good'
  <2>1. Good
    BY <1>1, <1>2 DEF Borrow, NoteOverlap
  <2>2. CASE s # t
    <3>1. \A d \in Clients : Owes(d, t)' <=> Owes(d, t)
      BY <1>2, <2>2 DEF Borrow, Owes, Idle, NoCall, CallOf
    <3>2. \A d \in Clients : Owes(d, t) => call'[d] = call[d]
      BY <1>2 DEF Borrow, Owes, Idle, NoCall
    <3> QED BY <1>2, <2>1, <2>2, <3>1, <3>2
            DEF Borrow, services, OneOwed, OwedMatchesCount, Quiet
  <2>3. CASE s = t
    <3>1. Quiet(t) /\ refs'[t] = refs[t] + 1 /\ wanted' = wanted
      BY <1>2, <2>3 DEF Borrow, NoteOverlap, services
    <3>2. CASE refs[t] = 0
      <4>1. call' = [call EXCEPT ![c] = CallOf("start", t)]
        BY <1>0, <1>2, <2>3, <3>1, <3>2 DEF Borrow
      <4>2. \A d \in Clients : Owes(d, t)' <=> d = c
        BY <3>1, <4>1 DEF Quiet, Owes, CallOf
      <4>3. call'[c].kind = "start"
        BY <4>1 DEF CallOf
      <4> QED BY <3>1, <3>2, <4>2, <4>3 DEF OneOwed, OwedMatchesCount, Quiet
    <3>3. CASE refs[t] # 0
      <4>1. call' = call
        BY <1>0, <1>2, <2>3, <3>1, <3>3 DEF Borrow
      <4> QED BY <1>0, <2>1, <3>1, <3>3, <4>1
              DEF OneOwed, OwedMatchesCount, Quiet, Owes
    <3> QED BY <3>2, <3>3
  <2> QED BY <2>2, <2>3
<1>3. ASSUME NEW c \in Clients, NEW s \in Services, Return(c, s) PROVE Good'
  <2>1. Good
    BY <1>1, <1>3 DEF Return, MayReturn, NoteOverlap
  <2>2. CASE s # t
    <3>1. \A d \in Clients : Owes(d, t)' <=> Owes(d, t)
      BY <1>3, <2>2 DEF Return, MayReturn, Owes, Idle, NoCall, CallOf
    <3>2. \A d \in Clients : Owes(d, t) => call'[d] = call[d]
      BY <1>3 DEF Return, MayReturn, Owes, Idle, NoCall
    <3> QED BY <1>3, <2>1, <2>2, <3>1, <3>2
            DEF Return, MayReturn, services, OneOwed, OwedMatchesCount, Quiet
  <2>3. CASE s = t
    <3>1. /\ Quiet(t) /\ refs'[t] = refs[t] - 1 /\ wanted' = wanted
          /\ refs[t] > 0
      BY <1>3, <2>3 DEF Return, MayReturn, NoteOverlap, services
    <3>2. CASE refs[t] = 1 /\ ~KeepVideoQueueRunning(t)
      <4>1. call' = [call EXCEPT ![c] = CallOf("stop", t)] /\ refs'[t] = 0
        BY <1>3, <2>3, <3>1, <3>2 DEF Return, MayReturn
      <4>2. \A d \in Clients : Owes(d, t)' <=> d = c
        BY <3>1, <4>1 DEF Quiet, Owes, CallOf
      <4>3. call'[c].kind = "stop"
        BY <4>1 DEF CallOf
      <4> QED BY <4>1, <4>2, <4>3 DEF OneOwed, OwedMatchesCount, Quiet
    <3>3. CASE refs[t] # 1 \/ KeepVideoQueueRunning(t)
      <4>1. call' = call
        BY <1>0, <1>3, <2>3, <3>1, <3>3 DEF Return, MayReturn
      <4> QED BY <1>0, <2>1, <3>1, <3>3, <4>1
              DEF OneOwed, OwedMatchesCount, Quiet, Owes, KeepVideoQueueRunning
    <3> QED BY <3>2, <3>3
  <2> QED BY <2>2, <2>3
<1>4. ASSUME NEW c \in Clients,
             RestartAll(c) \/ (\E s \in Services : SetVideoEnabled(c, s))
      PROVE  Good'
  <2>1. Good
    BY <1>1, <1>4 DEF RestartAll, SetVideoEnabled, history
  <2>2. \A d \in Clients : Owes(d, t)' <=> Owes(d, t)
    <3>1. PICK q : /\ call' = [call EXCEPT ![c] = q]
                   /\ q.kind \in {"restart", "stopIfRunning"}
      BY <1>4 DEF RestartAll, SetVideoEnabled, CallOf
    <3>2. call[c].kind = "none"
      BY <1>4 DEF RestartAll, SetVideoEnabled, Idle, NoCall
    <3> QED BY <3>1, <3>2 DEF Owes
  <2>3. \A d \in Clients : Owes(d, t) => call'[d] = call[d]
    BY <1>4 DEF RestartAll, SetVideoEnabled, Owes, Idle, NoCall
  <2> QED BY <1>4, <2>1, <2>2, <2>3 DEF RestartAll, SetVideoEnabled, services,
          OneOwed, OwedMatchesCount, Quiet
<1>5. ASSUME NEW c \in Clients, IssueStart(c) \/ IssueStop(c) PROVE Good'
  <2>1. Good
    BY <1>1, <1>5 DEF IssueStart, IssueStop, history
  <2>2. /\ call' = [call EXCEPT ![c] = NoCall]
        /\ refs' = refs
        /\ call[c].svcs # <<>>
    BY <1>5 DEF IssueStart, IssueStop
  <2>3. \A d \in Clients : Owes(d, t)' => Owes(d, t) /\ d # c /\ call'[d] = call[d]
    BY <2>2 DEF Owes, NoCall
  <2>4. Head(call[c].svcs) \in Services
    BY <2>2, HeadTailProperties
  <2>5. CASE Head(call[c].svcs) # t
    <3>1. wanted'[t] = wanted[t]
      BY <1>5, <2>5 DEF IssueStart, IssueStop, CallStart, CallStop
    <3>2. \A d \in Clients : Owes(d, t) => Owes(d, t)'
      BY <2>2, <2>5 DEF Owes
    <3> QED BY <2>1, <2>2, <2>3, <3>1, <3>2 DEF OneOwed, OwedMatchesCount, Quiet
  <2>6. CASE Head(call[c].svcs) = t /\ call[c].kind = "start"
    <3>1. wanted'[t] = TRUE /\ refs[t] > 0
      BY <1>5, <2>1, <2>6 DEF IssueStart, IssueStop, CallStart, OwedMatchesCount,
         Owes
    <3> QED BY <2>1, <2>2, <2>3, <3>1 DEF OneOwed, OwedMatchesCount
  <2>7. CASE Head(call[c].svcs) = t /\ call[c].kind = "stop"
    <3>1. wanted'[t] = FALSE /\ refs[t] = 0
      BY <1>5, <2>1, <2>7 DEF IssueStart, IssueStop, CallStop, OwedMatchesCount,
         Owes
    <3> QED BY <2>1, <2>2, <2>3, <3>1 DEF OneOwed, OwedMatchesCount
  <2>8. Head(call[c].svcs) = t => call[c].kind # "stopIfRunning"
    BY <1>5 DEF IssueStart, IssueStop, history, CondStopPinned
  <2> QED BY <1>5, <2>5, <2>6, <2>7, <2>8 DEF IssueStart, IssueStop
<1>6. ASSUME NEW c \in Clients, SkipStop(c) \/ IssueRestart(c) PROVE Good'
  <2>1. Good
    BY <1>1, <1>6 DEF SkipStop, IssueRestart, history
  <2>2. \A d \in Clients : Owes(d, t)' <=> Owes(d, t)
    <3>1. PICK q : /\ call' = [call EXCEPT ![c] = q]
                   /\ q.kind \in {"restart", "none"}
      <4>1. NoCall.kind = "none"
        BY DEF NoCall
      <4>2. CASE SkipStop(c)
        BY <4>1, <4>2 DEF SkipStop
      <4>3. CASE IssueRestart(c) /\ Len(call[c].svcs) = 1
        BY <4>1, <4>3 DEF IssueRestart
      <4>4. CASE IssueRestart(c) /\ Len(call[c].svcs) # 1
        <5> DEFINE q == [kind |-> "restart", svcs |-> Tail(call[c].svcs)]
        <5>1. call' = [call EXCEPT ![c] = q] /\ q.kind = "restart"
          BY <4>4 DEF IssueRestart
        <5> HIDE DEF q
        <5> QED BY <5>1
      <4> QED BY <1>6, <4>2, <4>3, <4>4
    <3>2. call[c].kind \in {"restart", "stopIfRunning"}
      BY <1>6 DEF SkipStop, IssueRestart
    <3> QED BY <3>1, <3>2 DEF Owes
  <2>3. \A d \in Clients : Owes(d, t) => call'[d] = call[d]
    BY <1>6 DEF SkipStop, IssueRestart, Owes
  <2>4. wanted'[t] = wanted[t] /\ refs' = refs
    <3>1. CASE SkipStop(c)
      BY <3>1 DEF SkipStop, services
    <3>2. CASE IssueRestart(c)
      <4>1. Head(call[c].svcs) # t
        BY <3>2 DEF IssueRestart
      <4> QED BY <3>2, <4>1 DEF IssueRestart, CallStart
    <3> QED BY <1>6, <3>1, <3>2
  <2> QED BY <2>1, <2>2, <2>3, <2>4 DEF OneOwed, OwedMatchesCount, Quiet
<1>7. ASSUME \/ MainStep
             \/ \E s \in Services : LoopEnds(s)
             \/ UNCHANGED vars
      PROVE  Good'
  <2>1. UNCHANGED <<refs, call, wanted, main, overlap, pinned>>
    BY <1>7 DEF MainStep, Shutdown, StopNext, ShutdownNext, Joined, GiveUp,
       LoopEnds, vars, services, history
  <2> QED BY <1>1, <2>1 DEF OneOwed, OwedMatchesCount, Quiet, Owes
<1> QED BY <1>2, <1>3, <1>4, <1>5, <1>6, <1>7 DEF Next, ClientStep

(***************************************************************************)
(* Borrow and Return start and stop a service as their comments say, for   *)
(* any number of clients, as long as no two of their calls on it overlap.  *)
(***************************************************************************)
THEOREM SerialUseIsCountedHolds == Spec => []SerialUseIsCounted
<1>1. Spec => []IInv
  BY SerialInit, SerialStep, CondStopStep, TypeCorrect, PTL DEF Spec, IInv
<1>2. IInv => SerialUseIsCounted
  BY DEF IInv, SerialInv, SerialUseIsCounted
<1> QED BY <1>1, <1>2, PTL

(* Shutdown walks the services from the last to the first.  Those it has   *)
(* passed have no loop; the one it waits for is not to be started again.   *)
Passed == \A i \in 1..Len(Order) : i > left => loop[Order[i]] = "none"

WalkInv ==
  ~late /\ ~gaveUp =>
    /\ main \in {"joining", "waiting"} => Passed
    /\ main = "waiting" => loop[Order[left]] \in {"cancelled", "none"}
    /\ main = "done" => \A i \in 1..Len(Order) : loop[Order[i]] = "none"

LEMMA OrderElement ==
  ASSUME NEW i \in 1..Len(Order)
  PROVE  Order[i] \in Services
BY OrderType

(* Loops that only end, while Shutdown does not move, change nothing.      *)
LEMMA WalkKept ==
  ASSUME WalkInv, UNCHANGED <<main, left>>, late => late', gaveUp => gaveUp',
         TypeOK,
         \A s \in Services : loop'[s] \in {loop[s], "none"}
  PROVE  WalkInv'
<1>1. \A i \in 1..Len(Order) : loop'[Order[i]] \in {loop[Order[i]], "none"}
  BY OrderElement
<1>2. main = "waiting" => left \in 1..Len(Order)
  BY OrderType DEF TypeOK
<1> QED BY <1>1, <1>2 DEF WalkInv, Passed

LEMMA WalkStep == TypeOK /\ WalkInv /\ [Next]_vars => WalkInv'
<1> SUFFICES ASSUME TypeOK, WalkInv, [Next]_vars PROVE WalkInv'
  OBVIOUS
<1> USE OrderType
<1>1. ASSUME NEW c \in Clients, NEW s \in Services,
             Borrow(c, s) \/ Return(c, s) \/ SetVideoEnabled(c, s)
      PROVE  WalkInv'
  BY <1>1, WalkKept DEF Borrow, Return, SetVideoEnabled, services
<1>2. ASSUME NEW c \in Clients,
             RestartAll(c) \/ IssueStop(c) \/ SkipStop(c)
      PROVE  WalkInv'
  BY <1>2, WalkKept DEF RestartAll, IssueStop, SkipStop, CallStop, services,
     history
<1>3. ASSUME NEW c \in Clients, IssueStart(c) \/ IssueRestart(c)
      PROVE  WalkInv'
  BY <1>3 DEF IssueStart, IssueRestart, LateIf, WalkInv
<1>4. CASE Shutdown \/ StopNext
  <2>1. CASE Shutdown
    BY <2>1 DEF Shutdown, WalkInv
  <2>2. CASE StopNext /\ left = 0
    BY <2>2 DEF StopNext, history, services, WalkInv, Passed
  <2>3. CASE StopNext /\ left # 0
    BY <2>3 DEF StopNext, WalkInv
  <2> QED BY <1>4, <2>1, <2>2, <2>3
<1>5. CASE ShutdownNext
  <2>1. CASE left = 0
    BY <1>5, <2>1 DEF ShutdownNext, services, history, WalkInv, Passed
  <2>2. CASE left # 0
    <3>1. left \in 1..Len(Order) /\ Order[left] \in Services
      BY <2>2, OrderElement DEF TypeOK
    <3>2. \A i \in 1..Len(Order) : loop[Order[i]] = "none" => loop'[Order[i]] = "none"
      BY <1>5, <2>2, OrderElement DEF ShutdownNext, CallShutdown, TypeOK
    <3>3. loop'[Order[left]] \in {"cancelled", "none"}
      BY <1>5, <2>2, <3>1 DEF ShutdownNext, CallShutdown, TypeOK
    <3>4. main = "joining" /\ main' = "waiting" /\ UNCHANGED <<left, late, gaveUp>>
      BY <1>5, <2>2 DEF ShutdownNext, history
    <3> QED BY <3>2, <3>3, <3>4 DEF WalkInv, Passed
  <2> QED BY <2>1, <2>2
<1>6. CASE Joined
  <2>1. left \in 1..Len(Order) /\ left' = left - 1 /\ loop' = loop
    BY <1>6 DEF Joined, TypeOK, services
  <2>2. ~late /\ ~gaveUp => loop[Order[left]] = "none" /\ Passed
    BY <1>6 DEF Joined, WalkInv
  <2>3. \A i \in 1..Len(Order) : i > left - 1 => i > left \/ i = left
    BY <2>1
  <2> QED BY <1>6, <2>1, <2>2, <2>3 DEF Joined, history, WalkInv, Passed
<1>7. CASE GiveUp
  BY <1>7 DEF GiveUp, WalkInv
<1>8. ASSUME NEW s \in Services, LoopEnds(s) PROVE WalkInv'
  BY <1>8, WalkKept DEF LoopEnds, history, TypeOK
<1>9. CASE UNCHANGED vars
  BY <1>9, WalkKept DEF vars
<1> QED BY <1>1, <1>2, <1>3, <1>4, <1>5, <1>6, <1>7, <1>8, <1>9
     DEF Next, ClientStep, MainStep

(***************************************************************************)
(* However many services there are, in whatever order registered: when     *)
(* Shutdown returns no service goroutine is left that it did not give up   *)
(* on, unless a handler started one meanwhile.                             *)
(***************************************************************************)
THEOREM ShutdownLeavesNoneHolds == Spec => []ShutdownLeavesNone
<1>1. Init => WalkInv
  BY DEF Init, WalkInv
<1>2. Spec => []WalkInv
  BY <1>1, WalkStep, TypeCorrect, PTL DEF Spec
<1>3. WalkInv => ShutdownLeavesNone
  BY OrderAssumption DEF WalkInv, ShutdownLeavesNone
<1> QED BY <1>2, <1>3, PTL

-----------------------------------------------------------------------------
(* ConfigStore.                                                            *)

Configurations ==
  [is : {"whole", "absent", "torn"}, account : BOOLEAN, printers : Lists \cup {<<>>},
   active : Nat, settings : [Config!Sections -> Nat]]

Operations ==
  [kind : {"none", "section", "switch", "replace", "address", "logout", "reload"},
   of : Config!Sections, to : Nat]

Handled ==
  [op : Operations,
   pc : {"idle", "enter", "truncate", "write", "tell", "restart", "delete", "load", "apply"},
   view : Configurations]

ConfigTyped ==
  /\ file \in Configurations /\ kept \in Configurations
  /\ request \in [Clients -> Handled]

(* Who writes holds the lock, and has what the modifier makes of the last  *)
(* complete file; only a logout deletes it.                                *)
WriterIsCurrent ==
  \A r \in Clients :
    /\ request[r].pc \in {"truncate", "write"} =>
         /\ lock = r
         /\ request[r].op.kind = "replace" \/ request[r].view = Config!Modified(request[r].op, kept)
    /\ request[r].pc = "delete" => request[r].op.kind = "logout"

ConfigInv ==
  /\ ConfigTyped
  /\ file # Config!Torn => kept = file
  /\ WriterIsCurrent

LEMMA KnownConfigurations ==
  /\ Config!Absent \in Configurations /\ Config!Torn \in Configurations
  /\ Config!Null \in Configurations /\ \A l \in Lists : Config!Fresh(l) \in Configurations
  /\ Config!Idle \in Handled /\ Config!Idle.pc = "idle"
<1>1. Config!NoSettings \in [Config!Sections -> Nat]
  BY DEF Config!NoSettings
<1>2. Config!Absent \in Configurations
  BY <1>1 DEF Config!Absent, Configurations
<1>3. Config!Torn \in Configurations
  BY <1>2 DEF Config!Torn, Configurations
<1>4. Config!Null \in Configurations /\ \A l \in Lists : Config!Fresh(l) \in Configurations
  BY <1>1 DEF Config!Null, Config!Fresh, Config!Config, Configurations
<1>5. [kind |-> "none", of |-> "plain", to |-> 0] \in Operations
  BY DEF Operations, Config!Sections
<1>6. Config!Idle \in Handled /\ Config!Idle.pc = "idle"
  BY <1>2, <1>5 DEF Config!Idle, Handled
<1> QED BY <1>2, <1>3, <1>4, <1>6

(* No configuration has the settings of a new one.                         *)
LEMMA SettingsField ==
  \A c \in Configurations : Config!SettingsOf(c) = c.settings /\ (Config!IsConfigured(c) <=> c.account)
BY DEF Config!SettingsOf, Config!IsConfigured, Config!Absent, Configurations

(* A modifier brings no account, and leaves the other sections alone.      *)
LEMMA ModifiedKeeps ==
  ASSUME NEW op \in Operations, NEW c \in Configurations
  PROVE  /\ Config!Modified(op, c) \in Configurations
         /\ Config!IsConfigured(Config!Modified(op, c)) => Config!IsConfigured(c)
         /\ \A s \in Config!Sections :
              ~(op.kind = "section" /\ op.of = s)
                => Config!SettingsOf(Config!Modified(op, c))[s] = Config!SettingsOf(c)[s]
<1> DEFINE m == Config!Modified(op, c)
<1>1. CASE c = Config!Absent
  <2>1. m = Config!Null
    BY <1>1 DEF Config!Modified
  <2>2. m.settings = Config!NoSettings /\ ~m.account
    BY <2>1 DEF Config!Null, Config!Config
  <2>3. Config!SettingsOf(c) = Config!NoSettings
    BY <1>1 DEF Config!SettingsOf
  <2> QED BY <2>1, <2>2, <2>3, KnownConfigurations, SettingsField
<1>2. CASE c # Config!Absent /\ op.kind = "section"
  <2>1. m = [c EXCEPT !.settings = [c.settings EXCEPT ![op.of] = op.to]]
    BY <1>2 DEF Config!Modified, Configurations
  <2> DEFINE new == [c.settings EXCEPT ![op.of] = op.to]
  <2>2. /\ new \in [Config!Sections -> Nat]
        /\ \A s \in Config!Sections : op.of # s => new[s] = c.settings[s]
    BY DEF Configurations, Operations
  <2> HIDE DEF new
  <2>3. m \in Configurations /\ m.account = c.account /\ m.settings = new
    BY <2>1, <2>2 DEF new, Configurations
  <2> QED BY <1>2, <2>2, <2>3, SettingsField
<1>3. CASE c # Config!Absent /\ op.kind # "section"
  <2>1. m = c \/ m = [c EXCEPT !.active = op.to]
    BY <1>3 DEF Config!Modified
  <2>2. m \in Configurations /\ m.account = c.account /\ m.settings = c.settings
    BY <2>1 DEF Configurations, Operations
  <2> QED BY <2>2, SettingsField
<1> QED BY <1>1, <1>2, <1>3

(* The three ways a request goes on are one.                               *)
LEMMA RequestGoes ==
  ASSUME ConfigTyped, NEW r \in Clients
  PROVE  /\ \A pc0, view : Config!Goes(r, pc0, view) =>
              request' = [request EXCEPT ![r] = [op |-> request[r].op, pc |-> pc0, view |-> view]]
         /\ Config!Answers(r) => request' = [request EXCEPT ![r] = Config!Idle]
BY DEF ConfigTyped, Handled, Config!Goes, Config!Answers

(* A request that comes, goes on outside the lock or is answered disturbs  *)
(* nobody.                                                                 *)
LEMMA OutsideTheLock ==
  ASSUME ConfigInv, UNCHANGED <<file, kept, lock>>, NEW r \in Clients, NEW h \in Handled,
         request' = [request EXCEPT ![r] = h],
         h.pc \notin {"truncate", "write"}, h.pc = "delete" => h.op.kind = "logout"
  PROVE  ConfigInv'
<1>1. \A q \in Clients : request'[q] = IF q = r THEN h ELSE request[q]
  BY DEF ConfigInv, ConfigTyped
<1>2. request' \in [Clients -> Handled]
  BY DEF ConfigInv, ConfigTyped
<1> QED BY <1>1, <1>2 DEF ConfigInv, ConfigTyped, WriterIsCurrent

LEMMA Arriving ==
  ASSUME ConfigInv, NEW r \in Clients, Config!Begins(r), NEW op \in Operations,
         NEW pc0 \in {"enter", "delete", "load"}, NEW view \in Configurations,
         Config!Arrives(r, op, pc0, view), pc0 = "delete" => op.kind = "logout"
  PROVE  ConfigInv'
<1> DEFINE h == [op |-> op, pc |-> pc0, view |-> view]
<1>1. h \in Handled /\ h.pc = pc0 /\ h.op = op
  BY DEF Handled
<1>2. request' = [request EXCEPT ![r] = h] /\ UNCHANGED <<file, kept, lock>>
  BY DEF Config!Arrives, Config!Begins, Config!store
<1> HIDE DEF h
<1> QED BY <1>1, <1>2, OutsideTheLock

LEMMA HandlerStep ==
  ASSUME ConfigInv, NEW r \in Clients, Config!Handles(r)
  PROVE  ConfigInv'
<1>1. \A kind \in {"section", "switch", "replace", "address", "logout", "reload"},
        of \in Config!Sections, to \in Nat :
          Config!Op(kind, of, to) \in Operations /\ Config!Op(kind, of, to).kind = kind
  BY DEF Config!Op, Operations
<1>2. "service" \in Config!Sections /\ "plain" \in Config!Sections
  BY DEF Config!Sections
<1>3. Config!Absent \in Configurations /\ \A l \in Lists : Config!Fresh(l) \in Configurations
  BY KnownConfigurations
<1>4. ASSUME NEW section \in Config!Sections, Config!Edits(r, section) PROVE ConfigInv'
  <2>1. PICK v \in {0, 1} : Config!Arrives(r, Config!Op("section", section, v), "enter", Config!Absent)
    BY <1>4 DEF Config!Edits
  <2>2. Config!Op("section", section, v) \in Operations
    BY <1>1
  <2> QED BY <1>3, <1>4, <2>1, <2>2, Arriving DEF Config!Edits
<1>5. CASE \/ Config!SettingsTimelapseUpdate(r) \/ Config!SettingsMQTTUpdate(r)
           \/ Config!SettingsPrintMonitorUpdate(r) \/ Config!SettingsAppearanceUpdate(r)
           \/ Config!SettingsTemperatureOverridesUpdate(r) \/ Config!SettingsCameraUpdate(r)
           \/ Config!SettingsFilamentServiceUpdate(r) \/ Config!SettingsSmartSocketUpdate(r)
           \/ Config!NotificationsUpdate(r) \/ Config!UploadRateUpdate(r)
  BY <1>2, <1>4, <1>5
  DEF Config!SettingsTimelapseUpdate, Config!SettingsMQTTUpdate, Config!SettingsPrintMonitorUpdate,
      Config!SettingsAppearanceUpdate, Config!SettingsTemperatureOverridesUpdate,
      Config!SettingsCameraUpdate, Config!SettingsFilamentServiceUpdate,
      Config!SettingsSmartSocketUpdate, Config!NotificationsUpdate, Config!UploadRateUpdate
<1>6. CASE Config!ConfigLogin(r) \/ Config!ConfigUpload(r) \/ Config!ImportSlicer(r)
  <2>1. Config!Begins(r)
    BY <1>6 DEF Config!ConfigLogin, Config!ConfigUpload, Config!ImportSlicer
  <2>2. PICK l \in Lists : Config!Arrives(r, Config!Op("replace", "plain", 0), "enter", Config!Fresh(l))
    BY <1>6 DEF Config!ConfigLogin, Config!ConfigUpload, Config!ImportSlicer
  <2>3. Config!Op("replace", "plain", 0) \in Operations
    BY <1>1, <1>2
  <2> QED BY <1>3, <2>1, <2>2, <2>3, Arriving
<1>7. CASE Config!ConfigLogout(r)
  BY <1>1, <1>2, <1>3, <1>7, Arriving DEF Config!ConfigLogout
<1>8. CASE Config!ServerReload(r)
  BY <1>1, <1>2, <1>3, <1>8, Arriving DEF Config!ServerReload
<1>9. ASSUME NEW i \in 0..1, Config!PrintersSwitch(r, i) PROVE ConfigInv'
  <2>1. Config!Op("switch", "plain", i) \in Operations
    BY <1>1, <1>2
  <2> QED BY <1>3, <1>9, <2>1, Arriving DEF Config!PrintersSwitch
<1>10. ASSUME Config!Search(r) PROVE ConfigInv'
  BY <1>1, <1>2, <1>3, <1>10, Arriving DEF Config!Search
<1> QED BY <1>5, <1>6, <1>7, <1>8, <1>9, <1>10
        DEF Config!Handles, Config!LANSearch, Config!DiscoverPrinterIP,
            Config!DiscoverAndPersistPrinterIPs, Config!CheckAndRepairConfig, Config!PersistPrinterIP

(* Taking the lock, or going on under it.                                  *)
LEMMA UnderTheLock ==
  ASSUME ConfigInv, NEW r \in Clients, NEW pc0 \in {"truncate", "write"}, NEW view \in Configurations,
         Config!Goes(r, pc0, view), kept' = kept, file' \in {file, Config!Torn},
         lock' = r, lock \in {Config!None, r},
         \/ request[r].op.kind = "replace"
         \/ view = Config!Modified(request[r].op, kept)
  PROVE  ConfigInv'
<1> DEFINE h == [op |-> request[r].op, pc |-> pc0, view |-> view]
<1>1. h \in Handled /\ h.pc = pc0 /\ h.op = request[r].op /\ h.view = view
  BY DEF Handled, ConfigInv, ConfigTyped
<1>2. request' = [request EXCEPT ![r] = h]
  BY RequestGoes DEF ConfigInv
<1> HIDE DEF h
<1>3. \A q \in Clients : request'[q] = IF q = r THEN h ELSE request[q]
  BY <1>2 DEF ConfigInv, ConfigTyped
<1>4. ConfigTyped'
  BY <1>1, <1>2, KnownConfigurations DEF ConfigInv, ConfigTyped
<1>5. \A q \in Clients : q # r => request[q].pc \notin {"truncate", "write"}
  BY RequestAssumption DEF ConfigInv, WriterIsCurrent
<1>6. WriterIsCurrent'
  BY <1>1, <1>3, <1>5 DEF ConfigInv, WriterIsCurrent
<1> QED BY <1>4, <1>6 DEF ConfigInv

(* Only the end of a write, and a deletion, make a new complete file.      *)
Replaces(r) == Config!Write(r) \/ Config!Delete(r)

LEMMA ReplaceStep ==
  ASSUME ConfigInv, NEW r \in Clients, Replaces(r)
  PROVE  ConfigInv'
<1>1. \A q \in Clients : q # r => request[q].pc \notin {"truncate", "write"}
  BY RequestAssumption DEF Replaces, Config!Write, Config!Delete, Config!MayDelete, Config!At,
     ConfigInv, WriterIsCurrent
<1>2. file' \in Configurations /\ kept' = file'
  BY KnownConfigurations DEF Replaces, Config!Write, Config!Delete, ConfigInv, ConfigTyped, Handled
<1>3. PICK h \in Handled : /\ request' = [request EXCEPT ![r] = h]
                           /\ h.pc \in {"idle", "tell", "restart", "load"}
  <2>1. request[r] \in Handled
    BY DEF ConfigInv, ConfigTyped
  <2>2. \A pc0 \in {"tell", "restart", "load"}, view \in Configurations :
          /\ [op |-> request[r].op, pc |-> pc0, view |-> view] \in Handled
          /\ [op |-> request[r].op, pc |-> pc0, view |-> view].pc = pc0
    BY <2>1 DEF Handled
  <2>3. CASE Config!Answers(r)
    BY <2>3, RequestGoes, KnownConfigurations DEF ConfigInv
  <2>4. ASSUME NEW pc0 \in {"tell", "restart", "load"}, NEW view \in Configurations,
               Config!Goes(r, pc0, view)
        PROVE  \E h \in Handled : /\ request' = [request EXCEPT ![r] = h]
                                  /\ h.pc \in {"idle", "tell", "restart", "load"}
    <3> DEFINE h == [op |-> request[r].op, pc |-> pc0, view |-> view]
    <3>1. h \in Handled /\ h.pc = pc0
      BY <2>2
    <3>2. request' = [request EXCEPT ![r] = h]
      BY <2>4, RequestGoes DEF ConfigInv
    <3> HIDE DEF h
    <3> QED BY <3>1, <3>2
  <2>5. request[r].view \in Configurations
    BY <2>1 DEF Handled
  <2> QED BY <2>3, <2>4, <2>5, KnownConfigurations
          DEF Replaces, Config!Write, Config!Delete, Config!After
<1>4. \A q \in Clients : request'[q] = IF q = r THEN h ELSE request[q]
  BY <1>3 DEF ConfigInv, ConfigTyped
<1>5. ConfigTyped'
  BY <1>2, <1>3 DEF ConfigInv, ConfigTyped
<1>6. WriterIsCurrent'
  BY <1>1, <1>3, <1>4 DEF ConfigInv, WriterIsCurrent
<1> QED BY <1>2, <1>5, <1>6 DEF ConfigInv

LEMMA ManagerStep ==
  ASSUME ConfigInv, NEW r \in Clients, Config!Steps(r)
  PROVE  /\ ConfigInv'
         /\ Replaces(r) \/ kept' = kept
<1> USE DEF Config!store, Config!server
<1>1. request[r] \in Handled /\ request[r].view \in Configurations
  BY DEF ConfigInv, ConfigTyped, Handled
<1>2. ASSUME UNCHANGED <<file, kept, lock>>,
             \/ Config!Answers(r)
             \/ \E pc0 \in {"apply", "restart"}, view \in Configurations : Config!Goes(r, pc0, view)
      PROVE  ConfigInv'
  <2>1. CASE Config!Answers(r)
    BY <1>2, <2>1, RequestGoes, KnownConfigurations, OutsideTheLock DEF ConfigInv
  <2>2. ASSUME NEW pc0 \in {"apply", "restart"}, NEW view \in Configurations, Config!Goes(r, pc0, view)
        PROVE  ConfigInv'
    <3> DEFINE h == [op |-> request[r].op, pc |-> pc0, view |-> view]
    <3>1. h \in Handled /\ h.pc = pc0
      BY <1>1 DEF Handled
    <3>2. request' = [request EXCEPT ![r] = h]
      BY <2>2, RequestGoes DEF ConfigInv
    <3> HIDE DEF h
    <3> QED BY <1>2, <3>1, <3>2, OutsideTheLock
  <2> QED BY <1>2, <2>1, <2>2
<1>3. CASE Config!Modify(r)
  <2>1. CASE file = Config!Torn
    BY <1>2, <1>3, <2>1 DEF Config!Modify
  <2>2. CASE file # Config!Torn
    <3> DEFINE view == Config!Modified(request[r].op, file)
    <3>1. view \in Configurations /\ kept = file
      BY <1>1, <2>2, ModifiedKeeps DEF ConfigInv, ConfigTyped, Handled
    <3>2. Config!Goes(r, "truncate", view) /\ lock = Config!None /\ lock' = r /\ UNCHANGED <<file, kept>>
      BY <1>3, <2>2 DEF Config!Modify, Config!MayEnter
    <3> QED BY <3>1, <3>2, UnderTheLock
  <2> QED BY <1>3, <2>1, <2>2 DEF Config!Modify
<1>4. CASE Config!Save(r)
  BY <1>1, <1>4, UnderTheLock DEF Config!Save, Config!MayEnter
<1>5. CASE Config!Truncate(r)
  <2>1. /\ lock = r /\ \/ request[r].op.kind = "replace"
                       \/ request[r].view = Config!Modified(request[r].op, kept)
    BY <1>5 DEF Config!Truncate, Config!At, ConfigInv, WriterIsCurrent
  <2> QED BY <1>1, <1>5, <2>1, UnderTheLock DEF Config!Truncate
<1>6. CASE Replaces(r)
  BY <1>6, ReplaceStep
<1>7. CASE Config!ModifyRefused(r) \/ Config!Tell(r) \/ Config!RestartAll(r)
  BY <1>2, <1>7 DEF Config!ModifyRefused, Config!Tell, Config!RestartAll
<1>8. CASE Config!ReloadLoads(r)
  <2>1. (IF file = Config!Torn THEN Config!Absent ELSE file) \in Configurations
    BY KnownConfigurations DEF ConfigInv, ConfigTyped
  <2> QED BY <1>2, <1>8, <2>1 DEF Config!ReloadLoads
<1>9. CASE Config!ReloadState(r)
  BY <1>2, <1>9, KnownConfigurations DEF Config!ReloadState
<1> QED BY <1>3, <1>4, <1>5, <1>6, <1>7, <1>8, <1>9 DEF Config!Steps, Replaces

LEMMA ConfigStep ==
  ASSUME ConfigInv, [Config!Next]_(Config!vars)
  PROVE  /\ ConfigInv'
         /\ (\E r \in Clients : Replaces(r)) \/ kept' = kept
<1> USE DEF Config!store, Config!server, Config!vars
<1>1. ASSUME NEW r \in Clients, Config!Handles(r) PROVE ConfigInv' /\ kept' = kept
  <2>1. kept' = kept
    BY <1>1 DEF Config!Handles, Config!Begins, Config!Edits, Config!Search,
      Config!SettingsTimelapseUpdate, Config!SettingsMQTTUpdate, Config!SettingsPrintMonitorUpdate,
      Config!SettingsAppearanceUpdate, Config!SettingsTemperatureOverridesUpdate,
      Config!SettingsCameraUpdate, Config!SettingsFilamentServiceUpdate,
      Config!SettingsSmartSocketUpdate, Config!NotificationsUpdate, Config!UploadRateUpdate,
      Config!ConfigLogin, Config!ConfigUpload, Config!ImportSlicer, Config!ConfigLogout,
      Config!ServerReload, Config!PrintersSwitch, Config!LANSearch, Config!DiscoverPrinterIP,
      Config!DiscoverAndPersistPrinterIPs, Config!CheckAndRepairConfig, Config!PersistPrinterIP
  <2> QED BY <1>1, <2>1, HandlerStep
<1>2. ASSUME NEW r \in Clients, Config!Steps(r) PROVE ConfigInv' /\ (Replaces(r) \/ kept' = kept)
  BY <1>2, ManagerStep
<1>3. CASE Config!Crash
  BY <1>3, KnownConfigurations DEF Config!Crash, ConfigInv, ConfigTyped, WriterIsCurrent
<1>4. CASE Config!Connect \/ Config!Starts \/ UNCHANGED Config!vars
  BY <1>4 DEF Config!Connect, Config!Starts, ConfigInv, ConfigTyped, WriterIsCurrent
<1> QED BY <1>1, <1>2, <1>3, <1>4 DEF Config!Next

LEMMA ConfigInductive == Config!Spec => []ConfigInv
<1>1. Config!Init => ConfigInv
  BY KnownConfigurations DEF Config!Init, ConfigInv, ConfigTyped, WriterIsCurrent
<1>2. ConfigInv /\ [Config!Next]_(Config!vars) => ConfigInv'
  BY ConfigStep
<1> QED BY <1>1, <1>2, PTL DEF Config!Spec

(* What a write leaves of the last complete file.                          *)
LEMMA WriteKeeps ==
  ASSUME ConfigInv, NEW r \in Clients, Config!Write(r), request[r].op.kind # "replace"
  PROVE  /\ Config!IsConfigured(kept') => Config!IsConfigured(kept)
         /\ \A s \in Config!Sections :
              ~(request[r].op.kind = "section" /\ request[r].op.of = s)
                => Config!SettingsOf(kept')[s] = Config!SettingsOf(kept)[s]
<1>1. kept' = Config!Modified(request[r].op, kept)
  BY DEF Config!Write, Config!At, ConfigInv, WriterIsCurrent
<1>2. request[r].op \in Operations /\ kept \in Configurations
  BY DEF ConfigInv, ConfigTyped, Handled
<1> QED BY <1>1, <1>2, ModifiedKeeps

(* A request that replaces the file goes on with it.                       *)
LEMMA ReplacesNow ==
  ASSUME ConfigInv, NEW r \in Clients, Replaces(r)
  PROVE  request[r].pc # request'[r].pc
<1>1. \A h \in Handled : request' = [request EXCEPT ![r] = h] => request'[r] = h
  BY DEF ConfigInv, ConfigTyped
<1>2. request[r] \in Handled
  BY DEF ConfigInv, ConfigTyped
<1>3. \A pc0 \in {"tell", "restart", "load"}, view \in Configurations :
        /\ [op |-> request[r].op, pc |-> pc0, view |-> view] \in Handled
        /\ [op |-> request[r].op, pc |-> pc0, view |-> view].pc = pc0
  BY <1>2 DEF Handled
<1>4. Config!Answers(r) => request'[r].pc = "idle"
  BY <1>1, RequestGoes, KnownConfigurations DEF ConfigInv
<1>5. \A pc0 \in {"tell", "restart", "load"}, view \in Configurations :
        Config!Goes(r, pc0, view) => request'[r].pc = pc0
  <2> TAKE pc0 \in {"tell", "restart", "load"}, view \in Configurations
  <2> DEFINE h == [op |-> request[r].op, pc |-> pc0, view |-> view]
  <2>1. h \in Handled /\ h.pc = pc0
    BY <1>3
  <2>2. Config!Goes(r, pc0, view) => request' = [request EXCEPT ![r] = h]
    BY RequestGoes DEF ConfigInv
  <2> HIDE DEF h
  <2> QED BY <1>1, <2>1, <2>2
<1>6. request[r].view \in Configurations
  BY <1>2 DEF Handled
<1> QED BY <1>4, <1>5, <1>6, KnownConfigurations
        DEF Replaces, Config!Write, Config!Delete, Config!At, Config!After

(* For any number of requests: two saves at the same time both last, and   *)
(* an address that a search finds late overwrites nothing of what was      *)
(* saved meanwhile (config/manager.go:131).                                *)
THEOREM SettingsSurviveHolds == Config!Spec => SettingsSurvive
<1> DEFINE A == \A s \in Config!Sections : Config!SettingsOf(kept')[s] # Config!SettingsOf(kept)[s] =>
                  \E r \in Clients :
                    \/ Config!WritesNow(r, {"replace", "logout"})
                    \/ Config!WritesNow(r, {"section"}) /\ request[r].op.of = s
<1>1. ConfigInv /\ [Config!Next]_(Config!vars) => [A]_(Config!vars)
  <2> SUFFICES ASSUME ConfigInv, [Config!Next]_(Config!vars), NEW s \in Config!Sections,
                      Config!SettingsOf(kept')[s] # Config!SettingsOf(kept)[s]
               PROVE  \E r \in Clients :
                        \/ Config!WritesNow(r, {"replace", "logout"})
                        \/ Config!WritesNow(r, {"section"}) /\ request[r].op.of = s
    OBVIOUS
  <2>1. PICK r \in Clients : Replaces(r)
    BY ConfigStep
  <2>2. request[r].pc # request'[r].pc
    BY <2>1, ReplacesNow
  <2>3. CASE Config!Write(r)
    BY <2>2, <2>3, WriteKeeps DEF Config!WritesNow
  <2>4. CASE Config!Delete(r)
    BY <2>2, <2>4 DEF Config!Delete, Config!At, ConfigInv, WriterIsCurrent, Config!WritesNow
  <2> QED BY <2>1, <2>3, <2>4 DEF Replaces
<1> QED BY <1>1, ConfigInductive, PTL DEF Config!Spec, SettingsSurvive, Config!SettingsSurvive

(* Once the file is deleted only a login or an import brings an account    *)
(* back, whatever was under way (handler/config.go:303).                   *)
THEOREM LogoutIsFinalHolds == Config!Spec => LogoutIsFinal
<1> DEFINE A == ~Config!IsConfigured(kept) /\ Config!IsConfigured(kept')
                  => \E r \in Clients : Config!WritesNow(r, {"replace"})
<1>1. ConfigInv /\ [Config!Next]_(Config!vars) => [A]_(Config!vars)
  <2> SUFFICES ASSUME ConfigInv, [Config!Next]_(Config!vars),
                      ~Config!IsConfigured(kept), Config!IsConfigured(kept')
               PROVE  \E r \in Clients : Config!WritesNow(r, {"replace"})
    OBVIOUS
  <2>1. PICK r \in Clients : Replaces(r)
    BY ConfigStep
  <2>2. request[r].pc # request'[r].pc
    BY <2>1, ReplacesNow
  <2>3. CASE Config!Write(r)
    BY <2>2, <2>3, WriteKeeps DEF Config!WritesNow
  <2>4. CASE Config!Delete(r)
    BY <2>4, KnownConfigurations DEF Config!Delete, Config!IsConfigured
  <2> QED BY <2>1, <2>3, <2>4 DEF Replaces
<1> QED BY <1>1, ConfigInductive, PTL DEF Config!Spec, LogoutIsFinal, Config!LogoutIsFinal

-----------------------------------------------------------------------------
(* ZOffset.                                                                *)

Requested ==
  [op : {"none", "set", "nudge", "refresh"}, pc : {"idle", "send", "wait", "look"},
   goal : Int, move : Int]

OffsetTyped ==
  /\ height \in Int /\ moves \in Seq(Int) /\ reports \in Seq(Int)
  /\ signal \in BOOLEAN /\ stored \in BOOLEAN
  /\ reading = <<>> \/ \E v \in Int : reading = <<v>>
  /\ move \in [Clients -> Requested]
  /\ \A r \in Clients : move[r].pc = "send" => Offset!Moves(r)
  /\ alone \in [Clients -> BOOLEAN] /\ sole \in [Clients -> BOOLEAN]
  /\ answer \in [Clients -> {"none", "ok", "failed"}]
  /\ ~online => reading = <<>>

(* Before its move the printer is one move short of the goal of a request  *)
(* that is alone, and every report says so; after it the printer is there, *)
(* and nothing moves it any more.                                          *)
Before(r) ==
  /\ height + move[r].move = move[r].goal /\ move[r].move # 0
  /\ reports \in Seq({height}) /\ reading \in {<<>>, <<height>>}

After(r) == height = move[r].goal /\ moves = <<>>

Knows(r) ==
  /\ \A q \in Clients \ {r} : ~Offset!Moves(q)
  /\ move[r].pc = "send" => Before(r) /\ moves = <<>>
  /\ move[r].pc \in {"wait", "look"} => (Before(r) /\ moves = <<move[r].move>>) \/ After(r)

(* While there is no other request, nobody takes its wakeup.               *)
Wakes(r) ==
  /\ \A q \in Clients \ {r} : move[q].pc = "idle"
  /\ move[r].pc = "wait" /\ reading = <<move[r].goal>> => signal \/ stored

Told(r) == Knows(r) /\ (sole[r] => Wakes(r))

AloneKnows == \A r \in Clients : Offset!Moves(r) /\ alone[r] => Told(r)

LEMMA IdleRequested == Offset!Idle \in Requested /\ Offset!Idle.pc = "idle" /\ Offset!Idle.op = "none"
BY DEF Offset!Idle, Requested

(* What the calls do to the table of requests.                             *)
LEMMA MoveTyped ==
  ASSUME OffsetTyped, NEW r \in Clients, NEW pc0 \in {"send", "wait", "look"}, Offset!Goes(r, pc0)
  PROVE  /\ move' \in [Clients -> Requested]
         /\ \A q \in Clients \ {r} : move'[q] = move[q]
         /\ move'[r].pc = pc0 /\ move'[r].op = move[r].op
         /\ move'[r].goal = move[r].goal /\ move'[r].move = move[r].move
BY DEF OffsetTyped, Requested, Offset!Goes

LEMMA EndTyped ==
  ASSUME OffsetTyped, NEW r \in Clients, NEW how \in {"ok", "failed"}, Offset!Ends(r, how)
  PROVE  /\ move' \in [Clients -> Requested]
         /\ answer' \in [Clients -> {"none", "ok", "failed"}]
         /\ \A q \in Clients \ {r} : move'[q] = move[q]
         /\ move'[r] = Offset!Idle /\ answer'[r] = how
BY IdleRequested DEF OffsetTyped, Offset!Ends

LEMMA BeginTyped ==
  ASSUME OffsetTyped, NEW r \in Clients, NEW op \in {"set", "nudge", "refresh"},
         NEW pc0 \in {"send", "wait"}, NEW goal0 \in Int, NEW move0 \in Int,
         Offset!Begins(r, op, pc0, goal0, move0)
  PROVE  /\ move' \in [Clients -> Requested]
         /\ answer' \in [Clients -> {"none", "ok", "failed"}]
         /\ alone' \in [Clients -> BOOLEAN] /\ sole' \in [Clients -> BOOLEAN]
         /\ \A q \in Clients \ {r} : move'[q] = move[q] /\ ~sole'[q]
         /\ move'[r].op = op /\ move'[r].pc = pc0
         /\ move'[r].goal = goal0 /\ move'[r].move = move0
         /\ op = "refresh" => /\ ~alone'[r]
                              /\ \A q \in Clients \ {r} : alone'[q] = alone[q]
         /\ op # "refresh" => /\ alone'[r] => Offset!Settled /\ \A q \in Clients \ {r} : ~Offset!Moves(q)
                              /\ \A q \in Clients \ {r} : ~alone'[q]
         /\ sole'[r] => \A q \in Clients \ {r} : move[q] = Offset!Idle
<1> DEFINE new == [op |-> op, pc |-> pc0, goal |-> goal0, move |-> move0]
<1>1. new \in Requested /\ new.op = op /\ new.pc = pc0 /\ new.goal = goal0 /\ new.move = move0
  BY DEF Requested
<1>2. move' = [move EXCEPT ![r] = new]
  BY DEF Offset!Begins
<1> HIDE DEF new
<1>3. move' \in [Clients -> Requested] /\ move'[r] = new /\ \A q \in Clients \ {r} : move'[q] = move[q]
  BY <1>1, <1>2 DEF OffsetTyped
<1>4. answer' \in [Clients -> {"none", "ok", "failed"}]
  BY DEF OffsetTyped, Offset!Begins
<1>5. CASE op = "refresh"
  <2>1. alone' = [alone EXCEPT ![r] = FALSE]
    BY <1>5 DEF Offset!Begins, Offset!Movers
  <2> QED BY <1>1, <1>3, <1>4, <1>5, <2>1 DEF OffsetTyped, Offset!Begins
<1>6. CASE op # "refresh"
  <2>1. alone' = [q \in Clients |-> q = r /\ Offset!Settled /\ \A p \in Clients \ {r} : ~Offset!Moves(p)]
    BY <1>6 DEF Offset!Begins, Offset!Movers
  <2>2. /\ alone' \in [Clients -> BOOLEAN]
        /\ \A q \in Clients : alone'[q] = (q = r /\ Offset!Settled /\ \A p \in Clients \ {r} : ~Offset!Moves(p))
    BY <2>1
  <2>3. sole' = [q \in Clients |-> q = r /\ \A p \in Clients \ {r} : move[p] = Offset!Idle]
    BY DEF Offset!Begins
  <2>4. /\ sole' \in [Clients -> BOOLEAN]
        /\ \A q \in Clients : sole'[q] = (q = r /\ \A p \in Clients \ {r} : move[p] = Offset!Idle)
    BY <2>3
  <2> QED BY <1>1, <1>3, <1>4, <1>6, <2>2, <2>4
<1> QED BY <1>5, <1>6

(* A step that leaves the requests alone.                                  *)
LEMMA OutsideStep ==
  ASSUME OffsetTyped, AloneKnows,
         \/ \E m \in Nudges : Offset!Babystep(m)
         \/ Offset!Execute \/ Offset!Report \/ Offset!LoseReport
         \/ Offset!HandleZAxisRecoup \/ Offset!Signal \/ Offset!WorkerStop \/ Offset!WorkerStart
         \/ UNCHANGED Offset!zVars
  PROVE  OffsetTyped' /\ AloneKnows' /\ move' = move
<1> USE DEF Offset!printer, Offset!queue, Offset!zVars, OffsetTyped
<1>1. ASSUME NEW m \in Nudges, Offset!Babystep(m) PROVE OffsetTyped' /\ AloneKnows' /\ move' = move
  <2>1. m \in Int /\ height' \in Int /\ \A r \in Clients : ~alone'[r]
    BY <1>1, OffsetAssumption DEF Offset!Babystep
  <2>2. /\ alone' \in [Clients -> BOOLEAN]
        /\ UNCHANGED <<moves, reports, online, reading, signal, stored, move, answer, sole>>
    BY <1>1 DEF Offset!Babystep
  <2>3. OffsetTyped'
    BY <2>1, <2>2 DEF Offset!Moves
  <2> QED BY <2>1, <2>2, <2>3 DEF AloneKnows
<1>2. CASE Offset!Execute
  <2>1. /\ Head(moves) \in Int /\ Tail(moves) \in Seq(Int)
        /\ height' = height + Head(moves) /\ moves' = Tail(moves)
        /\ UNCHANGED <<reports, online, reading, signal, stored, move, answer, alone, sole>>
    BY <1>2, HeadTailProperties DEF Offset!Execute
  <2>2. \A m \in Int : moves = <<m>> => Head(moves) = m /\ Tail(moves) = <<>>
    OBVIOUS
  <2>3. \A r \in Clients : move[r].move \in Int /\ move[r].goal \in Int
    BY DEF Requested
  <2>4. ASSUME NEW r \in Clients, Told(r) PROVE Told(r)'
    BY <1>2, <2>1, <2>2, <2>3, <2>4 DEF Offset!Execute, Told, Wakes, Knows, Before, After, Offset!Moves
  <2>5. OffsetTyped'
    BY <2>1 DEF Offset!Moves
  <2> QED BY <2>1, <2>4, <2>5 DEF AloneKnows, Offset!Moves
<1>3. CASE Offset!Report
  <2>1. reports' = Append(reports, height) /\ reports' \in Seq(Int)
    BY <1>3 DEF Offset!Report
  <2>2. reports \in Seq({height}) => reports' \in Seq({height})
    BY <2>1, AppendProperties
  <2>3. ASSUME NEW r \in Clients, Told(r) PROVE Told(r)'
    BY <1>3, <2>2, <2>3 DEF Offset!Report, Told, Wakes, Knows, Before, After, Offset!Moves
  <2> QED BY <1>3, <2>1, <2>3 DEF Offset!Report, AloneKnows, Offset!Moves
<1>4. CASE Offset!LoseReport
  <2>1. reports' = Tail(reports) /\ reports # <<>> /\ reports' \in Seq(Int)
    BY <1>4, HeadTailProperties DEF Offset!LoseReport
  <2>2. reports \in Seq({height}) => reports' \in Seq({height})
    BY <2>1, HeadTailProperties
  <2>3. ASSUME NEW r \in Clients, Told(r) PROVE Told(r)'
    BY <1>4, <2>2, <2>3 DEF Offset!LoseReport, Told, Wakes, Knows, Before, After, Offset!Moves
  <2> QED BY <1>4, <2>1, <2>3 DEF Offset!LoseReport, AloneKnows, Offset!Moves
<1>5. CASE Offset!HandleZAxisRecoup
  <2>1. /\ reports # <<>> /\ reading' = <<Head(reports)>> /\ reports' = Tail(reports)
        /\ online /\ stored' = TRUE
        /\ UNCHANGED <<height, moves, online, signal, move, answer, alone, sole>>
    BY <1>5 DEF Offset!HandleZAxisRecoup
  <2>2. Head(reports) \in Int /\ Tail(reports) \in Seq(Int)
    BY <2>1, HeadTailProperties
  <2>3. reports \in Seq({height}) => Head(reports) = height /\ Tail(reports) \in Seq({height})
    BY <2>1, HeadTailProperties
  <2>4. ASSUME NEW r \in Clients, Told(r) PROVE Told(r)'
    BY <2>1, <2>3, <2>4 DEF Told, Wakes, Knows, Before, After, Offset!Moves
  <2> QED BY <2>1, <2>2, <2>4 DEF AloneKnows, Offset!Moves
<1>6. CASE Offset!Signal \/ Offset!WorkerStart \/ UNCHANGED Offset!zVars
  <2>1. ASSUME NEW r \in Clients, Told(r) PROVE Told(r)'
    BY <1>6, <2>1 DEF Offset!Signal, Offset!WorkerStart, Told, Wakes, Knows, Before, After, Offset!Moves
  <2> QED BY <1>6, <2>1 DEF Offset!Signal, Offset!WorkerStart, AloneKnows, Offset!Moves
<1>7. CASE Offset!WorkerStop
  <2>1. /\ reading' = <<>> /\ reports' = <<>> /\ <<>> \in Seq(Int) /\ <<>> \in Seq({height})
        /\ UNCHANGED <<height, moves, signal, stored, move, answer, alone, sole>>
    BY <1>7 DEF Offset!WorkerStop
  <2>2. ASSUME NEW r \in Clients, Told(r) PROVE Told(r)'
    BY <2>1, <2>2 DEF Told, Wakes, Knows, Before, After, Offset!Moves
  <2> QED BY <2>1, <2>2 DEF AloneKnows, Offset!Moves
<1> QED BY <1>1, <1>2, <1>3, <1>4, <1>5, <1>6, <1>7

(* A move that begins is alone when everything rests and no other is under *)
(* way; a refresh moves nothing.                                           *)
LEMMA BeginStep ==
  ASSUME OffsetTyped, AloneKnows, NEW r \in Clients,
         \/ \E h \in Heights : Offset!SetZOffset(r, h)
         \/ \E m \in Nudges : Offset!NudgeZOffset(r, m)
         \/ Offset!RefreshZOffset(r)
  PROVE  OffsetTyped' /\ AloneKnows' /\ move[r] = Offset!Idle
<1> USE DEF Offset!printer, Offset!queue
<1>1. ASSUME NEW op \in {"set", "nudge"}, NEW goal0 \in Int, NEW move0 \in Int,
             reading # <<>>, reading[1] + move0 = goal0, move0 # 0,
             Offset!Begins(r, op, "send", goal0, move0),
             UNCHANGED <<height, moves, reports, online, reading, signal, stored>>
      PROVE  OffsetTyped' /\ AloneKnows' /\ move[r] = Offset!Idle
  <2>1. /\ move' \in [Clients -> Requested]
        /\ answer' \in [Clients -> {"none", "ok", "failed"}]
        /\ alone' \in [Clients -> BOOLEAN] /\ sole' \in [Clients -> BOOLEAN]
        /\ \A q \in Clients \ {r} : move'[q] = move[q] /\ ~alone'[q]
        /\ move'[r].op = op
        /\ move'[r].pc = "send" /\ move'[r].goal = goal0 /\ move'[r].move = move0
        /\ alone'[r] => Offset!Settled /\ \A q \in Clients \ {r} : ~Offset!Moves(q)
        /\ sole'[r] => \A q \in Clients \ {r} : move[q] = Offset!Idle
    BY <1>1, BeginTyped
  <2>2. OffsetTyped'
    BY <1>1, <2>1 DEF OffsetTyped, Offset!Moves, Offset!Movers
  <2>3. ASSUME alone'[r] PROVE Told(r)'
    <3>1. /\ \A q \in Clients \ {r} : ~Offset!Moves(q)'
          /\ sole'[r] => \A q \in Clients \ {r} : move'[q].pc = "idle"
      BY <2>1, <2>3, IdleRequested DEF Offset!Moves
    <3>2. moves = <<>> /\ reports = <<>> /\ reading = <<height>> /\ <<>> \in Seq({height})
      BY <2>1, <2>3 DEF Offset!Settled
    <3> QED BY <1>1, <2>1, <3>1, <3>2 DEF Told, Wakes, Knows, Before
  <2> QED BY <1>1, <2>1, <2>2, <2>3 DEF AloneKnows, Offset!Begins
<1>2. ASSUME NEW h \in Heights, Offset!SetZOffset(r, h)
      PROVE  OffsetTyped' /\ AloneKnows' /\ move[r] = Offset!Idle
  <2>1. h \in Int /\ reading[1] \in Int /\ h - reading[1] \in Int
        /\ reading[1] + (h - reading[1]) = h /\ h - reading[1] # 0
    BY <1>2, OffsetAssumption DEF Offset!SetZOffset, OffsetTyped
  <2> QED BY <1>1, <1>2, <2>1 DEF Offset!SetZOffset
<1>3. ASSUME NEW m \in Nudges, Offset!NudgeZOffset(r, m)
      PROVE  OffsetTyped' /\ AloneKnows' /\ move[r] = Offset!Idle
  <2>1. m \in Int /\ reading[1] \in Int /\ reading[1] + m \in Int /\ m # 0
    BY <1>3, OffsetAssumption DEF Offset!NudgeZOffset, OffsetTyped
  <2> QED BY <1>1, <1>3, <2>1 DEF Offset!NudgeZOffset
<1>4. CASE Offset!RefreshZOffset(r)
  <2>1. Offset!Begins(r, "refresh", "wait", 0, 0)
    BY <1>4 DEF Offset!RefreshZOffset
  <2>2. /\ move' \in [Clients -> Requested]
        /\ answer' \in [Clients -> {"none", "ok", "failed"}]
        /\ alone' \in [Clients -> BOOLEAN] /\ sole' \in [Clients -> BOOLEAN]
        /\ move'[r].op = "refresh" /\ move'[r].pc = "wait"
        /\ \A q \in Clients \ {r} : move'[q] = move[q] /\ alone'[q] = alone[q] /\ ~sole'[q]
    <3>1. "refresh" \in {"set", "nudge", "refresh"} /\ "wait" \in {"send", "wait"} /\ 0 \in Int
      OBVIOUS
    <3> QED BY <2>1, <3>1, BeginTyped, Zenon
  <2>3. UNCHANGED <<height, moves, reports, online, reading, stored>> /\ signal' = FALSE
    BY <1>4 DEF Offset!RefreshZOffset
  <2>4. ~Offset!Moves(r)' /\ \A q \in Clients \ {r} : Offset!Moves(q)' <=> Offset!Moves(q)
    BY <2>2 DEF Offset!Moves, Offset!Movers
  <2>5. OffsetTyped'
    BY <2>2, <2>3, <2>4 DEF OffsetTyped
  <2>6. ASSUME NEW q \in Clients \ {r}, Knows(q) PROVE Knows(q)'
    BY <2>2, <2>3, <2>4, <2>6 DEF Knows, Before, After
  <2> QED BY <2>1, <2>2, <2>4, <2>5, <2>6 DEF AloneKnows, Told, Offset!Begins
<1> QED BY <1>2, <1>3, <1>4

(* A request that ends, and how.                                           *)
Answered(r) == Offset!SendFails(r) \/ Offset!Confirmed(r) \/ Offset!TimesOut(r)

(* While one moves the printer alone, the others that go on refresh.       *)
LEMMA GoStep ==
  ASSUME OffsetTyped, AloneKnows, NEW r \in Clients,
         \/ Offset!SendZOffsetDelta(r) \/ Offset!Wake(r) \/ Offset!LookAgain(r) \/ Answered(r)
  PROVE  OffsetTyped' /\ AloneKnows'
<1> USE DEF Offset!printer, Offset!queue
<1>1. ASSUME NEW q \in Clients, q # r, Offset!Moves(q)', alone'[q],
             \A p \in Clients \ {r} : move'[p] = move[p], UNCHANGED <<alone, sole>>,
             Offset!Moves(r)' => Offset!Moves(r),
             Offset!Moves(r) \/ UNCHANGED <<height, moves, reports, online, reading, stored>>
      PROVE  Told(q)'
  <2>1. Told(q) /\ move[r].pc # "idle"
    BY <1>1 DEF AloneKnows, Offset!Moves, Answered, Offset!SendZOffsetDelta, Offset!Wake,
       Offset!LookAgain, Offset!SendFails, Offset!Confirmed, Offset!TimesOut, Offset!At
  <2>2. ~sole[q] /\ ~Offset!Moves(r)
    BY <1>1, <2>1 DEF Told, Wakes, Knows
  <2>3. \A p \in Clients \ {r} : Offset!Moves(p)' <=> Offset!Moves(p)
    BY <1>1 DEF Offset!Moves
  <2> QED BY <1>1, <2>1, <2>2, <2>3 DEF Told, Knows, Before, After
<1>2. CASE Offset!SendZOffsetDelta(r)
  <2>1. move[r].move \in Int /\ move[r].goal \in Int /\ move[r].pc = "send"
    BY <1>2 DEF OffsetTyped, Requested, Offset!SendZOffsetDelta, Offset!At
  <2>2. /\ moves' = Append(moves, move[r].move) /\ Offset!Goes(r, "wait")
        /\ UNCHANGED <<height, reports, online, reading, signal, stored, answer, alone, sole>>
    BY <1>2 DEF Offset!SendZOffsetDelta
  <2>6. Offset!Moves(r) /\ \A q \in Clients : Offset!Moves(q)' <=> Offset!Moves(q)
    BY <2>1, <2>2, MoveTyped DEF OffsetTyped, Offset!Moves
  <2>3. OffsetTyped'
    <3>1. moves' \in Seq(Int)
      BY <2>1, <2>2 DEF OffsetTyped
    <3>2. move' \in [Clients -> Requested] /\ move'[r].pc = "wait"
          /\ \A q \in Clients \ {r} : move'[q] = move[q]
      BY <2>2, MoveTyped
    <3>3. \A q \in Clients : move'[q].pc = "send" => Offset!Moves(q)'
      BY <2>6, <3>2 DEF OffsetTyped
    <3> QED BY <2>2, <3>1, <3>2, <3>3 DEF OffsetTyped
  <2>4. moves = <<>> => moves' = <<move[r].move>>
    BY <2>1, <2>2
  <2>5. ASSUME Told(r) PROVE Told(r)'
    <3>1. Before(r) /\ moves = <<>>
      BY <2>1, <2>5 DEF Told, Knows
    <3>2. reading # <<move[r].goal>>
      <4>1. height # move[r].goal
        BY <2>1, <3>1 DEF Before, OffsetTyped
      <4>2. <<>> # <<move[r].goal>> /\ <<height>> # <<move[r].goal>>
        BY <4>1
      <4> QED BY <3>1, <4>2 DEF Before
    <3>3. move'[r].move = move[r].move /\ move'[r].goal = move[r].goal
      BY <2>2, MoveTyped
    <3>4. Before(r)'
      BY <2>2, <3>1, <3>3 DEF Before
    <3> QED BY <2>1, <2>2, <2>4, <2>5, <3>1, <3>2, <3>3, <3>4, <2>6, MoveTyped DEF Told, Wakes, Knows
  <2> QED BY <1>1, <2>2, <2>3, <2>5, <2>6, MoveTyped DEF AloneKnows
<1>3. CASE Offset!Wake(r) \/ Offset!LookAgain(r)
  <2>1. PICK pc0 \in {"wait", "look"} : Offset!Goes(r, pc0)
    BY <1>3 DEF Offset!Wake, Offset!LookAgain
  <2>5. \A q \in Clients : Offset!Moves(q)' <=> Offset!Moves(q)
    BY <2>1, MoveTyped DEF Offset!Moves
  <2>2. OffsetTyped'
    BY <1>3, <2>1, <2>5, MoveTyped DEF Offset!Wake, Offset!LookAgain, OffsetTyped
  <2>3. ASSUME Told(r), Offset!Moves(r) PROVE Told(r)'
    <3>1. CASE Offset!Wake(r)
      BY <2>3, <2>5, <3>1, MoveTyped DEF Offset!Wake, Offset!At, Told, Wakes, Knows, Before, After
    <3>2. CASE Offset!LookAgain(r)
      <4>1. reading # <<move[r].goal>>
        BY <2>3, <3>2 DEF Offset!LookAgain, Offset!Confirms, OffsetTyped, Offset!Moves, Offset!Movers
      <4> QED BY <2>3, <2>5, <3>2, <4>1, MoveTyped
              DEF Offset!LookAgain, Offset!At, Told, Wakes, Knows, Before, After
    <3> QED BY <1>3, <3>1, <3>2
  <2>4. UNCHANGED <<alone, sole, height, moves, reports, online, reading, stored>>
    BY <1>3 DEF Offset!Wake, Offset!LookAgain
  <2> QED BY <1>1, <2>1, <2>2, <2>3, <2>4, <2>5, MoveTyped DEF AloneKnows
<1>4. CASE Answered(r)
  <2>1. PICK how \in {"ok", "failed"} : Offset!Ends(r, how)
    BY <1>4 DEF Answered, Offset!SendFails, Offset!Confirmed, Offset!TimesOut
  <2>3. ~Offset!Moves(r)' /\ move'[r].pc = "idle"
    BY <2>1, EndTyped, IdleRequested DEF Offset!Moves, Offset!Movers
  <2>4. \A q \in Clients \ {r} : Offset!Moves(q)' <=> Offset!Moves(q)
    BY <2>1, EndTyped DEF Offset!Moves
  <2>2. OffsetTyped' /\ UNCHANGED <<alone, sole, height, moves, reports, online, reading, stored>>
    BY <1>4, <2>1, <2>3, <2>4, EndTyped
    DEF Answered, Offset!SendFails, Offset!Confirmed, Offset!TimesOut, OffsetTyped
  <2> QED BY <1>1, <2>1, <2>2, <2>3, EndTyped DEF AloneKnows
<1> QED BY <1>2, <1>3, <1>4

LEMMA OffsetInductive == Offset!Spec => [](OffsetTyped /\ AloneKnows)
<1>1. Offset!Init => OffsetTyped /\ AloneKnows
  <2> SUFFICES ASSUME Offset!Init PROVE OffsetTyped /\ AloneKnows
    OBVIOUS
  <2>1. <<>> \in Seq(Int) /\ height \in Int
    BY OffsetAssumption DEF Offset!Init
  <2> QED BY <2>1, IdleRequested DEF Offset!Init, OffsetTyped, AloneKnows
<1>2. OffsetTyped /\ AloneKnows /\ [Offset!Next]_(Offset!zVars) => (OffsetTyped /\ AloneKnows)'
  BY OutsideStep, BeginStep, GoStep DEF Offset!Next, Answered
<1> QED BY <1>1, <1>2, PTL DEF Offset!Spec

(* For any requests, heights and moves: while nothing else moves the       *)
(* printer, a success is true, whatever reports come late, twice or not at *)
(* all and whoever else waits for them; and a failure of the only request  *)
(* missed no report that says otherwise, for the one token that all wait   *)
(* on is not taken in vain (mqttqueue.go:898).                             *)
THEOREM AnswerIsTrueHolds == Offset!Spec => AnswerIsTrue
<1> DEFINE Mine(r) == Offset!Moves(r) /\ alone[r] /\ move'[r] = Offset!Idle
           True(r) == IF answer'[r] = "ok" THEN height = move[r].goal
                      ELSE sole[r] => signal \/ stored \/ reading # <<move[r].goal>>
<1>1. OffsetTyped /\ AloneKnows /\ [Offset!Next]_(Offset!zVars)
        => [\A r \in Clients : Mine(r) => True(r)]_(Offset!zVars)
  <2> SUFFICES ASSUME OffsetTyped, AloneKnows, [Offset!Next]_(Offset!zVars), NEW r \in Clients, Mine(r)
               PROVE  True(r)
    OBVIOUS
  <2>1. Told(r) /\ move[r] # Offset!Idle
    BY IdleRequested DEF AloneKnows, Offset!Moves, Offset!Movers
  <2>2. PICK q \in Clients :
          \/ \E h \in Heights : Offset!SetZOffset(q, h)
          \/ \E m \in Nudges : Offset!NudgeZOffset(q, m)
          \/ Offset!RefreshZOffset(q)
          \/ Offset!SendZOffsetDelta(q) \/ Offset!Wake(q) \/ Offset!LookAgain(q) \/ Answered(q)
    BY <2>1, OutsideStep DEF Offset!Next, Answered
  <2>3. Answered(r)
    <3>1. q = r
      <4>1. CASE Answered(q)
        BY <2>1, <4>1, EndTyped DEF Answered, Offset!SendFails, Offset!Confirmed, Offset!TimesOut
      <4>2. CASE Offset!SendZOffsetDelta(q) \/ Offset!Wake(q) \/ Offset!LookAgain(q)
        BY <2>1, <4>2, MoveTyped DEF Offset!SendZOffsetDelta, Offset!Wake, Offset!LookAgain
      <4>3. ASSUME NEW op, NEW pc0, NEW goal0, NEW move0, Offset!Begins(q, op, pc0, goal0, move0), q # r
            PROVE  move'[r] = move[r]
        BY <4>3 DEF Offset!Begins, OffsetTyped
      <4> QED BY <2>1, <2>2, <4>1, <4>2, <4>3
              DEF Offset!SetZOffset, Offset!NudgeZOffset, Offset!RefreshZOffset
    <3>2. ~(Offset!SendZOffsetDelta(r) \/ Offset!Wake(r) \/ Offset!LookAgain(r))
      BY MoveTyped, IdleRequested DEF Offset!SendZOffsetDelta, Offset!Wake, Offset!LookAgain
    <3> QED BY <2>1, <2>2, <3>1, <3>2, BeginStep
  <2>4. CASE Offset!Confirmed(r)
    <3>1. answer'[r] = "ok"
      BY <2>4, EndTyped DEF Offset!Confirmed
    <3>2. reading = <<move[r].goal>> /\ move[r].pc = "look"
      BY <2>4 DEF Offset!Confirmed, Offset!Confirms, Offset!At, Offset!Moves, Offset!Movers, OffsetTyped
    <3>3. height = move[r].goal
      BY <2>1, <3>2 DEF Told, Knows, Before, After, OffsetTyped, Requested
    <3> QED BY <3>1, <3>3
  <2>5. CASE Offset!SendFails(r)
    <3>1. answer'[r] = "failed"
      BY <2>5, EndTyped DEF Offset!SendFails
    <3>2. reading # <<move[r].goal>>
      BY <2>5 DEF Offset!SendFails, OffsetTyped
    <3> QED BY <3>1, <3>2
  <2>6. CASE Offset!TimesOut(r)
    <3>1. answer'[r] = "failed"
      BY <2>6, EndTyped DEF Offset!TimesOut
    <3> QED BY <2>1, <2>6, <3>1 DEF Offset!TimesOut, Offset!At, Told, Wakes
  <2> QED BY <2>3, <2>4, <2>5, <2>6 DEF Answered
<1> QED BY <1>1, OffsetInductive, PTL DEF Offset!Spec, AnswerIsTrue, Offset!AnswerIsTrue
=============================================================================
