---------------------------- MODULE Home_proofs ----------------------------
(***************************************************************************)
(* Proofs about the two workers that may cut the printer's power.          *)
(*                                                                         *)
(* PrintMonitor: a countdown sleeps for two minutes and looks at nothing   *)
(* meanwhile; what makes it safe is that whatever ends the countdown the   *)
(* user sees also raises the generation.                                   *)
(*                                                                         *)
(* PowerSaving: the worker decides, asks over the network and switches,    *)
(* and hears of prints by a queue that may be behind; what makes it safe   *)
(* is that it takes no event between the decision and the switch, and that *)
(* no report that a print is over comes after one of the next print.       *)
(***************************************************************************)
EXTENDS MCHome, SequenceTheorems, TLAPS

-----------------------------------------------------------------------------
(* PrintMonitor.                                                           *)

Goroutines == [Countdowns -> {"none", "armed", "void", "cutting"}]

(* A countdown of the present generation is the one the user sees; there   *)
(* is one at most.                                                         *)
ArmedIsShown == countdown \in Goroutines /\ \A k \in Countdowns : countdown[k] = "armed" => shown = k

(* Whatever clears the pending power-off leaves no countdown armed.        *)
LEMMA ClearedDisarms ==
  ASSUME ArmedIsShown, ClearPending
  PROVE  /\ ArmedIsShown'
         /\ \A k \in Countdowns : countdown[k] # "cutting" => countdown'[k] # "cutting"
BY DEF ArmedIsShown, ClearPending, NextGeneration, Goroutines

(* Only the end of a grace period decides to cut the power.                *)
Decides == \E k \in Countdowns : GraceOver(k)

LEMMA StepArmed ==
  ASSUME ArmedIsShown, [Next]_vars
  PROVE  /\ ArmedIsShown'
         /\ \/ Decides
            \/ \A k \in Countdowns : countdown[k] # "cutting" => countdown'[k] # "cutting"
<1>1. CASE Starts \/ Resumes \/ FirstLayer \/ UNCHANGED vars
  BY <1>1 DEF Starts, Resumes, Prints, FirstLayer, vars, off, ArmedIsShown
<1>2. CASE Pauses \/ Ends \/ PowerBack \/ CancelAutoOff
  BY <1>2, ClearedDisarms DEF Pauses, Ends, PowerBack, NotPrinting, CancelAutoOff
<1>3. CASE (\E on \in BOOLEAN : Configure(on)) \/ HandleCommand
  BY <1>3 DEF Configure, HandleCommand, off, ArmedIsShown
<1>4. CASE Tick \/ RunOnceResult \/ IntervalPasses
  BY <1>4 DEF Tick, RunOnceResult, Begin, IntervalPasses, off, ArmedIsShown
<1>5. ASSUME NEW c \in Checks, Answered(c)
      PROVE  ArmedIsShown' /\ UNCHANGED countdown
  BY <1>5 DEF Answered, FinishCheck, off, ArmedIsShown
<1>6. ASSUME NEW c \in Checks, Acted(c)
      PROVE  /\ ArmedIsShown'
             /\ \A k \in Countdowns : countdown[k] # "cutting" => countdown'[k] # "cutting"
  <2>1. CASE EmergencyStop(c) \/ NoCountdown(c)
    BY <2>1 DEF EmergencyStop, NoCountdown, off, ArmedIsShown
  <2>2. CASE CancelAfterCheck(c)
    BY <2>2, ClearedDisarms DEF CancelAfterCheck
  <2>3. ASSUME NEW k \in Countdowns, ScheduleGracefulOff(c, k)
        PROVE  /\ ArmedIsShown'
               /\ \A j \in Countdowns : countdown[j] # "cutting" => countdown'[j] # "cutting"
    BY <2>3 DEF ScheduleGracefulOff, NextGeneration, ArmedIsShown, Goroutines
  <2> QED BY <1>6, <2>1, <2>2, <2>3 DEF Acted
<1>7. ASSUME NEW k \in Countdowns, GraceOver(k) PROVE ArmedIsShown'
  BY <1>7 DEF GraceOver, ArmedIsShown, Goroutines
<1>8. ASSUME NEW k \in Countdowns, CutPower(k)
      PROVE  /\ ArmedIsShown'
             /\ \A j \in Countdowns : countdown[j] # "cutting" => countdown'[j] # "cutting"
  BY <1>8 DEF CutPower, ArmedIsShown, Goroutines
<1> QED BY <1>1, <1>2, <1>3, <1>4, <1>5, <1>6, <1>7, <1>8 DEF Next, Decides

LEMMA Inductive == Spec => []ArmedIsShown
<1>1. Init => ArmedIsShown
  BY DEF Init, ArmedIsShown, Goroutines
<1> QED BY <1>1, StepArmed, PTL DEF Spec

(* However many countdowns sleep, whatever checks, users and prints do      *)
(* meanwhile: one that was cancelled, by the user, a healthy check or the  *)
(* end of the print, never cuts the power, and neither does the one before *)
(* the one that is shown (print_monitor.go:1073-1084).                     *)
THEOREM CutsWhatIsShownHolds == Spec => CutsWhatIsShown
<1> DEFINE A == \A k \in Countdowns : countdown[k] # "cutting" /\ countdown'[k] = "cutting" => shown = k
<1>1. ArmedIsShown /\ [Next]_vars => [A]_vars
  <2> SUFFICES ASSUME ArmedIsShown, [Next]_vars PROVE A
    OBVIOUS
  <2>1. ASSUME NEW j \in Countdowns, GraceOver(j) PROVE A
    BY <2>1 DEF GraceOver, Fires, ArmedIsShown, Goroutines
  <2> QED BY <2>1, StepArmed DEF Decides
<1> QED BY <1>1, Inductive, PTL DEF Spec, CutsWhatIsShown

Phases == [phase : {"free", "running", "healthy", "failing", "animal"}, on : BOOLEAN]

(* What a check may leave to do.                                           *)
LEMMA VerdictTyped ==
  ASSUME NEW completion \in Completions, NEW opinion \in Opinions(completion),
         NEW v \in Verdicts(opinion)
  PROVE  Todo(v) \in {"healthy", "failing", "animal"}
<1>1. opinion \in {"none", "garbled", "fine", "unsure", "failing", "animal"}
  BY DEF Opinions
<1>2. v \in {"error", "healthy", "failing", "animal"}
  BY <1>1 DEF Verdicts
<1> QED BY <1>2 DEF Todo

LEMMA TypeStep == TypeOK /\ [Next]_vars => TypeOK'
<1> SUFFICES ASSUME TypeOK, [Next]_vars PROVE TypeOK'
  OBVIOUS
<1> USE DEF TypeOK, Countdowns
<1>1. CASE Starts \/ Resumes \/ FirstLayer \/ UNCHANGED vars
  BY <1>1 DEF Starts, Resumes, Prints, FirstLayer, vars, config, off
<1>2. CASE Pauses \/ Ends \/ PowerBack \/ CancelAutoOff
  <2>1. countdown' \in [Countdowns -> {"none", "armed", "void", "cutting"}]
    BY <1>2 DEF Pauses, Ends, PowerBack, NotPrinting, CancelAutoOff, ClearPending, NextGeneration
  <2> QED BY <1>2, <2>1
           DEF Pauses, Ends, PowerBack, NotPrinting, CancelAutoOff, ClearPending, config
<1>3. ASSUME NEW on \in BOOLEAN, Configure(on) PROVE TypeOK'
  <2>1. cmds' \in Seq(BOOLEAN) /\ Len(cmds') <= QueueCap
    <3>1. CASE Len(cmds) < QueueCap
      <4>1. cmds' = Append(cmds, on)
        BY <1>3, <3>1 DEF Configure
      <4>2. cmds' \in Seq(BOOLEAN) /\ Len(cmds') = Len(cmds) + 1
        BY <4>1, AppendProperties
      <4> QED BY <3>1, <4>2, MonitorAssumption
    <3>2. CASE ~(Len(cmds) < QueueCap)
      BY <1>3, <3>2 DEF Configure
    <3> QED BY <3>1, <3>2
  <2>2. enabled' \in BOOLEAN
    BY <1>3 DEF Configure
  <2> QED BY <1>3, <2>1, <2>2 DEF Configure, off
<1>4. CASE HandleCommand
  <2>1. cmds' \in Seq(BOOLEAN) /\ Len(cmds') <= QueueCap /\ enabled' \in BOOLEAN
    <3>1. cmds # <<>> /\ enabled' = Head(cmds) /\ cmds' = Tail(cmds)
      BY <1>4 DEF HandleCommand
    <3>2. Head(cmds) \in BOOLEAN /\ Tail(cmds) \in Seq(BOOLEAN) /\ Len(Tail(cmds)) = Len(cmds) - 1
      BY <3>1, HeadTailProperties
    <3>3. Len(cmds) \in Nat
      OBVIOUS
    <3> QED BY <3>1, <3>2, <3>3, MonitorAssumption
  <2> QED BY <1>4, <2>1 DEF HandleCommand, off
<1>5. ASSUME NEW c \in Checks, Begin(c) PROVE TypeOK'
  <2>1. [phase |-> "running", on |-> enabled] \in Phases
    BY DEF Phases
  <2>2. check' \in [Checks -> Phases]
    BY <1>5, <2>1 DEF Begin, Phases
  <2> QED BY <1>5, <2>2 DEF Begin, config, off, Phases
<1>6. CASE IntervalPasses
  BY <1>6 DEF IntervalPasses, config, off
<1>7. ASSUME NEW c \in Checks, Answered(c) PROVE TypeOK'
  <2> PICK completion \in Completions :
        \E opinion \in Opinions(completion) : \E v \in Verdicts(opinion) : FinishCheck(c, v)
    BY <1>7 DEF Answered
  <2> PICK opinion \in Opinions(completion) : \E v \in Verdicts(opinion) : FinishCheck(c, v)
    OBVIOUS
  <2>1. PICK v \in Verdicts(opinion) : FinishCheck(c, v)
    OBVIOUS
  <2>2. [phase |-> Todo(v), on |-> FALSE] \in Phases
    BY VerdictTyped DEF Phases
  <2>3. check' \in [Checks -> Phases]
    BY <2>1, <2>2 DEF FinishCheck, Phases
  <2> QED BY <2>1, <2>3 DEF FinishCheck, Reschedule, config, off, Phases
<1>8. ASSUME NEW c \in Checks, Acted(c) PROVE TypeOK'
  <2>1. Done(c) => check' \in [Checks -> Phases]
    BY DEF Done, Free, Phases
  <2>2. CASE EmergencyStop(c) \/ NoCountdown(c)
    BY <2>1, <2>2 DEF EmergencyStop, NoCountdown, LosePower, config, off, Phases
  <2>3. CASE CancelAfterCheck(c)
    BY <2>1, <2>3 DEF CancelAfterCheck, ClearPending, NextGeneration, config, Phases
  <2>4. ASSUME NEW k \in Countdowns, ScheduleGracefulOff(c, k) PROVE TypeOK'
    <3>1. countdown' \in [Countdowns -> {"none", "armed", "void", "cutting"}]
      BY <2>4 DEF ScheduleGracefulOff, NextGeneration
    <3> QED BY <2>1, <2>4, <3>1 DEF ScheduleGracefulOff, config, Phases
  <2> QED BY <1>8, <2>2, <2>3, <2>4 DEF Acted
<1>9. ASSUME NEW k \in Countdowns, GraceOver(k) \/ CutPower(k) PROVE TypeOK'
  BY <1>9 DEF GraceOver, CutPower, LosePower, config, off, None
<1> QED BY <1>1, <1>2, <1>3, <1>4, <1>5, <1>6, <1>7, <1>8, <1>9
         DEF Next, Tick, RunOnceResult, Checks

(* Variables keep their types, and the queue of settings its capacity.     *)
THEOREM TypeCorrect == Spec => []TypeOK
<1>1. Init => TypeOK
  <2> SUFFICES ASSUME Init PROVE TypeOK
    OBVIOUS
  <2>1. cmds \in Seq(BOOLEAN) /\ Len(cmds) <= QueueCap
    BY MonitorAssumption DEF Init
  <2> QED BY <2>1 DEF Init, TypeOK, Free, Countdowns, Checks, None
<1> QED BY <1>1, TypeStep, PTL DEF Spec

-----------------------------------------------------------------------------
(* PowerSaving.                                                            *)

Events == [event : {"printing", "paused", "idle", "dashboard"}, own : BOOLEAN]

(* A report in the queue, or handled, that is about the print at hand: no  *)
(* report of an end comes after it.                                        *)
EndsComeBefore ==
  /\ events \in Seq(Events)
  /\ \A i \in 1..Len(events) : events[i].own => events[i].event \in {"printing", "paused"}
  /\ \A i, j \in 1..Len(events) : i < j /\ events[i].own => events[j].event # "idle"
  /\ heard => \A i \in 1..Len(events) : events[i].event # "idle"

(* What the worker is told of it knows, and it does not switch off what it *)
(* knows of.                                                               *)
HeardIsKnown ==
  /\ heard \in BOOLEAN /\ known \in BOOLEAN
  /\ heard => known
  /\ pc \in {"probe", "off"} => ~known

PowerInv == EndsComeBefore /\ HeardIsKnown

(* A queue with one more report, or none when it is full.                  *)
LEMMA Sent ==
  ASSUME NEW q \in Seq(Events), NEW e \in {"printing", "paused", "idle", "dashboard"}
  PROVE  /\ Power!Send(q, e) \in Seq(Events)
         /\ Len(Power!Send(q, e)) >= Len(q)
         /\ \A i \in 1..Len(Power!Send(q, e)) :
              \/ i <= Len(q) /\ Power!Send(q, e)[i] = q[i]
              \/ /\ i > Len(q) /\ Power!Send(q, e)[i].event = e
                 /\ Power!Send(q, e)[i].own => e \in {"printing", "paused"}
<1> DEFINE new == [event |-> e, own |-> e \in {"printing", "paused"}]
<1>1. new \in Events /\ new.event = e /\ (new.own => e \in {"printing", "paused"})
  <2>1. (e \in {"printing", "paused"}) \in BOOLEAN
    OBVIOUS
  <2>2. new.event = e /\ new.own = (e \in {"printing", "paused"})
    BY Zenon
  <2>3. new \in Events
    BY <2>1, Zenon DEF Events
  <2> QED BY <2>2, <2>3, Zenon
<1>2. CASE Len(q) < PowerCap
  <2>1. Power!Send(q, e) = Append(q, new)
    BY <1>2 DEF Power!Send
  <2> HIDE DEF new
  <2>2. /\ Append(q, new) \in Seq(Events) /\ Len(Append(q, new)) = Len(q) + 1
        /\ \A i \in 1..Len(q) : Append(q, new)[i] = q[i]
        /\ Append(q, new)[Len(q) + 1] = new
    BY <1>1, AppendProperties
  <2>3. Len(q) \in Nat
    OBVIOUS
  <2>4. \A i \in 1..Len(Append(q, new)) : i <= Len(q) \/ i = Len(q) + 1
    BY <2>2, <2>3
  <2>5. \A i \in 1..Len(Append(q, new)) :
          (i <= Len(q) /\ Append(q, new)[i] = q[i]) \/ (i > Len(q) /\ Append(q, new)[i] = new)
    BY <2>2, <2>3, <2>4
  <2>6. Len(Append(q, new)) >= Len(q)
    BY <2>2, <2>3
  <2> QED BY <1>1, <2>1, <2>2, <2>5, <2>6
<1>3. CASE ~(Len(q) < PowerCap)
  BY <1>3 DEF Power!Send
<1> QED BY <1>2, <1>3

LEMMA Disowned ==
  ASSUME NEW q \in Seq(Events)
  PROVE  /\ Power!Earlier(q) \in Seq(Events)
         /\ Len(Power!Earlier(q)) = Len(q)
         /\ \A i \in 1..Len(q) : ~Power!Earlier(q)[i].own /\ Power!Earlier(q)[i].event = q[i].event
<1>1. DOMAIN q = 1..Len(q) /\ Len(q) \in Nat
  OBVIOUS
<1>2. \A i \in 1..Len(q) : q[i] \in Events
  OBVIOUS
<1>3. \A i \in 1..Len(q) : /\ [q[i] EXCEPT !.own = FALSE] \in Events
                          /\ [q[i] EXCEPT !.own = FALSE].own = FALSE
                          /\ [q[i] EXCEPT !.own = FALSE].event = q[i].event
  BY <1>2 DEF Events
<1>4. Power!Earlier(q) = [i \in 1..Len(q) |-> [q[i] EXCEPT !.own = FALSE]]
  BY <1>1 DEF Power!Earlier
<1>5. Power!Earlier(q) \in [1..Len(q) -> Events]
  BY <1>3, <1>4
<1>6. Power!Earlier(q) \in Seq(Events) /\ Len(Power!Earlier(q)) = Len(q)
  BY <1>1, <1>5, LenProperties
<1> QED BY <1>3, <1>4, <1>6

(* The printer's reports: one of an end leaves nothing of its print, and   *)
(* one of a print comes last.                                              *)
LEMMA ReportKept ==
  ASSUME PowerInv, NEW state \in {"printing", "paused", "idle"}, Power!Report(state)
  PROVE  PowerInv'
<1>1. CASE state = "idle" \/ powered = "idle"
  <2> DEFINE q == Power!Earlier(events)
  <2>1. heard' = FALSE /\ events' = Power!Send(q, state) /\ UNCHANGED <<known, pc>>
    BY <1>1 DEF Power!Report
  <2>2. q \in Seq(Events) /\ Len(q) \in Nat /\ \A i \in 1..Len(q) : ~q[i].own
    BY Disowned DEF PowerInv, EndsComeBefore
  <2> HIDE DEF q
  <2>3. /\ events' \in Seq(Events) /\ Len(events') \in Nat
        /\ \A i \in 1..Len(events') :
             \/ i <= Len(q) /\ events'[i] = q[i]
             \/ /\ i > Len(q) /\ events'[i].event = state
                /\ events'[i].own => state \in {"printing", "paused"}
    BY <2>1, <2>2, Sent
  <2>4. \A i \in 1..Len(events') : events'[i].own =>
          /\ events'[i].event \in {"printing", "paused"} /\ i > Len(q)
    BY <2>2, <2>3
  <2>6. \A i, j \in 1..Len(events') : i < j /\ events'[i].own => events'[j].event # "idle"
    <3> SUFFICES ASSUME NEW i \in 1..Len(events'), NEW j \in 1..Len(events'), i < j, events'[i].own
                 PROVE  events'[j].event # "idle"
      OBVIOUS
    <3>1. i > Len(q) /\ state \in {"printing", "paused"}
      BY <2>2, <2>3
    <3>2. j > Len(q)
      BY <2>2, <3>1
    <3> QED BY <2>2, <2>3, <3>1, <3>2
  <2> QED BY <2>1, <2>3, <2>4, <2>6 DEF PowerInv, EndsComeBefore, HeardIsKnown
<1>2. CASE ~(state = "idle" \/ powered = "idle")
  <2>1. heard' = heard /\ events' = Power!Send(events, state) /\ UNCHANGED <<known, pc>>
    BY <1>2 DEF Power!Report
  <2>2. events \in Seq(Events) /\ Len(events) \in Nat
    BY DEF PowerInv, EndsComeBefore
  <2>3. /\ events' \in Seq(Events) /\ Len(events') \in Nat
        /\ \A i \in 1..Len(events') :
             \/ i <= Len(events) /\ events'[i] = events[i]
             \/ /\ i > Len(events) /\ events'[i].event = state
                /\ events'[i].own => state \in {"printing", "paused"}
    BY <2>1, <2>2, Sent
  <2>4. \A i \in 1..Len(events') : i > Len(events) => events'[i].event = state /\ state # "idle"
    BY <1>2, <2>2, <2>3
  <2>5. \A i \in 1..Len(events') : events'[i].own => events'[i].event \in {"printing", "paused"}
    BY <1>2, <2>2, <2>3, <2>4 DEF PowerInv, EndsComeBefore
  <2>6. \A i, j \in 1..Len(events') : i < j /\ events'[i].own => events'[j].event # "idle"
    BY <2>2, <2>3, <2>4 DEF PowerInv, EndsComeBefore
  <2>7. heard' => \A i \in 1..Len(events') : events'[i].event # "idle"
    BY <2>1, <2>2, <2>3, <2>4 DEF PowerInv, EndsComeBefore
  <2> QED BY <2>1, <2>3, <2>5, <2>6, <2>7 DEF PowerInv, EndsComeBefore, HeardIsKnown
<1> QED BY <1>1, <1>2

(* What the worker takes from the queue leaves an order that is kept.      *)
LEMMA CommandKept ==
  ASSUME PowerInv, Power!HandleCommand
  PROVE  PowerInv'
<1> DEFINE cmd == Head(events)
<1>1. /\ events \in Seq(Events) /\ events # <<>> /\ events' = Tail(events) /\ pc = "select"
  BY DEF Power!HandleCommand, PowerInv, EndsComeBefore
<1>2. /\ events' \in Seq(Events) /\ Len(events') \in Nat /\ Len(events) = Len(events') + 1
      /\ \A i \in 1..Len(events') : events'[i] = events[i + 1]
      /\ cmd = events[1] /\ cmd \in Events
  BY <1>1, HeadTailProperties
<1> HIDE DEF cmd
<1>3. \A i \in 1..Len(events') : i + 1 \in 1..Len(events) /\ 1 < i + 1
  BY <1>2
<1>4. 1 \in 1..Len(events)
  BY <1>2
<1>5. /\ \A i \in 1..Len(events') : events'[i].own => events'[i].event \in {"printing", "paused"}
      /\ \A i, j \in 1..Len(events') : i < j /\ events'[i].own => events'[j].event # "idle"
  <2>1. \A i \in 1..Len(events') : events'[i].own => events'[i].event \in {"printing", "paused"}
    BY <1>2, <1>3 DEF PowerInv, EndsComeBefore
  <2>2. ASSUME NEW i \in 1..Len(events'), NEW j \in 1..Len(events'), i < j, events'[i].own
        PROVE  events'[j].event # "idle"
    <3>1. i + 1 \in 1..Len(events) /\ j + 1 \in 1..Len(events) /\ i + 1 < j + 1 /\ events[i + 1].own
      BY <1>2, <1>3, <2>2
    <3>2. events[j + 1].event # "idle"
      BY <3>1 DEF PowerInv, EndsComeBefore
    <3> QED BY <1>2, <3>2
  <2> QED BY <2>1, <2>2
<1>6. heard \/ cmd.own => \A i \in 1..Len(events') : events'[i].event # "idle"
  BY <1>2, <1>3, <1>4 DEF PowerInv, EndsComeBefore
<1>7. heard => cmd.event # "idle"
  BY <1>2, <1>4 DEF PowerInv, EndsComeBefore
<1>8. CASE ~cfgOn
  <2>1. UNCHANGED <<heard, known, pc>>
    BY <1>8 DEF Power!HandleCommand, Power!worker
  <2> QED BY <1>2, <1>5, <1>6, <2>1 DEF PowerInv, EndsComeBefore, HeardIsKnown
<1>9. CASE cfgOn
  <2>1. /\ \/ cmd.event = "dashboard" /\ Power!WakeForDashboard
           \/ cmd.event = "printing" /\ Power!PrintRuns
           \/ cmd.event = "paused" /\ Power!PrintPauses
           \/ cmd.event = "idle" /\ Power!PrintEnds
        /\ heard' = (heard \/ (cmd.event \in {"printing", "paused"} /\ cmd.own))
    BY <1>9 DEF Power!HandleCommand, cmd
  <2>2. pc' \notin {"probe", "off"}
    BY <2>1 DEF Power!WakeForDashboard, Power!PrintRuns, Power!PrintPauses, Power!PrintEnds
  <2>3. known' \in BOOLEAN /\ heard' \in BOOLEAN
    BY <2>1, <1>2 DEF Power!WakeForDashboard, Power!PrintRuns, Power!PrintPauses, Power!PrintEnds,
                      PowerInv, HeardIsKnown, Events
  <2>4. heard' => known'
    BY <2>1, <1>7 DEF Power!WakeForDashboard, Power!PrintRuns, Power!PrintPauses, Power!PrintEnds,
                      PowerInv, HeardIsKnown
  <2> QED BY <1>2, <1>5, <1>6, <2>1, <2>2, <2>3, <2>4 DEF PowerInv, EndsComeBefore, HeardIsKnown
<1> QED BY <1>8, <1>9

LEMMA PowerStep == PowerInv /\ [Power!Next]_(Power!vars) => PowerInv'
<1> SUFFICES ASSUME PowerInv, [Power!Next]_(Power!vars) PROVE PowerInv'
  OBVIOUS
<1> USE DEF Power!world, Power!worker, Power!vars
<1>1. CASE Power!Starts \/ Power!Resumes \/ Power!Pauses \/ Power!Ends
  BY <1>1, ReportKept DEF Power!Starts, Power!Resumes, Power!Pauses, Power!Ends
<1>2. CASE Power!Boots
  <2>1. CASE Power!Report("idle")
    BY <2>1, ReportKept
  <2> QED BY <1>2, <2>1 DEF Power!Boots, PowerInv, EndsComeBefore, HeardIsKnown
<1>3. CASE Power!TouchDashboard
  <2>1. events' = Power!Send(events, "dashboard") /\ UNCHANGED <<heard, known, pc>>
    BY <1>3 DEF Power!TouchDashboard
  <2>2. events \in Seq(Events) /\ Len(events) \in Nat
    BY DEF PowerInv, EndsComeBefore
  <2>3. /\ events' \in Seq(Events) /\ Len(events') \in Nat
        /\ \A i \in 1..Len(events') :
             \/ i <= Len(events) /\ events'[i] = events[i]
             \/ /\ i > Len(events) /\ events'[i].event = "dashboard"
                /\ events'[i].own => "dashboard" \in {"printing", "paused"}
    BY <2>1, <2>2, Sent
  <2>4. \A i \in 1..Len(events') : \/ i <= Len(events) /\ events'[i] = events[i]
                                   \/ ~events'[i].own /\ events'[i].event # "idle"
    BY <2>3
  <2>5. \A i \in 1..Len(events') : events'[i].own => events'[i].event \in {"printing", "paused"}
    BY <2>2, <2>4 DEF PowerInv, EndsComeBefore
  <2>6. \A i, j \in 1..Len(events') : i < j /\ events'[i].own => events'[j].event # "idle"
    BY <2>2, <2>3, <2>4 DEF PowerInv, EndsComeBefore
  <2>7. heard' => \A i \in 1..Len(events') : events'[i].event # "idle"
    BY <2>1, <2>2, <2>4 DEF PowerInv, EndsComeBefore
  <2> QED BY <2>1, <2>3, <2>5, <2>6, <2>7 DEF PowerInv, EndsComeBefore, HeardIsKnown
<1>4. CASE Power!HandleCommand
  BY <1>4, CommandKept
<1>5. CASE Power!Tick
  BY <1>5 DEF Power!Tick, Power!Resting, PowerInv, EndsComeBefore, HeardIsKnown
<1>6. CASE Power!Probe \/ Power!TurnOff \/ Power!TurnOn \/ Power!TimePasses
  BY <1>6 DEF Power!Probe, Power!TurnOff, Power!TurnOn, Power!TimePasses,
              PowerInv, EndsComeBefore, HeardIsKnown
<1>7. CASE \/ Power!SaveSettings \/ Power!HomeAssistantChanges
           \/ \E s \in {"on", "off"} : Power!SmartSocketControl(s)
           \/ Power!CycleOff \/ Power!CycleOn \/ Power!CycleCancelled \/ UNCHANGED Power!vars
  BY <1>7 DEF Power!SaveSettings, Power!HomeAssistantChanges, Power!SmartSocketControl,
              Power!CycleOff, Power!CycleOn, Power!CycleCancelled, Power!Others,
              PowerInv, EndsComeBefore, HeardIsKnown
<1> QED BY <1>1, <1>2, <1>3, <1>4, <1>5, <1>6, <1>7 DEF Power!Next

(* For any capacity of the queue: power saving never takes the power from  *)
(* a print it has been told of, although it decides on a copy, asks Home   *)
(* Assistant over the network first and hears of prints late               *)
(* (power_saving.go:217).                                                  *)
THEOREM KnownPrintKeepsPowerHolds == Power!Spec => KnownPrintKeepsPower
<1> DEFINE A == Power!TurnOff /\ socket' = "off" => ~(heard /\ powered \in {"printing", "paused"})
<1>1. Power!Init => PowerInv
  <2> SUFFICES ASSUME Power!Init PROVE PowerInv
    OBVIOUS
  <2>1. events = <<>> /\ heard = FALSE /\ known = FALSE /\ pc = "select"
    BY DEF Power!Init
  <2>2. events \in Seq(Events) /\ Len(events) = 0
    BY <2>1
  <2>3. 1..Len(events) = {}
    BY <2>2
  <2> QED BY <2>1, <2>2, <2>3 DEF PowerInv, EndsComeBefore, HeardIsKnown
<1>2. PowerInv /\ [Power!Next]_(Power!vars) => [A]_(Power!vars)
  BY DEF Power!TurnOff, PowerInv, HeardIsKnown
<1> QED BY <1>1, <1>2, PowerStep, PTL DEF Power!Spec, KnownPrintKeepsPower, Power!KnownPrintKeepsPower
=============================================================================
