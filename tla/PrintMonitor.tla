---- MODULE PrintMonitor ----
(*****************************************************************************)
(* The print monitor (service/print_monitor.go): a worker that has camera    *)
(* frames judged by a vision model from time to time while a print is on,    *)
(* and cuts the printer's power when it sees an animal, or two minutes after *)
(* it sees the print fail, unless somebody cancels that countdown.           *)
(*                                                                           *)
(* Three kinds of goroutine meet under s.mu: the reports of the printer      *)
(* (Notify), the checks, whose verdict comes minutes after they began, and   *)
(* the countdowns, which sleep.                                              *)
(*****************************************************************************)
EXTENDS Naturals, Sequences

CONSTANTS
    QueueCap,   \* capacity of cmdCh
    MaxCountdowns \* bound on the countdowns asleep at one time

ASSUME MonitorAssumption == QueueCap \in Nat \ {0} /\ MaxCountdowns \in Nat \ {0}

VARIABLES
    printer,    \* "idle", "printing", "paused" or "dark" (without power)
    enabled,    \* cfg.Enabled
    cmds,       \* cmdCh: configurations not taken over yet
    active,     \* s.active
    nextCheck,  \* "none", "later" or "due"
    busy,       \* s.checkRunning
    check,      \* what each kind of check is doing
    pending,    \* pendingOffAt # nil
    countdown,  \* the goroutines that sleep or cut the power
    shown       \* the countdown the user sees, or None

config == <<enabled, cmds>>
off == <<pending, countdown, shown>>
vars == <<printer, config, active, nextCheck, busy, check, off>>

Countdowns == 1..MaxCountdowns
None == 0
Checks == {"worker", "request"}

(* A request to the provider is tried three times.                           *)
Completions == {"failed", "content"}

(* What the content says: not JSON, or an opinion, "unsure" when below the   *)
(* threshold.                                                                *)
Opinions(completion) ==
    IF completion = "failed" THEN {"none"} ELSE {"garbled", "fine", "unsure", "failing", "animal"}

(* Without a picture there is no verdict either.  An animal counts only      *)
(* where the settings ask to look for one; what else                         *)
(* the model sees is independent of it.                                      *)
Verdicts(opinion) ==
    CASE opinion \in {"none", "garbled"} -> {"error"}
      [] opinion \in {"fine", "unsure"} -> {"healthy"}
      [] opinion = "failing" -> {"failing"}
      [] opinion = "animal" -> {"animal", "healthy", "failing"}

Todo(verdict) == IF verdict = "error" THEN "healthy" ELSE verdict
Free == [phase |-> "free", on |-> FALSE]

TypeOK ==
    /\ printer \in {"idle", "printing", "paused", "dark"}
    /\ enabled \in BOOLEAN
    /\ cmds \in Seq(BOOLEAN) /\ Len(cmds) <= QueueCap
    /\ active \in BOOLEAN /\ nextCheck \in {"none", "later", "due"} /\ busy \in BOOLEAN
    /\ check \in [Checks -> [phase : {"free", "running", "healthy", "failing", "animal"}, on : BOOLEAN]]
    /\ pending \in BOOLEAN
    /\ countdown \in [Countdowns -> {"none", "armed", "void", "cutting"}]
    /\ shown \in Countdowns \cup {None}

Init ==
    /\ printer = "idle"
    /\ enabled \in BOOLEAN /\ cmds = <<>>
    /\ active = FALSE /\ nextCheck = "none" /\ busy = FALSE
    /\ check = [c \in Checks |-> Free]
    /\ pending = FALSE /\ countdown = [k \in Countdowns |-> "none"]
    /\ shown = None

---------------------------------------------------------------------------
(* A countdown remembers pendingOffGen as it was when the countdown began;   *)
(* adding one to the generation voids those begun before.                    *)

NextGeneration == [k \in Countdowns |-> IF countdown[k] = "armed" THEN "void" ELSE countdown[k]]

ClearPending ==
    /\ pending' = FALSE
    /\ countdown' = NextGeneration
    /\ shown' = None

---------------------------------------------------------------------------
(* Reports of the printer, as MqttQueue forwards them: each change of state, *)
(* and the first layer.                                                      *)

Prints ==
    /\ printer' = "printing"
    /\ active' = TRUE
    /\ nextCheck' = IF nextCheck = "none" THEN "due" ELSE nextCheck
    /\ UNCHANGED <<config, busy, check, off>>

Starts == printer = "idle" /\ Prints
Resumes == printer = "paused" /\ Prints

NotPrinting(state) ==
    /\ printer' = state
    /\ active' = FALSE
    /\ nextCheck' = "none"
    /\ ClearPending
    /\ UNCHANGED <<config, busy, check>>

Pauses == printer = "printing" /\ NotPrinting("paused")
Ends == printer \in {"printing", "paused"} /\ NotPrinting("idle")

(* MqttQueue sends it once per print, which is left out. *)
FirstLayer ==
    /\ printer = "printing"
    /\ enabled /\ active
    /\ nextCheck' = "due"
    /\ UNCHANGED <<printer, config, active, busy, check, off>>

(* Power is back: the printer boots and reports that it is idle. *)
PowerBack == printer = "dark" /\ NotPrinting("idle")

LosePower == printer' \in {printer, "dark"}   \* the call to Home Assistant may fail

---------------------------------------------------------------------------
(* Settings saved by the web server.                                         *)

Configure(on) ==
    /\ IF Len(cmds) < QueueCap
       THEN cmds' = Append(cmds, on) /\ UNCHANGED enabled
       ELSE enabled' = on /\ UNCHANGED cmds
    /\ UNCHANGED <<printer, active, nextCheck, busy, check, off>>

HandleCommand ==
    /\ cmds # <<>>
    /\ enabled' = Head(cmds) /\ cmds' = Tail(cmds)
    /\ nextCheck' = IF Head(cmds) THEN nextCheck ELSE "none"
    /\ UNCHANGED <<printer, active, busy, check, off>>

---------------------------------------------------------------------------
(* Checks.  busy is FALSE again before the verdict is acted on.              *)

Begin(c) ==
    /\ ~busy /\ check[c].phase = "free"
    /\ busy' = TRUE
    /\ check' = [check EXCEPT ![c] = [phase |-> "running", on |-> enabled]]
    /\ UNCHANGED <<printer, config, active, nextCheck, off>>

Tick == enabled /\ active /\ nextCheck = "due" /\ Begin("worker")
RunOnceResult == Begin("request")

IntervalPasses ==
    /\ nextCheck = "later"
    /\ nextCheck' = "due"
    /\ UNCHANGED <<printer, config, active, busy, check, off>>

(* Mutant of Reschedule: a check that ends in an error sets no time. *)
RescheduleAnswered(c, verdict) ==
    IF verdict # "error" /\ check[c].on /\ active THEN "later" ELSE "none"

(* The configuration is the one the check began with. *)
Reschedule(c, verdict) == IF check[c].on /\ active THEN "later" ELSE "none"

FinishCheck(c, verdict) ==
    /\ check[c].phase = "running"
    /\ busy' = FALSE
    /\ nextCheck' = Reschedule(c, verdict)
    /\ check' = [check EXCEPT ![c] = [phase |-> Todo(verdict), on |-> FALSE]]
    /\ UNCHANGED <<printer, config, active, off>>

Done(c) == check' = [check EXCEPT ![c] = Free]

EmergencyStop(c) ==
    /\ check[c].phase = "animal"
    /\ Done(c)
    /\ LosePower
    /\ UNCHANGED <<config, active, nextCheck, busy, off>>

CancelAfterCheck(c) ==
    /\ check[c].phase = "healthy"
    /\ Done(c)
    /\ ClearPending
    /\ UNCHANGED <<printer, config, active, nextCheck, busy>>

(* Nothing happens while another countdown is on, or when the settings do    *)
(* not ask for the power to be cut.                                          *)
NoCountdown(c) ==
    /\ check[c].phase = "failing"
    /\ Done(c)
    /\ UNCHANGED <<printer, config, active, nextCheck, busy, off>>

ScheduleGracefulOff(c, k) ==
    /\ check[c].phase = "failing"
    /\ ~pending /\ countdown[k] = "none"
    /\ \A j \in Countdowns : countdown[j] = "none" => k <= j   \* any will do
    /\ Done(c)
    /\ pending' = TRUE
    /\ countdown' = [NextGeneration EXCEPT ![k] = "armed"]
    /\ shown' = k
    /\ UNCHANGED <<printer, config, active, nextCheck, busy>>

---------------------------------------------------------------------------
(* Countdowns.                                                               *)

CancelAutoOff == ClearPending /\ UNCHANGED <<printer, config, active, nextCheck, busy, check>>

(* Mutant of Fires: the generation is not looked at. *)
FiresAnyway(k) == pending /\ active

Fires(k) == pending /\ countdown[k] = "armed" /\ active

GraceOver(k) ==
    /\ countdown[k] \in {"armed", "void"}
    /\ IF Fires(k)
       THEN countdown' = [countdown EXCEPT ![k] = "cutting"] /\ pending' = FALSE
       ELSE countdown' = [countdown EXCEPT ![k] = "none"] /\ UNCHANGED pending
    /\ UNCHANGED <<printer, config, active, nextCheck, busy, check, shown>>

CutPower(k) ==
    /\ countdown[k] = "cutting"
    /\ countdown' = [countdown EXCEPT ![k] = "none"]
    /\ shown' = IF shown = k THEN None ELSE shown
    /\ LosePower
    /\ UNCHANGED <<config, active, nextCheck, busy, check, pending>>

---------------------------------------------------------------------------
Answered(c) ==
    \E completion \in Completions :
        \E opinion \in Opinions(completion) : \E v \in Verdicts(opinion) : FinishCheck(c, v)
Acted(c) ==
    \/ EmergencyStop(c) \/ CancelAfterCheck(c) \/ NoCountdown(c)
    \/ \E k \in Countdowns : ScheduleGracefulOff(c, k)

Next ==
    \/ Starts \/ Resumes \/ Pauses \/ Ends \/ FirstLayer \/ PowerBack
    \/ \E on \in BOOLEAN : Configure(on)
    \/ HandleCommand \/ Tick \/ RunOnceResult \/ IntervalPasses
    \/ \E c \in Checks : Answered(c) \/ Acted(c)
    \/ CancelAutoOff
    \/ \E k \in Countdowns : GraceOver(k) \/ CutPower(k)

(* The worker's select and its one-second tick, checks, whose requests all   *)
(* have time limits, and sleeping goroutines go on.  Users and the printer   *)
(* owe nothing.  A tick competes with commands in a select, and with the     *)
(* checks of users for busy.                                                 *)
Fairness ==
    /\ WF_vars(HandleCommand) /\ SF_vars(Tick) /\ WF_vars(IntervalPasses)
    /\ \A c \in Checks : WF_vars(Answered(c)) /\ WF_vars(Acted(c))
    /\ \A k \in Countdowns : WF_vars(GraceOver(k)) /\ WF_vars(CutPower(k))

Spec == Init /\ [][Next]_vars /\ Fairness

---------------------------------------------------------------------------
(* A countdown decides to cut the power only while it is the one the user is *)
(* shown: one that was cancelled, by the user or a healthy check, or whose   *)
(* print paused or ended, never does, not even when a new one is on.         *)
CutsWhatIsShown ==
    [][\A k \in Countdowns : countdown[k] # "cutting" /\ countdown'[k] = "cutting" => shown = k]_vars

(* While the monitor stays enabled and a print goes on, checks go on: none   *)
(* that fails, is busy or is overtaken by a user's is the last.              *)
ChecksGoOn == [](enabled /\ \A i \in 1..Len(cmds) : cmds[i]) /\ <>[]active => []<>busy

====
