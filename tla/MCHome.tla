---- MODULE MCHome ----
(*****************************************************************************)
(* What works with Home Assistant: the two workers that may cut the          *)
(* printer's power and the bridge that shows it, model-checked in one run: a *)
(* behaviour is one of the print monitor, of power saving or of the bridge,  *)
(* and the others do not move.                                               *)
(*****************************************************************************)
EXTENDS PrintMonitor

CONSTANTS PowerCap, UpdateCap, CommandCap

VARIABLES
    part,   \* the part that moves: "monitor", "power" or "bridge"
    powered, heard, socket, reachable, cfgOn, events, known, idle, awake, backoff, pc, cycle,
    bridgeOn, service, link, subscribed, updates, commands, told, sending,
    hello, greeting, available, retained, displayed, missed

Power == INSTANCE PowerSaving WITH QueueCap <- PowerCap, printer <- powered, queue <- events
Bridge == INSTANCE HomeAssistant WITH enabled <- bridgeOn, worker <- service, state <- told, status <- displayed

powerVars == <<powered, heard, socket, reachable, cfgOn, events, known, idle, awake, backoff, pc, cycle>>
bridgeVars == <<bridgeOn, service, link, subscribed, updates, commands, told, sending,
                hello, greeting, available, retained, displayed, missed>>
homeVars == <<part, vars, powerVars, bridgeVars>>

Monitors(A) == part = "monitor" /\ A /\ UNCHANGED <<part, powerVars, bridgeVars>>
Saves(A) == part = "power" /\ A /\ UNCHANGED <<part, vars, bridgeVars>>
Bridges(A) == part = "bridge" /\ A /\ UNCHANGED <<part, vars, powerVars>>

\* The parts that do not move have one state only.
HomeInit ==
    /\ Init /\ Power!Init /\ Bridge!Init
    /\ part \in {"monitor", "power", "bridge"}
    /\ part # "monitor" => enabled
    /\ part # "power" => cfgOn
    /\ part # "bridge" => bridgeOn

HomeNext == Monitors(Next) \/ Saves(Power!Next) \/ Bridges(Bridge!Next)

(* The fairness of the modules.   One part only ever moves, so fairness of a *)
(* disjunction with an action of each is fairness of each; and the steps of  *)
(* one goroutine, which never compete, may share a disjunction.              *)
HomeFairness ==
    /\ WF_homeVars(Monitors(HandleCommand) \/ Saves(Power!Probe \/ Power!TurnOff \/ Power!TurnOn)
                   \/ Bridges(Bridge!Works))
    /\ WF_homeVars(Monitors(IntervalPasses) \/ Saves(Power!TimePasses)
                   \/ Bridges(Bridge!Connects))
    /\ \A c \in Checks : WF_homeVars(Monitors(Answered(c) \/ Acted(c)))
    /\ \A k \in Countdowns : WF_homeVars(Monitors(GraceOver(k) \/ CutPower(k)))
    /\ WF_homeVars(Bridges(Bridge!NotifyOther))
    /\ SF_homeVars(Monitors(Tick) \/ Saves(Power!Tick) \/ Bridges(Bridge!ApplyUpdate))
    /\ SF_homeVars(Saves(Power!HandleCommand))

HomeSpec == HomeInit /\ [][HomeNext]_homeVars /\ HomeFairness

\* PowerSaving: the worker never takes the power from a print it has been told of.
KnownPrintKeepsPower == Power!KnownPrintKeepsPower

\* PowerSaving: an idle printer's socket is off in the end.
IdleSocketGoesOff == Power!IdleSocketGoesOff

\* HomeAssistant: the print's status is shown in the end.
StatusIsShown == Bridge!StatusIsShown
====
