---- MODULE MCTasks ----
(*****************************************************************************)
(* Three tasks that outlive the request or the print that began them, and    *)
(* have to end or to settle, model-checked in one run: a behaviour is one of *)
(* the time-lapse worker, of the filament service or of a PPPP session, and  *)
(* the others do not move.                                                   *)
(*****************************************************************************)
EXTENDS FilamentSwap

CONSTANTS Files, MaxDirs, QueueCap, Neighbour, MaxInFlight

VARIABLES
    part,   \* the part that moves: "lapse", "swap" or "session"
    up, enabled, active, resume, disk, name, dismissed, queue, printing,
    state, run, ctx, open, known, addr, pong, user, asProbe, connected, persisted,
    printer, inbox

Capture == INSTANCE Timelapse
Client == INSTANCE PppSession

captureVars == <<up, enabled, active, resume, disk, name, dismissed, queue, printing>>
sessionVars == <<state, run, ctx, open, known, addr, pong, user, asProbe, connected,
                 persisted, printer, inbox>>
taskVars == <<part, vars, captureVars, sessionVars>>

Captures(A) == part = "lapse" /\ A /\ UNCHANGED <<part, vars, sessionVars>>
Swapping(A) == part = "swap" /\ A /\ UNCHANGED <<part, captureVars, sessionVars>>
Session(A) == part = "session" /\ A /\ UNCHANGED <<part, vars, captureVars>>

\* The parts that do not move have one state only.
TasksInit ==
    /\ Init /\ Capture!Init /\ Client!Init
    /\ part \in {"lapse", "swap", "session"}
    /\ part # "lapse" => enabled /\ \A d \in Capture!Dirs : name[d] = CHOOSE f \in Files : TRUE

TasksNext ==
    \/ Captures(Capture!Next)
    \/ Swapping(Next)
    \/ Session(Client!Next)

(* The fairness of the modules.  One part only ever moves, so fairness of a  *)
(* disjunction with an action of each is fairness of each.                   *)
TasksFairness ==
    /\ SF_taskVars(Captures(Capture!HandleCommand) \/ Session(Client!Owner))
    /\ SF_taskVars(Captures(Capture!ResumeExpires) \/ Session(Client!RunCancelled))
    /\ WF_taskVars(Captures(Capture!WorkerStart) \/ Session(Client!RunStep))
    /\ \A d \in Capture!Dirs : WF_taskVars(Captures(Capture!TimePasses(d)) \/ Session(Client!Age))
    /\ \A r \in Requests : WF_taskVars(Swapping(Serves(r)))
    /\ \A token \in Swaps : WF_taskVars(Swapping(StageOf(token)))

TasksSpec == TasksInit /\ [][TasksNext]_taskVars /\ TasksFairness

\* Timelapse: a directory found at a start is removed in the end or captures again.
LeftoversSettle == Capture!LeftoversSettle

\* PppSession: Close returns, and a silent session ends.
CloseReturns == Client!CloseReturns
SilentSessionEnds == Client!SilentSessionEnds
====
