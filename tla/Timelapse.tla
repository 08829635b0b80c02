---- MODULE Timelapse ----
(*****************************************************************************)
(* Time-lapse captures (service/timelapse*.go): a worker that turns the      *)
(* states of the printer and the user's controls, queued as commands, into   *)
(* one active capture and one that may be resumed, each a directory of       *)
(* frames on disk.  A directory outlives the process: WorkerStart goes       *)
(* through those it finds.  Restarting the worker keeps the memory of the    *)
(* service; restarting the process does not.                                 *)
(*                                                                           *)
(* A directory is known by a number that is free again when it is removed;   *)
(* of its frames only whether there are any is kept.                         *)
(*****************************************************************************)
EXTENDS Naturals, Sequences, FiniteSets

CONSTANTS
    Files,    \* names of the printed files
    MaxDirs,  \* bound on the directories on disk at one time
    QueueCap  \* capacity of cmdCh

VARIABLES
    up,       \* does WorkerRun run?
    enabled,  \* timelapse enabled in the settings
    active,   \* directory of the active capture, or 0
    resume,   \* directory of the capture that may be resumed, or 0
    disk,     \* directories by number: [frames, fresh]
    name,     \* the file each was made for
    dismissed,\* directories the user dismissed since the worker started
    queue,    \* cmdCh
    printing  \* file of the print at hand, or "none"

memory == <<enabled, active, resume>>
dirs == <<disk, name, dismissed>>
vars == <<up, memory, dirs, queue, printing>>

Dirs == 1..MaxDirs
Used == DOMAIN disk

Start(f) == [op |-> "start", file |-> f]
Finish(final) == [op |-> IF final THEN "finish" ELSE "pause", file |-> "none"]
Fail == [op |-> "fail", file |-> "none"]

Init ==
    /\ up = FALSE /\ enabled \in BOOLEAN
    /\ active = 0 /\ resume = 0
    /\ disk = <<>> /\ name \in {[d \in Dirs |-> f] : f \in Files} /\ dismissed = {}
    /\ queue = <<>> /\ printing = "none"

Without(D) == [d \in Used \ D |-> disk[d]]

---------------------------------------------------------------------------
(* Commands: dropped when the queue is full.                                 *)

Send(cmd) == queue' = IF Len(queue) < QueueCap THEN Append(queue, cmd) ELSE queue

Notify(state, cmd) ==
    /\ printing' = state
    /\ Send(cmd)
    /\ UNCHANGED <<up, memory, dirs>>

PrintRuns(f) == printing \in {"none", f} /\ Notify(f, Start(f))
PrintPauses == printing # "none" /\ Notify(printing, Finish(FALSE))
PrintEnds == printing # "none" /\ Notify("none", Finish(TRUE))
PrintAborts == printing # "none" /\ Notify("none", Fail)

(* The controls look at the service first and send a command after.          *)
Control(cmd) == Send(cmd) /\ UNCHANGED <<up, memory, dirs, printing>>

ManualStart(f) == active = 0 /\ enabled /\ Control(Start(f))
ManualPause == active # 0 /\ Control(Finish(FALSE))
ManualResume == resume # 0 /\ Control(Start(name[resume]))
ManualStop == active # 0 /\ Control(Finish(TRUE))

ManualDismiss ==
    /\ resume # 0
    /\ resume' = 0
    /\ dismissed' = dismissed \cup ({resume} \cap Used)
    /\ UNCHANGED <<up, enabled, active, disk, name, queue, printing>>

DeleteSnapshotCollection(d) ==
    /\ d \in Used /\ d = resume
    /\ resume' = 0
    /\ disk' = IF d = active THEN disk ELSE Without({d})
    /\ UNCHANGED <<up, enabled, active, name, dismissed, queue, printing>>

Configure == enabled' = ~enabled /\ UNCHANGED <<up, active, resume, dirs, queue, printing>>

---------------------------------------------------------------------------
(* finalizeCaptureLocked makes a video, if there are frames enough, and      *)
(* removes the directory whether or not that succeeds.                       *)

Expired(d) == d \in Used => ~disk[d].fresh
InWindow(d) == d \in Used => disk[d].fresh

NewCapture(f) ==
    LET kept == Without({resume})
        d == CHOOSE e \in Dirs : e \notin DOMAIN kept
    IN /\ DOMAIN kept # Dirs   \* MaxDirs bounds the directories left behind
       /\ active' = d
       /\ disk' = [e \in DOMAIN kept \cup {d} |->
                     IF e = d THEN [frames |-> FALSE, fresh |-> TRUE] ELSE kept[e]]
       /\ name' = [name EXCEPT ![d] = f]
       /\ dismissed' = dismissed \ {d}

HandleStart(f) ==
    IF ~enabled THEN UNCHANGED <<active, resume, dirs>>
    ELSE /\ resume' = 0
         /\ IF resume # 0 /\ name[resume] = f /\ InWindow(resume)
            THEN active' = resume /\ UNCHANGED dirs
            ELSE NewCapture(f)

HandleFinish(final) ==
    IF ~enabled \/ active = 0 THEN UNCHANGED <<active, resume, dirs>>
    ELSE /\ active' = 0
         /\ resume' = IF final THEN 0 ELSE active
         /\ disk' = IF final THEN Without({active}) ELSE disk
         /\ UNCHANGED <<name, dismissed>>

HandleCommand ==
    /\ up /\ queue # <<>>
    /\ queue' = Tail(queue)
    /\ LET cmd == Head(queue) IN
       \/ cmd.op = "start" /\ HandleStart(cmd.file)
       \/ cmd.op = "pause" /\ HandleFinish(FALSE)
       \/ cmd.op \in {"finish", "fail"} /\ HandleFinish(TRUE)
    /\ UNCHANGED <<up, enabled, printing>>

ResumeExpires ==
    /\ up /\ resume # 0 /\ Expired(resume)
    /\ resume' = 0
    /\ disk' = Without({resume})
    /\ UNCHANGED <<up, enabled, active, name, dismissed, queue, printing>>

(* A frame fails when the directory is gone. *)
CaptureFrame ==
    /\ up /\ enabled /\ active \in Used
    /\ disk' = [disk EXCEPT ![active] = [frames |-> TRUE, fresh |-> TRUE]]
    /\ UNCHANGED <<up, memory, name, dismissed, queue, printing>>

(* An hour without a new frame: the window to resume is over. *)
TimePasses(d) ==
    /\ d \in Used /\ disk[d].fresh
    /\ disk' = [disk EXCEPT ![d].fresh = FALSE]
    /\ UNCHANGED <<up, memory, name, dismissed, queue, printing>>

---------------------------------------------------------------------------
(* WorkerStart: of the directories with frames, the youngest may be resumed, *)
(* if it is fresh; the others become videos, or are too old for one.         *)

Fresh == {d \in Used : disk[d].frames /\ disk[d].fresh}

(* Mutant of Kept: every fresh capture is left for later. *)
KeptFresh(r) == Fresh

Kept(r) == {r} \cap Fresh

WorkerStart ==
    /\ ~up /\ up' = TRUE
    /\ \E r \in IF Fresh = {} THEN {0} ELSE Fresh :   \* the youngest
        /\ resume' = IF r = 0 THEN resume ELSE r
        /\ disk' = [d \in Kept(r) |-> disk[d]]
    /\ dismissed' = {}
    /\ UNCHANGED <<enabled, active, name, queue, printing>>

WorkerStop == up /\ up' = FALSE /\ UNCHANGED <<memory, dirs, queue, printing>>

(* The process ends and begins again; the printer goes on. *)
Crash ==
    /\ up' = FALSE
    /\ active' = 0 /\ resume' = 0 /\ queue' = <<>>
    /\ UNCHANGED <<enabled, dirs, printing>>

---------------------------------------------------------------------------
Next ==
    \/ \E f \in Files : PrintRuns(f) \/ ManualStart(f)
    \/ PrintPauses \/ PrintEnds \/ PrintAborts
    \/ ManualPause \/ ManualResume \/ ManualStop \/ ManualDismiss
    \/ \E d \in Dirs : DeleteSnapshotCollection(d) \/ TimePasses(d)
    \/ Configure \/ HandleCommand \/ ResumeExpires \/ CaptureFrame
    \/ WorkerStart \/ WorkerStop \/ Crash

(* The manager restarts the worker; its loop serves commands and ticks in    *)
(* the long run; and a directory nobody writes to grows old.                 *)
Fairness ==
    /\ WF_vars(WorkerStart)
    /\ SF_vars(HandleCommand) /\ SF_vars(ResumeExpires)
    /\ \A d \in Dirs : WF_vars(TimePasses(d))

Spec == Init /\ [][Next]_vars /\ Fairness

---------------------------------------------------------------------------
(* A directory that is there when the process starts, or the worker does     *)
(* with no capture active, is removed in the end or captures again; unless   *)
(* the user dismisses it, which leaves it on disk for the next start.  Its   *)
(* frames may be removed without a video: of a capture that could have been  *)
(* resumed when another file starts (timelapse.go:357), of one too old (505).*)
(* Nothing is said of a directory made later: a start over an active capture *)
(* (its finish was lost) forgets that one's until the next process start.    *)
LeftoversSettle ==
    \A d \in Dirs : (~up /\ active = 0 /\ d \in Used) ~> (d \notin Used \/ active = d \/ d \in dismissed)
====
