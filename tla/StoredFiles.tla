---- MODULE StoredFiles ----
(*****************************************************************************)
(* Requests that ask the printer something over MQTT and listen for what it  *)
(* says (service/mqttqueue_files.go, handler/files.go, and the G-code dumps  *)
(* of handler/printer_state.go and QueryBedLeveling).  A reply names no      *)
(* request: it reaches every tap, and each takes what is of the kind it      *)
(* waits for.                                                                *)
(*                                                                           *)
(* A storage holds one file, which has its name.  Preview addresses are kept *)
(* in a cache; one that is there needs none of this, and is left out.        *)
(*****************************************************************************)
EXTENDS Naturals, Sequences, FiniteSets

CONSTANTS
    Requests,
    Storages,    \* onboard and USB: the files one can list and print
    MaxCommands  \* bound: commands the printer has not answered

VARIABLES
    asked,     \* commands the printer has not answered
    job,       \* what the printer prints, or None
    full,      \* it is at 100 % of it, and goes on to report that it prints
    handling,  \* the message the taps have seen and its handler has not, or Nothing
    active,    \* q.printActive
    state,     \* q.currentPrinterStat
    latch,     \* q.finishedAtFull
    pending,   \* q.pendingStoredFilePath, or None
    request,   \* request -> [op, file, pc, heard]
    shield     \* history: the start that set the mark last, while it waits and
               \* the queue has seen no print

filesVars == <<asked, job, full, handling, active, state, latch, pending, request, shield>>
printer == <<asked, job, full>>
print == <<active, state, latch, pending>>

None == "none"

Msg(ct, of) == [ct |-> ct, of |-> of]
Nothing == Msg("none", None)
Idle == [op |-> "none", file |-> None, pc |-> "idle", heard |-> FALSE]

Init ==
    /\ asked = {} /\ job = None /\ full = FALSE /\ handling = Nothing
    /\ active = FALSE /\ state = "idle" /\ latch = FALSE /\ pending = None
    /\ request = [r \in Requests |-> Idle]
    /\ shield = None

IsPrinting == active \/ state \in {"printing", "paused"}
HasPendingStoredFileStart == pending # None

At(r, pc) == request[r].pc = pc
Op(r) == request[r].op
File(r) == request[r].file
Goes(r, pc) == request' = [request EXCEPT ![r].pc = pc]
Ends(r) == request' = [request EXCEPT ![r] = Idle]

---------------------------------------------------------------------------
(* What the printer says, and who hears it.                                  *)

(* storedFileStartConfirmedByPayload *)
StartConfirmed(m, file) ==
    \/ m.ct = "state" /\ m.of \in {"printing", "paused"}
    \/ m.ct \in {"schedule", "complete", "preprint"} /\ m.of = file

(* A preview or a start goes on whether its tap has heard of the file or not, *)
(* so what that one hears is left out.                                       *)
Hears(r, m) ==
    CASE Op(r) = "list" -> m.ct = "list"
      [] Op(r) \in {"dump", "grid"} -> m.ct = "gcode"
      [] request[r].pc \in {"check", "command", "confirm"} -> StartConfirmed(m, File(r))
      [] OTHER -> FALSE

(* Notify calls the taps first; the queue's own handler is a step of its own, *)
(* for the messages that change anything here.                               *)
Notify(m) ==
    /\ handling = Nothing
    /\ handling' = IF m.ct \in {"state", "schedule", "complete"} THEN m ELSE Nothing
    /\ request' = [r \in Requests |-> [request[r] EXCEPT !.heard = @ \/ Hears(r, m)]]
    /\ UNCHANGED <<print, shield>>

---------------------------------------------------------------------------
(* The printer.                                                              *)

(* A list names its storage's file, and a G-code command is echoed; a file   *)
(* request is answered with the file's preview.                              *)
PrinterAnswers(command) ==
    /\ command \in asked /\ asked' = asked \ {command}
    /\ command[1] # "start" /\ Notify(Msg(command[1], command[2]))
    /\ UNCHANGED <<job, full>>

MayStart == job = None \/ full

(* Of a start it tells the state, or the file it prepares, a copy in /tmp. *)
StartsNow(file) ==
    /\ MayStart
    /\ job' = file /\ full' = FALSE
    /\ \E m \in {Msg("state", "printing"), Msg("preprint", file)} : Notify(m)

PrinterObeys(command) ==
    /\ command \in asked /\ asked' = asked \ {command}
    /\ command[1] = "start" /\ StartsNow(command[2])

(* It does not, or its answer is lost. *)
PrinterIgnores(command) ==
    /\ command \in asked /\ asked' = asked \ {command}
    /\ UNCHANGED <<job, full, handling, print, request, shield>>

(* A user starts a file at the printer. *)
PrinterStarts ==
    /\ \E file \in Storages : StartsNow(file)
    /\ UNCHANGED asked

(* Its progress, with the name of the file or without, is below 100 % or at   *)
(* it, which may be the last print's as yet.                                 *)
PrinterTells ==
    /\ job # None
    /\ \E m \in {Msg("state", "printing"), Msg("complete", job), Msg("complete", None)}
                 \cup IF full THEN {}
                      ELSE {Msg("state", "paused"), Msg("preprint", job),
                            Msg("schedule", job), Msg("schedule", None)} : Notify(m)
    /\ UNCHANGED printer

(* It goes on to report that it prints. *)
PrinterCompletes ==
    /\ job # None /\ ~full /\ full' = TRUE
    /\ Notify(Msg("complete", job))
    /\ UNCHANGED <<asked, job>>

PrinterStops ==
    /\ job # None /\ job' = None /\ full' = FALSE
    /\ Notify(Msg("state", "idle"))
    /\ UNCHANGED asked

---------------------------------------------------------------------------
(* The MQTT queue.                                                           *)

(* Where a print is seen, its start is no longer pending. *)
Seen == pending' = None /\ shield' = None

(* The end of a print is latched, until the progress is below 100 % again. *)
HandleState(of) ==
    IF of = "printing" /\ latch THEN UNCHANGED <<print, shield>>
    ELSE /\ state' = of
         /\ active' = CASE of = "printing" -> TRUE [] of = "idle" -> FALSE [] OTHER -> active
         /\ latch' = (latch /\ of # "idle")
         /\ IF (of = "printing" /\ ~active) \/ of = "paused" THEN Seen ELSE UNCHANGED <<pending, shield>>

HandleSchedule(complete, of) ==
    /\ IF of # None /\ pending = of THEN Seen ELSE UNCHANGED <<pending, shield>>
    /\ latch' = (complete /\ (latch \/ active))
    /\ IF complete /\ active THEN active' = FALSE /\ state' = "idle" ELSE UNCHANGED <<active, state>>

HandlePayload ==
    /\ handling # Nothing /\ handling' = Nothing
    /\ IF handling.ct = "state" THEN HandleState(handling.of)
       ELSE HandleSchedule(handling.ct = "complete", handling.of)
    /\ UNCHANGED <<printer, request>>

(* The worker stops, and starts again; what it has not seen it does not know. *)
WorkerStop ==
    /\ handling = Nothing
    /\ active' = FALSE /\ state' = "idle" /\ latch' = FALSE /\ Seen
    /\ UNCHANGED <<printer, handling, request>>

---------------------------------------------------------------------------
(* Requests: the tap is opened first, then the command is sent.              *)

Begins(r, op, file, pc) ==
    /\ request[r] = Idle
    /\ request' = [request EXCEPT ![r] = [op |-> op, file |-> file, pc |-> pc, heard |-> FALSE]]
    /\ UNCHANGED <<printer, handling, print, shield>>

(* q.command and SendGCode, which fail without a client or a broker. *)
Sends(r, from, command, to) ==
    /\ At(r, from)
    /\ asked' = asked \cup {command} /\ Cardinality(asked') <= MaxCommands
    /\ Goes(r, to)
    /\ UNCHANGED <<job, full, handling, print, shield>>

ProbeStoredFiles(r, storage) == Begins(r, "list", storage, "ask")
ReadPrinterReport(r) == Begins(r, "dump", None, "ask")
QueryBedLeveling(r) == Begins(r, "grid", None, "ask")

Ask(r) == Sends(r, "ask", IF Op(r) = "list" THEN <<"list", File(r)>> ELSE <<"gcode", None>>, "collect")

(* The window that the first reply opens is over; that of a grid is fixed.   *)
(* What the replies say is parsed and answered; of a list only the entries   *)
(* that are of its storage.                                                  *)
Collected(r) ==
    /\ At(r, "collect") /\ request[r].heard
    /\ Ends(r)
    /\ UNCHANGED <<printer, handling, print, shield>>

(* collectPrinterGCodeOutput goes on with M114 while it hears replies. *)
DrainProbe(r) ==
    /\ Op(r) = "dump" /\ request[r].heard
    /\ Sends(r, "collect", <<"gcode", None>>, "collect")

NoReply(r) ==
    /\ At(r, "collect") /\ ~request[r].heard
    /\ Ends(r)
    /\ UNCHANGED <<printer, handling, print, shield>>

(* The client has gone, or no command can be sent. *)
Aborts(r) ==
    /\ request[r].pc \in {"ask", "collect", "select", "request", "await"}
    /\ Ends(r)
    /\ UNCHANGED <<printer, handling, print, shield>>

PrinterFileThumbnail(r, file) ==
    /\ ~IsPrinting /\ ~HasPendingStoredFileStart
    /\ Begins(r, "preview", file, "select")

PrinterFilePrint(r, file) ==
    /\ ~IsPrinting /\ ~HasPendingStoredFileStart
    /\ Begins(r, "start", file, "select")

(* The storage is listed, then the file is asked for. *)
Select(r) == Sends(r, "select", <<"list", File(r)>>, "request")
RequestFile(r) == Sends(r, "request", <<"file", File(r)>>, "await")

(* With the preview's address, the image is fetched, or without. *)
PreviewEnds(r) ==
    /\ At(r, "await") /\ Op(r) = "preview"
    /\ Ends(r)
    /\ UNCHANGED <<printer, handling, print, shield>>

(* A start goes on when the file was shown, or after two seconds without. *)
SetPending(r) ==
    /\ At(r, "await") /\ Op(r) = "start"
    /\ pending' = File(r) /\ shield' = r
    /\ request' = [request EXCEPT ![r].pc = "check", ![r].heard = FALSE]
    /\ UNCHANGED <<printer, handling, active, state, latch>>

Started(r) == Ends(r) /\ shield' = IF shield = r THEN None ELSE shield

AlreadyPrinting(r) ==
    /\ At(r, "check") /\ IsPrinting
    /\ Started(r)
    /\ UNCHANGED <<printer, handling, print>>

Check(r) ==
    /\ At(r, "check") /\ ~IsPrinting
    /\ Goes(r, "command")
    /\ UNCHANGED <<printer, handling, print, shield>>

StartCommand(r) == Sends(r, "command", <<"start", File(r)>>, "confirm")

(* Mutant of ClearPendingStoredFileStart: whatever is pending is cleared. *)
ClearAnyPending(file) == pending' = None

ClearPendingStoredFileStart(file) == pending' = IF pending = file THEN None ELSE pending

(* Of two starts of one file, the first that fails clears it for both. *)
StartFails(r) ==
    /\ Ends(r)
    /\ ClearPendingStoredFileStart(File(r))
    /\ shield' = IF shield # None /\ File(shield) = File(r) THEN None ELSE shield
    /\ UNCHANGED <<printer, handling, active, state, latch>>

CommandFails(r) == At(r, "command") /\ StartFails(r)

Confirmed(r) ==
    /\ At(r, "confirm") /\ (IsPrinting \/ request[r].heard)
    /\ Started(r)
    /\ UNCHANGED <<printer, handling, print>>

NotConfirmed(r) == At(r, "confirm") /\ ~IsPrinting /\ StartFails(r)

---------------------------------------------------------------------------
Next ==
    \/ PrinterStarts \/ PrinterTells \/ PrinterCompletes \/ PrinterStops
    \/ \E c \in asked : PrinterAnswers(c) \/ PrinterObeys(c) \/ PrinterIgnores(c)
    \/ HandlePayload \/ WorkerStop
    \/ \E r \in Requests :
         \/ ReadPrinterReport(r) \/ QueryBedLeveling(r)
         \/ \E s \in Storages : ProbeStoredFiles(r, s) \/ PrinterFileThumbnail(r, s) \/ PrinterFilePrint(r, s)
         \/ Ask(r) \/ Collected(r) \/ DrainProbe(r) \/ NoReply(r) \/ Aborts(r)
         \/ Select(r) \/ RequestFile(r) \/ PreviewEnds(r)
         \/ SetPending(r) \/ AlreadyPrinting(r) \/ Check(r) \/ StartCommand(r)
         \/ CommandFails(r) \/ Confirmed(r) \/ NotConfirmed(r)

Spec == Init /\ [][Next]_filesVars

---------------------------------------------------------------------------
(* Requests that passed the guard together may start different files, and    *)
(* there is one mark: the start that set it last is the one it is of, while  *)
(* that start waits and the queue has seen no print (one ignored under the   *)
(* completion latch is not seen).  So no earlier start of another file that  *)
(* fails meanwhile takes the mark from it.  The earlier start itself has lost*)
(* the mark to it, which PendingIsInFlight is about.                         *)
LatestStartIsPending == \A r \in Requests : shield = r => pending = File(r)

(* "HasPendingStoredFileStart reports whether a stored-file start is still   *)
(* in-flight": a start that fails takes the mark when no other waits for the *)
(* printer's answer.  The code does not keep this: of two starts that passed *)
(* the guard together the mark is the later one's, or, of one file, both's.  *)
InFlight(r) == request[r].pc \in {"command", "confirm"}

PendingIsInFlight ==
    [][\A r \in Requests :
         StartFails(r) /\ HasPendingStoredFileStart /\ ~HasPendingStoredFileStart' =>
           \A q \in Requests \ {r} : ~InFlight(q)]_filesVars

====
