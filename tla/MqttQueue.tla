------------------------------ MODULE MqttQueue ------------------------------
(***************************************************************************)
(* How MqttQueue (internal/service/mqttqueue.go) follows a print from what *)
(* the printer reports over MQTT, and keeps its row in the print history.  *)
(*                                                                         *)
(* One goroutine handles the reports, one after the other.  A handler      *)
(* changes the queue under q.mu and calls the database after the unlock:   *)
(* those calls wait in todo, and calls of the HTTP handlers may fall       *)
(* between them.                                                           *)
(*                                                                         *)
(* The printer is what its next report tells of it, so it does not change  *)
(* while a handler is at work.  It reports every change of its state once, *)
(* in order, and repeats its reports at will (it is asked to every few     *)
(* seconds).  An M5C at the end of a print stays in state printing, and    *)
(* reports 100 % at least once more before it starts another print.  Of a  *)
(* print that has just begun it may report the progress of the last one.   *)
(***************************************************************************)
EXTENDS PrintHistory, Sequences

CONSTANTS
  Unnamed,     \* the empty file name
  Reports,     \* the progress values of a print, as they are sent: in percent
               \* or in hundredths of one; the last is that of a complete print
  MaxPrints,   \* bound: prints
  MaxResets,   \* bound: connections lost
  MaxRequests  \* bound: uploads and stored files started

ASSUME MqttAssumption ==
  /\ Unnamed \in Placeholders
  /\ Reports \in Seq(Nat) /\ Reports # <<>>
  /\ Reports[Len(Reports)] = 100 \/ Reports[Len(Reports)] >= 10000
  /\ MaxPrints \in Nat /\ MaxResets \in Nat /\ MaxRequests \in Nat

VARIABLES
  connected,   \* q.client is not nil and its reports are fetched
  active,      \* q.printActive
  pending,     \* q.pendingHistory
  lastFile,    \* q.lastFilename
  stat,        \* q.currentPrinterStat
  latch,       \* q.finishedAtFull
  todo,        \* database calls of the handler at work
  stored,      \* the file StartStoredFile is about to start
  phase,       \* state the printer reports
  file,        \* the file of its print
  step,        \* the progress of its print: an index of Reports
  shown,       \* the progress it reports, which may be the last print's
  owes,        \* what it must still report: "name", "state", "progress"
  prints, resets, requests,
  recorded,    \* history: RecordStart was called for this print
  inserted,    \* history: how many rows those calls inserted
  misread,     \* history: how often it was marked finished before its end
  reset,       \* history: the queue was reset during this print
  crossed      \* history: another file was uploaded or started during it, or
               \* its state was reported before its name

queue   == <<connected, active, pending, lastFile, stat, latch>>
printer == <<phase, file, step, shown, owes>>
bounds  == <<prints, resets, requests>>
history == <<recorded, inserted, misread, reset, crossed>>
vars    == <<historyVars, queue, todo, stored, printer, bounds, history>>

Names == Files \ Placeholders
Phases == {"idle", "printing", "paused", "aborted"}

Init ==
  /\ HistoryInit
  /\ connected = FALSE
  /\ active = FALSE
  /\ pending = FALSE
  /\ lastFile = Unnamed
  /\ stat = "unknown"
  /\ latch = FALSE
  /\ todo = <<>>
  /\ stored = Unnamed
  /\ phase = "idle"
  /\ file = Unnamed
  /\ step = 1
  /\ shown = 1
  /\ owes = {}
  /\ prints = 0
  /\ resets = 0
  /\ requests = 0
  /\ recorded = FALSE
  /\ inserted = 0
  /\ misread = 0
  /\ reset = FALSE
  /\ crossed = FALSE

-----------------------------------------------------------------------------
(* The printer.                                                            *)

Last == Len(Reports)
AtEnd == phase = "printing" /\ step = Last
UnderWay == phase \in {"printing", "paused"} /\ step < Last

(* Nothing is left to report, or nobody listens.                           *)
Settled == todo = <<>> /\ (owes = {} \/ ~connected)

(* "the stale high-progress value the printer briefly re-sends from the    *)
(* previous print at startup" (handlePrintSchedule).                       *)
PrinterStarts(f) ==
  /\ Settled
  /\ prints < MaxPrints
  /\ phase \in {"idle", "aborted"} \/ AtEnd
  /\ phase' = "printing"
  /\ file' = f
  /\ step' = 1
  /\ shown' \in {1, shown}
  /\ owes' = {"name", "state"}
  /\ prints' = prints + 1
  /\ recorded' = FALSE
  /\ inserted' = 0
  /\ misread' = 0
  /\ reset' = ~connected
  /\ crossed' = (stored # Unnamed)
  /\ UNCHANGED <<historyVars, queue, todo, stored, resets, requests>>

PrinterAdvances ==
  /\ Settled
  /\ phase = "printing" /\ step < Last
  /\ step' = step + 1
  /\ shown' = step'
  /\ owes' = IF step' = Last THEN {"progress"} ELSE {}
  /\ UNCHANGED <<historyVars, queue, todo, stored, phase, file, bounds, history>>

(* The progress it reports is that of its print again.                     *)
PrinterRefreshes ==
  /\ Settled
  /\ shown # step
  /\ shown' = step
  /\ UNCHANGED <<historyVars, queue, todo, stored, phase, file, step, owes,
                 bounds, history>>

PrinterTurns(to) ==
  /\ Settled
  /\ phase' = to
  /\ owes' = {"state"}
  /\ UNCHANGED <<historyVars, queue, todo, stored, file, step, shown, bounds,
                 history>>

PrinterPauses == UnderWay /\ phase = "printing" /\ PrinterTurns("paused")
PrinterResumes == phase = "paused" /\ PrinterTurns("printing")
PrinterAborts == UnderWay /\ PrinterTurns("aborted")
PrinterIdles == (AtEnd \/ phase = "aborted") /\ PrinterTurns("idle")

-----------------------------------------------------------------------------
(* The reports.                                                            *)

Handling == connected /\ todo = <<>>

Call(op, f) == [op |-> op, file |-> f]
If(cond, s) == IF cond THEN s ELSE <<>>

NormalizeProgress(raw) ==
  IF raw <= 100 THEN raw ELSE IF raw <= 10000 THEN raw \div 100 ELSE 100

(* handlePayload has normalised the value once already.                    *)
Scaled(raw) == NormalizeProgress(NormalizeProgress(raw))
Percent == Scaled(Reports[shown])

(* Mutant of Complete. *)
BeyondComplete == Percent > 100

Complete == Percent >= 100

(* Mutant of StillLatched. *)
LatchStays == latch

(* A fresh or resumed print clears the latch.                              *)
StillLatched == latch /\ Percent >= 100

(* Mutant of NoteName. *)
FirstNameStays(f) == lastFile' = IF lastFile = Unnamed THEN f ELSE lastFile

NoteName(f) == lastFile' = f

(* ct=1044 *)
HandleCT1044 ==
  /\ Handling
  /\ phase \in {"printing", "paused"}
  /\ NoteName(file)
  /\ todo' = If(active /\ pending, <<Call("start", file)>>)
  /\ recorded' = (recorded \/ (active /\ pending))
  /\ pending' = FALSE
  /\ owes' = owes \ {"name"}
  /\ UNCHANGED <<historyVars, connected, active, stat, latch,
                 stored, phase, file, step, shown, bounds, inserted, misread,
                 reset, crossed>>

(* A print begins, unless it is the end of the last one.                   *)
StatePrinting ==
  /\ phase = "printing" /\ ~latch
  /\ stat' = phase
  /\ active' = TRUE
  /\ IF active
     THEN UNCHANGED <<pending, todo, recorded>>
     ELSE /\ pending' = (pending \/ lastFile = Unnamed)
          /\ todo' = If(lastFile # Unnamed, <<Call("start", lastFile)>>)
          /\ recorded' = (recorded \/ lastFile # Unnamed)
  /\ UNCHANGED latch

StatePrintingIgnored ==
  /\ phase = "printing" /\ latch
  /\ UNCHANGED <<stat, active, pending, todo, recorded, latch>>

StatePaused ==
  /\ phase = "paused"
  /\ stat' = phase
  /\ UNCHANGED <<active, pending, todo, recorded, latch>>

StateOver ==
  /\ phase \in {"idle", "aborted"}
  /\ stat' = phase
  /\ active' = FALSE
  /\ pending' = FALSE
  /\ latch' = FALSE
  /\ UNCHANGED <<todo, recorded>>

(* ct=1000 *)
HandleCT1000 ==
  /\ Handling
  /\ StatePrinting \/ StatePrintingIgnored \/ StatePaused \/ StateOver
  /\ owes' = (owes \ {"state"}) \cup (IF AtEnd THEN {"progress"} ELSE {})
  /\ crossed' = (crossed \/ "name" \in owes)
  /\ UNCHANGED <<historyVars, connected, lastFile, stored, phase, file, step,
                 shown, bounds, inserted, misread, reset>>

(* Mutant of MarkFinished. *)
FinishedStaysActive ==
  /\ stat' = "idle"
  /\ latch' = TRUE
  /\ UNCHANGED active

(* Mutant of MarkFinished. *)
FinishedWithoutLatch ==
  /\ active' = FALSE
  /\ stat' = "idle"
  /\ UNCHANGED latch

(* markPrintFinishedLocked *)
MarkFinished ==
  /\ active' = FALSE
  /\ stat' = "idle"
  /\ latch' = TRUE

(* ct=1001, with the name of the file or without.                          *)
HandlePrintSchedule(named) ==
  /\ Handling
  /\ phase \in {"printing", "paused"}
  /\ LET starts == named /\ active /\ pending
         name   == IF named THEN file ELSE lastFile
         over   == Complete /\ active
     IN /\ IF named THEN NoteName(file) ELSE UNCHANGED lastFile
        /\ todo' = If(starts, <<Call("start", name)>>)
                   \o If(over, <<Call("finish", name)>>)
        /\ recorded' = (recorded \/ starts)
        /\ pending' = (pending /\ ~starts /\ ~over)
        /\ IF over THEN MarkFinished
           ELSE /\ latch' = StillLatched
                /\ UNCHANGED <<active, stat>>
        /\ misread' = IF over /\ step # Last THEN misread + 1 ELSE misread
  /\ owes' = owes \ (IF named THEN {"name", "progress"} ELSE {"progress"})
  /\ UNCHANGED <<historyVars, connected, stored, phase, file, step, shown,
                 bounds, inserted, reset, crossed>>

(* The database calls, after the unlock.                                   *)
HistoryCall ==
  /\ todo # <<>>
  /\ todo' = Tail(todo)
  /\ IF Head(todo).op = "start"
     THEN RecordStart(Head(todo).file, NoTask, NoArchive)
     ELSE RecordFinish(Head(todo).file, NoTask)
  /\ inserted' = IF nextId' # nextId THEN inserted + 1 ELSE inserted
  /\ UNCHANGED <<queue, stored, printer, bounds, recorded, misread, reset,
                 crossed>>

-----------------------------------------------------------------------------
(* The connection.                                                         *)

(* resetPrintStateLocked *)
ResetPrintState ==
  /\ active' = FALSE
  /\ pending' = FALSE
  /\ lastFile' = Unnamed
  /\ stat' = "unknown"
  /\ latch' = FALSE

WorkerStart ==
  /\ ~connected
  /\ connected' = TRUE
  /\ ResetPrintState
  /\ owes' = IF AtEnd THEN {"progress"} ELSE {}
  /\ UNCHANGED <<historyVars, todo, stored, phase, file, step, shown, bounds,
                 history>>

WorkerStop ==
  /\ connected
  /\ todo = <<>>
  /\ resets < MaxResets
  /\ resets' = resets + 1
  /\ connected' = FALSE
  /\ ResetPrintState
  /\ reset' = TRUE
  /\ UNCHANGED <<historyVars, todo, stored, printer, prints, requests,
                 recorded, inserted, misread, crossed>>

(* Reports nobody fetches are lost.                                        *)
LoseReports ==
  /\ ~connected
  /\ owes # {}
  /\ owes' = {}
  /\ UNCHANGED <<historyVars, queue, todo, stored, phase, file, step, shown,
                 bounds, history>>

-----------------------------------------------------------------------------
(* The HTTP handlers.                                                      *)

IsPrinting == active \/ stat \in {"printing", "paused"}

(* The end of an upload, with or without the start of a print: the row of  *)
(* the file is given its archive.                                          *)
UploadRecorded(f, archive) ==
  /\ requests < MaxRequests
  /\ requests' = requests + 1
  /\ RecordStart(f, NoTask, archive)
  /\ crossed' = (crossed \/ f # file)
  /\ UNCHANGED <<queue, todo, stored, printer, prints, resets, recorded,
                 inserted, misread, reset>>

(* StartStoredFile: the handler has looked whether a print is on, then the *)
(* printer is asked to select the file.                                    *)
StartStoredFile(f) ==
  /\ connected
  /\ ~IsPrinting
  /\ stored = Unnamed
  /\ requests < MaxRequests
  /\ requests' = requests + 1
  /\ stored' = f
  /\ crossed' = TRUE
  /\ UNCHANGED <<historyVars, queue, todo, printer, prints, resets, recorded,
                 inserted, misread, reset>>

(* Its name is noted once the printer has answered, or does not.           *)
StoredFileSelected ==
  /\ stored # Unnamed
  /\ lastFile' = stored
  /\ stored' = Unnamed
  /\ crossed' = TRUE
  /\ UNCHANGED <<historyVars, connected, active, pending, stat, latch,
                 todo, printer, bounds, recorded, inserted, misread,
                 reset>>

(* Only closed rows may be deleted one by one; the check comes before the  *)
(* deletion, and no row that is closed is opened again (OutcomeIsFinal).   *)
DeleteSelected ==
  /\ \E r \in rows \ Open : DeleteEntries({r.id})
  /\ UNCHANGED <<queue, todo, stored, printer, bounds, history>>

Clear ==
  /\ rows # {}
  /\ ClearHistory
  /\ UNCHANGED <<queue, todo, stored, printer, bounds, history>>

-----------------------------------------------------------------------------

PrinterStep ==
  \/ \E f \in Names : PrinterStarts(f)
  \/ PrinterAdvances
  \/ PrinterRefreshes
  \/ PrinterPauses
  \/ PrinterResumes
  \/ PrinterAborts
  \/ PrinterIdles

QueueStep ==
  \/ HandleCT1044
  \/ HandleCT1000
  \/ \E named \in BOOLEAN : HandlePrintSchedule(named)
  \/ HistoryCall
  \/ WorkerStart
  \/ WorkerStop
  \/ LoseReports

UserStep ==
  \/ \E f \in Names, archive \in Archives : UploadRecorded(f, archive)
  \/ \E f \in Names : StartStoredFile(f)
  \/ StoredFileSelected
  \/ DeleteSelected
  \/ Clear

Next == PrinterStep \/ QueueStep \/ UserStep

Spec == Init /\ [][Next]_vars

(* maybeQueryStatus asks for the state again and again, and the printer    *)
(* goes on to report progress and name, the last print's only "briefly";   *)
(* the database answers.                                                   *)
FairSpec ==
  /\ Spec
  /\ WF_vars(WorkerStart)
  /\ WF_vars(HistoryCall)
  /\ WF_vars(PrinterRefreshes)
  /\ WF_vars(HandleCT1044)
  /\ WF_vars(HandleCT1000)
  /\ WF_vars(HandlePrintSchedule(TRUE))

-----------------------------------------------------------------------------

Named == Names \cup {Unnamed}

(* What one handler leaves to do after the unlock.                         *)
Todos ==
  {<<>>}
  \cup {<<Call(op, f)>> : op \in {"start", "finish"}, f \in Named}
  \cup {<<Call("start", f), Call("finish", f)>> : f \in Named}

QueueTypeOK ==
  /\ connected \in BOOLEAN /\ active \in BOOLEAN /\ pending \in BOOLEAN
  /\ latch \in BOOLEAN
  /\ lastFile \in Named /\ stored \in Named
  /\ stat \in Phases \cup {"unknown"}
  /\ todo \in Todos
  /\ phase \in Phases /\ file \in Named /\ step \in 1..Last
  /\ shown \in 1..Last
  /\ owes \subseteq {"name", "state", "progress"}
  /\ prints \in 0..MaxPrints /\ resets \in 0..MaxResets
  /\ requests \in 0..MaxRequests
  /\ recorded \in BOOLEAN /\ inserted \in Nat /\ misread \in Nat
  /\ reset \in BOOLEAN /\ crossed \in BOOLEAN

TypeOK == HistoryTypeOK /\ QueueTypeOK

(***************************************************************************)
(* A print is never forgotten: while it is active, either its RecordStart  *)
(* has been called or the next report that names a file will call it; the  *)
(* completion latch is never set during an active print, which it would    *)
(* make deaf to the printer's reports.                                     *)
(***************************************************************************)
StartIsNeverLost ==
  /\ pending => active
  /\ active => ~latch
  /\ active /\ ~pending => recorded

(***************************************************************************)
(* A print has one row, however often it is paused, resumed and reported,  *)
(* and one more for every time a report read as complete before its end:   *)
(* the stale 100 of the last print, or 1 % in hundredths.  A reset of the  *)
(* queue during the print may add others.                                  *)
(***************************************************************************)
OneRowPerPrint == inserted > 1 + misread => reset

(***************************************************************************)
(* The history call of a report names the file of the print it is about,   *)
(* and closes no other file's row.  This is not so, and excluded, when the *)
(* queue was reset during the print, and when something came across it:    *)
(* another file was uploaded, a stored file was started, or the state was  *)
(* reported before the name, where the code records the last print's name. *)
(***************************************************************************)
RowsAreOwn ==
  [][HistoryCall /\ ~crossed /\ ~reset =>
       /\ Head(todo).file = file
       /\ Head(todo).op = "finish" =>
            \A r \in rows \ rows' : r.file = file]_vars

(* A print that goes on is seen and recorded in the end, also the one that *)
(* follows a latched completion and the one found after a reconnection,    *)
(* unless its progress stays where it reads as complete.                   *)
PrintIsSeen ==
  <>[](connected /\ UnderWay /\ phase = "printing" /\ Scaled(Reports[step]) < 100)
    => <>[](active /\ ~pending)

(* A print that has ended is seen to have, and its row is closed.          *)
EndIsSeen ==
  <>[](connected /\ AtEnd)
     => <>[](/\ ~active /\ todo = <<>>
             /\ requests = 0 => \A r \in Open : r.file # file)

(***************************************************************************)
(* "back-fill the latest history row for this file" (slicer upload): the   *)
(* call touches no row of another file.  The code does not keep this: an   *)
(* upload of another file closes the row of the print under way.           *)
(***************************************************************************)
BackfillIsOwn ==
  [][\A f \in Names, a \in Archives :
       UploadRecorded(f, a) /\ Cardinality(rows) < MaxEntries =>
         \A r \in rows \ rows' : r.file = f]_vars

=============================================================================
