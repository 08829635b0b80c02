---------------------------- MODULE PrintHistory ----------------------------
(***************************************************************************)
(* The print_history table of internal/db/history.go.  Every operation is  *)
(* one transaction under d.mu and so one step, whoever calls it: the MQTT  *)
(* queue, an upload handler, or the user who deletes entries.              *)
(*                                                                         *)
(* Times are left out: rows are numbered in the order of their insertion,  *)
(* which is that of their started_at.                                      *)
(***************************************************************************)
EXTENDS Integers, FiniteSets

CONSTANTS
  Files,         \* file names
  Placeholders,  \* those in placeholderFilenames, the empty name included
  Tasks,         \* task identifiers
  NoTask,        \* the empty task identifier
  Archives,      \* paths of archived files
  NoArchive,     \* archive_relpath is NULL
  MaxEntries,    \* defaultMaxEntries
  MaxInserts     \* bound: rows inserted in all

ASSUME HistoryAssumption ==
  /\ Placeholders \subseteq Files
  /\ NoTask \notin Tasks /\ NoArchive \notin Archives
  /\ MaxEntries \in Nat \ {0} /\ MaxInserts \in Nat

VARIABLES
  rows,   \* the rows of the table
  nextId  \* the AUTOINCREMENT counter: identifiers are never used again

historyVars == <<rows, nextId>>

Statuses == {"started", "finished", "failed", "interrupted"}

Rows == [id : Nat, file : Files \ Placeholders, status : Statuses,
         task : Tasks \cup {NoTask}, archive : Archives \cup {NoArchive}]

Open == {r \in rows : r.status = "started"}

HistoryInit ==
  /\ rows = {}
  /\ nextId = 1

Newest(set) == CHOOSE r \in set : \A q \in set : q.id <= r.id

ByTask(task) == {r \in Open : r.task = task}
(* Mutant of ByFile. *)
ByFileClosedToo(file) == {r \in rows : r.file = file}

ByFile(file) == {r \in Open : r.file = file}

(* COALESCE(archive_relpath, ?): the first archive stays. *)
WithArchive(r, archive) ==
  IF r.archive = NoArchive THEN [r EXCEPT !.archive = archive] ELSE r

Replace(old, new) == rows' = (rows \ {old}) \cup {new}

-----------------------------------------------------------------------------

(* An open row of the same task is resumed; without a task, one of the     *)
(* same file.                                                              *)
Resumable(file, task) == IF task # NoTask THEN ByTask(task) ELSE ByFile(file)

(* Mutant of Interrupted. *)
NoneInterrupted == rows

Interrupted == {IF r.status = "started" THEN [r EXCEPT !.status = "interrupted"]
                                        ELSE r : r \in rows}

(* pruneHistory: rows older than the cutoff go, and all but the newest.    *)
Prune(set, cutoff) ==
  {r \in set : /\ r.id >= cutoff
               /\ Cardinality({q \in set : q.id > r.id}) < MaxEntries}

InsertRow(file, task, archive) ==
  /\ nextId <= MaxInserts
  /\ \E cutoff \in 1..nextId :
       rows' = Prune(Interrupted \cup
                       {[id |-> nextId, file |-> file, status |-> "started",
                         task |-> task, archive |-> archive]}, cutoff)
  /\ nextId' = nextId + 1

RecordStart(file, task, archive) ==
  \/ /\ file \in Placeholders
     /\ UNCHANGED historyVars
  \/ /\ file \notin Placeholders
     /\ Resumable(file, task) # {}
     /\ LET r == Newest(Resumable(file, task))
        IN Replace(r, WithArchive(r, archive))
     /\ UNCHANGED nextId
  \/ /\ file \notin Placeholders
     /\ Resumable(file, task) = {}
     /\ InsertRow(file, task, archive)

(* findActive: by task, then by file, then whichever is open.              *)
Active(file, task) ==
  IF task # NoTask /\ ByTask(task) # {} THEN ByTask(task)
  ELSE IF ByFile(file) # {} THEN ByFile(file) ELSE Open

CloseRow(file, task, outcome) ==
  /\ IF Active(file, task) = {} THEN UNCHANGED rows
     ELSE LET r == Newest(Active(file, task))
          IN Replace(r, [r EXCEPT !.status = outcome])
  /\ UNCHANGED nextId

RecordFinish(file, task) == CloseRow(file, task, "finished")
RecordFail(file, task) == CloseRow(file, task, "failed")

SetArchiveInfo(id, archive) ==
  /\ rows' = {IF r.id = id THEN WithArchive(r, archive) ELSE r : r \in rows}
  /\ UNCHANGED nextId

DeleteEntries(ids) ==
  /\ rows' = {r \in rows : r.id \notin ids}
  /\ UNCHANGED nextId

ClearHistory ==
  /\ rows' = {}
  /\ UNCHANGED nextId

-----------------------------------------------------------------------------

Calls ==
  \/ \E f \in Files, t \in Tasks \cup {NoTask} :
       \/ \E a \in Archives \cup {NoArchive} : RecordStart(f, t, a)
       \/ RecordFinish(f, t)
       \/ RecordFail(f, t)
  \/ \E id \in 1..MaxInserts, a \in Archives : SetArchiveInfo(id, a)
  \/ \E id \in 1..MaxInserts : DeleteEntries({id})
  \/ ClearHistory

HistorySpec == HistoryInit /\ [][Calls]_historyVars

-----------------------------------------------------------------------------

HistoryTypeOK ==
  /\ rows \subseteq Rows
  /\ nextId \in 1..(MaxInserts + 1)
  /\ \A r \in rows : r.id \in 1..(nextId - 1)
  /\ \A r, q \in rows : r.id = q.id => r = q

(***************************************************************************)
(* At most one print is open, and it is the newest row of the table:       *)
(* whichever of the three lookups finds the row, it finds the same, and    *)
(* pruning never removes the row of the print under way.                   *)
(***************************************************************************)
OneOpen ==
  \A r \in Open : \A q \in rows : q # r => q.id < r.id

(* The outcome of a print is final: a row that is closed is never opened   *)
(* again, nor closed another way.                                          *)
OutcomeIsFinal ==
  [][\A r \in rows : r.status # "started" =>
       \A q \in rows' : q.id = r.id => q.status = r.status]_historyVars

(* A reprint finds the file that was archived with the row: no later call  *)
(* puts another archive, or another file name, in its place.               *)
ArchiveIsKept ==
  [][\A r \in rows, q \in rows' : q.id = r.id =>
       /\ q.file = r.file
       /\ r.archive # NoArchive => q.archive = r.archive]_historyVars

=============================================================================
