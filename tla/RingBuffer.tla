---- MODULE RingBuffer ----
(*****************************************************************************)
(* The console log kept in memory (logging/ringbuffer.go): slots that are    *)
(* written in a circle, read by the browser's log view through the same      *)
(* polls as the alerts.  Every operation holds the buffer's lock.            *)
(*****************************************************************************)
EXTENDS Integers, Sequences

CONSTANTS
    Cap,           \* how many lines are kept
    Limits,        \* what a poll may name as its limit
    DefaultLimit,  \* the limit of one that names none above 0
    MaxLimit,      \* and the largest one gets
    MaxLines       \* bound: lines ever appended

VARIABLES
    ids,      \* r.ids: the number in each slot; the texts go along
    head,     \* r.head: the slot to write next, the oldest when all are used
    size,     \* r.size
    nextID, cursor, reply

ringVars == <<ids, head, size, nextID, cursor, reply>>

(* Entries: in slot order until all are used, from the oldest after. *)
Entries ==
    [i \in 1..size |-> ids[IF size < Cap THEN i - 1 ELSE (head + i - 1) % Cap]]

(* ConsoleLogs: the limit that is asked of the buffer. *)
Asked(limit) == IF limit < 1 THEN DefaultLimit ELSE IF limit > MaxLimit THEN MaxLimit ELSE limit

Window == INSTANCE LogWindow WITH window <- Entries, Limits <- {Asked(limit) : limit \in Limits}

NewRingBuffer ==
    /\ ids = [slot \in 0..(Cap - 1) |-> 0] /\ head = 0 /\ size = 0
    /\ nextID = 1
    /\ cursor = -1 /\ reply = Window!NoReply

(* Mutant of Advance: the last slot is never used. *)
AdvanceEarly(slot) == IF slot + 1 >= Cap - 1 THEN 0 ELSE slot + 1

Advance(slot) == (slot + 1) % Cap

AppendLine ==
    /\ nextID <= MaxLines
    /\ ids' = [ids EXCEPT ![head] = nextID]
    /\ nextID' = nextID + 1
    /\ head' = Advance(head)
    /\ size' = IF size < Cap THEN size + 1 ELSE size
    /\ UNCHANGED <<cursor, reply>>

(* Snapshot reads Entries. *)
ConsoleLogs(limit) == UNCHANGED <<ids, head, size, nextID>> /\ Window!PrinterAlerts(Asked(limit))

Next == AppendLine \/ \E limit \in Limits : ConsoleLogs(limit)

Spec == NewRingBuffer /\ [][Next]_ringVars

---------------------------------------------------------------------------
(* The circle is a window on the log, wherever it wraps, and of that nothing *)
(* is lost that the browser is not told of.                                  *)
LogIsWhole == Window!Spec /\ []Window!AnswerIsWhole
====
