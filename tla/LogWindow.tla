---- MODULE LogWindow ----
(*****************************************************************************)
(* A window on the last entries of an endless log, as the printer's alerts   *)
(* are kept (printerAlertBuffer of handler/printer_state.go), and a browser  *)
(* that polls it with the number its last answer gave it.                    *)
(*                                                                           *)
(* An entry is its number.  Whether an alert is new or was shown within the  *)
(* cooldown is left open: one that was shown is not appended.                *)
(*****************************************************************************)
EXTENDS Integers, Sequences, SequencesExt

CONSTANTS
    Cap,      \* how many entries are kept
    Limits,   \* the numbers of entries a poll may ask for
    MaxLines  \* bound: entries ever appended

VARIABLES
    window,   \* the entries kept, the oldest first
    nextID,   \* the number of the next
    cursor,   \* the browser's after; -1 for none
    reply     \* the last answer

windowVars == <<window, nextID, cursor, reply>>

NoReply == [after |-> -1, entries |-> <<>>, nextAfter |-> 0, truncated |-> FALSE]

Init ==
    /\ window = <<>> /\ nextID = 1
    /\ cursor = -1 /\ reply = NoReply

Newest(s, n) == SubSeq(s, Len(s) - n + 1, Len(s))

(* append: the oldest gives way when the buffer is full.  It is a poll that   *)
(* appends, when the printer is out of filament, in a step before it reads.  *)
AppendAlert ==
    /\ nextID <= MaxLines /\ nextID' = nextID + 1
    /\ window' = Append(IF Len(window) >= Cap THEN Tail(window) ELSE window, nextID)
    /\ UNCHANGED <<cursor, reply>>

(* Entries that come after this one are gone. *)
Gap(after) == window # <<>> /\ after < window[1] - 1

(* Those with a greater number: the numbers grow along the window, so they    *)
(* are what comes after the last that is not.                                *)
Newer(after) == SubSeq(window, SelectLastInSeq(window, LAMBDA id : id <= after) + 1, Len(window))

(* What the browser asks after the next time. *)
NextAfter == IF window = <<>> THEN 0 ELSE Last(window)

(* What was appended after an entry, the newest if it is too much; or, of a  *)
(* browser that knows none yet, the newest.                                  *)
Snapshot(limit, after) ==
    LET newer == Newer(after)
    IN [after |-> after,
        entries |-> IF Len(newer) > limit THEN Newest(newer, limit) ELSE newer,
        nextAfter |-> NextAfter,
        truncated |-> after >= 0 /\ (Gap(after) \/ Len(newer) > limit)]

(* The limit is clamped to what the buffer can hold. *)
Clamped(limit) == IF limit < 1 THEN 1 ELSE IF limit > Cap THEN Cap ELSE limit

PrinterAlerts(limit) ==
    /\ cursor' = NextAfter
    /\ reply' = Snapshot(Clamped(limit), cursor)
    /\ UNCHANGED <<window, nextID>>

Next == AppendAlert \/ \E limit \in Limits : PrinterAlerts(limit)

Spec == Init /\ [][Next]_windowVars

---------------------------------------------------------------------------
(* An answer that does not say it is truncated holds all that was appended   *)
(* since the browser's last, once and in order; and one that says so is.     *)
AnswerIsWhole ==
    reply.after >= 0 =>
        (~reply.truncated <=> reply.entries = [i \in 1..(reply.nextAfter - reply.after) |-> reply.after + i])
====
