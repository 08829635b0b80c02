---- MODULE ZOffset ----
(*****************************************************************************)
(* The Z-offset (service/mqttqueue.go, handler/zoffset.go).  The printer     *)
(* takes relative moves (M290) only and reports where it is in ct=1021; a    *)
(* request for an absolute height is computed from the last report, and is   *)
(* answered once a report confirms it.  Who waits is woken by one channel of *)
(* capacity 1, which all requests share.                                     *)
(*                                                                           *)
(* Heights are in steps of 0.01 mm.  The printer may report at any time, as  *)
(* the answer to a query or to a move and of itself, and reports get lost.   *)
(*****************************************************************************)
EXTENDS Integers, Sequences

CONSTANTS
    Requests,
    Heights,     \* bound: the heights the printer may be at, or be asked for
    Nudges,      \* the moves one may ask for
    MaxMoves,    \* bound: moves under way
    MaxReports   \* bound: reports under way

VARIABLES
    height,    \* the printer's Z-offset
    moves,     \* M290 commands on their way to the printer
    reports,   \* ct=1021 on their way to the queue
    online,    \* q.client is not nil
    reading,   \* q.zAxisRecoup: << >> until there is one
    signal,    \* q.zAxisRecoupCh holds a token
    stored,    \* handleZAxisRecoup has stored a value and not signalled yet
    request,   \* request -> [op, pc, goal, move]
    answer,    \* request -> how the last one ended
    alone,     \* history: since it began, nothing else moved the printer
    sole       \* history: since it began, there was no other request

zVars == <<height, moves, reports, online, reading, signal, stored, request, answer, alone, sole>>
printer == <<height, moves>>
queue == <<online, reading, signal, stored>>

Idle == [op |-> "none", pc |-> "idle", goal |-> 0, move |-> 0]

Init ==
    /\ height \in Heights /\ moves = <<>> /\ reports = <<>>
    /\ online = TRUE /\ reading = <<>> /\ signal = FALSE /\ stored = FALSE
    /\ request = [r \in Requests |-> Idle]
    /\ answer = [r \in Requests |-> "none"]
    /\ alone = [r \in Requests |-> FALSE]
    /\ sole = [r \in Requests |-> FALSE]

At(r, pc) == request[r].pc = pc
Goes(r, pc) == request' = [request EXCEPT ![r].pc = pc]
Ends(r, how) == request' = [request EXCEPT ![r] = Idle] /\ answer' = [answer EXCEPT ![r] = how]

(* Nothing is under way, and the queue has read where the printer is. *)
Settled == moves = <<>> /\ reports = <<>> /\ ~stored /\ reading = <<height>>

Movers == {"set", "nudge"}
Moves(r) == request[r].op \in Movers

Begins(r, op, pc, goal, move) ==
    /\ request[r] = Idle
    /\ request' = [request EXCEPT ![r] = [op |-> op, pc |-> pc, goal |-> goal, move |-> move]]
    /\ answer' = [answer EXCEPT ![r] = "none"]
    /\ alone' = IF op \in Movers
                THEN [q \in Requests |-> q = r /\ Settled /\ \A p \in Requests \ {r} : ~Moves(p)]
                ELSE [alone EXCEPT ![r] = FALSE]
    /\ sole' = [q \in Requests |-> q = r /\ \A p \in Requests \ {r} : request[p] = Idle]

---------------------------------------------------------------------------
(* The printer.                                                              *)

(* A user at the printer's own screen. *)
Babystep(move) ==
    /\ height' = height + move /\ height' \in Heights
    /\ alone' = [r \in Requests |-> FALSE]
    /\ UNCHANGED <<moves, reports, queue, request, answer, sole>>

Execute ==
    /\ moves # <<>>
    /\ height' = height + Head(moves) /\ height' \in Heights
    /\ moves' = Tail(moves)
    /\ UNCHANGED <<reports, queue, request, answer, alone, sole>>

Report ==
    /\ Len(reports) < MaxReports
    /\ reports' = Append(reports, height)
    /\ UNCHANGED <<printer, queue, request, answer, alone, sole>>

LoseReport ==
    /\ reports # <<>>
    /\ reports' = Tail(reports)
    /\ UNCHANGED <<printer, queue, request, answer, alone, sole>>

---------------------------------------------------------------------------
(* The MQTT queue.                                                           *)

(* The value is stored under the lock and signalled after it. *)
HandleZAxisRecoup ==
    /\ online /\ reports # <<>> /\ ~stored
    /\ reading' = <<Head(reports)>> /\ reports' = Tail(reports)
    /\ stored' = TRUE
    /\ UNCHANGED <<printer, online, signal, request, answer, alone, sole>>

Signal ==
    /\ stored
    /\ signal' = TRUE /\ stored' = FALSE
    /\ UNCHANGED <<printer, reports, online, reading, request, answer, alone, sole>>

WorkerStop ==
    /\ online /\ ~stored
    /\ online' = FALSE /\ reading' = <<>> /\ reports' = <<>>
    /\ UNCHANGED <<printer, signal, stored, request, answer, alone, sole>>

WorkerStart ==
    /\ ~online
    /\ online' = TRUE
    /\ UNCHANGED <<printer, reports, reading, signal, stored, request, answer, alone, sole>>

---------------------------------------------------------------------------
(* The requests.                                                             *)

(* An unknown offset is an error, and a move of nothing is not sent. *)
SetZOffset(r, goal) ==
    /\ online /\ reading # <<>> /\ goal # reading[1]
    /\ Begins(r, "set", "send", goal, goal - reading[1])
    /\ UNCHANGED <<printer, reports, queue>>

NudgeZOffset(r, move) ==
    /\ online /\ reading # <<>> /\ move # 0 /\ reading[1] + move \in Heights
    /\ Begins(r, "nudge", "send", reading[1] + move, move)
    /\ UNCHANGED <<printer, reports, queue>>

(* An old token is drained; the query has no effect but a report. *)
RefreshZOffset(r) ==
    /\ online
    /\ signal' = FALSE
    /\ Begins(r, "refresh", "wait", 0, 0)
    /\ UNCHANGED <<printer, reports, online, reading, stored>>

SendZOffsetDelta(r) ==
    /\ At(r, "send") /\ online /\ Len(moves) < MaxMoves
    /\ moves' = Append(moves, request[r].move)
    /\ Goes(r, "wait")
    /\ UNCHANGED <<height, reports, queue, answer, alone, sole>>

SendFails(r) ==
    /\ At(r, "send") /\ ~online
    /\ Ends(r, "failed")
    /\ UNCHANGED <<printer, reports, queue, alone, sole>>

Wake(r) ==
    /\ At(r, "wait") /\ signal
    /\ signal' = FALSE
    /\ Goes(r, "look")
    /\ UNCHANGED <<printer, reports, online, reading, stored, answer, alone, sole>>

(* Mutant of Confirms: any report will do. *)
AnyReportConfirms(r) == reading # <<>>

Confirms(r) == reading # <<>> /\ (request[r].op = "refresh" \/ reading[1] = request[r].goal)

Confirmed(r) ==
    /\ At(r, "look") /\ Confirms(r)
    /\ Ends(r, "ok")
    /\ UNCHANGED <<printer, reports, queue, alone, sole>>

LookAgain(r) ==
    /\ At(r, "look") /\ ~Confirms(r)
    /\ Goes(r, "wait")
    /\ UNCHANGED <<printer, reports, queue, answer, alone, sole>>

(* Five seconds are over, or the client has gone; a token that is there at   *)
(* the same time may be taken or not.                                        *)
TimesOut(r) ==
    /\ At(r, "wait")
    /\ Ends(r, "failed")
    /\ UNCHANGED <<printer, reports, queue, alone, sole>>

---------------------------------------------------------------------------
Next ==
    \/ \E m \in Nudges : Babystep(m)
    \/ Execute \/ Report \/ LoseReport
    \/ HandleZAxisRecoup \/ Signal \/ WorkerStop \/ WorkerStart
    \/ \E r \in Requests :
         \/ \E h \in Heights : SetZOffset(r, h)
         \/ \E m \in Nudges : NudgeZOffset(r, m)
         \/ RefreshZOffset(r)
         \/ SendZOffsetDelta(r) \/ SendFails(r)
         \/ Wake(r) \/ Confirmed(r) \/ LookAgain(r) \/ TimesOut(r)

Spec == Init /\ [][Next]_zVars

---------------------------------------------------------------------------
(* While nothing else moves the printer, a request that succeeds is told the *)
(* truth: the printer is where it was asked to be, however old the reports   *)
(* are that wake it and whoever else waits for one.  One that fails with no  *)
(* token left to take was told of no report that says so: the wakeup that    *)
(* would have confirmed it was not lost.  That holds of the only request: a  *)
(* RefreshZOffset meanwhile may drain or take the one token, and the move    *)
(* that was confirmed times out.                                             *)
AnswerIsTrue ==
    [][\A r \in Requests : Moves(r) /\ alone[r] /\ request'[r] = Idle =>
         IF answer'[r] = "ok" THEN height = request[r].goal
         ELSE sole[r] => signal \/ stored \/ reading # <<request[r].goal>>]_zVars
====
