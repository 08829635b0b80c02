---- MODULE MCStreams ----
(*****************************************************************************)
(* What is passed on and must come out as it went in, model-checked in one   *)
(* run: chunks to the printer, its replies to those who asked, pictures to a *)
(* browser, lines of the log to another, and events to the user.  A          *)
(* behaviour is one of them, and the others do not move.                     *)
(*****************************************************************************)
EXTENDS DrwChannel, TLC

CONSTANTS
    Bodies, MaxPictures, ChunkSize, MaxBuffer, ChanCap,     \* MjpegStream
    QueueCap, Full, Interval, MaxValue,                     \* Notifications
    Cap, Limits, DefaultLimit, MaxLimit, MaxLines,          \* RingBuffer
    Requests, Storages, MaxCommands                         \* StoredFiles

ASSUME NoticesAssumption == Full \in Nat /\ Interval \in Nat /\ MaxValue \in Int
ASSUME LogAssumption == Cap \in Nat \ {0} /\ Limits \subseteq Int /\ DefaultLimit \in Int /\ MaxLimit \in Int

VARIABLES
    part,      \* the part that moves
    pipe, ffmpeg, reader, buf, frames, viewing, written, shown,
    state, progress, events, running, wanted, lastState, lastNotified, sendCount, sending, noticed,
    ids, head, size, nextID, cursor, reply,
    asked, job, full, handling, active, condition, latch, pending, ask, shield

(* In a picture's data ff stands before 00 only, as JPEG has it. *)
ASSUME PictureAssumption ==
    /\ ChunkSize \in Nat /\ MaxBuffer \in Nat
    /\ \A body \in Bodies :
         /\ body \in Seq(STRING)
         /\ \A i \in 1..Len(body) : body[i] = "ff" => i < Len(body) /\ body[i + 1] = "00"

(* One picture that begins like a marker's end, and one larger than a chunk, *)
(* and than the buffer, with both markers' halves in it.                     *)
MCBodies == {<<"d9">>, <<"b", "d8", "d9", "ff", "00", "b", "b", "b", "b">>}

View == INSTANCE MjpegStream
Notices == INSTANCE Notifications WITH told <- noticed
Log == INSTANCE RingBuffer
Stored == INSTANCE StoredFiles WITH request <- ask, state <- condition

(* A request is a goroutine, and "none" says that there is none. *)
ASSUME RequestsAssumption == Stored!None \notin Requests

viewVars == <<pipe, ffmpeg, reader, buf, frames, viewing, written, shown>>
noticeVars == <<state, progress, events, running, wanted, lastState, lastNotified, sendCount, sending, noticed>>
logVars == <<ids, head, size, nextID, cursor, reply>>
storedVars == <<asked, job, full, handling, active, condition, latch, pending, ask, shield>>
streamsVars == <<part, vars, viewVars, noticeVars, logVars, storedVars>>

(* A part that does not move has one state only. *)
StreamsInit ==
    /\ Init /\ View!Init /\ Notices!Init /\ Log!NewRingBuffer /\ Stored!Init
    /\ part \in {"chunks", "pictures", "events", "lines", "replies"}
    /\ part # "events" => progress = 0

Chunked(A) == part = "chunks" /\ A /\ UNCHANGED <<part, viewVars, noticeVars, logVars, storedVars>>
Viewed(A) == part = "pictures" /\ A /\ UNCHANGED <<part, vars, noticeVars, logVars, storedVars>>
Announced(A) == part = "events" /\ A /\ UNCHANGED <<part, vars, viewVars, logVars, storedVars>>
Logged(A) == part = "lines" /\ A /\ UNCHANGED <<part, vars, viewVars, noticeVars, storedVars>>
Asked(A) == part = "replies" /\ A /\ UNCHANGED <<part, vars, viewVars, noticeVars, logVars>>

StreamsNext ==
    \/ Chunked(Next)
    \/ Viewed(View!Next) \/ Announced(Notices!Next) \/ Logged(Log!Next)
    \/ Asked(Stored!Next)

StreamsSpec == StreamsInit /\ [][StreamsNext]_streamsVars

(* Requests are alike, and so are the storages: no action names one. *)
MCSymmetry == Permutations(Requests) \cup Permutations(Storages)

\* MjpegStream: pictures are cut out whole, in order, and all.
FramesAreWhole == View!FramesAreWhole

\* Notifications: no print starts twice, progress grows and is limited.
NoticesMakeSense == Notices!NoticesMakeSense

\* RingBuffer: the circle is the window on the log that LogWindow states.
LogIsWhole == Log!LogIsWhole

\* StoredFiles: the mark is of the start that set it last, while it waits unseen.
LatestStartIsPending == Stored!LatestStartIsPending
====
