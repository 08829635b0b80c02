---- MODULE MjpegStream ----
(*****************************************************************************)
(* One live view of a camera (service/mjpeghub.go, handler/camera.go):       *)
(* ffmpeg writes JPEG pictures into a pipe, ReadMJPEGFrames cuts them out of *)
(* it by their markers and sends them through a channel to streamMJPEG,      *)
(* which writes them to the browser.                                         *)
(*                                                                           *)
(* Of the bytes only those of the markers are told apart.  In a picture's    *)
(* data no ff stands before anything but 00, which is what makes the cut     *)
(* possible at all.                                                          *)
(*****************************************************************************)
EXTENDS Naturals, Sequences

CONSTANTS
    Bodies,      \* what may stand between a picture's markers
    MaxPictures, \* bound: pictures written
    ChunkSize,   \* mjpegReadChunkSize
    MaxBuffer,   \* mjpegMaxBufferSize
    ChanCap      \* mjpegFrameChanCap

VARIABLES
    pipe,      \* bytes written and not read
    ffmpeg,    \* does it run?
    reader,    \* "read", "cut" or "done"
    buf,       \* the reader's buffer
    frames,    \* the channel
    viewing,   \* the request's context has not ended
    written,   \* history: the pictures written
    shown      \* history: the frames the browser got

mjpegVars == <<pipe, ffmpeg, reader, buf, frames, viewing, written, shown>>

SOI == <<"ff", "d8">>
EOI == <<"ff", "d9">>

Picture(body) == SOI \o body \o EOI

Init ==
    /\ pipe = <<>> /\ ffmpeg = TRUE
    /\ reader = "read" /\ buf = <<>> /\ frames = <<>>
    /\ viewing = TRUE
    /\ written = <<>> /\ shown = <<>>

---------------------------------------------------------------------------
(* ffmpeg; a picture may be cut short when it ends.                          *)

Encode ==
    /\ ffmpeg /\ Len(written) < MaxPictures
    /\ \E body \in Bodies :
         /\ pipe' = pipe \o Picture(body)
         /\ written' = Append(written, Picture(body))
    /\ UNCHANGED <<ffmpeg, reader, buf, frames, viewing, shown>>

FfmpegEnds ==
    /\ ffmpeg /\ ffmpeg' = FALSE
    /\ \E n \in 0..Len(pipe) : pipe' = SubSeq(pipe, 1, n)
    /\ UNCHANGED <<reader, buf, frames, viewing, written, shown>>

---------------------------------------------------------------------------
(* The reader.                                                               *)

(* bytes.Index, from 1; 0 if there is none. *)
Index(bytes, marker, from) ==
    LET at == {i \in from..(Len(bytes) - 1) : SubSeq(bytes, i, i + 1) = marker}
    IN IF at = {} THEN 0 ELSE CHOOSE i \in at : \A j \in at : i <= j

From(bytes, i) == SubSeq(bytes, i, Len(bytes))

Start == Index(buf, SOI, 1)

End == Index(buf, EOI, Start + 2)

Read ==
    /\ reader = "read" /\ viewing
    /\ \E n \in 1..ChunkSize :
         /\ n <= Len(pipe)
         /\ buf' = buf \o SubSeq(pipe, 1, n)
         /\ pipe' = From(pipe, n + 1)
    /\ reader' = "cut"
    /\ UNCHANGED <<ffmpeg, frames, viewing, written, shown>>

Reads(kept) == buf' = kept /\ reader' = "read" /\ UNCHANGED <<pipe, ffmpeg, frames, viewing, written, shown>>

(* Mutant of Leftover: all of a bloated buffer is dropped. *)
LeftoverDropped == IF Len(buf) > MaxBuffer THEN <<>> ELSE buf

(* The last byte may be the first half of a marker. *)
Leftover == IF Len(buf) > MaxBuffer THEN From(buf, Len(buf)) ELSE buf

NoStart ==
    /\ reader = "cut" /\ Start = 0
    /\ Reads(Leftover)

NoEnd ==
    /\ reader = "cut" /\ Start > 0 /\ End = 0
    /\ Reads(IF Len(From(buf, Start)) > MaxBuffer THEN <<>> ELSE From(buf, Start))

SendFrame ==
    /\ reader = "cut" /\ Start > 0 /\ End > 0
    /\ Len(frames) < ChanCap
    /\ frames' = Append(frames, SubSeq(buf, Start, End + 1))
    /\ buf' = From(buf, End + 2)
    /\ UNCHANGED <<pipe, ffmpeg, reader, viewing, written, shown>>

(* The end of the pipe, or of the request: looked for before each read, and  *)
(* while the channel is full.                                                *)
ReaderEnds ==
    /\ \/ reader = "read" /\ (~viewing \/ (~ffmpeg /\ pipe = <<>>))
       \/ reader = "cut" /\ ~viewing /\ Start > 0 /\ End > 0
    /\ reader' = "done" /\ ffmpeg' = FALSE
    /\ UNCHANGED <<pipe, buf, frames, viewing, written, shown>>

---------------------------------------------------------------------------
(* streamMJPEG.                                                              *)

WriteMultipartFrame ==
    /\ viewing /\ frames # <<>>
    /\ shown' = Append(shown, Head(frames)) /\ frames' = Tail(frames)
    /\ UNCHANGED <<pipe, ffmpeg, reader, buf, viewing, written>>

(* The browser has gone or a write fails; or the channel is closed and empty. *)
CameraStreamEnds ==
    /\ viewing /\ viewing' = FALSE
    /\ UNCHANGED <<pipe, ffmpeg, reader, buf, frames, written, shown>>

Next ==
    \/ Encode \/ FfmpegEnds
    \/ Read \/ NoStart \/ NoEnd \/ SendFrame \/ ReaderEnds
    \/ WriteMultipartFrame \/ CameraStreamEnds

Spec == Init /\ [][Next]_mjpegVars

---------------------------------------------------------------------------
Cut == shown \o frames

(* What is cut out of the pipe are the pictures that were written, whole and *)
(* in order, wherever the reads fall; a picture is left out only if it is    *)
(* larger than the buffer.                                                   *)
FramesAreWhole ==
    \E at \in [1..Len(Cut) -> 1..Len(written)] :
      /\ \A i \in 1..Len(Cut) : Cut[i] = written[at[i]]
      /\ \A i, j \in 1..Len(Cut) : i < j => at[i] < at[j]
      /\ \A k \in 1..Len(written) :
           /\ Len(written[k]) <= MaxBuffer
           /\ (\E i \in 1..Len(Cut) : k < at[i]) \/ (ffmpeg /\ reader = "read" /\ pipe = <<>>)
           => \E i \in 1..Len(Cut) : at[i] = k
====
