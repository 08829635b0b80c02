----------------------------- MODULE FileUpload -----------------------------
(***************************************************************************)
(* The upload of a file to the printer: PPPPService.Upload of              *)
(* internal/service/pppp.go, with the printer that answers it and the      *)
(* session between them, which the service closes and opens again.         *)
(*                                                                         *)
(* A file is sent as numbered frames: 0 is BEGIN, 1..Blocks are the DATA   *)
(* frames and Blocks + 1 is END, which starts the print.  A session is a   *)
(* reliable stream each way (module DrwChannel), so frames and replies are *)
(* sequences, emptied when the session ends.  A reply says nothing of the  *)
(* frame it answers.                                                       *)
(*                                                                         *)
(* One upload runs at a time (FileTransferService serialises them), one    *)
(* after the other on the same service.                                    *)
(***************************************************************************)
EXTENDS Integers, Sequences

CONSTANTS
  Blocks,          \* how many DATA frames the file has
  MaxDataRetries,  \* maxDataRetries: DATA frames sent again
  MaxRetries,      \* uploadMaxRetries: uploads tried again after a drop
  MaxPowerCycles,  \* uploadMaxPowerCycles
  MaxUploads,      \* bound: calls of Upload
  MaxDrops         \* bound: sessions that end by themselves

ASSUME UploadAssumption ==
  /\ Blocks \in Nat /\ MaxDataRetries \in Nat /\ MaxRetries \in Nat
  /\ MaxPowerCycles \in Nat /\ MaxUploads \in Nat /\ MaxDrops \in Nat

VARIABLES
  pc,        \* where Upload is
  start,     \* info.StartPrint
  frame,     \* the frame being sent
  attempt,   \* how often this DATA frame has been sent again
  try,       \* how often uploadWithRetries has tried again
  cycles,    \* powerCycles
  replyCh,   \* the channel of the reply tap: at most one reply
  result,    \* what Upload returned last: "none", "nil" or "error"
  session,   \* the service has a connected client
  mySession, \* that client is the one this uploadOnce writes to
  inbox,     \* frames the printer has received and not handled
  replies,   \* replies on their way to the reply tap: was the frame accepted?
  accepted,  \* history: frames of this uploadOnce the printer has accepted
  prints,    \* history: prints this Upload has started
  late,      \* history: the reply to a frame of this session was given up
  behind,    \* history: the same, of this uploadOnce
  cut,       \* history: a session has ended with the END of this Upload sent
             \* and its acknowledgement not seen
  uploads, drops

upload  == <<pc, start, frame, attempt, try, cycles, replyCh, result>>
network == <<session, mySession, inbox, replies>>
history == <<accepted, prints, late, behind, cut>>
bounds  == <<uploads, drops>>
vars    == <<upload, network, history, bounds>>

END == Blocks + 1
Frames == 0..END
IsData(f) == f \in 1..Blocks

LastFrame == IF start THEN END ELSE Blocks

Busy == pc # "idle"

(* The reply tap is installed while uploadOnce has a client.               *)
Tapped == pc \in {"handshake", "write", "sent", "wait"}

Init ==
  /\ pc = "idle"
  /\ start = FALSE
  /\ frame = 0
  /\ attempt = 0
  /\ try = 0
  /\ cycles = 0
  /\ replyCh = <<>>
  /\ result = "none"
  /\ session = TRUE
  /\ mySession = FALSE
  /\ inbox = <<>>
  /\ replies = <<>>
  /\ accepted = {}
  /\ prints = 0
  /\ late = FALSE
  /\ behind = FALSE
  /\ cut = FALSE
  /\ uploads = 0
  /\ drops = 0

-----------------------------------------------------------------------------
(* How Upload and uploadOnce end.                                          *)

Finish(outcome) ==
  /\ pc' = "idle"
  /\ result' = outcome
  /\ UNCHANGED <<start, frame, attempt, try, cycles, replyCh>>

(* Mutant of TryAgain. *)
TryForEver ==
  /\ pc' = "connect"
  /\ UNCHANGED <<start, frame, attempt, try, cycles, replyCh, result>>

(* Errors of isRetryableUploadErr: another uploadOnce, then a power cycle. *)
TryAgain ==
  /\ IF try < MaxRetries THEN pc' = "connect" /\ try' = try + 1
                         ELSE pc' = "escalate" /\ UNCHANGED try
  /\ UNCHANGED <<start, frame, attempt, cycles, replyCh, result>>

(* Mutant of EndSession. *)
RepliesSurvive ==
  /\ session' = FALSE
  /\ mySession' = FALSE
  /\ inbox' = <<>>
  /\ late' = FALSE
  /\ cut' = (cut \/ (pc = "sent" /\ frame = END))
  /\ UNCHANGED <<replies, accepted, prints, behind>>

(* The service closes its client: what was under way on it is lost.        *)
EndSession ==
  /\ session' = FALSE
  /\ mySession' = FALSE
  /\ inbox' = <<>>
  /\ replies' = <<>>
  /\ late' = FALSE
  /\ cut' = (cut \/ (pc = "sent" /\ frame = END))
  /\ UNCHANGED <<accepted, prints, behind>>

-----------------------------------------------------------------------------
(* Upload.                                                                 *)

Upload(startPrint) ==
  /\ ~Busy
  /\ uploads < MaxUploads
  /\ uploads' = uploads + 1
  /\ pc' = "connect"
  /\ start' = startPrint
  /\ try' = 0
  /\ cycles' = 0
  /\ result' = "none"
  /\ prints' = 0
  /\ cut' = FALSE
  /\ inbox' = [i \in DOMAIN inbox |-> [inbox[i] EXCEPT !.mine = FALSE]]
  /\ UNCHANGED <<frame, attempt, replyCh, session, mySession, replies,
                 accepted, late, behind, drops>>

(* waitConnected finds a client; the reply tap is installed.               *)
Connect ==
  /\ pc = "connect"
  /\ session
  /\ pc' = "handshake"
  /\ mySession' = TRUE
  /\ replyCh' = <<>>
  /\ frame' = 0
  /\ attempt' = 0
  /\ accepted' = {}
  /\ behind' = late
  /\ UNCHANGED <<start, try, cycles, result, session, inbox, replies, prints,
                 late, cut, bounds>>

ConnectTimeout ==
  /\ pc = "connect"
  /\ ~session
  /\ TryAgain
  /\ UNCHANGED <<network, history, bounds>>

(* No pong for too long: the service is restarted.                         *)
StaleSession ==
  /\ pc = "connect"
  /\ session
  /\ drops < MaxDrops
  /\ drops' = drops + 1
  /\ EndSession
  /\ TryAgain
  /\ UNCHANGED uploads

(* P2P_SEND_FILE on channel 0; the upload goes on whatever the printer     *)
(* answers, and if it does not.                                            *)
Handshake ==
  /\ pc = "handshake"
  /\ mySession
  /\ pc' = "write"
  /\ UNCHANGED <<start, frame, attempt, try, cycles, replyCh, result, network,
                 history, bounds>>

(* The whole frame has reached the printer, whatever the writer hears.     *)
WriteFrame ==
  /\ pc = "write"
  /\ mySession
  /\ inbox' = Append(inbox, [frame |-> frame, mine |-> TRUE])
  /\ pc' = "sent"
  /\ UNCHANGED <<start, frame, attempt, try, cycles, replyCh, result, session,
                 mySession, replies, history, bounds>>

(* The DRW layer has acknowledged it, and the channel is still open when   *)
(* the writer looks.                                                       *)
WriteAcked ==
  /\ pc = "sent"
  /\ mySession
  /\ pc' = "wait"
  /\ UNCHANGED <<start, frame, attempt, try, cycles, replyCh, result, network,
                 history, bounds>>

(* ErrChannelClosed from a blocking write.  The writer looks at closed     *)
(* before it looks at the acknowledgements, so the printer may have the    *)
(* frame, and have handled it.                                             *)
WriteClosed ==
  /\ pc \in {"handshake", "write", "sent"}
  /\ ~mySession
  /\ TryAgain
  /\ UNCHANGED <<network, history, bounds>>

SendAgain ==
  /\ attempt' = attempt + 1
  /\ pc' = "write"
  /\ UNCHANGED <<start, frame, try, cycles, result>>

(* Mutant of MayRepeat. *)
RepeatAny == attempt < MaxDataRetries

MayRepeat == IsData(frame) /\ attempt < MaxDataRetries

ReplyOk ==
  /\ pc = "wait"
  /\ replyCh = <<TRUE>>
  /\ replyCh' = <<>>
  /\ IF frame = LastFrame
     THEN pc' = "idle" /\ result' = "nil" /\ UNCHANGED <<frame, attempt>>
     ELSE /\ frame' = frame + 1
          /\ attempt' = 0
          /\ pc' = "write"
          /\ UNCHANGED result
  /\ UNCHANGED <<start, try, cycles, network, history, bounds>>

(* An error code: the loop over attempts does not look at what failed.     *)
ReplyError ==
  /\ pc = "wait"
  /\ replyCh = <<FALSE>>
  /\ replyCh' = <<>>
  /\ IF MayRepeat
     THEN SendAgain
     ELSE pc' = "idle" /\ result' = "error"
          /\ UNCHANGED <<start, frame, attempt, try, cycles>>
  /\ UNCHANGED <<network, history, bounds>>

(* aabbReplyTimeout.  ResetTx finds nothing to discard: the frame was      *)
(* acknowledged.                                                           *)
ReplyTimeout ==
  /\ pc = "wait"
  /\ IF MayRepeat THEN SendAgain /\ UNCHANGED replyCh
                  ELSE Finish("error")
  /\ late' = (late \/ mySession)
  /\ behind' = TRUE
  /\ UNCHANGED <<network, accepted, prints, cut, bounds>>

(* The context of the caller is cancelled.  A frame whose write it         *)
(* interrupts stays queued and may still arrive.                           *)
Cancel ==
  /\ pc = "connect" \/ Tapped
  /\ Finish("error")
  /\ \/ pc = "write" /\ mySession
        /\ inbox' = Append(inbox, [frame |-> frame, mine |-> TRUE])
     \/ UNCHANGED inbox
  /\ late' = (late \/ (pc \in {"write", "sent", "wait"} /\ mySession))
  /\ UNCHANGED behind
  /\ UNCHANGED <<session, mySession, replies, accepted, prints, cut,
                 bounds>>

(* No power controller, uploadTotalTimeout over, or no cycle left.         *)
GiveUp ==
  /\ pc = "escalate"
  /\ Finish("error")
  /\ UNCHANGED <<network, history, bounds>>

(* The printer boots, and the service is restarted.                        *)
PowerCycle ==
  /\ pc = "escalate"
  /\ cycles < MaxPowerCycles
  /\ cycles' = cycles + 1
  /\ EndSession
  /\ pc' = "connect"
  /\ try' = 0
  /\ UNCHANGED <<start, frame, attempt, replyCh, result, bounds>>

PowerCycleFails ==
  /\ pc = "escalate"
  /\ cycles < MaxPowerCycles
  /\ cycles' = cycles + 1
  /\ IF cycles' < MaxPowerCycles
     THEN pc' = "connect" /\ try' = 0 /\ UNCHANGED result
     ELSE pc' = "idle" /\ result' = "error" /\ UNCHANGED try
  /\ UNCHANGED <<start, frame, attempt, replyCh, network, history, bounds>>

-----------------------------------------------------------------------------
(* The rest of the service.                                                *)

(* drainXzyh hands a reply to the tap, which drops it when one is waiting; *)
(* without a tap nobody listens.                                           *)
DispatchReply ==
  /\ replies # <<>>
  /\ replies' = Tail(replies)
  /\ replyCh' = IF Tapped /\ replyCh = <<>> THEN <<Head(replies)>> ELSE replyCh
  /\ UNCHANGED <<pc, start, frame, attempt, try, cycles, result, session,
                 mySession, inbox, history, bounds>>

(* WorkerRun gives the session up (the printer closed it, or went silent). *)
Drop ==
  /\ session
  /\ drops < MaxDrops
  /\ drops' = drops + 1
  /\ EndSession
  /\ UNCHANGED <<upload, uploads>>

Reconnect ==
  /\ ~session
  /\ session' = TRUE
  /\ UNCHANGED <<upload, mySession, inbox, replies, history, bounds>>

-----------------------------------------------------------------------------
(* The printer answers every frame it handles, in order.  It may refuse    *)
(* any; BEGIN makes it forget what it had of a file.                       *)

PrinterHandles(ok) ==
  /\ inbox # <<>>
  /\ inbox' = Tail(inbox)
  /\ replies' = Append(replies, ok)
  /\ LET f == Head(inbox)
     IN /\ accepted' = IF ok /\ f.mine
                       THEN (IF f.frame = 0 THEN {} ELSE accepted) \cup {f.frame}
                       ELSE accepted
        /\ prints' = IF ok /\ f.mine /\ f.frame = END THEN prints + 1 ELSE prints
  /\ UNCHANGED <<upload, session, mySession, late, behind, cut,
                 bounds>>

-----------------------------------------------------------------------------

UploadStep ==
  \/ Connect
  \/ ConnectTimeout
  \/ StaleSession
  \/ Handshake
  \/ WriteFrame
  \/ WriteAcked
  \/ WriteClosed
  \/ ReplyOk
  \/ ReplyError
  \/ ReplyTimeout
  \/ GiveUp
  \/ PowerCycle
  \/ PowerCycleFails

Next ==
  \/ \E startPrint \in BOOLEAN : Upload(startPrint)
  \/ UploadStep
  \/ Cancel
  \/ DispatchReply
  \/ Drop
  \/ Reconnect
  \/ \E ok \in BOOLEAN : PrinterHandles(ok)

Spec == Init /\ [][Next]_vars

(* Every wait of an upload has a deadline.  Nothing is asked of the caller,*)
(* who may never cancel, of the printer, nor of the service that should    *)
(* reconnect.                                                              *)
FairSpec == Spec /\ WF_vars(UploadStep)

-----------------------------------------------------------------------------

TypeOK ==
  /\ pc \in {"idle", "connect", "handshake", "write", "sent", "wait",
            "escalate"}
  /\ start \in BOOLEAN
  /\ frame \in Frames
  /\ attempt \in 0..MaxDataRetries
  /\ try \in 0..MaxRetries
  /\ cycles \in 0..MaxPowerCycles
  /\ replyCh \in Seq(BOOLEAN) /\ Len(replyCh) <= 1
  /\ result \in {"none", "nil", "error"}
  /\ session \in BOOLEAN
  /\ mySession \in BOOLEAN
  /\ inbox \in Seq([frame : Frames, mine : BOOLEAN])
  /\ replies \in Seq(BOOLEAN)
  /\ accepted \subseteq Frames
  /\ prints \in Nat
  /\ late \in BOOLEAN
  /\ behind \in BOOLEAN
  /\ cut \in BOOLEAN
  /\ uploads \in 0..MaxUploads
  /\ drops \in 0..MaxDrops

(***************************************************************************)
(* An upload that reports success has been accepted frame by frame, the    *)
(* END included, unless the wait for a reply of its session timed out.  The*)
(* replies carry no number: this holds because each is awaited before the  *)
(* next frame is written.                                                  *)
(***************************************************************************)
Succeeds == result # "nil" /\ result' = "nil"

SuccessIsTrue == [][Succeeds /\ ~behind => accepted = 0..LastFrame]_vars

(* The printer never starts to print a file it has only a part of, unless  *)
(* a reply was given up.                                                   *)
NeverPrintsPart ==
  [][prints' > prints /\ ~behind => 0..Blocks \subseteq accepted]_vars

(***************************************************************************)
(* One Upload starts one print, however often frames and uploads are sent  *)
(* again, unless a session ended between the arrival of the END and the    *)
(* writer's look at its acknowledgement: then the printer has started, the *)
(* writer is told of a closed channel, and the upload is tried again.      *)
(***************************************************************************)
PrintsOnce == prints > 1 => cut

(* Every Upload returns, whatever the printer does.                        *)
UploadReturns == Busy ~> ~Busy

(***************************************************************************)
(* "This ensures the file is delivered" (Upload), "wait for ACK (...       *)
(* waits after each frame)" (uploadOnce): success means that the printer   *)
(* accepted the frames.  The code does not keep this: after a timeout the  *)
(* late reply to one frame is taken for the reply to the next.             *)
(***************************************************************************)
SuccessIsDelivery == result = "nil" => accepted = 0..LastFrame

=============================================================================
