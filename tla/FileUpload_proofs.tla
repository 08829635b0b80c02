------------------------- MODULE FileUpload_proofs -------------------------
(***************************************************************************)
(* Proofs about FileUpload.  A reply carries no number, so what it is the  *)
(* answer to rests on there being at most one under way: one frame, its    *)
(* reply or the reply in the channel of the tap.  A wait that is given up  *)
(* ends that for as long as the session lives (late, behind).              *)
(***************************************************************************)
EXTENDS FileUpload, SequenceTheorems, TLAPS

Message == [frame : Frames, mine : BOOLEAN]

Current == [frame |-> frame, mine |-> TRUE]

Typed == TypeOK /\ (Tapped => frame <= LastFrame)

(* Without a client of this session nothing is under way.                  *)
Quiet == ~mySession => inbox = <<>> /\ replies = <<>> /\ ~late

(* What the printer has when it has answered the current frame, or not yet.*)
Has(ok) == accepted = IF ok THEN 0..frame ELSE 0..(frame - 1)

(* One frame, or one reply, at a time.                                     *)
OneUnderWay ==
  \/ inbox = <<Current>> /\ replies = <<>> /\ replyCh = <<>> /\ Has(FALSE)
  \/ \E ok \in BOOLEAN :
       inbox = <<>> /\ replies = <<ok>> /\ replyCh = <<>> /\ Has(ok)
  \/ \E ok \in BOOLEAN :
       inbox = <<>> /\ replies = <<>> /\ replyCh = <<ok>> /\ Has(ok)
  \/ inbox = <<>> /\ replies = <<>> /\ replyCh = <<>>

InStep ==
  ~behind =>
    /\ pc \in {"handshake", "write"} =>
         inbox = <<>> /\ replies = <<>> /\ replyCh = <<>> /\ Has(FALSE)
    /\ pc \in {"sent", "wait"} => OneUnderWay
    /\ ~Tapped => inbox = <<>> \/ \E m \in Message :
                    /\ inbox = <<m>>
                    /\ m.mine /\ m.frame = END => 0..Blocks \subseteq accepted

(* A session with nothing given up starts the next upload with nothing     *)
(* under way.                                                              *)
Clean ==
  ~late => /\ ~Tapped => inbox = <<>> /\ replies = <<>>
           /\ Tapped /\ mySession => ~behind

(* The ENDs of this Upload that the printer has still to handle.           *)
Ends == {i \in 1..Len(inbox) : inbox[i].mine /\ inbox[i].frame = END}

(* But for a cut, an Upload sends one END, last of all.                    *)
EndIsLast ==
  ~cut =>
    /\ pc = "sent" /\ frame = END => mySession
    /\ prints > 0 \/ Ends # {} => pc = "idle"
                                 \/ (pc \in {"sent", "wait"} /\ frame = END)
    /\ prints > 0 => Ends = {}
    /\ prints <= 1
    /\ \A i, j \in Ends : i = j

-----------------------------------------------------------------------------
(* Typing.                                                                 *)

LEMMA Bounds ==
  /\ Blocks \in Nat /\ END = Blocks + 1 /\ END \in Frames
  /\ MaxDataRetries \in Nat /\ MaxRetries \in Nat
  /\ MaxPowerCycles \in Nat /\ MaxUploads \in Nat /\ MaxDrops \in Nat
  BY UploadAssumption DEF END, Frames

LEMMA LastIsFrame == LastFrame \in Frames
  BY Bounds DEF LastFrame, Frames

(* A new Upload disowns what an earlier one left in the inbox.             *)
LEMMA Disowned ==
  ASSUME inbox \in Seq(Message),
         inbox' = [i \in DOMAIN inbox |-> [inbox[i] EXCEPT !.mine = FALSE]]
  PROVE  /\ inbox' \in Seq(Message) /\ Len(inbox') = Len(inbox)
         /\ \A i \in 1..Len(inbox') : ~inbox'[i].mine
<1>1. \A m \in Message : [m EXCEPT !.mine = FALSE] \in Message
                         /\ ~[m EXCEPT !.mine = FALSE].mine
  BY DEF Message
<1>2. DOMAIN inbox = 1..Len(inbox) /\ Len(inbox) \in Nat
      /\ \A i \in 1..Len(inbox) : inbox[i] \in Message
  OBVIOUS
<1>3. inbox' \in [1..Len(inbox) -> Message]
  BY <1>1, <1>2
<1>4. inbox' \in Seq(Message) /\ Len(inbox') = Len(inbox)
  BY <1>2, <1>3, IsASeq, LenProperties
<1> QED BY <1>1, <1>2, <1>4

LEMMA TypedInit == Init => Typed
<1> SUFFICES ASSUME Init PROVE TypeOK
  BY DEF Typed, Init, Tapped
<1>1. frame \in Frames /\ attempt \in 0..MaxDataRetries /\ try \in 0..MaxRetries
      /\ cycles \in 0..MaxPowerCycles /\ uploads \in 0..MaxUploads
      /\ drops \in 0..MaxDrops
  BY Bounds DEF Init, Frames
<1>2. /\ inbox \in Seq([frame : Frames, mine : BOOLEAN])
      /\ replies \in Seq(BOOLEAN) /\ replyCh \in Seq(BOOLEAN)
      /\ Len(replyCh) <= 1
  BY DEF Init
<1>3. /\ start \in BOOLEAN /\ session \in BOOLEAN /\ mySession \in BOOLEAN
      /\ late \in BOOLEAN /\ behind \in BOOLEAN /\ cut \in BOOLEAN
  BY DEF Init
<1>4. /\ pc \in {"idle", "connect", "handshake", "write", "sent", "wait",
                "escalate"}
      /\ result \in {"none", "nil", "error"}
      /\ accepted \subseteq Frames /\ prints \in Nat
  BY DEF Init
<1> QED BY <1>1, <1>2, <1>3, <1>4 DEF TypeOK

LEMMA UploadTyped ==
  ASSUME Typed, NEW startPrint \in BOOLEAN, Upload(startPrint)
  PROVE  Typed'
<1>1. inbox' \in Seq(Message)
  BY Disowned DEF Upload, Typed, TypeOK, Message
<1>2. try' \in 0..MaxRetries /\ cycles' \in 0..MaxPowerCycles
      /\ uploads' \in 0..MaxUploads
  BY Bounds DEF Upload, Typed, TypeOK
<1> QED BY <1>1, <1>2 DEF Upload, Typed, TypeOK, Message, Tapped

LEMMA TryAgainTyped ==
  ASSUME Typed, TryAgain
  PROVE  /\ pc' \in {"connect", "escalate"} /\ try' \in 0..MaxRetries
         /\ UNCHANGED <<start, frame, attempt, cycles, replyCh, result>>
BY Bounds DEF TryAgain, Typed, TypeOK

LEMMA EndSessionTyped ==
  ASSUME Typed, EndSession
  PROVE  /\ inbox' = <<>> /\ replies' = <<>>
         /\ inbox' \in Seq(Message) /\ replies' \in Seq(BOOLEAN)
         /\ ~session' /\ ~mySession' /\ ~late'
         /\ session' \in BOOLEAN /\ mySession' \in BOOLEAN /\ late' \in BOOLEAN
         /\ cut' \in BOOLEAN
         /\ UNCHANGED <<accepted, prints, behind>>
<1>1. <<>> \in Seq(Message) /\ <<>> \in Seq(BOOLEAN)
  OBVIOUS
<1>2. /\ session' = FALSE /\ mySession' = FALSE /\ late' = FALSE
      /\ cut' = (cut \/ (pc = "sent" /\ frame = END))
  BY DEF EndSession
<1>3. cut' \in BOOLEAN
  BY <1>2 DEF Typed, TypeOK
<1> QED BY <1>1, <1>2, <1>3 DEF EndSession

LEMMA ConnectTyped ==
  ASSUME Typed, Connect \/ ConnectTimeout \/ StaleSession \/ Handshake
                \/ WriteFrame \/ WriteAcked \/ WriteClosed
  PROVE  Typed'
<1> USE DEF Typed
<1>1. CASE Connect
  <2>1. replyCh' \in Seq(BOOLEAN) /\ Len(replyCh') <= 1 /\ frame' \in Frames
        /\ attempt' \in 0..MaxDataRetries /\ accepted' \subseteq Frames
        /\ frame' <= LastFrame'
    BY <1>1, Bounds DEF Connect, Frames, LastFrame
  <2> QED BY <1>1, <2>1 DEF Connect, TypeOK, bounds
<1>2. CASE ConnectTimeout \/ WriteClosed
  BY <1>2, TryAgainTyped
  DEF ConnectTimeout, WriteClosed, network, history, bounds, TypeOK, Tapped
<1>3. CASE StaleSession
  <2>1. drops' \in 0..MaxDrops
    BY <1>3, Bounds DEF StaleSession, TypeOK
  <2> QED BY <1>3, <2>1, TryAgainTyped, EndSessionTyped
          DEF StaleSession, TypeOK, Tapped, Message
<1>4. CASE Handshake \/ WriteAcked
  BY <1>4 DEF Handshake, WriteAcked, network, history, bounds, TypeOK, Tapped,
              LastFrame
<1>5. CASE WriteFrame
  <2>1. inbox' \in Seq(Message)
    BY <1>5, AppendProperties DEF WriteFrame, TypeOK, Message
  <2> QED BY <1>5, <2>1
          DEF WriteFrame, history, bounds, TypeOK, Tapped, LastFrame, Message
<1> QED BY <1>1, <1>2, <1>3, <1>4, <1>5

LEMMA WaitTyped ==
  ASSUME Typed, ReplyOk \/ ReplyError \/ ReplyTimeout
  PROVE  Typed'
<1> USE DEF Typed
<1>1. <<>> \in Seq(BOOLEAN) /\ Len(<<>>) = 0
  OBVIOUS
<1>2. CASE ReplyOk
  <2>1. frame # LastFrame => frame + 1 \in Frames /\ frame + 1 <= LastFrame
    BY <1>2, Bounds, LastIsFrame DEF ReplyOk, Tapped, TypeOK, Frames
  <2>2. frame' \in Frames /\ attempt' \in 0..MaxDataRetries
        /\ (Tapped' => frame' <= LastFrame')
    BY <1>2, <2>1, Bounds DEF ReplyOk, TypeOK, Tapped, LastFrame
  <2> QED BY <1>1, <1>2, <2>2
          DEF ReplyOk, network, history, bounds, TypeOK
<1>3. ASSUME SendAgain, MayRepeat, pc = "wait"
      PROVE  /\ attempt' \in 0..MaxDataRetries /\ pc' = "write"
             /\ Tapped' /\ frame' <= LastFrame'
             /\ UNCHANGED <<start, frame, try, cycles, result>>
  BY <1>3, Bounds DEF SendAgain, MayRepeat, TypeOK, Tapped, LastFrame
<1>4. CASE ReplyError
  BY <1>1, <1>3, <1>4
  DEF ReplyError, network, history, bounds, TypeOK, Tapped
<1>5. CASE ReplyTimeout
  BY <1>3, <1>5
  DEF ReplyTimeout, Finish, network, bounds, TypeOK, Tapped
<1> QED BY <1>2, <1>4, <1>5

LEMMA EscalateTyped ==
  ASSUME Typed, GiveUp \/ PowerCycle \/ PowerCycleFails
  PROVE  Typed'
<1> USE DEF Typed
<1>1. CASE GiveUp
  BY <1>1 DEF GiveUp, Finish, network, history, bounds, TypeOK, Tapped
<1>2. cycles < MaxPowerCycles => cycles + 1 \in 0..MaxPowerCycles
  BY Bounds DEF TypeOK
<1>3. 0 \in 0..MaxRetries
  BY Bounds
<1>4. CASE PowerCycle
  BY <1>2, <1>3, <1>4, EndSessionTyped
  DEF PowerCycle, bounds, TypeOK, Tapped, Message
<1>5. CASE PowerCycleFails
  BY <1>2, <1>3, <1>5
  DEF PowerCycleFails, network, history, bounds, TypeOK, Tapped
<1> QED BY <1>1, <1>4, <1>5

LEMMA CancelTyped == ASSUME Typed, Cancel PROVE Typed'
<1>1. inbox' \in Seq(Message)
  <2>1. [frame |-> frame, mine |-> TRUE] \in Message /\ inbox \in Seq(Message)
    BY DEF Typed, TypeOK, Message
  <2>2. \/ inbox' = inbox
        \/ inbox' = Append(inbox, [frame |-> frame, mine |-> TRUE])
    BY DEF Cancel
  <2> QED BY <2>1, <2>2, AppendProperties
<1> QED BY <1>1 DEF Cancel, Finish, bounds, Typed, TypeOK, Tapped, Message

LEMMA ServiceTyped ==
  ASSUME Typed, DispatchReply \/ Drop \/ Reconnect
  PROVE  Typed'
<1> USE DEF Typed
<1>1. CASE DispatchReply
  <2>1. Head(replies) \in BOOLEAN /\ Tail(replies) \in Seq(BOOLEAN)
    BY <1>1, HeadTailProperties DEF DispatchReply, TypeOK
  <2>2. <<Head(replies)>> \in Seq(BOOLEAN) /\ Len(<<Head(replies)>>) = 1
    BY <2>1
  <2>3. replyCh' \in Seq(BOOLEAN) /\ Len(replyCh') <= 1
    <3>1. replyCh' = replyCh \/ replyCh' = <<Head(replies)>>
      BY <1>1 DEF DispatchReply
    <3>2. replyCh \in Seq(BOOLEAN) /\ Len(replyCh) <= 1
      BY DEF TypeOK
    <3>3. CASE replyCh' = replyCh
      BY <3>2, <3>3
    <3>4. CASE replyCh' = <<Head(replies)>>
      BY <2>2, <3>4
    <3> QED BY <3>1, <3>3, <3>4
  <2> QED BY <1>1, <2>1, <2>3
          DEF DispatchReply, history, bounds, TypeOK, Tapped, LastFrame
<1>2. CASE Drop
  <2>1. drops' \in 0..MaxDrops
    BY <1>2, Bounds DEF Drop, TypeOK
  <2> QED BY <1>2, <2>1, EndSessionTyped
          DEF Drop, upload, TypeOK, Tapped, LastFrame, Message
<1>3. CASE Reconnect
  BY <1>3 DEF Reconnect, upload, history, bounds, TypeOK, Tapped, LastFrame
<1> QED BY <1>1, <1>2, <1>3

LEMMA PrinterTyped ==
  ASSUME Typed, NEW ok \in BOOLEAN, PrinterHandles(ok)
  PROVE  Typed'
<1> USE DEF Typed
<1>1. /\ Head(inbox) \in Message /\ inbox' \in Seq(Message)
  BY HeadTailProperties DEF PrinterHandles, TypeOK, Message
<1>2. replies' \in Seq(BOOLEAN)
  BY AppendProperties DEF PrinterHandles, TypeOK
<1>3. accepted' \subseteq Frames /\ prints' \in Nat
  BY <1>1 DEF PrinterHandles, TypeOK, Message
<1> QED BY <1>1, <1>2, <1>3
        DEF PrinterHandles, upload, bounds, TypeOK, Tapped, LastFrame, Message

LEMMA StepTyped == ASSUME Typed, [Next]_vars PROVE Typed'
<1>1. CASE UNCHANGED vars
  BY <1>1 DEF vars, upload, network, history, bounds, Typed, TypeOK, Tapped,
              LastFrame
<1> QED BY <1>1, UploadTyped, ConnectTyped, WaitTyped, EscalateTyped,
           CancelTyped, ServiceTyped, PrinterTyped DEF Next, UploadStep

(***************************************************************************)
(* Retries, power cycles and the attempts of a frame stay within their     *)
(* bounds, and the frame being sent is one of the file.                    *)
(***************************************************************************)
THEOREM TypeCorrect == Spec => []TypeOK
<1>1. Spec => []Typed
  BY TypedInit, StepTyped, PTL DEF Spec
<1> QED BY <1>1, PTL DEF Typed

-----------------------------------------------------------------------------
(* One frame or one reply at a time.                                       *)

Kept == Typed /\ Quiet /\ InStep /\ Clean

LEMMA KeptInit == Init => Kept
<1>1. Init => Quiet /\ InStep /\ Clean
  BY DEF Init, Quiet, InStep, Clean, Tapped
<1> QED BY <1>1, TypedInit DEF Kept

(* The service closes its client: nothing is under way any more.           *)
LEMMA SessionEnds ==
  ASSUME Kept, EndSession, UNCHANGED <<pc, frame, replyCh>> \/ ~Tapped'
  PROVE  Quiet' /\ InStep' /\ Clean'
<1> USE DEF Kept
<1>1. /\ inbox' = <<>> /\ replies' = <<>> /\ ~mySession' /\ ~late'
      /\ UNCHANGED <<accepted, behind>>
  BY EndSessionTyped
<1>2. Quiet' /\ Clean'
  BY <1>1 DEF Quiet, Clean
<1>3. InStep'
  BY <1>1 DEF InStep, OneUnderWay, Has, Tapped
<1> QED BY <1>2, <1>3

LEMMA Single ==
  ASSUME NEW S, NEW s \in Seq(S), Len(s) = 1
  PROVE  s[1] \in S /\ s = <<s[1]>>
<1>1. s[1] \in S /\ <<s[1]>> \in Seq(S) /\ Len(<<s[1]>>) = 1
  OBVIOUS
<1> QED BY <1>1, SeqEqual

LEMMA UploadKept ==
  ASSUME Kept, NEW startPrint \in BOOLEAN, Upload(startPrint)
  PROVE  Quiet' /\ InStep' /\ Clean'
<1> USE DEF Kept
<1>1. /\ pc = "idle" /\ pc' = "connect"
      /\ UNCHANGED <<mySession, replies, accepted, late, behind>>
  BY DEF Upload, Busy
<1>2. /\ inbox \in Seq(Message) /\ inbox' \in Seq(Message)
      /\ Len(inbox') = Len(inbox) /\ \A i \in 1..Len(inbox') : ~inbox'[i].mine
  BY Disowned DEF Upload, Typed, TypeOK, Message
<1>3. inbox = <<>> => inbox' = <<>>
  BY <1>2
<1>4. ASSUME NEW m \in Message, inbox = <<m>>
      PROVE  inbox'[1] \in Message /\ inbox' = <<inbox'[1]>> /\ ~inbox'[1].mine
  <2>1. Len(inbox') = 1
    BY <1>2, <1>4
  <2>2. inbox'[1] \in Message /\ inbox' = <<inbox'[1]>>
    BY <1>2, <2>1, Single
  <2> QED BY <1>2, <2>1, <2>2
<1>5. InStep'
  BY <1>1, <1>3, <1>4 DEF InStep, Tapped
<1> QED BY <1>1, <1>3, <1>5 DEF Quiet, Clean, Tapped

LEMMA ConnectKept ==
  ASSUME Kept, Connect
  PROVE  Quiet' /\ InStep' /\ Clean'
<1> USE DEF Kept
<1>1. /\ pc = "connect" /\ pc' = "handshake" /\ mySession' /\ frame' = 0
      /\ replyCh' = <<>> /\ accepted' = {}
      /\ UNCHANGED <<inbox, replies, late>>
  BY DEF Connect
<1>2. behind' = late
  BY DEF Connect
<1>3. ~late => inbox = <<>> /\ replies = <<>>
  BY <1>1 DEF Clean, Tapped
<1>4. {} = 0..(0 - 1)
  OBVIOUS
<1> QED BY <1>1, <1>2, <1>3, <1>4 DEF Quiet, InStep, Clean, Has, Tapped

(* The steps of uploadOnce that touch neither the session nor what is      *)
(* under way, and leave the tap or have not used it.                       *)
LEMMA MoveKept ==
  ASSUME Kept, UNCHANGED <<network, history>>, ~Tapped',
         ~Tapped \/ ~mySession
  PROVE  Quiet' /\ InStep' /\ Clean'
<1> USE DEF Kept
<1>1. UNCHANGED <<mySession, inbox, replies, accepted, late, behind>>
  BY DEF network, history
<1>2. Tapped => inbox = <<>> /\ replies = <<>>
  BY DEF Quiet
<1>3. InStep'
  <2>1. pc' \notin {"handshake", "write", "sent", "wait"}
    BY DEF Tapped
  <2>2. ~behind /\ ~Tapped => inbox = <<>> \/ \E m \in Message :
          /\ inbox = <<m>>
          /\ m.mine /\ m.frame = END => 0..Blocks \subseteq accepted
    BY DEF InStep
  <2> QED BY <1>1, <1>2, <2>1, <2>2 DEF InStep
<1> QED BY <1>1, <1>2, <1>3 DEF Quiet, Clean

LEMMA HandshakeKept ==
  ASSUME Kept, Handshake
  PROVE  Quiet' /\ InStep' /\ Clean'
BY DEF Handshake, network, history, Kept, Quiet, InStep, Clean, Has, Tapped

LEMMA AckedKept ==
  ASSUME Kept, WriteAcked
  PROVE  Quiet' /\ InStep' /\ Clean'
BY DEF WriteAcked, network, history, Kept, Quiet, InStep, Clean, Has, Tapped,
       OneUnderWay, Current

LEMMA WriteKept ==
  ASSUME Kept, WriteFrame
  PROVE  Quiet' /\ InStep' /\ Clean'
<1> USE DEF Kept
<1>1. /\ pc = "write" /\ pc' = "sent" /\ mySession
      /\ inbox' = Append(inbox, Current)
      /\ UNCHANGED <<frame, replyCh, mySession, replies, accepted, late, behind>>
  BY DEF WriteFrame, history, Current
<1>2. ~behind => inbox = <<>> /\ replies = <<>> /\ replyCh = <<>> /\ Has(FALSE)
  BY <1>1 DEF InStep
<1>3. inbox = <<>> => inbox' = <<Current>>
  BY <1>1
<1>4. UNCHANGED Current
  BY <1>1 DEF Current
<1>5. InStep'
  BY <1>1, <1>2, <1>3, <1>4 DEF InStep, OneUnderWay, Has, Tapped
<1> QED BY <1>1, <1>5 DEF Quiet, Clean, Tapped

(* A reply that is taken from the channel is that of the current frame.    *)
LEMMA TapAnswers ==
  ASSUME Kept, pc = "wait", NEW ok \in BOOLEAN, replyCh = <<ok>>, ~behind
  PROVE  inbox = <<>> /\ replies = <<>> /\ Has(ok)
<1>1. OneUnderWay
  BY DEF Kept, InStep
<1>2. \A b \in BOOLEAN : <<b>> = <<ok>> => b = ok
  OBVIOUS
<1> QED BY <1>1, <1>2 DEF OneUnderWay

LEMMA AnsweredKept ==
  ASSUME Kept, ReplyOk \/ ReplyError
  PROVE  Quiet' /\ InStep' /\ Clean'
<1> USE DEF Kept
<1>1. /\ pc = "wait" /\ replyCh' = <<>>
      /\ UNCHANGED <<mySession, inbox, replies, accepted, late, behind>>
  BY DEF ReplyOk, ReplyError, network, history
<1>2. PICK ok \in BOOLEAN : replyCh = <<ok>> /\ (ok <=> ReplyOk)
  <2>1. <<TRUE>> # <<FALSE>>
    OBVIOUS
  <2> QED BY <2>1 DEF ReplyOk, ReplyError
<1>3. ~behind => inbox = <<>> /\ replies = <<>> /\ Has(ok)
  BY <1>1, <1>2, TapAnswers
<1>4. \/ ~Tapped'
      \/ pc' = "write" /\ frame' = IF ok THEN frame + 1 ELSE frame
  BY <1>2 DEF ReplyOk, ReplyError, SendAgain, Tapped
<1>5. frame \in Nat
  BY Bounds DEF Typed, TypeOK, Frames
<1>6. pc' = "write" /\ ~behind => Has(FALSE)'
  BY <1>1, <1>3, <1>4, <1>5 DEF Has, Tapped
<1>7. InStep'
  BY <1>1, <1>3, <1>4, <1>6 DEF InStep, Tapped
<1>8. ~late => ~behind \/ ~mySession
  BY <1>1 DEF Clean, Tapped
<1>9. Clean'
  BY <1>1, <1>3, <1>8 DEF Clean, Quiet
<1> QED BY <1>1, <1>7, <1>9 DEF Quiet

LEMMA TimeoutKept ==
  ASSUME Kept, ReplyTimeout
  PROVE  Quiet' /\ InStep' /\ Clean'
<1> USE DEF Kept
<1>1. /\ behind' /\ (late' <=> late \/ mySession)
      /\ UNCHANGED <<mySession, inbox, replies>>
  BY DEF ReplyTimeout, network
<1> QED BY <1>1 DEF Quiet, InStep, Clean

LEMMA CancelKept ==
  ASSUME Kept, Cancel
  PROVE  Quiet' /\ InStep' /\ Clean'
<1> USE DEF Kept
<1>1. /\ ~Tapped' /\ pc \in {"connect", "handshake", "write", "sent", "wait"}
      /\ late' <=> late \/ (pc \in {"write", "sent", "wait"} /\ mySession)
      /\ UNCHANGED <<mySession, replies, accepted, behind>>
  BY DEF Cancel, Finish, Tapped
<1>2. \/ UNCHANGED inbox
      \/ pc = "write" /\ mySession /\ inbox' = Append(inbox, Current)
  BY DEF Cancel, Current
<1>3. Quiet'
  BY <1>1, <1>2 DEF Quiet
<1>4. Clean'
  BY <1>1, <1>2 DEF Clean, InStep, Quiet, Tapped
<1>5. ASSUME ~behind, inbox' # <<>>
      PROVE  \E m \in Message :
               /\ inbox' = <<m>>
               /\ m.mine /\ m.frame = END => 0..Blocks \subseteq accepted
  <2>1. Current \in Message /\ Current.frame = frame
    BY DEF Current, Message, Typed, TypeOK
  <2>2. Has(FALSE) /\ frame = END => 0..Blocks \subseteq accepted
    BY Bounds DEF Has
  <2>3. CASE pc = "write" /\ inbox' = Append(inbox, Current)
    <3>1. inbox = <<>> /\ Has(FALSE)
      BY <1>5, <2>3 DEF InStep
    <3>2. inbox' = <<Current>>
      BY <2>3, <3>1
    <3> QED BY <2>1, <2>2, <3>1, <3>2
  <2>4. CASE UNCHANGED inbox /\ pc \in {"sent", "wait"}
    <3>1. inbox' = <<Current>> /\ Has(FALSE)
      BY <1>5, <2>4 DEF InStep, OneUnderWay
    <3> QED BY <2>1, <2>2, <3>1
  <2>5. CASE UNCHANGED inbox /\ pc \in {"handshake", "write"}
    BY <1>5, <2>5 DEF InStep
  <2>6. CASE UNCHANGED inbox /\ pc = "connect"
    BY <1>5, <2>6 DEF InStep, Tapped
  <2> QED BY <1>1, <1>2, <2>3, <2>4, <2>5, <2>6
<1>6. InStep'
  BY <1>1, <1>5 DEF InStep, Tapped
<1> QED BY <1>3, <1>4, <1>6

LEMMA DispatchKept ==
  ASSUME Kept, DispatchReply
  PROVE  Quiet' /\ InStep' /\ Clean'
<1> USE DEF Kept
<1>1. /\ replies # <<>> /\ replies' = Tail(replies)
      /\ replyCh' = IF Tapped /\ replyCh = <<>> THEN <<Head(replies)>> ELSE replyCh
      /\ UNCHANGED <<pc, frame, mySession, inbox, accepted, late, behind>>
  BY DEF DispatchReply, history
<1>2. mySession /\ Quiet'
  BY <1>1 DEF Quiet
<1>3. Clean'
  BY <1>1 DEF Clean, Tapped
<1>4. ASSUME ~behind, pc \in {"sent", "wait"}
      PROVE  OneUnderWay'
  <2>1. PICK ok \in BOOLEAN :
          inbox = <<>> /\ replies = <<ok>> /\ replyCh = <<>> /\ Has(ok)
    BY <1>1, <1>4 DEF InStep, OneUnderWay
  <2>2. Tail(<<ok>>) = <<>> /\ Head(<<ok>>) = ok
    OBVIOUS
  <2>3. inbox' = <<>> /\ replies' = <<>> /\ replyCh' = <<ok>> /\ Has(ok)'
    BY <1>1, <1>4, <2>1, <2>2 DEF Tapped, Has
  <2> QED BY <2>3 DEF OneUnderWay
<1>5. ~behind => pc \notin {"handshake", "write"}
  BY <1>1 DEF InStep
<1>6. InStep'
  BY <1>1, <1>4, <1>5 DEF InStep, Tapped
<1> QED BY <1>2, <1>3, <1>6

LEMMA PrinterKept ==
  ASSUME Kept, NEW ok \in BOOLEAN, PrinterHandles(ok)
  PROVE  Quiet' /\ InStep' /\ Clean'
<1> USE DEF Kept
<1> DEFINE f == Head(inbox)
<1>1. /\ inbox # <<>> /\ inbox' = Tail(inbox) /\ replies' = Append(replies, ok)
      /\ accepted' = IF ok /\ f.mine
                     THEN (IF f.frame = 0 THEN {} ELSE accepted) \cup {f.frame}
                     ELSE accepted
      /\ UNCHANGED <<pc, frame, replyCh, mySession, late, behind>>
  BY DEF PrinterHandles, upload
<1>2. mySession /\ Quiet'
  BY <1>1 DEF Quiet
<1>3. ~late => Tapped /\ ~behind
  BY <1>1, <1>2 DEF Clean
<1>4. Clean'
  BY <1>1, <1>3 DEF Clean, Tapped
<1>5. ASSUME ~behind, pc \in {"sent", "wait"}
      PROVE  OneUnderWay'
  <2>1. inbox = <<Current>> /\ replies = <<>> /\ replyCh = <<>> /\ Has(FALSE)
    BY <1>1, <1>5 DEF InStep, OneUnderWay
  <2>2. /\ Tail(<<Current>>) = <<>> /\ Head(<<Current>>) = Current
        /\ Append(<<>>, ok) = <<ok>>
    OBVIOUS
  <2>3. Current.mine /\ Current.frame = frame
    BY DEF Current
  <2>4. accepted' = IF ok THEN (IF frame = 0 THEN {} ELSE accepted) \cup {frame}
                    ELSE accepted
    BY <1>1, <2>1, <2>2, <2>3
  <2>5. frame \in Nat /\ accepted = 0..(frame - 1)
    BY <2>1, Bounds DEF Has, Typed, TypeOK, Frames
  <2>6. Has(ok)'
    <3>1. 0..(frame - 1) \cup {frame} = 0..frame
      BY <2>5
    <3>2. frame = 0 => 0..(frame - 1) = {}
      OBVIOUS
    <3> QED BY <1>1, <2>4, <2>5, <3>1, <3>2 DEF Has
  <2>7. inbox' = <<>> /\ replies' = <<ok>> /\ replyCh' = <<>>
    BY <1>1, <2>1, <2>2
  <2> QED BY <2>6, <2>7 DEF OneUnderWay
<1>6. ASSUME ~behind, ~Tapped PROVE inbox' = <<>>
  <2>1. PICK m \in Message : inbox = <<m>>
    BY <1>1, <1>6 DEF InStep
  <2> QED BY <1>1, <2>1
<1>7. ~behind => pc \notin {"handshake", "write"}
  BY <1>1 DEF InStep
<1>8. InStep'
  BY <1>1, <1>5, <1>6, <1>7 DEF InStep, Tapped
<1> QED BY <1>2, <1>4, <1>8

LEMMA StepKept == ASSUME Kept, [Next]_vars PROVE Kept'
<1>1. Typed'
  BY StepTyped DEF Kept
<1>2. CASE ConnectTimeout \/ WriteClosed \/ GiveUp \/ PowerCycleFails
  <2>1. UNCHANGED <<network, history>> /\ ~Tapped' /\ (~Tapped \/ ~mySession)
    BY <1>2 DEF ConnectTimeout, WriteClosed, GiveUp, PowerCycleFails, TryAgain,
                Finish, Tapped
  <2> QED BY <1>1, <2>1, MoveKept DEF Kept
<1>3. CASE StaleSession \/ PowerCycle \/ Drop
  <2>1. EndSession /\ (UNCHANGED <<pc, frame, replyCh>> \/ ~Tapped')
    BY <1>3 DEF StaleSession, PowerCycle, Drop, TryAgain, upload, Tapped
  <2> QED BY <1>1, <2>1, SessionEnds DEF Kept
<1>4. CASE Reconnect \/ UNCHANGED vars
  <2>1. UNCHANGED <<pc, frame, replyCh, mySession, inbox, replies, accepted,
                    late, behind>>
    BY <1>4 DEF Reconnect, vars, upload, network, history
  <2> QED BY <1>1, <2>1
          DEF Kept, Quiet, InStep, Clean, OneUnderWay, Has, Current, Tapped
<1> QED BY <1>1, <1>2, <1>3, <1>4, UploadKept, ConnectKept, HandshakeKept,
           WriteKept, AckedKept, AnsweredKept, TimeoutKept, CancelKept, DispatchKept,
           PrinterKept DEF Kept, Next, UploadStep

LEMMA AlwaysKept == Spec => []Kept
  BY KeptInit, StepKept, PTL DEF Spec

(***************************************************************************)
(* Success is true: with no wait given up, the printer has accepted every  *)
(* frame when Upload returns nil, though no reply says what it answers.    *)
(***************************************************************************)
THEOREM SuccessIsTrueHolds == Spec => SuccessIsTrue
<1> DEFINE A == Succeeds /\ ~behind => accepted = 0..LastFrame
<1>1. ASSUME Kept, [Next]_vars PROVE [A]_vars
  <2> SUFFICES ASSUME Next, Succeeds, ~behind PROVE accepted = 0..LastFrame
    BY <1>1
  <2>1. ReplyOk /\ frame = LastFrame
    BY DEF Succeeds, Next, UploadStep, Upload, Connect, ConnectTimeout,
       StaleSession, Handshake, WriteFrame, WriteAcked, WriteClosed, ReplyOk,
       ReplyError, ReplyTimeout, GiveUp, PowerCycle, PowerCycleFails, Cancel, DispatchReply,
       Drop, Reconnect, PrinterHandles, TryAgain, SendAgain, Finish, upload
  <2>2. Has(TRUE)
    BY <1>1, <2>1, TapAnswers DEF ReplyOk
  <2> QED BY <2>1, <2>2 DEF Has
<1> QED BY <1>1, AlwaysKept, PTL DEF Spec, SuccessIsTrue

(***************************************************************************)
(* With no wait given up, the END that starts a print finds the whole file *)
(* with the printer, also when it arrives after the caller has cancelled.  *)
(***************************************************************************)
THEOREM NeverPrintsPartHolds == Spec => NeverPrintsPart
<1> DEFINE A == prints' > prints /\ ~behind => 0..Blocks \subseteq accepted
<1>1. ASSUME Kept, [Next]_vars PROVE [A]_vars
  <2> SUFFICES ASSUME Next, prints' > prints, ~behind
               PROVE  0..Blocks \subseteq accepted
    BY <1>1
  <2>1. prints \in Nat
    BY <1>1 DEF Kept, Typed, TypeOK
  <2>2. PICK ok \in BOOLEAN : PrinterHandles(ok)
    <3>1. ~\E startPrint \in BOOLEAN : Upload(startPrint)
      BY <2>1 DEF Upload
    <3>2. EndSession \/ UNCHANGED history => prints' = prints
      BY DEF EndSession, history
    <3>3. UploadStep => prints' = prints
      BY <3>2 DEF UploadStep, Connect, ConnectTimeout, StaleSession, Handshake,
         WriteFrame, WriteAcked, WriteClosed, ReplyOk, ReplyError,
         ReplyTimeout, GiveUp, PowerCycle, PowerCycleFails
    <3>4. Cancel \/ DispatchReply \/ Drop \/ Reconnect => prints' = prints
      BY <3>2 DEF Cancel, DispatchReply, Drop, Reconnect
    <3> QED BY <2>1, <3>1, <3>3, <3>4 DEF Next
  <2>3. inbox # <<>> /\ Head(inbox).mine /\ Head(inbox).frame = END
    BY <2>1, <2>2 DEF PrinterHandles
  <2>4. CASE Tapped
    <3>1. inbox = <<Current>> /\ Has(FALSE)
      BY <1>1, <2>3, <2>4 DEF Kept, InStep, OneUnderWay, Tapped
    <3>2. frame = END
      BY <2>3, <3>1 DEF Current
    <3> QED BY <3>1, <3>2, Bounds DEF Has
  <2>5. CASE ~Tapped
    <3>1. PICK m \in Message :
            /\ inbox = <<m>>
            /\ m.mine /\ m.frame = END => 0..Blocks \subseteq accepted
      BY <1>1, <2>3, <2>5 DEF Kept, InStep
    <3>2. Head(inbox) = m
      BY <3>1
    <3> QED BY <2>3, <3>1, <3>2
  <2> QED BY <2>4, <2>5
<1> QED BY <1>1, AlwaysKept, PTL DEF Spec, NeverPrintsPart

-----------------------------------------------------------------------------
(* The END is sent once.                                                   *)

LEMMA EndAppended ==
  ASSUME Typed, inbox' = Append(inbox, Current), UNCHANGED frame
  PROVE  Ends' \subseteq Ends \cup {Len(inbox) + 1}
         /\ (frame # END => Ends' \subseteq Ends)
<1>1. Current \in Message /\ inbox \in Seq(Message) /\ Current.frame = frame
  BY DEF Current, Message, Typed, TypeOK
<1>2. /\ Len(inbox') = Len(inbox) + 1 /\ Len(inbox) \in Nat
      /\ \A i \in 1..Len(inbox) : inbox'[i] = inbox[i]
      /\ inbox'[Len(inbox) + 1] = Current
  BY <1>1, AppendProperties
<1> QED BY <1>1, <1>2 DEF Ends

LEMMA EndHandled ==
  ASSUME Typed, inbox # <<>>, inbox' = Tail(inbox)
  PROVE  /\ \A i \in Ends' : i + 1 \in Ends /\ i \in Nat \ {0}
         /\ Head(inbox).mine /\ Head(inbox).frame = END => 1 \in Ends
<1>1. inbox \in Seq(Message)
  BY DEF Message, Typed, TypeOK
<1>2. /\ Len(inbox') = Len(inbox) - 1 /\ Len(inbox) \in Nat \ {0}
      /\ \A i \in 1..Len(inbox') : inbox'[i] = inbox[i + 1]
      /\ Head(inbox) = inbox[1]
  BY <1>1, HeadTailProperties
<1> QED BY <1>2 DEF Ends

LEMMA EndIsLastInit == Init => EndIsLast
  BY DEF Init, EndIsLast, Ends, Tapped

LEMMA SendingEnds ==
  ASSUME Typed, EndIsLast,
         UploadStep \/ Cancel \/ DispatchReply \/ Drop \/ Reconnect
  PROVE  EndIsLast'
<1> USE DEF Typed
<1>1. CASE StaleSession \/ PowerCycle \/ Drop
  <2>1. /\ pc' = pc \/ pc \in {"connect", "escalate"}
        /\ cut' = (cut \/ (pc = "sent" /\ frame = END))
        /\ inbox' = <<>> /\ UNCHANGED <<frame, prints>>
    BY <1>1 DEF StaleSession, PowerCycle, Drop, EndSession, TryAgain, upload
  <2>2. Ends' = {}
    BY <2>1 DEF Ends
  <2>3. pc' \in {"connect", "escalate", "handshake", "write", "sent", "wait", "idle"}
        /\ (pc \in {"connect", "escalate"} => pc' \in {"connect", "escalate"})
    BY <1>1 DEF StaleSession, PowerCycle, Drop, TryAgain, upload, TypeOK
  <2> QED BY <2>1, <2>2, <2>3 DEF EndIsLast
<1>2. CASE Connect \/ ConnectTimeout \/ Handshake \/ GiveUp \/ PowerCycleFails
  <2>1. /\ pc \in {"connect", "handshake", "escalate"} /\ pc' # "sent"
        /\ UNCHANGED <<inbox, prints, cut>>
    BY <1>2 DEF Connect, ConnectTimeout, Handshake, GiveUp, PowerCycleFails,
                TryAgain, Finish, network, history, Tapped
  <2> QED BY <2>1 DEF EndIsLast, Ends
<1>3. CASE WriteClosed
  <2>1. /\ pc \in {"handshake", "write", "sent"} /\ ~mySession
        /\ pc' \in {"connect", "escalate"}
        /\ UNCHANGED <<inbox, prints, cut>>
    BY <1>3 DEF WriteClosed, TryAgain, network, history
  <2> QED BY <2>1 DEF EndIsLast, Ends
<1>4. CASE WriteFrame
  <2>1. /\ pc = "write" /\ pc' = "sent" /\ mySession'
        /\ inbox' = Append(inbox, Current) /\ UNCHANGED <<frame, prints, cut>>
    BY <1>4 DEF WriteFrame, history, Current
  <2>2. Ends' \subseteq Ends \cup {Len(inbox) + 1}
        /\ (frame # END => Ends' \subseteq Ends)
    BY <2>1, EndAppended
  <2>3. ~cut => prints = 0 /\ Ends = {}
    BY <2>1 DEF EndIsLast, TypeOK
  <2> QED BY <2>1, <2>2, <2>3 DEF EndIsLast
<1>5. CASE ReplyOk \/ ReplyError \/ ReplyTimeout
  <2>1. /\ pc = "wait" /\ UNCHANGED <<mySession, inbox, prints, cut>>
    BY <1>5 DEF ReplyOk, ReplyError, ReplyTimeout, network, history
  <2>2. frame = END => pc' = "idle"
    <3>1. frame = END => frame = LastFrame /\ ~MayRepeat
      BY <2>1, Bounds DEF LastFrame, MayRepeat, IsData, Tapped
    <3> QED BY <1>5, <3>1 DEF ReplyOk, ReplyError, ReplyTimeout, Finish
  <2>3. UNCHANGED Ends
    BY <2>1 DEF Ends
  <2>4. pc' # "sent"
    BY <1>5 DEF ReplyOk, ReplyError, ReplyTimeout, SendAgain, Finish
  <2> QED BY <2>1, <2>2, <2>3, <2>4 DEF EndIsLast
<1>6. CASE Cancel
  <2>1. /\ pc' = "idle" /\ ~Tapped' /\ UNCHANGED <<frame, prints, cut>>
        /\ UNCHANGED inbox \/ (pc = "write" /\ inbox' = Append(inbox, Current))
    BY <1>6 DEF Cancel, Finish, Tapped, Current
  <2>2. CASE UNCHANGED inbox
    BY <2>1, <2>2 DEF EndIsLast, Ends
  <2>3. CASE pc = "write" /\ inbox' = Append(inbox, Current)
    <3>1. Ends' \subseteq Ends \cup {Len(inbox) + 1}
      BY <2>1, <2>3, EndAppended
    <3>2. ~cut => prints = 0 /\ Ends = {}
      BY <2>3 DEF EndIsLast, TypeOK
    <3> QED BY <2>1, <3>1, <3>2 DEF EndIsLast
  <2> QED BY <2>1, <2>2, <2>3
<1>7. CASE DispatchReply \/ Reconnect
  <2>1. UNCHANGED <<pc, frame, mySession, inbox, prints, cut>>
    BY <1>7 DEF DispatchReply, Reconnect, upload, history
  <2> QED BY <2>1 DEF EndIsLast, Ends, Tapped
<1>8. CASE WriteAcked
  <2>1. /\ pc = "sent" /\ pc' = "wait"
        /\ UNCHANGED <<frame, mySession, inbox, prints, cut>>
    BY <1>8 DEF WriteAcked, network, history
  <2> QED BY <2>1 DEF EndIsLast, Ends, Tapped
<1> QED BY <1>1, <1>2, <1>3, <1>4, <1>5, <1>6, <1>7, <1>8 DEF UploadStep

LEMMA UploadEnds ==
  ASSUME Typed, NEW startPrint \in BOOLEAN, Upload(startPrint)
  PROVE  EndIsLast'
<1>1. /\ pc' = "connect" /\ prints' = 0 /\ ~Tapped'
  BY DEF Upload, Tapped
<1>2. Ends' = {}
  BY Disowned DEF Upload, Typed, TypeOK, Message, Ends
<1> QED BY <1>1, <1>2 DEF EndIsLast

LEMMA PrinterEnds ==
  ASSUME Typed, EndIsLast, NEW ok \in BOOLEAN, PrinterHandles(ok)
  PROVE  EndIsLast'
<1>1. /\ inbox # <<>> /\ inbox' = Tail(inbox)
      /\ prints' = prints \/ (/\ prints' = prints + 1
                              /\ Head(inbox).mine /\ Head(inbox).frame = END)
      /\ UNCHANGED <<pc, frame, mySession, cut>>
  BY DEF PrinterHandles, upload
<1>2. /\ \A i \in Ends' : i + 1 \in Ends /\ i \in Nat \ {0}
      /\ Head(inbox).mine /\ Head(inbox).frame = END => 1 \in Ends
  BY <1>1, EndHandled
<1>3. prints \in Nat
  BY DEF Typed, TypeOK
<1>4. CASE prints' = prints
  <2>1. ~cut => \A i, j \in Ends' : i = j
    <3> SUFFICES ASSUME ~cut, NEW i \in Ends', NEW j \in Ends' PROVE i = j
      OBVIOUS
    <3>1. i + 1 = j + 1
      BY <1>2 DEF EndIsLast
    <3> QED BY <1>2, <3>1
  <2> QED BY <1>1, <1>2, <1>4, <2>1 DEF EndIsLast, Tapped
<1>5. CASE prints' = prints + 1 /\ 1 \in Ends
  <2>1. ~cut => prints = 0 /\ Ends' = {}
    BY <1>2, <1>3, <1>5 DEF EndIsLast
  <2> QED BY <1>1, <1>5, <2>1 DEF EndIsLast, Tapped
<1> QED BY <1>1, <1>2, <1>4, <1>5

(***************************************************************************)
(* A print is started twice only when a session ended between the arrival  *)
(* of the END and the look at its acknowledgement: neither a repeated      *)
(* frame, nor a wait given up, nor a cancelled caller, nor any other drop  *)
(* sends END again.                                                        *)
(***************************************************************************)
THEOREM PrintsOnceHolds == Spec => []PrintsOnce
<1>1. Init => Typed /\ EndIsLast
  BY TypedInit, EndIsLastInit
<1>2. ASSUME Typed, EndIsLast, [Next]_vars PROVE Typed' /\ EndIsLast'
  <2>1. ASSUME UNCHANGED vars PROVE EndIsLast'
    <3>1. UNCHANGED <<pc, frame, mySession, inbox, prints, cut>>
      BY <2>1 DEF vars, upload, network, history
    <3> QED BY <1>2, <3>1 DEF EndIsLast, Ends, Tapped
  <2>2. EndIsLast'
    BY <1>2, <2>1, SendingEnds, UploadEnds, PrinterEnds DEF Next
  <2> QED BY <1>2, <2>2, StepTyped
<1>3. Typed /\ EndIsLast => PrintsOnce
  BY DEF EndIsLast, PrintsOnce, Typed, TypeOK
<1> QED BY <1>1, <1>2, <1>3, PTL DEF Spec

=============================================================================
