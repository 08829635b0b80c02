----------------------------- MODULE DrwChannel -----------------------------
(***************************************************************************)
(* A logical PPPP channel, internal/pppp/protocol/channel.go, between two  *)
(* ends that both run this code: the sending half of one Channel, the      *)
(* receiving half of the other, and the UDP packets between them, which    *)
(* may be lost, duplicated and reordered.                                  *)
(*                                                                         *)
(* Chunk n of the stream stands for its own payload; the index a packet    *)
(* carries is n wrapped to the width of the counter.  The counters of the  *)
(* code are wrapped; sent and acked are the unwrapped values they stand    *)
(* for, and serve only to state properties and bounds.                     *)
(*                                                                         *)
(* Time is left out: any chunk in txQueue may be due at a poll.            *)
(***************************************************************************)
EXTENDS CyclicU16, Sequences, FiniteSets, SequencesExt, FiniteSetsExt

CONSTANTS
  MaxInFlight,  \* maxInFlight: chunks sent and not acknowledged
  WriteSizes,   \* how many chunks one Write may have
  MaxSpan,      \* bound: written and not acknowledged chunks, at most
  MaxChunks,    \* bound: chunks written in all
  MaxAge,       \* bound: how many chunks late a packet may still arrive
  MaxOvertake   \* bound: chunks others write after those of a blocked caller

ASSUME DrwAssumption ==
  /\ MaxInFlight \in Nat \ {0}
  /\ WriteSizes \subseteq Nat \ {0}
  /\ MaxSpan \in Nat /\ MaxChunks \in Nat /\ MaxAge \in Nat
  /\ MaxSpan <= WrapLimit /\ MaxAge <= WrapLimit  \* what Greater can tell apart
  /\ 4 * WrapLimit <= Mod                         \* 1024 and 65536 in the code
  /\ MaxOvertake \in 0..(Half - 1)

VARIABLES
  backlog,  \* c.backlog: chunks written and not yet in flight
  txQueue,  \* c.txQueue: chunks in flight
  txCtr,    \* c.txCtr
  txAck,    \* c.txAck
  acks,     \* c.acks: acknowledged out of order
  closed,   \* c.closed
  writer,   \* the caller of WriteContext: "idle" or "blocked"
  done,     \* the counter value the blocked caller waits for
  rxCtr,    \* c.rxCtr of the receiving end
  rxQueue,  \* c.rxQueue of the receiving end: payload of each queued index
  out,      \* what the receiving end wrote to c.RX
  drws,     \* DRW packets on their way
  drwAcks,  \* DRW acknowledgements on their way
  sent,     \* history: chunks written
  goal,     \* history: the chunk done stands for
  acked,    \* history: the chunk txAck stands for
  told      \* history: chunks a WriteContext has reported as acknowledged

sender   == <<backlog, txQueue, txCtr, txAck, acks, closed, writer, done>>
receiver == <<rxCtr, rxQueue, out>>
net      == <<drws, drwAcks>>
history  == <<sent, acked, told, goal>>
vars     == <<sender, receiver, net, history>>

Init ==
  /\ backlog = <<>>
  /\ txQueue = {}
  /\ txCtr = 0
  /\ txAck = 0
  /\ acks = {}
  /\ closed = FALSE
  /\ writer = "idle"
  /\ done = 0
  /\ rxCtr = 0
  /\ rxQueue = <<>>
  /\ out = <<>>
  /\ drws = {}
  /\ drwAcks = {}
  /\ sent = 0
  /\ acked = 0
  /\ told = 0
  /\ goal = 0

-----------------------------------------------------------------------------
(* Writers.  What is written to a closed channel is queued all the same.    *)

Enqueue(n) ==
  /\ sent + n <= MaxChunks
  /\ sent + n - acked <= MaxSpan
  /\ writer = "blocked" => sent + n - goal <= MaxOvertake
  /\ backlog' = backlog \o [i \in 1..n |-> [index |-> Add(txCtr, i - 1),
                                            data  |-> sent + i - 1]]
  /\ txCtr' = Add(txCtr, n)
  /\ sent' = sent + n
  /\ UNCHANGED <<txQueue, txAck, acks, closed, receiver, net, acked, told>>

(* A non-blocking caller returns at once.                                  *)
Write(n) ==
  /\ Enqueue(n)
  /\ UNCHANGED <<writer, done, goal>>

WriteContext(n) ==
  /\ writer = "idle"
  /\ Enqueue(n)
  /\ writer' = "blocked"
  /\ done' = Add(txCtr, n)
  /\ goal' = sent + n

(* Mutant of Acked. *)
AckedBackwards == IsAfterOrEqual(txAck, done)
(* Mutant of Acked. *)
AckedBeyond == IsAfter(done, txAck)

Acked == IsAfterOrEqual(done, txAck)

WriteDone ==
  /\ writer = "blocked"
  /\ ~closed
  /\ Acked
  /\ writer' = "idle"
  /\ told' = goal
  /\ UNCHANGED <<backlog, txQueue, txCtr, txAck, acks, closed, done, receiver,
                 net, sent, acked, goal>>

(* ErrChannelClosed, or the context of the caller is cancelled: what was   *)
(* written stays queued.                                                   *)
WriteFails ==
  /\ writer = "blocked"
  /\ closed \/ ~Acked
  /\ writer' = "idle"
  /\ UNCHANGED <<backlog, txQueue, txCtr, txAck, acks, closed, done, receiver,
                 net, history>>

(* The upload resets the channel when the reply to what it wrote is late,  *)
(* so only after its WriteContext reported success.                        *)
ResetTx ==
  /\ writer = "idle"
  /\ sent > 0 /\ told = sent
  /\ txQueue' = {}
  /\ backlog' = <<>>
  /\ acks' = {}
  /\ txAck' = txCtr
  /\ acked' = sent
  /\ UNCHANGED <<txCtr, closed, writer, done, receiver, net, sent, told, goal>>

(* The client has stopped polling and receiving before it closes.          *)
Close ==
  /\ ~closed
  /\ closed' = TRUE
  /\ UNCHANGED <<backlog, txQueue, txCtr, txAck, acks, writer, done, receiver,
                 net, history>>

-----------------------------------------------------------------------------
(* The run loop of the client.                                             *)

Room == Max({0, Min({Len(backlog), MaxInFlight - Cardinality(txQueue)})})

(* Refill txQueue from the backlog, then send the chunks that are due.     *)
Poll(due) ==
  LET refilled == txQueue \cup ToSet(SubSeq(backlog, 1, Room))
  IN /\ ~closed
     /\ due \subseteq refilled
     /\ txQueue' = refilled
     /\ backlog' = SubSeq(backlog, Room + 1, Len(backlog))
     /\ drws' = drws \cup due
     /\ UNCHANGED <<txCtr, txAck, acks, closed, writer, done, receiver,
                    drwAcks, history>>

(***************************************************************************)
(* UDP promises nothing, but a packet is not delivered more than MaxAge    *)
(* chunks after the one it carries: what has become older is gone.  What   *)
(* is delivered may stay, and be delivered again.                          *)
(***************************************************************************)
Young(packets, n) == {p \in packets : p.data + MaxAge >= n}

(* How many consecutive indices, from c on, are in the set.                *)
RunFrom(c, set) ==
  CHOOSE k \in 0..Cardinality(set) :
    /\ \A j \in 0..(k - 1) : Add(c, j) \in set
    /\ Add(c, k) \notin set

RXAck(ack) ==
  /\ ~closed
  /\ LET noted == IF IsAfterOrEqual(txAck, ack.index) THEN acks \cup {ack.index}
                                                      ELSE acks
         k == RunFrom(txAck, noted)
     IN /\ txQueue' = {c \in txQueue : c.index # ack.index}
        /\ acks' = noted \ {Add(txAck, j) : j \in 0..(k - 1)}
        /\ txAck' = Add(txAck, k)
        /\ acked' = acked + k
  /\ \E kept \in {drwAcks, drwAcks \ {ack}} : drwAcks' = Young(kept, acked')
  /\ UNCHANGED <<backlog, txCtr, closed, writer, done, receiver, drws, sent,
                 told, goal>>

(* The client acknowledges a DRW before it looks at its index.             *)
RXDrw(drw) ==
  /\ IF Greater(rxCtr, drw.index)
     THEN UNCHANGED receiver
     ELSE LET queued == [i \in DOMAIN rxQueue \cup {drw.index} |->
                           IF i \in DOMAIN rxQueue THEN rxQueue[i] ELSE drw.data]
              k == RunFrom(rxCtr, DOMAIN queued)
              run == {Add(rxCtr, j) : j \in 0..(k - 1)}
          IN /\ out' = out \o [i \in 1..k |-> queued[Add(rxCtr, i - 1)]]
             /\ rxQueue' = [i \in DOMAIN queued \ run |-> queued[i]]
             /\ rxCtr' = Add(rxCtr, k)
  /\ \E kept \in {drws, drws \ {drw}} : drws' = Young(kept, Len(out'))
  /\ drwAcks' = drwAcks \cup {drw}
  /\ UNCHANGED <<sender, history>>

-----------------------------------------------------------------------------
(* The network.                                                            *)

LoseDrw(drw) ==
  /\ drws' = drws \ {drw}
  /\ UNCHANGED <<sender, receiver, drwAcks, history>>

LoseAck(ack) ==
  /\ drwAcks' = drwAcks \ {ack}
  /\ UNCHANGED <<sender, receiver, drws, history>>

-----------------------------------------------------------------------------

Send ==
  \/ \E n \in WriteSizes : Write(n) \/ WriteContext(n)
  \/ \E due \in SUBSET (txQueue \cup ToSet(backlog)) : Poll(due)
  \/ ResetTx
  \/ Close

Next ==
  \/ Send
  \/ WriteDone
  \/ WriteFails
  \/ \E ack \in drwAcks : RXAck(ack) \/ LoseAck(ack)
  \/ \E drw \in drws : RXDrw(drw) \/ LoseDrw(drw)

Spec == Init /\ [][Next]_vars

(***************************************************************************)
(* While the client runs, the oldest chunk is polled again and again, and  *)
(* the network does not lose for ever every copy of its packet, nor of its *)
(* acknowledgement.  A blocked caller looks again every 250 ms.            *)
(***************************************************************************)
Of(packets, n) == {p \in packets : p.data = n}

PollOldest ==
  \E due \in SUBSET (txQueue \cup ToSet(backlog)) :
    Of(due, acked) # {} /\ Poll(due)

RXOldest == \E drw \in Of(drws, acked) : RXDrw(drw)
RXOldestAck == \E ack \in Of(drwAcks, acked) : RXAck(ack)
SeeClosed == closed /\ WriteFails

FairSpec ==
  /\ Spec
  /\ WF_vars(PollOldest) /\ SF_vars(RXOldest) /\ SF_vars(RXOldestAck)
  /\ WF_vars(WriteDone) /\ WF_vars(SeeClosed)

-----------------------------------------------------------------------------

Chunks == [index : U16, data : 0..(MaxChunks - 1)]

TypeOK ==
  /\ backlog \in Seq(Chunks)
  /\ txQueue \subseteq Chunks
  /\ txCtr \in U16 /\ txAck \in U16 /\ done \in U16 /\ rxCtr \in U16
  /\ acks \subseteq U16
  /\ closed \in BOOLEAN
  /\ writer \in {"idle", "blocked"}
  /\ DOMAIN rxQueue \subseteq U16
  /\ \A i \in DOMAIN rxQueue : rxQueue[i] \in 0..(MaxChunks - 1)
  /\ out \in Seq(0..(MaxChunks - 1))
  /\ drws \subseteq Chunks /\ drwAcks \subseteq Chunks
  /\ sent \in 0..MaxChunks /\ acked \in Nat /\ told \in Nat /\ goal \in Nat

(* The two ends together are a reliable stream, whatever the network does; *)
(* a WriteContext that reports success has had all its chunks delivered.   *)
Stream == INSTANCE ReliableStream WITH
            written <- sent, delivered <- out, confirmed <- told

IsReliableStream == Stream!Spec

(* A blocked writer is not left hanging: what it wrote is acknowledged, or *)
(* the channel is closed.                                                  *)
BlockedReturns == writer = "blocked" ~> writer = "idle"

(* Everything written arrives, unless the client closes first.             *)
EverythingArrives == Len(out) < sent ~> Len(out) = sent \/ closed

=============================================================================
