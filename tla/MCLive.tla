---- MODULE MCLive ----
(*****************************************************************************)
(* What must go on whatever is called or lost, model-checked in one run: a   *)
(* behaviour is one of a worker's loop, one of live video, whose worker has  *)
(* the most callers, or one of a channel over a network that does not lose   *)
(* every copy of the oldest chunk, and the others do not move.               *)
(*****************************************************************************)
EXTENDS BaseWorker

CONSTANTS
    Tabs, Switcher, QueueCap,                                                   \* VideoStream
    Mod, WrapLimit, MaxInFlight, WriteSizes, MaxSpan, MaxChunks, MaxAge, MaxOvertake  \* DrwChannel

VARIABLES
    part,   \* the part that moves: "loop", "video" or "channel"
    stage, refs, enabled, needed, worker, handlers, frames, age, pppp, upload, streaming,
    backlog, txQueue, txCtr, txAck, acks, closed, writer, done, rxCtr, rxQueue, out,
    drws, drwAcks, sent, goal, acked, told

Video == INSTANCE VideoStream WITH Clients <- Tabs, wanted <- needed, live <- streaming
Channel == INSTANCE DrwChannel

videoVars == <<stage, refs, enabled, needed, worker, handlers, frames, age, pppp, upload, streaming>>
channelVars == <<backlog, txQueue, txCtr, txAck, acks, closed, writer, done, rxCtr, rxQueue, out,
                 drws, drwAcks, sent, goal, acked, told>>
liveVars == <<part, vars, videoVars, channelVars>>

Loops(A) == part = "loop" /\ A /\ UNCHANGED <<part, videoVars, channelVars>>
Streams(A) == part = "video" /\ A /\ UNCHANGED <<part, vars, channelVars>>
Channels(A) == part = "channel" /\ A /\ UNCHANGED <<part, vars, videoVars>>

LiveInit == Init /\ Video!Init /\ Channel!Init /\ part \in {"loop", "video", "channel"}
LiveNext == Loops(Next) \/ Streams(Video!Next) \/ Channels(Channel!Next)

(* The fairness of the modules.  One part only ever moves, so fairness of a  *)
(* disjunction with an action of each is fairness of each.                   *)
LiveFairness ==
    /\ WF_liveVars(Loops(Loop) \/ Streams(Video!Loop) \/ Channels(Channel!PollOldest))
    /\ WF_liveVars(Loops(WorkerStartOk \/ WorkerStartFails) \/ Streams(Video!TakeFrame) \/ Channels(Channel!WriteDone))
    /\ WF_liveVars(Loops(WorkerRunDone) \/ Streams(Video!FeedFrame) \/ Channels(Channel!SeeClosed))
    /\ WF_liveVars(Loops(WorkerStopped \/ WorkerStoppedLast) \/ Streams(Video!SessionUp))
    /\ WF_liveVars(Loops(HoldoffOver) \/ Streams(Video!Age))
    /\ \A u \in Video!Users : WF_liveVars(Streams(Video!Switches(u)))
    /\ \A c \in Tabs : WF_liveVars(Streams(Video!Serves(c)))
    /\ SF_liveVars(Streams(Video!Register) \/ Channels(Channel!RXOldest))
    /\ SF_liveVars(Streams(Video!Stall) \/ Channels(Channel!RXOldestAck))

LiveSpec == LiveInit /\ [][LiveNext]_liveVars /\ LiveFairness

\* VideoStream: a stopped video queue has left no stream running.
StoppedIsDark == Video!StoppedIsDark

\* VideoStream: while a tab watches, frames come again after a disturbance.
VideoFlows == Video!VideoFlows

\* DrwChannel: blocked writers return, and everything written arrives.
BlockedReturns == Channel!BlockedReturns
EverythingArrives == Channel!EverythingArrives
====
