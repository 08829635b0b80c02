--------------------------- MODULE Streams_proofs ---------------------------
(***************************************************************************)
(* Proofs about what is passed on and must come out as it went in.         *)
(*                                                                         *)
(* Notifications: what the service remembers of a print runs ahead of what *)
(* the user was told by the notice on its way, and by that one only.       *)
(*                                                                         *)
(* StoredFiles: the start that set the mark last has not been answered,    *)
(* and one that fails clears no mark but that of its own file.             *)
(*                                                                         *)
(* RingBuffer: the circle of slots, read from its head, is the window of   *)
(* LogWindow, whose numbers follow one another.                            *)
(*                                                                         *)
(* MjpegStream: what was read and not cut out yet is a stretch of the      *)
(* pictures written, laid one after the other, and a marker in it is the   *)
(* beginning or the end of one of them.                                    *)
(***************************************************************************)
EXTENDS MCStreams, SequenceTheorems, WellFoundedInduction, NaturalsInduction, TLAPS

-----------------------------------------------------------------------------
(* Notifications.                                                          *)

PrintStates == {"idle", "printing", "paused", "aborted"}

TapEvents ==
  [kind : {"state"}, value : PrintStates, via : {Notices!None}]
    \cup [kind : {"progress"}, value : 0..Full, via : {Notices!None}]

Kinds == {"started", "resumed", "paused", "finished", "failed"}

Underway ==
  {Notices!Nothing}
    \cup [kind : Kinds, value : {0}, via : {"apprise", "home"}]
    \cup [kind : {"progress"}, value : 0..Full, via : {"apprise", "home"}]

NoticeTyped ==
  /\ state \in PrintStates /\ progress \in 0..Full
  /\ events \in Seq(TapEvents)
  /\ lastState \in PrintStates \cup {Notices!None}
  /\ lastNotified \in Int /\ sendCount \in Int
  /\ noticed \in [open : BOOLEAN, percent : Int, count : Int]
  /\ sending \in Underway

Telling(kinds) == sending.via = "apprise" /\ sending.kind \in kinds

(* A print the user was told of is open, or the notice of its end is on    *)
(* its way.                                                                *)
OpenIsKnown ==
  /\ noticed.open => lastState \in {"printing", "paused"} \/ Telling({"finished", "failed"})
  /\ Telling({"started"}) => ~noticed.open /\ lastState = "printing"

(* The progress told of is no more than what the service remembers; of a   *)
(* notice on its way it remembers just that, or, if it opens or ends the   *)
(* print, nothing.                                                         *)
ProgressIsKnown ==
  /\ MaxValue > 0 => sendCount <= MaxValue
  /\ IF Telling({"progress"})
     THEN /\ lastNotified = sending.value
          /\ noticed.percent < 0 \/ sending.value >= noticed.percent + Interval
          /\ noticed.count < sendCount
     ELSE Telling(Notices!Resets) \/ (noticed.percent <= lastNotified /\ noticed.count <= sendCount)
  /\ lastNotified >= -1 /\ sendCount >= 0

NoticeInv == NoticeTyped /\ OpenIsKnown /\ ProgressIsKnown

LEMMA NoticeFields ==
  /\ Notices!Nothing.kind = Notices!None /\ Notices!Nothing.via = Notices!None
  /\ Notices!Nothing \in Underway
  /\ Notices!Untold \in [open : BOOLEAN, percent : Int, count : Int]
  /\ Notices!Untold.open = FALSE /\ Notices!Untold.percent = -1 /\ Notices!Untold.count = 0
BY DEF Notices!Nothing, Notices!Event, Notices!Untold, Underway

(* What the tap adds is an event.                                          *)
LEMMA TapTyped ==
  ASSUME NoticeTyped, NEW e \in TapEvents, Notices!Tapped(e)
  PROVE  events' \in Seq(TapEvents)
<1>1. CASE running /\ Len(events) < QueueCap
  BY <1>1, AppendProperties DEF Notices!Tapped, NoticeTyped
<1>2. CASE ~(running /\ Len(events) < QueueCap)
  BY <1>2 DEF Notices!Tapped, NoticeTyped
<1> QED BY <1>1, <1>2

(* The queue, the settings and the worker's restarts do not touch what is  *)
(* remembered and told.                                                    *)
LEMMA TapStep ==
  ASSUME NoticeInv,
         \/ \E s \in PrintStates : Notices!PrintState(s)
         \/ \E p \in 0..Full : Notices!PrintSchedule(p)
         \/ Notices!WorkerRun \/ Notices!RunReturns \/ Notices!NotificationsUpdate
         \/ UNCHANGED Notices!noticeVars
  PROVE  NoticeInv'
<1> USE DEF Notices!printer, Notices!noticeVars
<1>1. UNCHANGED <<lastState, lastNotified, sendCount, sending, noticed>>
  BY DEF Notices!PrintState, Notices!PrintSchedule, Notices!WorkerRun, Notices!RunReturns,
         Notices!NotificationsUpdate
<1>2. state' \in PrintStates /\ progress' \in 0..Full /\ events' \in Seq(TapEvents)
  <2>1. ASSUME NEW s \in PrintStates, Notices!PrintState(s)
        PROVE  state' \in PrintStates /\ progress' \in 0..Full /\ events' \in Seq(TapEvents)
    <3>1. Notices!Event("state", s) \in TapEvents
      BY DEF Notices!Event, TapEvents
    <3> QED BY <2>1, <3>1, TapTyped DEF Notices!PrintState, NoticeInv, NoticeTyped
  <2>2. ASSUME NEW p \in 0..Full, Notices!PrintSchedule(p)
        PROVE  state' \in PrintStates /\ progress' \in 0..Full /\ events' \in Seq(TapEvents)
    <3>1. Notices!Event("progress", p) \in TapEvents
      BY DEF Notices!Event, TapEvents
    <3> QED BY <2>2, <3>1, TapTyped DEF Notices!PrintSchedule, NoticeInv, NoticeTyped
  <2>3. CASE \/ Notices!WorkerRun \/ Notices!RunReturns \/ Notices!NotificationsUpdate
             \/ UNCHANGED Notices!noticeVars
    <3>1. UNCHANGED <<state, progress>> /\ (events' = <<>> \/ events' = events)
      BY <2>3 DEF Notices!WorkerRun, Notices!RunReturns, Notices!NotificationsUpdate
    <3>2. <<>> \in Seq(TapEvents)
      OBVIOUS
    <3> QED BY <3>1, <3>2 DEF NoticeInv, NoticeTyped
  <2> QED BY <2>1, <2>2, <2>3
<1> QED BY <1>1, <1>2 DEF NoticeInv, NoticeTyped, OpenIsKnown, ProgressIsKnown, Telling

(* The service takes an event only while nothing is on its way.            *)
LEMMA Taken ==
  ASSUME NoticeInv, Notices!Takes
  PROVE  /\ events' \in Seq(TapEvents) /\ Notices!First \in TapEvents
         /\ \A kinds : ~Telling(kinds)
         /\ noticed.open => lastState \in {"printing", "paused"}
         /\ noticed.percent <= lastNotified /\ noticed.count <= sendCount
<1>1. events' \in Seq(TapEvents) /\ Notices!First \in TapEvents
  BY HeadTailProperties DEF Notices!Takes, Notices!First, NoticeInv, NoticeTyped
<1>2. \A kinds : ~Telling(kinds)
  BY NoticeFields DEF Notices!Takes, Telling, Notices!None
<1> QED BY <1>1, <1>2 DEF NoticeInv, OpenIsKnown, ProgressIsKnown

LEMMA ProgressStep ==
  ASSUME NoticeInv, Notices!MaybeProgressNotification
  PROVE  NoticeInv'
<1> USE DEF Notices!printer
<1> DEFINE e == Notices!First
<1>1. /\ Notices!Takes /\ e.kind = "progress" /\ e \in TapEvents
      /\ UNCHANGED <<state, progress, lastState, noticed>>
  BY Taken DEF Notices!MaybeProgressNotification
<1>2. e.value \in 0..Full /\ e.value \in Int
  BY <1>1, NoticesAssumption DEF TapEvents
<1>3. CASE ~Notices!MayTell(e.value)
  <2>1. UNCHANGED <<lastNotified, sendCount, sending>>
    BY <1>3 DEF Notices!MaybeProgressNotification
  <2> QED BY <1>1, <2>1, Taken DEF NoticeInv, NoticeTyped, OpenIsKnown, ProgressIsKnown, Telling
<1>4. CASE Notices!MayTell(e.value)
  <2>1. /\ lastNotified' = e.value /\ sendCount' = sendCount + 1
        /\ sending' = [e EXCEPT !.via = "apprise"]
    BY <1>4 DEF Notices!MaybeProgressNotification, Notices!Sends
  <2> HIDE DEF e
  <2>2. /\ sending'.kind = "progress" /\ sending'.value = e.value /\ sending'.via = "apprise"
        /\ sending' \in Underway
    BY <1>1, <1>2, <2>1 DEF TapEvents, Underway
  <2>3. noticed.percent < 0 \/ e.value >= noticed.percent + Interval
    BY <1>1, <1>2, <1>4, Taken, NoticesAssumption
    DEF Notices!MayTell, Notices!Crossed, Notices!Threshold, NoticeInv, NoticeTyped
  <2>4. MaxValue > 0 => sendCount' <= MaxValue
    BY <1>4, <2>1, NoticesAssumption DEF Notices!MayTell, NoticeInv, NoticeTyped
  <2>5. noticed.count < sendCount' /\ sendCount' >= 0 /\ lastNotified' >= -1
    BY <1>1, <1>2, <2>1, Taken DEF NoticeInv, NoticeTyped, ProgressIsKnown
  <2>6. NoticeTyped'
    BY <1>1, <1>2, <2>1, <2>2, Taken DEF NoticeInv, NoticeTyped
  <2>7. OpenIsKnown'
    BY <1>1, <2>2, Taken DEF OpenIsKnown, Telling
  <2>8. ProgressIsKnown'
    BY <1>1, <2>1, <2>2, <2>3, <2>4, <2>5 DEF ProgressIsKnown, Telling
  <2> QED BY <2>6, <2>7, <2>8 DEF NoticeInv
<1> QED BY <1>3, <1>4

(* What a change of state is to the user: a start only of what was not     *)
(* under way, and an end of what was.                                      *)
LEMMA NoticeOf ==
  ASSUME NEW prev, NEW now \in PrintStates
  PROVE  /\ Notices!Notice(prev, now) \in Kinds \cup {Notices!None}
         /\ Notices!Notice(prev, now) = "started" => prev \notin {"printing", "paused"} /\ now = "printing"
         /\ \/ now \in {"printing", "paused"} \/ prev \notin {"printing", "paused"}
            \/ Notices!Notice(prev, now) \in {"finished", "failed"}
<1>1. CASE now = "printing"
  <2>1. Notices!Notice(prev, now) =
          IF prev = "paused" THEN "resumed" ELSE IF prev = "printing" THEN Notices!None ELSE "started"
    BY <1>1 DEF Notices!Notice
  <2> QED BY <1>1, <2>1 DEF Kinds, Notices!None
<1>2. CASE now = "paused"
  <2>1. Notices!Notice(prev, now) = IF prev = "printing" THEN "paused" ELSE Notices!None
    BY <1>2 DEF Notices!Notice
  <2> QED BY <1>2, <2>1 DEF Kinds, Notices!None
<1>3. CASE now \in {"idle", "aborted"}
  <2>1. Notices!Notice(prev, now) =
          IF prev \notin {"printing", "paused"} THEN Notices!None
          ELSE IF now = "idle" THEN "finished" ELSE "failed"
    BY <1>3 DEF Notices!Notice
  <2> QED BY <1>3, <2>1 DEF Kinds, Notices!None
<1> QED BY <1>1, <1>2, <1>3 DEF PrintStates

LEMMA TransitionStep ==
  ASSUME NoticeInv, Notices!HandleStateTransition
  PROVE  NoticeInv'
<1> USE DEF Notices!printer
<1> DEFINE now == Notices!First.value
           n == Notices!Notice(lastState, now)
<1>1. /\ Notices!Takes /\ now \in PrintStates /\ lastState' = now
      /\ UNCHANGED <<state, progress, noticed>>
      /\ IF n = Notices!None THEN sending' = sending ELSE Notices!Sends(Notices!Event(n, 0))
      /\ lastNotified' = IF n \in Notices!Resets THEN -1 ELSE lastNotified
      /\ sendCount' = IF n \in Notices!Resets THEN 0 ELSE sendCount
  BY Taken DEF Notices!HandleStateTransition, TapEvents
<1>2. /\ n \in Kinds \cup {Notices!None}
      /\ n = "started" => lastState \notin {"printing", "paused"} /\ now = "printing"
      /\ now \in {"printing", "paused"} \/ n \in {"finished", "failed"}
           \/ lastState \notin {"printing", "paused"}
  BY <1>1, NoticeOf
<1> HIDE DEF n, now
<1>3. CASE n = Notices!None
  <2>1. UNCHANGED <<lastNotified, sendCount, sending>>
    BY <1>1, <1>3 DEF Notices!Resets, Notices!None
  <2>2. now \in {"printing", "paused"} \/ lastState \notin {"printing", "paused"}
    BY <1>2, <1>3 DEF Notices!None
  <2>3. NoticeTyped'
    BY <1>1, <2>1, Taken DEF NoticeInv, NoticeTyped
  <2>4. OpenIsKnown'
    BY <1>1, <2>1, <2>2, Taken DEF OpenIsKnown, Telling
  <2>5. ProgressIsKnown'
    BY <1>1, <2>1, Taken DEF NoticeInv, ProgressIsKnown, Telling
  <2> QED BY <2>3, <2>4, <2>5 DEF NoticeInv
<1>4. CASE n # Notices!None
  <2>1. n \in Kinds
    BY <1>2, <1>4
  <2>2. /\ sending'.kind = n /\ sending'.via = "apprise" /\ sending' \in Underway
    BY <1>1, <1>4, <2>1 DEF Notices!Sends, Notices!Event, Underway
  <2>3. NoticeTyped'
    BY <1>1, <2>2, Taken DEF NoticeInv, NoticeTyped
  <2>4. OpenIsKnown'
    BY <1>1, <1>2, <2>2, Taken DEF OpenIsKnown, Telling
  <2>5. sendCount' >= 0 /\ lastNotified' >= -1 /\ (MaxValue > 0 => sendCount' <= MaxValue)
    BY <1>1, NoticesAssumption DEF NoticeInv, NoticeTyped, ProgressIsKnown
  <2>6. n # "progress"
    BY <2>1 DEF Kinds
  <2>7. n \in Notices!Resets \/ (noticed.percent <= lastNotified' /\ noticed.count <= sendCount')
    BY <1>1, Taken
  <2>8. ProgressIsKnown'
    BY <1>1, <2>2, <2>5, <2>6, <2>7 DEF ProgressIsKnown, Telling
  <2> QED BY <2>3, <2>4, <2>8 DEF NoticeInv
<1> QED BY <1>3, <1>4

LEMMA TellStep ==
  ASSUME NoticeInv, Notices!SendEventDetailed \/ Notices!SendHomeAnnouncement
  PROVE  NoticeInv'
<1> USE DEF Notices!printer
<1>1. CASE Notices!SendHomeAnnouncement
  <2>1. /\ sending.via = "home" /\ sending' = Notices!Nothing
        /\ UNCHANGED <<state, progress, events, lastState, lastNotified, sendCount, noticed>>
    BY <1>1 DEF Notices!SendHomeAnnouncement
  <2> QED BY <2>1, NoticeFields
          DEF NoticeInv, NoticeTyped, OpenIsKnown, ProgressIsKnown, Telling, Notices!None
<1>2. CASE Notices!SendEventDetailed
  <2>1. /\ sending.via = "apprise" /\ sending' = [sending EXCEPT !.via = "home"]
        /\ UNCHANGED <<state, progress, events, lastState, lastNotified, sendCount>>
    BY <1>2 DEF Notices!SendEventDetailed
  <2>2. \/ sending \in [kind : Kinds, value : {0}, via : {"apprise", "home"}]
        \/ sending \in [kind : {"progress"}, value : 0..Full, via : {"apprise", "home"}]
    BY <2>1, NoticeFields DEF NoticeInv, NoticeTyped, Underway, Notices!None
  <2>3. /\ sending' \in Underway /\ sending'.via = "home" /\ sending.kind \in Kinds \cup {"progress"}
        /\ sending.kind = "progress" => sending.value \in 0..Full
    <3>1. CASE sending \in [kind : Kinds, value : {0}, via : {"apprise", "home"}]
      BY <2>1, <3>1 DEF Underway, Kinds
    <3>2. CASE sending \in [kind : {"progress"}, value : 0..Full, via : {"apprise", "home"}]
      BY <2>1, <3>2 DEF Underway
    <3> QED BY <2>2, <3>1, <3>2
  <2>4. /\ noticed' \in [open : BOOLEAN, percent : Int, count : Int]
        /\ noticed'.percent <= lastNotified /\ noticed'.count <= sendCount
        /\ noticed'.open => lastState \in {"printing", "paused"}
    <3>1. CASE sending.kind = "started"
      <4>1. noticed' = [Notices!Untold EXCEPT !.open = TRUE]
        BY <1>2, <3>1 DEF Notices!SendEventDetailed
      <4> QED BY <2>1, <3>1, <4>1, NoticeFields
              DEF NoticeInv, NoticeTyped, OpenIsKnown, ProgressIsKnown, Telling
    <3>2. CASE sending.kind \in {"finished", "failed"}
      <4>1. noticed' = Notices!Untold
        BY <1>2, <3>2 DEF Notices!SendEventDetailed
      <4> QED BY <4>1, NoticeFields DEF NoticeInv, NoticeTyped, ProgressIsKnown
    <3>3. CASE sending.kind = "progress"
      <4>1. \/ noticed' = noticed
            \/ noticed' = [noticed EXCEPT !.percent = sending.value, !.count = noticed.count + 1]
        BY <1>2, <3>3 DEF Notices!SendEventDetailed
      <4>2. /\ Telling({"progress"}) /\ ~Telling({"finished", "failed"})
            /\ sending.value \in Int /\ sending.value >= 0
        BY <2>1, <2>3, <3>3, NoticesAssumption DEF Telling
      <4>3. /\ noticed \in [open : BOOLEAN, percent : Int, count : Int] /\ lastNotified = sending.value
            /\ noticed.percent < 0 \/ sending.value >= noticed.percent + Interval
            /\ noticed.count < sendCount /\ sendCount \in Int
            /\ noticed.open => lastState \in {"printing", "paused"}
        BY <4>2 DEF NoticeInv, NoticeTyped, OpenIsKnown, ProgressIsKnown
      <4>4. CASE noticed' = noticed
        BY <4>2, <4>3, <4>4, NoticesAssumption
      <4>5. CASE noticed' = [noticed EXCEPT !.percent = sending.value, !.count = noticed.count + 1]
        <5>1. /\ noticed' \in [open : BOOLEAN, percent : Int, count : Int]
              /\ noticed'.percent = sending.value /\ noticed'.count = noticed.count + 1
              /\ noticed'.open = noticed.open
          <6>1. noticed.open \in BOOLEAN /\ noticed.count + 1 \in Int /\ sending.value \in Int
            BY <4>2, <4>3
          <6>2. noticed' = [open |-> noticed.open, percent |-> sending.value, count |-> noticed.count + 1]
            BY <4>3, <4>5
          <6> QED BY <6>1, <6>2
        <5>2. noticed'.count <= sendCount
          BY <4>3, <5>1
        <5> QED BY <4>2, <4>3, <5>1, <5>2
      <4> QED BY <4>1, <4>4, <4>5
    <3>4. CASE sending.kind \in {"resumed", "paused"}
      <4>1. noticed' = noticed
        BY <1>2, <3>4 DEF Notices!SendEventDetailed
      <4>2. ~Telling({"progress"}) /\ ~Telling({"finished", "failed"}) /\ ~Telling(Notices!Resets)
        BY <3>4 DEF Telling, Notices!Resets
      <4> QED BY <4>1, <4>2 DEF NoticeInv, NoticeTyped, OpenIsKnown, ProgressIsKnown
    <3> QED BY <2>3, <3>1, <3>2, <3>3, <3>4 DEF Kinds
  <2>5. NoticeTyped'
    BY <2>1, <2>3, <2>4 DEF NoticeInv, NoticeTyped
  <2>6. OpenIsKnown'
    BY <2>1, <2>3, <2>4 DEF OpenIsKnown, Telling
  <2>7. ProgressIsKnown'
    BY <2>1, <2>3, <2>4 DEF NoticeInv, ProgressIsKnown, Telling
  <2> QED BY <2>5, <2>6, <2>7 DEF NoticeInv
<1> QED BY <1>1, <1>2

LEMMA NoticeInductive == Notices!Spec => []NoticeInv
<1>1. Notices!Init => NoticeInv
  <2> SUFFICES ASSUME Notices!Init PROVE NoticeInv
    OBVIOUS
  <2>1. NoticeTyped
    BY NoticeFields, NoticesAssumption DEF Notices!Init, NoticeTyped, PrintStates
  <2>2. \A kinds : ~Telling(kinds)
    BY NoticeFields DEF Notices!Init, Telling, Notices!None
  <2>3. /\ noticed.open = FALSE /\ noticed.percent = -1 /\ noticed.count = 0
        /\ lastNotified = -1 /\ sendCount = 0
    BY NoticeFields DEF Notices!Init
  <2>4. OpenIsKnown /\ ProgressIsKnown
    BY <2>2, <2>3, NoticesAssumption DEF OpenIsKnown, ProgressIsKnown
  <2> QED BY <2>1, <2>4 DEF NoticeInv
<1>2. NoticeInv /\ [Notices!Next]_(Notices!noticeVars) => NoticeInv'
  BY TapStep, ProgressStep, TransitionStep, TellStep DEF Notices!Next, PrintStates
<1> QED BY <1>1, <1>2, PTL DEF Notices!Spec

(* For any interval, limit and capacity of the events channel: whatever    *)
(* events are dropped while a notice is on its way, no print starts twice  *)
(* and its progress is told of in intervals (notifications.go:146).        *)
THEOREM NoticesMakeSenseHolds == Notices!Spec => NoticesMakeSense
<1> DEFINE A == sending.via = "apprise" /\ sending'.via = "home" =>
                  /\ sending.kind = "started" => ~noticed.open
                  /\ sending.kind = "progress" =>
                       /\ noticed.percent < 0 \/ sending.value >= noticed.percent + Interval
                       /\ MaxValue > 0 => noticed'.count <= MaxValue
<1>1. NoticeInv /\ NoticeInv' => A
  <2> SUFFICES ASSUME NoticeInv, NoticeInv', sending.via = "apprise", sending'.via = "home" PROVE A
    OBVIOUS
  <2>1. sending.kind = "started" => ~noticed.open
    BY DEF NoticeInv, OpenIsKnown, Telling
  <2>2. sending.kind = "progress" => noticed.percent < 0 \/ sending.value >= noticed.percent + Interval
    BY DEF NoticeInv, ProgressIsKnown, Telling
  <2>3. noticed'.count <= sendCount' /\ (MaxValue > 0 => sendCount' <= MaxValue)
    BY DEF NoticeInv, ProgressIsKnown, Telling
  <2>4. noticed'.count \in Int /\ sendCount' \in Int
    BY DEF NoticeInv, NoticeTyped
  <2> QED BY <2>1, <2>2, <2>3, <2>4, NoticesAssumption
<1> QED BY <1>1, NoticeInductive, PTL DEF Notices!Spec, NoticesMakeSense, Notices!NoticesMakeSense

-----------------------------------------------------------------------------
(* StoredFiles.                                                            *)

Named == Storages \cup {Stored!None}
Heard == Named \cup {"printing", "paused", "idle"}
Commands == {"list", "gcode", "file", "start"} \X Named

Asking ==
  [op : {"none", "list", "dump", "grid", "preview", "start"}, file : Named,
   pc : {"idle", "ask", "collect", "select", "request", "await", "check", "command", "confirm"},
   heard : BOOLEAN]

StoredTyped ==
  /\ asked \subseteq Commands /\ job \in Named
  /\ ask \in [Requests -> Asking]

(* The start that is waited for has not been answered.                     *)
Waiting(r) == ask[r].pc \in {"check", "command", "confirm"} /\ pending = ask[r].file

ShieldWaits == \A r \in Requests : shield = r => Waiting(r)

StoredInv == StoredTyped /\ ShieldWaits

LEMMA IdleAsking == Stored!Idle \in Asking /\ Stored!Idle.pc = "idle"
BY DEF Stored!Idle, Asking, Named

(* A request goes on, ends or takes what it hears.                         *)
LEMMA AskMoves ==
  ASSUME ask \in [Requests -> Asking], NEW r \in Requests
  PROVE  /\ \A pc0 \in {"collect", "request", "await", "command", "confirm"} :
              Stored!Goes(r, pc0) =>
                /\ ask' \in [Requests -> Asking] /\ ask'[r].pc = pc0 /\ ask'[r].file = ask[r].file
                /\ \A q \in Requests \ {r} : ask'[q] = ask[q]
         /\ Stored!Ends(r) =>
              /\ ask' \in [Requests -> Asking] /\ ask'[r].pc = "idle"
              /\ \A q \in Requests \ {r} : ask'[q] = ask[q]
BY IdleAsking DEF Stored!Goes, Stored!Ends, Asking

(* A message is heard by who waits for one of its kind, and changes        *)
(* nothing else.                                                           *)
LEMMA NotifyStep ==
  ASSUME StoredInv, NEW m, m.of \in Heard, Stored!Notify(m), asked' \subseteq Commands, job' \in Named
  PROVE  StoredInv'
<1>1. \A r \in Requests :
        LET a == [ask[r] EXCEPT !.heard = @ \/ Stored!Hears(r, m)] IN
        a \in Asking /\ a.pc = ask[r].pc /\ a.file = ask[r].file
  BY DEF StoredInv, StoredTyped, Asking
<1>2. ask' \in [Requests -> Asking]
      /\ \A r \in Requests : ask'[r].pc = ask[r].pc /\ ask'[r].file = ask[r].file
  BY <1>1 DEF Stored!Notify, StoredInv, StoredTyped
<1> QED BY <1>2 DEF Stored!Notify, Stored!print, StoredInv, StoredTyped, ShieldWaits, Waiting

LEMMA StartStep ==
  ASSUME StoredInv, NEW file0 \in Named, Stored!StartsNow(file0), asked' \subseteq Commands
  PROVE  StoredInv'
<1>1. PICK m \in {Stored!Msg("state", "printing"), Stored!Msg("preprint", file0)} : Stored!Notify(m)
  BY DEF Stored!StartsNow
<1>2. m.of \in Heard
  BY <1>1 DEF Stored!Msg, Heard
<1> QED BY <1>1, <1>2, NotifyStep DEF Stored!StartsNow

LEMMA PrinterStep ==
  ASSUME StoredInv,
         \/ Stored!PrinterStarts \/ Stored!PrinterTells \/ Stored!PrinterCompletes \/ Stored!PrinterStops
         \/ \E c \in asked : Stored!PrinterAnswers(c) \/ Stored!PrinterObeys(c) \/ Stored!PrinterIgnores(c)
  PROVE  StoredInv'
<1> USE DEF Stored!printer
<1>1. \A ct, of : Stored!Msg(ct, of).of = of
  BY DEF Stored!Msg
<1>2. CASE Stored!PrinterStarts
  BY <1>2, StartStep DEF Stored!PrinterStarts, StoredInv, StoredTyped, Named
<1>3. CASE Stored!PrinterTells
  <2>1. PICK m : /\ m \in {Stored!Msg("state", "printing"), Stored!Msg("complete", job),
                           Stored!Msg("complete", Stored!None), Stored!Msg("state", "paused"),
                           Stored!Msg("preprint", job), Stored!Msg("schedule", job),
                           Stored!Msg("schedule", Stored!None)}
                 /\ Stored!Notify(m)
    BY <1>3 DEF Stored!PrinterTells
  <2>2. m.of \in Heard
    BY <1>1, <2>1 DEF StoredInv, StoredTyped, Heard, Named
  <2> QED BY <1>3, <2>1, <2>2, NotifyStep DEF Stored!PrinterTells, StoredInv, StoredTyped
<1>4. CASE Stored!PrinterStops \/ Stored!PrinterCompletes
  BY <1>1, <1>4, NotifyStep
  DEF Stored!PrinterStops, Stored!PrinterCompletes, StoredInv, StoredTyped, Heard, Named
<1>5. ASSUME NEW c \in asked, Stored!PrinterAnswers(c) \/ Stored!PrinterObeys(c) PROVE StoredInv'
  <2>1. c \in Commands /\ c[2] \in Named /\ asked' \subseteq Commands
    BY <1>5 DEF Stored!PrinterAnswers, Stored!PrinterObeys, StoredInv, StoredTyped, Commands
  <2>2. CASE Stored!PrinterAnswers(c)
    BY <1>1, <2>1, <2>2, NotifyStep DEF Stored!PrinterAnswers, StoredInv, StoredTyped, Heard
  <2>3. CASE Stored!PrinterObeys(c)
    BY <2>1, <2>3, StartStep DEF Stored!PrinterObeys
  <2> QED BY <1>5, <2>2, <2>3
<1>6. ASSUME NEW c \in asked, Stored!PrinterIgnores(c) PROVE StoredInv'
  BY <1>6 DEF Stored!PrinterIgnores, Stored!print, StoredInv, StoredTyped, ShieldWaits, Waiting
<1> QED BY <1>2, <1>3, <1>4, <1>5, <1>6

(* A print that is seen, and a stop of the queue, end the wait.            *)
LEMMA QueueStep ==
  ASSUME StoredInv, Stored!HandlePayload \/ Stored!WorkerStop
  PROVE  StoredInv'
<1>1. UNCHANGED <<asked, job, ask>>
  BY DEF Stored!HandlePayload, Stored!WorkerStop, Stored!printer
<1>2. UNCHANGED <<pending, shield>> \/ (pending' = Stored!None /\ shield' = Stored!None)
  BY DEF Stored!HandlePayload, Stored!WorkerStop, Stored!HandleState, Stored!HandleSchedule,
         Stored!Seen, Stored!print
<1> QED BY <1>1, <1>2, RequestsAssumption DEF StoredInv, StoredTyped, ShieldWaits, Waiting

(* A step of a request that is not waited for, to a place where it is not. *)
LEMMA Elsewhere ==
  ASSUME StoredInv, NEW r \in Requests, ask' \in [Requests -> Asking],
         \A q \in Requests \ {r} : ask'[q] = ask[q],
         asked' \subseteq Commands, UNCHANGED <<job, pending>>,
         shield' \in {shield, Stored!None}, shield' # r \/ Waiting(r)'
  PROVE  StoredInv'
BY RequestsAssumption DEF StoredInv, StoredTyped, ShieldWaits, Waiting

LEMMA BeginAsking ==
  ASSUME StoredInv, NEW r \in Requests, NEW op \in {"list", "dump", "grid", "preview", "start"},
         NEW file0 \in Named, NEW pc0 \in {"ask", "select"}, Stored!Begins(r, op, file0, pc0)
  PROVE  StoredInv'
<1> DEFINE new == [op |-> op, file |-> file0, pc |-> pc0, heard |-> FALSE]
<1>1. new \in Asking
  BY DEF Asking
<1>2. ask[r].pc = "idle" /\ ask' = [ask EXCEPT ![r] = new] /\ UNCHANGED <<asked, job, pending, shield>>
  BY IdleAsking DEF Stored!Begins, Stored!printer, Stored!print
<1> HIDE DEF new
<1>3. ask' \in [Requests -> Asking] /\ \A q \in Requests \ {r} : ask'[q] = ask[q]
  BY <1>1, <1>2 DEF StoredInv, StoredTyped
<1>4. shield # r
  BY <1>2 DEF StoredInv, ShieldWaits, Waiting
<1> QED BY <1>2, <1>3, <1>4, Elsewhere DEF StoredInv, StoredTyped

LEMMA SendStep ==
  ASSUME StoredInv, NEW r \in Requests,
         NEW pc0 \in {"ask", "collect", "select", "request", "command"},
         NEW ct \in {"list", "gcode", "file", "start"}, NEW of \in Named,
         NEW pc1 \in {"collect", "request", "await", "confirm"},
         pc0 = "command" <=> pc1 = "confirm", Stored!Sends(r, pc0, <<ct, of>>, pc1)
  PROVE  StoredInv'
<1>1. /\ ask[r].pc = pc0 /\ Stored!Goes(r, pc1)
      /\ asked' = asked \cup {<<ct, of>>} /\ UNCHANGED <<job, pending, shield>>
  BY DEF Stored!Sends, Stored!At, Stored!print
<1>2. asked' \subseteq Commands
  BY <1>1 DEF Commands, StoredInv, StoredTyped
<1>3. /\ ask' \in [Requests -> Asking] /\ ask'[r].pc = pc1 /\ ask'[r].file = ask[r].file
      /\ \A q \in Requests \ {r} : ask'[q] = ask[q]
  BY <1>1, AskMoves DEF StoredInv, StoredTyped
<1>4. shield = r => Waiting(r)'
  BY <1>1, <1>3 DEF StoredInv, ShieldWaits, Waiting
<1> QED BY <1>1, <1>2, <1>3, <1>4, Elsewhere

(* A request that is over is not waited for.                               *)
LEMMA EndStep ==
  ASSUME StoredInv, NEW r \in Requests, Stored!Ends(r), UNCHANGED <<asked, job>>,
         \/ shield' = shield /\ ask[r].pc \notin {"check", "command", "confirm"} /\ pending' = pending
         \/ shield' = (IF shield = r THEN Stored!None ELSE shield) /\ pending' = pending
         \/ /\ Stored!ClearPendingStoredFileStart(ask[r].file)
            /\ shield' = IF shield # Stored!None /\ ask[shield].file = ask[r].file THEN Stored!None ELSE shield
  PROVE  StoredInv'
<1>1. /\ ask' \in [Requests -> Asking] /\ ask'[r].pc = "idle"
      /\ \A q \in Requests \ {r} : ask'[q] = ask[q]
  BY AskMoves DEF StoredInv, StoredTyped
<1>2. ASSUME NEW q \in Requests, shield' = q PROVE q # r /\ Waiting(q)'
  BY <1>1, <1>2, RequestsAssumption
  DEF StoredInv, ShieldWaits, Waiting, Stored!ClearPendingStoredFileStart
<1> QED BY <1>1, <1>2 DEF StoredInv, StoredTyped, ShieldWaits

LEMMA AskStep ==
  ASSUME StoredInv, NEW r \in Requests,
         \/ Stored!ReadPrinterReport(r) \/ Stored!QueryBedLeveling(r)
         \/ \E s \in Storages : \/ Stored!ProbeStoredFiles(r, s) \/ Stored!PrinterFileThumbnail(r, s)
                                \/ Stored!PrinterFilePrint(r, s)
         \/ Stored!Ask(r) \/ Stored!Collected(r) \/ Stored!DrainProbe(r)
         \/ Stored!NoReply(r) \/ Stored!Aborts(r)
         \/ Stored!Select(r) \/ Stored!RequestFile(r) \/ Stored!PreviewEnds(r)
         \/ Stored!SetPending(r) \/ Stored!AlreadyPrinting(r) \/ Stored!Check(r) \/ Stored!StartCommand(r)
         \/ Stored!CommandFails(r) \/ Stored!Confirmed(r) \/ Stored!NotConfirmed(r)
  PROVE  StoredInv'
<1> USE DEF Stored!printer, Stored!print, Stored!At, Stored!File, Stored!Op
<1>1. ask[r].file \in Named /\ Stored!None \in Named /\ Storages \subseteq Named
  BY DEF StoredInv, StoredTyped, Asking, Named
<1>2. CASE \/ Stored!ReadPrinterReport(r) \/ Stored!QueryBedLeveling(r)
           \/ \E s \in Storages : \/ Stored!ProbeStoredFiles(r, s) \/ Stored!PrinterFileThumbnail(r, s)
                                  \/ Stored!PrinterFilePrint(r, s)
  BY <1>1, <1>2, BeginAsking
  DEF Stored!ReadPrinterReport, Stored!QueryBedLeveling, Stored!ProbeStoredFiles,
      Stored!PrinterFileThumbnail, Stored!PrinterFilePrint
<1>3. CASE Stored!Ask(r) \/ Stored!DrainProbe(r) \/ Stored!Select(r) \/ Stored!RequestFile(r) \/ Stored!StartCommand(r)
  BY <1>1, <1>3, SendStep
  DEF Stored!Ask, Stored!DrainProbe, Stored!Select, Stored!RequestFile, Stored!StartCommand
<1>4. CASE Stored!Collected(r) \/ Stored!NoReply(r) \/ Stored!Aborts(r) \/ Stored!PreviewEnds(r)
  BY <1>4, EndStep DEF Stored!Collected, Stored!NoReply, Stored!Aborts, Stored!PreviewEnds
<1>5. CASE Stored!AlreadyPrinting(r) \/ Stored!Confirmed(r)
  BY <1>5, EndStep DEF Stored!AlreadyPrinting, Stored!Confirmed, Stored!Started
<1>6. CASE Stored!CommandFails(r) \/ Stored!NotConfirmed(r)
  BY <1>6, EndStep DEF Stored!CommandFails, Stored!NotConfirmed, Stored!StartFails
<1>7. CASE Stored!Check(r)
  <2>1. /\ ask' \in [Requests -> Asking] /\ ask'[r].pc = "command" /\ ask'[r].file = ask[r].file
        /\ \A q \in Requests \ {r} : ask'[q] = ask[q]
    BY <1>7, AskMoves DEF Stored!Check, StoredInv, StoredTyped
  <2>2. shield = r => Waiting(r)'
    BY <1>7, <2>1 DEF Stored!Check, StoredInv, ShieldWaits, Waiting
  <2> QED BY <1>7, <2>1, <2>2, Elsewhere DEF Stored!Check, StoredInv, StoredTyped
<1>8. CASE Stored!SetPending(r)
  <2> DEFINE new == [ask[r] EXCEPT !.pc = "check", !.heard = FALSE]
  <2>1. new \in Asking /\ new.pc = "check" /\ new.file = ask[r].file
    BY DEF StoredInv, StoredTyped, Asking
  <2>2. /\ ask' = [ask EXCEPT ![r] = new] /\ UNCHANGED <<asked, job>>
        /\ pending' = ask[r].file /\ shield' = r
    BY <1>8 DEF Stored!SetPending, StoredInv, StoredTyped
  <2> HIDE DEF new
  <2>3. ask' \in [Requests -> Asking] /\ ask'[r] = new
    BY <2>1, <2>2 DEF StoredInv, StoredTyped
  <2> QED BY <2>1, <2>2, <2>3 DEF StoredInv, StoredTyped, ShieldWaits, Waiting
<1> QED BY <1>2, <1>3, <1>4, <1>5, <1>6, <1>7, <1>8

(* For any number of requests and storages: the start that set the mark    *)
(* last has it while it waits and the queue has seen no print, whatever    *)
(* others fail, list or ask for meanwhile (mqttqueue_files.go:293).  Of an *)
(* earlier start that still waits it says nothing.                         *)
THEOREM LatestStartIsPendingHolds == Stored!Spec => []LatestStartIsPending
<1>1. Stored!Init => StoredInv
  BY IdleAsking, RequestsAssumption DEF Stored!Init, StoredInv, StoredTyped, ShieldWaits, Named
<1>2. StoredInv /\ [Stored!Next]_(Stored!filesVars) => StoredInv'
  <2> SUFFICES ASSUME StoredInv, [Stored!Next]_(Stored!filesVars) PROVE StoredInv'
    OBVIOUS
  <2>1. CASE UNCHANGED Stored!filesVars
    BY <2>1 DEF Stored!filesVars, Stored!printer, Stored!print, StoredInv, StoredTyped, ShieldWaits, Waiting
  <2> QED BY <2>1, PrinterStep, QueueStep, AskStep DEF Stored!Next
<1>3. StoredInv => LatestStartIsPending
  BY DEF StoredInv, ShieldWaits, Waiting, LatestStartIsPending, Stored!LatestStartIsPending, Stored!File
<1> QED BY <1>1, <1>2, <1>3, PTL DEF Stored!Spec

-----------------------------------------------------------------------------
(* RingBuffer.                                                             *)

RingInv ==
  /\ ids \in [0..(Cap - 1) -> Int] /\ head \in 0..(Cap - 1) /\ size \in 0..Cap
  /\ size < Cap => head = size
  /\ nextID \in Int

LEMMA OnceRound ==
  ASSUME NEW x \in 0..(2 * Cap - 1)
  PROVE  x % Cap = IF x < Cap THEN x ELSE x - Cap
<1>1. Cap \in Nat \ {0}
  BY LogAssumption
<1>2. x = Cap * (x \div Cap) + (x % Cap) /\ x \div Cap \in Int /\ x % Cap \in 0..(Cap - 1)
  BY <1>1
<1> DEFINE q == x \div Cap
<1>3. q \in Int /\ -Cap < Cap * q /\ Cap * q < 2 * Cap
  BY <1>1, <1>2
<1> HIDE DEF q
<1>4. q <= 1
  <2>1. CASE q >= 2
    <3>1. Cap * (q - 2) >= 0
      BY <1>1, <1>3, <2>1
    <3> QED BY <1>1, <1>3, <3>1
  <2> QED BY <1>3, <2>1
<1>5. q >= 0
  <2>1. CASE q <= -1
    <3>1. Cap * (-1 - q) >= 0
      BY <1>1, <1>3, <2>1
    <3> QED BY <1>1, <1>3, <3>1
  <2> QED BY <1>3, <2>1
<1>6. q = 0 \/ q = 1
  BY <1>3, <1>4, <1>5
<1> QED BY <1>1, <1>2, <1>6 DEF q

LEMMA IntSeq ==
  ASSUME NEW n \in Nat, NEW f \in [1..n -> Int]
  PROVE  f \in Seq(Int) /\ Len(f) = n
OBVIOUS

(* Entries, of any slots.                                                  *)
Circle(slots, h, n) == [i \in 1..n |-> slots[IF n < Cap THEN i - 1 ELSE (h + i - 1) % Cap]]

LEMMA EntriesType ==
  ASSUME NEW slots \in [0..(Cap - 1) -> Int], NEW h \in 0..(Cap - 1), NEW n \in 0..Cap
  PROVE  LET all == Circle(slots, h, n) IN
         /\ all \in Seq(Int) /\ Len(all) = n
         /\ n < Cap => \A i \in 1..n : all[i] = slots[i - 1]
         /\ n = Cap =>
              \A i \in 1..Cap : all[i] = slots[IF h + i - 1 < Cap THEN h + i - 1 ELSE h + i - 1 - Cap]
<1> DEFINE all == Circle(slots, h, n)
<1>1. Cap \in Nat \ {0} /\ n \in Nat
  BY LogAssumption
<1>2. ASSUME NEW i \in 1..Cap
      PROVE  (h + i - 1) % Cap = IF h + i - 1 < Cap THEN h + i - 1 ELSE h + i - 1 - Cap
  <2> DEFINE x == h + i - 1
  <2>1. x \in 0..(2 * Cap - 1)
    BY <1>1
  <2> HIDE DEF x
  <2>2. x % Cap = IF x < Cap THEN x ELSE x - Cap
    BY <2>1, OnceRound
  <2> QED BY <1>1, <2>2 DEF x
<1> USE DEF Circle
<1>3. all \in [1..n -> Int]
  <2>1. ASSUME NEW i \in 1..n
        PROVE  (IF n < Cap THEN i - 1 ELSE (h + i - 1) % Cap) \in 0..(Cap - 1)
    BY <1>1, <1>2
  <2> QED BY <2>1
<1>4. all \in Seq(Int) /\ Len(all) = n
  BY <1>1, <1>3, IntSeq
<1>5. \A i \in 1..n : all[i] = slots[IF n < Cap THEN i - 1 ELSE (h + i - 1) % Cap]
  OBVIOUS
<1>6. n < Cap => \A i \in 1..n : all[i] = slots[i - 1]
  BY <1>5
<1>7. ASSUME n = Cap, NEW i \in 1..Cap
      PROVE  all[i] = slots[IF h + i - 1 < Cap THEN h + i - 1 ELSE h + i - 1 - Cap]
  <2>1. all[i] = slots[(h + i - 1) % Cap]
    BY <1>1, <1>5, <1>7
  <2> QED BY <1>2, <2>1
<1> QED BY <1>4, <1>6, <1>7

LEMMA AppendStep ==
  ASSUME RingInv, Log!AppendLine
  PROVE  RingInv' /\ Log!Window!AppendAlert
<1> DEFINE old == Log!Entries
           kept == IF Len(old) >= Cap THEN Tail(old) ELSE old
<1>1. Cap \in Nat \ {0}
  BY LogAssumption
<1>2. head' = IF head + 1 < Cap THEN head + 1 ELSE 0
  <2> DEFINE x == head + 1
  <2>1. x \in 0..(2 * Cap - 1)
    BY <1>1 DEF RingInv
  <2> HIDE DEF x
  <2>2. x % Cap = IF x < Cap THEN x ELSE x - Cap
    BY <2>1, OnceRound
  <2> QED BY <1>1, <2>2 DEF x, RingInv, Log!AppendLine, Log!Advance
<1>3. RingInv'
  BY <1>1, <1>2 DEF RingInv, Log!AppendLine
<1>4. /\ old \in Seq(Int) /\ Len(old) = size /\ nextID \in Int
      /\ size < Cap => \A i \in 1..size : old[i] = ids[i - 1]
      /\ size = Cap =>
           \A i \in 1..Cap : old[i] = ids[IF head + i - 1 < Cap THEN head + i - 1 ELSE head + i - 1 - Cap]
  <2>1. old = Circle(ids, head, size)
    BY DEF Log!Entries, Circle
  <2>2. /\ ids \in [0..(Cap - 1) -> Int] /\ head \in 0..(Cap - 1) /\ size \in 0..Cap
        /\ nextID \in Int
    BY DEF RingInv
  <2> HIDE DEF old
  <2> QED BY <1>1, <2>1, <2>2, EntriesType
<1>5. /\ kept \in Seq(Int) /\ Len(kept) = size' - 1
      /\ \A i \in 1..(size' - 1) : kept[i] = old[IF size < Cap THEN i ELSE i + 1]
  <2>1. CASE size < Cap
    BY <1>1, <1>4, <2>1 DEF RingInv, Log!AppendLine
  <2>2. CASE size = Cap
    <3>1. old # <<>>
      BY <1>1, <1>4, <2>2
    <3>2. Tail(old) \in Seq(Int) /\ Len(Tail(old)) = Cap - 1 /\ \A i \in 1..(Cap - 1) : Tail(old)[i] = old[i + 1]
      BY <1>4, <2>2, <3>1, HeadTailProperties
    <3> QED BY <1>1, <1>4, <2>2, <3>2 DEF Log!AppendLine
  <2> QED BY <1>1, <2>1, <2>2 DEF RingInv
<1>6. /\ Log!Entries' \in Seq(Int) /\ Len(Log!Entries') = size'
      /\ size' < Cap => \A i \in 1..size' : Log!Entries'[i] = ids'[i - 1]
      /\ size' = Cap =>
           \A i \in 1..Cap :
             Log!Entries'[i] = ids'[IF head' + i - 1 < Cap THEN head' + i - 1 ELSE head' + i - 1 - Cap]
  <2>1. Log!Entries' = Circle(ids', head', size')
    BY DEF Log!Entries, Circle
  <2>2. ids' \in [0..(Cap - 1) -> Int] /\ head' \in 0..(Cap - 1) /\ size' \in 0..Cap
    BY <1>3 DEF RingInv
  <2> DEFINE new == Log!Entries'
  <2> HIDE DEF new
  <2>3. new = Circle(ids', head', size')
    BY <2>1 DEF new
  <2>4. /\ new \in Seq(Int) /\ Len(new) = size'
        /\ size' < Cap => \A i \in 1..size' : new[i] = ids'[i - 1]
        /\ size' = Cap =>
             \A i \in 1..Cap :
               new[i] = ids'[IF head' + i - 1 < Cap THEN head' + i - 1 ELSE head' + i - 1 - Cap]
    BY <1>1, <2>2, <2>3, EntriesType
  <2> QED BY <2>4 DEF new
<1>7. ASSUME NEW i \in 1..size'
      PROVE  Log!Entries'[i] = IF i = size' THEN nextID ELSE kept[i]
  <2>1. ids' = [ids EXCEPT ![head] = nextID]
    BY DEF Log!AppendLine
  <2>2. CASE size < Cap
    <3>1. size' = size + 1 /\ head = size
      BY <2>2 DEF Log!AppendLine, RingInv
    <3>2. Log!Entries'[i] = ids'[i - 1]
      <4>1. CASE size' < Cap
        BY <1>6, <4>1
      <4>2. CASE size' = Cap
        <5>1. head' = 0 /\ i \in 1..Cap
          BY <1>1, <1>2, <3>1, <4>2
        <5>2. Log!Entries'[i] = ids'[IF head' + i - 1 < Cap THEN head' + i - 1 ELSE head' + i - 1 - Cap]
          BY <1>6, <4>2, <5>1
        <5>3. head' + i - 1 = i - 1 /\ head' + i - 1 < Cap
          BY <1>1, <5>1
        <5> QED BY <5>2, <5>3
      <4> QED BY <1>1, <2>2, <3>1, <4>1, <4>2 DEF RingInv
    <3>3. i # size' => kept[i] = ids[i - 1]
      BY <1>4, <1>5, <2>2, <3>1 DEF RingInv
    <3> QED BY <1>1, <2>1, <2>2, <3>1, <3>2, <3>3 DEF RingInv
  <2>3. CASE size = Cap
    <3>1. size' = Cap
      BY <1>1, <2>3 DEF Log!AppendLine
    <3>2. Log!Entries'[i] = ids'[IF head' + i - 1 < Cap THEN head' + i - 1 ELSE head' + i - 1 - Cap]
      BY <1>6, <3>1
    <3>3. i # Cap => kept[i] = ids[IF head + i < Cap THEN head + i ELSE head + i - Cap]
      BY <1>1, <1>4, <1>5, <2>3, <3>1 DEF RingInv
    <3> QED BY SMTT(30), <1>1, <1>2, <2>1, <2>3, <3>1, <3>2, <3>3 DEF RingInv
  <2> QED BY <1>1, <2>2, <2>3 DEF RingInv
<1> HIDE DEF old, kept
<1>8. Log!Entries' = Append(kept, nextID)
  <2>1. /\ Append(kept, nextID) \in Seq(Int) /\ Len(Append(kept, nextID)) = size'
        /\ \A i \in 1..size' : Append(kept, nextID)[i] = IF i = size' THEN nextID ELSE kept[i]
    <3>1. size' \in Nat \ {0}
      BY <1>1 DEF RingInv, Log!AppendLine
    <3> QED BY <1>4, <1>5, <3>1, AppendProperties
  <2> QED BY <1>6, <1>7, <2>1, SeqEqual
<1> QED BY <1>3, <1>8 DEF Log!AppendLine, Log!Window!AppendAlert, old, kept

(* The circle shows what the window holds.                                 *)
LEMMA RingIsWindow == Log!Spec => Log!Window!Spec
<1>1. Log!NewRingBuffer => RingInv /\ Log!Window!Init
  <2> SUFFICES ASSUME Log!NewRingBuffer PROVE RingInv /\ Log!Window!Init
    OBVIOUS
  <2>1. RingInv
    BY LogAssumption DEF Log!NewRingBuffer, RingInv
  <2>2. Log!Entries = Circle(ids, head, size) /\ size = 0
    BY DEF Log!Entries, Circle, Log!NewRingBuffer
  <2>3. Circle(ids, head, size) \in Seq(Int) /\ Len(Circle(ids, head, size)) = 0
    BY <2>1, <2>2, EntriesType DEF RingInv
  <2>4. Log!Entries = <<>>
    BY <2>2, <2>3, EmptySeq
  <2> QED BY <2>1, <2>4 DEF Log!NewRingBuffer, Log!Window!Init
<1>2. RingInv /\ [Log!Next]_(Log!ringVars) => RingInv' /\ [Log!Window!Next]_(Log!Window!windowVars)
  <2> SUFFICES ASSUME RingInv, [Log!Next]_(Log!ringVars)
               PROVE  RingInv' /\ [Log!Window!Next]_(Log!Window!windowVars)
    OBVIOUS
  <2>1. CASE Log!AppendLine
    BY <2>1, AppendStep DEF Log!Window!Next
  <2>2. ASSUME NEW limit \in Limits, Log!ConsoleLogs(limit)
        PROVE  RingInv' /\ Log!Window!Next
    <3>1. RingInv'
      BY <2>2 DEF Log!ConsoleLogs, RingInv
    <3>2. Log!Window!Next
      BY <2>2 DEF Log!ConsoleLogs, Log!Window!Next
    <3> QED BY <3>1, <3>2
  <2>3. CASE UNCHANGED Log!ringVars
    BY <2>3 DEF Log!ringVars, RingInv, Log!Window!windowVars, Log!Entries
  <2> QED BY <2>1, <2>2, <2>3 DEF Log!Next
<1> QED BY <1>1, <1>2, PTL DEF Log!Spec, Log!Window!Spec

(* The window holds the numbers up to the last, and the browser knows one  *)
(* that was given.                                                         *)
WindowInv ==
  /\ nextID \in Nat \ {0} /\ cursor \in -1..(nextID - 1)
  /\ Log!Entries \in Seq(Int)
  /\ Len(Log!Entries) <= Cap /\ Len(Log!Entries) < nextID
  /\ \A i \in 1..Len(Log!Entries) : Log!Entries[i] = nextID - 1 - Len(Log!Entries) + i
  /\ Log!Entries = <<>> => nextID = 1

LEMMA AppendWindow ==
  ASSUME WindowInv, Log!Window!AppendAlert
  PROVE  WindowInv'
<1> DEFINE old == Log!Entries
           kept == IF Len(old) >= Cap THEN Tail(old) ELSE old
           new == Log!Entries'
<1>1. Cap \in Nat \ {0} /\ nextID \in Nat \ {0} /\ nextID' = nextID + 1 /\ cursor' = cursor
      /\ new = Append(kept, nextID)
  BY LogAssumption DEF WindowInv, Log!Window!AppendAlert
<1>2. /\ old \in Seq(Int) /\ Len(old) \in Nat /\ Len(old) <= Cap /\ Len(old) < nextID
      /\ \A i \in 1..Len(old) : old[i] = nextID - 1 - Len(old) + i
  BY DEF WindowInv
<1> HIDE DEF old, new
<1>3. /\ kept \in Seq(Int) /\ Len(kept) \in Nat /\ Len(kept) < Cap /\ Len(kept) < nextID
      /\ \A i \in 1..Len(kept) : kept[i] = nextID - 1 - Len(kept) + i
  <2>1. CASE Len(old) < Cap
    <3>1. kept = old
      BY <1>1, <1>2, <2>1
    <3> HIDE DEF kept
    <3> QED BY <1>2, <2>1, <3>1
  <2>2. CASE Len(old) = Cap
    <3>1. old # <<>>
      BY <1>1, <1>2, <2>2
    <3>2. Tail(old) \in Seq(Int) /\ Len(Tail(old)) = Cap - 1 /\ \A i \in 1..(Cap - 1) : Tail(old)[i] = old[i + 1]
      BY <1>2, <2>2, <3>1, HeadTailProperties
    <3>3. kept = Tail(old)
      BY <1>1, <2>2
    <3> HIDE DEF kept
    <3>4. kept \in Seq(Int) /\ Len(kept) = Cap - 1 /\ \A i \in 1..(Cap - 1) : kept[i] = old[i + 1]
      BY <3>2, <3>3
    <3>5. ASSUME NEW i \in 1..Len(kept) PROVE kept[i] = nextID - 1 - Len(kept) + i
      <4>1. i + 1 \in 1..Len(old) /\ kept[i] = old[i + 1]
        BY <1>1, <1>2, <2>2, <3>4
      <4> QED BY <1>1, <1>2, <2>2, <3>4, <4>1
    <3> QED BY <1>1, <1>2, <2>2, <3>4, <3>5
  <2> HIDE DEF kept
  <2> QED BY <1>1, <1>2, <2>1, <2>2
<1> HIDE DEF kept
<1>4. /\ new \in Seq(Int) /\ new # <<>> /\ Len(new) = Len(kept) + 1
      /\ \A i \in 1..Len(kept) : new[i] = kept[i]
      /\ new[Len(kept) + 1] = nextID
  <2>1. nextID \in Int
    BY <1>1
  <2> QED BY <1>1, <1>3, <2>1, AppendProperties
<1>5. \A i \in 1..Len(new) : new[i] = nextID' - 1 - Len(new) + i
  <2> SUFFICES ASSUME NEW i \in 1..Len(new) PROVE new[i] = nextID' - 1 - Len(new) + i
    OBVIOUS
  <2>1. CASE i = Len(kept) + 1
    BY <1>1, <1>3, <1>4, <2>1
  <2>2. CASE i # Len(kept) + 1
    <3>1. i \in 1..Len(kept)
      BY <1>3, <1>4, <2>2
    <3> QED BY <1>1, <1>3, <1>4, <3>1
  <2> QED BY <2>1, <2>2
<1>6. cursor' \in -1..(nextID' - 1)
  BY <1>1 DEF WindowInv
<1> QED BY SMTT(30), <1>1, <1>3, <1>4, <1>5, <1>6 DEF WindowInv, new

LEMMA GreatestIs ==
  ASSUME NEW S \in SUBSET Int, NEW x \in S, \A y \in S : x >= y
  PROVE  Log!Window!Max(S) = x
<1>1. \E z \in S : \A y \in S : z >= y
  OBVIOUS
<1>2. Log!Window!Max(S) \in S /\ \A y \in S : Log!Window!Max(S) >= y
  BY <1>1 DEF Log!Window!Max
<1> DEFINE z == Log!Window!Max(S)
<1> HIDE DEF z
<1>3. z \in S /\ z >= x /\ x >= z /\ z \in Int /\ x \in Int
  BY <1>2 DEF z
<1> QED BY <1>3 DEF z

(* What a poll answers, whatever was overwritten since the last.           *)
LEMMA PollAnswer ==
  ASSUME WindowInv, NEW limit \in Int, Log!Window!PrinterAlerts(limit)
  PROVE  WindowInv' /\ Log!Window!AnswerIsWhole'
<1> DEFINE all == Log!Entries
           n == Len(all)
           most == Log!Window!Clamped(limit)
           known == {i \in 1..n : all[i] <= cursor}
           k == Log!Window!SelectLastInSeq(all, LAMBDA id : id <= cursor)
           newer == Log!Window!Newer(cursor)
           shows == IF Len(newer) > most THEN Log!Window!Newest(newer, most) ELSE newer
           last == IF all = <<>> THEN 0 ELSE Log!Window!Last(all)
           cut == cursor >= 0 /\ (Log!Window!Gap(cursor) \/ Len(newer) > most)
<1>1. /\ reply' = [after |-> cursor, entries |-> shows, nextAfter |-> last, truncated |-> cut]
      /\ cursor' = reply'.nextAfter /\ UNCHANGED <<Log!Entries, nextID>>
  BY DEF Log!Window!PrinterAlerts, Log!Window!Snapshot, Log!Window!NextAfter
<1>2. most \in 1..Cap /\ Cap \in Nat \ {0}
  BY LogAssumption DEF Log!Window!Clamped
<1>3. /\ all \in Seq(Int) /\ n \in Nat /\ n <= Cap /\ n < nextID /\ nextID \in Nat
      /\ cursor \in -1..(nextID - 1)
      /\ \A i \in 1..n : all[i] = nextID - 1 - n + i
      /\ (all = <<>>) <=> (n = 0)
      /\ n = 0 => nextID = 1
  BY EmptySeq DEF WindowInv
<1>4. last = nextID - 1
  BY <1>3 DEF Log!Window!Last
<1>5. WindowInv'
  BY <1>1, <1>3, <1>4 DEF WindowInv
<1>6. k = IF cursor < nextID - n THEN 0 ELSE cursor - (nextID - 1 - n)
  <2>1. k = IF known # {} THEN Log!Window!Max(known) ELSE 0
    BY DEF Log!Window!SelectLastInSeq
  <2>2. CASE cursor < nextID - n
    <3>1. known = {}
      BY <1>3, <2>2
    <3> QED BY <2>1, <2>2, <3>1
  <2>3. CASE cursor >= nextID - n
    <3> DEFINE j == cursor - (nextID - 1 - n)
    <3>1. j \in known /\ \A i \in known : j >= i
      BY <1>3, <2>3
    <3>2. known \subseteq Int
      OBVIOUS
    <3> HIDE DEF known, j
    <3>3. Log!Window!Max(known) = j
      BY <3>1, <3>2, GreatestIs
    <3> QED BY <1>3, <2>1, <2>3, <3>1, <3>3 DEF j
  <2> QED BY <1>3, <2>2, <2>3
<1>7. newer = SubSeq(all, k + 1, n)
  BY DEF Log!Window!Newer
<1> DEFINE m == n - k
<1>8. k \in 0..n /\ m \in 0..n /\ m = IF cursor < nextID - n THEN n ELSE nextID - 1 - cursor
  BY <1>3, <1>6
<1>9. /\ newer \in Seq(Int) /\ Len(newer) = m
      /\ \A i \in 1..m : newer[i] = nextID - 1 - m + i
  <2>1. \A i \in (k + 1)..n : all[i] \in Int
    BY <1>3, <1>8
  <2> HIDE DEF k, newer, all
  <2>2. /\ newer \in Seq(Int) /\ Len(newer) = IF k + 1 <= n THEN n - (k + 1) + 1 ELSE 0
        /\ \A i \in 1..(n - (k + 1) + 1) : newer[i] = all[k + 1 + i - 1]
    BY <1>3, <1>7, <1>8, <2>1, SubSeqProperties
  <2> QED BY <1>3, <1>8, <2>2
<1>10. cursor >= 0 => (Log!Window!Gap(cursor) <=> cursor < nextID - 1 - n)
  BY SMTT(30), <1>3 DEF Log!Window!Gap
<1>11. cut <=> cursor >= 0 /\ (cursor < nextID - 1 - n \/ m > most)
  BY <1>9, <1>10
<1> HIDE DEF k, newer, all, m, most, shows, last, cut
<1>12. CASE cursor < 0
  BY <1>1, <1>3, <1>5, <1>12 DEF Log!Window!AnswerIsWhole
<1>13. CASE cursor >= 0 /\ ~cut
  <2>1. m = nextID - 1 - cursor /\ shows = newer
    BY <1>2, <1>3, <1>8, <1>9, <1>11, <1>13 DEF shows
  <2>2. newer = [i \in 1..(last - cursor) |-> cursor + i]
    <3> DEFINE whole == [i \in 1..(last - cursor) |-> cursor + i]
    <3> HIDE DEF n, known, whole
    <3>1. last - cursor = m /\ m \in Nat /\ cursor \in Int
      <4>1. nextID \in Int /\ cursor \in Int /\ n \in Nat
        BY <1>3
      <4>2. last - cursor = nextID - 1 - cursor
        BY <1>4, <4>1
      <4> QED BY <1>8, <2>1, <4>1, <4>2
    <3>2. /\ whole \in Seq(Int) /\ Len(whole) = m
          /\ \A i \in 1..m : whole[i] = cursor + i
      <4>1. whole = [i \in 1..m |-> cursor + i]
        BY <3>1 DEF whole
      <4>2. whole \in [1..m -> Int] /\ \A i \in 1..m : whole[i] = cursor + i
        BY <3>1, <4>1
      <4> QED BY <3>1, <4>2, IntSeq
    <3>3. \A i \in 1..m : newer[i] = whole[i]
      BY <1>3, <1>4, <1>9, <3>1, <3>2
    <3>4. newer = whole
      BY <1>9, <3>2, <3>3, SeqEqual
    <3> QED BY <3>4 DEF whole
  <2> QED BY <1>1, <1>5, <1>13, <2>1, <2>2 DEF Log!Window!AnswerIsWhole
<1>14. CASE cut
  <2>1. Len(shows) < last - cursor
    <3>1. CASE m <= most
      BY <1>2, <1>3, <1>4, <1>8, <1>9, <1>11, <1>14, <3>1 DEF shows
    <3>2. CASE m > most
      <4>1. shows = SubSeq(newer, m - most + 1, m)
        BY <1>9, <3>2 DEF shows, Log!Window!Newest
      <4>2. \A i \in (m - most + 1)..m : newer[i] \in Int
        BY <1>2, <1>3, <1>8, <1>9, <3>2
      <4>3. Len(shows) = most
        <5>1. m - most + 1 \in Int /\ m \in Int
          BY <1>2, <1>3, <1>8
        <5>2. Len(shows) = IF m - most + 1 <= m THEN m - (m - most + 1) + 1 ELSE 0
          BY <4>1, <4>2, <5>1, SubSeqProperties
        <5> QED BY <1>2, <1>3, <1>8, <5>2
      <4> QED BY <1>2, <1>3, <1>4, <1>8, <1>11, <1>14, <3>2, <4>3
    <3> QED BY <1>2, <1>3, <1>8, <3>1, <3>2
  <2>2. shows # [i \in 1..(last - cursor) |-> cursor + i]
    BY <1>3, <1>4, <2>1
  <2> QED BY <1>1, <1>5, <1>14, <2>2 DEF Log!Window!AnswerIsWhole
<1> QED BY <1>3, <1>12, <1>13, <1>14

LEMMA AnswersWhole == Log!Window!Spec => [](WindowInv /\ Log!Window!AnswerIsWhole)
<1>1. Log!Window!Init => WindowInv /\ Log!Window!AnswerIsWhole
  BY LogAssumption, EmptySeq
  DEF Log!Window!Init, Log!Window!NoReply, WindowInv, Log!Window!AnswerIsWhole
<1>2. /\ WindowInv /\ Log!Window!AnswerIsWhole
      /\ [Log!Window!Next]_(Log!Window!windowVars)
      => WindowInv' /\ Log!Window!AnswerIsWhole'
  <2> SUFFICES ASSUME WindowInv, Log!Window!AnswerIsWhole, [Log!Window!Next]_(Log!Window!windowVars)
               PROVE  WindowInv' /\ Log!Window!AnswerIsWhole'
    OBVIOUS
  <2>1. CASE Log!Window!AppendAlert
    <3>1. reply' = reply
      BY <2>1 DEF Log!Window!AppendAlert
    <3> QED BY <2>1, <3>1, AppendWindow DEF Log!Window!AnswerIsWhole
  <2>2. ASSUME NEW limit \in Limits, Log!Window!PrinterAlerts(Log!Asked(limit))
        PROVE  WindowInv' /\ Log!Window!AnswerIsWhole'
    <3>1. Log!Asked(limit) \in Int
      BY LogAssumption DEF Log!Asked
    <3> QED BY <2>2, <3>1, PollAnswer
  <2>3. CASE UNCHANGED Log!Window!windowVars
    BY <2>3 DEF Log!Window!windowVars, WindowInv, Log!Window!AnswerIsWhole
  <2> QED BY <2>1, <2>2, <2>3 DEF Log!Window!Next
<1> QED BY <1>1, <1>2, PTL DEF Log!Window!Spec

(* For any capacity and any limits: the circle of slots is the window on   *)
(* the log, and an answer holds all that was appended since the last one   *)
(* or says that it does not (ringbuffer.go:138).                           *)
THEOREM LogIsWholeHolds == Log!Spec => LogIsWhole
BY RingIsWindow, AnswersWhole, PTL DEF LogIsWhole, Log!LogIsWhole

-----------------------------------------------------------------------------
(* MjpegStream.  The pictures written stand one after the other, picture k  *)
(* from base[k] + 1 on, and of that the first off bytes have been dealt     *)
(* with; at says which pictures were cut out.                               *)

(* The provers do not know that a string is in STRING.                     *)
Byte == STRING \cup {"ff", "d8", "d9"}

Bytes == Seq(Byte)

(* What is behind: its markers are the only ones in it.                    *)
Shaped(w) ==
  /\ w \in Bytes /\ Len(w) >= 4
  /\ w[1] = "ff" /\ w[2] = "d8" /\ w[Len(w) - 1] = "ff" /\ w[Len(w)] = "d9"
  /\ \A p \in 1..(Len(w) - 1) : w[p] = "ff" /\ w[p + 1] = "d8" => p = 1
  /\ \A p \in 1..(Len(w) - 1) : w[p] = "ff" /\ w[p + 1] = "d9" => p = Len(w) - 1

Pictures(ws) == ws \in Seq(Bytes) /\ \A k \in 1..Len(ws) : Shaped(ws[k])

Bases(ws, base) ==
  /\ base \in [1..(Len(ws) + 1) -> Nat]
  /\ \A j, k \in 1..(Len(ws) + 1) : j < k => base[j] + Len(ws[j]) <= base[k]

(* Bytes i of what was read and of what was not.                           *)
ByteOf(read, rest, i) == IF i <= Len(read) THEN read[i] ELSE rest[i - Len(read)]

Layout(ws, read, rest, base, off, more) ==
  /\ Bases(ws, base) /\ off \in Nat
  /\ \A i \in 1..(Len(read) + Len(rest)) :
       \E k \in 1..Len(ws) : \E p \in 1..Len(ws[k]) :
         off + i = base[k] + p /\ ByteOf(read, rest, i) = ws[k][p]
  /\ off + Len(read) + Len(rest) <= base[Len(ws) + 1]
  /\ more => off + Len(read) + Len(rest) = base[Len(ws) + 1]

(* What was cut out lies behind, and what is not cut out and could be does *)
(* not.                                                                    *)
Cutout(ws, frames0, base, off, at) ==
  /\ at \in [1..Len(frames0) -> 1..Len(ws)]
  /\ \A i \in 1..Len(frames0) :
       frames0[i] = ws[at[i]] /\ base[at[i]] + Len(ws[at[i]]) <= off
  /\ \A i, j \in 1..Len(frames0) : i < j => at[i] < at[j]
  /\ \A k \in 1..Len(ws) :
       Len(ws[k]) <= MaxBuffer => base[k] >= off \/ \E i \in 1..Len(frames0) : at[i] = k

ViewTyped ==
  /\ pipe \in Bytes /\ buf \in Bytes
  /\ Pictures(written) /\ shown \in Seq(Bytes) /\ frames \in Seq(Bytes)

StartIn(read) == View!Index(read, <<"ff", "d8">>, 1)
EndIn(read, from) == View!Index(read, <<"ff", "d9">>, from)

(* Before the next read all whole pictures have been cut out.              *)
NoneWhole(read) == StartIn(read) = 0 \/ EndIn(read, StartIn(read) + 2) = 0

AllCut == reader = "read" => NoneWhole(buf)

ViewInv ==
  /\ ViewTyped /\ AllCut
  /\ \E base, at : \E off \in Nat :
       /\ Layout(written, buf, pipe, base, off, ffmpeg)
       /\ Cutout(written, View!Cut, base, off, at)

LEMMA LeastOf ==
  ASSUME NEW S \in SUBSET Nat, S # {}
  PROVE  \E x \in S : \A y \in S : x <= y
<1> DEFINE below == OpToRel(<, Nat)
<1>1. IsWellFoundedOn(below, Nat)
  BY NatLessThanWellFounded
<1>2. \A x, y \in Nat : y < x => <<y, x>> \in below
  BY DEF OpToRel
<1> HIDE DEF below
<1>3. PICK x \in S : \A y \in S : ~(<<y, x>> \in below)
  BY <1>1, WFMin
<1>4. \A y \in S : ~(y < x)
  BY <1>2, <1>3, Zenon
<1> QED BY <1>4

(* Index finds the first marker there is.                                  *)
LEMMA IndexRight ==
  ASSUME NEW bytes \in Bytes, NEW x, NEW y, NEW from \in Nat \ {0}
  PROVE  LET r == View!Index(bytes, <<x, y>>, from) IN
         /\ r \in Nat
         /\ r # 0 => r \in from..(Len(bytes) - 1) /\ bytes[r] = x /\ bytes[r + 1] = y
         /\ \A i \in from..(Len(bytes) - 1) : bytes[i] = x /\ bytes[i + 1] = y => r # 0 /\ r <= i
<1> DEFINE found == {i \in from..(Len(bytes) - 1) : SubSeq(bytes, i, i + 1) = <<x, y>>}
           r == View!Index(bytes, <<x, y>>, from)
<1>1. Len(bytes) \in Nat
  BY DEF Bytes
<1>2. \A i \in from..(Len(bytes) - 1) : i \in found <=> bytes[i] = x /\ bytes[i + 1] = y
  <2> SUFFICES ASSUME NEW i \in from..(Len(bytes) - 1)
               PROVE  i \in found <=> bytes[i] = x /\ bytes[i + 1] = y
    OBVIOUS
  <2>1. i \in 1..(Len(bytes) - 1)
    BY <1>1
  <2>2. SubSeq(bytes, i, i + 1) = <<x, y>> <=> bytes[i] = x /\ bytes[i + 1] = y
    <3> DEFINE two == SubSeq(bytes, i, i + 1)
               S == Byte
    <3>0. bytes \in Seq(S)
      BY DEF Bytes
    <3> HIDE DEF S
    <3>1. \A j \in i..(i + 1) : bytes[j] \in S
      BY <3>0
    <3>2. /\ two \in Seq(S) /\ Len(two) = IF i <= i + 1 THEN i + 1 - i + 1 ELSE 0
          /\ \A j \in 1..(i + 1 - i + 1) : two[j] = bytes[i + j - 1]
      BY <3>0, <3>1, SubSeqProperties
    <3> HIDE DEF two
    <3>3. two \in Seq(S) /\ Len(two) = 2 /\ two[1] = bytes[i] /\ two[2] = bytes[i + 1]
      <4>1. i \in Int
        BY <3>0
      <4>2. two[1] = bytes[i + 1 - 1] /\ two[2] = bytes[i + 2 - 1]
        BY <3>2
      <4> QED BY <3>2, <4>1, <4>2
    <3>4. ASSUME two = <<x, y>> PROVE bytes[i] = x /\ bytes[i + 1] = y
      BY <3>3, <3>4
    <3>5. ASSUME bytes[i] = x, bytes[i + 1] = y PROVE two = <<x, y>>
      <4>1. x \in S /\ y \in S
        BY <3>1, <3>5
      <4>2. <<x, y>> \in Seq(S) /\ Len(<<x, y>>) = 2
        BY <4>1
      <4>3. \A j \in 1..2 : two[j] = <<x, y>>[j]
        BY <3>3, <3>5
      <4> QED BY <3>3, <4>2, <4>3, SeqEqual
    <3> QED BY <3>4, <3>5 DEF two
  <2> QED BY <2>2
<1>3. found \in SUBSET Nat /\ found \subseteq from..(Len(bytes) - 1)
  BY <1>1
<1>4. r = IF found = {} THEN 0 ELSE CHOOSE i \in found : \A j \in found : i <= j
  BY DEF View!Index
<1> HIDE DEF found, r
<1>5. CASE found = {}
  BY <1>2, <1>4, <1>5 DEF r
<1>6. CASE found # {}
  <2>1. \E i \in found : \A j \in found : i <= j
    BY <1>3, <1>6, LeastOf
  <2>2. r \in found /\ \A j \in found : r <= j
    BY <1>4, <1>6, <2>1
  <2>3. r \in Nat /\ r # 0
    BY <1>1, <1>3, <2>2
  <2> QED BY <1>2, <1>3, <2>2, <2>3 DEF r
<1> QED BY <1>5, <1>6

Context(ws, read, rest, base, off, more) ==
  /\ Pictures(ws) /\ read \in Bytes /\ rest \in Bytes
  /\ Layout(ws, read, rest, base, off, more)

LEMMA BytesLen == \A b \in Bytes : Len(b) \in Nat
BY DEF Bytes

LEMMA PicturesAre ==
  ASSUME NEW ws, Pictures(ws)
  PROVE  /\ Len(ws) \in Nat
         /\ \A k \in 1..Len(ws) :
              Shaped(ws[k]) /\ ws[k] \in Bytes /\ Len(ws[k]) \in Nat /\ Len(ws[k]) >= 4
<1>1. ws \in Seq(Bytes) /\ \A k \in 1..Len(ws) : Shaped(ws[k])
  BY DEF Pictures
<1>2. \A w : Shaped(w) => w \in Bytes /\ Len(w) \in Nat /\ Len(w) >= 4
  BY BytesLen DEF Shaped
<1>3. Len(ws) \in Nat
  <2> DEFINE S == Bytes
  <2>1. ws \in Seq(S)
    BY <1>1
  <2> HIDE DEF S
  <2> QED BY <2>1
<1> QED BY <1>1, <1>2, <1>3

LEMMA Lengths ==
  ASSUME NEW ws, NEW read, NEW rest, NEW base, NEW off, NEW more,
         Context(ws, read, rest, base, off, more)
  PROVE  /\ off \in Nat /\ Len(ws) \in Nat /\ Len(read) \in Nat /\ Len(rest) \in Nat
         /\ \A k \in 1..(Len(ws) + 1) : base[k] \in Nat
         /\ \A k \in 1..Len(ws) :
              /\ ws[k] \in Bytes /\ Len(ws[k]) \in Nat /\ Len(ws[k]) >= 4
              /\ base[k] + Len(ws[k]) <= base[Len(ws) + 1]
<1>1. off \in Nat /\ Len(ws) \in Nat /\ Len(read) \in Nat /\ Len(rest) \in Nat
  BY BytesLen, PicturesAre DEF Context, Layout
<1>2. \A k \in 1..(Len(ws) + 1) : base[k] \in Nat
  BY DEF Context, Layout, Bases
<1>3. ASSUME NEW k \in 1..Len(ws) PROVE base[k] + Len(ws[k]) <= base[Len(ws) + 1]
  BY <1>1 DEF Context, Layout, Bases
<1> QED BY <1>1, <1>2, <1>3, PicturesAre DEF Context

(* No two bytes stand in one place.                                        *)
LEMMA OnePlace ==
  ASSUME NEW ws, NEW base, Pictures(ws), Bases(ws, base),
         NEW j \in 1..Len(ws), NEW q \in 1..Len(ws[j]),
         NEW k \in 1..Len(ws), NEW p \in 1..Len(ws[k]), base[j] + q = base[k] + p
  PROVE  j = k /\ q = p
<1>1. /\ Len(ws) \in Nat /\ base[j] \in Nat /\ base[k] \in Nat
      /\ Len(ws[j]) \in Nat /\ Len(ws[k]) \in Nat
  BY SMTT(30), PicturesAre DEF Bases
<1>2. ~(j < k)
  <2>1. j < k => base[j] + Len(ws[j]) <= base[k]
    BY <1>1 DEF Bases
  <2> QED BY <1>1, <2>1
<1>3. ~(k < j)
  <2>1. k < j => base[k] + Len(ws[k]) <= base[j]
    BY <1>1 DEF Bases
  <2> QED BY <1>1, <2>1
<1> QED BY <1>1, <1>2, <1>3

(* A byte of a picture that was read and not dealt with.                   *)
LEMMA ByteThere ==
  ASSUME NEW ws, NEW read, NEW rest, NEW base, NEW off, NEW more,
         Context(ws, read, rest, base, off, more),
         NEW k \in 1..Len(ws), NEW p \in 1..Len(ws[k]),
         NEW i \in 1..Len(read), off + i = base[k] + p
  PROVE  read[i] = ws[k][p]
<1>1. off \in Nat /\ Len(read) \in Nat /\ Len(rest) \in Nat
  BY Lengths
<1>2. PICK j \in 1..Len(ws) : \E q \in 1..Len(ws[j]) :
        off + i = base[j] + q /\ ByteOf(read, rest, i) = ws[j][q]
  <2>1. i \in 1..(Len(read) + Len(rest))
    BY <1>1
  <2> QED BY <2>1 DEF Context, Layout
<1>3. PICK q \in 1..Len(ws[j]) : off + i = base[j] + q /\ ByteOf(read, rest, i) = ws[j][q]
  BY <1>2
<1>4. j = k /\ q = p
  <2>1. Pictures(ws) /\ Bases(ws, base)
    BY DEF Context, Layout
  <2>2. base[j] + q = base[k] + p
    BY <1>3
  <2> QED BY <2>1, <2>2, OnePlace
<1> QED BY <1>1, <1>3, <1>4 DEF ByteOf

(* Where two bytes of what was read are a picture's.                       *)
LEMMA MarkerThere ==
  ASSUME NEW ws, NEW read, NEW rest, NEW base, NEW off, NEW more,
         Context(ws, read, rest, base, off, more),
         NEW i \in 1..(Len(read) - 1), read[i] = "ff", read[i + 1] \in {"d8", "d9"}
  PROVE  \E k \in 1..Len(ws) : off + i = base[k] + IF read[i + 1] = "d8" THEN 1 ELSE Len(ws[k]) - 1
<1>1. off \in Nat /\ Len(read) \in Nat /\ Len(rest) \in Nat /\ i \in 1..Len(read) /\ i + 1 \in 1..Len(read)
  BY Lengths
<1>2. PICK k \in 1..Len(ws) : \E p \in 1..Len(ws[k]) :
        off + i = base[k] + p /\ ByteOf(read, rest, i) = ws[k][p]
  <2>1. i \in 1..(Len(read) + Len(rest))
    BY <1>1
  <2> QED BY <2>1 DEF Context, Layout
<1>3. PICK p \in 1..Len(ws[k]) : off + i = base[k] + p /\ ByteOf(read, rest, i) = ws[k][p]
  BY <1>2
<1>4. Shaped(ws[k]) /\ Len(ws[k]) \in Nat /\ base[k] \in Nat
  BY Lengths DEF Context, Pictures
<1>5. ws[k][p] = "ff"
  BY <1>1, <1>3 DEF ByteOf
<1>6. p + 1 \in 1..Len(ws[k])
  BY <1>4, <1>5 DEF Shaped
<1>7. ws[k][p + 1] = read[i + 1]
  <2>1. off + (i + 1) = base[k] + (p + 1)
    <3>1. i \in Int /\ p \in Int /\ off \in Int /\ base[k] \in Int
      BY <1>1, <1>4
    <3>2. off + i = base[k] + p
      BY <1>3
    <3> QED BY SMTT(30), <3>1, <3>2
  <2> DEFINE h == i + 1
             q == p + 1
  <2>2. h \in 1..Len(read) /\ q \in 1..Len(ws[k]) /\ off + h = base[k] + q
    BY <1>1, <1>6, <2>1
  <2> HIDE DEF h, q
  <2>3. read[h] = ws[k][q]
    BY <2>2, ByteThere
  <2> QED BY <2>3 DEF h, q
<1>8. p = IF read[i + 1] = "d8" THEN 1 ELSE Len(ws[k]) - 1
  BY <1>4, <1>5, <1>6, <1>7 DEF Shaped
<1> QED BY <1>3, <1>8

(* The first n bytes of what was read are dealt with.                      *)
LEMMA DealtWith ==
  ASSUME NEW ws, NEW read, NEW rest, NEW base, NEW off, NEW more,
         Context(ws, read, rest, base, off, more), NEW n \in 0..Len(read)
  PROVE  LET left == View!From(read, n + 1) IN
         left \in Bytes /\ Len(left) = Len(read) - n /\ (\A i \in 1..Len(left) : left[i] = read[n + i])
         /\ Layout(ws, left, rest, base, off + n, more)
<1> DEFINE left == View!From(read, n + 1)
           S == Byte
<1>1. off \in Nat /\ Len(read) \in Nat /\ Len(rest) \in Nat /\ n \in Nat
  BY Lengths
<1>2. left \in Bytes /\ Len(left) = Len(read) - n /\ \A i \in 1..Len(left) : left[i] = read[n + i]
  <2>1. read \in Seq(S)
    BY DEF Context, Bytes
  <2> HIDE DEF S
  <2>2. \A i \in (n + 1)..Len(read) : read[i] \in S
    BY <1>1, <2>1
  <2>3. left = SubSeq(read, n + 1, Len(read))
    BY DEF View!From
  <2> HIDE DEF left
  <2>4. /\ left \in Seq(S) /\ Len(left) = IF n + 1 <= Len(read) THEN Len(read) - (n + 1) + 1 ELSE 0
        /\ \A i \in 1..(Len(read) - (n + 1) + 1) : left[i] = read[n + 1 + i - 1]
    BY <1>1, <2>2, <2>3, SubSeqProperties
  <2>5. ASSUME NEW i \in 1..Len(left) PROVE left[i] = read[n + i]
    <3>1. left[i] = read[n + 1 + i - 1] /\ n + 1 + i - 1 = n + i
      BY <1>1, <2>4
    <3> QED BY <3>1
  <2> QED BY <1>1, <2>4, <2>5 DEF S, Bytes
<1> HIDE DEF left, S
<1>3. ASSUME NEW i \in 1..(Len(left) + Len(rest))
      PROVE  \E k \in 1..Len(ws) : \E p \in 1..Len(ws[k]) :
               off + n + i = base[k] + p /\ ByteOf(left, rest, i) = ws[k][p]
  <2>1. n + i \in 1..(Len(read) + Len(rest)) /\ off + (n + i) = off + n + i
    BY <1>1, <1>2
  <2>2. ByteOf(left, rest, i) = ByteOf(read, rest, n + i)
    <3>1. CASE i <= Len(left)
      BY <1>1, <1>2, <3>1 DEF ByteOf
    <3>2. CASE i > Len(left)
      <4>1. i - Len(left) = n + i - Len(read)
        BY <1>1, <1>2
      <4> QED BY <1>1, <1>2, <3>2, <4>1 DEF ByteOf
    <3> QED BY <1>1, <1>2, <3>1, <3>2
  <2>3. PICK k \in 1..Len(ws) : \E p \in 1..Len(ws[k]) :
          off + (n + i) = base[k] + p /\ ByteOf(read, rest, n + i) = ws[k][p]
    BY <2>1 DEF Context, Layout
  <2> QED BY <2>1, <2>2, <2>3
<1>4. off + n \in Nat /\ off + n + Len(left) + Len(rest) = off + Len(read) + Len(rest)
  BY <1>1, <1>2
<1> QED BY <1>2, <1>3, <1>4 DEF Context, Layout, left

LEMMA StartInRight ==
  ASSUME NEW read \in Bytes
  PROVE  /\ StartIn(read) \in Nat
         /\ StartIn(read) # 0 =>
              /\ StartIn(read) \in 1..(Len(read) - 1)
              /\ read[StartIn(read)] = "ff" /\ read[StartIn(read) + 1] = "d8"
         /\ \A i \in 1..(Len(read) - 1) :
              read[i] = "ff" /\ read[i + 1] = "d8" => StartIn(read) # 0 /\ StartIn(read) <= i
BY IndexRight DEF StartIn

LEMMA EndInRight ==
  ASSUME NEW read \in Bytes, NEW from \in Nat \ {0}
  PROVE  /\ EndIn(read, from) \in Nat
         /\ EndIn(read, from) # 0 =>
              /\ EndIn(read, from) \in from..(Len(read) - 1)
              /\ read[EndIn(read, from)] = "ff" /\ read[EndIn(read, from) + 1] = "d9"
         /\ \A i \in from..(Len(read) - 1) :
              read[i] = "ff" /\ read[i + 1] = "d9" => EndIn(read, from) # 0 /\ EndIn(read, from) <= i
<1> DEFINE r == View!Index(read, <<"ff", "d9">>, from)
<1>1. EndIn(read, from) = r
  BY DEF EndIn
<1>2. /\ r \in Nat
      /\ r # 0 => r \in from..(Len(read) - 1) /\ read[r] = "ff" /\ read[r + 1] = "d9"
      /\ \A i \in from..(Len(read) - 1) : read[i] = "ff" /\ read[i + 1] = "d9" => r # 0 /\ r <= i
  BY IndexRight
<1> HIDE DEF r
<1> QED BY <1>1, <1>2

(* A picture whose first bytes were read is found, no later than there.    *)
LEMMA StartSeen ==
  ASSUME NEW ws, NEW read, NEW rest, NEW base, NEW off, NEW more,
         Context(ws, read, rest, base, off, more),
         NEW j \in 1..Len(ws), base[j] >= off, base[j] + 2 <= off + Len(read)
  PROVE  StartIn(read) # 0 /\ off + StartIn(read) <= base[j] + 1
<1> DEFINE i == base[j] + 1 - off
           h == base[j] + 2 - off
<1>1. /\ off \in Nat /\ Len(read) \in Nat /\ base[j] \in Nat
      /\ Shaped(ws[j]) /\ 1 \in 1..Len(ws[j]) /\ 2 \in 1..Len(ws[j])
  BY Lengths, PicturesAre DEF Context
<1>2. /\ i \in 1..(Len(read) - 1) /\ i \in 1..Len(read) /\ h \in 1..Len(read) /\ h = i + 1
      /\ off + i = base[j] + 1 /\ off + h = base[j] + 2
  <2>1. off \in Int /\ Len(read) \in Int /\ base[j] \in Int
    BY <1>1
  <2>2. i \in 1..(Len(read) - 1) /\ i \in 1..Len(read)
    BY <2>1
  <2>3. h \in 1..Len(read) /\ h = i + 1
    BY <2>1
  <2>4. off + i = base[j] + 1 /\ off + h = base[j] + 2
    BY <2>1
  <2> HIDE DEF i, h
  <2> QED BY <2>2, <2>3, <2>4
<1> HIDE DEF i, h
<1>3. read[i] = ws[j][1] /\ read[h] = ws[j][2]
  <2>1. read[i] = ws[j][1]
    BY SMTT(30), <1>1, <1>2, ByteThere
  <2>2. read[h] = ws[j][2]
    <3> DEFINE p == 2
    <3>1. p \in 1..Len(ws[j]) /\ h \in 1..Len(read) /\ off + h = base[j] + p
      BY <1>1, <1>2
    <3> HIDE DEF p
    <3>2. read[h] = ws[j][p]
      BY <3>1, ByteThere
    <3> QED BY <3>2 DEF p
  <2> QED BY <2>1, <2>2
<1>4. read[i] = "ff" /\ read[i + 1] = "d8"
  BY <1>1, <1>2, <1>3 DEF Shaped
<1>5. StartIn(read) \in Nat /\ StartIn(read) # 0 /\ StartIn(read) <= i
  BY <1>2, <1>4, StartInRight DEF Context
<1> QED BY <1>1, <1>2, <1>5

(* So is the end of one that was read as a whole.                          *)
LEMMA EndSeen ==
  ASSUME NEW ws, NEW read, NEW rest, NEW base, NEW off, NEW more,
         Context(ws, read, rest, base, off, more), NEW first \in Nat \ {0},
         NEW j \in 1..Len(ws), base[j] + 1 >= off + first, base[j] + Len(ws[j]) <= off + Len(read)
  PROVE  EndIn(read, first + 2) # 0 /\ off + EndIn(read, first + 2) <= base[j] + Len(ws[j]) - 1
<1> DEFINE n == Len(ws[j])
           m == n - 1
           i == base[j] + m - off
           h == base[j] + n - off
           from == first + 2
<1>1. /\ off \in Nat /\ Len(read) \in Nat /\ base[j] \in Nat /\ n \in Nat /\ n >= 4
      /\ Shaped(ws[j]) /\ m \in 1..n /\ n \in 1..n
  BY Lengths, PicturesAre DEF Context
<1>2. /\ i \in from..(Len(read) - 1) /\ i \in 1..Len(read) /\ h \in 1..Len(read) /\ h = i + 1
      /\ off + i = base[j] + m /\ off + h = base[j] + n /\ from \in Nat \ {0}
  <2>1. off \in Int /\ Len(read) \in Int /\ base[j] \in Int /\ n \in Int /\ n >= 4 /\ first \in Nat \ {0}
    BY <1>1
  <2> HIDE DEF n
  <2>2. base[j] + 1 >= off + first /\ base[j] + n <= off + Len(read)
    BY DEF n
  <2>3. i \in from..(Len(read) - 1) /\ i \in 1..Len(read)
    BY SMTT(30), <2>1, <2>2
  <2>4. h \in 1..Len(read) /\ h = i + 1
    BY SMTT(30), <2>1, <2>2
  <2>5. off + i = base[j] + m /\ off + h = base[j] + n
    BY <2>1, <2>2
  <2>6. from \in Nat \ {0}
    BY <2>1
  <2> HIDE DEF i, h, m, from
  <2> QED BY <2>3, <2>4, <2>5, <2>6
<1>3. ws[j][m] = "ff" /\ ws[j][n] = "d9"
  BY <1>1 DEF Shaped
<1> HIDE DEF i, h, m, from
<1>4. read[i] = ws[j][m] /\ read[h] = ws[j][n]
  <2>1. read[i] = ws[j][m]
    BY <1>1, <1>2, ByteThere
  <2>2. read[h] = ws[j][n]
    <3>1. n \in 1..Len(ws[j]) /\ h \in 1..Len(read) /\ off + h = base[j] + n
      BY <1>1, <1>2
    <3> HIDE DEF n
    <3> QED BY <3>1, ByteThere
  <2> QED BY <2>1, <2>2
<1>5. read[i] = "ff" /\ read[i + 1] = "d9"
  BY <1>2, <1>3, <1>4
<1>6. EndIn(read, from) \in Nat /\ EndIn(read, from) # 0 /\ EndIn(read, from) <= i
  BY <1>2, <1>5, EndInRight DEF Context
<1>7. off + EndIn(read, from) <= off + i /\ off + i = base[j] + n - 1
  BY <1>1, <1>2, <1>6 DEF m
<1> QED BY <1>6, <1>7 DEF from

(* The first markers are at s and e.                                       *)
Marked(read, s, e) == s = StartIn(read) /\ s # 0 /\ e = EndIn(read, s + 2) /\ e # 0

(* What lies between the first markers is a picture.                       *)
LEMMA CutIsPicture ==
  ASSUME NEW ws, NEW read, NEW rest, NEW base, NEW off, NEW more,
         Context(ws, read, rest, base, off, more),
         NEW s, NEW e, Marked(read, s, e)
  PROVE  /\ s \in 1..Len(read) /\ e \in s..(Len(read) - 1)
         /\ \E k \in 1..Len(ws) : /\ off + s = base[k] + 1 /\ off + e = base[k] + Len(ws[k]) - 1
                                  /\ SubSeq(read, s, e + 1) = ws[k]
<1>1. off \in Nat /\ Len(read) \in Nat /\ Len(ws) \in Nat /\ read \in Bytes
  BY Lengths DEF Context
<1>2. s \in 1..(Len(read) - 1) /\ read[s] = "ff" /\ read[s + 1] = "d8" /\ s \in Nat \ {0}
  BY <1>1, StartInRight DEF Marked
<1>3. e \in (s + 2)..(Len(read) - 1) /\ read[e] = "ff" /\ read[e + 1] = "d9"
  <2> DEFINE from == s + 2
  <2>1. from \in Nat \ {0}
    BY <1>2
  <2> HIDE DEF from
  <2>2. EndIn(read, from) # 0 => /\ EndIn(read, from) \in from..(Len(read) - 1)
                                 /\ read[EndIn(read, from)] = "ff" /\ read[EndIn(read, from) + 1] = "d9"
    BY <1>1, <2>1, EndInRight
  <2> QED BY <2>2 DEF from, Marked
<1>4. PICK k \in 1..Len(ws) : off + s = base[k] + 1
  BY <1>1, <1>2, MarkerThere
<1>5. PICK j \in 1..Len(ws) : off + e = base[j] + (Len(ws[j]) - 1)
  <2>1. e \in 1..(Len(read) - 1) /\ read[e + 1] \in {"d8", "d9"}
    BY <1>1, <1>2, <1>3
  <2>2. \E j \in 1..Len(ws) : off + e = base[j] + IF read[e + 1] = "d8" THEN 1 ELSE Len(ws[j]) - 1
    BY SMTT(30), <1>3, <2>1, MarkerThere
  <2> QED BY <1>3, <2>2
<1>6. /\ base[k] \in Nat /\ base[j] \in Nat /\ Len(ws[k]) \in Nat /\ Len(ws[k]) >= 4
      /\ Len(ws[j]) \in Nat /\ Len(ws[j]) >= 4
  BY <1>1, Lengths
<1> DEFINE bk == base[k]
           bj == base[j]
           nk == Len(ws[k])
           nj == Len(ws[j])
           all == Len(read)
<1>7. /\ off \in Int /\ all \in Int /\ s \in Int /\ e \in Int /\ bk \in Int /\ bj \in Int
       /\ nk \in Int /\ nj \in Int /\ nk >= 4 /\ nj >= 4
  BY <1>1, <1>2, <1>3, <1>6
<1>8. /\ 1 <= s /\ s + 2 <= e /\ e <= all - 1
       /\ off + s = bk + 1 /\ off + e = bj + (nj - 1)
  <2>1. s + 2 <= e /\ e <= all - 1 /\ 1 <= s
    BY <1>1, <1>2, <1>3
  <2> QED BY <1>4, <1>5, <2>1
<1> HIDE DEF bk, bj, nk, nj, all
<1>9. j = k
  <2>1. ~(j < k)
    <3>1. j < k => bj + nj <= bk
      BY <1>1 DEF Context, Layout, Bases, bj, bk, nj
    <3> QED BY <1>7, <1>8, <3>1
  <2>2. ~(k < j)
    <3> SUFFICES ASSUME k < j PROVE FALSE
      OBVIOUS
    <3>1. bk + nk <= bj
      <4>1. \A h, i \in 1..(Len(ws) + 1) : h < i => base[h] + Len(ws[h]) <= base[i]
        BY DEF Context, Layout, Bases
      <4>2. j \in 1..(Len(ws) + 1) /\ k \in 1..(Len(ws) + 1)
        BY <1>1
      <4> QED BY <4>1, <4>2 DEF bj, bk, nk
    <3>2. bk + 1 >= off + s /\ bk + nk <= off + all
      BY <1>7, <1>8, <3>1
    <3>3. e <= bk + nk - 1 - off
      <4>1. off + EndIn(read, s + 2) <= base[k] + Len(ws[k]) - 1
        <5>1. base[k] + 1 >= off + s /\ base[k] + Len(ws[k]) <= off + Len(read)
          BY <3>2 DEF bk, nk, all
        <5> QED BY <1>2, <5>1, EndSeen
      <4>2. off + e <= bk + nk - 1
        BY <4>1 DEF bk, nk, Marked
      <4> QED BY <1>7, <4>2
    <3> QED BY <1>7, <1>8, <3>1, <3>3
  <2>3. j \in Int /\ k \in Int
    BY <1>1
  <2> QED BY <2>1, <2>2, <2>3
<1>10. /\ e = s + nk - 2 /\ off + e = bk + nk - 1
      /\ \A i \in 1..nk : s + i - 1 \in 1..all /\ off + (s + i - 1) = bk + i
  <2>1. nj = nk /\ bj = bk
    BY <1>9 DEF nj, nk, bj, bk
  <2>2. e = s + nk - 2
    BY <1>7, <1>8, <2>1
  <2>3. ASSUME NEW i \in 1..nk PROVE s + i - 1 \in 1..all /\ off + (s + i - 1) = bk + i
    BY <1>7, <1>8, <2>2
  <2> QED BY <1>7, <1>8, <2>2, <2>3
<1>11. SubSeq(read, s, e + 1) = ws[k]
  <2> DEFINE S == Byte
             cut == SubSeq(read, s, e + 1)
             last == e + 1
  <2>1. last \in Int /\ s <= last /\ last <= all /\ last - s + 1 = nk
    <3>1. last \in Int /\ s <= last /\ last <= all
      BY <1>7, <1>8
    <3>2. last - s + 1 = nk
      BY <1>10, <1>7
    <3> QED BY <3>1, <3>2
  <2>2. read \in Seq(S) /\ ws[k] \in Seq(S)
    BY <1>1, PicturesAre DEF Bytes, Context
  <2>3. cut = SubSeq(read, s, last)
    OBVIOUS
  <2> HIDE DEF S, cut, last
  <2>4. ASSUME NEW i \in s..last PROVE read[i] \in S
    <3>1. i \in 1..all
      BY <1>7, <1>8, <2>1
    <3> QED BY <2>2, <3>1 DEF all
  <2>5. /\ cut \in Seq(S) /\ Len(cut) = IF s <= last THEN last - s + 1 ELSE 0
        /\ \A i \in 1..(last - s + 1) : cut[i] = read[s + i - 1]
    BY <1>7, <2>1, <2>3, <2>4, SubSeqProperties
  <2>6. ASSUME NEW i \in 1..nk PROVE cut[i] = ws[k][i]
    <3> DEFINE h == s + i - 1
    <3>1. cut[i] = read[h]
      BY <2>1, <2>5
    <3>2. h \in 1..all /\ off + h = bk + i
      BY <1>10
    <3> HIDE DEF h
    <3>3. h \in 1..Len(read) /\ i \in 1..Len(ws[k]) /\ off + h = base[k] + i
      BY <3>2 DEF all, bk, nk
    <3> QED BY <3>1, <3>3, ByteThere
  <2>7. cut = ws[k]
    <3>1. Len(cut) = nk /\ Len(ws[k]) = nk
      BY <2>1, <2>5 DEF nk
    <3> QED BY <2>2, <2>5, <2>6, <3>1, SeqEqual
  <2> QED BY <2>7 DEF cut, last
<1>12. s \in 1..Len(read) /\ e \in s..(Len(read) - 1)
  BY <1>7, <1>8 DEF all
<1>13. off + e = base[k] + Len(ws[k]) - 1
  BY <1>10 DEF bk, nk
<1> QED BY <1>4, <1>11, <1>12, <1>13

(* What Encode writes.                                                      *)
LEMMA PictureShaped ==
  ASSUME NEW body \in Bodies
  PROVE  Shaped(View!Picture(body))
<1> DEFINE S == Byte
           soi == <<"ff", "d8">>
           eoi == <<"ff", "d9">>
           n == Len(body)
           w == View!Picture(body)
<1>1. body \in Seq(STRING) /\ \A i \in 1..n : body[i] = "ff" => i < n /\ body[i + 1] = "00"
  BY PictureAssumption, Zenon
<1>2. body \in Seq(S) /\ n \in Nat
  <2> DEFINE D == STRING
  <2>1. body \in Seq(D) /\ D \subseteq S
    BY <1>1 DEF Byte
  <2> HIDE DEF D, S
  <2> QED BY <2>1
<1>3. soi \in Seq(S) /\ eoi \in Seq(S) /\ Len(soi) = 2 /\ Len(eoi) = 2
  <2>1. "ff" \in S /\ "d8" \in S /\ "d9" \in S
    BY DEF Byte
  <2> HIDE DEF S
  <2> QED BY <2>1
<1>4. soi[1] = "ff" /\ soi[2] = "d8" /\ eoi[1] = "ff" /\ eoi[2] = "d9"
  OBVIOUS
<1>5. w = soi \o body \o eoi
  BY DEF View!Picture, View!SOI, View!EOI
<1> HIDE DEF S, soi, eoi, w, n
<1>6. /\ soi \o body \in Seq(S) /\ Len(soi \o body) = n + 2
      /\ \A i \in 1..(n + 2) : (soi \o body)[i] = IF i <= 2 THEN soi[i] ELSE body[i - 2]
  <2>1. /\ soi \o body \in Seq(S) /\ Len(soi \o body) = Len(soi) + Len(body)
        /\ \A i \in 1..(Len(soi) + Len(body)) :
             (soi \o body)[i] = IF i <= Len(soi) THEN soi[i] ELSE body[i - Len(soi)]
    BY <1>2, <1>3, ConcatProperties
  <2>2. Len(soi) = 2 /\ Len(body) = n /\ 2 + n = n + 2
    BY <1>2, <1>3 DEF n
  <2> QED BY <2>1, <2>2
<1>7. /\ w \in Seq(S) /\ Len(w) = n + 4
      /\ \A i \in 1..(n + 4) : w[i] = IF i <= n + 2 THEN (soi \o body)[i] ELSE eoi[i - (n + 2)]
  <2> DEFINE v == soi \o body
  <2>1. v \in Seq(S) /\ Len(v) = n + 2 /\ w = v \o eoi
    BY <1>5, <1>6
  <2> HIDE DEF v
  <2>2. /\ w \in Seq(S) /\ Len(w) = Len(v) + Len(eoi)
        /\ \A i \in 1..(Len(v) + Len(eoi)) : w[i] = IF i <= Len(v) THEN v[i] ELSE eoi[i - Len(v)]
    BY <1>3, <2>1, ConcatProperties
  <2>3. Len(v) + Len(eoi) = n + 4
    BY <1>2, <1>3, <2>1
  <2> QED BY <2>1, <2>2, <2>3 DEF v
<1>8. w[1] = "ff" /\ w[2] = "d8" /\ w[n + 3] = "ff" /\ w[n + 4] = "d9"
  <2>1. w[1] = "ff" /\ w[2] = "d8"
    BY <1>2, <1>4, <1>6, <1>7
  <2>2. w[n + 3] = eoi[1] /\ w[n + 4] = eoi[2]
    <3>1. w[n + 3] = eoi[n + 3 - (n + 2)] /\ w[n + 4] = eoi[n + 4 - (n + 2)]
      BY <1>2, <1>7
    <3> QED BY <1>2, <3>1
  <2> QED BY <1>4, <2>1, <2>2
<1>9. \A i \in 1..n : w[i + 2] = body[i]
  <2> SUFFICES ASSUME NEW i \in 1..n PROVE w[i + 2] = body[i]
    OBVIOUS
  <2> DEFINE h == i + 2
  <2>1. h \in 1..(n + 2) /\ h \in 1..(n + 4) /\ ~(h <= 2) /\ h <= n + 2 /\ h - 2 = i
    BY <1>2
  <2> HIDE DEF h
  <2>2. w[h] = body[h - 2]
    BY <1>6, <1>7, <2>1
  <2> QED BY <2>1, <2>2 DEF h
<1>10. ASSUME NEW p \in 1..(n + 3), w[p] = "ff", w[p + 1] \in {"d8", "d9"}
       PROVE  p = 1 \/ p = n + 3
  <2> SUFFICES ASSUME p # 1, p # n + 3 PROVE FALSE
    OBVIOUS
  <2>1. p # 2
    BY <1>8, <1>10
  <2> DEFINE i == p - 2
  <2>2. i \in 1..n /\ p = i + 2
    BY <1>2, <2>1
  <2> HIDE DEF i
  <2>3. body[i] = "ff"
    BY <1>9, <1>10, <2>2
  <2>4. i < n /\ body[i + 1] = "00"
    BY <1>1, <2>2, <2>3 DEF n
  <2>5. w[i + 1 + 2] = "00"
    BY <1>2, <1>9, <2>2, <2>4
  <2>6. p + 1 = i + 1 + 2
    BY <1>2, <2>2
  <2> QED BY <1>10, <2>5, <2>6
<1>11. Len(w) = n + 4 /\ Len(w) - 1 = n + 3 /\ Len(w) >= 4
  BY <1>2, <1>7
<1>12. \A p \in 1..(n + 3) : w[p] = "ff" /\ w[p + 1] = "d8" => p = 1
  <2>1. w[n + 3 + 1] = "d9"
    BY <1>2, <1>8
  <2> QED BY <1>10, <2>1
<1>13. \A p \in 1..(n + 3) : w[p] = "ff" /\ w[p + 1] = "d9" => p = n + 3
  <2>1. w[1 + 1] = "d8"
    BY <1>8
  <2> QED BY <1>10, <2>1
<1>14. w \in Bytes
  BY <1>7 DEF Bytes, S
<1> QED BY <1>8, <1>11, <1>12, <1>13, <1>14 DEF Shaped, w

(* Fewer bytes, or the same in other parts.                                *)
LEMMA FewerBytes ==
  ASSUME NEW ws, NEW read, NEW rest, NEW base, NEW off, NEW more,
         Context(ws, read, rest, base, off, more),
         NEW read2 \in Bytes, NEW rest2 \in Bytes, NEW more2,
         Len(read2) + Len(rest2) <= Len(read) + Len(rest),
         more2 => more /\ Len(read2) + Len(rest2) = Len(read) + Len(rest),
         \A i \in 1..(Len(read2) + Len(rest2)) : ByteOf(read2, rest2, i) = ByteOf(read, rest, i)
  PROVE  Layout(ws, read2, rest2, base, off, more2)
<1>1. /\ off \in Nat /\ Len(read) \in Nat /\ Len(rest) \in Nat /\ Len(ws) \in Nat
      /\ Len(read2) \in Nat /\ Len(rest2) \in Nat /\ base[Len(ws) + 1] \in Nat
  BY Lengths, BytesLen
<1>2. ASSUME NEW i \in 1..(Len(read2) + Len(rest2))
      PROVE  \E k \in 1..Len(ws) : \E p \in 1..Len(ws[k]) :
               off + i = base[k] + p /\ ByteOf(read2, rest2, i) = ws[k][p]
  <2>1. i \in 1..(Len(read) + Len(rest)) /\ ByteOf(read2, rest2, i) = ByteOf(read, rest, i)
    BY <1>1
  <2> QED BY <2>1 DEF Context, Layout
<1>3. off + Len(read2) + Len(rest2) <= base[Len(ws) + 1]
  <2>1. off + Len(read) + Len(rest) <= base[Len(ws) + 1]
    BY DEF Context, Layout
  <2> QED BY <1>1, <2>1
<1>4. more2 => off + Len(read2) + Len(rest2) = base[Len(ws) + 1]
  <2>1. more => off + Len(read) + Len(rest) = base[Len(ws) + 1]
    BY DEF Context, Layout
  <2> QED BY <1>1, <2>1
<1> QED BY <1>1, <1>2, <1>3, <1>4 DEF Context, Layout

(* No picture that could be cut out begins in what is dealt with.          *)
LEMMA NoneCut ==
  ASSUME NEW ws, NEW c, NEW base, NEW off \in Nat, NEW at, NEW off2 \in Nat,
         Pictures(ws), Bases(ws, base), Len(c) \in Nat, Cutout(ws, c, base, off, at), off <= off2,
         \A k \in 1..Len(ws) : Len(ws[k]) <= MaxBuffer /\ base[k] >= off => base[k] >= off2
  PROVE  Cutout(ws, c, base, off2, at)
<1>1. ASSUME NEW i \in 1..Len(c)
      PROVE  base[at[i]] + Len(ws[at[i]]) <= off2
  <2>1. at[i] \in 1..Len(ws) /\ base[at[i]] + Len(ws[at[i]]) <= off
    BY DEF Cutout
  <2>2. base[at[i]] \in Nat /\ Len(ws[at[i]]) \in Nat
    BY <2>1, PicturesAre DEF Bases
  <2> QED BY <2>1, <2>2
<1> QED BY <1>1 DEF Cutout

(* A picture joins the others at the end.                                  *)
LEMMA Joined ==
  ASSUME NEW ws, NEW read, NEW rest, NEW base, NEW off, NEW c, NEW at,
         Context(ws, read, rest, base, off, TRUE), Len(c) \in Nat, Cutout(ws, c, base, off, at),
         NEW w, Shaped(w)
  PROVE  \E base2 : /\ Pictures(Append(ws, w)) /\ rest \o w \in Bytes
                    /\ Layout(Append(ws, w), read, rest \o w, base2, off, TRUE)
                    /\ Cutout(Append(ws, w), c, base2, off, at)
<1> DEFINE n == Len(ws)
           m == Len(w)
           ws2 == Append(ws, w)
           rest2 == rest \o w
           base2 == [k \in 1..(n + 2) |-> IF k <= n + 1 THEN base[k] ELSE base[n + 1] + m]
<1>1. /\ n \in Nat /\ off \in Nat /\ Len(read) \in Nat /\ Len(rest) \in Nat /\ m \in Nat /\ m >= 4
      /\ w \in Bytes /\ rest \in Bytes /\ ws \in Seq(Bytes)
  BY Lengths, BytesLen DEF Context, Shaped, Pictures
<1>2. ws2 \in Seq(Bytes) /\ Len(ws2) = n + 1 /\ ws2[n + 1] = w /\ \A k \in 1..n : ws2[k] = ws[k]
  BY <1>1, AppendProperties
<1>3. /\ rest2 \in Bytes /\ Len(rest2) = Len(rest) + m
      /\ \A i \in 1..(Len(rest) + m) : rest2[i] = IF i <= Len(rest) THEN rest[i] ELSE w[i - Len(rest)]
  BY <1>1, ConcatProperties DEF Bytes
<1>4. /\ \A k \in 1..(n + 1) : base2[k] = base[k] /\ base[k] \in Nat
      /\ base2[n + 2] = base[n + 1] + m
      /\ base2 \in [1..(n + 2) -> Nat]
  <2> HIDE DEF n, m
  <2>1. \A k \in 1..(n + 1) : base[k] \in Nat
    BY Lengths DEF n
  <2>2. \A k \in 1..(n + 1) : base2[k] = base[k]
    BY <1>1
  <2>3. base2[n + 2] = base[n + 1] + m
    BY <1>1
  <2>4. \A k \in 1..(n + 2) : (IF k <= n + 1 THEN base[k] ELSE base[n + 1] + m) \in Nat
    BY <1>1, <2>1
  <2> QED BY <2>1, <2>2, <2>3, <2>4
<1> HIDE DEF n, m, ws2, rest2, base2
<1>5. Pictures(ws2)
  <2>1. ASSUME NEW k \in 1..(n + 1) PROVE Shaped(ws2[k])
    <3>1. k = n + 1 \/ k \in 1..n
      BY <1>1
    <3> QED BY <1>2, <3>1, PicturesAre DEF Context, n
  <2> QED BY <1>2, <2>1 DEF Pictures
<1>6. Bases(ws2, base2)
  <2>1. ASSUME NEW j \in 1..(n + 2), NEW k \in 1..(n + 2), j < k
        PROVE  base2[j] + Len(ws2[j]) <= base2[k]
    <3>1. j \in 1..(n + 1) /\ base2[j] = base[j] /\ base[j] \in Nat
      BY <1>1, <1>4, <2>1
    <3>2. CASE k \in 1..(n + 1)
      <4>1. j \in 1..n /\ ws2[j] = ws[j] /\ base2[k] = base[k]
        BY <1>1, <1>2, <1>4, <2>1, <3>2
      <4>2. base[j] + Len(ws[j]) <= base[k]
        BY <2>1, <3>1, <3>2 DEF Context, Layout, Bases, n
      <4> QED BY <3>1, <4>1, <4>2
    <3>3. CASE k = n + 2 /\ j \in 1..n
      <4>1. base[j] + Len(ws[j]) <= base[n + 1] /\ Len(ws[j]) \in Nat /\ ws2[j] = ws[j]
        BY <1>2, <3>3, Lengths DEF n
      <4>2. base[n + 1] \in Nat
        BY <1>1, <1>4
      <4> QED BY SMTT(30), <1>1, <1>4, <3>1, <3>3, <4>1, <4>2
    <3>4. CASE k = n + 2 /\ j = n + 1
      BY <1>2, <1>4, <3>1, <3>4 DEF m
    <3>5. k \in 1..(n + 1) \/ (k = n + 2 /\ j \in 1..n) \/ (k = n + 2 /\ j = n + 1)
      BY <1>1, <3>1
    <3> QED BY <3>2, <3>3, <3>4, <3>5
  <2>2. Len(ws2) + 1 = n + 2
    BY <1>1, <1>2
  <2> QED BY <1>4, <2>1, <2>2 DEF Bases
<1>7. off + Len(read) + Len(rest) = base[n + 1]
  BY DEF Context, Layout, n
<1>8. ASSUME NEW i \in 1..(Len(read) + Len(rest2))
      PROVE  \E k \in 1..Len(ws2) : \E p \in 1..Len(ws2[k]) :
               off + i = base2[k] + p /\ ByteOf(read, rest2, i) = ws2[k][p]
  <2>1. CASE i <= Len(read) + Len(rest)
    <3>1. PICK k \in 1..n : \E p \in 1..Len(ws[k]) :
            off + i = base[k] + p /\ ByteOf(read, rest, i) = ws[k][p]
      <4>1. i \in 1..(Len(read) + Len(rest))
        BY <1>1, <1>3, <2>1
      <4> QED BY <4>1 DEF Context, Layout, n
    <3>2. k \in 1..Len(ws2) /\ ws2[k] = ws[k] /\ base2[k] = base[k]
      BY <1>1, <1>2, <1>4
    <3>3. ByteOf(read, rest2, i) = ByteOf(read, rest, i)
      BY <1>1, <1>3, <2>1 DEF ByteOf
    <3> QED BY <3>1, <3>2, <3>3
  <2>2. CASE i > Len(read) + Len(rest)
    <3> DEFINE k == n + 1
               p == i - Len(read) - Len(rest)
    <3>1. k \in 1..Len(ws2) /\ ws2[k] = w /\ base2[k] = base[n + 1]
      BY <1>1, <1>2, <1>4
    <3>2. p \in 1..m /\ i - Len(read) - Len(rest) = p /\ i - Len(read) \in 1..(Len(rest) + m)
          /\ ~(i <= Len(read)) /\ ~(i - Len(read) <= Len(rest))
      BY <1>1, <1>3, <2>2
    <3>3. off + i = base[n + 1] + p
      BY <1>1, <1>3, <1>7
    <3> HIDE DEF k, p
    <3>4. ByteOf(read, rest2, i) = w[p]
      BY <1>3, <3>2 DEF ByteOf
    <3> QED BY <3>1, <3>2, <3>3, <3>4 DEF m
  <2> QED BY <1>1, <1>3, <2>1, <2>2
<1>9. Layout(ws2, read, rest2, base2, off, TRUE)
  <2>1. off + Len(read) + Len(rest2) = base[n + 1] + m /\ base[n + 1] + m \in Nat
    BY <1>1, <1>3, <1>4, <1>7
  <2>2. base2[Len(ws2) + 1] = base[n + 1] + m
    <3>1. Len(ws2) + 1 = n + 2
      BY <1>1, <1>2
    <3> QED BY <1>4, <3>1
  <2>3. off + Len(read) + Len(rest2) <= base2[Len(ws2) + 1]
    BY <2>1, <2>2
  <2> QED BY <1>1, <1>6, <1>8, <2>1, <2>2, <2>3 DEF Layout
<1>10. Cutout(ws2, c, base2, off, at)
  <2>1. \A k \in 1..n : ws2[k] = ws[k] /\ base2[k] = base[k] /\ k \in 1..Len(ws2)
    BY SMTT(30), <1>1, <1>2, <1>4
  <2>2. at \in [1..Len(c) -> 1..Len(ws2)] /\ \A i \in 1..Len(c) : at[i] \in 1..n
    BY <2>1 DEF Cutout, n
  <2>3. \A i \in 1..Len(c) : c[i] = ws2[at[i]] /\ base2[at[i]] + Len(ws2[at[i]]) <= off
    BY <2>1, <2>2 DEF Cutout
  <2>4. ASSUME NEW k \in 1..Len(ws2), Len(ws2[k]) <= MaxBuffer
        PROVE  base2[k] >= off \/ \E i \in 1..Len(c) : at[i] = k
    <3>1. CASE k \in 1..n
      BY <2>1, <2>4, <3>1 DEF Cutout, n
    <3>2. CASE k = n + 1
      <4>1. base2[k] = off + Len(read) + Len(rest)
        BY <1>1, <1>4, <1>7, <3>2
      <4> QED BY <1>1, <4>1
    <3> QED BY <1>1, <1>2, <3>1, <3>2
  <2> QED BY <2>2, <2>3, <2>4 DEF Cutout
<1> QED BY <1>3, <1>5, <1>9, <1>10 DEF ws2, rest2

(* Nothing begins in what was read, and all of it but the last byte is     *)
(* dropped.                                                                *)
LEMMA LastByteKept ==
  ASSUME NEW ws, NEW read, NEW rest, NEW base, NEW off, NEW more, NEW c, NEW at,
         Context(ws, read, rest, base, off, more), Len(c) \in Nat, Cutout(ws, c, base, off, at),
         StartIn(read) = 0, Len(read) > 0
  PROVE  LET left == View!From(read, Len(read)) IN
         /\ left \in Bytes /\ StartIn(left) = 0
         /\ \E off2 \in Nat : Layout(ws, left, rest, base, off2, more) /\ Cutout(ws, c, base, off2, at)
<1> DEFINE n == Len(read) - 1
           left == View!From(read, n + 1)
           off2 == off + n
<1>1. /\ off \in Nat /\ Len(read) \in Nat /\ n \in 0..Len(read) /\ n + 1 = Len(read) /\ off2 \in Nat
  BY Lengths
<1> HIDE DEF n
<1>2. /\ left \in Bytes /\ Len(left) = Len(read) - n
      /\ Layout(ws, left, rest, base, off2, more)
  BY <1>1, DealtWith
<1> HIDE DEF left
<1>3. StartIn(left) = 0
  BY <1>1, <1>2, StartInRight
<1>4. ASSUME NEW k \in 1..Len(ws), base[k] >= off PROVE base[k] >= off2
  <2>1. base[k] \in Nat /\ ~(base[k] + 2 <= off + Len(read))
    BY <1>1, <1>4, Lengths, StartSeen
  <2> QED BY <1>1, <2>1
<1>5. Cutout(ws, c, base, off2, at)
  <2>1. off <= off2
    BY <1>1
  <2> HIDE DEF off2
  <2>2. Pictures(ws) /\ Bases(ws, base)
    BY DEF Context, Layout
  <2> QED BY <1>1, <1>4, <2>1, <2>2, NoneCut
<1> QED BY <1>1, <1>2, <1>3, <1>5 DEF left

(* Nothing but pictures already cut out begins before the first marker.    *)
LEMMA FromStart ==
  ASSUME NEW ws, NEW read, NEW rest, NEW base, NEW off, NEW more,
         Context(ws, read, rest, base, off, more), NEW s, s = StartIn(read), s # 0,
         NEW k \in 1..Len(ws), base[k] >= off
  PROVE  base[k] + 1 >= off + s
<1>1. /\ off \in Nat /\ Len(read) \in Nat /\ base[k] \in Nat /\ s \in Nat /\ s <= Len(read) - 1
  BY Lengths, StartInRight DEF Context
<1>2. base[k] + 2 <= off + Len(read) => off + s <= base[k] + 1
  BY StartSeen
<1> QED BY <1>1, <1>2

Begun(read, s) == s = StartIn(read) /\ s # 0 /\ EndIn(read, s + 2) = 0

(* A picture has begun and not ended, and what is before it is dropped.    *)
LEMMA BegunKept ==
  ASSUME NEW ws, NEW read, NEW rest, NEW base, NEW off, NEW more, NEW c, NEW at,
         Context(ws, read, rest, base, off, more), Len(c) \in Nat, Cutout(ws, c, base, off, at),
         NEW s, Begun(read, s)
  PROVE  LET left == View!From(read, s) IN
         /\ left \in Bytes /\ Len(left) = Len(read) - s + 1 /\ NoneWhole(left)
         /\ \E off2 \in Nat : Layout(ws, left, rest, base, off2, more) /\ Cutout(ws, c, base, off2, at)
<1> DEFINE n == s - 1
           left == View!From(read, n + 1)
           off2 == off + n
<1>1. /\ off \in Nat /\ Len(read) \in Nat /\ read \in Bytes /\ s \in Nat \ {0} /\ s <= Len(read) - 1
      /\ n \in 0..Len(read) /\ n + 1 = s /\ off2 \in Nat
  BY Lengths, StartInRight DEF Context, Begun
<1> HIDE DEF n
<1>2. /\ left \in Bytes /\ Len(left) = Len(read) - n
      /\ \A i \in 1..Len(left) : left[i] = read[n + i]
      /\ Layout(ws, left, rest, base, off2, more)
  BY <1>1, DealtWith
<1> HIDE DEF left
<1>3. ASSUME NEW k \in 1..Len(ws), base[k] >= off PROVE base[k] >= off2
  <2>1. base[k] \in Nat /\ base[k] + 1 >= off + s
    BY <1>3, Lengths, FromStart DEF Begun
  <2> QED BY <1>1, <2>1
<1>4. Cutout(ws, c, base, off2, at)
  <2>1. off <= off2
    BY <1>1
  <2> HIDE DEF off2
  <2>2. Pictures(ws) /\ Bases(ws, base)
    BY DEF Context, Layout
  <2> QED BY <1>1, <1>3, <2>1, <2>2, NoneCut
<1>5. NoneWhole(left)
  <2> DEFINE s2 == StartIn(left)
             from == s2 + 2
             e == EndIn(left, from)
             h == n + e
  <2> SUFFICES ASSUME s2 # 0, e # 0 PROVE FALSE
    BY DEF NoneWhole
  <2>1. s2 \in Nat
    BY <1>2, StartInRight
  <2>2. from \in Nat \ {0} /\ from >= 3
    BY <2>1
  <2> HIDE DEF s2, from
  <2>3. e \in from..(Len(left) - 1) /\ left[e] = "ff" /\ left[e + 1] = "d9"
    BY <1>2, <2>2, EndInRight
  <2> HIDE DEF e
  <2>4. e \in 1..Len(left) /\ e + 1 \in 1..Len(left) /\ n + (e + 1) = h + 1
    BY <1>1, <1>2, <2>2, <2>3
  <2>5. h \in (s + 2)..(Len(read) - 1)
    BY <1>1, <1>2, <2>2, <2>3
  <2>6. read[h] = "ff" /\ read[n + (e + 1)] = "d9"
    BY <1>2, <2>3, <2>4
  <2> HIDE DEF h
  <2>7. read[h + 1] = "d9"
    BY <2>4, <2>6
  <2> DEFINE f == s + 2
  <2>8. f \in Nat \ {0} /\ EndIn(read, f) = 0 /\ h \in f..(Len(read) - 1)
    BY <1>1, <2>5 DEF Begun
  <2> HIDE DEF f
  <2> QED BY <1>1, <2>6, <2>7, <2>8, EndInRight
<1>6. Len(left) = Len(read) - s + 1
  <2>1. Len(left) = Len(read) - n
    BY <1>2
  <2>2. n \in Int /\ n = s - 1 /\ s \in Int /\ Len(read) \in Int
    BY <1>1
  <2> QED BY <2>1, <2>2
<1> QED BY <1>1, <1>2, <1>4, <1>5, <1>6 DEF left

(* It is larger than the buffer, and dropped.                              *)
LEMMA BegunDropped ==
  ASSUME NEW ws, NEW read, NEW rest, NEW base, NEW off, NEW more, NEW c, NEW at,
         Context(ws, read, rest, base, off, more), Len(c) \in Nat, Cutout(ws, c, base, off, at),
         NEW s, Begun(read, s), Len(read) - s + 1 > MaxBuffer
  PROVE  \E off2 \in Nat : Layout(ws, <<>>, rest, base, off2, more) /\ Cutout(ws, c, base, off2, at)
<1> DEFINE n == Len(read)
           left == View!From(read, n + 1)
           off2 == off + n
<1>1. /\ off \in Nat /\ n \in Nat /\ read \in Bytes /\ s \in Nat \ {0} /\ s \in 1..(n - 1)
      /\ off2 \in Nat /\ Len(ws) \in Nat /\ MaxBuffer \in Nat
  BY Lengths, StartInRight, PictureAssumption DEF Context, Begun
<1>2. n - s + 1 > MaxBuffer /\ n \in 0..Len(read) /\ Len(read) = n
  BY <1>1
<1> HIDE DEF n
<1>3. left = <<>> /\ Layout(ws, left, rest, base, off2, more)
  <2>1. left \in Bytes /\ Len(left) = Len(read) - n /\ Layout(ws, left, rest, base, off2, more)
    BY <1>2, DealtWith
  <2> HIDE DEF left
  <2>2. left \in Seq(Byte) /\ Len(left) = 0
    BY <1>1, <1>2, <2>1 DEF Bytes
  <2> QED BY <2>1, <2>2
<1> HIDE DEF left
<1>4. read[s] = "ff" /\ read[s + 1] = "d8"
  BY <1>1, StartInRight DEF Begun
<1>5. PICK j \in 1..Len(ws) : off + s = base[j] + 1
  <2>1. s \in 1..(Len(read) - 1) /\ read[s + 1] \in {"d8", "d9"}
    BY <1>1, <1>2, <1>4
  <2>2. \E k \in 1..Len(ws) : off + s = base[k] + IF read[s + 1] = "d8" THEN 1 ELSE Len(ws[k]) - 1
    BY <1>4, <2>1, MarkerThere
  <2> QED BY <1>4, <2>2
<1> DEFINE bj == base[j]
           end == base[j] + Len(ws[j])
<1>6. bj \in Nat /\ Len(ws[j]) \in Nat /\ end \in Nat /\ end = bj + Len(ws[j]) /\ off + s = bj + 1
  BY <1>5, Lengths
<1>7. ~(end <= off + n)
  <2> SUFFICES ASSUME end <= off + n PROVE FALSE
    OBVIOUS
  <2>1. base[j] + 1 >= off + s
    BY <1>1, <1>5, <1>6
  <2>2. base[j] + Len(ws[j]) <= off + Len(read)
    BY <1>2
  <2> QED BY <1>1, <2>1, <2>2, EndSeen DEF Begun
<1> HIDE DEF bj, end
<1>8. ASSUME NEW k \in 1..Len(ws), Len(ws[k]) <= MaxBuffer, base[k] >= off PROVE base[k] >= off2
  <2> DEFINE bk == base[k]
             nk == Len(ws[k])
  <2>1. bk \in Nat /\ nk \in Nat /\ nk >= 4 /\ nk <= MaxBuffer
    BY <1>8, Lengths
  <2>2. bk + 1 >= off + s
    BY <1>8, FromStart DEF Begun
  <2>3. /\ j < k => end <= bk
        /\ k < j => bk + nk <= bj
    <3>1. \A h, i \in 1..(Len(ws) + 1) : h < i => base[h] + Len(ws[h]) <= base[i]
      BY DEF Context, Layout, Bases
    <3>2. j \in 1..(Len(ws) + 1) /\ k \in 1..(Len(ws) + 1)
      BY <1>1
    <3> QED BY <3>1, <3>2 DEF end, bj
  <2>4. k = j => end = bk + nk /\ bj = bk
    BY DEF end, bj
  <2>5. k = j \/ j < k \/ k < j
    BY <1>1
  <2> HIDE DEF bk, nk
  <2>6. k # j
    BY <1>1, <1>2, <1>6, <1>7, <2>1, <2>4
  <2>7. ~(k < j)
    BY <1>1, <1>6, <2>1, <2>2, <2>3
  <2>8. bk >= off + n
    BY <1>1, <1>6, <1>7, <2>1, <2>3, <2>5, <2>6, <2>7
  <2> QED BY <2>8 DEF bk
<1>9. Cutout(ws, c, base, off2, at)
  <2>1. off <= off2
    BY <1>1
  <2> HIDE DEF off2
  <2>2. Pictures(ws) /\ Bases(ws, base)
    BY DEF Context, Layout
  <2> QED BY <1>1, <1>8, <2>1, <2>2, NoneCut
<1> QED BY <1>1, <1>3, <1>9

(* The picture between the first markers is cut out.                       *)
LEMMA OneMore ==
  ASSUME NEW ws, NEW read, NEW rest, NEW base, NEW off, NEW more, NEW c, NEW at,
         Context(ws, read, rest, base, off, more), c \in Seq(Bytes), Cutout(ws, c, base, off, at),
         NEW s, NEW e, Marked(read, s, e)
  PROVE  LET left == View!From(read, e + 2)
             w == SubSeq(read, s, e + 1)
         IN  /\ left \in Bytes /\ w \in Bytes
             /\ \E off2 \in Nat : \E at2 : /\ Layout(ws, left, rest, base, off2, more)
                                           /\ Cutout(ws, Append(c, w), base, off2, at2)
<1> DEFINE n == e + 1
           w == SubSeq(read, s, n)
           left == View!From(read, n + 1)
           c2 == Append(c, w)
           m == Len(c)
           off2 == off + n
<1>1. /\ off \in Nat /\ Len(read) \in Nat /\ Len(ws) \in Nat /\ m \in Nat
      /\ s \in 1..Len(read) /\ e \in s..(Len(read) - 1)
  BY CutIsPicture, Lengths
<1>2. PICK k \in 1..Len(ws) : /\ off + s = base[k] + 1 /\ off + e = base[k] + Len(ws[k]) - 1
                               /\ w = ws[k]
  BY CutIsPicture
<1> HIDE DEF w
<1>3. n \in 0..Len(read) /\ n + 1 = e + 2 /\ off2 \in Nat
  BY <1>1
<1> DEFINE bk == base[k]
           nk == Len(ws[k])
<1>4. /\ bk \in Nat /\ nk \in Nat /\ nk >= 4 /\ ws[k] \in Bytes
      /\ off + s = bk + 1 /\ off2 = bk + nk /\ off <= bk /\ off <= off2
  <2>1. bk \in Nat /\ nk \in Nat /\ nk >= 4 /\ ws[k] \in Bytes
    BY Lengths
  <2>2. off + s = bk + 1 /\ off + e = bk + nk - 1
    BY <1>2
  <2> HIDE DEF bk, nk
  <2>3. off2 = bk + nk
    BY <1>1, <2>1, <2>2
  <2>4. off <= bk
    BY <1>1, <2>1, <2>2
  <2> QED BY <1>1, <2>1, <2>2, <2>3, <2>4
<1> HIDE DEF n, off2, bk, nk
<1>5. left \in Bytes /\ Layout(ws, left, rest, base, off2, more)
  BY <1>3, DealtWith DEF off2
<1>6. \A h, i \in 1..(Len(ws) + 1) : h < i => base[h] + Len(ws[h]) <= base[i]
  BY DEF Context, Layout, Bases
<1> DEFINE at2 == [i \in 1..(m + 1) |-> IF i <= m THEN at[i] ELSE k]
<1>7. /\ c2 \in Seq(Bytes) /\ Len(c2) = m + 1 /\ c2[m + 1] = ws[k]
      /\ \A i \in 1..m : c2[i] = c[i]
  BY <1>2, <1>4, AppendProperties
<1>8. /\ \A i \in 1..m : at2[i] = at[i] /\ at[i] \in 1..Len(ws)
      /\ at2[m + 1] = k
      /\ at2 \in [1..(m + 1) -> 1..Len(ws)]
  <2> HIDE DEF m
  <2>1. \A i \in 1..m : at[i] \in 1..Len(ws)
    BY DEF Cutout, m
  <2>2. \A i \in 1..m : at2[i] = at[i]
    BY <1>1
  <2>3. at2[m + 1] = k
    BY <1>1
  <2>4. \A i \in 1..(m + 1) : (IF i <= m THEN at[i] ELSE k) \in 1..Len(ws)
    BY <1>1, <2>1
  <2> QED BY <2>1, <2>2, <2>3, <2>4
<1> HIDE DEF c2, m, at2, left
<1>9. ASSUME NEW i \in 1..m
      PROVE  /\ c2[i] = ws[at[i]] /\ base[at[i]] + Len(ws[at[i]]) <= off2 /\ at[i] < k
  <2> DEFINE j == at[i]
             bj == base[j]
             nj == Len(ws[j])
  <2>1. c[i] = ws[j] /\ bj + nj <= off /\ j \in 1..Len(ws)
    BY <1>8 DEF Cutout, m
  <2>2. bj \in Nat /\ nj \in Nat /\ nj >= 4
    BY <2>1, Lengths
  <2>3. k < j => bk + nk <= bj
    <3>1. j \in 1..(Len(ws) + 1) /\ k \in 1..(Len(ws) + 1)
      BY <1>1, <2>1
    <3> QED BY <1>6, <3>1 DEF bk, nk
  <2>4. j = k => bj = bk
    BY DEF bk
  <2> HIDE DEF j, bj, nj
  <2>5. bj + nj <= off2 /\ ~(k < j) /\ j # k
    BY <1>1, <1>4, <2>1, <2>2, <2>3, <2>4
  <2>6. j < k
    BY <1>1, <2>1, <2>5
  <2>7. c2[i] = ws[j]
    BY <1>7, <2>1
  <2> QED BY <2>5, <2>6, <2>7 DEF j, bj, nj
<1>10. ASSUME NEW h \in 1..Len(ws), Len(ws[h]) <= MaxBuffer
       PROVE  base[h] >= off2 \/ \E i \in 1..(m + 1) : at2[i] = h
  <2> DEFINE bh == base[h]
  <2>1. bh \in Nat
    BY Lengths
  <2>2. CASE bh < off
    <3>1. \E i \in 1..m : at[i] = h
      BY <1>1, <1>10, <2>1, <2>2 DEF Cutout, m
    <3> QED BY <1>1, <1>8, <3>1
  <2>3. CASE bh >= off
    <3>1. bh + 1 >= off + s
      BY <2>3, FromStart DEF Marked
    <3>2. /\ k < h => bk + nk <= bh
          /\ h < k => bh + Len(ws[h]) <= bk
      <4>1. h \in 1..(Len(ws) + 1) /\ k \in 1..(Len(ws) + 1)
        BY <1>1
      <4> QED BY <1>6, <4>1 DEF bk, nk
    <3>3. Len(ws[h]) \in Nat /\ Len(ws[h]) >= 4
      BY Lengths
    <3> HIDE DEF bh
    <3>4. ~(h < k)
      BY <1>1, <1>4, <2>1, <3>1, <3>2, <3>3
    <3>5. k < h \/ k = h
      BY <1>1, <3>4
    <3>6. CASE k < h
      BY <1>4, <3>2, <3>6 DEF bh
    <3>7. CASE k = h
      BY <1>1, <1>8, <3>7
    <3> QED BY <3>5, <3>6, <3>7
  <2> QED BY <1>1, <2>1, <2>2, <2>3
<1>11. Cutout(ws, c2, base, off2, at2)
  <2>1. ASSUME NEW i \in 1..(m + 1)
        PROVE  c2[i] = ws[at2[i]] /\ base[at2[i]] + Len(ws[at2[i]]) <= off2
    <3>1. CASE i \in 1..m
      BY <1>8, <1>9, <3>1
    <3>2. CASE i = m + 1
      <4>1. base[k] + Len(ws[k]) <= off2
        BY <1>4 DEF bk, nk
      <4> QED BY <1>7, <1>8, <3>2, <4>1
    <3> QED BY <1>1, <3>1, <3>2
  <2>2. ASSUME NEW i \in 1..(m + 1), NEW j \in 1..(m + 1), i < j
        PROVE  at2[i] < at2[j]
    <3>1. i \in 1..m
      BY <1>1, <2>2
    <3>2. CASE j \in 1..m
      <4>1. at[i] < at[j]
        BY <2>2, <3>1, <3>2 DEF Cutout, m
      <4> QED BY <1>8, <3>1, <3>2, <4>1
    <3>3. CASE j = m + 1
      BY <1>8, <1>9, <3>1, <3>3
    <3> QED BY <1>1, <3>2, <3>3
  <2> QED BY <1>7, <1>8, <1>10, <2>1, <2>2 DEF Cutout
<1>12. w \in Bytes /\ View!From(read, e + 2) = left /\ SubSeq(read, s, e + 1) = w
  BY <1>2, <1>3, <1>4 DEF left, w, n
<1> QED BY <1>3, <1>5, <1>11, <1>12 DEF c2

-----------------------------------------------------------------------------
(* The steps.                                                              *)

LEMMA Moved ==
  ASSUME NEW read \in Bytes, NEW rest \in Bytes, NEW n \in 1..Len(rest)
  PROVE  LET read2 == read \o SubSeq(rest, 1, n)
             rest2 == View!From(rest, n + 1)
         IN  /\ read2 \in Bytes /\ rest2 \in Bytes
             /\ Len(read2) + Len(rest2) = Len(read) + Len(rest)
             /\ \A i \in 1..(Len(read) + Len(rest)) : ByteOf(read2, rest2, i) = ByteOf(read, rest, i)
<1> DEFINE S == Byte
           first == SubSeq(rest, 1, n)
           read2 == read \o first
           rest2 == View!From(rest, n + 1)
<1>1. read \in Seq(S) /\ rest \in Seq(S) /\ n \in Nat /\ Len(read) \in Nat /\ Len(rest) \in Nat /\ n <= Len(rest)
  BY BytesLen DEF Bytes
<1> HIDE DEF S
<1>2. first \in Seq(S) /\ Len(first) = n /\ \A i \in 1..n : first[i] = rest[i]
  <2>1. \A i \in 1..n : rest[i] \in S
    BY <1>1
  <2> HIDE DEF first
  <2>2. /\ first \in Seq(S) /\ Len(first) = IF 1 <= n THEN n - 1 + 1 ELSE 0
        /\ \A i \in 1..(n - 1 + 1) : first[i] = rest[1 + i - 1]
    BY <1>1, <2>1, SubSeqProperties DEF first
  <2>3. ASSUME NEW i \in 1..n PROVE first[i] = rest[i]
    <3>1. 1 + i - 1 = i /\ i \in 1..(n - 1 + 1)
      BY <1>1
    <3> QED BY <2>2, <3>1
  <2>4. Len(first) = n
    BY <1>1, <2>2
  <2> QED BY <2>2, <2>3, <2>4
<1> HIDE DEF first
<1>3. /\ read2 \in Seq(S) /\ Len(read2) = Len(read) + n
      /\ \A i \in 1..(Len(read) + n) : read2[i] = IF i <= Len(read) THEN read[i] ELSE first[i - Len(read)]
  BY <1>1, <1>2, ConcatProperties
<1>4. /\ rest2 \in Seq(S) /\ Len(rest2) = Len(rest) - n
      /\ \A i \in 1..(Len(rest) - n) : rest2[i] = rest[n + i]
  <2>1. \A i \in (n + 1)..Len(rest) : rest[i] \in S
    BY <1>1
  <2>2. rest2 = SubSeq(rest, n + 1, Len(rest))
    BY DEF View!From
  <2> HIDE DEF rest2
  <2>3. /\ rest2 \in Seq(S) /\ Len(rest2) = IF n + 1 <= Len(rest) THEN Len(rest) - (n + 1) + 1 ELSE 0
        /\ \A i \in 1..(Len(rest) - (n + 1) + 1) : rest2[i] = rest[n + 1 + i - 1]
    BY <1>1, <2>1, <2>2, SubSeqProperties
  <2>4. ASSUME NEW i \in 1..(Len(rest) - n) PROVE rest2[i] = rest[n + i]
    <3>1. n + 1 + i - 1 = n + i /\ i \in 1..(Len(rest) - (n + 1) + 1)
      BY <1>1
    <3> QED BY <2>3, <3>1
  <2>5. Len(rest2) = Len(rest) - n
    BY <1>1, <2>3
  <2> QED BY <2>3, <2>4, <2>5
<1> HIDE DEF read2, rest2
<1>5. ASSUME NEW i \in 1..(Len(read) + Len(rest)) PROVE ByteOf(read2, rest2, i) = ByteOf(read, rest, i)
  <2>1. CASE i <= Len(read)
    BY <1>1, <1>3, <2>1 DEF ByteOf
  <2>2. CASE ~(i <= Len(read)) /\ i <= Len(read) + n
    <3>1. i - Len(read) \in 1..n
      BY <1>1, <2>2
    <3> QED BY <1>1, <1>2, <1>3, <2>2, <3>1 DEF ByteOf
  <2>3. CASE ~(i <= Len(read) + n)
    <3> DEFINE h == i - Len(read) - n
    <3>1. /\ h \in 1..(Len(rest) - n) /\ i - (Len(read) + n) = h /\ n + h = i - Len(read)
          /\ ~(i <= Len(read))
      BY <1>1, <2>3
    <3> HIDE DEF h
    <3> QED BY <1>3, <1>4, <2>3, <3>1 DEF ByteOf
  <2> QED BY <2>1, <2>2, <2>3
<1>6. Len(read2) + Len(rest2) = Len(read) + Len(rest)
  BY <1>1, <1>3, <1>4
<1> QED BY <1>3, <1>4, <1>5, <1>6 DEF read2, rest2, first, S, Bytes

(* ViewInv with its witnesses.                                             *)
Seen(base, off, at) ==
  /\ off \in Nat
  /\ Context(written, buf, pipe, base, off, ffmpeg)
  /\ View!Cut \in Seq(Bytes) /\ Len(View!Cut) \in Nat
  /\ Cutout(written, View!Cut, base, off, at)

LEMMA ViewIs ==
  ASSUME ViewInv
  PROVE  ViewTyped /\ AllCut /\ \E base, off, at : Seen(base, off, at)
<1>1. View!Cut \in Seq(Bytes) /\ Len(View!Cut) \in Nat
  BY DEF ViewInv, ViewTyped, View!Cut
<1> QED BY <1>1 DEF ViewInv, ViewTyped, Seen, Context

LEMMA EncodeStep ==
  ASSUME ViewInv, View!Encode
  PROVE  ViewInv'
<1>1. ViewTyped /\ AllCut /\ \E base, off, at : Seen(base, off, at)
  BY ViewIs
<1>2. PICK base, off, at : Seen(base, off, at)
  BY <1>1
<1>3. PICK body \in Bodies : /\ pipe' = pipe \o View!Picture(body)
                             /\ written' = Append(written, View!Picture(body))
  BY DEF View!Encode
<1>4. UNCHANGED <<ffmpeg, reader, buf, frames, shown>> /\ ffmpeg
  BY DEF View!Encode
<1>5. Context(written, buf, pipe, base, off, TRUE)
  BY <1>2, <1>4 DEF Seen, Context, Layout
<1>6. View!Cut' = View!Cut /\ AllCut'
  BY <1>1, <1>4 DEF View!Cut, AllCut
<1> DEFINE w == View!Picture(body)
<1>7. Shaped(w)
  BY PictureShaped
<1> HIDE DEF w
<1>8. PICK base2 : /\ Pictures(Append(written, w)) /\ pipe \o w \in Bytes
                   /\ Layout(Append(written, w), buf, pipe \o w, base2, off, TRUE)
                   /\ Cutout(Append(written, w), View!Cut, base2, off, at)
  BY <1>2, <1>5, <1>7, Joined DEF Seen
<1>9. written' = Append(written, w) /\ pipe' = pipe \o w
  BY <1>3 DEF w
<1>10. Layout(written', buf', pipe', base2, off, ffmpeg')
  BY <1>4, <1>8, <1>9 DEF Layout
<1>11. Cutout(written', View!Cut', base2, off, at)
  BY <1>6, <1>8, <1>9
<1>12. ViewTyped'
  BY <1>1, <1>4, <1>8, <1>9 DEF ViewTyped
<1> QED BY <1>2, <1>6, <1>10, <1>11, <1>12 DEF ViewInv, Seen

(* The steps that leave written and the frames alone, and the reader       *)
(* another buffer.                                                         *)
LEMMA SameFrames ==
  ASSUME NEW base, NEW off, NEW at, NEW off2 \in Nat,
         View!Cut \in Seq(Bytes), ViewTyped, AllCut',
         UNCHANGED <<written, frames, shown>>, buf' \in Bytes, pipe' \in Bytes,
         Layout(written, buf', pipe', base, off2, ffmpeg'),
         Cutout(written, View!Cut, base, off2, at)
  PROVE  ViewInv'
<1>1. View!Cut' = View!Cut
  BY DEF View!Cut
<1>2. ViewTyped'
  BY DEF ViewTyped
<1> QED BY <1>1, <1>2 DEF ViewInv

LEMMA FfmpegEndsStep ==
  ASSUME ViewInv, View!FfmpegEnds
  PROVE  ViewInv'
<1>1. ViewTyped /\ AllCut /\ \E base, off, at : Seen(base, off, at)
  BY ViewIs
<1>2. PICK base, off, at : Seen(base, off, at)
  BY <1>1
<1>3. PICK n \in 0..Len(pipe) : pipe' = SubSeq(pipe, 1, n)
  BY DEF View!FfmpegEnds
<1>4. UNCHANGED <<reader, buf, frames, written, shown>> /\ ffmpeg' = FALSE
  BY DEF View!FfmpegEnds
<1>5. pipe \in Bytes /\ buf \in Bytes /\ Len(pipe) \in Nat /\ Len(buf) \in Nat /\ n \in Nat /\ n <= Len(pipe)
  BY <1>1, BytesLen DEF ViewTyped
<1>6. pipe' \in Bytes /\ Len(pipe') = n /\ \A i \in 1..n : pipe'[i] = pipe[i]
  <2> DEFINE S == Byte
             left == SubSeq(pipe, 1, n)
  <2>1. pipe \in Seq(S)
    BY <1>5 DEF Bytes
  <2> HIDE DEF S
  <2>2. \A i \in 1..n : pipe[i] \in S
    BY <1>5, <2>1
  <2> HIDE DEF left
  <2>3. /\ left \in Seq(S) /\ Len(left) = IF 1 <= n THEN n - 1 + 1 ELSE 0
        /\ \A i \in 1..(n - 1 + 1) : left[i] = pipe[1 + i - 1]
    BY <1>5, <2>1, <2>2, SubSeqProperties DEF left
  <2>4. ASSUME NEW i \in 1..n PROVE left[i] = pipe[i]
    <3>1. 1 + i - 1 = i /\ i \in 1..(n - 1 + 1)
      BY <1>5
    <3> QED BY <2>3, <3>1
  <2>5. Len(left) = n
    BY <1>5, <2>3
  <2> QED BY <1>3, <2>3, <2>4, <2>5 DEF left, S, Bytes
<1> DEFINE rest == pipe'
<1>7. rest \in Bytes /\ Len(rest) = n /\ \A i \in 1..n : rest[i] = pipe[i]
  BY <1>6
<1> HIDE DEF rest
<1>8. Layout(written, buf, rest, base, off, FALSE)
  <2>1. Context(written, buf, pipe, base, off, ffmpeg)
    BY <1>2 DEF Seen
  <2>2. ASSUME NEW i \in 1..(Len(buf) + Len(rest)) PROVE ByteOf(buf, rest, i) = ByteOf(buf, pipe, i)
    <3>1. ~(i <= Len(buf)) => i - Len(buf) \in 1..n
      BY <1>5, <1>7
    <3> QED BY <1>7, <3>1 DEF ByteOf
  <2>3. Len(buf) + Len(rest) <= Len(buf) + Len(pipe)
    BY <1>5, <1>7
  <2> QED BY <1>5, <1>7, <2>1, <2>2, <2>3, FewerBytes
<1>9. AllCut'
  BY <1>1, <1>4 DEF AllCut
<1>10. Layout(written, buf', pipe', base, off, ffmpeg')
  BY <1>4, <1>8 DEF rest
<1>11. buf' \in Bytes /\ pipe' \in Bytes
  BY <1>4, <1>5, <1>6
<1> QED BY <1>1, <1>2, <1>4, <1>9, <1>10, <1>11, SameFrames DEF Seen

LEMMA ReadStep ==
  ASSUME ViewInv, View!Read
  PROVE  ViewInv'
<1>1. ViewTyped /\ \E base, off, at : Seen(base, off, at)
  BY ViewIs
<1>2. PICK base, off, at : Seen(base, off, at)
  BY <1>1
<1>3. PICK n \in 1..ChunkSize : /\ n <= Len(pipe)
                               /\ buf' = buf \o SubSeq(pipe, 1, n)
                               /\ pipe' = View!From(pipe, n + 1)
  BY DEF View!Read
<1>4. UNCHANGED <<ffmpeg, frames, written, shown>> /\ reader' = "cut"
  BY DEF View!Read
<1>5. pipe \in Bytes /\ buf \in Bytes /\ Len(pipe) \in Nat /\ Len(buf) \in Nat /\ n \in 1..Len(pipe)
  BY <1>1, <1>3, BytesLen, PictureAssumption DEF ViewTyped
<1> DEFINE read2 == buf \o SubSeq(pipe, 1, n)
           rest2 == View!From(pipe, n + 1)
<1>6. /\ read2 \in Bytes /\ rest2 \in Bytes
      /\ Len(read2) + Len(rest2) = Len(buf) + Len(pipe)
      /\ \A i \in 1..(Len(buf) + Len(pipe)) : ByteOf(read2, rest2, i) = ByteOf(buf, pipe, i)
  BY <1>5, Moved
<1> HIDE DEF read2, rest2
<1>7. Layout(written, read2, rest2, base, off, ffmpeg)
  <2>1. Context(written, buf, pipe, base, off, ffmpeg)
    BY <1>2 DEF Seen
  <2>2. Len(read2) + Len(rest2) <= Len(buf) + Len(pipe)
    BY <1>5, <1>6
  <2> QED BY <1>6, <2>1, <2>2, FewerBytes
<1>8. AllCut'
  BY <1>4 DEF AllCut
<1>9. buf' = read2 /\ pipe' = rest2
  BY <1>3 DEF read2, rest2
<1>10. Layout(written, buf', pipe', base, off, ffmpeg')
  BY <1>4, <1>7, <1>9
<1> QED BY <1>1, <1>2, <1>4, <1>6, <1>8, <1>9, <1>10, SameFrames DEF Seen

LEMMA NoStartStep ==
  ASSUME ViewInv, View!NoStart
  PROVE  ViewInv'
<1>1. ViewTyped /\ \E base, off, at : Seen(base, off, at)
  BY ViewIs
<1>2. PICK base, off, at : Seen(base, off, at)
  BY <1>1
<1>3. /\ StartIn(buf) = 0 /\ buf' = View!Leftover
      /\ UNCHANGED <<pipe, ffmpeg, frames, written, shown>>
  BY DEF View!NoStart, View!Reads, View!Start, View!SOI, StartIn
<1>4. pipe \in Bytes /\ buf \in Bytes /\ Len(buf) \in Nat /\ MaxBuffer \in Nat
  BY <1>1, BytesLen, PictureAssumption DEF ViewTyped
<1>5. CASE Len(buf) > MaxBuffer
  <2> DEFINE left == View!From(buf, Len(buf))
  <2>1. buf' = left
    BY <1>3, <1>5 DEF View!Leftover
  <2>2. /\ left \in Bytes /\ StartIn(left) = 0
        /\ \E off2 \in Nat : /\ Layout(written, left, pipe, base, off2, ffmpeg)
                             /\ Cutout(written, View!Cut, base, off2, at)
    <3>1. Len(buf) > 0
      BY <1>4, <1>5
    <3> QED BY <1>2, <1>3, <3>1, LastByteKept DEF Seen
  <2>3. PICK off2 \in Nat : /\ Layout(written, left, pipe, base, off2, ffmpeg)
                            /\ Cutout(written, View!Cut, base, off2, at)
    BY <2>2
  <2> HIDE DEF left
  <2>4. Layout(written, buf', pipe', base, off2, ffmpeg')
    BY <1>3, <2>1, <2>3
  <2>5. AllCut'
    BY <2>1, <2>2 DEF AllCut, NoneWhole
  <2> QED BY <1>1, <1>2, <1>3, <1>4, <2>1, <2>2, <2>3, <2>4, <2>5, SameFrames DEF Seen
<1>6. CASE ~(Len(buf) > MaxBuffer)
  <2>1. buf' = buf
    BY <1>3, <1>6 DEF View!Leftover
  <2>2. Layout(written, buf', pipe', base, off, ffmpeg')
    BY <1>2, <1>3, <2>1 DEF Seen, Context
  <2>3. AllCut'
    BY <1>3, <2>1 DEF AllCut, NoneWhole
  <2> QED BY <1>1, <1>2, <1>3, <1>4, <2>1, <2>2, <2>3, SameFrames DEF Seen
<1> QED BY <1>5, <1>6

LEMMA NoEndStep ==
  ASSUME ViewInv, View!NoEnd
  PROVE  ViewInv'
<1>1. ViewTyped /\ \E base, off, at : Seen(base, off, at)
  BY ViewIs
<1>2. PICK base, off, at : Seen(base, off, at)
  BY <1>1
<1> DEFINE s == StartIn(buf)
           left == View!From(buf, s)
<1>3. /\ s # 0 /\ EndIn(buf, s + 2) = 0
      /\ buf' = IF Len(left) > MaxBuffer THEN <<>> ELSE left
      /\ UNCHANGED <<pipe, ffmpeg, frames, written, shown>>
  <2>1. View!Start = s /\ View!End = EndIn(buf, s + 2)
    BY DEF View!Start, View!End, View!SOI, View!EOI, StartIn, EndIn
  <2>2. s \in Nat
    BY <1>1, StartInRight DEF ViewTyped
  <2> HIDE DEF s
  <2> QED BY <2>1, <2>2 DEF View!NoEnd, View!Reads
<1>4. pipe \in Bytes /\ buf \in Bytes /\ Len(buf) \in Nat /\ Begun(buf, s)
  BY <1>1, <1>3, BytesLen DEF ViewTyped, Begun
<1> HIDE DEF s
<1>5. /\ left \in Bytes /\ Len(left) = Len(buf) - s + 1 /\ NoneWhole(left)
      /\ \E off2 \in Nat : /\ Layout(written, left, pipe, base, off2, ffmpeg)
                           /\ Cutout(written, View!Cut, base, off2, at)
  BY <1>2, <1>4, BegunKept DEF Seen
<1> HIDE DEF left
<1>6. CASE Len(left) > MaxBuffer
  <2>1. Len(buf) - s + 1 > MaxBuffer
    BY <1>5, <1>6
  <2>2. PICK off2 \in Nat : /\ Layout(written, <<>>, pipe, base, off2, ffmpeg)
                            /\ Cutout(written, View!Cut, base, off2, at)
    BY <1>2, <1>4, <2>1, BegunDropped DEF Seen
  <2>3. buf' = <<>>
    BY <1>3, <1>6
  <2>4. <<>> \in Bytes
    BY DEF Bytes
  <2>5. StartIn(<<>>) = 0
    <3> DEFINE none == <<>>
    <3>1. none \in Bytes /\ Len(none) = 0
      BY <2>4
    <3> HIDE DEF none
    <3>2. StartIn(none) = 0
      BY <3>1, StartInRight
    <3> QED BY <3>2 DEF none
  <2>6. AllCut'
    BY <2>3, <2>5 DEF AllCut, NoneWhole
  <2>7. Layout(written, buf', pipe', base, off2, ffmpeg')
    BY <1>3, <2>2, <2>3
  <2> QED BY <1>1, <1>2, <1>3, <1>4, <2>2, <2>3, <2>4, <2>6, <2>7, SameFrames DEF Seen
<1>7. CASE ~(Len(left) > MaxBuffer)
  <2>1. PICK off2 \in Nat : /\ Layout(written, left, pipe, base, off2, ffmpeg)
                            /\ Cutout(written, View!Cut, base, off2, at)
    BY <1>5
  <2>2. buf' = left
    BY <1>3, <1>7
  <2>3. AllCut'
    BY <1>5, <2>2 DEF AllCut
  <2>4. Layout(written, buf', pipe', base, off2, ffmpeg')
    BY <1>3, <2>1, <2>2
  <2> QED BY <1>1, <1>2, <1>3, <1>4, <1>5, <2>1, <2>2, <2>3, <2>4, SameFrames DEF Seen
<1> QED BY <1>6, <1>7

LEMMA SendFrameStep ==
  ASSUME ViewInv, View!SendFrame
  PROVE  ViewInv'
<1>1. ViewTyped /\ \E base, off, at : Seen(base, off, at)
  BY ViewIs
<1>2. PICK base, off, at : Seen(base, off, at)
  BY <1>1
<1> DEFINE s == View!Start
           e == View!End
           w == SubSeq(buf, s, e + 1)
           left == View!From(buf, e + 2)
<1>3. /\ frames' = Append(frames, w) /\ buf' = left /\ reader' = "cut"
      /\ UNCHANGED <<pipe, ffmpeg, written, shown>>
  BY DEF View!SendFrame
<1>4. Marked(buf, s, e)
  <2>1. s = StartIn(buf) /\ e = EndIn(buf, s + 2)
    BY DEF View!Start, View!End, View!SOI, View!EOI, StartIn, EndIn
  <2>2. s > 0 /\ e > 0
    BY DEF View!SendFrame
  <2> HIDE DEF s, e
  <2> QED BY <2>1, <2>2 DEF Marked
<1> HIDE DEF s, e
<1>5. /\ left \in Bytes /\ w \in Bytes
      /\ \E off2 \in Nat : \E at2 : /\ Layout(written, left, pipe, base, off2, ffmpeg)
                                    /\ Cutout(written, Append(View!Cut, w), base, off2, at2)
  BY <1>2, <1>4, OneMore DEF Seen
<1> HIDE DEF w, left
<1>6. View!Cut' = Append(View!Cut, w)
  <2>1. shown \in Seq(Bytes) /\ frames \in Seq(Bytes) /\ w \in Bytes
    BY <1>1, <1>5 DEF ViewTyped
  <2> DEFINE T == Bytes
  <2> HIDE DEF T
  <2>2. shown \o Append(frames, w) = Append(shown \o frames, w)
    <3>1. shown \in Seq(T) /\ frames \in Seq(T) /\ w \in T
      BY <2>1 DEF T
    <3> QED BY <3>1
  <2> QED BY <1>3, <2>2 DEF View!Cut
<1>7. ViewTyped'
  BY <1>1, <1>3, <1>5, AppendProperties DEF ViewTyped
<1>8. AllCut'
  BY <1>3 DEF AllCut
<1> QED BY <1>3, <1>5, <1>6, <1>7, <1>8 DEF ViewInv

LEMMA ReaderEndsStep ==
  ASSUME ViewInv, View!ReaderEnds
  PROVE  ViewInv'
<1>1. ViewTyped /\ \E base, off, at : Seen(base, off, at)
  BY ViewIs
<1>2. PICK base, off, at : Seen(base, off, at)
  BY <1>1
<1>3. UNCHANGED <<pipe, buf, frames, written, shown>> /\ ffmpeg' = FALSE /\ reader' = "done"
  BY DEF View!ReaderEnds
<1>4. Layout(written, buf, pipe, base, off, FALSE)
  BY <1>2 DEF Seen, Context, Layout
<1>5. AllCut'
  BY <1>3 DEF AllCut
<1>6. buf' \in Bytes /\ pipe' \in Bytes /\ Layout(written, buf', pipe', base, off, ffmpeg')
  BY <1>1, <1>3, <1>4 DEF ViewTyped
<1> QED BY <1>1, <1>2, <1>3, <1>5, <1>6, SameFrames DEF Seen

LEMMA WriteStep ==
  ASSUME ViewInv, View!WriteMultipartFrame
  PROVE  ViewInv'
<1>1. /\ frames # <<>> /\ shown' = Append(shown, Head(frames)) /\ frames' = Tail(frames)
      /\ UNCHANGED <<pipe, ffmpeg, reader, buf, written>>
  BY DEF View!WriteMultipartFrame
<1>2. shown \in Seq(Bytes) /\ frames \in Seq(Bytes)
  BY DEF ViewInv, ViewTyped
<1>3. shown' \in Seq(Bytes) /\ frames' \in Seq(Bytes) /\ View!Cut' = View!Cut
  <2> DEFINE T == Bytes
             one == Head(frames)
             more == Tail(frames)
  <2> HIDE DEF T
  <2>1. shown \in Seq(T) /\ frames \in Seq(T)
    BY <1>2 DEF T
  <2>2. one \in T /\ more \in Seq(T) /\ Len(more) = Len(frames) - 1 /\ \A i \in 1..Len(more) : more[i] = frames[i + 1]
    BY <1>1, <2>1, HeadTailProperties
  <2>3. frames = <<one>> \o more
    BY <1>1, <2>1
  <2> HIDE DEF one, more
  <2>4. <<one>> \in Seq(T) /\ Append(shown, one) = shown \o <<one>> /\ Append(shown, one) \in Seq(T)
    BY <2>1, <2>2, AppendIsConcat, AppendProperties
  <2>5. (shown \o <<one>>) \o more = shown \o (<<one>> \o more)
    BY <2>1, <2>2, <2>4, ConcatAssociative
  <2>6. shown' = Append(shown, one) /\ frames' = more
    BY <1>1 DEF one, more
  <2>7. shown' \o frames' = shown \o frames
    BY <2>3, <2>4, <2>5, <2>6
  <2> QED BY <2>2, <2>4, <2>6, <2>7 DEF T, View!Cut
<1>4. ViewTyped' /\ AllCut'
  BY <1>1, <1>3 DEF ViewInv, ViewTyped, AllCut
<1> QED BY <1>1, <1>3, <1>4 DEF ViewInv

LEMMA ViewStep ==
  ASSUME ViewInv, [View!Next]_View!mjpegVars
  PROVE  ViewInv'
<1>1. CASE View!CameraStreamEnds
  <2>1. UNCHANGED <<pipe, ffmpeg, reader, buf, frames, written, shown>>
    BY <1>1 DEF View!CameraStreamEnds
  <2> QED BY <2>1 DEF ViewInv, ViewTyped, AllCut, View!Cut
<1>2. CASE UNCHANGED View!mjpegVars
  <2>1. UNCHANGED <<pipe, ffmpeg, reader, buf, frames, written, shown>>
    BY <1>2 DEF View!mjpegVars
  <2> QED BY <2>1 DEF ViewInv, ViewTyped, AllCut, View!Cut
<1> QED
  BY <1>1, <1>2, EncodeStep, FfmpegEndsStep, ReadStep, NoStartStep, NoEndStep, SendFrameStep,
     ReaderEndsStep, WriteStep DEF View!Next

LEMMA ViewStarts ==
  ASSUME View!Init
  PROVE  ViewInv
<1> DEFINE none == <<>>
           base == [k \in 1..1 |-> 0]
           at == [i \in 1..0 |-> 0]
<1>1. pipe = none /\ buf = none /\ frames = none /\ written = none /\ shown = none
  BY DEF View!Init
<1>2. none \in Bytes /\ none \in Seq(Bytes) /\ Len(none) = 0 /\ none \o none = none
  BY DEF Bytes
<1>3. \A i \in 1..0 : FALSE
  OBVIOUS
<1>4. ViewTyped
  BY <1>1, <1>2, <1>3 DEF ViewTyped, Pictures
<1>5. View!Cut = none
  BY <1>1, <1>2 DEF View!Cut
<1> HIDE DEF none
<1>6. AllCut
  <2>1. StartIn(none) = 0
    BY <1>2, <1>3, StartInRight
  <2> QED BY <1>1, <2>1 DEF AllCut, NoneWhole
<1>7. Layout(none, none, none, base, 0, ffmpeg)
  <2>1. Bases(none, base)
    BY <1>2 DEF Bases
  <2> QED BY <1>2, <1>3, <2>1 DEF Layout
<1>8. Cutout(none, none, base, 0, at)
  BY <1>2, <1>3 DEF Cutout
<1> QED BY <1>1, <1>4, <1>5, <1>6, <1>7, <1>8 DEF ViewInv

(* The third part of FramesAreWhole: a picture that lies behind, or that   *)
(* was read to its end, was cut out.                                       *)
LEMMA AllWhole ==
  ASSUME ViewTyped, AllCut, NEW base, NEW off, NEW at, Seen(base, off, at),
         NEW k \in 1..Len(written), Len(written[k]) <= MaxBuffer,
         \/ \E i \in 1..Len(View!Cut) : k < at[i]
         \/ ffmpeg /\ reader = "read" /\ pipe = <<>>
  PROVE  \E i \in 1..Len(View!Cut) : at[i] = k
<1> DEFINE bk == base[k]
           nk == Len(written[k])
           last == base[Len(written) + 1]
<1>1. Context(written, buf, pipe, base, off, ffmpeg) /\ Cutout(written, View!Cut, base, off, at)
  BY DEF Seen
<1>2. /\ off \in Nat /\ Len(buf) \in Nat /\ bk \in Nat /\ nk \in Nat /\ nk >= 4 /\ last \in Nat
      /\ Len(written) \in Nat /\ bk + nk <= last
  <2>1. /\ off \in Nat /\ Len(buf) \in Nat /\ Len(written) \in Nat
        /\ \A j \in 1..(Len(written) + 1) : base[j] \in Nat
        /\ nk \in Nat /\ nk >= 4 /\ bk + nk <= last
    BY <1>1, Lengths
  <2> QED BY <2>1
<1>3. SUFFICES ASSUME bk >= off PROVE FALSE
  <2>1. \A j \in 1..Len(written) :
          Len(written[j]) <= MaxBuffer => base[j] >= off \/ \E i \in 1..Len(View!Cut) : at[i] = j
    BY <1>1 DEF Cutout
  <2> QED BY <2>1
<1>4. CASE \E i \in 1..Len(View!Cut) : k < at[i]
  <2>1. PICK i \in 1..Len(View!Cut) : k < at[i]
    BY <1>4
  <2> DEFINE j == at[i]
             bj == base[j]
             nj == Len(written[j])
  <2>2. j \in 1..Len(written) /\ bj + nj <= off
    BY <1>1 DEF Cutout
  <2>3. bj \in Nat /\ nj \in Nat
    BY <1>1, <2>2, Lengths
  <2>4. bk + nk <= bj
    <3>1. \A g, h \in 1..(Len(written) + 1) : g < h => base[g] + Len(written[g]) <= base[h]
      BY <1>1 DEF Context, Layout, Bases
    <3>2. j \in 1..(Len(written) + 1) /\ k \in 1..(Len(written) + 1)
      BY SMTT(30), <1>2, <2>2
    <3> QED BY <2>1, <3>1, <3>2
  <2> HIDE DEF bk, nk, j, bj, nj
  <2> QED BY <1>2, <1>3, <2>2, <2>3, <2>4
<1>5. CASE ffmpeg /\ reader = "read" /\ pipe = <<>>
  <2>1. off + Len(buf) = last
    <3>1. off + Len(buf) + Len(pipe) = last /\ Len(pipe) = 0
      BY <1>1, <1>5 DEF Context, Layout
    <3> QED BY <1>2, <3>1
  <2> DEFINE s == StartIn(buf)
  <2>2. bk + nk <= off + Len(buf) /\ bk + 2 <= off + Len(buf)
    <3> HIDE DEF bk, nk, last
    <3> QED BY <1>2, <2>1
  <2>3. s # 0 /\ off + s <= bk + 1
    BY <1>1, <1>3, <2>2, StartSeen
  <2>4. s \in Nat \ {0}
    BY <2>3, StartInRight DEF ViewTyped
  <2> HIDE DEF s
  <2>5. EndIn(buf, s + 2) # 0
    <3>1. base[k] + 1 >= off + s
      BY <1>2, <2>3, <2>4
    <3> QED BY <1>1, <2>2, <2>4, <3>1, EndSeen
  <2> QED BY <1>5, <2>3, <2>5 DEF AllCut, NoneWhole, s
<1> QED BY <1>4, <1>5

LEMMA ViewInvIsEnough ==
  ASSUME ViewInv
  PROVE  FramesAreWhole
<1>1. ViewTyped /\ AllCut /\ \E base, off, at : Seen(base, off, at)
  BY ViewIs
<1>2. PICK base, off, at : Seen(base, off, at)
  BY <1>1
<1>3. /\ at \in [1..Len(View!Cut) -> 1..Len(written)]
      /\ \A i \in 1..Len(View!Cut) : View!Cut[i] = written[at[i]]
      /\ \A i, j \in 1..Len(View!Cut) : i < j => at[i] < at[j]
  BY <1>2 DEF Seen, Cutout
<1>4. \A k \in 1..Len(written) :
        /\ Len(written[k]) <= MaxBuffer
        /\ (\E i \in 1..Len(View!Cut) : k < at[i]) \/ (ffmpeg /\ reader = "read" /\ pipe = <<>>)
        => \E i \in 1..Len(View!Cut) : at[i] = k
  BY <1>1, <1>2, AllWhole
<1> QED BY <1>3, <1>4 DEF FramesAreWhole, View!FramesAreWhole

(* What is cut out of the pipe are the pictures that were written, whole   *)
(* and in order, wherever the reads fall and however small the buffer, for *)
(* any pictures that hold no marker within.                                *)
THEOREM FramesAreWholeHolds == View!Spec => []FramesAreWhole
<1>1. View!Init => ViewInv
  BY ViewStarts
<1>2. ViewInv /\ [View!Next]_View!mjpegVars => ViewInv'
  BY ViewStep
<1>3. ViewInv => FramesAreWhole
  BY ViewInvIsEnough
<1> QED BY <1>1, <1>2, <1>3, PTL DEF View!Spec
=============================================================================
