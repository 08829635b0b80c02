-------------------------- MODULE MqttQueue_proofs --------------------------
(***************************************************************************)
(* Proofs about the history of prints and the queue that writes it.        *)
(*                                                                         *)
(* PrintHistory: a lemma says what any call does to a row: it keeps what   *)
(* may not change in it (Descends), or inserts it (Fresh).  That at most   *)
(* one row is open, that an outcome is final and that an archive is kept   *)
(* follow from it for every call at once.                                  *)
(*                                                                         *)
(* MqttQueue: the table is touched only by the calls of PrintHistory, so   *)
(* what is proved of those holds here.  What the queue knows of the print  *)
(* rests on what the printer still owes it: a print that is over is active *)
(* only while the report that says so is under way.                        *)
(***************************************************************************)
EXTENDS MqttQueue, SequenceTheorems, TLAPS

-----------------------------------------------------------------------------
(* PrintHistory.                                                           *)

Descends(q, r) ==
  /\ q.id = r.id
  /\ q.file = r.file
  /\ r.status # "started" => q.status = r.status
  /\ q.status = "started" => r.status = "started"
  /\ r.archive # NoArchive => q.archive = r.archive

Fresh(q) == nextId' = nextId + 1 /\ q.id = nextId

OneById(set) == \A r, q \in set : r.id = q.id => r = q

(* What any call leaves of the table.                                      *)
Evolves ==
  /\ nextId' \in {nextId, nextId + 1}
  /\ nextId' \in 1..(MaxInserts + 1)
  /\ OneById(rows')
  /\ \A q \in rows' : q \in Rows /\ (Fresh(q) \/ \E r \in rows : Descends(q, r))
  /\ nextId' = nextId + 1 => \A q \in rows' : q.status = "started" => Fresh(q)

Good == HistoryTypeOK /\ OneOpen

LEMMA RowFields ==
  ASSUME NEW r \in Rows
  PROVE  /\ r.id \in Nat /\ r.file \in Files \ Placeholders
         /\ r.status \in Statuses /\ r.task \in Tasks \cup {NoTask}
         /\ r.archive \in Archives \cup {NoArchive}
  BY DEF Rows

LEMMA MakeRow ==
  ASSUME NEW id \in Nat, NEW f \in Files \ Placeholders, NEW s \in Statuses,
         NEW t \in Tasks \cup {NoTask}, NEW a \in Archives \cup {NoArchive}
  PROVE  [id |-> id, file |-> f, status |-> s, task |-> t, archive |-> a]
           \in Rows
  BY DEF Rows

(* A change of status or archive leaves the other fields alone.            *)
LEMMA ChangeStatus ==
  ASSUME NEW r \in Rows, NEW s \in Statuses
  PROVE  /\ [r EXCEPT !.status = s] \in Rows
         /\ [r EXCEPT !.status = s].id = r.id
         /\ [r EXCEPT !.status = s].file = r.file
         /\ [r EXCEPT !.status = s].status = s
         /\ [r EXCEPT !.status = s].archive = r.archive
  BY DEF Rows

LEMMA ArchiveNoted ==
  ASSUME NEW r \in Rows, NEW a \in Archives \cup {NoArchive}
  PROVE  WithArchive(r, a) \in Rows /\ Descends(WithArchive(r, a), r)
<1>1. CASE r.archive = NoArchive
  <2> DEFINE q == [r EXCEPT !.archive = a]
  <2>1. /\ q \in Rows /\ q.id = r.id /\ q.file = r.file
        /\ q.status = r.status
    BY DEF Rows
  <2>2. WithArchive(r, a) = q
    BY <1>1 DEF WithArchive
  <2> HIDE DEF q
  <2> QED BY <1>1, <2>1, <2>2 DEF Descends
<1>2. CASE r.archive # NoArchive
  BY <1>2 DEF WithArchive, Descends
<1> QED BY <1>1, <1>2

LEMMA SelfDescends == \A r : Descends(r, r)
  BY DEF Descends

(* When one row at most is open, the newest of some open rows is the one.  *)
LEMMA NewestIsOpen ==
  ASSUME Good, NEW S, S \subseteq Open, S # {}
  PROVE  Newest(S) \in S
<1>1. PICK r \in S : TRUE
  OBVIOUS
<1>2. \A q \in S : q = r
  <2> SUFFICES ASSUME NEW q \in S, q # r PROVE FALSE
    OBVIOUS
  <2>1. q.id < r.id /\ r.id < q.id
    BY <1>1 DEF Good, OneOpen, Open
  <2>2. q.id \in Nat /\ r.id \in Nat
    BY <1>1, RowFields DEF Good, HistoryTypeOK, Open
  <2> QED BY <2>1, <2>2
<1>3. r.id \in Nat
  BY <1>1, RowFields DEF Good, HistoryTypeOK, Open
<1>4. \A q \in S : q.id <= r.id
  BY <1>2, <1>3
<1> QED BY <1>1, <1>4 DEF Newest

(* Replacing a row by one that descends from it.                           *)
LEMMA ReplaceEvolves ==
  ASSUME Good, NEW r \in rows, NEW q \in Rows, Descends(q, r),
         Replace(r, q), UNCHANGED nextId
  PROVE  Evolves
<1>1. OneById(rows')
  BY DEF Good, HistoryTypeOK, Replace, Descends, OneById
<1>2. \A p \in rows' : p \in Rows /\ \E s \in rows : Descends(p, s)
  BY SelfDescends DEF Good, HistoryTypeOK, Replace
<1>3. nextId \in Nat /\ nextId \in 1..(MaxInserts + 1)
  BY DEF Good, HistoryTypeOK
<1> QED BY <1>1, <1>2, <1>3 DEF Evolves

(* Dropping rows.                                                          *)
LEMMA DropEvolves ==
  ASSUME Good, rows' \subseteq rows, UNCHANGED nextId
  PROVE  Evolves
<1>1. OneById(rows')
  BY DEF Good, HistoryTypeOK, OneById
<1>2. \A p \in rows' : p \in Rows /\ \E s \in rows : Descends(p, s)
  BY SelfDescends DEF Good, HistoryTypeOK
<1>3. nextId \in Nat /\ nextId \in 1..(MaxInserts + 1)
  BY DEF Good, HistoryTypeOK
<1> QED BY <1>1, <1>2, <1>3 DEF Evolves

LEMMA InterruptedRows ==
  ASSUME Good, NEW q \in Interrupted
  PROVE  /\ q \in Rows /\ q.status # "started"
         /\ \E r \in rows : Descends(q, r)
<1>1. PICK r \in rows :
        q = IF r.status = "started" THEN [r EXCEPT !.status = "interrupted"]
                                    ELSE r
  BY DEF Interrupted
<1>2. r \in Rows
  BY DEF Good, HistoryTypeOK
<1>3. CASE r.status = "started"
  <2>1. q = [r EXCEPT !.status = "interrupted"]
    BY <1>1, <1>3
  <2>2. /\ q \in Rows /\ q.id = r.id /\ q.file = r.file
        /\ q.status = "interrupted" /\ q.archive = r.archive
    BY <2>1, <1>2, ChangeStatus DEF Statuses
  <2> QED BY <2>2, <1>3 DEF Descends
<1>4. CASE r.status # "started"
  BY <1>1, <1>2, <1>4, SelfDescends
<1> QED BY <1>3, <1>4

LEMMA InterruptedById == ASSUME Good PROVE OneById(Interrupted)
<1> SUFFICES ASSUME NEW p \in Interrupted, NEW q \in Interrupted, p.id = q.id
             PROVE  p = q
  BY DEF OneById
<1> DEFINE Ended(r) == IF r.status = "started"
                       THEN [r EXCEPT !.status = "interrupted"] ELSE r
<1>1. PICK r \in rows : p = Ended(r)
  BY DEF Interrupted
<1>2. PICK s \in rows : q = Ended(s)
  BY DEF Interrupted
<1>3. \A t \in rows : Ended(t).id = t.id
  BY ChangeStatus DEF Good, HistoryTypeOK, Statuses
<1>4. r.id = s.id
  BY <1>1, <1>2, <1>3
<1>5. r = s
  BY <1>4 DEF Good, HistoryTypeOK
<1> QED BY <1>1, <1>2, <1>5

LEMMA InsertEvolves ==
  ASSUME Good, NEW f \in Files \ Placeholders, NEW t \in Tasks \cup {NoTask},
         NEW a \in Archives \cup {NoArchive}, InsertRow(f, t, a)
  PROVE  Evolves
<1> DEFINE new == [id |-> nextId, file |-> f, status |-> "started",
                   task |-> t, archive |-> a]
<1>1. nextId \in Nat /\ nextId <= MaxInserts /\ nextId' = nextId + 1
      /\ MaxInserts \in Nat /\ nextId >= 1
  BY HistoryAssumption DEF Good, HistoryTypeOK, InsertRow
<1>2. new \in Rows
  BY <1>1, MakeRow DEF Statuses
<1>3. rows' \subseteq Interrupted \cup {new}
  BY DEF InsertRow, Prune
<1>4. \A q \in Interrupted : q.id # nextId
  BY <1>1, InterruptedRows, RowFields DEF Good, HistoryTypeOK, Descends
<1>5. new.id = nextId
  OBVIOUS
<1> HIDE DEF new
<1>6. OneById(rows')
  BY <1>3, <1>4, <1>5, InterruptedById DEF OneById
<1>7. \A q \in rows' :
        /\ q \in Rows
        /\ Fresh(q) \/ \E r \in rows : Descends(q, r)
        /\ q.status = "started" => Fresh(q)
  BY <1>1, <1>2, <1>3, <1>5, InterruptedRows DEF Fresh
<1>8. nextId' \in 1..(MaxInserts + 1)
  BY <1>1
<1> QED BY <1>1, <1>6, <1>7, <1>8 DEF Evolves

LEMMA CloseEvolves ==
  ASSUME Good, NEW f, NEW t, NEW outcome \in Statuses \ {"started"},
         CloseRow(f, t, outcome)
  PROVE  Evolves
<1>1. CASE Active(f, t) = {}
  BY <1>1, DropEvolves DEF CloseRow
<1>2. CASE Active(f, t) # {}
  <2> DEFINE r == Newest(Active(f, t))
             q == [r EXCEPT !.status = outcome]
  <2>1. Active(f, t) \subseteq Open
    BY DEF Active, ByTask, ByFile, Open
  <2>2. r \in Open
    BY <1>2, <2>1, NewestIsOpen
  <2>3. r \in rows /\ r \in Rows /\ r.status = "started"
    BY <2>2 DEF Open, Good, HistoryTypeOK
  <2>4. Replace(r, q) /\ UNCHANGED nextId
    BY <1>2 DEF CloseRow
  <2> HIDE DEF r
  <2>5. /\ q \in Rows /\ q.id = r.id /\ q.file = r.file
        /\ q.status = outcome /\ q.archive = r.archive
    BY <2>3, ChangeStatus
  <2> HIDE DEF q
  <2>6. Descends(q, r)
    BY <2>3, <2>5 DEF Descends
  <2> QED BY <2>3, <2>4, <2>5, <2>6, ReplaceEvolves
<1> QED BY <1>1, <1>2

LEMMA StartEvolves ==
  ASSUME Good, NEW f \in Files, NEW t \in Tasks \cup {NoTask},
         NEW a \in Archives \cup {NoArchive}, RecordStart(f, t, a)
  PROVE  Evolves
<1>1. CASE UNCHANGED historyVars
  BY <1>1, DropEvolves DEF historyVars
<1>2. CASE Resumable(f, t) # {} /\ UNCHANGED nextId
           /\ Replace(Newest(Resumable(f, t)),
                      WithArchive(Newest(Resumable(f, t)), a))
  <2> DEFINE r == Newest(Resumable(f, t))
  <2>1. Resumable(f, t) \subseteq Open
    BY DEF Resumable, ByTask, ByFile, Open
  <2>2. r \in Open
    BY <1>2, <2>1, NewestIsOpen
  <2>3. r \in rows /\ r \in Rows
    BY <2>2 DEF Open, Good, HistoryTypeOK
  <2> HIDE DEF r
  <2>4. WithArchive(r, a) \in Rows /\ Descends(WithArchive(r, a), r)
    BY <2>3, ArchiveNoted
  <2>5. Replace(r, WithArchive(r, a)) /\ UNCHANGED nextId
    BY <1>2 DEF r
  <2> QED BY <2>3, <2>4, <2>5, ReplaceEvolves
<1>3. CASE f \notin Placeholders /\ InsertRow(f, t, a)
  BY <1>3, InsertEvolves
<1> QED BY <1>1, <1>2, <1>3 DEF RecordStart

LEMMA SetArchiveEvolves ==
  ASSUME Good, NEW id, NEW a \in Archives, SetArchiveInfo(id, a)
  PROVE  Evolves
<1> DEFINE Set(r) == IF r.id = id THEN WithArchive(r, a) ELSE r
<1>1. \A r \in rows : Set(r) \in Rows /\ Descends(Set(r), r)
  BY ArchiveNoted, SelfDescends DEF Good, HistoryTypeOK
<1>2. rows' = {Set(r) : r \in rows} /\ UNCHANGED nextId
  BY DEF SetArchiveInfo
<1> HIDE DEF Set
<1>3. OneById(rows')
  <2> SUFFICES ASSUME NEW r \in rows, NEW q \in rows, Set(r).id = Set(q).id
               PROVE  Set(r) = Set(q)
    BY <1>2 DEF OneById
  <2>1. r.id = q.id
    BY <1>1 DEF Descends
  <2> QED BY <2>1 DEF Good, HistoryTypeOK
<1>4. nextId \in Nat /\ nextId \in 1..(MaxInserts + 1)
  BY DEF Good, HistoryTypeOK
<1>5. \A q \in rows' : q \in Rows /\ \E r \in rows : Descends(q, r)
  BY <1>1, <1>2
<1> QED BY <1>2, <1>3, <1>4, <1>5 DEF Evolves

LEMMA StepEvolves == ASSUME Good, [Calls]_historyVars PROVE Evolves
<1>1. CASE UNCHANGED historyVars
  BY <1>1, DropEvolves DEF historyVars
<1>2. ASSUME NEW f \in Files, NEW t \in Tasks \cup {NoTask},
             NEW a \in Archives \cup {NoArchive}, RecordStart(f, t, a)
      PROVE  Evolves
  BY <1>2, StartEvolves
<1>3. ASSUME NEW f \in Files, NEW t \in Tasks \cup {NoTask},
             RecordFinish(f, t) \/ RecordFail(f, t)
      PROVE  Evolves
  BY <1>3, CloseEvolves DEF RecordFinish, RecordFail, Statuses
<1>4. ASSUME NEW id \in 1..MaxInserts, NEW a \in Archives, SetArchiveInfo(id, a)
      PROVE  Evolves
  BY <1>4, SetArchiveEvolves
<1>5. ASSUME NEW ids, DeleteEntries(ids) PROVE Evolves
  BY <1>5, DropEvolves DEF DeleteEntries
<1>6. CASE ClearHistory
  BY <1>6, DropEvolves DEF ClearHistory
<1> QED BY <1>1, <1>2, <1>3, <1>4, <1>5, <1>6 DEF Calls

LEMMA EvolvesKeepsGood == ASSUME Good, Evolves PROVE Good'
<1>1. nextId \in Nat /\ nextId >= 1 /\ nextId' \in {nextId, nextId + 1}
  BY DEF Good, HistoryTypeOK, Evolves
<1>2. \A q \in rows' : q.id \in 1..(nextId' - 1)
  <2> SUFFICES ASSUME NEW q \in rows' PROVE q.id \in 1..(nextId' - 1)
    OBVIOUS
  <2>1. CASE Fresh(q)
    BY <1>1, <2>1 DEF Fresh
  <2>2. CASE \E r \in rows : Descends(q, r)
    BY <1>1, <2>2 DEF Descends, Good, HistoryTypeOK
  <2> QED BY <2>1, <2>2 DEF Evolves
<1>3. HistoryTypeOK'
  BY <1>2 DEF HistoryTypeOK, Evolves, OneById
<1>4. OneOpen'
  <2> SUFFICES ASSUME NEW r \in rows', r.status = "started",
                      NEW q \in rows', q # r
               PROVE  q.id < r.id
    BY DEF OneOpen, Open
  <2>1. q.id # r.id
    BY DEF Evolves, OneById
  <2>2. CASE nextId' = nextId + 1
    <3>1. r.id = nextId
      BY <2>2 DEF Evolves, Fresh
    <3> QED BY <1>1, <1>2, <2>1, <2>2, <3>1
  <2>3. CASE nextId' = nextId
    <3>1. PICK r0 \in rows : Descends(r, r0)
      BY <1>1, <2>3 DEF Evolves, Fresh
    <3>2. PICK q0 \in rows : Descends(q, q0)
      BY <1>1, <2>3 DEF Evolves, Fresh
    <3>3. r0 \in Open /\ q0 # r0
      BY <2>1, <3>1, <3>2 DEF Descends, Open
    <3>4. q0.id < r0.id
      BY <3>3 DEF Good, OneOpen
    <3> QED BY <3>1, <3>2, <3>4 DEF Descends
  <2> QED BY <1>1, <2>2, <2>3
<1> QED BY <1>3, <1>4 DEF Good

LEMMA GoodAlways == HistorySpec => []Good
<1>1. HistoryInit => Good
  BY HistoryAssumption DEF HistoryInit, Good, HistoryTypeOK, OneOpen, Open
<1>2. Good /\ [Calls]_historyVars => Good'
  BY StepEvolves, EvolvesKeepsGood
<1> QED BY <1>1, <1>2, PTL DEF HistorySpec

(***************************************************************************)
(* At most one print is open, and it is the newest row: RecordStart closes *)
(* every other one before it inserts.                                      *)
(***************************************************************************)
THEOREM OneOpenHolds == HistorySpec => []OneOpen
  BY GoodAlways, PTL DEF Good

(***************************************************************************)
(* No call opens a closed row again or changes its outcome, so the delete  *)
(* handler may look at the status of a row before it deletes it.           *)
(***************************************************************************)
THEOREM OutcomeIsFinalHolds == HistorySpec => OutcomeIsFinal
<1> DEFINE A == \A r \in rows : r.status # "started" =>
                  \A q \in rows' : q.id = r.id => q.status = r.status
<1>1. Good /\ [Calls]_historyVars => [A]_historyVars
  <2> SUFFICES ASSUME Good, Evolves PROVE A
    BY StepEvolves
  <2> SUFFICES ASSUME NEW r \in rows, r.status # "started",
                      NEW q \in rows', q.id = r.id
               PROVE  q.status = r.status
    OBVIOUS
  <2>1. ~Fresh(q)
    BY DEF Fresh, Good, HistoryTypeOK
  <2>2. PICK s \in rows : Descends(q, s)
    BY <2>1 DEF Evolves
  <2>3. s = r
    BY <2>2 DEF Descends, Good, HistoryTypeOK
  <2> QED BY <2>2, <2>3 DEF Descends
<1> QED BY <1>1, GoodAlways, PTL DEF HistorySpec, OutcomeIsFinal

(***************************************************************************)
(* The archive a row was given, and its file name, stay: what a reprint    *)
(* sends is what was printed.                                              *)
(***************************************************************************)
THEOREM ArchiveIsKeptHolds == HistorySpec => ArchiveIsKept
<1> DEFINE A == \A r \in rows, q \in rows' : q.id = r.id =>
                  /\ q.file = r.file
                  /\ r.archive # NoArchive => q.archive = r.archive
<1>1. Good /\ [Calls]_historyVars => [A]_historyVars
  <2> SUFFICES ASSUME Good, Evolves PROVE A
    BY StepEvolves
  <2> SUFFICES ASSUME NEW r \in rows, NEW q \in rows', q.id = r.id
               PROVE  /\ q.file = r.file
                      /\ r.archive # NoArchive => q.archive = r.archive
    OBVIOUS
  <2>1. ~Fresh(q)
    BY DEF Fresh, Good, HistoryTypeOK
  <2>2. PICK s \in rows : Descends(q, s)
    BY <2>1 DEF Evolves
  <2>3. s = r
    BY <2>2 DEF Descends, Good, HistoryTypeOK
  <2> QED BY <2>2, <2>3 DEF Descends
<1> QED BY <1>1, GoodAlways, PTL DEF HistorySpec, ArchiveIsKept

-----------------------------------------------------------------------------
(* MqttQueue.                                                              *)

InPrint == phase \in {"printing", "paused"}

StartDue == todo # <<>> /\ Head(todo).op = "start"

(* An active print is under way, or what ends it is still to be reported.  *)
Overtaken ==
  /\ ~connected => ~active
  /\ active /\ phase \in {"idle", "aborted"} => "state" \in owes
  /\ active /\ AtEnd => "progress" \in owes
  /\ phase = "paused" => step < Last
  /\ InPrint \/ recorded => file \in Names
  /\ shown # step => step = 1

(* The rows of the print, and the one that is about to be inserted.        *)
Recordings == inserted + (IF StartDue THEN 1 ELSE 0)

(* Without a reset a start is recorded once each time the print becomes    *)
(* active: at first, and again after it was marked finished too early.  At *)
(* its end the latch keeps it from becoming active once more.              *)
Counted ==
  ~reset =>
    /\ ~connected => phase = "idle" /\ ~recorded
    /\ Recordings <= misread + 1
    /\ pending \/ (InPrint /\ ~active /\ ~(latch /\ AtEnd))
         => Recordings <= misread

(* While nothing came across, the queue knows the name of the print, and   *)
(* its row is the open one.                                                *)
Own ==
  ~reset /\ ~crossed =>
    /\ InPrint /\ "name" \notin owes => lastFile = file
    /\ active => ~pending /\ lastFile = file /\ "name" \notin owes
    /\ todo # <<>> => recorded /\ Head(todo).file = file
    /\ recorded /\ ~StartDue => \A r \in Open : r.file = file

LEMMA LastReport == Last \in Nat \ {0} /\ Reports \in [1..Last -> Nat]
  BY MqttAssumption DEF Last

LEMMA Bounds ==
  /\ Last \in Nat \ {0}
  /\ MaxPrints \in Nat /\ MaxResets \in Nat /\ MaxRequests \in Nat
  BY LastReport, MqttAssumption

LEMMA UnnamedIsNamed == Unnamed \in Named /\ Names \subseteq Named
  BY DEF Named

LEMMA NormalizedTwice ==
  ASSUME NEW raw \in Nat
  PROVE  /\ Scaled(raw) \in 0..100
         /\ raw = 100 \/ raw >= 10000 => Scaled(raw) = 100
<1>1. CASE raw <= 100
  BY <1>1 DEF NormalizeProgress, Scaled
<1>2. CASE raw > 100 /\ raw < 10000
  <2>1. NormalizeProgress(raw) = raw \div 100 /\ raw \div 100 \in 0..99
    BY <1>2 DEF NormalizeProgress
  <2> QED BY <1>2, <2>1 DEF NormalizeProgress, Scaled
<1>3. CASE raw >= 10000
  <2>1. NormalizeProgress(raw) = 100
    BY <1>3 DEF NormalizeProgress
  <2> QED BY <2>1 DEF NormalizeProgress, Scaled
<1> QED BY <1>1, <1>2, <1>3

(* What is shown at the end of a print is its end.                         *)
LEMMA EndIsComplete ==
  ASSUME QueueTypeOK, Overtaken
  PROVE  Percent \in 0..100 /\ (step = Last => Percent = 100)
<1>1. shown \in 1..Last /\ step \in 1..Last
  BY DEF QueueTypeOK
<1>2. Reports[shown] \in Nat
  BY <1>1, LastReport
<1>3. Percent \in 0..100
  BY <1>2, NormalizedTwice DEF Percent
<1>4. ASSUME step = Last PROVE Percent = 100
  <2>1. shown = Last
    BY <1>1, <1>4, Bounds DEF Overtaken
  <2>2. Reports[Last] = 100 \/ Reports[Last] >= 10000
    BY MqttAssumption DEF Last
  <2> QED BY <1>2, <2>1, <2>2, NormalizedTwice DEF Percent
<1> QED BY <1>3, <1>4

LEMMA PairOf ==
  ASSUME NEW s, NEW f
  PROVE  <<s>> \o <<f>> = <<s, f>>
<1> DEFINE S == {s, f}
<1>1. <<s>> \in Seq(S) /\ <<f>> \in Seq(S) /\ <<s, f>> \in Seq(S)
  OBVIOUS
<1>2. /\ Len(<<s>> \o <<f>>) = 2
      /\ \A i \in 1..2 : (<<s>> \o <<f>>)[i] = <<s, f>>[i]
  BY <1>1, ConcatProperties
<1>3. <<s>> \o <<f>> \in Seq(S)
  BY <1>1, ConcatProperties
<1> QED BY <1>1, <1>2, <1>3, SeqEqual

LEMMA MakeTodos ==
  ASSUME NEW f \in Named
  PROVE  /\ <<>> \in Todos
         /\ <<Call("start", f)>> \in Todos /\ <<Call("finish", f)>> \in Todos
         /\ <<Call("start", f), Call("finish", f)>> \in Todos
BY DEF Todos

(* What a handler leaves to do.                                            *)
LEMMA HandlerTodos ==
  ASSUME NEW starts \in BOOLEAN, NEW over \in BOOLEAN, NEW name \in Named,
         NEW new, new = If(starts, <<Call("start", name)>>)
                        \o If(over, <<Call("finish", name)>>)
  PROVE  /\ new \in Todos
         /\ new # <<>> <=> starts \/ over
         /\ new # <<>> => Head(new).file = name
         /\ new # <<>> => (Head(new).op = "start" <=> starts)
<1> DEFINE s == Call("start", name)
           f == Call("finish", name)
<1>1. s.op = "start" /\ s.file = name /\ f.op = "finish" /\ f.file = name
  BY DEF Call
<1>2. /\ <<>> \in Todos /\ <<s>> \in Todos /\ <<f>> \in Todos
      /\ <<s, f>> \in Todos
  BY MakeTodos
<1>3. new = If(starts, <<s>>) \o If(over, <<f>>)
  OBVIOUS
<1> HIDE DEF s, f
<1>4. /\ <<s>> \o <<f>> = <<s, f>> /\ <<s>> \o <<>> = <<s>>
      /\ <<>> \o <<f>> = <<f>> /\ <<>> \o <<>> = <<>>
  BY PairOf
<1>5. /\ <<s, f>> # <<>> /\ Head(<<s, f>>) = s
      /\ <<s>> # <<>> /\ Head(<<s>>) = s
      /\ <<f>> # <<>> /\ Head(<<f>>) = f
  OBVIOUS
<1>6. CASE starts /\ over
  <2>1. new = <<s, f>>
    BY <1>3, <1>4, <1>6 DEF If
  <2> QED BY <1>1, <1>2, <1>5, <1>6, <2>1
<1>7. CASE starts /\ ~over
  <2>1. new = <<s>>
    BY <1>3, <1>4, <1>7 DEF If
  <2> QED BY <1>1, <1>2, <1>5, <1>7, <2>1
<1>8. CASE ~starts /\ over
  <2>1. new = <<f>>
    BY <1>3, <1>4, <1>8 DEF If
  <2> QED BY <1>1, <1>2, <1>5, <1>8, <2>1
<1>9. CASE ~starts /\ ~over
  <2>1. new = <<>>
    BY <1>3, <1>4, <1>9 DEF If
  <2> QED BY <1>2, <1>9, <2>1
<1> QED BY <1>6, <1>7, <1>8, <1>9

LEMMA WithoutTodo == <<>> \in Todos
  BY DEF Todos

LEMMA OneTodo ==
  ASSUME NEW cond \in BOOLEAN, NEW f \in Named,
         NEW new, new = If(cond, <<Call("start", f)>>)
  PROVE  /\ new \in Todos
         /\ new # <<>> <=> cond
         /\ new # <<>> => Head(new).file = f /\ Head(new).op = "start"
<1>1. <<Call("start", f)>> \in Todos /\ <<>> \in Todos
  BY DEF Todos
<1>2. Head(<<Call("start", f)>>).file = f /\ Head(<<Call("start", f)>>).op = "start"
      /\ <<Call("start", f)>> # <<>>
  BY DEF Call
<1> QED BY <1>1, <1>2 DEF If

LEMMA TodosShrink ==
  ASSUME todo \in Todos, todo # <<>>
  PROVE  /\ Head(todo).op \in {"start", "finish"} /\ Head(todo).file \in Named
         /\ Tail(todo) \in Todos
         /\ Tail(todo) # <<>> => /\ Head(Tail(todo)).op = "finish"
                                /\ Head(Tail(todo)).file = Head(todo).file
<1>1. ASSUME NEW op \in {"start", "finish"}, NEW f \in Named, todo = <<Call(op, f)>>
      PROVE  /\ Head(todo).op = op /\ Head(todo).file = f
             /\ Tail(todo) = <<>>
  BY <1>1 DEF Call
<1>2. ASSUME NEW f \in Named, todo = <<Call("start", f), Call("finish", f)>>
      PROVE  /\ Head(todo).op = "start" /\ Head(todo).file = f
             /\ Tail(todo) = <<Call("finish", f)>>
             /\ Head(Tail(todo)).op = "finish" /\ Head(Tail(todo)).file = f
  BY <1>2 DEF Call
<1>3. CASE \E op \in {"start", "finish"}, f \in Named : todo = <<Call(op, f)>>
  BY <1>1, <1>3, WithoutTodo
<1>4. CASE \E f \in Named : todo = <<Call("start", f), Call("finish", f)>>
  BY <1>2, <1>4 DEF Todos
<1> QED BY <1>3, <1>4 DEF Todos

-----------------------------------------------------------------------------
(* Typing.                                                                 *)

LEMMA QueueInit == ASSUME Init PROVE QueueTypeOK
<1>1. todo \in Todos
  BY WithoutTodo DEF Init
<1>2. step \in 1..Last /\ shown \in 1..Last
      /\ prints \in 0..MaxPrints /\ resets \in 0..MaxResets
      /\ requests \in 0..MaxRequests
  BY Bounds DEF Init
<1>3. phase \in Phases
  BY DEF Init, Phases
<1> QED BY <1>1, <1>2, <1>3, UnnamedIsNamed DEF Init, QueueTypeOK

LEMMA PrinterTyped == ASSUME QueueTypeOK, PrinterStep PROVE QueueTypeOK'
<1> USE UnnamedIsNamed, Bounds
<1>1. ASSUME NEW f \in Names, PrinterStarts(f) PROVE QueueTypeOK'
  <2>1. reset' \in BOOLEAN /\ crossed' \in BOOLEAN
    BY <1>1 DEF PrinterStarts
  <2>2. prints' \in 0..MaxPrints
    BY <1>1 DEF PrinterStarts, QueueTypeOK
  <2>3. step' \in 1..Last /\ phase' \in Phases /\ file' \in Named
        /\ owes' \subseteq {"name", "state", "progress"}
    BY <1>1 DEF PrinterStarts, Phases
  <2>4. shown' \in 1..Last
    BY <1>1 DEF PrinterStarts, QueueTypeOK
  <2> QED BY <1>1, <2>1, <2>2, <2>3, <2>4 DEF PrinterStarts, queue, QueueTypeOK
<1>2. CASE PrinterAdvances \/ PrinterRefreshes
  <2>1. step' \in 1..Last /\ shown' \in 1..Last
    <3>1. step \in 1..Last /\ shown \in 1..Last
      BY DEF QueueTypeOK
    <3>2. CASE PrinterAdvances
      BY <3>1, <3>2 DEF PrinterAdvances
    <3>3. CASE PrinterRefreshes
      BY <3>1, <3>3 DEF PrinterRefreshes
    <3> QED BY <1>2, <3>2, <3>3
  <2>2. owes' \subseteq {"name", "state", "progress"}
    BY <1>2 DEF PrinterAdvances, PrinterRefreshes, QueueTypeOK
  <2> QED BY <1>2, <2>1, <2>2 DEF PrinterAdvances, PrinterRefreshes, queue,
                                  bounds, history, QueueTypeOK
<1>3. ASSUME NEW to \in Phases, PrinterTurns(to) PROVE QueueTypeOK'
  BY <1>3 DEF PrinterTurns, queue, bounds, history, QueueTypeOK
<1> QED BY <1>1, <1>2, <1>3 DEF PrinterStep, PrinterPauses, PrinterResumes,
           PrinterAborts, PrinterIdles, Phases

LEMMA CT1044Typed == ASSUME QueueTypeOK, HandleCT1044 PROVE QueueTypeOK'
<1>1. todo' \in Todos
  BY OneTodo DEF HandleCT1044, QueueTypeOK
<1> QED BY <1>1 DEF HandleCT1044, NoteName, bounds, QueueTypeOK

LEMMA CT1000Typed == ASSUME QueueTypeOK, HandleCT1000 PROVE QueueTypeOK'
<1>1. todo' \in Todos
  BY OneTodo, WithoutTodo
  DEF HandleCT1000, Handling, StatePrinting, StatePrintingIgnored, StatePaused,
      StateOver, QueueTypeOK
<1>2. /\ active' \in BOOLEAN /\ pending' \in BOOLEAN /\ latch' \in BOOLEAN
      /\ recorded' \in BOOLEAN
      /\ stat' \in Phases \cup {"unknown"}
  BY DEF HandleCT1000, StatePrinting, StatePrintingIgnored, StatePaused,
      StateOver, QueueTypeOK, Phases
<1> QED BY <1>1, <1>2 DEF HandleCT1000, bounds, QueueTypeOK

(* What a progress report leaves to do.                                    *)
LEMMA ScheduleTodo ==
  ASSUME QueueTypeOK, NEW named \in BOOLEAN, HandlePrintSchedule(named)
  PROVE  /\ todo' \in Todos
         /\ todo' # <<>> <=> (named /\ active /\ pending) \/ (Complete /\ active)
         /\ todo' # <<>> => Head(todo').file = IF named THEN file ELSE lastFile
         /\ todo' # <<>> =>
              (Head(todo').op = "start" <=> named /\ active /\ pending)
<1> DEFINE starts == named /\ active /\ pending
           name   == IF named THEN file ELSE lastFile
           over   == Complete /\ active
           new(x) == /\ x \in Todos
                     /\ x # <<>> <=> starts \/ over
                     /\ x # <<>> => Head(x).file = name
                     /\ x # <<>> => (Head(x).op = "start" <=> starts)
<1>1. starts \in BOOLEAN /\ name \in Named /\ over \in BOOLEAN
  BY DEF QueueTypeOK, Complete
<1>2. todo' = If(starts, <<Call("start", name)>>)
              \o If(over, <<Call("finish", name)>>)
  BY DEF HandlePrintSchedule
<1>3. new(todo')
  <2> HIDE DEF starts, name, over
  <2>1. \A x : x = If(starts, <<Call("start", name)>>)
                   \o If(over, <<Call("finish", name)>>) => new(x)
    BY <1>1, HandlerTodos
  <2> QED BY <1>2, <2>1
<1> QED BY <1>3

LEMMA ScheduleTyped ==
  ASSUME QueueTypeOK, NEW named \in BOOLEAN, HandlePrintSchedule(named)
  PROVE  QueueTypeOK'
<1>1. todo' \in Todos
  BY ScheduleTodo
<1>2. /\ active' \in BOOLEAN /\ pending' \in BOOLEAN /\ latch' \in BOOLEAN
      /\ recorded' \in BOOLEAN
      /\ stat' \in Phases \cup {"unknown"} /\ lastFile' \in Named
  BY DEF HandlePrintSchedule, MarkFinished, StillLatched, NoteName,
         QueueTypeOK, Phases
<1>3. misread' \in Nat
  <2>1. misread' \in {misread, misread + 1}
    BY DEF HandlePrintSchedule
  <2> QED BY <2>1 DEF QueueTypeOK
<1> QED BY <1>1, <1>2, <1>3 DEF HandlePrintSchedule, bounds, QueueTypeOK

LEMMA QueueTyped == ASSUME QueueTypeOK, [Next]_vars PROVE QueueTypeOK'
<1> USE UnnamedIsNamed, Bounds
<1>1. CASE PrinterStep
  BY <1>1, PrinterTyped
<1>2. CASE HandleCT1044 \/ HandleCT1000
           \/ \E named \in BOOLEAN : HandlePrintSchedule(named)
  BY <1>2, CT1044Typed, CT1000Typed, ScheduleTyped
<1>3. CASE HistoryCall
  <2>1. todo' \in Todos /\ inserted' \in Nat
    BY <1>3, TodosShrink DEF HistoryCall, QueueTypeOK
  <2> QED BY <1>3, <2>1 DEF HistoryCall, queue, printer, bounds, QueueTypeOK
<1>4. CASE WorkerStart \/ WorkerStop \/ LoseReports
  <2>1. resets' \in 0..MaxResets
    BY <1>4 DEF WorkerStart, WorkerStop, LoseReports, bounds, QueueTypeOK
  <2>2. /\ connected' \in BOOLEAN /\ active' \in BOOLEAN /\ pending' \in BOOLEAN
        /\ latch' \in BOOLEAN /\ reset' \in BOOLEAN
        /\ lastFile' \in Named /\ stat' \in Phases \cup {"unknown"}
        /\ owes' \subseteq {"name", "state", "progress"}
    BY <1>4 DEF WorkerStart, WorkerStop, LoseReports, ResetPrintState, queue,
                printer, history, QueueTypeOK
  <2> QED BY <1>4, <2>1, <2>2
          DEF WorkerStart, WorkerStop, LoseReports, queue, printer, bounds,
              history, QueueTypeOK
<1>5. ASSUME NEW f \in Names, NEW a, UploadRecorded(f, a) PROVE QueueTypeOK'
  BY <1>5 DEF UploadRecorded, queue, printer, QueueTypeOK
<1>6. ASSUME NEW f \in Names, StartStoredFile(f) PROVE QueueTypeOK'
  BY <1>6 DEF StartStoredFile, queue, printer, QueueTypeOK
<1>7. CASE StoredFileSelected
  BY <1>7 DEF StoredFileSelected, printer, bounds, QueueTypeOK
<1>8. CASE DeleteSelected \/ Clear \/ UNCHANGED vars
  BY <1>8 DEF DeleteSelected, Clear, vars, queue, printer, bounds, history,
              QueueTypeOK
<1> QED BY <1>1, <1>2, <1>3, <1>4, <1>5, <1>6, <1>7, <1>8
        DEF Next, QueueStep, UserStep

-----------------------------------------------------------------------------
(* The table is touched only as PrintHistory has it.                       *)

LEMMA NamesAreFiles == Named \subseteq Files /\ Names \subseteq Files
  BY HistoryAssumption, MqttAssumption DEF Named, Names

LEMMA StepCalls ==
  ASSUME Good, QueueTypeOK, [Next]_vars
  PROVE  [Calls]_historyVars
<1>1. CASE PrinterStep
  BY <1>1 DEF PrinterStep, PrinterStarts, PrinterAdvances, PrinterRefreshes,
     PrinterTurns,
     PrinterPauses, PrinterResumes, PrinterAborts, PrinterIdles
<1>2. CASE HandleCT1044 \/ HandleCT1000
           \/ (\E named \in BOOLEAN : HandlePrintSchedule(named))
           \/ WorkerStart \/ WorkerStop \/ LoseReports
  BY <1>2 DEF HandleCT1044, HandleCT1000, HandlePrintSchedule, WorkerStart,
     WorkerStop, LoseReports
<1>3. CASE HistoryCall
  <2>1. Head(todo).file \in Files
    BY <1>3, TodosShrink, NamesAreFiles DEF HistoryCall, QueueTypeOK
  <2> QED BY <1>3, <2>1 DEF HistoryCall, Calls
<1>4. ASSUME NEW f \in Names, NEW a \in Archives, UploadRecorded(f, a)
      PROVE  Calls
  BY <1>4, NamesAreFiles DEF UploadRecorded, Calls
<1>5. CASE (\E f \in Names : StartStoredFile(f)) \/ StoredFileSelected
  BY <1>5 DEF StartStoredFile, StoredFileSelected
<1>6. CASE DeleteSelected
  <2>1. PICK r \in rows : DeleteEntries({r.id})
    BY <1>6 DEF DeleteSelected
  <2>2. r.id \in 1..MaxInserts
    BY HistoryAssumption DEF Good, HistoryTypeOK
  <2> QED BY <2>1, <2>2 DEF Calls
<1>7. CASE Clear
  BY <1>7 DEF Clear, Calls
<1>8. CASE UNCHANGED vars
  BY <1>8 DEF vars
<1> QED BY <1>1, <1>2, <1>3, <1>4, <1>5, <1>6, <1>7, <1>8
        DEF Next, QueueStep, UserStep

LEMMA GoodWithQueue == Spec => [](Good /\ QueueTypeOK)
<1>1. Init => Good /\ QueueTypeOK
  <2>1. HistoryInit => Good
    BY HistoryAssumption DEF HistoryInit, Good, HistoryTypeOK, OneOpen, Open
  <2> QED BY <2>1, QueueInit DEF Init
<1>2. Good /\ QueueTypeOK /\ [Next]_vars => Good' /\ QueueTypeOK'
  BY StepCalls, StepEvolves, EvolvesKeepsGood, QueueTyped
<1> QED BY <1>1, <1>2, PTL DEF Spec

(***************************************************************************)
(* The queue keeps its state and the table well typed.                     *)
(***************************************************************************)
THEOREM TypeCorrect == Spec => []TypeOK
  BY GoodWithQueue, PTL DEF Good, TypeOK

(***************************************************************************)
(* Whatever the reports, the connection and the users do, the table goes   *)
(* only through the calls of PrintHistory: MqttQueue implements it, and    *)
(* with it every theorem about it.                                         *)
(***************************************************************************)
THEOREM QueueImplementsHistory == Spec => HistorySpec
<1>1. Init => HistoryInit
  BY DEF Init
<1>2. Good /\ QueueTypeOK /\ [Next]_vars => [Calls]_historyVars
  BY StepCalls
<1> QED BY <1>1, <1>2, GoodWithQueue, PTL DEF Spec, HistorySpec

-----------------------------------------------------------------------------
(* The print is followed.                                                  *)

Follows == QueueTypeOK /\ Overtaken /\ StartIsNeverLost /\ Counted

LEMMA FollowsInit == Init => Follows
<1> SUFFICES ASSUME Init PROVE Overtaken /\ StartIsNeverLost /\ Counted
  BY QueueInit DEF Follows
<1> QED BY DEF Init, Overtaken, StartIsNeverLost, Counted, Recordings, InPrint, AtEnd,
           StartDue

LEMMA PrinterFollowed == ASSUME Follows, PrinterStep PROVE Follows'
<1> USE DEF Follows
<1>1. QueueTypeOK'
  BY PrinterTyped
<1>2. ASSUME NEW f \in Names, PrinterStarts(f)
      PROVE  Overtaken' /\ StartIsNeverLost' /\ Counted'
  <2>1. ~active /\ todo = <<>>
    BY <1>2 DEF PrinterStarts, Settled, Overtaken
  <2>2. /\ phase' = "printing" /\ file' = f /\ ~recorded' /\ inserted' = 0
        /\ step' = 1 /\ misread' = 0 /\ (reset' <=> ~connected)
        /\ UNCHANGED <<connected, active, pending, latch, todo>>
    BY <1>2 DEF PrinterStarts, queue
  <2> QED BY <2>1, <2>2
          DEF Overtaken, StartIsNeverLost, Counted, Recordings, InPrint, AtEnd,
              StartDue
<1>5. CASE PrinterRefreshes
  <2>1. /\ shown' = step
        /\ UNCHANGED <<connected, active, pending, latch, todo, phase, file,
                       step, owes, recorded, inserted, misread, reset>>
    BY <1>5 DEF PrinterRefreshes, queue, history
  <2> QED BY <1>1, <2>1
          DEF Overtaken, StartIsNeverLost, Counted, Recordings, InPrint, AtEnd,
              StartDue
<1>3. CASE PrinterAdvances
  <2>1. /\ todo = <<>> /\ phase = "printing" /\ step < Last
        /\ owes' = IF step' = Last THEN {"progress"} ELSE {}
        /\ shown' = step'
        /\ UNCHANGED <<connected, active, pending, latch, todo, phase, file,
                       recorded, inserted, misread, reset>>
    BY <1>3 DEF PrinterAdvances, queue, history, Settled
  <2>2. step # Last /\ step' \in Nat
    BY <1>3, <2>1, Bounds DEF PrinterAdvances, QueueTypeOK
  <2>3. Overtaken'
    BY <2>1, <2>2 DEF Overtaken, InPrint, AtEnd
  <2>4. StartIsNeverLost'
    BY <2>1 DEF StartIsNeverLost
  <2>5. Recordings' = Recordings /\ ~AtEnd
    BY <2>1, <2>2 DEF Recordings, StartDue, AtEnd
  <2>6. Counted'
    BY <2>1, <2>5 DEF Counted, InPrint
  <2> QED BY <1>1, <2>3, <2>4, <2>6
<1>4. ASSUME NEW to \in Phases, PrinterTurns(to),
             UnderWay \/ phase = "paused" \/ to = "idle",
             to \in {"printing", "paused"} => InPrint,
             to = "idle" => AtEnd \/ phase = "aborted"
      PROVE  Overtaken' /\ StartIsNeverLost' /\ Counted'
  <2>1. /\ todo = <<>> /\ phase' = to /\ owes' = {"state"}
        /\ UNCHANGED <<connected, active, pending, latch, todo, file, step,
                       shown, recorded, inserted, misread, reset>>
    BY <1>4 DEF PrinterTurns, queue, history, Settled
  <2>2. to # "idle" => step < Last
    BY <1>4 DEF UnderWay, Overtaken
  <2>3. step \in Nat /\ Last \in Nat
    BY Bounds DEF QueueTypeOK
  <2>4. Overtaken'
    BY <1>4, <2>1, <2>2, <2>3 DEF Overtaken, InPrint, AtEnd, UnderWay
  <2>5. StartIsNeverLost'
    BY <2>1 DEF StartIsNeverLost
  <2>6. Counted'
    BY <1>4, <2>1, <2>2, <2>3
    DEF Counted, Recordings, InPrint, AtEnd, StartDue, UnderWay
  <2> QED BY <2>4, <2>5, <2>6
<1> QED BY <1>1, <1>2, <1>3, <1>4, <1>5
        DEF PrinterStep, PrinterPauses, PrinterResumes, PrinterAborts,
            PrinterIdles, Phases, InPrint, UnderWay

LEMMA CT1044Followed == ASSUME Follows, HandleCT1044 PROVE Follows'
<1> USE DEF Follows
<1>1. QueueTypeOK'
  BY CT1044Typed
<1>2. todo' # <<>> <=> active /\ pending
  BY OneTodo DEF HandleCT1044, QueueTypeOK
<1>3. /\ todo = <<>> /\ InPrint
      /\ (recorded' <=> recorded \/ (active /\ pending)) /\ ~pending'
      /\ owes' = owes \ {"name"}
      /\ UNCHANGED <<connected, active, latch, phase, file, step, shown,
                     inserted, misread, reset>>
  BY DEF HandleCT1044, Handling, InPrint
<1>4. todo' # <<>> => Head(todo').op = "start"
  BY OneTodo DEF HandleCT1044, QueueTypeOK
<1>5. Overtaken' /\ StartIsNeverLost'
  BY <1>3 DEF Overtaken, StartIsNeverLost, InPrint, AtEnd
<1>7. inserted \in Nat /\ misread \in Nat
  BY DEF QueueTypeOK
<1>6. /\ Recordings = inserted
      /\ Recordings' = inserted + (IF active /\ pending THEN 1 ELSE 0)
  <2>1. ~StartDue /\ (StartDue' <=> active /\ pending)
    BY <1>2, <1>3, <1>4 DEF StartDue
  <2>2. inserted' = inserted
    BY <1>3
  <2> QED BY <1>7, <2>1, <2>2 DEF Recordings
<1>8. ~reset => /\ Recordings' <= misread + 1
                /\ ~(active /\ pending) => Recordings' = Recordings
  BY <1>6, <1>7 DEF Counted
<1>9. Counted'
  BY <1>3, <1>8 DEF Counted, InPrint, AtEnd
<1> QED BY <1>1, <1>5, <1>9

LEMMA CT1000Followed == ASSUME Follows, HandleCT1000 PROVE Follows'
<1> USE DEF Follows
<1>1. QueueTypeOK'
  BY CT1000Typed
<1>2. /\ todo = <<>> /\ connected
      /\ owes' = (owes \ {"state"}) \cup (IF AtEnd THEN {"progress"} ELSE {})
      /\ UNCHANGED <<connected, phase, file, step, shown, inserted, misread,
                     reset>>
  BY DEF HandleCT1000, Handling
<1>3. CASE StatePrinting /\ ~active
  <2>1. todo' # <<>> <=> lastFile # Unnamed
    BY <1>3, OneTodo DEF StatePrinting, QueueTypeOK
  <2>2. /\ phase = "printing" /\ ~latch /\ active' /\ ~latch'
        /\ (pending' <=> pending \/ lastFile = Unnamed)
        /\ (recorded' <=> recorded \/ lastFile # Unnamed)
    BY <1>3 DEF StatePrinting
  <2>3. Overtaken'
    BY <1>2, <2>2 DEF Overtaken, InPrint, AtEnd
  <2>4. ~pending
    BY <1>3 DEF StartIsNeverLost
  <2>5. ~reset => inserted <= misread
    <3>1. Recordings = inserted
      BY <1>2 DEF Recordings, StartDue, QueueTypeOK
    <3> QED BY <1>3, <2>2, <3>1 DEF Counted, InPrint
  <2>6. StartIsNeverLost'
    BY <2>2, <2>4 DEF StartIsNeverLost
  <2>7. Counted'
    BY <1>1, <1>2, <2>1, <2>2, <2>4, <2>5
    DEF Counted, Recordings, InPrint, StartDue, QueueTypeOK
  <2> QED BY <1>1, <2>3, <2>6, <2>7
<1>4. CASE active /\ StatePrinting
  <2>1. /\ phase = "printing" /\ ~latch /\ active'
        /\ UNCHANGED <<pending, todo, recorded, latch>>
    BY <1>4 DEF StatePrinting
  <2> QED BY <1>1, <1>2, <1>4, <2>1
          DEF Overtaken, StartIsNeverLost, Counted, Recordings, InPrint, AtEnd,
              StartDue
<1>5. CASE StatePrintingIgnored \/ StatePaused
  <2>1. /\ InPrint
        /\ UNCHANGED <<active, pending, todo, recorded, latch>>
    BY <1>5 DEF StatePrintingIgnored, StatePaused, InPrint
  <2> QED BY <1>1, <1>2, <2>1
          DEF Overtaken, StartIsNeverLost, Counted, Recordings, InPrint, AtEnd,
              StartDue
<1>6. CASE StateOver
  <2>1. /\ phase \in {"idle", "aborted"} /\ ~active' /\ ~pending' /\ ~latch'
        /\ UNCHANGED <<todo, recorded>>
    BY <1>6 DEF StateOver
  <2> QED BY <1>1, <1>2, <2>1
          DEF Overtaken, StartIsNeverLost, Counted, Recordings, InPrint, AtEnd,
              StartDue
<1> QED BY <1>3, <1>4, <1>5, <1>6 DEF HandleCT1000

LEMMA ScheduleFollowed ==
  ASSUME Follows, NEW named \in BOOLEAN, HandlePrintSchedule(named)
  PROVE  Follows'
<1> USE DEF Follows
<1> DEFINE starts == named /\ active /\ pending
           name   == IF named THEN file ELSE lastFile
           over   == Complete /\ active
<1>1. QueueTypeOK'
  BY ScheduleTyped
<1>2. /\ todo' # <<>> <=> starts \/ over
      /\ todo' # <<>> => (Head(todo').op = "start" <=> starts)
  BY ScheduleTodo
<1>3. /\ todo = <<>> /\ connected /\ InPrint
      /\ recorded' <=> recorded \/ starts
      /\ pending' <=> pending /\ ~starts /\ ~over
      /\ misread' = IF over /\ step # Last THEN misread + 1 ELSE misread
      /\ UNCHANGED <<connected, phase, file, step, shown, inserted, reset>>
  BY DEF HandlePrintSchedule, Handling, InPrint
<1>4. step = Last => Complete
  BY EndIsComplete DEF Complete
<1>7. ~reset => Recordings <= misread + 1 /\ (pending => Recordings <= misread)
  BY DEF Counted
<1>9. inserted \in Nat /\ misread \in Nat
  BY DEF QueueTypeOK
<1>8. Recordings = inserted /\ Recordings' = inserted + (IF starts THEN 1 ELSE 0)
  <2> HIDE DEF starts, over, name
  <2>1. ~StartDue /\ (StartDue' <=> starts)
    BY <1>2, <1>3 DEF StartDue
  <2>2. inserted' = inserted
    BY <1>3
  <2> QED BY <1>9, <2>1, <2>2 DEF Recordings
<1>5. CASE over
  <2>1. ~active' /\ latch'
    BY <1>5 DEF HandlePrintSchedule, MarkFinished
  <2>2. step = Last => AtEnd
    BY <1>3, <1>5, Bounds DEF AtEnd, InPrint, Overtaken, QueueTypeOK
  <2>3. Overtaken'
    BY <1>3, <2>1 DEF Overtaken, InPrint
  <2>4. StartIsNeverLost'
    BY <1>3, <1>5, <2>1 DEF StartIsNeverLost
  <2>5. ~pending' /\ (step = Last => latch' /\ AtEnd')
    BY <1>3, <1>5, <2>1, <2>2 DEF AtEnd
  <2>6. ~reset => Recordings' <= misread' + 1
                  /\ (step # Last => Recordings' <= misread')
    BY <1>3, <1>5, <1>7, <1>8, <1>9
  <2>7. Counted'
    BY <1>3, <2>5, <2>6 DEF Counted
  <2> QED BY <1>1, <2>3, <2>4, <2>7
<1>6. CASE ~over
  <2>1. /\ UNCHANGED active
        /\ latch' => latch
        /\ step = Last => latch' = latch
        /\ active => ~AtEnd
    BY <1>4, <1>6 DEF HandlePrintSchedule, StillLatched, Complete, AtEnd,
                      QueueTypeOK
  <2>2. Overtaken'
    BY <1>3, <2>1 DEF Overtaken, InPrint, AtEnd
  <2>3. StartIsNeverLost'
    BY <1>3, <1>6, <2>1 DEF StartIsNeverLost
  <2>5. ~reset => /\ Recordings' <= misread' + 1
                  /\ ~starts => Recordings' = Recordings
    BY <1>3, <1>6, <1>7, <1>8, <1>9
  <2>4. Counted'
    BY <1>3, <1>6, <1>7, <2>1, <2>5
    DEF Counted, InPrint, AtEnd
  <2> QED BY <1>1, <2>2, <2>3, <2>4
<1> QED BY <1>5, <1>6

LEMMA CallFollowed == ASSUME Follows, HistoryCall PROVE Follows'
<1> USE DEF Follows
<1>1. QueueTypeOK'
  BY QueueTyped DEF Next, QueueStep
<1>2. /\ todo # <<>> /\ todo' = Tail(todo)
      /\ inserted' = IF nextId' # nextId THEN inserted + 1 ELSE inserted
      /\ UNCHANGED <<connected, active, pending, latch, phase, file, step,
                     shown, owes, recorded, misread, reset>>
  BY DEF HistoryCall, queue, printer
<1>3. ~StartDue => nextId' = nextId
  BY <1>2, TodosShrink
  DEF HistoryCall, StartDue, RecordFinish, CloseRow, QueueTypeOK
<1>4. ~StartDue'
  BY <1>2, TodosShrink DEF StartDue, QueueTypeOK
<1>5. Overtaken' /\ StartIsNeverLost'
  BY <1>2 DEF Overtaken, StartIsNeverLost, InPrint, AtEnd
<1>6. Counted'
  BY <1>2, <1>3, <1>4 DEF Counted, Recordings, InPrint, AtEnd, QueueTypeOK
<1> QED BY <1>1, <1>5, <1>6

LEMMA ConnectionFollowed ==
  ASSUME Follows, WorkerStart \/ WorkerStop \/ LoseReports
  PROVE  Follows'
<1> USE DEF Follows
<1>1. QueueTypeOK'
  BY QueueTyped DEF Next, QueueStep
<1>2. CASE WorkerStart
  <2>1. /\ ~connected /\ ~active' /\ ~pending' /\ ~latch' /\ connected'
        /\ UNCHANGED <<todo, phase, file, step, shown, recorded, inserted,
                       misread, reset>>
    BY <1>2 DEF WorkerStart, ResetPrintState, history
  <2> QED BY <1>1, <2>1
          DEF Overtaken, StartIsNeverLost, Counted, Recordings, InPrint,
              StartDue
<1>3. CASE WorkerStop
  <2>1. /\ ~active' /\ ~pending' /\ ~latch' /\ reset'
        /\ UNCHANGED <<phase, file, step, shown, recorded>>
    BY <1>3 DEF WorkerStop, ResetPrintState, printer
  <2> QED BY <1>1, <2>1 DEF Overtaken, StartIsNeverLost, Counted, InPrint
<1>4. CASE LoseReports
  <2>1. /\ ~connected
        /\ UNCHANGED <<connected, active, pending, latch, todo, phase, file,
                       step, shown, recorded, inserted, misread, reset>>
    BY <1>4 DEF LoseReports, queue, history
  <2> QED BY <1>1, <2>1
          DEF Overtaken, StartIsNeverLost, Counted, Recordings, InPrint, AtEnd,
              StartDue
<1> QED BY <1>2, <1>3, <1>4

(* What a user does is not about the print.                                *)
LEMMA UserFollowed ==
  ASSUME Follows, UserStep \/ UNCHANGED vars
  PROVE  Follows'
<1> USE DEF Follows
<1>1. QueueTypeOK'
  BY QueueTyped DEF Next
<1>2. UNCHANGED <<connected, active, pending, latch, todo, phase, file, step,
                  shown, owes, recorded, inserted, misread, reset>>
  BY DEF UserStep, UploadRecorded, StartStoredFile, StoredFileSelected,
     DeleteSelected, Clear, vars, queue, printer, history
<1> QED BY <1>1, <1>2
        DEF Overtaken, StartIsNeverLost, Counted, Recordings, InPrint, AtEnd,
              StartDue

LEMMA AlwaysFollows == Spec => []Follows
<1>1. Follows /\ [Next]_vars => Follows'
  BY PrinterFollowed, CT1044Followed, CT1000Followed, ScheduleFollowed,
     CallFollowed, ConnectionFollowed, UserFollowed DEF Next, QueueStep
<1> QED BY <1>1, FollowsInit, PTL DEF Spec

(***************************************************************************)
(* A print is never forgotten: the one flag that says a start is still to  *)
(* be recorded is set only in an active print, and the completion latch    *)
(* never in one.                                                           *)
(***************************************************************************)
THEOREM StartIsNeverLostHolds == Spec => []StartIsNeverLost
  BY AlwaysFollows, PTL DEF Follows

(***************************************************************************)
(* However often a print is paused, resumed and reported, and whatever the *)
(* values of its reports, it has at most one row and one more for each     *)
(* report that read as complete before its end: a start is recorded once   *)
(* each time the print becomes active, and from its end until the next     *)
(* print begins the latch keeps it from becoming active again.             *)
(***************************************************************************)
THEOREM OneRowPerPrintHolds == Spec => []OneRowPerPrint
<1>1. Follows => OneRowPerPrint
  BY DEF Follows, Counted, Recordings, OneRowPerPrint, QueueTypeOK
<1> QED BY <1>1, AlwaysFollows, PTL

-----------------------------------------------------------------------------
(* The rows are those of the print.                                        *)

OpenIsOf(f) == \A r \in Open : r.file = f

(* The start of a print leaves its row open, and no other.                 *)
LEMMA StartOpens ==
  ASSUME Good, NEW f \in Names, NEW a \in Archives \cup {NoArchive},
         RecordStart(f, NoTask, a)
  PROVE  OpenIsOf(f)'
<1> f \in Files \ Placeholders
  BY DEF Names
<1>1. CASE Resumable(f, NoTask) # {} /\ UNCHANGED nextId
           /\ Replace(Newest(Resumable(f, NoTask)),
                      WithArchive(Newest(Resumable(f, NoTask)), a))
  <2> DEFINE r == Newest(ByFile(f))
  <2>1. Resumable(f, NoTask) = ByFile(f) /\ ByFile(f) \subseteq Open
    BY DEF Resumable, ByFile, Open
  <2>2. r \in Open /\ r.file = f
    BY <1>1, <2>1, NewestIsOpen DEF ByFile
  <2>3. r \in rows /\ r \in Rows
    BY <2>2 DEF Open, Good, HistoryTypeOK
  <2>4. rows' = (rows \ {r}) \cup {WithArchive(r, a)}
    BY <1>1, <2>1 DEF Replace
  <2> HIDE DEF r
  <2>5. WithArchive(r, a).file = f
    BY <2>2, <2>3, ArchiveNoted DEF Descends
  <2>6. \A q \in rows \ {r} : q.status # "started"
    <3> SUFFICES ASSUME NEW q \in rows, q # r, q.status = "started" PROVE FALSE
      OBVIOUS
    <3>1. q.id < r.id /\ r.id < q.id
      BY <2>2, <2>3 DEF Good, OneOpen, Open
    <3>2. q.id \in Nat /\ r.id \in Nat
      BY <2>3, RowFields DEF Good, HistoryTypeOK
    <3> QED BY <3>1, <3>2
  <2> QED BY <2>4, <2>5, <2>6 DEF OpenIsOf, Open
<1>2. CASE InsertRow(f, NoTask, a)
  <2> DEFINE new == [id |-> nextId, file |-> f, status |-> "started",
                     task |-> NoTask, archive |-> a]
  <2>1. rows' \subseteq Interrupted \cup {new}
    BY <1>2 DEF InsertRow, Prune
  <2>2. new.file = f
    OBVIOUS
  <2> HIDE DEF new
  <2>3. \A q \in Interrupted : q.status # "started"
    BY InterruptedRows
  <2> QED BY <2>1, <2>2, <2>3 DEF OpenIsOf, Open
<1> QED BY <1>1, <1>2 DEF RecordStart

(* No other call opens a row.                                              *)
LEMMA NoneOpens ==
  ASSUME Good, NEW f, OpenIsOf(f), Evolves, UNCHANGED nextId
  PROVE  OpenIsOf(f)'
<1> SUFFICES ASSUME NEW q \in rows', q.status = "started" PROVE q.file = f
  BY DEF OpenIsOf, Open
<1>1. ~Fresh(q)
  BY DEF Fresh, Good, HistoryTypeOK
<1>2. PICK r \in rows : Descends(q, r)
  BY <1>1 DEF Evolves
<1> QED BY <1>2 DEF Descends, OpenIsOf, Open

Owned == Good /\ Follows /\ Own

LEMMA OwnInit == Init => Own
  BY DEF Init, HistoryInit, Own, InPrint, StartDue

(* The steps that leave the table, and what is to be done to it, alone.    *)
LEMMA PrinterOwns == ASSUME Owned, PrinterStep PROVE Own'
<1> USE DEF Owned
<1>1. ASSUME NEW f \in Names, PrinterStarts(f) PROVE Own'
  <2>1. ~active /\ todo = <<>>
    BY <1>1 DEF PrinterStarts, Settled, Follows, Overtaken
  <2>2. /\ ~recorded' /\ "name" \in owes' /\ active' = active /\ todo' = todo
    BY <1>1 DEF PrinterStarts, queue
  <2> QED BY <2>1, <2>2 DEF Own, InPrint
<1>2. ASSUME PrinterAdvances \/ \E to \in Phases : PrinterTurns(to),
             InPrint' => InPrint, phase # "idle"
      PROVE  Own'
  <2>1. /\ Settled /\ "name" \notin owes'
        /\ UNCHANGED <<historyVars, active, pending, lastFile, todo, file,
                       recorded, reset, crossed>>
    BY <1>2 DEF PrinterAdvances, PrinterTurns, queue, history
  <2>2. UNCHANGED rows
    BY <2>1 DEF historyVars
  <2>3. ~reset => owes = {}
    BY <1>2, <2>1 DEF Settled, Follows, Counted
  <2> QED BY <1>2, <2>1, <2>2, <2>3 DEF Own, Open, StartDue
<1>3. CASE PrinterAdvances
  BY <1>2, <1>3 DEF PrinterAdvances, InPrint
<1>4. CASE PrinterPauses \/ PrinterResumes \/ PrinterAborts \/ PrinterIdles
  <2>1. \E to \in Phases : PrinterTurns(to) /\ phase' = to
    BY <1>4 DEF PrinterPauses, PrinterResumes, PrinterAborts, PrinterIdles,
                PrinterTurns, Phases
  <2>2. (InPrint' => InPrint) /\ phase # "idle"
    BY <1>4 DEF PrinterPauses, PrinterResumes, PrinterAborts, PrinterIdles,
                PrinterTurns, InPrint, UnderWay, AtEnd
  <2> QED BY <1>2, <2>1, <2>2
<1>5. CASE PrinterRefreshes
  <2>1. UNCHANGED <<rows, active, pending, lastFile, todo, phase, file, owes,
                    recorded, reset, crossed>>
    BY <1>5 DEF PrinterRefreshes, queue, history, historyVars
  <2> QED BY <2>1 DEF Own, InPrint, StartDue, Open
<1> QED BY <1>1, <1>3, <1>4, <1>5 DEF PrinterStep

LEMMA CT1044Owns == ASSUME Owned, HandleCT1044 PROVE Own'
<1> USE DEF Owned
<1>1. todo' # <<>> => active /\ pending /\ Head(todo').file = file
                      /\ Head(todo').op = "start"
  BY OneTodo DEF HandleCT1044, Follows, QueueTypeOK
<1>2. /\ todo = <<>> /\ lastFile' = file /\ owes' \subseteq owes /\ "name" \notin owes'
      /\ recorded' <=> recorded \/ (active /\ pending)
      /\ ~pending'
      /\ UNCHANGED <<rows, active, phase, file, reset, crossed>>
  BY DEF HandleCT1044, Handling, NoteName, historyVars
<1> QED BY <1>1, <1>2 DEF Own, InPrint, StartDue, Open

LEMMA CT1000Owns == ASSUME Owned, HandleCT1000 PROVE Own'
<1> USE DEF Owned
<1>1. /\ todo = <<>> /\ connected
      /\ "name" \in owes' <=> "name" \in owes
      /\ crossed' <=> crossed \/ "name" \in owes
      /\ UNCHANGED <<rows, lastFile, phase, file, reset>>
  BY DEF HandleCT1000, Handling, historyVars
<1>2. CASE StatePrinting /\ ~active
  <2>1. /\ todo' # <<>> <=> lastFile # Unnamed
        /\ todo' # <<>> => Head(todo').file = lastFile
                           /\ Head(todo').op = "start"
    BY <1>2, OneTodo DEF StatePrinting, Follows, QueueTypeOK
  <2>2. /\ phase = "printing" /\ ~latch /\ active'
        /\ pending' <=> pending \/ lastFile = Unnamed
        /\ recorded' <=> recorded \/ lastFile # Unnamed
    BY <1>2 DEF StatePrinting
  <2>3. ~pending
    BY <1>2 DEF Follows, StartIsNeverLost
  <2>5. ~reset' /\ ~crossed' => lastFile = file /\ file # Unnamed
    BY <1>1, <2>2, MqttAssumption DEF Own, InPrint, Follows, Overtaken, Names
  <2> QED BY <1>1, <2>1, <2>2, <2>3, <2>5 DEF Own, InPrint, StartDue
<1>3. CASE StatePrinting /\ active
  <2>1. UNCHANGED <<active, pending, todo, recorded>>
    BY <1>3 DEF StatePrinting
  <2> QED BY <1>1, <2>1 DEF Own, InPrint, StartDue, Open
<1>4. CASE StatePrintingIgnored \/ StatePaused
  <2>1. UNCHANGED <<active, pending, todo, recorded>>
    BY <1>4 DEF StatePrintingIgnored, StatePaused
  <2> QED BY <1>1, <2>1 DEF Own, InPrint, StartDue, Open
<1>5. CASE StateOver
  <2>1. ~active' /\ UNCHANGED <<todo, recorded>>
    BY <1>5 DEF StateOver
  <2> QED BY <1>1, <2>1 DEF Own, InPrint, StartDue, Open
<1> QED BY <1>2, <1>3, <1>4, <1>5 DEF HandleCT1000

LEMMA ScheduleOwns ==
  ASSUME Owned, NEW named \in BOOLEAN, HandlePrintSchedule(named)
  PROVE  Own'
<1> USE DEF Owned
<1> DEFINE starts == named /\ active /\ pending
           name   == IF named THEN file ELSE lastFile
           over   == Complete /\ active
<1>1. /\ todo' # <<>> <=> starts \/ over
      /\ todo' # <<>> => Head(todo').file = name
      /\ todo' # <<>> => (Head(todo').op = "start" <=> starts)
  BY ScheduleTodo DEF Follows
<1>2. /\ todo = <<>> /\ InPrint
      /\ recorded' <=> recorded \/ starts
      /\ pending' <=> pending /\ ~starts /\ ~over
      /\ lastFile' = name
      /\ "name" \in owes' <=> "name" \in owes /\ ~named
      /\ active' => active
      /\ UNCHANGED <<rows, phase, file, reset, crossed>>
  BY DEF HandlePrintSchedule, MarkFinished, NoteName, Handling, InPrint,
         historyVars
<1>3. active /\ ~pending => recorded
  BY DEF Follows, StartIsNeverLost
<1>4. ASSUME ~reset, ~crossed
      PROVE  /\ InPrint /\ "name" \notin owes => lastFile = file
             /\ active => ~pending /\ lastFile = file /\ "name" \notin owes
             /\ recorded => \A r \in Open : r.file = file
  BY <1>2, <1>4 DEF Own, StartDue
<1>5. Open' = Open /\ InPrint'
  BY <1>2 DEF Open, InPrint
<1>6. ASSUME ~reset, ~crossed
      PROVE  /\ name = file \/ (~named /\ ~active)
             /\ todo' # <<>> => recorded' /\ Head(todo').file = file
             /\ recorded' /\ ~StartDue' => recorded
             /\ "name" \notin owes' => lastFile' = file
  BY <1>1, <1>2, <1>3, <1>4, <1>6 DEF StartDue
<1> QED BY <1>2, <1>4, <1>5, <1>6 DEF Own

LEMMA CallOwns == ASSUME Owned, Evolves, HistoryCall PROVE Own'
<1> USE DEF Owned
<1>1. /\ todo # <<>> /\ todo' = Tail(todo)
      /\ UNCHANGED <<active, pending, lastFile, phase, file, owes, recorded,
                     reset, crossed>>
  BY DEF HistoryCall, queue, printer
<1>2. ~StartDue' /\ (todo' # <<>> => Head(todo').file = Head(todo).file)
  BY <1>1, TodosShrink DEF StartDue, Follows, QueueTypeOK
<1>3. CASE StartDue /\ ~reset /\ ~crossed
  <2>1. Head(todo).file = file /\ file \in Names
    BY <1>1, <1>3 DEF Own, Follows, Overtaken
  <2>2. RecordStart(file, NoTask, NoArchive)
    BY <1>3, <2>1 DEF HistoryCall, StartDue
  <2>3. OpenIsOf(file)'
    BY <2>1, <2>2, <1>1, StartOpens DEF OpenIsOf, Open
  <2> QED BY <1>1, <1>2, <2>3 DEF Own, InPrint, OpenIsOf
<1>4. CASE ~StartDue /\ ~reset /\ ~crossed
  <2>1. OpenIsOf(file)
    BY <1>1, <1>4 DEF Own, OpenIsOf
  <2>2. UNCHANGED nextId
    BY <1>1, <1>4, TodosShrink
    DEF HistoryCall, StartDue, RecordFinish, CloseRow, Follows, QueueTypeOK
  <2>3. OpenIsOf(file)'
    BY <1>1, <2>1, <2>2, NoneOpens DEF OpenIsOf, Open
  <2> QED BY <1>1, <1>2, <2>3 DEF Own, InPrint, OpenIsOf
<1> QED BY <1>1, <1>3, <1>4 DEF Own

LEMMA ConnectionOwns ==
  ASSUME Owned, WorkerStart \/ WorkerStop \/ LoseReports
  PROVE  Own'
<1> USE DEF Owned
<1>1. ASSUME ~reset', ~crossed' PROVE Own'
  <2>1. ~connected /\ ~reset /\ ~crossed
    BY <1>1 DEF WorkerStart, WorkerStop, LoseReports, history
  <2>2. phase = "idle" /\ ~recorded /\ ~active
    BY <2>1 DEF Follows, Counted, Overtaken
  <2>3. ~active' /\ UNCHANGED <<phase, todo, recorded>>
    BY <2>1, <2>2 DEF WorkerStart, WorkerStop, LoseReports, ResetPrintState,
                      queue, history
  <2> QED BY <2>1, <2>2, <2>3 DEF Own, InPrint
<1> QED BY <1>1 DEF Own

(* An upload of the print's own file finds the row of the print or inserts *)
(* it; another file sets crossed.                                          *)
LEMMA UserOwns ==
  ASSUME Owned, Evolves, UserStep \/ UNCHANGED vars
  PROVE  Own'
<1> USE DEF Owned
<1>1. ASSUME NEW f \in Names, NEW a \in Archives, UploadRecorded(f, a)
      PROVE  Own'
  <2>1. /\ crossed' <=> crossed \/ f # file
        /\ UNCHANGED <<active, pending, lastFile, todo, phase, file, owes,
                       recorded, reset>>
    BY <1>1 DEF UploadRecorded, queue, printer
  <2>2. OpenIsOf(f)'
    BY <1>1, StartOpens DEF UploadRecorded
  <2> QED BY <2>1, <2>2 DEF Own, InPrint, StartDue, OpenIsOf
<1>2. CASE (\E f \in Names : StartStoredFile(f)) \/ StoredFileSelected
  <2>1. crossed'
    BY <1>2 DEF StartStoredFile, StoredFileSelected
  <2> QED BY <2>1 DEF Own
<1>3. CASE DeleteSelected \/ Clear \/ UNCHANGED vars
  <2>1. UNCHANGED <<active, pending, lastFile, todo, phase, file, owes,
                    recorded, reset, crossed>>
    BY <1>3 DEF DeleteSelected, Clear, vars, queue, printer, history
  <2>2. UNCHANGED nextId
    BY <1>3 DEF DeleteSelected, Clear, vars, DeleteEntries, ClearHistory,
                historyVars
  <2>3. OpenIsOf(file) => OpenIsOf(file)'
    BY <2>1, <2>2, NoneOpens DEF OpenIsOf, Open
  <2> QED BY <2>1, <2>3 DEF Own, InPrint, StartDue, OpenIsOf
<1> QED BY <1>1, <1>2, <1>3 DEF UserStep

LEMMA AlwaysOwned == Spec => []Owned
<1>1. Init => Owned
  <2>1. Init => Good
    BY HistoryAssumption
    DEF Init, HistoryInit, Good, HistoryTypeOK, OneOpen, Open
  <2> QED BY <2>1, FollowsInit, OwnInit DEF Owned
<1>2. ASSUME Owned, [Next]_vars PROVE Owned'
  <2>1. Evolves
    BY <1>2, StepCalls, StepEvolves DEF Owned, Follows
  <2>2. Good'
    BY <1>2, <2>1, EvolvesKeepsGood DEF Owned
  <2>3. Follows'
    BY <1>2, PrinterFollowed, CT1044Followed, CT1000Followed, ScheduleFollowed,
       CallFollowed, ConnectionFollowed, UserFollowed DEF Owned, Next, QueueStep
  <2>4. Own'
    BY <1>2, <2>1, PrinterOwns, CT1044Owns, CT1000Owns, ScheduleOwns, CallOwns,
       ConnectionOwns, UserOwns DEF Next, QueueStep
  <2> QED BY <2>2, <2>3, <2>4 DEF Owned
<1> QED BY <1>1, <1>2, PTL DEF Spec

(***************************************************************************)
(* A database call names the file of the print it is about and closes no   *)
(* row of another: the call falls after the unlock, and still the row that *)
(* is open then is that of the print.  Excluded are prints during which    *)
(* the queue was reset (reset), and those that something came across       *)
(* (crossed): an upload of another file, a stored file's start, or a state *)
(* that was reported before the name, where another name is recorded.      *)
(***************************************************************************)
THEOREM RowsAreOwnHolds == Spec => RowsAreOwn
<1> DEFINE A == HistoryCall /\ ~crossed /\ ~reset =>
                  /\ Head(todo).file = file
                  /\ Head(todo).op = "finish" =>
                       \A r \in rows \ rows' : r.file = file
<1>1. ASSUME Owned PROVE A
  <2> SUFFICES ASSUME HistoryCall, ~crossed, ~reset
               PROVE  /\ Head(todo).file = file
                      /\ Head(todo).op = "finish" =>
                           \A r \in rows \ rows' : r.file = file
    OBVIOUS
  <2>1. Head(todo).file = file /\ recorded
    BY <1>1 DEF Owned, Own, HistoryCall
  <2>2. ASSUME Head(todo).op = "finish", NEW r \in rows \ rows'
        PROVE  r.file = file
    <3>1. RecordFinish(file, NoTask) /\ OpenIsOf(file)
      BY <1>1, <2>1, <2>2 DEF HistoryCall, Owned, Own, StartDue, OpenIsOf
    <3>2. Active(file, NoTask) # {} /\ r = Newest(Active(file, NoTask))
      BY <2>2, <3>1 DEF RecordFinish, CloseRow, Replace
    <3>3. Active(file, NoTask) \subseteq Open
      BY DEF Active, ByTask, ByFile, Open
    <3>4. r \in Open
      BY <1>1, <3>2, <3>3, NewestIsOpen DEF Owned
    <3> QED BY <3>1, <3>4 DEF OpenIsOf
  <2> QED BY <2>1, <2>2
<1> QED BY <1>1, AlwaysOwned, PTL DEF RowsAreOwn

=============================================================================
