------------------------- MODULE DrwChannel_proofs -------------------------
(***************************************************************************)
(* Proofs about DrwChannel: whatever the network loses, repeats and        *)
(* reorders, and however often the counters wrap, the two ends are a       *)
(* ReliableStream.  The counters are compared in windows; what the proof   *)
(* needs of the network is that nothing leaves the window Greater can tell *)
(* apart (DrwAssumption).                                                  *)
(***************************************************************************)
EXTENDS DrwChannel, FiniteSetTheorems, WellFoundedInduction,
        SequenceTheorems, TLAPS

LEMMA Retyped ==
  ASSUME NEW S, NEW T, NEW s \in Seq(S), \A i \in 1..Len(s) : s[i] \in T
  PROVE  s \in Seq(T)
OBVIOUS

LEMMA NoChunks == Len(<<>>) = 0
OBVIOUS

(* The counter value that stands for chunk n.                              *)
Wrapped(n) == n % Mod

LEMMA Widths ==
  /\ Mod \in Nat /\ Half \in Nat /\ WrapLimit \in Nat
  /\ MaxSpan \in Nat /\ MaxAge \in Nat /\ MaxOvertake \in Nat
  /\ Mod = Half + Half /\ 0 < WrapLimit
  /\ 4 * WrapLimit <= Mod
  /\ MaxSpan <= WrapLimit /\ MaxAge <= WrapLimit /\ MaxOvertake < Half
BY CyclicAssumption, DrwAssumption DEF Half

LEMMA WrapType ==
  ASSUME NEW n \in Nat
  PROVE  Wrapped(n) \in U16 /\ Wrapped(n) \in Nat /\ Wrapped(n) < Mod
BY Widths DEF Wrapped, U16

LEMMA Euclid ==
  ASSUME NEW n \in Nat, NEW m \in Nat, 0 < m
  PROVE  n \div m \in Int /\ n = m * (n \div m) + (n % m)
OBVIOUS

LEMMA Multiple ==
  ASSUME NEW q \in Int, NEW m \in Nat, -m < m * q, m * q < 2 * m
  PROVE  q = 0 \/ q = 1
<1>1. CASE q >= 2
  <2>1. m * (q - 2) >= 0
    BY <1>1
  <2> QED BY <2>1
<1>2. CASE q <= -1
  <2>1. m * (-1 - q) >= 0
    BY <1>2
  <2> QED BY <2>1
<1> QED BY <1>1, <1>2

(* Two chunks less than a round apart: how far their counters are apart.   *)
LEMMA WrapApart ==
  ASSUME NEW n \in Nat, NEW m \in Nat, m <= n, n < m + Mod
  PROVE  Wrapped(n) - Wrapped(m) \in {n - m, n - m - Mod}
<1> DEFINE a == n \div Mod
           b == m \div Mod
<1>1. /\ a \in Int /\ b \in Int
      /\ n = Mod * a + Wrapped(n) /\ m = Mod * b + Wrapped(m)
  <2>1. 0 < Mod /\ Mod \in Nat
    BY Widths
  <2>2. a \in Int /\ n = Mod * a + Wrapped(n)
    BY <2>1, Euclid DEF Wrapped
  <2>3. b \in Int /\ m = Mod * b + Wrapped(m)
    BY <2>1, Euclid DEF Wrapped
  <2> QED BY <2>2, <2>3
<1>2. /\ Wrapped(n) \in Int /\ Wrapped(m) \in Int
      /\ 0 <= Wrapped(n) /\ Wrapped(n) < Mod /\ 0 <= Wrapped(m) /\ Wrapped(m) < Mod
  BY WrapType
<1> HIDE DEF a, b
<1>3. Mod * (a - b) = (n - m) - (Wrapped(n) - Wrapped(m))
  BY <1>1, <1>2, Widths
<1>4. a - b = 0 \/ a - b = 1
  <2>1. a - b \in Int
    BY <1>1
  <2>2. -Mod < Mod * (a - b) /\ Mod * (a - b) < 2 * Mod
    BY <1>2, <1>3, Widths
  <2> QED BY <2>1, <2>2, Widths, Multiple
<1>5. Mod * 0 = 0 /\ Mod * 1 = Mod
  BY Widths
<1>6. Wrapped(n) - Wrapped(m) = n - m \/ Wrapped(n) - Wrapped(m) = n - m - Mod
  <2>1. Mod * (a - b) = 0 \/ Mod * (a - b) = Mod
    BY <1>4, <1>5
  <2> QED BY <1>2, <1>3, <2>1, Widths
<1> QED BY <1>6

LEMMA WrapSame ==
  ASSUME NEW n \in Nat, NEW m \in Nat, m < n + Mod, n < m + Mod,
         Wrapped(n) = Wrapped(m)
  PROVE  n = m
<1> Wrapped(n) \in Int /\ Wrapped(n) - Wrapped(m) = 0 /\ Wrapped(m) - Wrapped(n) = 0
  BY WrapType
<1>1. CASE m <= n
  <2>1. 0 \in {n - m, n - m - Mod}
    BY <1>1, WrapApart
  <2> QED BY <2>1, Widths
<1>2. CASE n <= m
  <2>1. 0 \in {m - n, m - n - Mod}
    BY <1>2, WrapApart
  <2> QED BY <2>1, Widths
<1> QED BY <1>1, <1>2

LEMMA WrapAdd ==
  ASSUME NEW n \in Nat, NEW k \in Nat, k < Mod
  PROVE  Add(Wrapped(n), k) = Wrapped(n + k)
<1>1. Wrapped(n + k) - Wrapped(n) \in {k, k - Mod}
  BY WrapApart, Widths
<1> QED BY <1>1, WrapType, Widths DEF Add

LEMMA WrapDiff ==
  ASSUME NEW n \in Nat, NEW m \in Nat, m <= n, n < m + Mod
  PROVE  /\ Diff(Wrapped(m), Wrapped(n)) = n - m
         /\ m < n => Diff(Wrapped(n), Wrapped(m)) = Mod - (n - m)
<1>1. /\ Wrapped(n) \in Nat /\ Wrapped(m) \in Nat
      /\ Wrapped(n) < Mod /\ Wrapped(m) < Mod
  BY WrapType
<1>2. Wrapped(n) - Wrapped(m) = n - m \/ Wrapped(n) - Wrapped(m) = n - m - Mod
  BY WrapApart
<1> QED BY <1>1, <1>2, Widths DEF Diff, Sub

(* IsAfterOrEqual is right about chunks less than half a round apart.      *)
LEMMA AfterOrEqualRight ==
  ASSUME NEW n \in Nat, NEW m \in Nat, n < m + Half, m < n + Half
  PROVE  IsAfterOrEqual(Wrapped(m), Wrapped(n)) <=> m <= n
<1>1. CASE m <= n
  BY <1>1, WrapDiff, WrapSame, Widths DEF IsAfterOrEqual, IsAfter
<1>2. CASE n < m
  <2>1. Diff(Wrapped(m), Wrapped(n)) = Mod - (m - n)
    BY <1>2, WrapDiff, Widths
  <2>2. Wrapped(m) # Wrapped(n)
    BY <1>2, WrapSame, Widths
  <2> QED BY <1>2, <2>1, <2>2, Widths DEF IsAfterOrEqual, IsAfter
<1> QED BY <1>1, <1>2

(* Greater is right about chunks no further apart than the wrap window.    *)
LEMMA GreaterRight ==
  ASSUME NEW n \in Nat, NEW m \in Nat,
         n <= m + WrapLimit, m <= n + WrapLimit
  PROVE  Greater(Wrapped(n), Wrapped(m)) <=> n > m
<1>1. /\ Wrapped(n) \in Nat /\ Wrapped(m) \in Nat
      /\ Wrapped(n) < Mod /\ Wrapped(m) < Mod
  BY WrapType
<1>2. CASE m <= n
  <2>1. Wrapped(n) - Wrapped(m) = n - m \/ Wrapped(n) - Wrapped(m) = n - m - Mod
    BY <1>2, WrapApart, Widths
  <2> QED BY <1>1, <1>2, <2>1, Widths DEF Greater, AcrossHalves, Sub
<1>3. CASE n <= m
  <2>1. Wrapped(m) - Wrapped(n) = m - n \/ Wrapped(m) - Wrapped(n) = m - n - Mod
    BY <1>3, WrapApart, Widths
  <2> QED BY <1>1, <1>3, <2>1, Widths DEF Greater, AcrossHalves, Sub
<1> QED BY <1>2, <1>3

(* A set of counters, all within one round from chunk n on.                *)
Near(set, n, span) == \A x \in set : \E d \in n..(n + span - 1) : x = Wrapped(d)

LEMMA LeastMissing ==
  ASSUME NEW S \in SUBSET Nat, S # {}
  PROVE  \E x \in S : \A y \in S : x <= y
<1> DEFINE less == OpToRel(<, Nat)
<1>1. IsWellFoundedOn(less, Nat)
  BY NatLessThanWellFounded
<1>2. \A x, y \in Nat : y < x => <<y, x>> \in less
  BY DEF OpToRel
<1> HIDE DEF less
<1>3. PICK x \in S : \A y \in S : ~(<<y, x>> \in less)
  BY <1>1, WFMin
<1>4. \A y \in S : ~(y < x)
  BY <1>2, <1>3, Zenon
<1>5. \A y \in S : x <= y
  BY <1>4
<1> QED BY <1>5

(* RunFrom finds the end of a run of chunks that are there.                *)
LEMMA RunFromRight ==
  ASSUME NEW n \in Nat, NEW set, IsFiniteSet(set), Near(set, n, MaxSpan),
         NEW k, k = RunFrom(Wrapped(n), set)
  PROVE  /\ k \in 0..MaxSpan
         /\ \A j \in 0..(k - 1) : Wrapped(n + j) \in set
         /\ Wrapped(n + k) \notin set
<1> USE Widths
<1> DEFINE missing == {j \in Nat : Wrapped(n + j) \notin set}
<1>1. MaxSpan \in missing
  <2> SUFFICES ASSUME Wrapped(n + MaxSpan) \in set PROVE FALSE
    OBVIOUS
  <2>1. PICK d \in n..(n + MaxSpan - 1) : Wrapped(n + MaxSpan) = Wrapped(d)
    BY DEF Near
  <2>2. n + MaxSpan = d
    BY <2>1, WrapSame
  <2> QED BY <2>1, <2>2
<1>2. PICK m \in missing : \A j \in missing : m <= j
  <2>1. missing \in SUBSET Nat /\ missing # {}
    BY <1>1
  <2> HIDE DEF missing
  <2> QED BY <2>1, LeastMissing
<1>3. m \in Nat /\ m <= MaxSpan /\ Wrapped(n + m) \notin set
  BY <1>1, <1>2
<1>4. \A j \in 0..(m - 1) : Wrapped(n + j) \in set
  BY <1>2, <1>3
<1>5. Cardinality(set) \in Nat /\ m <= Cardinality(set)
  <2>1. Cardinality(set) \in Nat
    BY FS_CardinalityType
  <2>2. IsFiniteSet(0..(m - 1)) /\ Cardinality(0..(m - 1)) = m
    <3>1. m - 1 \in Int /\ 0 \in Int
      BY <1>3
    <3>2. /\ IsFiniteSet(0..(m - 1))
          /\ Cardinality(0..(m - 1)) = IF 0 > m - 1 THEN 0 ELSE (m - 1) - 0 + 1
      BY <3>1, FS_Interval
    <3> QED BY <1>3, <3>2
  <2> DEFINE f == [j \in 0..(m - 1) |-> Wrapped(n + j)]
  <2>3. f \in [0..(m - 1) -> set]
    BY <1>4
  <2>4. ASSUME NEW x \in 0..(m - 1), NEW y \in 0..(m - 1), f[x] = f[y]
        PROVE  x = y
    <3>1. Wrapped(n + x) = Wrapped(n + y)
      BY <2>4
    <3>2. n + x \in Nat /\ n + y \in Nat /\ n + x < n + y + Mod /\ n + y < n + x + Mod
      BY <1>3
    <3>3. n + x = n + y
      BY <3>1, <3>2, WrapSame
    <3> QED BY <3>3
  <2> HIDE DEF f
  <2>5. ~(Cardinality(set) < m)
    BY <2>2, <2>3, <2>4, FS_PigeonHole
  <2> QED BY <1>3, <2>1, <2>5
<1>6. \A j \in Nat : j <= MaxSpan => Add(Wrapped(n), j) = Wrapped(n + j)
  BY WrapAdd
<1> DEFINE Ends(i) == /\ \A j \in 0..(i - 1) : Add(Wrapped(n), j) \in set
                      /\ Add(Wrapped(n), i) \notin set
<1>7. m \in 0..Cardinality(set) /\ Ends(m)
  BY <1>3, <1>4, <1>5, <1>6
<1>8. k \in 0..Cardinality(set) /\ Ends(k)
  <2>1. k = CHOOSE i \in 0..Cardinality(set) : Ends(i)
    BY DEF RunFrom
  <2> HIDE DEF Ends
  <2> QED BY <1>7, <2>1
<1>9. k = m
  <2>1. CASE k < m
    <3>1. Wrapped(n + k) \in set /\ Add(Wrapped(n), k) = Wrapped(n + k)
      BY <1>3, <1>4, <1>5, <1>6, <1>8, <2>1
    <3> QED BY <1>8, <3>1
  <2>2. CASE m < k
    <3>1. Add(Wrapped(n), m) \in set
      BY <1>3, <1>5, <1>8, <2>2
    <3> QED BY <1>7, <3>1
  <2> QED BY <1>3, <1>5, <1>8, <2>1, <2>2
<1> QED BY <1>3, <1>4, <1>9

LEMMA MaxOfTwo ==
  ASSUME NEW a \in Int, NEW b \in Int
  PROVE  Max({a, b}) = IF a >= b THEN a ELSE b
BY DEF Max

LEMMA MinOfTwo ==
  ASSUME NEW a \in Int, NEW b \in Int
  PROVE  Min({a, b}) = IF a <= b THEN a ELSE b
BY DEF Min

-----------------------------------------------------------------------------
(* The inductive invariant.  Chunks 0..Arrived-1 are out; those below       *)
(* Launched have been in flight, the others wait in the backlog.            *)

Arrived == Len(out)
Launched == sent - Len(backlog)

Chunk(n) == [index |-> Wrapped(n), data |-> n]

(* The receiving end has chunk n.                                          *)
Has(n) == n < Arrived \/ (Wrapped(n) \in DOMAIN rxQueue /\ rxQueue[Wrapped(n)] = n)

Counted ==
  /\ sent \in Nat /\ acked \in Nat /\ told \in Nat
  /\ sent <= MaxChunks
  /\ told <= acked /\ acked <= Arrived /\ Arrived <= Launched
  /\ sent <= acked + MaxSpan
  /\ txCtr = Wrapped(sent) /\ txAck = Wrapped(acked) /\ rxCtr = Wrapped(Arrived)

Waits ==
  /\ writer \in {"idle", "blocked"}
  /\ goal \in Nat /\ done = Wrapped(goal)
  /\ writer = "blocked" => told < goal /\ goal <= sent /\ sent <= goal + MaxOvertake

Ordered ==
  /\ out \in Seq(Nat) /\ \A i \in 1..Len(out) : out[i] = i - 1
  /\ backlog \in Seq([index : Nat, data : Nat])
  /\ \A i \in 1..Len(backlog) : backlog[i] = Chunk(Launched + i - 1)

InFlight ==
  /\ IsFiniteSet(txQueue)
  /\ \A p \in txQueue :
       /\ p = Chunk(p.data) /\ p.data \in Nat
       /\ acked <= p.data /\ p.data < Launched /\ p.index \notin acks

(* An acknowledgement remembered is one of a chunk that arrived.           *)
Noted ==
  /\ IsFiniteSet(acks)
  /\ \A x \in acks : \E n \in acked..(Launched - 1) : x = Wrapped(n) /\ Has(n)

Gathered ==
  /\ IsFiniteSet(DOMAIN rxQueue)
  /\ \A x \in DOMAIN rxQueue :
       /\ rxQueue[x] \in Nat /\ x = Wrapped(rxQueue[x])
       /\ Arrived <= rxQueue[x] /\ rxQueue[x] < Launched
  /\ rxCtr \notin DOMAIN rxQueue

OnTheWay ==
  \A p \in drws :
    /\ p = Chunk(p.data) /\ p.data \in Nat
    /\ p.data < Launched /\ Arrived <= p.data + WrapLimit

AcksOnTheWay ==
  \A p \in drwAcks :
    /\ p = Chunk(p.data) /\ p.data \in Nat
    /\ p.data < Launched /\ Has(p.data) /\ acked <= p.data + WrapLimit

IInv ==
  /\ Counted /\ Waits /\ Ordered /\ InFlight /\ Noted /\ Gathered
  /\ OnTheWay /\ AcksOnTheWay

LEMMA InitInv == Init => IInv
<1> SUFFICES ASSUME Init PROVE IInv
  OBVIOUS
<1>1. Wrapped(0) = 0
  BY Widths DEF Wrapped
<1>2. out = <<>> /\ backlog = <<>> /\ sent = 0
  BY DEF Init
<1>3. Len(out) = 0 /\ Len(backlog) = 0 /\ sent = 0
  BY <1>2, NoChunks
<1>4. Arrived = 0 /\ Launched = 0
  BY <1>3 DEF Arrived, Launched
<1>5. Counted
  BY <1>1, <1>4, Widths, DrwAssumption DEF Init, Counted
<1>6. Waits
  BY <1>1 DEF Init, Waits
<1>7. Ordered
  BY <1>2, <1>3 DEF Ordered
<1>8. IsFiniteSet({}) /\ DOMAIN rxQueue = {}
  BY FS_EmptySet DEF Init
<1> QED BY <1>5, <1>6, <1>7, <1>8
         DEF Init, IInv, InFlight, Noted, Gathered, OnTheWay, AcksOnTheWay

(* What the counts say of each other.                                      *)
LEMMA Bounds ==
  ASSUME IInv
  PROVE  /\ Arrived \in Nat /\ Launched \in Nat /\ Len(backlog) \in Nat
         /\ sent \in Nat /\ acked \in Nat /\ told \in Nat /\ goal \in Nat
         /\ told <= acked /\ acked <= Arrived /\ Arrived <= Launched
         /\ Launched <= sent /\ sent <= acked + MaxSpan
BY DEF IInv, Counted, Waits, Ordered, Arrived, Launched

(* Nothing the receiving end has changes.                                  *)
LEMMA HasKept ==
  ASSUME UNCHANGED receiver
  PROVE  /\ Arrived' = Arrived /\ rxCtr' = rxCtr /\ rxQueue' = rxQueue /\ out' = out
         /\ \A n : Has(n)' <=> Has(n)
BY DEF receiver, Has, Arrived

LEMMA EnqueueInv ==
  ASSUME IInv, NEW n \in WriteSizes, Enqueue(n)
  PROVE  /\ Counted' /\ Ordered' /\ InFlight' /\ Noted' /\ Gathered'
         /\ OnTheWay' /\ AcksOnTheWay'
         /\ Launched' = Launched /\ Arrived' = Arrived
<1> USE Bounds, Widths
<1>1. n \in Nat /\ n # 0
  BY DrwAssumption
<1>2. /\ UNCHANGED <<out, rxQueue, rxCtr, txQueue, txAck, acks, drws, drwAcks, acked, told>>
      /\ sent' = sent + n /\ sent' <= MaxChunks /\ sent' <= acked + MaxSpan
  BY <1>1 DEF Enqueue, receiver, net
<1>3. n < Mod
  BY <1>1, <1>2
<1> DEFINE added == [i \in 1..n |-> [index |-> Add(txCtr, i - 1), data |-> sent + i - 1]]
<1>4. \A i \in 1..n : added[i] = Chunk(sent + i - 1)
  <2> SUFFICES ASSUME NEW i \in 1..n PROVE added[i] = Chunk(sent + i - 1)
    OBVIOUS
  <2>1. Add(txCtr, i - 1) = Wrapped(sent + (i - 1))
    BY <1>1, <1>3, WrapAdd DEF IInv, Counted
  <2>2. sent + (i - 1) = sent + i - 1
    BY <1>1
  <2> QED BY <2>1, <2>2 DEF Chunk
<1>5. added \in Seq([index : Nat, data : Nat]) /\ Len(added) = n
  <2>1. \A i \in 1..n : added[i] \in [index : Nat, data : Nat]
    <3> SUFFICES ASSUME NEW i \in 1..n PROVE added[i] \in [index : Nat, data : Nat]
      OBVIOUS
    <3>1. sent + i - 1 \in Nat
      BY <1>1
    <3>2. Chunk(sent + i - 1) \in [index : Nat, data : Nat]
      BY <3>1, WrapType DEF Chunk
    <3> QED BY <1>4, <3>2
  <2> QED BY <1>1, <2>1
<1> HIDE DEF added
<1>6. backlog' = backlog \o added
  BY DEF Enqueue, added
<1>7. backlog \in Seq([index : Nat, data : Nat])
  BY DEF IInv, Ordered
<1>8. /\ backlog' \in Seq([index : Nat, data : Nat])
      /\ Len(backlog') = Len(backlog) + n
      /\ \A i \in 1..Len(backlog') :
           backlog'[i] = IF i <= Len(backlog) THEN backlog[i] ELSE added[i - Len(backlog)]
  BY <1>1, <1>5, <1>6, <1>7, ConcatProperties
<1>9. Launched' = Launched /\ Arrived' = Arrived /\ \A m : Has(m)' <=> Has(m)
  BY <1>1, <1>2, <1>8 DEF Launched, Arrived, Has
<1>10. Ordered'
  <2>1. \A i \in 1..Len(backlog') : backlog'[i] = Chunk(Launched + i - 1)
    <3> SUFFICES ASSUME NEW i \in 1..Len(backlog') PROVE backlog'[i] = Chunk(Launched + i - 1)
      OBVIOUS
    <3>0. i \in Nat /\ 1 <= i /\ i <= Len(backlog) + n
      BY <1>1, <1>8
    <3>1. CASE i <= Len(backlog)
      <4>1. i \in 1..Len(backlog) /\ backlog'[i] = backlog[i]
        BY <1>8, <3>0, <3>1
      <4> QED BY <4>1 DEF IInv, Ordered
    <3>2. CASE i > Len(backlog)
      <4>1. i - Len(backlog) \in 1..n
        BY <1>1, <3>0, <3>2
      <4>2. sent + (i - Len(backlog)) - 1 = Launched + i - 1
        BY <1>1, <3>0, <3>2 DEF Launched
      <4>3. backlog'[i] = added[i - Len(backlog)]
        BY <1>8, <3>0, <3>2
      <4> QED BY <1>4, <4>1, <4>2, <4>3
    <3> QED BY <3>0, <3>1, <3>2
  <2> QED BY <1>2, <1>8, <1>9, <2>1 DEF IInv, Ordered
<1>11. txCtr' = Wrapped(sent + n)
  BY <1>1, <1>3, WrapAdd DEF Enqueue, IInv, Counted
<1>12. Counted'
  <2>1. Counted
    BY DEF IInv
  <2>2. sent' \in Nat /\ sent' <= MaxChunks
    BY <1>1, <1>2
  <2> QED BY <1>2, <1>9, <1>11, <2>1, <2>2 DEF Counted
<1> QED BY <1>2, <1>9, <1>10, <1>12
         DEF IInv, InFlight, Noted, Gathered, OnTheWay, AcksOnTheWay

LEMMA RoomFits ==
  ASSUME IInv
  PROVE  Room \in 0..Len(backlog)
<1>1. Cardinality(txQueue) \in Nat
  BY FS_CardinalityType DEF IInv, InFlight
<1>2. Len(backlog) \in Nat /\ MaxInFlight \in Nat
  BY Bounds, DrwAssumption
<1> DEFINE free == MaxInFlight - Cardinality(txQueue)
           fit == Min({Len(backlog), free})
<1>3. free \in Int
  BY <1>1, <1>2
<1> HIDE DEF free
<1>4. fit = IF Len(backlog) <= free THEN Len(backlog) ELSE free
  BY <1>2, <1>3, MinOfTwo
<1> HIDE DEF fit
<1>5. fit \in Int /\ fit <= Len(backlog)
  BY <1>2, <1>3, <1>4
<1>6. Room = Max({0, fit})
  BY DEF Room, fit, free
<1>7. Room = IF 0 >= fit THEN 0 ELSE fit
  BY <1>5, <1>6, MaxOfTwo
<1> QED BY <1>2, <1>5, <1>7

LEMMA PollInv ==
  ASSUME IInv, NEW due, Poll(due)
  PROVE  IInv' /\ Arrived' = Arrived
<1> USE Bounds, Widths
<1> DEFINE r == Room
           taken == SubSeq(backlog, 1, r)
           rest == SubSeq(backlog, r + 1, Len(backlog))
           Msg == [index : Nat, data : Nat]
<1>1. r \in Nat /\ r <= Len(backlog)
  BY RoomFits
<1>2. /\ txQueue' = txQueue \cup ToSet(taken)
      /\ backlog' = rest
      /\ due \subseteq txQueue \cup ToSet(taken)
      /\ drws' = drws \cup due
      /\ UNCHANGED <<txCtr, txAck, acks, closed, writer, done, receiver, drwAcks,
                     sent, acked, told, goal>>
  BY DEF Poll, history
<1> HIDE DEF r
<1>3. /\ backlog \in Seq(Msg)
      /\ \A i \in 1..Len(backlog) : backlog[i] = Chunk(Launched + i - 1)
      /\ \A i \in 1..Len(backlog) : backlog[i] \in Msg
  <2>1. /\ backlog \in Seq(Msg)
        /\ \A i \in 1..Len(backlog) : backlog[i] = Chunk(Launched + i - 1)
    BY DEF IInv, Ordered
  <2> HIDE DEF Msg
  <2> QED BY <2>1
<1> HIDE DEF Msg
<1>4. /\ Len(taken) = r /\ taken \in Seq(Msg)
      /\ \A i \in 1..r : taken[i] = backlog[i]
  <2>1. \A i \in 1..r : backlog[i] \in Msg
    BY <1>1, <1>3
  <2>2. /\ taken \in Seq(Msg)
        /\ Len(taken) = IF 1 <= r THEN r - 1 + 1 ELSE 0
        /\ \A i \in 1..(r - 1 + 1) : taken[i] = backlog[1 + i - 1]
    BY <1>1, <2>1, SubSeqProperties
  <2> HIDE DEF taken
  <2>3. \A i \in 1..r : i \in 1..(r - 1 + 1) /\ 1 + i - 1 = i
    BY <1>1
  <2> QED BY <1>1, <2>2, <2>3
<1>5. /\ Len(rest) = Len(backlog) - r /\ rest \in Seq(Msg)
      /\ \A i \in 1..(Len(backlog) - r) : rest[i] = backlog[r + i]
  <2>1. \A i \in (r + 1)..Len(backlog) : backlog[i] \in Msg
    BY <1>1, <1>3
  <2>2. /\ rest \in Seq(Msg)
        /\ Len(rest) = IF r + 1 <= Len(backlog) THEN Len(backlog) - (r + 1) + 1 ELSE 0
        /\ \A i \in 1..(Len(backlog) - (r + 1) + 1) : rest[i] = backlog[(r + 1) + i - 1]
    BY <1>1, <2>1, SubSeqProperties
  <2> HIDE DEF rest
  <2>3. \A i \in 1..(Len(backlog) - r) :
          i \in 1..(Len(backlog) - (r + 1) + 1) /\ (r + 1) + i - 1 = r + i
    BY <1>1
  <2> QED BY <1>1, <2>2, <2>3
<1> HIDE DEF taken, rest
<1>6. /\ UNCHANGED <<Arrived, rxCtr, rxQueue, out>> /\ Launched' = Launched + r
      /\ \A n : Has(n)' <=> Has(n)
  BY <1>1, <1>2, <1>5, HasKept DEF Launched
<1>7. \A p \in ToSet(taken) : \E n \in Launched..(Launched + r - 1) : p = Chunk(n)
  <2> SUFFICES ASSUME NEW p \in ToSet(taken)
               PROVE  \E n \in Launched..(Launched + r - 1) : p = Chunk(n)
    OBVIOUS
  <2>1. PICK i \in 1..r : p = taken[i]
    BY <1>1, <1>4 DEF ToSet
  <2>2. p = Chunk(Launched + i - 1)
    <3>1. p = backlog[i] /\ i \in 1..Len(backlog)
      BY <1>1, <1>4, <2>1
    <3> QED BY <1>3, <3>1
  <2>3. Launched + i - 1 \in Launched..(Launched + r - 1)
    BY <1>1
  <2> QED BY <2>2, <2>3
<1>8. IsFiniteSet(ToSet(taken))
  <2>1. taken \in [1..r -> ToSet(taken)] /\ DOMAIN taken = 1..r
    BY <1>1, <1>4 DEF ToSet
  <2>2. taken \in Surjection(1..r, ToSet(taken))
    BY <2>1 DEF ToSet, Surjection
  <2>3. IsFiniteSet(1..r)
    BY <1>1, FS_Interval
  <2> QED BY <2>2, <2>3, FS_Surjection
<1>9. \A n \in Nat : Chunk(n).data = n /\ Chunk(n).index = Wrapped(n)
  BY DEF Chunk
<1>10. \A p \in txQueue' :
         /\ p = Chunk(p.data) /\ p.data \in Nat
         /\ acked <= p.data /\ p.data < Launched' /\ p.index \notin acks
  <2> SUFFICES ASSUME NEW p \in txQueue'
               PROVE  /\ p = Chunk(p.data) /\ p.data \in Nat
                      /\ acked <= p.data /\ p.data < Launched' /\ p.index \notin acks
    OBVIOUS
  <2>1. CASE p \in txQueue
    BY <1>1, <1>6, <2>1 DEF IInv, InFlight
  <2>2. CASE p \in ToSet(taken)
    <3>1. PICK n \in Launched..(Launched + r - 1) : p = Chunk(n)
      BY <1>7, <2>2
    <3>2. n \in Nat /\ acked <= n /\ Launched <= n /\ n < Launched + r /\ n < acked + Mod
      BY <1>1 DEF Launched
    <3>3. Wrapped(n) \notin acks
      <4> SUFFICES ASSUME Wrapped(n) \in acks PROVE FALSE
        OBVIOUS
      <4>1. PICK m \in acked..(Launched - 1) : Wrapped(n) = Wrapped(m)
        BY DEF IInv, Noted
      <4>2. m \in Nat /\ m < n + Mod /\ n < m + Mod /\ m # n
        BY <3>2
      <4> QED BY <3>2, <4>1, <4>2, WrapSame
    <3> QED BY <1>6, <1>9, <3>1, <3>2, <3>3
  <2> QED BY <1>2, <2>1, <2>2
<1>11. InFlight'
  <2>1. IsFiniteSet(txQueue')
    BY <1>2, <1>8, FS_Union DEF IInv, InFlight
  <2> QED BY <1>2, <1>10, <2>1 DEF InFlight
<1>12. OnTheWay'
  <2> SUFFICES ASSUME NEW p \in drws'
               PROVE  /\ p = Chunk(p.data) /\ p.data \in Nat
                      /\ p.data < Launched' /\ Arrived' <= p.data + WrapLimit
    BY DEF OnTheWay
  <2>1. CASE p \in drws
    BY <1>1, <1>6, <2>1 DEF IInv, OnTheWay
  <2>2. CASE p \in txQueue'
    <3>1. /\ p = Chunk(p.data) /\ p.data \in Nat
          /\ acked <= p.data /\ p.data < Launched'
      BY <1>10, <2>2
    <3> QED BY <1>6, <3>1
  <2> QED BY <1>2, <2>1, <2>2
<1>13. Ordered'
  <2>1. \A i \in 1..Len(rest) : rest[i] = Chunk(Launched + r + i - 1)
    <3> SUFFICES ASSUME NEW i \in 1..Len(rest) PROVE rest[i] = Chunk(Launched + r + i - 1)
      OBVIOUS
    <3>1. i \in 1..(Len(backlog) - r) /\ r + i \in 1..Len(backlog)
      BY <1>1, <1>5
    <3>2. Launched + (r + i) - 1 = Launched + r + i - 1
      BY <1>1
    <3> QED BY <1>3, <1>5, <3>1, <3>2
  <2> QED BY <1>2, <1>5, <1>6, <2>1 DEF IInv, Ordered, Msg
<1>14. Counted'
  BY <1>1, <1>2, <1>5, <1>6 DEF IInv, Counted, Launched
<1>15. Noted'
  <2>1. \A x \in acks : \E n \in acked..(Launched' - 1) : x = Wrapped(n) /\ Has(n)'
    <3> SUFFICES ASSUME NEW x \in acks
                 PROVE  \E n \in acked..(Launched' - 1) : x = Wrapped(n) /\ Has(n)'
      OBVIOUS
    <3>1. PICK n \in acked..(Launched - 1) : x = Wrapped(n) /\ Has(n)
      BY DEF IInv, Noted
    <3>2. n \in acked..(Launched' - 1)
      BY <1>1, <1>6
    <3> QED BY <1>6, <3>1, <3>2
  <2> QED BY <1>2, <2>1 DEF IInv, Noted
<1>16. Gathered' /\ AcksOnTheWay' /\ Waits'
  BY <1>1, <1>2, <1>6 DEF IInv, Gathered, AcksOnTheWay, Waits
<1> QED BY <1>6, <1>11, <1>12, <1>13, <1>14, <1>15, <1>16 DEF IInv

(* A caller that is told of success has had its chunks delivered.          *)
LEMMA WriteDoneInv ==
  ASSUME IInv, WriteDone
  PROVE  /\ IInv' /\ UNCHANGED <<sent, out>>
         /\ told < told' /\ told' <= Arrived
<1> USE Bounds, Widths
<1>1. /\ UNCHANGED <<backlog, txQueue, txCtr, txAck, acks, done, rxCtr, rxQueue, out,
                     drws, drwAcks, sent, acked, goal>>
      /\ writer = "blocked" /\ writer' = "idle" /\ told' = goal
  BY DEF WriteDone, receiver, net
<1>2. told < goal /\ goal <= sent /\ sent <= goal + MaxOvertake
  BY <1>1 DEF IInv, Waits
<1>3. goal <= acked
  <2>1. IsAfterOrEqual(Wrapped(goal), Wrapped(acked))
    BY DEF WriteDone, Acked, IInv, Counted, Waits
  <2>2. goal < acked + Half /\ acked < goal + Half
    BY <1>2
  <2> QED BY <2>1, <2>2, AfterOrEqualRight
<1>4. /\ UNCHANGED <<Arrived, Launched>>
      /\ \A n : Has(n)' <=> Has(n)
  BY <1>1 DEF Arrived, Launched, Has
<1>5. Counted' /\ Waits'
  BY <1>1, <1>3, <1>4 DEF IInv, Counted, Waits
<1>6. Ordered' /\ InFlight' /\ Noted' /\ Gathered' /\ OnTheWay' /\ AcksOnTheWay'
  BY <1>1, <1>4
     DEF IInv, Ordered, InFlight, Noted, Gathered, OnTheWay, AcksOnTheWay
<1> QED BY <1>1, <1>2, <1>3, <1>5, <1>6 DEF IInv

LEMMA QuietInv ==
  ASSUME IInv,
         \/ WriteFails \/ Close
         \/ \E drw \in drws : LoseDrw(drw)
         \/ \E ack \in drwAcks : LoseAck(ack)
         \/ UNCHANGED vars
  PROVE  IInv' /\ UNCHANGED <<sent, out, told>>
<1>1. /\ UNCHANGED <<backlog, txQueue, txCtr, txAck, acks, done, rxCtr, rxQueue, out,
                     sent, acked, told, goal>>
      /\ writer' = writer \/ writer' = "idle"
      /\ drws' \subseteq drws /\ drwAcks' \subseteq drwAcks
  <2>1. CASE WriteFails \/ Close
    BY <2>1 DEF WriteFails, Close, receiver, net, history
  <2>2. ASSUME NEW drw \in drws, LoseDrw(drw)
        PROVE  /\ UNCHANGED <<sender, receiver, history, drwAcks>> /\ drws' \subseteq drws
    BY <2>2 DEF LoseDrw
  <2>3. ASSUME NEW ack \in drwAcks, LoseAck(ack)
        PROVE  /\ UNCHANGED <<sender, receiver, history, drws>> /\ drwAcks' \subseteq drwAcks
    BY <2>3 DEF LoseAck
  <2>4. CASE UNCHANGED vars
    BY <2>4 DEF vars, sender, receiver, net, history
  <2> QED BY <2>1, <2>2, <2>3, <2>4 DEF sender, receiver, history
<1>2. /\ UNCHANGED <<Arrived, Launched>>
      /\ \A n : Has(n)' <=> Has(n)
  BY <1>1 DEF Arrived, Launched, Has
<1>3. Counted' /\ Waits'
  BY <1>1, <1>2 DEF IInv, Counted, Waits
<1>4. Ordered' /\ InFlight' /\ Noted' /\ Gathered'
  BY <1>1, <1>2 DEF IInv, Ordered, InFlight, Noted, Gathered
<1>5. OnTheWay' /\ AcksOnTheWay'
  BY <1>1, <1>2 DEF IInv, OnTheWay, AcksOnTheWay
<1> QED BY <1>1, <1>3, <1>4, <1>5 DEF IInv

(* When all that was written has been confirmed, the reset forgets nothing. *)
LEMMA ResetInv ==
  ASSUME IInv, ResetTx
  PROVE  IInv' /\ UNCHANGED <<sent, out, told>>
<1> USE Bounds
<1>1. /\ told = sent /\ acked' = sent /\ txAck' = txCtr
      /\ txQueue' = {} /\ backlog' = <<>> /\ acks' = {}
      /\ UNCHANGED <<txCtr, closed, writer, done, receiver, rxCtr, rxQueue, out, drws, drwAcks,
                     sent, told, goal>>
  BY DEF ResetTx, receiver, net
<1>2. acked = sent /\ Arrived = sent /\ Launched = sent
  BY <1>1
<1>3. Len(backlog') = 0
  BY <1>1, NoChunks
<1>4. Launched' = Launched /\ Arrived' = Arrived /\ acked' = acked
  BY <1>1, <1>2, <1>3 DEF Launched, Arrived
<1>5. \A n : Has(n)' <=> Has(n)
  BY <1>1, HasKept
<1>6. Counted' /\ Waits'
  BY <1>1, <1>4 DEF IInv, Counted, Waits
<1>7. Ordered'
  BY <1>1, <1>3 DEF IInv, Ordered
<1>8. InFlight' /\ Noted'
  BY <1>1, FS_EmptySet DEF InFlight, Noted
<1>9. Gathered' /\ OnTheWay' /\ AcksOnTheWay'
  BY <1>1, <1>4, <1>5 DEF IInv, Gathered, OnTheWay, AcksOnTheWay
<1> QED BY <1>1, <1>6, <1>7, <1>8, <1>9 DEF IInv

(* An acknowledgement moves acked to the first chunk not acknowledged, and  *)
(* the receiving end has all chunks before it.                             *)
LEMMA RXAckInv ==
  ASSUME IInv, NEW ack \in drwAcks, RXAck(ack)
  PROVE  IInv' /\ UNCHANGED <<sent, out, told>>
<1> USE Bounds, Widths
<1> DEFINE noted == IF IsAfterOrEqual(txAck, ack.index) THEN acks \cup {ack.index}
                                                        ELSE acks
           k == RunFrom(txAck, noted)
           a == ack.data
<1>1. /\ txQueue' = {c \in txQueue : c.index # ack.index}
      /\ acks' = noted \ {Add(txAck, j) : j \in 0..(k - 1)}
      /\ txAck' = Add(txAck, k)
      /\ acked' = acked + k
      /\ drwAcks' = Young(drwAcks, acked') \/ drwAcks' = Young(drwAcks \ {ack}, acked')
      /\ UNCHANGED <<backlog, txCtr, closed, writer, done, receiver, rxCtr, rxQueue, out,
                     drws, sent, told, goal>>
  BY DEF RXAck, receiver
<1>2. /\ ack = Chunk(a) /\ a \in Nat /\ a < Launched /\ Has(a) /\ acked <= a + WrapLimit
  BY DEF IInv, AcksOnTheWay
<1>3. ack.index = Wrapped(a)
  BY <1>2 DEF Chunk
<1>4. IsAfterOrEqual(txAck, ack.index) <=> acked <= a
  <2>1. acked < a + Half /\ a < acked + Half
    BY <1>2
  <2> QED BY <1>2, <1>3, <2>1, AfterOrEqualRight DEF IInv, Counted
<1>5. \A x \in noted : \E n \in acked..(Launched - 1) : x = Wrapped(n) /\ Has(n)
  <2>1. \A x \in acks : \E n \in acked..(Launched - 1) : x = Wrapped(n) /\ Has(n)
    BY DEF IInv, Noted
  <2>2. CASE acked <= a
    <3>1. a \in acked..(Launched - 1)
      BY <1>2, <2>2
    <3> QED BY <1>2, <1>3, <1>4, <2>1, <2>2, <3>1
  <2>3. CASE ~(acked <= a)
    BY <1>4, <2>1, <2>3
  <2> QED BY <2>2, <2>3
<1>6. IsFiniteSet(noted)
  BY FS_AddElement DEF IInv, Noted
<1>7. txAck = Wrapped(acked)
  BY DEF IInv, Counted
<1> HIDE DEF noted, a
<1>8. Near(noted, acked, MaxSpan)
  <2> SUFFICES ASSUME NEW x \in noted
               PROVE  \E n \in acked..(acked + MaxSpan - 1) : x = Wrapped(n)
    BY DEF Near
  <2>1. PICK n \in acked..(Launched - 1) : x = Wrapped(n)
    BY <1>5
  <2>2. n \in acked..(acked + MaxSpan - 1)
    OBVIOUS
  <2> QED BY <2>1, <2>2
<1>9. /\ k \in 0..MaxSpan
      /\ \A j \in 0..(k - 1) : Wrapped(acked + j) \in noted
      /\ Wrapped(acked + k) \notin noted
  BY <1>6, <1>7, <1>8, RunFromRight
<1> HIDE DEF k
<1>10. k \in Nat /\ k <= MaxSpan /\ k < Mod
  BY <1>9
<1>11. \A j \in 0..k : Add(txAck, j) = Wrapped(acked + j)
  BY <1>7, <1>10, WrapAdd
<1>12. acked + k <= Arrived
  <2> SUFFICES ASSUME acked + k > Arrived PROVE FALSE
    BY <1>10
  <2> DEFINE j == Arrived - acked
  <2>1. j \in 0..(k - 1) /\ acked + j = Arrived
    BY <1>10
  <2> HIDE DEF j
  <2>2. PICK n \in acked..(Launched - 1) : Wrapped(Arrived) = Wrapped(n) /\ Has(n)
    BY <1>5, <1>9, <2>1
  <2>3. n \in Nat /\ n < Arrived + Mod /\ Arrived < n + Mod
    BY <1>10
  <2>4. n = Arrived
    BY <2>2, <2>3, WrapSame
  <2> QED BY <2>2, <2>4 DEF Has, IInv, Gathered, Counted
<1>13. /\ UNCHANGED <<Launched, Arrived>>
       /\ \A n : Has(n)' <=> Has(n)
  BY <1>1, HasKept DEF Launched
<1>14. Counted' /\ Waits'
  <2>1. txAck' = Wrapped(acked')
    BY <1>1, <1>10, <1>11
  <2> QED BY <1>1, <1>10, <1>12, <1>13, <2>1 DEF IInv, Counted, Waits
<1>15. acks' \subseteq noted
  BY <1>1
<1>16. InFlight'
  <2>1. txQueue' \subseteq txQueue /\ IsFiniteSet(txQueue')
    BY <1>1, FS_Subset DEF IInv, InFlight
  <2> SUFFICES ASSUME NEW p \in txQueue'
               PROVE  acked' <= p.data /\ p.index \notin acks'
    BY <1>13, <2>1 DEF IInv, InFlight
  <2>2. /\ p = Chunk(p.data) /\ p.data \in Nat
        /\ acked <= p.data /\ p.data < Launched /\ p.index \notin acks
    BY <2>1 DEF IInv, InFlight
  <2>3. p.index = Wrapped(p.data)
    BY <2>2 DEF Chunk
  <2>4. p.index \notin noted
    BY <1>1, <2>2 DEF noted
  <2>5. acked + k <= p.data
    <3> SUFFICES ASSUME p.data < acked + k PROVE FALSE
      BY <1>10, <2>2
    <3> DEFINE j == p.data - acked
    <3>1. j \in 0..(k - 1) /\ acked + j = p.data
      BY <1>10, <2>2
    <3> HIDE DEF j
    <3> QED BY <1>9, <2>3, <2>4, <3>1
  <2> QED BY <1>1, <1>15, <2>4, <2>5
<1>17. Noted'
  <2>1. IsFiniteSet(acks')
    BY <1>6, <1>15, FS_Subset
  <2> SUFFICES ASSUME NEW x \in acks'
               PROVE  \E n \in acked'..(Launched' - 1) : x = Wrapped(n) /\ Has(n)'
    BY <2>1 DEF Noted
  <2>2. PICK n \in acked..(Launched - 1) : x = Wrapped(n) /\ Has(n)
    BY <1>5, <1>15
  <2>3. acked + k <= n
    <3> SUFFICES ASSUME n < acked + k PROVE FALSE
      BY <1>10
    <3> DEFINE j == n - acked
    <3>1. j \in 0..(k - 1) /\ acked + j = n
      BY <1>10
    <3> HIDE DEF j
    <3>2. Add(txAck, j) = x
      BY <1>10, <1>11, <2>2, <3>1
    <3> QED BY <1>1, <3>1, <3>2
  <2>4. n \in acked'..(Launched' - 1)
    BY <1>1, <1>10, <1>13, <2>3
  <2> QED BY <1>13, <2>2, <2>4
<1>18. AcksOnTheWay'
  <2> SUFFICES ASSUME NEW p \in drwAcks'
               PROVE  /\ p = Chunk(p.data) /\ p.data \in Nat /\ p.data < Launched'
                      /\ Has(p.data)' /\ acked' <= p.data + WrapLimit
    BY DEF AcksOnTheWay
  <2>1. p \in drwAcks /\ p.data + MaxAge >= acked'
    BY <1>1 DEF Young
  <2>2. /\ p = Chunk(p.data) /\ p.data \in Nat /\ p.data < Launched /\ Has(p.data)
    BY <2>1 DEF IInv, AcksOnTheWay
  <2>3. acked' <= p.data + WrapLimit
    BY <1>1, <1>10, <2>1, <2>2
  <2> QED BY <1>13, <2>2, <2>3
<1>19. Ordered' /\ Gathered' /\ OnTheWay'
  BY <1>1, <1>13 DEF IInv, Ordered, Gathered, OnTheWay
<1> QED BY <1>1, <1>14, <1>16, <1>17, <1>18, <1>19 DEF IInv

(* What RXDrw puts out: the next n chunks of the stream.                   *)
Delivers(n) ==
  /\ n \in 0..(Launched - Arrived)
  /\ out' = out \o [i \in 1..n |-> Arrived + i - 1]

(* A chunk that is not old is queued; the run of chunks that begins with   *)
(* the one that was missing goes out.                                      *)
LEMMA RXDrwNew ==
  ASSUME IInv, NEW drw \in drws, RXDrw(drw), Arrived <= drw.data
  PROVE  /\ Gathered' /\ rxCtr' = Wrapped(Arrived') /\ out' \in Seq(Nat)
         /\ \A i \in 1..Len(out') : out'[i] = i - 1
         /\ \A n \in Nat : n < Launched /\ Has(n) => Has(n)'
         /\ Has(drw.data)'
         /\ \E n \in Nat : Delivers(n) /\ Arrived' = Arrived + n
<1> USE Bounds, Widths
<1> DEFINE d == drw.data
           queued == [i \in DOMAIN rxQueue \cup {drw.index} |->
                        IF i \in DOMAIN rxQueue THEN rxQueue[i] ELSE drw.data]
           k == RunFrom(rxCtr, DOMAIN queued)
           run == {Add(rxCtr, j) : j \in 0..(k - 1)}
<1>1. /\ drw = Chunk(d) /\ d \in Nat /\ d < Launched /\ Arrived <= d
  BY DEF IInv, OnTheWay
<1>2. drw.index = Wrapped(d)
  BY <1>1 DEF Chunk
<1>3. rxCtr = Wrapped(Arrived) /\ rxCtr \notin DOMAIN rxQueue
  BY DEF IInv, Counted, Gathered
<1>4. ~Greater(rxCtr, drw.index)
  <2>1. Arrived <= d + WrapLimit /\ d <= Arrived + WrapLimit
    BY <1>1
  <2> QED BY <1>1, <1>2, <1>3, <2>1, GreaterRight
<1>5. /\ out' = out \o [i \in 1..k |-> queued[Add(rxCtr, i - 1)]]
      /\ rxQueue' = [i \in DOMAIN queued \ run |-> queued[i]]
      /\ rxCtr' = Add(rxCtr, k)
      /\ Launched' = Launched
  BY <1>4 DEF RXDrw, Launched, sender, history
<1>6. \A x \in DOMAIN rxQueue :
        /\ rxQueue[x] \in Nat /\ x = Wrapped(rxQueue[x])
        /\ Arrived <= rxQueue[x] /\ rxQueue[x] < Launched
  BY DEF IInv, Gathered
<1>7. \A n, m \in Arrived..(Launched - 1) : Wrapped(n) = Wrapped(m) => n = m
  <2> SUFFICES ASSUME NEW n \in Arrived..(Launched - 1), NEW m \in Arrived..(Launched - 1),
                      Wrapped(n) = Wrapped(m)
               PROVE  n = m
    OBVIOUS
  <2>1. n \in Nat /\ m \in Nat /\ m < n + Mod /\ n < m + Mod
    OBVIOUS
  <2> QED BY <2>1, WrapSame
<1>8. /\ DOMAIN queued = DOMAIN rxQueue \cup {Wrapped(d)}
      /\ \A x \in DOMAIN rxQueue : queued[x] = rxQueue[x]
      /\ queued[Wrapped(d)] = d
  <2>1. ASSUME Wrapped(d) \in DOMAIN rxQueue PROVE rxQueue[Wrapped(d)] = d
    BY <1>1, <1>6, <1>7, <2>1
  <2> QED BY <1>2, <2>1
<1> HIDE DEF queued, d
<1>9. \A x \in DOMAIN queued :
        /\ queued[x] \in Nat /\ x = Wrapped(queued[x])
        /\ Arrived <= queued[x] /\ queued[x] < Launched
  BY <1>1, <1>6, <1>8
<1>10. IsFiniteSet(DOMAIN queued)
  BY <1>8, FS_AddElement DEF IInv, Gathered
<1>11. Near(DOMAIN queued, Arrived, MaxSpan)
  <2> SUFFICES ASSUME NEW x \in DOMAIN queued
               PROVE  \E n \in Arrived..(Arrived + MaxSpan - 1) : x = Wrapped(n)
    BY DEF Near
  <2>1. queued[x] \in Arrived..(Arrived + MaxSpan - 1) /\ x = Wrapped(queued[x])
    BY <1>9
  <2> QED BY <2>1
<1>12. /\ k \in 0..MaxSpan
       /\ \A j \in 0..(k - 1) : Wrapped(Arrived + j) \in DOMAIN queued
       /\ Wrapped(Arrived + k) \notin DOMAIN queued
  BY <1>3, <1>10, <1>11, RunFromRight
<1> HIDE DEF k
<1>13. k \in Nat /\ k <= MaxSpan /\ k < Mod
  BY <1>12
<1>14. \A j \in 0..k : Add(rxCtr, j) = Wrapped(Arrived + j)
  BY <1>3, <1>13, WrapAdd
<1>15. \A j \in 0..(k - 1) :
         Arrived + j < Launched /\ queued[Wrapped(Arrived + j)] = Arrived + j
  <2> SUFFICES ASSUME NEW j \in 0..(k - 1)
               PROVE  Arrived + j < Launched /\ queued[Wrapped(Arrived + j)] = Arrived + j
    OBVIOUS
  <2> DEFINE n == queued[Wrapped(Arrived + j)]
  <2>1. n \in Nat /\ Wrapped(n) = Wrapped(Arrived + j) /\ Arrived <= n /\ n < Launched
    BY <1>9, <1>12
  <2>2. Arrived + j \in Nat /\ n < Arrived + j + Mod /\ Arrived + j < n + Mod
    BY <1>13, <2>1
  <2> HIDE DEF n
  <2>3. n = Arrived + j
    BY <2>1, <2>2, WrapSame
  <2> QED BY <2>1, <2>3 DEF n
<1>16. k \in 0..(Launched - Arrived)
  <2>1. k = 0 \/ k - 1 \in 0..(k - 1)
    BY <1>13
  <2>2. k = 0 \/ Arrived + (k - 1) < Launched
    BY <1>15, <2>1
  <2> QED BY <1>13, <2>2
<1> DEFINE added == [i \in 1..k |-> Arrived + i - 1]
<1>17. out' = out \o added
  <2>1. \A i \in 1..k : queued[Add(rxCtr, i - 1)] = Arrived + i - 1
    <3> SUFFICES ASSUME NEW i \in 1..k PROVE queued[Add(rxCtr, i - 1)] = Arrived + i - 1
      OBVIOUS
    <3>1. i - 1 \in 0..(k - 1) /\ i - 1 \in 0..k
      BY <1>13
    <3>2. Arrived + (i - 1) = Arrived + i - 1
      BY <1>13
    <3> QED BY <1>14, <1>15, <3>1, <3>2
  <2>2. [i \in 1..k |-> queued[Add(rxCtr, i - 1)]] = added
    BY <2>1
  <2> QED BY <1>5, <2>2
<1>18. Delivers(k)
  BY <1>16, <1>17 DEF Delivers
<1>19. added \in Seq(Nat) /\ Len(added) = k /\ \A i \in 1..k : added[i] = Arrived + i - 1
  BY <1>13
<1> HIDE DEF added
<1>20. out \in Seq(Nat) /\ Len(out) = Arrived /\ \A i \in 1..Arrived : out[i] = i - 1
  BY DEF IInv, Ordered, Arrived
<1>21. /\ out' \in Seq(Nat) /\ Len(out') = Arrived + k
       /\ \A i \in 1..Len(out') :
            out'[i] = IF i <= Arrived THEN out[i] ELSE added[i - Arrived]
  <2>1. /\ out \o added \in Seq(Nat) /\ Len(out \o added) = Len(out) + Len(added)
        /\ \A i \in 1..(Len(out) + Len(added)) :
             (out \o added)[i] = IF i <= Len(out) THEN out[i] ELSE added[i - Len(out)]
    BY <1>19, <1>20, ConcatProperties
  <2> QED BY <1>17, <1>19, <1>20, <2>1
<1>22. Arrived' = Arrived + k
  BY <1>21 DEF Arrived
<1>23. \A i \in 1..Len(out') : out'[i] = i - 1
  <2> SUFFICES ASSUME NEW i \in 1..Len(out') PROVE out'[i] = i - 1
    OBVIOUS
  <2>1. i \in Nat /\ 1 <= i /\ i <= Arrived + k
    BY <1>13, <1>21
  <2>2. CASE i <= Arrived
    BY <1>20, <1>21, <2>1, <2>2
  <2>3. CASE i > Arrived
    <3>1. i - Arrived \in 1..k /\ Arrived + (i - Arrived) - 1 = i - 1
      BY <1>13, <2>1, <2>3
    <3>2. out'[i] = added[i - Arrived]
      BY <1>21, <2>1, <2>3
    <3> QED BY <1>19, <3>1, <3>2
  <2> QED BY <2>1, <2>2, <2>3
<1>24. rxCtr' = Wrapped(Arrived')
  BY <1>5, <1>13, <1>14, <1>22
<1>25. \A x \in run : \E j \in 0..(k - 1) : x = Wrapped(Arrived + j)
  BY <1>13, <1>14
<1>26. \A j \in 0..(k - 1) : Wrapped(Arrived + j) \in run
  <2> SUFFICES ASSUME NEW j \in 0..(k - 1) PROVE Wrapped(Arrived + j) \in run
    OBVIOUS
  <2>1. Add(rxCtr, j) = Wrapped(Arrived + j)
    BY <1>13, <1>14
  <2> QED BY <2>1
<1> HIDE DEF run
<1>27. \A n \in Nat : /\ Wrapped(n) \in DOMAIN queued /\ queued[Wrapped(n)] = n
                      /\ Arrived + k <= n
                      => Wrapped(n) \notin run
  <2> SUFFICES ASSUME NEW n \in Nat, Wrapped(n) \in DOMAIN queued, queued[Wrapped(n)] = n,
                      Arrived + k <= n, Wrapped(n) \in run
               PROVE  FALSE
    OBVIOUS
  <2>1. PICK j \in 0..(k - 1) : Wrapped(n) = Wrapped(Arrived + j)
    BY <1>25
  <2>2. n = Arrived + j
    BY <1>15, <2>1
  <2> QED BY <1>13, <2>2
<1>28. DOMAIN rxQueue' = DOMAIN queued \ run /\ \A x \in DOMAIN rxQueue' : rxQueue'[x] = queued[x]
  BY <1>5
<1>29. Gathered'
  <2>1. IsFiniteSet(DOMAIN rxQueue')
    BY <1>10, <1>28, FS_Subset
  <2>2. rxCtr' \notin DOMAIN rxQueue'
    BY <1>12, <1>22, <1>24, <1>28
  <2>3. ASSUME NEW x \in DOMAIN rxQueue' PROVE Arrived' <= rxQueue'[x]
    <3>1. x \in DOMAIN queued /\ x \notin run /\ rxQueue'[x] = queued[x]
      BY <1>28
    <3>2. queued[x] \in Nat /\ x = Wrapped(queued[x]) /\ Arrived <= queued[x]
      BY <1>9, <3>1
    <3> SUFFICES ASSUME queued[x] < Arrived + k PROVE FALSE
      BY <1>13, <1>22, <3>1, <3>2
    <3> DEFINE j == queued[x] - Arrived
    <3>3. j \in 0..(k - 1) /\ Arrived + j = queued[x]
      BY <1>13, <3>2
    <3> HIDE DEF j
    <3> QED BY <1>26, <3>1, <3>2, <3>3
  <2> QED BY <1>5, <1>9, <1>28, <2>1, <2>2, <2>3 DEF Gathered
<1>30. \A n \in Nat : Wrapped(n) \in DOMAIN queued /\ queued[Wrapped(n)] = n => Has(n)'
  <2> SUFFICES ASSUME NEW n \in Nat, Wrapped(n) \in DOMAIN queued, queued[Wrapped(n)] = n
               PROVE  Has(n)'
    OBVIOUS
  <2>1. CASE n < Arrived + k
    BY <1>22, <2>1 DEF Has
  <2>2. CASE Arrived + k <= n
    BY <1>27, <1>28, <2>2 DEF Has
  <2> QED BY <1>13, <2>1, <2>2
<1>31. \A n \in Nat : n < Launched /\ Has(n) => Has(n)'
  <2> SUFFICES ASSUME NEW n \in Nat, Has(n) PROVE Has(n)'
    OBVIOUS
  <2>1. CASE n < Arrived
    <3>1. n < Arrived'
      BY <1>13, <1>22, <2>1
    <3> QED BY <3>1 DEF Has
  <2>2. CASE ~(n < Arrived)
    BY <1>8, <1>30, <2>2 DEF Has
  <2> QED BY <2>1, <2>2
<1>32. Has(d)'
  BY <1>1, <1>8, <1>30
<1> QED BY <1>13, <1>18, <1>21, <1>22, <1>23, <1>24, <1>29, <1>31, <1>32 DEF d

LEMMA RXDrwInv ==
  ASSUME IInv, NEW drw \in drws, RXDrw(drw)
  PROVE  /\ IInv' /\ UNCHANGED <<sent, told>>
         /\ out' = out \/ \E n \in Nat : Delivers(n)
<1> USE Bounds, Widths
<1> DEFINE d == drw.data
<1>1. /\ drw = Chunk(d) /\ d \in Nat /\ d < Launched /\ Arrived <= d + WrapLimit
  BY DEF IInv, OnTheWay
<1>2. drw.index = Wrapped(d)
  BY <1>1 DEF Chunk
<1>3. /\ UNCHANGED <<backlog, txQueue, txCtr, txAck, acks, closed, writer, done,
                     sent, acked, told, goal, Launched>>
      /\ drwAcks' = drwAcks \cup {drw}
      /\ \A p \in drws' : p \in drws /\ p.data + MaxAge >= Arrived'
  BY DEF RXDrw, sender, history, Launched, Young, Arrived
<1>4. /\ Gathered' /\ rxCtr' = Wrapped(Arrived') /\ out' \in Seq(Nat)
      /\ \A i \in 1..Len(out') : out'[i] = i - 1
      /\ \A n \in Nat : n < Launched /\ Has(n) => Has(n)'
      /\ Has(d)'
      /\ Arrived' \in Nat /\ Arrived <= Arrived' /\ Arrived' <= Launched
      /\ out' = out \/ \E n \in Nat : Delivers(n)
  <2>1. CASE Arrived <= d
    <3>1. /\ Gathered' /\ rxCtr' = Wrapped(Arrived') /\ out' \in Seq(Nat)
          /\ \A i \in 1..Len(out') : out'[i] = i - 1
          /\ \A n \in Nat : n < Launched /\ Has(n) => Has(n)'
          /\ Has(d)'
          /\ \E n \in Nat : Delivers(n) /\ Arrived' = Arrived + n
      BY <2>1, RXDrwNew
    <3>2. PICK n \in Nat : Delivers(n) /\ Arrived' = Arrived + n
      BY <3>1
    <3>3. n \in 0..(Launched - Arrived)
      BY <3>2 DEF Delivers
    <3>4. Arrived' \in Nat /\ Arrived <= Arrived' /\ Arrived' <= Launched
      BY <3>2, <3>3
    <3> QED BY <3>1, <3>2, <3>4
  <2>2. CASE d < Arrived
    <3>1. Greater(rxCtr, drw.index)
      <4>1. d <= Arrived + WrapLimit
        BY <1>1
      <4> QED BY <1>1, <1>2, <2>2, <4>1, GreaterRight DEF IInv, Counted
    <3>2. UNCHANGED receiver
      BY <3>1 DEF RXDrw
    <3>3. /\ Arrived' = Arrived /\ rxCtr' = rxCtr /\ rxQueue' = rxQueue /\ out' = out
          /\ \A n : Has(n)' <=> Has(n)
      BY <3>2, HasKept
    <3>4. Has(d)
      BY <1>1, <2>2 DEF Has
    <3>5. Gathered'
      BY <1>3, <3>3 DEF IInv, Gathered
    <3> QED BY <3>3, <3>4, <3>5 DEF IInv, Counted, Ordered
  <2> QED BY <1>1, <2>1, <2>2
<1> HIDE DEF d
<1>5. Counted' /\ Waits'
  BY <1>3, <1>4 DEF IInv, Counted, Waits
<1>6. Ordered' /\ InFlight'
  BY <1>3, <1>4 DEF IInv, Ordered, InFlight
<1>7. Noted'
  <2> SUFFICES ASSUME NEW x \in acks
               PROVE  \E n \in acked..(Launched - 1) : x = Wrapped(n) /\ Has(n)'
    BY <1>3 DEF IInv, Noted
  <2>1. PICK n \in acked..(Launched - 1) : x = Wrapped(n) /\ Has(n)
    BY DEF IInv, Noted
  <2>2. n \in Nat /\ n < Launched
    OBVIOUS
  <2> QED BY <1>4, <2>1, <2>2
<1>8. OnTheWay'
  <2> SUFFICES ASSUME NEW p \in drws'
               PROVE  /\ p = Chunk(p.data) /\ p.data \in Nat
                      /\ p.data < Launched /\ Arrived' <= p.data + WrapLimit
    BY <1>3 DEF OnTheWay
  <2>1. p \in drws /\ p.data + MaxAge >= Arrived'
    BY <1>3
  <2>2. p = Chunk(p.data) /\ p.data \in Nat /\ p.data < Launched
    BY <2>1 DEF IInv, OnTheWay
  <2>3. Arrived' <= p.data + WrapLimit
    BY <1>4, <2>1, <2>2
  <2> QED BY <2>2, <2>3
<1>9. AcksOnTheWay'
  <2> SUFFICES ASSUME NEW p \in drwAcks'
               PROVE  /\ p = Chunk(p.data) /\ p.data \in Nat /\ p.data < Launched
                      /\ Has(p.data)' /\ acked <= p.data + WrapLimit
    BY <1>3 DEF AcksOnTheWay
  <2>1. CASE p \in drwAcks
    BY <1>4, <2>1 DEF IInv, AcksOnTheWay
  <2>2. CASE p = drw
    <3>1. p.data = d /\ acked <= d + WrapLimit
      BY <1>1, <2>2 DEF d
    <3> QED BY <1>1, <1>4, <2>2, <3>1
  <2> QED BY <1>3, <2>1, <2>2
<1> QED BY <1>3, <1>4, <1>5, <1>6, <1>7, <1>8, <1>9 DEF IInv

LEMMA WriteInv ==
  ASSUME IInv, NEW n \in WriteSizes, Write(n) \/ WriteContext(n)
  PROVE  IInv' /\ UNCHANGED <<out, told>> /\ sent' \in Nat /\ sent < sent'
<1> USE Bounds, Widths
<1>1. Enqueue(n)
  BY DEF Write, WriteContext
<1>2. /\ Counted' /\ Ordered' /\ InFlight' /\ Noted' /\ Gathered'
      /\ OnTheWay' /\ AcksOnTheWay'
  BY <1>1, EnqueueInv
<1>3. /\ n \in Nat /\ 0 < n
      /\ sent' = sent + n /\ sent' <= acked + MaxSpan
      /\ UNCHANGED <<out, told>>
      /\ writer = "blocked" => sent' <= goal + MaxOvertake
  BY <1>1, DrwAssumption DEF Enqueue, receiver
<1>4. Waits'
  <2>1. CASE Write(n)
    <3>1. UNCHANGED <<writer, done, goal>>
      BY <2>1 DEF Write
    <3> QED BY <1>3, <3>1 DEF IInv, Waits
  <2>2. CASE WriteContext(n)
    <3>1. writer' = "blocked" /\ done' = Add(txCtr, n) /\ goal' = sent + n
      BY <2>2 DEF WriteContext
    <3>2. done' = Wrapped(sent + n)
      <4>1. n < Mod
        BY <1>3
      <4> QED BY <1>3, <3>1, <4>1, WrapAdd DEF IInv, Counted
    <3> QED BY <1>3, <3>1, <3>2 DEF Waits
  <2> QED BY <2>1, <2>2
<1> QED BY <1>2, <1>3, <1>4 DEF IInv

(* Every step keeps the invariant, and is one of the stream or none.       *)
LEMMA Step ==
  ASSUME IInv, [Next]_vars
  PROVE  IInv' /\ [Stream!Next]_<<sent, out, told>>
<1> USE Bounds
<1>1. ASSUME NEW n \in WriteSizes, Write(n) \/ WriteContext(n)
      PROVE  IInv' /\ Stream!Write
  BY <1>1, WriteInv DEF Stream!Write
<1>2. CASE \E due \in SUBSET (txQueue \cup ToSet(backlog)) : Poll(due)
  <2>1. PICK due : Poll(due)
    BY <1>2
  <2>2. UNCHANGED <<sent, out, told>>
    BY <2>1 DEF Poll, receiver, history
  <2> QED BY <2>1, <2>2, PollInv
<1>3. CASE ResetTx
  BY <1>3, ResetInv
<1>4. CASE WriteDone
  <2>1. IInv' /\ UNCHANGED <<sent, out>> /\ told < told' /\ told' <= Arrived
    BY <1>4, WriteDoneInv
  <2>2. told' \in (told + 1)..Len(out)
    <3>1. told' \in Nat
      BY <2>1, Bounds DEF IInv, Counted
    <3> QED BY <2>1, <3>1 DEF Arrived
  <2> QED BY <2>1, <2>2 DEF Stream!Next, Stream!Confirm
<1>5. CASE \/ WriteFails \/ Close
           \/ \E drw \in drws : LoseDrw(drw)
           \/ \E ack \in drwAcks : LoseAck(ack)
           \/ UNCHANGED vars
  BY <1>5, QuietInv
<1>6. ASSUME NEW ack \in drwAcks, RXAck(ack)
      PROVE  IInv' /\ UNCHANGED <<sent, out, told>>
  BY <1>6, RXAckInv
<1>7. ASSUME NEW drw \in drws, RXDrw(drw)
      PROVE  IInv' /\ [Stream!Next]_<<sent, out, told>>
  <2>1. /\ IInv' /\ UNCHANGED <<sent, told>>
        /\ out' = out \/ \E n \in Nat : Delivers(n)
    BY <1>7, RXDrwInv
  <2>2. ASSUME NEW n \in Nat, Delivers(n), n # 0
        PROVE  Stream!Next
    <3>1. n \in 1..(sent - Len(out)) /\ Len(out) + n <= sent
      BY <2>2 DEF Delivers, Arrived
    <3>2. Stream!Deliver(n)
      BY <2>1, <2>2, <3>1 DEF Stream!Deliver, Delivers, Arrived
    <3> QED BY <3>1, <3>2 DEF Stream!Next
  <2>3. Delivers(0) => out' = out
    <3>1. [i \in 1..0 |-> Arrived + i - 1] = <<>>
      OBVIOUS
    <3> QED BY <3>1, ConcatEmptySeq DEF Delivers, IInv, Ordered
  <2> QED BY <2>1, <2>2, <2>3
<1> QED BY <1>1, <1>2, <1>3, <1>4, <1>5, <1>6, <1>7 DEF Next, Send, Stream!Next

LEMMA Inductive == Spec => []IInv
<1>1. IInv /\ [Next]_vars => IInv'
  BY Step
<1> QED BY <1>1, InitInv, PTL DEF Spec

(***************************************************************************)
(* However many chunks are written, however the network loses, repeats and *)
(* reorders packets, and wherever in its round a counter is: chunks come   *)
(* out in order and once, and a WriteContext that reports success has had  *)
(* its chunks delivered (channel.go).                                      *)
(***************************************************************************)
THEOREM ImplementsReliableStream == Spec => IsReliableStream
<1>1. Init => Stream!Init
  BY DEF Init, Stream!Init
<1>2. IInv /\ [Next]_vars => [Stream!Next]_<<sent, out, told>>
  BY Step
<1> QED BY <1>1, <1>2, Inductive, PTL DEF Spec, IsReliableStream, Stream!Spec

(* Variables keep their types, indices their width.                        *)
THEOREM TypeCorrect == Spec => []TypeOK
<1>1. Init => closed \in BOOLEAN
  BY DEF Init
<1>2. closed \in BOOLEAN /\ [Next]_vars => (closed \in BOOLEAN)'
  BY DEF Next, Send, Write, WriteContext, Enqueue, Poll, ResetTx, Close, WriteDone,
     WriteFails, RXAck, LoseAck, RXDrw, LoseDrw, sender, vars
<1>3. ASSUME IInv, closed \in BOOLEAN PROVE TypeOK
  <2> USE Bounds, Widths
  <2>1. MaxChunks \in Nat /\ sent \in 0..MaxChunks
    BY <1>3, DrwAssumption DEF IInv, Counted
  <2>2. \A n \in Nat : n < sent => Chunk(n) \in Chunks
    <3> SUFFICES ASSUME NEW n \in Nat, n < sent PROVE Chunk(n) \in Chunks
      OBVIOUS
    <3>1. Wrapped(n) \in U16 /\ n \in 0..(MaxChunks - 1)
      BY <2>1, WrapType
    <3> QED BY <3>1 DEF Chunk, Chunks
  <2>3. backlog \in Seq(Chunks)
    <3>1. \A i \in 1..Len(backlog) : backlog[i] \in Chunks
      <4> SUFFICES ASSUME NEW i \in 1..Len(backlog) PROVE backlog[i] \in Chunks
        OBVIOUS
      <4>1. backlog[i] = Chunk(Launched + i - 1)
        BY <1>3 DEF IInv, Ordered
      <4>2. Launched + i - 1 \in Nat /\ Launched + i - 1 < sent
        BY <1>3 DEF Launched
      <4> QED BY <2>2, <4>1, <4>2
    <3>2. backlog \in Seq([index : Nat, data : Nat])
      BY <1>3 DEF IInv, Ordered
    <3> QED BY <3>1, <3>2, Retyped
  <2>4. out \in Seq(0..(MaxChunks - 1))
    <3>1. \A i \in 1..Len(out) : out[i] \in 0..(MaxChunks - 1)
      <4> SUFFICES ASSUME NEW i \in 1..Len(out) PROVE out[i] \in 0..(MaxChunks - 1)
        OBVIOUS
      <4>1. out[i] = i - 1
        BY <1>3 DEF IInv, Ordered
      <4> QED BY <1>3, <2>1, <4>1 DEF Arrived
    <3>2. out \in Seq(Nat)
      BY <1>3 DEF IInv, Ordered
    <3> QED BY <3>1, <3>2, Retyped
  <2>5. txQueue \subseteq Chunks /\ drws \subseteq Chunks /\ drwAcks \subseteq Chunks
    <3>1. ASSUME NEW p, p = Chunk(p.data), p.data \in Nat, p.data < Launched
          PROVE  p \in Chunks
      BY <1>3, <2>2, <3>1
    <3> QED BY <1>3, <3>1 DEF IInv, InFlight, OnTheWay, AcksOnTheWay
  <2>6. acks \subseteq U16
    BY <1>3, WrapType DEF IInv, Noted
  <2>7. /\ DOMAIN rxQueue \subseteq U16
        /\ \A i \in DOMAIN rxQueue : rxQueue[i] \in 0..(MaxChunks - 1)
    <3> SUFFICES ASSUME NEW x \in DOMAIN rxQueue
                 PROVE  x \in U16 /\ rxQueue[x] \in 0..(MaxChunks - 1)
      OBVIOUS
    <3>1. rxQueue[x] \in Nat /\ x = Wrapped(rxQueue[x]) /\ rxQueue[x] < Launched
      BY <1>3 DEF IInv, Gathered
    <3>2. x \in U16
      BY <3>1, WrapType
    <3> QED BY <1>3, <2>1, <3>1, <3>2
  <2>8. txCtr \in U16 /\ txAck \in U16 /\ done \in U16 /\ rxCtr \in U16
    BY <1>3, WrapType DEF IInv, Counted, Waits
  <2>9. /\ writer \in {"idle", "blocked"}
        /\ acked \in Nat /\ told \in Nat /\ goal \in Nat
    BY <1>3 DEF IInv, Waits
  <2> QED BY <1>3, <2>1, <2>3, <2>4, <2>5, <2>6, <2>7, <2>8, <2>9 DEF TypeOK
<1>4. IInv /\ closed \in BOOLEAN => TypeOK
  BY <1>3
<1> QED BY <1>1, <1>2, <1>4, Inductive, PTL DEF Spec

=============================================================================
