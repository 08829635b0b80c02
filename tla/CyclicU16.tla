----------------------------- MODULE CyclicU16 -----------------------------
(***************************************************************************)
(* CyclicU16 of internal/pppp/protocol/cyclic.go: the counters of a PPPP   *)
(* channel.  The code's constants are Mod = 65536, half of it, and the     *)
(* wrap window 256; here the first and the last are parameters.            *)
(***************************************************************************)
EXTENDS Integers

CONSTANTS
  Mod,       \* how many values a counter has
  WrapLimit  \* defaultWrapLimit

ASSUME CyclicAssumption ==
  /\ Mod \in Nat /\ WrapLimit \in Nat
  /\ Mod % 2 = 0
  /\ 0 < WrapLimit /\ 2 * WrapLimit <= Mod

Half == Mod \div 2
U16 == 0..(Mod - 1)

Add(c, v) == IF c + v < Mod THEN c + v ELSE c + v - Mod
Sub(c, v) == IF c >= v THEN c - v ELSE c - v + Mod

(* The forward distance from a to b. *)
Diff(a, b) == Sub(b, a)

IsAfter(a, b) == Diff(a, b) # 0 /\ Diff(a, b) < Half
IsAfterOrEqual(a, b) == a = b \/ IsAfter(a, b)

(* The top bits of the two differ. *)
AcrossHalves(a, b) == (a < Half) # (b < Half)

(* Mutant of Greater. *)
NotLess(c, other) == c >= other

Greater(c, other) ==
  IF AcrossHalves(c, other) THEN Sub(c, WrapLimit) > Sub(other, WrapLimit)
                            ELSE c > other

=============================================================================
