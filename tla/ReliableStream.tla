--------------------------- MODULE ReliableStream ---------------------------
(***************************************************************************)
(* What a logical PPPP channel promises its two ends: chunks come out in   *)
(* the order in which they were written, each exactly once, and a writer   *)
(* that is told so has had its chunks delivered.  Chunks are numbered from *)
(* 0 in the order of their writing.                                        *)
(***************************************************************************)
EXTENDS Naturals, Sequences

VARIABLES
  written,   \* how many chunks have been written
  delivered, \* the chunks handed to the reader
  confirmed  \* up to which chunk writers were told of success

Init ==
  /\ written = 0
  /\ delivered = <<>>
  /\ confirmed = 0

Write ==
  /\ written' \in Nat
  /\ written' > written
  /\ UNCHANGED <<delivered, confirmed>>

(* The next n chunks, all of which have been written, reach the reader.    *)
Deliver(n) ==
  /\ Len(delivered) + n <= written
  /\ delivered' = delivered \o [i \in 1..n |-> Len(delivered) + i - 1]
  /\ UNCHANGED <<written, confirmed>>

(* A write reports success.                                                *)
Confirm ==
  /\ confirmed' \in (confirmed + 1)..Len(delivered)
  /\ UNCHANGED <<written, delivered>>

Next ==
  \/ Write
  \/ Confirm
  \/ \E n \in 1..(written - Len(delivered)) : Deliver(n)

Spec == Init /\ [][Next]_<<written, delivered, confirmed>>

=============================================================================
