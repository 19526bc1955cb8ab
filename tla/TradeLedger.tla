---------------------------- MODULE TradeLedger ----------------------------
(***************************************************************************)
(* What the cache of completed trades promises the pages that read it: a   *)
(* ledger of the chain's trades up to a height.  There are no requests, no *)
(* locks and no half-done work here; trades and height are recorded        *)
(* together, nothing is struck out, and a trade up to the height that is   *)
(* not in the ledger is known to have been missed.                         *)
(***************************************************************************)
EXTENDS Integers

CONSTANT Orders  \* completed trades

VARIABLES
  blockOf,    \* height of a trade's block, 0 if it is on no block
  stored,     \* the trades in the ledger
  watermark,  \* the height up to which it claims to be filled
  missed      \* trades it has stepped over

Complete == \A o \in Orders : blockOf[o] \in 1..watermark => o \in stored \union missed

Init == blockOf = [o \in Orders |-> 0] /\ stored = {} /\ watermark = 0 /\ missed = {}

\* Blocks are connected and disconnected, and trades are missed; the ledger stays as
\* it is, and the height it claims stays right.
Lag ==
  /\ blockOf' \in [Orders -> Nat] /\ missed \subseteq missed' /\ Complete'
  /\ UNCHANGED <<stored, watermark>>

\* A batch of trades and the height they reach up to, at once.
Record ==
  /\ stored \subseteq stored' /\ stored' \subseteq Orders /\ watermark' \in Nat /\ Complete'
  /\ UNCHANGED <<blockOf, missed>>

Spec == Init /\ [][Lag \/ Record]_<<blockOf, stored, watermark, missed>>
=============================================================================
