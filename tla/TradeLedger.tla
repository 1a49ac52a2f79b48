----------------------------- MODULE TradeLedger -----------------------------
(***************************************************************************)
(* What the order side promises the readers of its tables (the panels, the *)
(* position monitor, the rollups) about one structure, whoever writes the  *)
(* rows: an append-only ledger of what IB executed.                        *)
(*                                                                         *)
(*   - a trade_fill row is an execution IB made, entered once, and never   *)
(*     rewritten or removed;                                               *)
(*   - leg_position.open_qty moves with the rows, by one contract a row,   *)
(*     in the same commit;                                                 *)
(*   - the position of the structure is booked once, when every leg on a   *)
(*     contract of its own has traded, and never unbooked (of a contract   *)
(*     the account trades for others too, the net position at IB cannot    *)
(*     tell whose it is, and nothing is promised).                         *)
(*                                                                         *)
(* Orders, their states, events and the processes that handle them do not  *)
(* appear: no status, no pass of a repair loop and no crash may show here. *)
(***************************************************************************)
EXTENDS Naturals

CONSTANTS Legs,       \* entry legs of the structure
          Qty,        \* contracts ordered, per leg
          Shared      \* legs whose contract the account also trades for others

VARIABLES executed,   \* contracts IB executed; their execution ids are 1..executed[l]
          recorded,   \* execution ids with a trade_fill row, per leg
          position,   \* leg_position.open_qty
          booked      \* booked_position rows of the structure

LedgerInit ==
  /\ executed = [l \in Legs |-> 0]
  /\ recorded = [l \in Legs |-> {}]
  /\ position = [l \in Legs |-> 0]
  /\ booked = 0

\* IB executes one more contract.
Execute(l) ==
  /\ executed[l] < Qty[l]
  /\ executed' = [executed EXCEPT ![l] = @ + 1]
  /\ UNCHANGED <<recorded, position, booked>>

\* An execution that has no row enters the book: row and position in one commit.
Record(l, e) ==
  /\ e \in (1..executed[l]) \ recorded[l]
  /\ recorded' = [recorded EXCEPT ![l] = @ \cup {e}]
  /\ position' = [position EXCEPT ![l] = @ + 1]
  /\ UNCHANGED <<executed, booked>>

\* The structure is complete.
Book ==
  /\ booked = 0 /\ \A l \in Legs \ Shared : executed[l] > 0
  /\ booked' = 1
  /\ UNCHANGED <<executed, recorded, position>>

LedgerNext ==
  \/ \E l \in Legs : Execute(l) \/ \E e \in 1..Qty[l] : Record(l, e)
  \/ Book

Spec == LedgerInit /\ [][LedgerNext]_<<executed, recorded, position, booked>>
=============================================================================
