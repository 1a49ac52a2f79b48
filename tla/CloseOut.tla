------------------------------ MODULE CloseOut ------------------------------
(***************************************************************************)
(* What closing a position promises the account, whoever asks for it, with *)
(* the rows, answers, reservation and mirror left out.                     *)
(*                                                                         *)
(*   - closing orders are at IB one at a time, and the one that is there   *)
(*     never sells more than IB still holds;                               *)
(*   - what IB holds only goes down, a contract at a time, under an order; *)
(*   - the position never returns to "open", and is called closed only     *)
(*     when IB holds nothing of it.                                        *)
(***************************************************************************)
EXTENDS Naturals

CONSTANT Lot        \* contracts of the position

VARIABLES held,     \* contracts IB holds
          offered,  \* contracts the closing orders live at IB may still sell
          state     \* booked_position.state

outVars == <<held, offered, state>>

OutInit == held = Lot /\ offered = 0 /\ state = "open"

\* A closing order goes live.
Offer(q) ==
  /\ offered = 0 /\ q \in 1..held
  /\ offered' = q
  /\ UNCHANGED <<held, state>>

\* One contract of it is sold.
Sell ==
  /\ offered > 0
  /\ offered' = offered - 1 /\ held' = held - 1
  /\ UNCHANGED state

\* It is cancelled.
Withdraw ==
  /\ offered > 0 /\ offered' = 0
  /\ UNCHANGED <<held, state>>

\* It is put into "closing" by hand, which may overtake a reconciliation ...
CloseByHand == state' = "closing" /\ UNCHANGED <<held, offered>>

\* ... and is closed by the position sync once IB holds nothing of it.
Reconcile == held = 0 /\ state' = "closed" /\ UNCHANGED <<held, offered>>

OutNext == (\E q \in 1..Lot : Offer(q)) \/ Sell \/ Withdraw \/ CloseByHand \/ Reconcile

Spec == OutInit /\ [][OutNext]_outVars
=============================================================================
