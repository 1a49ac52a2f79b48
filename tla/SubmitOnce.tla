----------------------------- MODULE SubmitOnce -----------------------------
(***************************************************************************)
(* What the submission of one structure promises its callers and the       *)
(* account (engines/execution/live_submit.py), with one caller, no process *)
(* to die and no commit to fail: the legs of a structure go to IB once,    *)
(* under a claim, in leg order or all in one BAG.                          *)
(*                                                                         *)
(*   - a leg is sent under the claim, after every leg before it: what is   *)
(*     at IB is always a prefix of the structure, and a deployment with    *)
(*     combos sends either nothing of it or all of it;                     *)
(*   - the claim is given back only while nothing is at IB;                *)
(*   - a leg that is at IB may learn its IB id, and keeps it.              *)
(***************************************************************************)
EXTENDS Naturals

CONSTANT NLegs       \* entry legs of the structure, leg_idx 1..NLegs

VARIABLES asBag,     \* the legs go out as one BAG
          claimed,   \* the structure's submission is claimed
          placed,    \* number of orders ever sent to IB for a leg
          named      \* legs whose row carries an IB id

Legs == 1..NLegs

OnceInit ==
  /\ asBag \in BOOLEAN /\ claimed = FALSE
  /\ placed = [l \in Legs |-> 0]
  /\ named = {}

\* A caller wins the claim.
Take == ~claimed /\ claimed' = TRUE /\ UNCHANGED <<placed, named>>

\* It gives up before its first placement.
Release ==
  /\ claimed /\ claimed' = FALSE
  /\ \A l \in Legs : placed[l] = 0
  /\ UNCHANGED <<placed, named>>

\* The next leg goes to IB: those before it have, no other has.
SendLeg(l) ==
  /\ claimed /\ ~asBag
  /\ \A m \in Legs : placed[m] = IF m < l THEN 1 ELSE 0
  /\ placed' = [placed EXCEPT ![l] = 1]
  /\ UNCHANGED <<claimed, named>>

\* The BAG goes to IB.
SendBag ==
  /\ claimed /\ asBag
  /\ \A l \in Legs : placed[l] = 0
  /\ placed' = [l \in Legs |-> 1]
  /\ UNCHANGED <<claimed, named>>

\* Rows learn the ids of their orders.
Name ==
  /\ named \subseteq named'
  /\ \A l \in named' : l \in Legs /\ placed[l] = 1
  /\ UNCHANGED <<claimed, placed>>

OnceNext ==
  /\ Take \/ Release \/ (\E l \in Legs : SendLeg(l)) \/ SendBag \/ Name
  /\ UNCHANGED asBag

Spec == OnceInit /\ [][OnceNext]_<<asBag, claimed, placed, named>>
=============================================================================
