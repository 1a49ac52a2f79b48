-------------------------- MODULE MCOrderLifecycle --------------------------
(***************************************************************************)
(* OrderLifecycle on small structures: one contract per leg, or two so     *)
(* that partial fills happen.                                              *)
(***************************************************************************)
EXTENDS OrderLifecycle

OneEach == [l \in Legs |-> 1]
TwoEach == [l \in Legs |-> 2]
=============================================================================
