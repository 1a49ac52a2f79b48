---------------------------- MODULE MCLiveFeeds ----------------------------
(* One tenor, one leg priced on it: a surface is published and replaced as a *)
(* whole, so a second tenor only multiplies the states.                      *)
EXTENDS LiveFeeds, TLC

CONSTANTS t1, leg1

MCTenorOf == leg1 :> t1
=============================================================================
