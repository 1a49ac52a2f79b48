----------------------------- MODULE MCTradeDesk -----------------------------
(***************************************************************************)
(* TradeDesk on two previews.  The first asks for a template straddle, of  *)
(* a quantity that the stressed regime would round down or of a negative   *)
(* one; the second for a long strangle of free legs with strikes set by     *)
(* hand, without a quantity.  The surface has its 2M tenor interpolated, so  *)
(* that a 2M leg snaps to 1M, where it lacks the put's IV; the synthetic    *)
(* surface lacks nothing.                                                   *)
(***************************************************************************)
EXTENDS TradeDesk

CONSTANTS p1, p2

Template(type, qty) == [template |-> type, near |-> "1M", far |-> "2M", pillar |-> "", strike |-> "",
                        size |-> "", qty |-> qty, legs |-> <<>>]
Free(legs, qty) == [Template("", qty) EXCEPT !.legs = legs]
Wing(type, pillar) == [type |-> type, side |-> "BUY", tenor |-> "2M", pillar |-> pillar,
                       strike |-> pillar, factor |-> 1, size |-> ""]

Straddle(qty) == Template("straddle_atm", qty)
Strangle == Free(<<Wing("call", "25dc"), Wing("put", "25dp")>>, 0)

MCRequests == (p1 :> {Straddle(2), Straddle(-1)}) @@ (p2 :> {Strangle})

Partial(age) == [iv |-> {<<"1M", "atm">>, <<"1M", "25dc">>, <<"2M", "25dc">>, <<"2M", "25dp">>},
                 interp |-> {"2M"}, age |-> age]
MCSurfaces == {Partial("fresh")}

CallSymmetry == Permutations(Calls)
=============================================================================
