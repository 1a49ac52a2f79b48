----------------------------- MODULE MCDbWriter -----------------------------
EXTENDS DbWriter

\* A cycle's rows in publication order.
MCStream == <<"a", "p", "u", "b">>

\* Two rows for one table, one of them refused by it; one for another table; one
\* for a table the writer does not know.
MCTableOf == [r \in ToSet(MCStream) |-> CASE r \in {"a", "p"} -> "vol" [] r = "b" -> "pca" [] OTHER -> "gone"]
=============================================================================
