--------------------------- MODULE MCConnectionPool ---------------------------
(***************************************************************************)
(* Instances of ConnectionPool for TLC: brokers a and b, which accept, and *)
(* x, whose address createConnection refuses.                              *)
(***************************************************************************)
EXTENDS ConnectionPool, TLC

CONSTANTS a, b, x, g1, g2, g3

FourConns == 1..4

\* One call may fall back from x, the other two ask for a and b.
ThreeAsks == [g \in Gets |->
    CASE g = g1 -> {<<x, a>>}
      [] g = g2 -> {<<b>>, <<a>>}
      [] g = g3 -> {<<a>>}]
===============================================================================
