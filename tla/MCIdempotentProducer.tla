------------------------- MODULE MCIdempotentProducer -------------------------
(***************************************************************************)
(* Instances of IdempotentProducer for TLC: two brokers and two partitions *)
(* with a leader each.                                                     *)
(***************************************************************************)
EXTENDS IdempotentProducer

CONSTANTS x, y, p, q, s1, s2, s3

\* A send over two partitions, and one to each of them.
Mixed == s1 :> <<p, q>> @@ s2 :> <<p>> @@ s3 :> <<q, q>>

\* The first send spans both brokers.
SpanningSend == s1 :> <<p, q>> @@ s2 :> <<p>>
TwoLeaders   == p :> x @@ q :> y

\* s3 is larger than the broker takes.
TooLarge == {<<s3, q>>}
=============================================================================
