--------------------------- MODULE MCConsumerGroup ---------------------------
(***************************************************************************)
(* Instances of ConsumerGroup for TLC: a user that joins, consumes, leaves *)
(* and closes, in any order.                                               *)
(***************************************************************************)
EXTENDS ConsumerGroup

CONSTANTS j1, k1, l1, r1, x, t1

OwnTopic == k1 :> t1
=============================================================================
