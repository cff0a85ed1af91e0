--------------------------- MODULE MCMessagesStream ---------------------------
(***************************************************************************)
(* Instances of MessagesStream for TLC: a topic of two partitions, with a  *)
(* leader each.                                                            *)
(***************************************************************************)
EXTENDS MessagesStream

CONSTANTS x, y, c1, c2

TwoLeaders == 0 :> x @@ 1 :> y

\* The group has committed the first message of partition 0, in the middle
\* of a batch, and none or the first one of partition 1.
MidBatch  == 0 :> 0 @@ 1 :> -1
BothBegun == 0 :> 0 @@ 1 :> 0
\* Two batches in one partition.
OneLonger == 0 :> 2 @@ 1 :> 1
OtherLonger == 0 :> 1 @@ 1 :> 2
NoManual  == 0 :> -1 @@ 1 :> -1
=============================================================================
