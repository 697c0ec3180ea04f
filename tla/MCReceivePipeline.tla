------------------------- MODULE MCReceivePipeline --------------------------
(***************************************************************************)
(* Instances of the receive pipeline for TLC.                              *)
(***************************************************************************)
EXTENDS ReceivePipeline

CONSTANTS p1, e1, e2

OneProducer == {p1}
OneEngine   == {e1}
TwoEngines  == {e1, e2}
SecondOnly  == {2}
NoSnapshots == {0}
AllTops     == 0 .. 3

=============================================================================
