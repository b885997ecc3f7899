------------------------- MODULE MCTerremotoDevice --------------------------
(***************************************************************************)
(* Samples whose average over ten is 0, 1, 2 and more, of either sign.     *)
(***************************************************************************)
EXTENDS TerremotoDevice

AxisSamples == {-18, 3, 16}
RawSamples == {-32768, -204, -124, -52, 0}
Zeros == {-1, 0}                       \* AVR, and ARM
=============================================================================
