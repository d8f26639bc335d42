------------------------- MODULE MCWindowsFanService -------------------------
(* The Windows service: each part by itself.                               *)
EXTENDS WindowsFanService

EachPart == {{"fans"}, {"gpu"}, {"lightbar"}}
GpuOnly  == {{"gpu"}}
=============================================================================
