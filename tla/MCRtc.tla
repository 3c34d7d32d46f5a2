--------------------------------- MODULE MCRtc ---------------------------------
(* The clock with one terminal whose program may launch another program, so   *)
(* that a launcher with a rate of its own is resumed by halt32, and one with a *)
(* single program.                                                            *)
EXTENDS Rtc

Depths == [t \in Terms |-> IF t = "t0" THEN 2 ELSE 1]
=============================================================================
