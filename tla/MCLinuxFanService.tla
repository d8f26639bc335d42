-------------------------- MODULE MCLinuxFanService --------------------------
(***************************************************************************)
(* Two users: one of the two GPU settings, which share a byte, and one of  *)
(* the fans and the lightbar, the first and the last stage of maintain.    *)
(***************************************************************************)
EXTENDS LinuxFanService

CONSTANTS low, full, red

TwoUsers == {{"fans", "lightbar"}, {"offset", "dynamic"}}
=============================================================================
