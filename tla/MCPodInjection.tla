---------------------------- MODULE MCPodInjection ----------------------------
(***************************************************************************)
(* Instances of PodInjection for TLC.  One unit of time is 10 s: the base  *)
(* delay is 1 and a command's timeout 3, as in the code; the number of     *)
(* attempts and the maximal delay are cut from 6 and 30.                   *)
(***************************************************************************)
EXTENDS PodInjection, TLC
CONSTANTS p1, p2
OnePod    == {p1}
TwoPods   == {p1, p2}
FirstSlot == {1}
BothSlots == {1, 2}
NoSource  == {}
=============================================================================
