------------------------------ MODULE MCLinkedMap -----------------------------
(***************************************************************************)
(* Instances of LinkedMap for TLC.                                         *)
(***************************************************************************)
EXTENDS LinkedMap
CONSTANTS c1, v1, v2
AllKinds == {"IntKeyLinkedMap", "StringKeyLinkedMap", "IntLinkedSet"}
ThreeKeys == {-1, 0, 2}
===============================================================================
