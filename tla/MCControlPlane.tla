---------------------------- MODULE MCControlPlane ----------------------------
(***************************************************************************)
(* Instances of ControlPlane for TLC.                                      *)
(***************************************************************************)
EXTENDS ControlPlane, TLC
CONSTANTS u1, u2, f1, f2, default, kubernetes, other
AllKinds      == {"apiserver", "etcd", "scheduler"}
SchedulerOnly == {"scheduler"}
TheApiServer  == <<default, kubernetes>>
=============================================================================
