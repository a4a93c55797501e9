--------------------------- MODULE MCContainerLookup ---------------------------
(***************************************************************************)
(* Instances of ContainerLookup for TLC.                                   *)
(***************************************************************************)
EXTENDS ContainerLookup, TLC
CONSTANTS r1, r2, c1, k8s, moby
AllRuntimes     == {"docker", "containerd", "crio"}
AllInK8s        == [c \in Containers |-> k8s]
=============================================================================
