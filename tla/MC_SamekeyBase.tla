--------------------------- MODULE MC_SamekeyBase ---------------------------
(* Instances of SamekeyBase for TLC: two kernels of one release and one of   *)
(* another.                                                                  *)
EXTENDS SamekeyBase

CONSTANTS k1, k2, k3

MCReleaseOf == [k \in Kernels |-> IF k = k3 THEN "r2" ELSE "r1"]
=============================================================================
