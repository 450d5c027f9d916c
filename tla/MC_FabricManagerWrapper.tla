---------------------- MODULE MC_FabricManagerWrapper ----------------------
(***************************************************************************)
(* FabricManagerWrapper has no parameters and finitely many states.        *)
(***************************************************************************)
EXTENDS FabricManagerWrapper

=============================================================================
