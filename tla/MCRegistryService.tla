------------------------- MODULE MCRegistryService -------------------------
(***************************************************************************)
(* Bounds for model checking RegistryService.                              *)
(***************************************************************************)
EXTENDS RegistryService, TLC

Symmetry == Permutations(Connections) \cup Permutations(Events)
============================================================================
