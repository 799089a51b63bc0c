--------------------------- MODULE MCHostObjects ---------------------------
(***************************************************************************)
(* HostObjects for TLC.                                                    *)
(***************************************************************************)
EXTENDS HostObjects

\* Handles are opaque.
Symmetry == Permutations(Contexts) \cup Permutations(Kernels)
=============================================================================
