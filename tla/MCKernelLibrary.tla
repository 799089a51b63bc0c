-------------------------- MODULE MCKernelLibrary --------------------------
(***************************************************************************)
(* Model checking of the kernel library: integers of 2 and 4 bits with all *)
(* arguments, floats of 7 bits with all bit patterns, vectors of all       *)
(* widths.                                                                 *)
(***************************************************************************)
EXTENDS VectorTemplates
=============================================================================
