----------------------------- MODULE MCBufalloc -----------------------------
(***************************************************************************)
(* Model checking of Bufalloc.  The constants are given in the .cfg files; *)
(* threads, buffers and chunk records are interchangeable.                 *)
(***************************************************************************)
EXTENDS Bufalloc, TLC

Symmetry == Permutations(Threads) \cup Permutations(Handles) \cup Permutations(Chunks)
=============================================================================
