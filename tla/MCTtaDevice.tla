---------------------------- MODULE MCTtaDevice ----------------------------
(***************************************************************************)
(* TtaDevice for TLC.                                                      *)
(***************************************************************************)
EXTENDS TtaDevice

\* Launches of one, two and three dimensions; num_groups has a size for each
\* dimension, also beyond work_dim.
SomeShapes ==
  {[work_dim |-> 1, num_groups |-> <<3, 1, 1>>], [work_dim |-> 1, num_groups |-> <<1, 2, 2>>],
   [work_dim |-> 2, num_groups |-> <<2, 2, 1>>], [work_dim |-> 3, num_groups |-> <<2, 1, 2>>]}
=============================================================================
