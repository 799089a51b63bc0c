--------------------------- MODULE MCCommandQueue ---------------------------
(***************************************************************************)
(* Model checking of CommandQueue.  The queues are on one kind of device   *)
(* (Driver); threads, events and kernels are interchangeable.              *)
(***************************************************************************)
EXTENDS CommandQueue, TLC

CONSTANT Driver

DeviceOf == [q \in Queues |-> Driver]

Symmetry == Permutations(Threads) \cup Permutations(Events) \cup Permutations(Queues)
            \cup Permutations(Bufs \ SubBufs)
=============================================================================
