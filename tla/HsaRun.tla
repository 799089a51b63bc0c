------------------------------- MODULE HsaRun -------------------------------
(***************************************************************************)
(* The execution of one kernel launch by a GPU (pocl_hsa_run in            *)
(* lib/CL/devices/hsa), beside the drivers of PthreadRun.                  *)
(*                                                                         *)
(* The host lays the arguments out in a kernarg buffer, writes a dispatch  *)
(* packet into the ring of the queue, rings the doorbell and waits for the *)
(* completion signal.  The agent, which belongs to the HSA runtime, takes  *)
(* packets in order and runs the groups of one in any order.               *)
(*                                                                         *)
(* The sizes of local arguments are read twice: from the copy made by      *)
(* clEnqueueNDRangeKernel to place the buffers, and from the kernel itself *)
(* to reserve room for them.  SetKernelArg may come between.               *)
(***************************************************************************)
EXTENDS PthreadRun

CONSTANTS
  num_locals,   \* of the arguments, how many automatic locals there are
  Gpus,         \* dev_id of the devices of type GPU
  ArgSize,      \* al->size of each argument, as copied by the enqueueing call
  LocalSizes,   \* sizes clSetKernelArg gives local arguments later
  HiddenArgs,   \* hsaArgCount - num_args
  StaticGroup,  \* workgroup_group_segment_byte_size: the automatic locals
  RingSize,     \* queue->size, a power of two
  WriteIndices  \* write index of the queue before the launch

ASSUME SizesAssumption ==
  /\ num_locals \in 0..Len(Args)
  /\ ArgSize \in [DOMAIN Args -> Nat] /\ LocalSizes \subseteq Nat
  /\ HiddenArgs \in Nat /\ StaticGroup \in Nat
  /\ RingSize \in Nat \ {0} /\ WriteIndices \subseteq Nat
\* A device the HSA driver serves is a GPU.
ASSUME GpuAssumption == "hsa" \in Drivers => MyDev \in Gpus
\* The sizes of a launch and of its groups fit the packet, which has 16 bits for
\* each of them here.
ASSUME GridAssumption ==
  \A l \in Launches, d \in 1..3 : Extended(l, l.global)[d] < 2^16 /\ LocalSizeOf(l)[d] < 2^16

VARIABLES
  dyn_size,     \* kernel->dyn_arguments[].size
  ring,         \* the packets at queue->base_address
  write_index, doorbell, read_index,
  signal,       \* completion_signal
  todo          \* groups of the packet being executed that are still to run

hsaVars == <<dyn_size, ring, write_index, doorbell, read_index, signal, todo>>

num_args == Len(Args) - num_locals

None == [kernarg |-> <<>>, locals |-> <<>>, group_segment |-> 0, group |-> <<0, 0, 0>>,
         grid |-> <<0, 0, 0>>, ptr |-> -1]

HsaInit ==
  /\ Init
  /\ dyn_size = ArgSize
  /\ ring = [k \in 0..(RingSize - 1) |-> None]
  /\ write_index \in WriteIndices /\ read_index = write_index /\ doorbell = write_index - 1
  /\ signal = 0 /\ todo = {}
-----------------------------------------------------------------------------
(* The kernarg buffer and the packet.                                      *)

\* Mistaken form: pointers are packed.
Unaligned(at) == at

AlignUp(at) == IF at % 8 # 0 THEN at + (8 - (at % 8)) ELSE at

\* Kinds without a branch of their own: a sampler goes the way of a scalar.
Packed == {"value", "sampler"}

\* Where argument a goes when the arguments before it end at at: scalars are
\* packed with their own size, everything else is an aligned word.
Slot(a, at) == IF Args[a] \in Packed THEN at ELSE AlignUp(at)

Width(a) == IF Args[a] \in Packed THEN ArgSize[a] ELSE 8

\* Where the first k arguments end.
EndOf[k \in 0..num_args] ==
  IF k = 0 THEN 8 * HiddenArgs ELSE Slot(k, EndOf[k - 1]) + Width(k)

\* Bytes of group memory of the local arguments among the first k.
LocalBytes(size) ==
  LET sum[k \in 0..num_args] ==
        IF k = 0 THEN 0 ELSE sum[k - 1] + (IF Args[k] = "local" THEN size[k] ELSE 0)
  IN  sum

\* local_pointer: the local buffers follow the automatic ones and one another.
LocalAt(a) == StaticGroup + LocalBytes(ArgSize)[a - 1]

group_segment_size == StaticGroup + LocalBytes(dyn_size)[num_args]

\* dev_id of the first GPU of the context, whichever the device of the queue is.
mem_index ==
  LET gpus == {d \in DOMAIN ContextDevs : ContextDevs[d] \in Gpus}
  IN  ContextDevs[CHOOSE d \in gpus : \A e \in gpus : d <= e]

Packet ==
  [kernarg       |-> [a \in 1..num_args |-> Slot(a, EndOf[a - 1])],
   locals        |-> [a \in {b \in 1..num_args : Args[b] = "local"} |-> LocalAt(a)],
   group_segment |-> group_segment_size,
   group         |-> [d \in 1..3 |-> local_size[d] % 2^16],
   grid          |-> [d \in 1..3 |-> global_size[d] % 2^16],
   ptr           |-> device_ptrs(mem_index)]
-----------------------------------------------------------------------------
(* pocl_hsa_run.  workers[1] is the caller; its memory 0 is the kernarg    *)
(* buffer.                                                                 *)

\* The host changes the size of a local argument of the kernel between the
\* enqueueing call and clFinish, for a launch it is about to enqueue.
SetKernelArg ==
  /\ driver = "hsa" /\ pc = "start"
  /\ \E a \in 1..num_args, s \in LocalSizes :
       Args[a] = "local" /\ dyn_size' = [dyn_size EXCEPT ![a] = s]
  /\ UNCHANGED <<vars, ring, write_index, doorbell, read_index, signal, todo>>

\* The signal, the kernarg buffer and the packet.
HsaSetup ==
  /\ driver = "hsa" /\ pc = "start"
  /\ pc' = "dispatch"
  /\ signal' = 1
  /\ workers' = <<[at |-> "dispatch", first |-> 0, last |-> num_groups[1] - 1, gid |-> <<0, 0, 0>>,
                   mem |-> {0}, ptr |-> Packet.ptr]>>
  /\ ring' = [ring EXCEPT ![write_index % RingSize] = Packet]
  /\ UNCHANGED <<driver, sizes, max_threads, i, first_gid_x, last_gid_x, ran, status,
                 dyn_size, write_index, doorbell, read_index, todo>>

\* hsa_queue_store_write_index_relaxed, and the doorbell.
HsaDispatch ==
  /\ pc = "dispatch"
  /\ pc' = "wait"
  /\ write_index' = write_index + 1
  /\ doorbell' = write_index
  /\ UNCHANGED <<driver, sizes, max_threads, i, first_gid_x, last_gid_x, workers, ran, status,
                 dyn_size, ring, read_index, signal, todo>>

\* Mistaken form: the signal is not waited for.
SignalledAlways == TRUE

\* hsa_signal_wait_acquire(signal, HSA_LT, 1)
Signalled == signal < 1

\* The kernel has run: the kernarg buffer is given back.
HsaFinished ==
  /\ pc = "wait" /\ Signalled /\ signal >= 0
  /\ pc' = "returned"
  /\ workers' = [workers EXCEPT ![1].at = "exited", ![1].mem = @ \ {0}]
  /\ UNCHANGED <<driver, sizes, max_threads, i, first_gid_x, last_gid_x, ran, status, hsaVars>>

\* The kernel has failed: the runtime is shut down, nothing is given back, and
\* the caller is not told.
HsaFailed ==
  /\ pc = "wait" /\ Signalled /\ signal < 0
  /\ pc' = "returned"
  /\ workers' = [workers EXCEPT ![1].at = "exited"]
  /\ UNCHANGED <<driver, sizes, max_threads, i, first_gid_x, last_gid_x, ran, status, hsaVars>>
-----------------------------------------------------------------------------
(* The agent, as the HSA runtime documents it.                             *)

\* The next packet is taken from the ring.
AgentTakes ==
  /\ doorbell >= read_index /\ todo = {}
  /\ LET P == ring[read_index % RingSize] IN
     todo' = {g \in AllGroups : \A d \in 1..3 : g[d] * P.group[d] < P.grid[d]}
  /\ read_index' = read_index + 1
  /\ UNCHANGED <<vars, dyn_size, ring, write_index, doorbell, signal>>

\* A group is executed; behind the last one the signal is decremented.
AgentGroup ==
  \E g \in todo :
    /\ ran' = [ran EXCEPT ![g] = @ + 1]
    /\ todo' = todo \ {g}
    /\ signal' = IF todo' = {} THEN signal - 1 ELSE signal
    /\ UNCHANGED <<driver, pc, sizes, max_threads, i, first_gid_x, last_gid_x, workers, status,
                   dyn_size, ring, write_index, doorbell, read_index>>

\* The packet is given up.
AgentFails ==
  /\ todo # {}
  /\ todo' = {} /\ signal' = -1
  /\ UNCHANGED <<vars, dyn_size, ring, write_index, doorbell, read_index>>
-----------------------------------------------------------------------------
Hsa == HsaSetup \/ HsaDispatch \/ HsaFinished \/ HsaFailed

Agent == AgentTakes \/ AgentGroup \/ AgentFails

HsaNext == (Next /\ UNCHANGED hsaVars) \/ SetKernelArg \/ Hsa \/ Agent

HsaSpec == HsaInit /\ [][HsaNext]_<<vars, hsaVars>>

\* As in PthreadRun; the agent works on while it has a packet.
FairHsaSpec ==
  /\ HsaSpec
  /\ WF_<<vars, hsaVars>>((Main /\ UNCHANGED hsaVars) \/ Hsa)
  /\ \A w \in WorkerIds : WF_<<vars, hsaVars>>(Work(w) /\ UNCHANGED hsaVars)
  /\ WF_<<vars, hsaVars>>(Agent)
-----------------------------------------------------------------------------
(* Properties.                                                             *)

Failed == signal < 0

\* When the event is CL_COMPLETE every group has been executed and no thread
\* still reads the argument array, which clFinish frees next; unless the GPU
\* gave the kernel up, which clFinish does not hear of.
CompleteUnlessFailed == Failed \/ CompleteMeansDone

\* A launch that does not fail gives back all device memory it took: the local
\* buffers of its workers, or its kernarg buffer.
ReturnedUnlessFailed == Failed \/ MemoryReturned

\* The local buffers have as much room together as when the launch was enqueued.
RoomKept == LocalBytes(dyn_size)[num_args] >= LocalBytes(ArgSize)[num_args]

\* In a packet the agent has not taken, the arguments do not overlap in the
\* kernarg buffer and pointers are aligned; the local buffers are apart from one
\* another and from the automatic ones, and inside the group memory of the packet
\* unless the client gave the kernel smaller ones since.
ArgumentsInPlace ==
  \A k \in read_index..(write_index - 1) :
    LET P == ring[k % RingSize]
        L == DOMAIN P.locals IN
    /\ \A a \in 1..num_args :
         /\ Args[a] \notin Packed => P.kernarg[a] % 8 = 0
         /\ \A b \in (a + 1)..num_args : P.kernarg[a] + Width(a) <= P.kernarg[b]
    /\ \A a \in L :
         /\ P.locals[a] >= StaticGroup
         /\ \A b \in L : a < b => P.locals[a] + ArgSize[a] <= P.locals[b]
         /\ RoomKept => P.locals[a] + ArgSize[a] <= P.group_segment
=============================================================================
