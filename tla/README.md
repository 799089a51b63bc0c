# TLA+ models of pocl (POCL-HSA)

pocl is an OpenCL run-time library: the host API (`lib/CL/cl*.c`), device
drivers (`lib/CL/devices/*`), a kernel compiler built from LLVM passes
(`lib/llvmopencl`, driven by `scripts/`), and the OpenCL C built-ins
(`lib/kernel`). This fork adds a driver for HSA GPUs. The models are about four
things: the objects and queues of the host API and who frees them; the memory
and the execution of kernels in the drivers; the passes that turn a kernel with
barriers into one function for a whole work group; and the built-in functions
whose results can be checked exactly.

Paths below are relative to `src/`. `PROJECT.json` maps every definition to the
lines it stands for and lists runs, mutants, findings, hazards and theorems.

## 1. Inventory

| component | state | operations | who calls it |
|---|---|---|---|
| buffer allocator `lib/CL/devices/bufalloc.c` | list of regions; per region the chunk list in address order, the pool of chunk records, `last_chunk` (the sentinel) | `alloc_buffer`, `append_new_chunk`, `free_buffer`, `free_chunk`, `coalesce_chunks`, `init_mem_region` | pthread driver (host memory), TCE driver (device memory) |
| pthread driver, memory | `mem_regions`, `mem_regions_lock` | `allocate_aligned_buffer`, `pocl_pthread_free` | `clCreateBuffer`, `clReleaseMemObject`, and every worker for its local arguments |
| pthread driver, kernels | worker threads, per-worker argument arrays | `pocl_pthread_run`, `workgroup_thread` | `clFinish` |
| basic driver | argument array | `pocl_basic_run` | `clFinish` |
| HSA driver | kernarg buffer, AQL ring, doorbell, completion signal | `pocl_hsa_run` | `clFinish`; shared with the GPU |
| TCE and ttasim drivers | the command object in the device's memory, the simulator and its thread | `pocl_tce_run`, `pocl_ttasim_thread`, and `main` of `tta_device_main.c` on the device | `clFinish` |
| command queues | `command_queue->root`, a list of nodes | `clEnqueue*`, `clFinish`, `clFlush`, `clReleaseCommandQueue` | the client's threads |
| events | `status`, `queue` | `POCL_UPDATE_EVENT_*`, `clWaitForEvents`, `clReleaseEvent` | queues, drivers, client |
| memory objects | reference count, parent, mappings, a pointer per device | `clCreateBuffer`, `clCreateSubBuffer`, retain, release, map, unmap | client, queues |
| kernels | reference count, arguments | `clCreateKernel`, `clSetKernelArg`, retain, release, `clEnqueueNDRangeKernel` | client, queues |
| programs | source, binaries, build directory, list of kernels | create, build, retain, release | client; calls external compilers |
| contexts, devices | reference counts, the table of devices, `isHSAinit` | `clGetDeviceIDs`, create, retain, release | client |
| kernel compiler, barriers | the control-flow graph of a kernel | `isolate-regions`, `implicit-loop-barriers`, `loop-barriers`, `barriertails`, `barriers`, work-item replication or loops | `scripts/pocl-workgroup`, at build and at launch |
| kernel compiler, other passes | LLVM IR | metadata, launcher, vectoriser, address spaces | the same |
| kernel library, integers | none | saturating, rounding and bit functions, conversions | kernels |
| kernel library, vectors | none | the choice of an implementation per function, width and target; `templates.h` | kernels |
| vecmathlib | none | rounding, classification, `ldexp`...; transcendental functions | kernel library |
| images, samplers | formats, device pointers | create, read, write | client, bypassing the queue |
| cellspu driver, scripts, host utilities, ICD glue | none that other parts share | | |

How they interact. There is no scheduler thread. A non-blocking `clEnqueue`
call appends a node with raw pointers to an event, buffers and a kernel. The
list is executed by the first thread that calls `clFinish` on the queue - also
from `clFlush`, `clWaitForEvents`, a blocking call, `clReleaseCommandQueue`, and
`clReleaseEvent` when an event's last reference goes. `clFinish` calls the
driver, sets the event's status, and gives back the references the command took,
which may delete an object and call the driver's `free`. The pthread driver
creates worker threads inside `clFinish`; each takes local memory from the same
allocator the client's other threads use. The HSA and TCE drivers hand a packet
or a command object to another processor and wait for its answer. What a worker
runs per group is the function the kernel compiler has made, which calls the
kernel library.

What is hard here:

* lifetime: only reference counts stand between a client that releases its
  handles early and a use after free in a node executed much later;
* re-entrance: a release may execute a queue, and executing a queue releases;
* concurrency: allocations and frees race in one region, and a free walks the
  region list without the lock an allocation holds; addresses are read when no
  lock is held any more; host and device poll the words of one command object;
* order: queued commands and commands executed by the call itself share one
  queue; one command (unmap) overtakes it;
* stale state: what is copied when a launch is enqueued and what is read when it
  is executed; binaries indexed by the device list of another build;
* partial failure: an allocation fails when references have already been taken,
  a build for the second of two devices, a kernel on the GPU;
* program transformation: a barrier inside a branch or a loop cuts a kernel into
  regions that are run for all work-items one after the other; which region
  follows, which values survive and which work-item is next must come out right
  for every control flow;
* arithmetic: alignment gaps, exact fits, an `int` for a 64-bit difference, work
  groups that do not divide by the number of threads, overflow in saturating
  functions, the third component of a vector of three;
* completion: every call must return, every lock must come back, and an event is
  complete only when all the workers are gone.

The hazards in `PROJECT.json` name each of these at its line, with the
properties that would notice it going wrong, and what the properties leave open.

## 2. Modules

| module | what it is |
|---|---|
| `Bufalloc` | the allocator with concurrent allocating and freeing threads |
| `BufallocProofs` | TLAPS proofs of the allocator's invariants |
| `InOrderQueue` | what a queue promises: commands take effect one at a time, in the order of the calls |
| `CommandQueue` | queues, events, reference counts; shown to implement `InOrderQueue` |
| `PthreadRun` | one kernel launch on the pthread or the basic device |
| `HsaRun` | extends it with a launch on a GPU |
| `TtaDevice` | launches on a TTA device: host, device and simulator thread |
| `HostObjects` | devices, the HSA runtime, contexts, programs, kernels |
| `ControlFlow` | control-flow graphs, and what LLVM answers about them |
| `BarrierPasses` | the passes that prepare the barriers of a kernel |
| `WorkGroup` | what a kernel means: work-items that meet at barriers |
| `WorkitemHandlers` | regions, work-item loops and replication, and the execution of the result; shown to implement `WorkGroup` |
| `KernelLibrary` | the integer functions and conversions |
| `FloatMath` | vecmathlib's functions on the bits of a number |
| `VectorMath` | the floating-point functions on vectors, per target |
| `VectorTemplates` | the functions `templates.h` makes from scalar ones |
| `CommandQueueProofs` | proofs about queues and events: order, waits, completion, and that the queues implement `InOrderQueue` |
| `CommandQueueReferences` | proofs about reference counts, on top of it |
| `HsaRunProofs` | proofs about launches on the pthread, basic and HSA devices |
| `TtaDeviceProofs` | proofs about launches on a TTA device |
| `HostObjectsProofs` | proofs about contexts, programs and kernels |
| `KernelLibraryProofs` | proofs about the integer functions and conversions |
| `ArithmeticTheorems` | induction over sets of naturals, powers of 2, division: lemmas the proofs share |
| `MC...` | TLC instances |

Definitions called "Mistaken form" are plausible bugs; nothing in the models
uses them. Each property of a passing run is refuted when one of them takes the
place of the correct definition (`mutants` in `PROJECT.json`).

### Bufalloc

`regions` is `d->mem_regions`. A region is a record with the list of its chunk
records (`chunks`, in list order), the set of unused records (`free`), the
sentinel (`last`), and for every record its start, size and `is_allocated`.
Each action is one critical section of a region lock or one step on the region
list, since nothing else is atomic in the code:

* `Malloc` takes `mem_regions_lock`; `AppendChunk` and `ReuseChunk` are
  `append_new_chunk` and the first-fit search on one region, in the order the
  strategy gives; failure goes on to the next region, then to `NewRegion`
  (`posix_memalign` of the preferred size or of the size asked for) or `NoMemory`
  (both ENOMEM paths); `MallocUnlock` releases the lock and `MallocReturn` reads
  `chunk->start_address` afterwards, as the code does;
* `Free` and `FreeInRegion` are `free_buffer`: region by region, under the region
  lock only. `DL_APPEND` makes a region visible before its `next` pointer is set
  (`unlinked`); a free that would follow such a pointer goes to `wild_pointer`;
* `free_chunk` merges through `coalesce_chunks (coalesce_chunks (prev, c),
  c->next)`. C does not say which argument is evaluated first; `EvalOrders` has the
  orders a build may use. The run has the one in which `c->next` is read first, the
  theorems on safety hold for both;
* integers keep their width where it matters: `region_size` is computed modulo
  `SizeMod` (`size_t`), and `chunk_slack` wraps in a signed range of `2 * IntHalf`
  (its result type is `int`).

`posix_memalign` is external; blocks are given out upwards, at least `HeapGap`
apart. The gap is malloc's own header: without it the address of the empty
sentinel of a full region could be the base of the next one, and `free_buffer`,
which looks for an address, could find the sentinel. Sizes are positive
(`clCreateBuffer` refuses 0). Regions are never given back, as
`FREE_EMPTY_REGIONS` is 0. `TIGHT` is modelled and covered by the proofs, but nothing in
the tree selects it and the runs use `WASTEFUL`.

### CommandQueue

`root[q]` is the list of nodes; a node has its type, buffers, kernel and event.
`rc` is `pocl_refcount`, `st` whether an object exists or has been freed, `held`
the references the client itself owns, `maps` the length of `memobj->mappings`,
`mapped` the mappings whose pointer the client has. `pc[t]` is the call a thread
is in: which queue it is finishing, at which node and where in the node's
execution, and what the call does behind `clFinish`.

Every API call is an action of the name it has in the source. A call that does
not execute the queue is one step; one that does enters `clFinish`, which is one
step per effect: `StartCommand` (SUBMITTED and RUNNING), `DeviceDone` (the driver
returns; `pocl_pthread_run` has set `CL_COMPLETE`), `AssertRunning` (the assertion
of `POCL_UPDATE_EVENT_COMPLETE`, which is an assignment), `MarkComplete`,
`ReleaseBuffer` for each buffer, `NextCommand` (release of the kernel), and at
the end of the list `FinishReturn`, `FinishExec` (the call's own command, by the
same steps), `FinishRelease` and `FinishWait`. `EventNotAllocated` and
`NodeNotAllocated` are the paths where `malloc` fails, of the node or of the record
of a mapping.

What is assumed of the client: it passes only handles it owns; it serialises the
calls on one queue (`Busy`: `root` has no lock; buffers and kernels are shared
freely); it launches a kernel only while it owns the buffer set as its argument.
Two more disciplines are constants, so that runs can drop them: `UnmapsEarly`
(unmap while the map is still queued) and `DropsEarly` (release an event before
its command has completed).

A refinement mapping relates the queue to `InOrderQueue`: `TodoBar` is what the
loop of `clFinish` is not through with, followed by the command of a blocking
call; `DoneBar` is the rest. Unmap is not part of the run that checks it: it is executed at once
by design, and overtakes the queue.

### PthreadRun and HsaRun

`clEnqueueNDRangeKernel` completes the sizes, halves the preferred multiple until
it divides the global size if the client names no local size, refuses what a CPU
device cannot run, has the work-group function made (which may fail) and divides
the sizes into `num_groups`. `GroupsWith` says independently which groups have a
work-item. Then the launch on `max_threads`: `CreateThread` deals out
`wgs_per_thread` groups along x, and the rest to the last worker; workers set up
their arguments, run their groups in the order of the three loops, clean up and
exit; `JoinThread` waits for them in the order of creation and `Return` sets the
event. A worker's set-up and clean-up are one step each; what they take from the
allocator concurrently is `Bufalloc`'s subject. The kernel is opaque: running a
group counts it. `pocl_basic_run` is the same without threads (`Basic...`).

In `HsaRun` the caller lays the arguments out in the kernarg buffer (`Slot`,
`EndOf`: scalars and samplers packed, all else in aligned words), places the local buffers
behind the automatic ones (`LocalAt`), writes the packet into the ring, rings the
doorbell and waits for the signal. The agent is the HSA runtime's: it takes the
packets in order, runs the groups in any order, and may give a packet up, in
which case the driver shuts the runtime down and returns as if nothing had
happened. `SetKernelArg` may change a local size between the enqueueing call and
the launch, because the driver reads one size from the copy and one from the
kernel.

### TtaDevice

Host, device and simulator thread as three processes. `pocl_tce_run` stops the
simulator and loads the launch's own program, starts it by a condition variable,
waits for room (`FREE`), copies the command word by word, writes `READY` last,
polls for `FINISHED` and frees the entry. The device's `main` polls, takes the
command, runs the groups in its loops and reports. A signal the thread is not
waiting for is lost, as the code keeps no predicate.

### HostObjects

All objects are in one record `h`: the device table with its reference counts and
the HSA runtime, contexts, programs (binaries with their owner, the list of
kernels) and kernels. Each API function is a function from `h` to `h`, so that a
release that releases the next object is a composition, as in the code; the
actions add the references the client holds. `clGetDeviceIDs` starts the runtime
and fills the table, for the type asked for first. A build fails at any device
(`BuildFails`); a second build of a program takes the path for binaries.

### ControlFlow, BarrierPasses, WorkGroup, WorkitemHandlers

A kernel is a control-flow graph whose blocks hold named operations and
barriers, with a named condition at each branch. The passes are operators from
graphs to graphs, translated one by one and applied in the order of
`scripts/pocl-workgroup`. `WorkitemHandlers` chooses a kernel, a local size and a
handler, runs the passes, one step each, finds the parallel regions as
`Kernel.cc` and `ParallelRegion.cc` do, and then executes the resulting function
step by step, with its local ids, its peeled first iteration and its values in
registers or context arrays. A condition is uniform (one value for the group,
drawn at the first evaluation) or not (drawn per work-item).

`RunsAsSource` is the refinement: what the function does, read as steps of
work-items, is a behaviour of `WorkGroup`, in which every work-item walks through
the source by itself and none passes a barrier before all have arrived at it.

LLVM's own analyses (dominators, loops, regions) and the clean-up passes in front
are external: kernels are given as `simplifycfg`, `loop-simplify` and
`phistoallocas` leave them, and the data-flow half of the uniformity analysis is
an input (`known`).

### KernelLibrary, FloatMath, VectorMath, VectorTemplates

One action calls a function with arguments from a small type and keeps its
result; the properties compare it with the definition on unbounded integers.
Integers have `Widths` bits and wrap around in every operation. Floats have their
bit patterns with fewer bits, and vecmathlib's functions are computed on those,
including rounding by adding a large number, which needs the processor's
rounding (external, nearest-even). A conversion with a rounding mode goes through
the library's own `rint`, `ceil` or `floor`: an instruction, or vecmathlib's function
where the processor has none (`vml`).

`VectorMath` is about the dispatch: `lib/kernel/vecmathlib/pocl/*.cc` chooses, for
each function, width and target, between vecmathlib's vector of that size, a
larger one, two halves, and libm, and moves components by unions. A component
carries a value, so that a lane that is swapped, lost, or taken from the fourth,
unset component of a 3-vector shows. Maximum and minimum of an instruction differ
from libm's for a NaN, target by target (`nan`). `VectorTemplates` has the families
of `templates.h`.

## 3. Runs

Each run finishes within three minutes with two workers.

| run | bounds | result |
|---|---|---|
| `bufalloc` | 2 threads, 3 buffers, sizes 1 and 3, 3 records per region, 2 regions, `chunk->next` read first | passes: `TypeOK`, `SentinelIsLast`, `ChunksInOrder`, `RecordsConserved`, `BuffersBacked`, `BuffersDisjoint`, `NoLeak`, `NoFailure`, `Coalesced`, `RegionReclaimed`, `LockGivenBack` |
| `queue` | pthread queue in a context of 2 devices, a buffer with a sub-buffer, a kernel, 2 commands, 2 threads, failing `malloc` | passes: `CommandsValid`, `MemRefs`, `KernelReclaimed` |
| `queue_events` | 2 queues, 2 events, writes and markers, fairness | passes: `QueuesValid`, `QueueRefs`, `EventsInOrder`, `WaitedComplete`, `CompleteIsFinal`, `CallsReturn` |
| `queue_gpu` | HSA queue, 3 commands, rectangle commands, events kept until complete | passes: `MemReclaimed`, `InOrder` |
| `pthread_run` | 24 launches (1 to 7 groups in x, up to 2 in y and z; no local size, a remainder, too large, empty), 1 to 5 threads, three drivers, 8 arguments, fairness | passes: `GroupsOnce`, `CompleteUnlessFailed`, `ReturnedUnlessFailed`, `ArgumentsInPlace`, `LaunchReturns` |
| `device_index` | a context of the second device only, pthread and basic drivers | violates `OwnPointer` |
| `workgroup` | 15 kernels, 5 local sizes, both handlers, conditions true at most twice, fairness | passes: `OwnValue`, `RunsAsSource`, `Returns` |
| `implicit_barrier` | a uniform loop in a divergent one, 2 work-items | violates `RunsAsSource` |
| `kernel_library` | integers of 2 and 4 bits, floats of 7 bits, all widths of vectors, 8 targets | passes: `Saturates`, `Exact`, `Rounds`, `Lanewise` |
| `host_objects` | 2 contexts, 1 program, 2 kernels, 2 references each | passes: `PointersLive`, `RefsAccounted`, `KernelFromOwnBinary` |
| `hsa_shutdown` | 2 contexts | violates `RuntimeUp` |
| `tta_device` | 3 launches, 4 shapes, fairness | passes: `LaunchComplete`, `HandedOver`, `StartedReturns` |

What the passing runs show. `bufalloc`: whatever two threads allocate and free,
buffers stay apart and backed, nothing leaks, and none of the code's assertions
fails; freed memory becomes whole again, and on every path a call holds the lock
of the region list from where it takes it to where it gives it back and nowhere
else.
`queue`: no release by the client, in any order, frees what a queued command will
dereference; on the error paths references are lost, never given back twice.
`queue_events`: events and queues outlive each other's uses, a wait ends only when
its events are complete, and nobody waits for ever. `queue_gpu`: the HSA path
deletes what it should for a client that keeps its events, and three commands,
queued or direct, take effect in order. `pthread_run`: each group once, complete
means that every work-item of the global size has been executed, and the arguments
of an HSA launch are where the kernel looks for them, local buffers apart from one
another and from the automatic ones. `workgroup`: the
compiled function does what the source says, for each kernel shape of the test
suite. `kernel_library`: exact results for all arguments, each component from its
own arguments, and the exceptions named one by one. `host_objects`: nothing is used after its release, and counts are
exact, in any order of builds and releases. `tta_device`: the command object
changes hands properly, and a launch that has started returns.

### Bounds

Three records make a region with two chunks and a sentinel, so that a chunk
between two neighbours, an exhausted pool and a swallowed sentinel all happen;
sizes 1 and 3 with alignment 2 leave alignment gaps; two regions make searches
and frees cross regions. Two threads show every race of an allocation with a free
and of two frees; the proofs cover more. Two commands on a queue are a node behind
and a node ahead of the loop; three commands add a blocking call behind a queue of
two. One buffer shared by two threads is the case of interest for its count; the
sub-buffer adds a second level. Five threads and seven groups contain even
divisions, leftovers of one to three, and fewer groups than threads. Without a
local size, 3, 4, 6, 12 and 16 items halve the preferred 8 to 1, 4, 2, 4 and not at
all; a local size of 4 for 6 items leaves a remainder, 16 exceeds the limits. The eight
arguments of a launch put a pointer and a structure behind scalars of 4 and 2
bytes, and have two local buffers and an automatic one; local sizes of 4 and 40 make the
group memory of a launch suffice or not when a size is changed behind it
(`RoomKept`).

The kernels of `workgroup` are those of `tests/workgroup` and the loops of the
examples: barriers in a row, in one branch or both, behind a divergent branch, in
`for`, `do` and nested loops, with several exits and latches, and loops without a
barrier that get an implicit one. Local sizes go to three work-items in x, and to
two dimensions; with two evaluations of a condition a loop is left at once, after
one and after two rounds. Size `(1, N, 1)` is left out (see below).

Integers of 2 and 4 bits have all the boundary cases of a wider type - the
algorithms compare with the ends of the type, halve, and multiply half-words -
and all arguments can be tried. Floats with 4 bits of exponent and 2 of mantissa
have subnormals, infinities, NaNs, and integers on both sides of
2^mantissa_bits; so have the floats of the conversions, 3 bits and 7 exponents. Vectors have all their real widths.

Two contexts share a device, a program has two kernels, and a client holds two
references of one object: enough for each release to be the last or not. Three
launches on a TTA device are a first one, one that follows it, and one that
follows a stopped simulator.

Deadlock is checked for the allocator, the launches and the library. It is not
checked for the queues and objects, where the client may release everything and
stop, for the work-group function, which ends, and for the TTA device: there the
lost signal (below) is a real deadlock, so `StartedReturns` starts behind it.

### Fairness

`Bufalloc` and `CommandQueue`: a thread inside a call is scheduled again (the
operating system does that), locks are ordinary mutexes held for a bounded time,
and a driver's operation returns. Nobody has to make a call. (No property of the
allocator depends on it: that its lock is given back is stated as an invariant.) `PthreadRun`,
`HsaRun`: once a launch is accepted, each worker and the creating thread are scheduled, kernels terminate,
and the GPU works on a packet it has. `WorkitemHandlers`: the processor goes on
with the next instruction; loops end because conditions do (`MaxEvals`).
`TtaDevice`: the host thread inside a launch, the simulated processor and the
simulator's thread go on. The runs about progress use no symmetry.

## 4. Deviations found in the code

Three runs are violations, each a finding with the comment it contradicts:

* `implicit_barrier`: a loop with a uniform condition gets an implicit barrier
  because its header post-dominates a uniform block, also when an outer loop has
  a divergent condition, so that only some work-items get to the barrier;
* `hsa_shutdown`: the first release of a device shuts the HSA runtime down for
  every other context, and `clCreateContext` does not start it again;
* `device_index`: the pthread and the basic driver read a buffer's pointer at the
  device's place in the context, where `clCreateBuffer` has written it at `dev_id`:
  in a context of the second device a kernel gets the pointer of no device.

The models contain, and the properties are worded around, the following.

Allocator and queues. `chunk_slack` returns an `int`: a request more than 2^31
bytes too large "fits" (`ChunksInOrder` fails with a small `IntHalf`). When the
inner call of `coalesce_chunks` is evaluated before `chunk->next`, the free chunk
behind is not merged (`Coalesced` fails with `"inner_first"`). The event of a GPU
queue is freed while its node is queued (`CommandsValid` fails on the HSA device
with `DropsEarly`). An unmap that overtakes its map gives back the only reference
the node relies on (`UnmapsEarly`). A parent buffer released before its
sub-buffers, and any buffer in a context of several devices, is never deleted.
`assert((*event)->status = CL_RUNNING)` is an assignment and takes a completed
event back to running. A launch never gives its reference of the queue back, and
on a GPU that of the kernel.

Launches. `clEnqueueNDRangeKernel` checks no sizes for a GPU (a local size of 0 is
a division by zero, excluded by `LaunchesAssumption`) and passes on a `tmpdir` it
has not set; for a CPU it runs a `command` it has not set when the work-group
function exists already (`clEnqueueNDRangeKernel.c:247`; in the model both count as
a failing or a succeeding step); the offset of a dimension that is not used is 1 if
the client gives offsets. The structures made for images and samplers are not given back, nor
are the pointer cells of the basic driver. The HSA driver adds up the kernel's
present local sizes instead of the copied ones, so a launch may get too little
group memory after a `clSetKernelArg` for the next one (`ArgumentsInPlace` asks
that the local buffers end within the group memory only while `RoomKept`; that they
are apart it asks always); reads every buffer's pointer for the first GPU of the
context, whichever GPU the queue is for (`mem_index`); packs scalars without their
natural alignment; truncates grid and work-group sizes to 16 bits
(`GridAssumption`); reports a kernel
that failed as complete; and never destroys the signal nor frees the host's copy
of the arguments. The ttasim driver signals its thread without lock or predicate:
the signal may be lost, and the launch then never returns.

Objects. A kernel of a program with several devices has a count too many for each
but the first; a context whose last reference was a program's is never freed; a
refused context leaves its devices retained. A second `clBuildProgram` takes the
path for binaries and fails for a CPU; after a build for some devices only, the
binaries are indexed by the wrong list; a release of a program that was never
built destroys an HSA program that was never made.

Compiler. With local size `(1, N, 1)` and a peeled region the first work-item runs
twice (`WorkitemLoops.cc:183` compares x only). `getParallelRegions` does not look
whether an exit it pops has been found before: the region in front of a loop with
several exits may be found twice.

Library. `convert_float_{rtz,rtp,rtn}` and the double forms read a variable before
it has a value; `convert_T_sat` of a float equal to `(float)T_MAX` beyond `T_MAX`
is an undefined cast. `ldexp` with vectors of exponents takes the wrong exponent
for the second half on some targets (`WrongExponent`). `vml_rint`, `vml_ceil`,
`vml_floor`, `vml_round` are wrong for some numbers near 2^mantissa_bits and just
below 0.5, on targets that use them (`BeyondVml`), and so are the conversions with a
rounding mode, which call them: with SSE2 alone or NEON, `_rte` of an odd integer
from 2^mantissa_bits on returns the even one next to it, `_rtp` and `_rtn` of a
number in the last unit below are cut (`Misrounded`). `fmax` and `fmin` of a
number and a NaN are the NaN with NEON and AltiVec, and with SSE and AVX when it
comes second (`BeyondInstruction`); `fdim` of a NaN is 0 with SSE, AVX and VSX, and
a NaN for two equal infinities with NEON, AltiVec and QPX.

Seen but not modelled. Rectangle commands: the drivers compute
`origin[0] + row_pitch * (origin[1] + slice_pitch * origin[2])`, the API checks
`row_pitch * y + slice_pitch * z`. `clCreateProgramWithBinary` compares the lists
of devices position by position.

## 5. What is proved

TLAPS checks the following for every value of the constants: any number of
threads, objects, commands, launches, groups or devices, not only the small sets of
the runs. The theorems about actors rest on an inductive invariant of their module:
the property itself is never inductive, since it says nothing of the steps in
between, and the invariant says what each actor knows at each place. The theorems
about the kernel library need no invariant; they are about what one call computes,
for integers of every width.

| module | theorems (property of a run) |
|---|---|
| `BufallocProofs` | `Invariant`, `TypeCorrect` (`TypeOK`), `NoOverlap` (`BuffersDisjoint`), `BackingKept` (`BuffersBacked`), `SentinelKept` (`SentinelIsLast`), `RecordsKept` (`RecordsConserved`), `OrderKept` (`ChunksInOrder`), `ServiceKept`, `NeverFails` (`NoFailure`), `NothingLeaks` (`NoLeak`), `FreedMerged` (`Coalesced`), `RegionsReclaimed` (`RegionReclaimed`), `LockReturns` (`LockGivenBack`) |
| `CommandQueueProofs` | `EventOrder` (`EventsInOrder`), `WaitsComplete` (`WaitedComplete`), `CompletesOnce` (`CompleteIsFinal`), `QueuesInOrder` (`InOrder`) |
| `CommandQueueReferences` | `QueuesStayValid` (`QueuesValid`), `QueueCounts` (`QueueRefs`), `MemCounts` (`MemRefs`), `CommandsStayValid` (`CommandsValid`), `KernelsReclaimed` (`KernelReclaimed`), `MemObjectsReclaimed` (`MemReclaimed`) |
| `HsaRunProofs` | `LaunchInvariant`, `GroupsExecutedOnce` (`GroupsOnce`), `CompleteIsDone` (`CompleteUnlessFailed`), `MemoryGivenBack` (`ReturnedUnlessFailed`), `ArgumentsPlaced` (`ArgumentsInPlace`) |
| `TtaDeviceProofs` | `DeviceInvariant`, `CommandHandedOver` (`HandedOver`), `LaunchExecuted` (`LaunchComplete`) |
| `HostObjectsProofs` | `ObjectsInvariant`, `NothingDangles` (`PointersLive`), `CountsExact` (`RefsAccounted`), `OwnBinaries` (`KernelFromOwnBinary`) |
| `KernelLibraryProofs` | `NoWrapAround` (`Saturates`), `PartsAreExact` (`Exact`), `RoundsAsAsked` (`Rounds`) |

The assumptions are those the modules state of their constants (`ASSUME`), which
TLC evaluates in the runs, and where a theorem has a hypothesis of its own, it is
one the deviations of section 4 make necessary:

* `BufallocProofs`: `NoIntOverflow`, no request and no region made for one reaches
  the range where `chunk_slack`'s `int` wraps;
* `FreedMerged`, `RegionsReclaimed`: `NextFirst`, the compiler reads `chunk->next`
  before it evaluates the inner `coalesce_chunks` of the same call;
* `QueuesInOrder`: `AllQueued`, no unmap commands, which take effect at once
  whatever is queued, and no failing `malloc`, which uses up a place in the order
  without a command;
* `CommandsStayValid`: no mapping is unmapped while its map is queued, and either
  no event is released early or no queue belongs to a GPU;
* `KernelsReclaimed`: no queue belongs to a GPU, where the kernel of a launch is
  not released;
* `MemObjectsReclaimed`: one device, no sub-buffers, no failing `malloc`; each of
  the three leaves a count that nobody holds, or a parent nobody deletes;
* `MemoryGivenBack`: no image or sampler arguments, whose structures no driver
  gives back;
* `NoWrapAround`: `FloatsReach`, floats reach beyond the ends of every integer
  type, as `float` does for `ulong`. Without it (`half`, or a made-up type) a bound
  as a float would be the largest float, and the comparison with it no check.

### Allocator

`IInv` adds to what the client wants, that buffers do not overlap:

* `RegionOK` for every region: the list holds each record once and the pool the
  others; chunks are in address order inside the region; the sentinel is last and
  unallocated; every chunk in front of it has a positive size, so no two chunks
  start at one address and `free_buffer`'s search by address is right;
* `RegionsApart`: regions are separated by at least one address, so the search
  cannot stop in an earlier region;
* `ThreadsOK` and `HandlesOK`: a buffer that is being allocated or freed belongs
  to one thread, and a thread's region is in the list;
* `BuffersBacked`: every buffer has an allocated chunk of its own, large enough and
  at its address. It survives because merging only removes unallocated chunks and
  changes the start of none.

The lemmas follow the code: arithmetic (`ToIntExact`, `AlignUpBounds`,
`FitsExact`), what each operation does to one region (`AppendOK`, `MarkOK`,
`CoalesceOK`, `FreeOK`), then one lemma per action that it preserves `IInv`.
`FoundIsBacking` is the key one for frees: the chunk found by address is the
buffer's own.

That no call fails and nothing is lost needs more, `Service`: a thread between
`Malloc` and `MallocUnlock` is the one that holds `regions_lock`, and an unlinked
region is the one it has just made (`LockOK`); a region made for a request is
untouched and large enough until the request is served (`NewRegionOK`); a free has
not yet gone past its buffer's region (`OnTheWay`); and the chunks of a region
cover it from its start to its end (`RegionsSpanned`). `NoFailure` follows since
the chunk a free looks for is still ahead, `NoLeak` since an allocated chunk
changes only in the step of the thread that has its buffer. `Coalesced` is
inductive next to these: a chunk that becomes free is merged with both
neighbours when the next one is read first. `RegionReclaimed` follows: where
nothing is allocated, two neighbours would both be free, so there is one chunk,
and by `RegionsSpanned` it is the whole region.

### Queues and events

`Control` (in `CommandQueueProofs`) is about who executes what. Its parts: calls
have the shape their place implies and stay inside their queue's list (`CallsOK`);
no two threads are at work on one queue, also not on a queue that a wait will get
to later (`Exclusive`, which needs the queues of all events of a wait, not only
the present one); numbers and events of commands are unique (`Unique`); the status
of a command's event is the one of its place in the loop (`NodeStatus`,
`OwnStatus`); an event the client owns is complete or its command is in a queue or
in a call (`Tracked`: without it a wait could be through with an event whose
command has vanished). The three theorems about events follow from it.

`QueuesInOrder` is the refinement of `InOrderQueue`. The commands that queue q has
still to execute are read off the list and off the call at work on q: the list
without the nodes the call is through with (`Passed`), and then the call's own
command (`OwnLeft`); `Exclusive` says that there is only one such call (`Worker`,
`TodoViews`). Each action is then shown to append a number to one queue's
sequence, to take the first one off it, or to leave all of them alone; freeing a
list, which forgets it and the place in it together, is of the last kind.

`References` (in `CommandQueueReferences`) adds the counts: for buffers, kernels
and queues the count is the number of holders, and what is not live has none. The
holders are sets (`CommandRefs`, `ReleaseRefs`, `Children`, `LaunchRefs`,
`EventsOf`), and a step is described by what it does to the work that is left:
`Outstanding` gains the command of an enqueueing call, loses the one that
completes, or stays. `CommandRefsMore`, `CommandRefsLess`, `ReleaseRefsUpdate` and
`LaunchesLess` turn that into cardinalities. Counts of mappings need that there
are at least as many as pointers given out and blocking maps in progress
(`MapsOK`); the release of a sub-buffer needs that its parent has no parent and is
not unused (`ParentsOK`). `Callers` says that the client keeps its reference of a
queue during a call on it, since nobody else may call on that queue.

Nothing is said of the number of commands: `MaxCommands` is any number.

### Launches

The first part of `HsaRunProofs` says of each CPU worker which part of its share it
has executed (`WorkerOK`), that the shares are apart and together all groups
(`RanInv`, from `Division` of the number of groups by the number of threads), and
that the local size divides the global one (`PreferredDivides`, about the halving
loop). The second part adds the GPU: at each place of the driver the packet is
posted, taken or done (`AgentInv`), and the positions of arguments in the kernarg
buffer grow with their index (the lemmas on `EndOf` and `LocalAt`, recursive
functions).

### TTA device

`StatusInv` ties the places of driver and device to the status word, `WordsInv`
says which words of the command have been copied, `ProgramInv` which program is
loaded and `RanInv` which groups the loops have passed.

### Objects

`Good` says of every context, program and kernel what its count, its list of
kernels and its binaries are, as a predicate on the tables themselves; the lemmas
on updates of one table entry need no state, and a release that releases the next
object composes them as the code does.

### Kernel library

Each theorem is a case per function. `CastIs`, `CastSame` and `CastValue` say what
a conversion to a type of w bits does, so the proofs of `add_sat`, `sub_sat`,
`hadd`, `rhadd`, `abs` and `abs_diff` are linear arithmetic once it is shown which
subterms stay inside the type. `mul_hi` and `mad_sat` need products of halves:
`PartsFit` shows that no partial product and no sum of them leaves its type, and
`HighExact` that what is carried between them is the high half. The functions on
bits rest on the binary form of a number: `BitsSplit`, `BitsExist`, `BitsUnique`,
by induction over sets (below), so that two numbers with the same bits are equal.
For floats, `NotBothOdd` shows that of the two neighbours of a tie one is even,
which `ToFloatNear` needs; `SumRounded` and `RintAsked` that adding 2^mantissa_bits
to a smaller number and taking it away again rounds to the nearest integer, to the
even one when tied, as `vml_rint` means to; and `GreatestToFloat` that the greatest value of a type
is a float or rounds up to the first value beyond the type: the one place where
`x > (float)MAX` misses, and the exception that `Saturates` states.

The theorems are about `KernelLibrary`'s `Spec`. The run checks the same
properties on `TemplatesSpec`, whose calls include all of `Spec`'s, and the calls
it adds have other names, of which the three properties say nothing.

### Induction and what is left to TLC

The library's induction theorems take an operator, which the provers cannot
instantiate. `ArithmeticTheorems` proves induction over sets instead
(`LeastElement`, `SetInduction`: a set of naturals with 0 that is closed under
successor is all of them) and the existence of a recursive function from it
(`RecursiveFunction`); the powers of 2, the halving loop and the argument layout
are proved with those.

Only model-checked:

* liveness (`CallsReturn`, `LaunchReturns`, `Returns`,
  `StartedReturns`): the prover does not do fairness;
* the kernel compiler, `ControlFlow` to `WorkitemHandlers`: its passes are
  recursive operators, which the prover does not take, and what they compute would
  need induction over the graph (`OwnValue` and the refinement `RunsAsSource`);
* `FloatMath`, `VectorMath` and `VectorTemplates` (`Lanewise`): a vector function
  calls itself on its halves, again an induction over a recursive operator.

## 6. Not modelled, and why

* argument checks that return before any state changes, profiling times, wording
  of errors, `clGet*Info`;
* images and samplers: their commands bypass the queue and copy data; creation is
  a table of formats;
* rectangle copies: loops of `memcpy`;
* `clEnqueueBarrier`, `clEnqueueWaitForEvents`, out-of-order queues: the code
  aborts or refuses;
* `clEnqueueWriteBufferRect` with an event: it creates none and writes through the
  pointer it was given; the model calls it without;
* a device that maps no memory (`clEnqueueMapBuffer.c:111-115`): `map_mem` of the
  modelled drivers returns the buffer's own address;
* NULL from `pocl_pthread_malloc` in a worker (`pthread.c:615` and `667`), which is
  not checked and would be written through;
* the index under which `clCreateContext` stores an agent's id, and
  `hsa_ext_program_destroy` in `clReleaseProgram`: both are the HSA runtime's data;
* the second empty block `IsolateRegions` may add in front of a region: it has no
  instructions;
* two threads on one queue or one program without the client's own lock: the code
  has no protection to model;
* of the HSA driver, the layout of arguments for the one kernel named
  `calPriceVega`; of the TCE driver, the debugger and the memory of arguments;
* cellspu: one blocking call of libspe;
* of the kernel compiler, the passes that rewrite single instructions or emit
  text (`GenerateHeader`, the launcher of `Workgroup.cc`, `TargetAddressSpaces`,
  metadata), `PHIsToAllocas`, `fixUndominatedVariableUses`, the data flow of
  `isUniform`, `Flatten`, and `WIVectorize`, an optimisation that is off by
  default;
* of the library, transcendental functions, whose accuracy is a matter of real
  analysis, `nextafter`, `frexp`, vecmathlib's integer conversions, atomics,
  `vload`/`vstore` and shuffles;
* host utilities, ICD tables, scripts other than the order of the passes, tests,
  examples and vendored headers.

## 7. Plan

The modules above are complete for what they set out to model, and every safety
invariant of a module without recursive operators is proved, as is the refinement
of `InOrderQueue`. What is left, by importance:

* the region formation and replication of the kernel compiler with recursive
  functions in place of recursive operators, so that `OwnValue` and `RunsAsSource`
  could be proved for every control-flow graph;
* the halving of `VectorTemplates` in the same way, and `Lanewise` by induction
  over the width;
* the launcher of `Workgroup.cc` and `PHIsToAllocas` as further steps of
  `WorkitemHandlers`.
