----------------------------- MODULE PthreadRun -----------------------------
(***************************************************************************)
(* One kernel launch: the choice and the checks of its sizes               *)
(* (clEnqueueNDRangeKernel) and its execution by the pthread driver        *)
(* (pocl_pthread_run and workgroup_thread in lib/CL/devices/pthread) or by *)
(* the basic driver (pocl_basic_run in lib/CL/devices/basic).              *)
(*                                                                         *)
(* The work groups are dealt out along the x dimension: every worker gets  *)
(* wgs_per_thread of them, the last one the rest too, and runs them for    *)
(* all y and z.  A worker builds its own argument array, with local        *)
(* buffers of its own, before its first group and releases it behind the   *)
(* last.  The thread that is in clFinish creates the workers one by one    *)
(* and joins them in the same order.                                       *)
(*                                                                         *)
(* The basic driver has no threads: the thread that is in clFinish does    *)
(* what a worker does, for all groups.  HsaRun adds the HSA driver.        *)
(***************************************************************************)
EXTENDS Integers, Sequences, FiniteSets

CONSTANTS
  Drivers,       \* the drivers of the launches: "pthread", "basic", "hsa"
  Launches,      \* the launches: [work_dim, global, local], sizes for the dimensions
                 \* there are; local is <<>> if the client leaves the choice to pocl
  PreferredMultiple,  \* CL_KERNEL_PREFERRED_WORK_GROUP_SIZE_MULTIPLE
  MaxGroupSize,  \* max_work_group_size
  MaxItemSizes,  \* max_work_item_sizes
  ThreadCounts,  \* what get_max_thread_count may return
  Args,          \* the kind of each kernel argument, automatic locals last
  ContextDevs,   \* dev_id of the devices of the context, in its order
  MyDev          \* dev_id of this device

\* How workgroup_thread passes an argument.
Kinds == {"local", "image", "sampler", "buffer", "null", "value", "struct"}

ASSUME DriversAssumption == Drivers \subseteq {"pthread", "basic", "hsa"}
\* A local size of 0 is a division by zero.
ASSUME LaunchesAssumption ==
  \A l \in Launches : /\ l.work_dim \in 1..3
                      /\ l.global \in [1..l.work_dim -> Nat]
                      /\ l.local # <<>> => l.local \in [1..l.work_dim -> Nat \ {0}]
ASSUME LimitsAssumption == /\ PreferredMultiple \in Nat /\ MaxGroupSize \in Nat \ {0}
                           /\ MaxItemSizes \in [1..3 -> Nat \ {0}]
\* POCL_MAX_PTHREAD_COUNT is taken as it is: 0 is a division by zero.
ASSUME ThreadsAssumption == ThreadCounts \subseteq Nat \ {0}
ASSUME ArgsAssumption == Args \in Seq(Kinds)
ASSUME DevicesAssumption == /\ ContextDevs \in Seq(Nat)
                            /\ \E i \in DOMAIN ContextDevs : ContextDevs[i] = MyDev

VARIABLES
  driver,       \* of the device of the queue
  pc,           \* where the launch is
  global_size, local_size, num_groups,  \* of struct pocl_context
  max_threads,  \* get_max_thread_count
  i,            \* the loop variable
  first_gid_x, last_gid_x,
  workers,      \* threads[] and arguments[]
  ran,          \* how often each work group has been executed
  status        \* cmd->event->status

sizes == <<global_size, local_size, num_groups>>
vars == <<driver, pc, sizes, max_threads, i, first_gid_x, last_gid_x, workers, ran, status>>
-----------------------------------------------------------------------------
(* clEnqueueNDRangeKernel: the sizes.                                      *)

\* A size for each dimension; 1 beyond work_dim.
Extended(l, size) == [d \in 1..3 |-> IF d <= l.work_dim THEN size[d] ELSE 1]

\* The preferred multiple, halved until it divides x.
Preferred(x) ==
  LET halved[m \in 0..PreferredMultiple] ==
        IF m = 0 THEN 1 ELSE IF x % m = 0 /\ m <= x THEN m ELSE halved[m \div 2]
  IN  halved[PreferredMultiple]

LocalSizeOf(l) == IF l.local # <<>> THEN Extended(l, l.local)
                  ELSE <<Preferred(l.global[1]), 1, 1>>

\* Mistaken form: a remainder is accepted.
BadLocalSizeButRest(global, local) ==
  \/ local[1] * local[2] * local[3] > MaxGroupSize
  \/ \E d \in 1..3 : local[d] > MaxItemSizes[d]

\* The checks a CPU device makes.
BadLocalSize(global, local) ==
  \/ local[1] * local[2] * local[3] > MaxGroupSize
  \/ \E d \in 1..3 : local[d] > MaxItemSizes[d]
  \/ \E d \in 1..3 : global[d] % local[d] # 0

\* The groups that have a work-item, as <<x, y, z>>.
GroupsWith(global, local) ==
  LET last(d) == (global[d] - 1) \div local[d]
  IN  (0..last(1)) \X (0..last(2)) \X (0..last(3))

\* Every group some launch has.
AllGroups == UNION {GroupsWith(Extended(l, l.global), LocalSizeOf(l)) :
                      l \in {k \in Launches : \A d \in 1..k.work_dim : k.global[d] > 0}}
-----------------------------------------------------------------------------
Min(a, b) == IF a < b THEN a ELSE b

num_threads == Min(max_threads, num_groups[1])

wgs_per_thread == num_groups[1] \div num_threads

leftover_wgs == num_groups[1] - num_threads * wgs_per_thread

\* The work groups of a launch, as <<x, y, z>>.
GroupsOf(shape) == (0..(shape[1] - 1)) \X (0..(shape[2] - 1)) \X (0..(shape[3] - 1))

\* Arguments a worker takes device memory for, and those it gives back.
Allocated == {a \in DOMAIN Args : Args[a] \in {"local", "image", "sampler"}}

\* Mistaken form: nothing is given back.
FreedNone == {}

Freed == {a \in DOMAIN Args : Args[a] = "local"}

\* The position of this device in the context, which workgroup_thread uses as an
\* index into device_ptrs.
device == CHOOSE d \in DOMAIN ContextDevs : ContextDevs[d] = MyDev

\* clCreateBuffer stores the pointer of a device at its dev_id; NULL elsewhere.
device_ptrs(d) == IF \E k \in DOMAIN ContextDevs : ContextDevs[k] = d THEN d ELSE -1

\* arguments[i], for a worker whose last x is last.
ThreadArguments(last) ==
  [at |-> "setup", first |-> first_gid_x, last |-> last, gid |-> <<first_gid_x, 0, 0>>,
   mem |-> {}, ptr |-> -1]

Init ==
  /\ driver \in Drivers /\ max_threads \in ThreadCounts
  /\ global_size = <<1, 1, 1>> /\ local_size = <<1, 1, 1>> /\ num_groups = <<1, 1, 1>>
  /\ pc = "enqueue" /\ i = 0 /\ first_gid_x = 0 /\ last_gid_x = 0
  /\ workers = <<>>
  /\ ran = [g \in AllGroups |-> 0]
  /\ status = "running"

\* The call checks the sizes and has the work-group function made, which may
\* fail; a GPU has neither checks nor a work-group function.
clEnqueueNDRangeKernel(l) ==
  LET global == Extended(l, l.global)
      local  == LocalSizeOf(l)
      empty  == \E d \in 1..3 : global[d] = 0
  IN
  /\ pc = "enqueue"
  /\ \/ /\ empty \/ driver # "hsa"
        /\ pc' = "refused"
        /\ UNCHANGED sizes
     \/ /\ ~empty /\ (driver # "hsa" => ~BadLocalSize(global, local))
        /\ pc' = "start"
        /\ global_size' = global /\ local_size' = local
        /\ num_groups' = [d \in 1..3 |-> global[d] \div local[d]]
  /\ UNCHANGED <<driver, max_threads, i, first_gid_x, last_gid_x, workers, ran, status>>

Start ==
  /\ driver = "pthread" /\ pc = "start"
  /\ pc' = "create"
  /\ status' = "running"
  /\ i' = 0 /\ first_gid_x' = 0 /\ last_gid_x' = wgs_per_thread - 1
  /\ UNCHANGED <<driver, sizes, max_threads, workers, ran>>

\* Mistaken form: every worker gets the remaining groups.
LastOfAll == last_gid_x + leftover_wgs

\* The last x of the worker that is created next.
LastOf == IF i + 1 = num_threads THEN last_gid_x + leftover_wgs ELSE last_gid_x

CreateThread ==
  /\ pc = "create" /\ i < num_threads
  /\ workers' = Append(workers, ThreadArguments(LastOf))
  /\ i' = i + 1
  /\ first_gid_x' = first_gid_x + wgs_per_thread
  /\ last_gid_x' = LastOf + wgs_per_thread
  /\ UNCHANGED <<driver, pc, sizes, max_threads, ran, status>>

AllCreated ==
  /\ pc = "create" /\ i = num_threads
  /\ pc' = "join" /\ i' = 0
  /\ UNCHANGED <<driver, sizes, max_threads, first_gid_x, last_gid_x, workers, ran, status>>

Joined == pc = "join" /\ i = num_threads

\* Mistaken form: the loop variable is not advanced.
JoinSame ==
  /\ pc = "join" /\ i < num_threads
  /\ workers[i + 1].at = "exited"
  /\ UNCHANGED vars

JoinThread ==
  /\ pc = "join" /\ i < num_threads
  /\ workers[i + 1].at = "exited"
  /\ i' = i + 1
  /\ UNCHANGED <<driver, pc, sizes, max_threads, first_gid_x, last_gid_x, workers, ran, status>>

Return ==
  /\ Joined
  /\ pc' = "done"
  /\ status' = "complete"
  /\ UNCHANGED <<driver, sizes, max_threads, i, first_gid_x, last_gid_x, workers, ran>>
-----------------------------------------------------------------------------
(* workgroup_thread.                                                       *)

Setup(w) ==
  /\ workers[w].at = "setup"
  /\ workers' = [workers EXCEPT ![w].at = "group", ![w].mem = Allocated,
                                ![w].ptr = device_ptrs(device - 1)]
  /\ UNCHANGED <<driver, pc, sizes, max_threads, i, first_gid_x, last_gid_x, ran, status>>

\* The group behind <<x, y, z>> in the three loops; <<>> behind the last one.
After(gid, first, last) ==
  LET x == gid[1] y == gid[2] z == gid[3] IN
  IF x < last THEN <<x + 1, y, z>>
  ELSE IF y + 1 < num_groups[2] THEN <<first, y + 1, z>>
  ELSE IF z + 1 < num_groups[3] THEN <<first, 0, z + 1>>
  ELSE <<>>

RunGroup(w) ==
  LET W    == workers[w]
      next == After(W.gid, W.first, W.last) IN
  /\ W.at = "group"
  /\ ran' = [ran EXCEPT ![W.gid] = @ + 1]
  /\ workers' = IF next = <<>> THEN [workers EXCEPT ![w].at = "cleanup"]
                               ELSE [workers EXCEPT ![w].gid = next]
  /\ UNCHANGED <<driver, pc, sizes, max_threads, i, first_gid_x, last_gid_x, status>>

\* The structures made for images and samplers are not given back.
Cleanup(w) ==
  /\ workers[w].at = "cleanup"
  /\ workers' = [workers EXCEPT ![w].at = "exited", ![w].mem = @ \ Freed]
  /\ UNCHANGED <<driver, pc, sizes, max_threads, i, first_gid_x, last_gid_x, ran, status>>

-----------------------------------------------------------------------------
(* pocl_basic_run.  workers[1] is the caller, with its argument array.     *)

\* The kernel is loaded and the arguments are set up.
BasicSetup ==
  /\ driver = "basic" /\ pc = "start"
  /\ pc' = "basic"
  /\ workers' = <<[at |-> "group", first |-> 0, last |-> num_groups[1] - 1, gid |-> <<0, 0, 0>>,
                   mem |-> Allocated, ptr |-> device_ptrs(device - 1)]>>
  /\ UNCHANGED <<driver, sizes, max_threads, i, first_gid_x, last_gid_x, ran, status>>

\* for z, for y, for x: w (arguments, pc)
BasicGroup ==
  LET W    == workers[1]
      next == After(W.gid, 0, num_groups[1] - 1) IN
  /\ pc = "basic" /\ W.at = "group"
  /\ ran' = [ran EXCEPT ![W.gid] = @ + 1]
  /\ workers' = IF next = <<>> THEN [workers EXCEPT ![1].at = "cleanup"]
                               ELSE [workers EXCEPT ![1].gid = next]
  /\ UNCHANGED <<driver, pc, sizes, max_threads, i, first_gid_x, last_gid_x, status>>

\* As with the worker, what was made for images and samplers stays.
BasicCleanup ==
  /\ pc = "basic" /\ workers[1].at = "cleanup"
  /\ pc' = "returned"
  /\ workers' = [workers EXCEPT ![1].at = "exited", ![1].mem = @ \ Freed]
  /\ UNCHANGED <<driver, sizes, max_threads, i, first_gid_x, last_gid_x, ran, status>>

\* clFinish sets the status the driver left alone.
BasicComplete ==
  /\ pc = "returned"
  /\ pc' = "done"
  /\ status' = "complete"
  /\ UNCHANGED <<driver, sizes, max_threads, i, first_gid_x, last_gid_x, workers, ran>>
-----------------------------------------------------------------------------
Basic == BasicSetup \/ BasicGroup \/ BasicCleanup \/ BasicComplete

Enqueue == \E l \in Launches : clEnqueueNDRangeKernel(l)

Main == Start \/ CreateThread \/ AllCreated \/ JoinThread \/ Return \/ Basic

Work(w) ==
  /\ driver = "pthread" /\ w \in DOMAIN workers
  /\ Setup(w) \/ RunGroup(w) \/ Cleanup(w)

\* The launch is over; the client or clFinish goes on.
Over == pc \in {"done", "refused"} /\ UNCHANGED vars

WorkerIds == UNION {1..n : n \in ThreadCounts}

Next == Enqueue \/ Main \/ Over \/ \E w \in WorkerIds : Work(w)

Spec == Init /\ [][Next]_vars

\* The operating system schedules every thread, and kernels terminate.
FairSpec == Spec /\ WF_vars(Main) /\ \A w \in WorkerIds : WF_vars(Work(w))
-----------------------------------------------------------------------------
(* Properties.                                                             *)

\* The workers run groups of this launch only, and none of them twice, however
\* the number of groups and of threads divide.
GroupsOnce ==
  /\ \A g \in AllGroups : ran[g] <= 1
  /\ \A w \in DOMAIN workers :
       workers[w].at = "group" => workers[w].gid \in GroupsOf(num_groups)

\* When the event is CL_COMPLETE every work-item of the global size has been
\* executed: each group with one of them has run, and no other.  No worker still
\* reads the argument array, which clFinish frees next.
CompleteMeansDone ==
  status = "complete" =>
    /\ \A g \in AllGroups : ran[g] = (IF g \in GroupsWith(global_size, local_size) THEN 1 ELSE 0)
    /\ \A w \in DOMAIN workers : workers[w].at = "exited"

\* A launch gives back all device memory its workers took.
MemoryReturned == pc = "done" => \A w \in DOMAIN workers : workers[w].mem = {}

\* The pointer a kernel gets for a buffer argument is the one clCreateBuffer got
\* from this device, wherever in its context the device is.
OwnPointer ==
  \A w \in DOMAIN workers : workers[w].at \in {"group", "dispatch"} => workers[w].ptr = MyDev

\* A launch that is not refused comes to an end: all workers are joined.
LaunchReturns == pc = "start" ~> pc = "done"
=============================================================================
