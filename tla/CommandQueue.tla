---------------------------- MODULE CommandQueue ----------------------------
(***************************************************************************)
(* The command queues of lib/CL (clEnqueue*.c, clFinish.c, clFlush.c,      *)
(* clWaitForEvents.c) and the reference counts that keep the objects a     *)
(* pending command needs alive (clRetain*.c, clRelease*.c).                *)
(*                                                                         *)
(* pocl has no scheduler thread.  A non-blocking clEnqueue call appends a  *)
(* node to the list command_queue->root; the list is executed, node by     *)
(* node, by the first thread that calls clFinish on the queue, directly or *)
(* through clFlush, clWaitForEvents, a blocking clEnqueue call,            *)
(* clReleaseCommandQueue or clReleaseEvent.  A node keeps raw pointers to  *)
(* its event, buffers and kernel: only their reference counts stand        *)
(* between a client that releases its handles early and a use after free.  *)
(*                                                                         *)
(* Several client threads run at once.  They share buffers and kernels     *)
(* freely; the calls on one queue they serialise themselves, as root has   *)
(* no lock.  A client only passes handles it owns a reference of.          *)
(* Reference counts change under the object's lock, so every retain and    *)
(* every release is one atomic step.                                       *)
(***************************************************************************)
EXTENDS Integers, Sequences, FiniteSets, Functions

CONSTANTS
  Threads,      \* the client's threads
  Queues,       \* cl_command_queue handles
  Bufs,         \* cl_mem handles
  Kernels,      \* cl_kernel handles
  Events,       \* cl_event handles
  Device,       \* the device of each queue
  NumDevices,   \* context->num_devices
  SubBufs,      \* the handles clCreateSubBuffer may return
  Commands,     \* the commands the client enqueues
  WithEvent,    \* the commands it asks an event of
  HostFull,     \* may malloc fail?
  UnmapsEarly,  \* may a mapping be unmapped while its map command is queued?
  DropsEarly,   \* may an event be released before its command has completed?
  MaxCommands,  \* bound: commands enqueued in a behaviour
  Retains,      \* bound: the handles the client takes a second reference of
  None          \* NULL

Objects == Queues \cup Bufs \cup Kernels \cup Events

\* The drivers of lib/CL/devices; hsa is the one of type CL_DEVICE_TYPE_GPU.
Devices == {"basic", "pthread", "hsa"}

\* Commands with a node type that clFinish knows.
Queued == {"read", "write", "copy", "map", "ndrange", "marker"}

\* Commands that clEnqueue itself executes, after a clFinish of the queue.
Direct == {"read", "write", "map", "fill", "read_rect", "write_rect", "copy_rect"}

Types == Queued \cup Direct \cup {"unmap"}

ASSUME DeviceAssumption == Device \in [Queues -> Devices]
ASSUME CommandsAssumption == Commands \subseteq Types /\ WithEvent \subseteq Types
ASSUME BoundsAssumption == /\ NumDevices \in Nat \ {0}
                           /\ MaxCommands \in Nat /\ Retains \subseteq Objects
ASSUME ClientAssumption == /\ HostFull \in BOOLEAN /\ UnmapsEarly \in BOOLEAN
                           /\ DropsEarly \in BOOLEAN /\ SubBufs \subseteq Bufs
ASSUME HandlesAssumption ==
  /\ None \notin Objects
  /\ Queues \cap (Bufs \cup Kernels \cup Events) = {}
  /\ Bufs \cap (Kernels \cup Events) = {} /\ Kernels \cap Events = {}

VARIABLES
  st,       \* is an object created, and is it freed?
  rc,       \* pocl_refcount
  parent,   \* the parent of a sub-buffer
  maps,     \* the length of the list memobj->mappings
  karg,     \* the buffer in kernel->dyn_arguments
  queue,    \* event->queue
  status,   \* event->status
  root,     \* command_queue->root, the list of nodes
  pc,       \* the call each thread is in
  held,     \* references the client owns
  mapped,   \* mappings the client has a pointer to
  lost,     \* references of a buffer that a failed call took and nobody holds
  count     \* commands enqueued so far

vars == <<st, rc, parent, maps, karg, queue, status, root, pc, held, mapped, lost, count>>
-----------------------------------------------------------------------------
(* Nodes, and the calls a thread is in.                                    *)

\* _cl_command_node; n numbers the commands in the order of the client's calls.
Node == [n : Nat, type : Types, bufs : Seq(Bufs),
         kernel : Kernels \cup {None}, event : Events \cup {None}]

NoCmd == [n |-> 0, type |-> "marker", bufs |-> <<>>, kernel |-> None, event |-> None]

(* A thread in a call executes clFinish on q and then what the call does   *)
(* after it: "return" (clFinish, clFlush), "exec" (a blocking clEnqueue    *)
(* call), "release_queue", "release_event", "wait" (the next event of      *)
(* clWaitForEvents).  i is the node the loop of clFinish is at, 0 when the *)
(* command cmd of the call itself is executed; at is the place in its      *)
(* execution; rel are the buffers still to be released.                    *)
Call == [op : {"idle", "return", "exec", "release_queue", "release_event", "wait"},
         q : Queues \cup {None}, i : Nat,
         at : {"none", "node", "device", "assert", "complete", "release"},
         cmd : Node, rel : Seq(Bufs), events : Seq(Events)]

NoCall == [op |-> "idle", q |-> None, i |-> 0, at |-> "none", cmd |-> NoCmd,
           rel |-> <<>>, events |-> <<>>]

Finishing(q, op, cmd, events) ==
  [op |-> op, q |-> q, i |-> 1, at |-> "node", cmd |-> cmd, rel |-> <<>>, events |-> events]

Idle(t) == pc[t].op = "idle"

\* The client serialises the calls on one queue.
Busy(q) == \E t \in Threads : \/ pc[t].q = q
                              \/ \E e \in Range(pc[t].events) : queue[e] = q

\* Handles that a call in progress was given, or will return.
InCall(o) == \E t \in Threads : \/ o \in Range(pc[t].events)
                                \/ ~Idle(t) /\ o = pc[t].cmd.event

Owns(o) == held[o] > 0

IsGPU(q) == Device[q] = "hsa"

\* How often o stands in a list of handles.
Times(s, o) == Cardinality({i \in DOMAIN s : s[i] = o})

Init ==
  /\ st = [o \in Objects |-> IF o \in Queues \cup Kernels THEN "live" ELSE "none"]
  /\ rc = [o \in Objects |-> IF o \in Queues \cup Kernels THEN 1 ELSE 0]
  /\ held = rc
  /\ parent = [b \in Bufs |-> None]
  /\ maps = [b \in Bufs |-> 0]
  /\ mapped = [b \in Bufs |-> 0]
  /\ lost = [b \in Bufs |-> 0]
  /\ karg = [k \in Kernels |-> None]
  /\ queue = [e \in Events |-> None]
  /\ status = [e \in Events |-> "none"]
  /\ root = [q \in Queues |-> <<>>]
  /\ pc = [t \in Threads |-> NoCall]
  /\ count = 0
-----------------------------------------------------------------------------
(* Memory objects.                                                         *)

\* Every device of the context after the first adds a reference of its own.  A
\* call that fails frees what it has made and changes nothing here.
clCreateBuffer(t, b) ==
  /\ Idle(t) /\ st[b] = "none" /\ b \notin SubBufs
  /\ st' = [st EXCEPT ![b] = "live"]
  /\ rc' = [rc EXCEPT ![b] = NumDevices]
  /\ held' = [held EXCEPT ![b] = 1]
  /\ UNCHANGED <<parent, lost, maps, karg, queue, status, root, pc, mapped, count>>

clCreateSubBuffer(t, b, p) ==
  /\ Idle(t) /\ st[b] = "none" /\ b \in SubBufs
  /\ Owns(p) /\ parent[p] = None
  /\ st' = [st EXCEPT ![b] = "live"]
  /\ rc' = [rc EXCEPT ![b] = 1, ![p] = @ + 1]
  /\ parent' = [parent EXCEPT ![b] = p]
  /\ held' = [held EXCEPT ![b] = 1]
  /\ UNCHANGED <<lost, maps, karg, queue, status, root, pc, mapped, count>>

\* Mistaken form: the parent keeps the reference of its sub-buffer.
DropKeepingParent(b) ==
  /\ rc' = [rc EXCEPT ![b] = @ - 1]
  /\ st' = IF rc[b] = 1 THEN [st EXCEPT ![b] = "freed"] ELSE st
  /\ maps' = IF rc[b] = 1 THEN [maps EXCEPT ![b] = 0] ELSE maps

\* The effect of clReleaseMemObject.  A sub-buffer that is deleted gives its
\* reference back, but a parent whose count falls to 0 is not deleted by it.
DropMem(b) ==
  /\ rc' = [o \in Objects |->
              CASE o = b -> rc[b] - 1
                [] o # b /\ rc[b] = 1 /\ o = parent[b] -> rc[o] - 1
                [] OTHER -> rc[o]]
  /\ st' = IF rc[b] = 1 THEN [st EXCEPT ![b] = "freed"] ELSE st
  /\ maps' = IF rc[b] = 1 THEN [maps EXCEPT ![b] = 0] ELSE maps

clReleaseMemObject(t, b) ==
  /\ Idle(t) /\ Owns(b)
  /\ DropMem(b)
  /\ held' = [held EXCEPT ![b] = @ - 1]
  /\ UNCHANGED <<parent, lost, karg, queue, status, root, pc, mapped, count>>

\* clRetainMemObject, clRetainKernel, clRetainEvent and clRetainCommandQueue.
clRetain(t, o) ==
  /\ Idle(t) /\ held[o] = 1 /\ o \in Retains
  /\ rc' = [rc EXCEPT ![o] = @ + 1]
  /\ held' = [held EXCEPT ![o] = @ + 1]
  /\ UNCHANGED <<st, parent, lost, maps, karg, queue, status, root, pc, mapped, count>>
-----------------------------------------------------------------------------
(* Kernels.                                                                *)

\* dyn_arguments holds the handle, without a reference of its own.
clSetKernelArg(t, k, b) ==
  /\ Idle(t) /\ Owns(k) /\ (b # None => Owns(b))
  /\ "ndrange" \in Commands
  /\ karg' = [karg EXCEPT ![k] = b]
  /\ UNCHANGED <<st, rc, parent, lost, maps, queue, status, root, pc, held, mapped, count>>

clReleaseKernel(t, k) ==
  /\ Idle(t) /\ Owns(k)
  /\ rc' = [rc EXCEPT ![k] = @ - 1]
  /\ st' = IF rc[k] = 1 THEN [st EXCEPT ![k] = "freed"] ELSE st
  /\ held' = [held EXCEPT ![k] = @ - 1]
  /\ UNCHANGED <<parent, lost, maps, karg, queue, status, root, pc, mapped, count>>
-----------------------------------------------------------------------------
(* Enqueueing.  ev is None when the caller passed no event.                *)

MayEnqueue(t, q, type, ev) ==
  /\ Idle(t) /\ Owns(q) /\ ~Busy(q)
  /\ type \in Commands /\ count < MaxCommands
  /\ ev # None => (type \in WithEvent /\ st[ev] = "none")

\* malloc, POCL_INIT_OBJECT and POCL_UPDATE_EVENT_QUEUED; stat is the status
\* the event has when the step ends.
MakeEvent(q, ev, stat) ==
  /\ st' = IF ev = None THEN st ELSE [st EXCEPT ![ev] = "live"]
  /\ queue' = IF ev = None THEN queue ELSE [queue EXCEPT ![ev] = q]
  /\ status' = IF ev = None THEN status ELSE [status EXCEPT ![ev] = stat]
  /\ held' = IF ev = None THEN held ELSE [held EXCEPT ![ev] = 1]

\* Mistaken form: an event does not retain its queue.
RetainedWithoutQueue(q, ev, refs) ==
  [o \in Objects |-> rc[o] + Times(refs, o) + (IF ev # None /\ o = ev THEN 1 ELSE 0)]

\* The references a command takes: an event, one of its queue for it, and the
\* objects in refs.
Retained(q, ev, refs) ==
  [o \in Objects |-> rc[o] + Times(refs, o)
                     + (IF ev # None /\ o \in {ev, q} THEN 1 ELSE 0)]

Cmd(type, bufs, k, ev) ==
  [n |-> count + 1, type |-> type, bufs |-> bufs, kernel |-> k, event |-> ev]

\* Mistaken form: the call executes its command ahead of the queue.
ExecuteAtOnce(t, q, type, bufs, ev) ==
  /\ MayEnqueue(t, q, type, ev)
  /\ \A j \in DOMAIN bufs : Owns(bufs[j])
  /\ MakeEvent(q, ev, "queued")
  /\ rc' = Retained(q, ev, bufs)
  /\ pc' = [pc EXCEPT ![t] = [Finishing(q, "exec", Cmd(type, bufs, None, ev), <<>>)
                                EXCEPT !.i = 0]]
  /\ count' = count + 1
  /\ UNCHANGED <<parent, lost, karg, root>>

\* Mistaken form: the node does not take a reference of its buffers.
AppendUnretained(t, q, type, bufs, k, ev, refs) ==
  /\ MayEnqueue(t, q, type, ev)
  /\ MakeEvent(q, ev, "queued")
  /\ rc' = Retained(q, ev, <<>>)
  /\ root' = [root EXCEPT ![q] = Append(@, Cmd(type, bufs, k, ev))]
  /\ count' = count + 1
  /\ UNCHANGED <<parent, lost, karg, pc>>

\* A non-blocking call: the node goes to the end of the queue.
AppendNode(t, q, type, bufs, k, ev, refs) ==
  /\ MayEnqueue(t, q, type, ev)
  /\ MakeEvent(q, ev, "queued")
  /\ rc' = Retained(q, ev, refs)
  /\ root' = [root EXCEPT ![q] = Append(@, Cmd(type, bufs, k, ev))]
  /\ count' = count + 1
  /\ UNCHANGED <<parent, lost, karg, pc>>

\* A blocking call, or one that is never queued: retain the buffers ("ensure
\* our buffer is not freed yet"), finish the queue, then execute.
ExecuteDirectly(t, q, type, bufs, ev) ==
  /\ MayEnqueue(t, q, type, ev)
  /\ \A j \in DOMAIN bufs : Owns(bufs[j])
  /\ MakeEvent(q, ev, "queued")
  /\ rc' = Retained(q, ev, bufs)
  /\ pc' = [pc EXCEPT ![t] = Finishing(q, "exec", Cmd(type, bufs, None, ev), <<>>)]
  /\ count' = count + 1
  /\ UNCHANGED <<parent, lost, karg, root>>

clEnqueueReadBuffer(t, q, b, ev) ==
  /\ Owns(b)
  /\ \/ AppendNode(t, q, "read", <<b>>, None, ev, <<b>>)
     \/ ExecuteDirectly(t, q, "read", <<b>>, ev)
  /\ UNCHANGED <<maps, mapped>>

clEnqueueWriteBuffer(t, q, b, ev) ==
  /\ Owns(b)
  /\ \/ AppendNode(t, q, "write", <<b>>, None, ev, <<b>>)
     \/ ExecuteDirectly(t, q, "write", <<b>>, ev)
  /\ UNCHANGED <<maps, mapped>>

clEnqueueCopyBuffer(t, q, src, dst, ev) ==
  /\ Owns(src) /\ Owns(dst)
  /\ AppendNode(t, q, "copy", <<src, dst>>, None, ev, <<src, dst>>)
  /\ UNCHANGED <<maps, mapped>>

clEnqueueFillBuffer(t, q, b, ev) ==
  ExecuteDirectly(t, q, "fill", <<b>>, ev) /\ UNCHANGED <<maps, mapped>>

clEnqueueReadBufferRect(t, q, b, ev) ==
  ExecuteDirectly(t, q, "read_rect", <<b>>, ev) /\ UNCHANGED <<maps, mapped>>

\* Never creates the event it is asked for: only called without one.
clEnqueueWriteBufferRect(t, q, b) ==
  ExecuteDirectly(t, q, "write_rect", <<b>>, None) /\ UNCHANGED <<maps, mapped>>

clEnqueueCopyBufferRect(t, q, src, dst, ev) ==
  ExecuteDirectly(t, q, "copy_rect", <<src, dst>>, ev) /\ UNCHANGED <<maps, mapped>>

clEnqueueMarker(t, q, ev) ==
  /\ ev # None
  /\ AppendNode(t, q, "marker", <<>>, None, ev, <<>>)
  /\ UNCHANGED <<maps, mapped>>

\* The kernel's buffer argument, as it is set now, goes with the node.  The
\* node retains the queue too, and nothing ever gives that reference back.
clEnqueueNDRangeKernel(t, q, k, ev) ==
  LET bufs == IF karg[k] = None THEN <<>> ELSE <<karg[k]>> IN
  /\ Owns(k) /\ (karg[k] # None => Owns(karg[k]))
  /\ AppendNode(t, q, "ndrange", bufs, k, ev, bufs \o <<k, q>>)
  /\ UNCHANGED <<maps, mapped>>

\* The buffer is retained for the mapping, not for the node: the reference is
\* given back by clEnqueueUnmapMemObject.
clEnqueueMapBuffer(t, q, b, ev) ==
  /\ Owns(b)
  /\ \/ /\ AppendNode(t, q, "map", <<b>>, None, ev, <<b>>)
        /\ mapped' = [mapped EXCEPT ![b] = @ + 1]
     \/ ExecuteDirectly(t, q, "map", <<b>>, ev) /\ UNCHANGED mapped
  /\ maps' = [maps EXCEPT ![b] = @ + 1]

MapQueued(b) == \E q \in Queues : \E i \in DOMAIN root[q] :
                   root[q][i].type = "map" /\ b \in Range(root[q][i].bufs)

\* Executed at once, whatever is queued.  The client still owns b, so that the
\* release of the mapping never deletes it.
clEnqueueUnmapMemObject(t, q, b, ev) ==
  LET kept == Retained(q, ev, <<>>) IN
  /\ MayEnqueue(t, q, "unmap", ev)
  /\ Owns(b) /\ mapped[b] > 0 /\ maps[b] > 0
  /\ MapQueued(b) => UnmapsEarly
  /\ MakeEvent(q, ev, "complete")
  /\ rc' = [kept EXCEPT ![b] = @ - 1]
  /\ maps' = [maps EXCEPT ![b] = @ - 1]
  /\ mapped' = [mapped EXCEPT ![b] = @ - 1]
  /\ count' = count + 1
  /\ UNCHANGED <<parent, lost, karg, root, pc>>

\* malloc of the event fails after clEnqueueMapBuffer has retained the buffer;
\* the other calls have changed nothing at that point.
EventNotAllocated(t, q, b) ==
  /\ HostFull /\ Owns(b)
  /\ MayEnqueue(t, q, "map", None)
  /\ rc' = [rc EXCEPT ![b] = @ + 1]
  /\ lost' = [lost EXCEPT ![b] = @ + 1]
  /\ count' = count + 1
  /\ UNCHANGED <<st, parent, maps, karg, queue, status, root, pc, held, mapped>>

\* malloc of the node fails, or of a map command's mapping: the call returns an
\* error, and what it did before stays: an event nobody owns, the buffer retained,
\* and the mapping, if it was made.
NodeNotAllocated(t, q, type, b, ev) ==
  /\ HostFull /\ Owns(b)
  /\ MayEnqueue(t, q, type, ev)
  /\ type \in Queued \ {"ndrange"} /\ (type = "marker" => ev # None)
  /\ st' = IF ev = None THEN st ELSE [st EXCEPT ![ev] = "live"]
  /\ queue' = IF ev = None THEN queue ELSE [queue EXCEPT ![ev] = q]
  /\ status' = IF ev = None THEN status ELSE [status EXCEPT ![ev] = "queued"]
  /\ rc' = Retained(q, ev, IF type = "map" THEN <<b>> ELSE <<>>)
  /\ \/ /\ maps' = IF type = "map" THEN [maps EXCEPT ![b] = @ + 1] ELSE maps
        /\ UNCHANGED lost
     \/ /\ type = "map" /\ lost' = [lost EXCEPT ![b] = @ + 1]
        /\ UNCHANGED maps
  /\ count' = count + 1
  /\ UNCHANGED <<parent, karg, root, pc, held, mapped>>
-----------------------------------------------------------------------------
(* The calls that execute the queue.                                       *)

Enter(t, q, op, events) ==
  /\ Idle(t) /\ ~Busy(q)
  /\ pc' = [pc EXCEPT ![t] = Finishing(q, op, NoCmd, events)]

clFinish(t, q) ==
  /\ Owns(q) /\ Enter(t, q, "return", <<>>)
  /\ UNCHANGED <<st, rc, parent, lost, maps, karg, queue, status, root, held, mapped, count>>

clFlush(t, q) == clFinish(t, q)

\* "dummy implementation": finishes the queue of one event after the other.
clWaitForEvents(t, events) ==
  /\ \A j \in DOMAIN events : Owns(events[j]) /\ ~InCall(events[j])
                              /\ ~Busy(queue[events[j]])
  /\ Enter(t, queue[events[1]], "wait", events)
  /\ UNCHANGED <<st, rc, parent, lost, maps, karg, queue, status, root, held, mapped, count>>

clReleaseCommandQueue(t, q) ==
  /\ Owns(q) /\ Enter(t, q, "release_queue", <<>>)
  /\ held' = [held EXCEPT ![q] = @ - 1]
  /\ UNCHANGED <<st, rc, parent, lost, maps, karg, queue, status, root, mapped, count>>

\* On the last reference the queue is released, which first executes it, and
\* only then is the event freed; the event of a GPU queue is freed at once.
clReleaseEvent(t, e) ==
  LET last == rc[e] = 1
      gpu  == IsGPU(queue[e]) IN
  /\ Idle(t) /\ Owns(e) /\ ~InCall(e)
  /\ status[e] # "complete" => DropsEarly
  /\ rc' = [rc EXCEPT ![e] = @ - 1]
  /\ held' = [held EXCEPT ![e] = @ - 1]
  /\ st' = IF last /\ gpu THEN [st EXCEPT ![e] = "freed"] ELSE st
  /\ IF last /\ ~gpu THEN Enter(t, queue[e], "release_event", <<e>>) ELSE pc' = pc
  /\ UNCHANGED <<parent, lost, maps, karg, queue, status, root, mapped, count>>
-----------------------------------------------------------------------------
(* clFinish.  The nodes stay in the list until the loop has ended.         *)

Current(t) == IF pc[t].i = 0 THEN pc[t].cmd ELSE root[pc[t].q][pc[t].i]

AtCommand(t) == pc[t].at = "node" /\ pc[t].i <= Len(root[pc[t].q])

Goto(t, at) == pc' = [pc EXCEPT ![t].at = at]

SetStatus(ev, s) == status' = IF ev = None THEN status ELSE [status EXCEPT ![ev] = s]

\* POCL_UPDATE_EVENT_SUBMITTED and POCL_UPDATE_EVENT_RUNNING, one behind the
\* other; a marker goes straight to POCL_UPDATE_EVENT_COMPLETE.
StartCommand(t) ==
  LET cmd == Current(t) IN
  /\ AtCommand(t)
  /\ IF cmd.type = "marker" THEN Goto(t, "assert") /\ UNCHANGED status
                            ELSE Goto(t, "device") /\ SetStatus(cmd.event, "running")
  /\ UNCHANGED <<st, rc, parent, lost, maps, karg, queue, root, held, mapped, count>>

\* The driver returns.  pocl_pthread_run has set the status to CL_COMPLETE.
DeviceDone(t) ==
  LET cmd == Current(t) IN
  /\ pc[t].at = "device"
  /\ Goto(t, "assert")
  /\ IF cmd.type = "ndrange" /\ Device[pc[t].q] = "pthread"
       THEN SetStatus(cmd.event, "complete") ELSE UNCHANGED status
  /\ UNCHANGED <<st, rc, parent, lost, maps, karg, queue, root, held, mapped, count>>

\* assert((*event)->status = CL_RUNNING): an assignment, not a comparison.
AssertRunning(t) ==
  /\ pc[t].at = "assert"
  /\ Goto(t, "complete")
  /\ SetStatus(Current(t).event, "running")
  /\ UNCHANGED <<st, rc, parent, lost, maps, karg, queue, root, held, mapped, count>>

\* Mistaken form: only the first buffer of a copy is released.
ReleasedFirst(cmd) == IF cmd.type = "map" \/ cmd.bufs = <<>> THEN <<>> ELSE <<cmd.bufs[1]>>

\* The buffers clFinish, or a blocking call, releases behind a command.
Released(cmd) == IF cmd.type = "map" THEN <<>> ELSE cmd.bufs

MarkComplete(t) ==
  LET cmd == Current(t) IN
  /\ pc[t].at = "complete"
  /\ SetStatus(cmd.event, "complete")
  /\ pc' = [pc EXCEPT ![t].at = "release", ![t].rel = Released(cmd)]
  /\ UNCHANGED <<st, rc, parent, lost, maps, karg, queue, root, held, mapped, count>>

ReleaseBuffer(t) ==
  /\ pc[t].at = "release" /\ pc[t].rel # <<>>
  /\ DropMem(Head(pc[t].rel))
  /\ pc' = [pc EXCEPT ![t].rel = Tail(@)]
  /\ UNCHANGED <<parent, lost, karg, queue, status, root, held, mapped, count>>

\* Mistaken form: the loop does not go on to the next node.
NextNot(t) ==
  LET own == pc[t].i = 0 IN
  /\ pc[t].at = "release" /\ pc[t].rel = <<>>
  /\ pc' = IF own THEN [pc EXCEPT ![t] = NoCall] ELSE [pc EXCEPT ![t].at = "node"]
  /\ UNCHANGED <<st, rc, mapped, parent, lost, maps, karg, queue, status, root, held, count>>

\* Mistaken form: the kernel of a launch is not released.
NextKeepingKernel(t) ==
  LET own == pc[t].i = 0 IN
  /\ pc[t].at = "release" /\ pc[t].rel = <<>>
  /\ pc' = IF own THEN [pc EXCEPT ![t] = NoCall]
           ELSE [pc EXCEPT ![t].at = "node", ![t].i = @ + 1]
  /\ mapped' = IF own /\ pc[t].cmd.type = "map"
                 THEN [mapped EXCEPT ![pc[t].cmd.bufs[1]] = @ + 1] ELSE mapped
  /\ UNCHANGED <<st, rc, parent, lost, maps, karg, queue, status, root, held, count>>

\* The end of a node: the kernel is released, except on a GPU, and the loop
\* goes on.  The end of a blocking call's own command is the end of the call,
\* and a blocking map returns the pointer then.
NextCommand(t) ==
  LET k     == Current(t).kernel
      drops == k # None /\ ~IsGPU(pc[t].q)
      own   == pc[t].i = 0 IN
  /\ pc[t].at = "release" /\ pc[t].rel = <<>>
  /\ rc' = IF drops THEN [rc EXCEPT ![k] = @ - 1] ELSE rc
  /\ st' = IF drops /\ rc[k] = 1 THEN [st EXCEPT ![k] = "freed"] ELSE st
  /\ pc' = IF own THEN [pc EXCEPT ![t] = NoCall]
           ELSE [pc EXCEPT ![t].at = "node", ![t].i = @ + 1]
  /\ mapped' = IF own /\ pc[t].cmd.type = "map"
                 THEN [mapped EXCEPT ![pc[t].cmd.bufs[1]] = @ + 1] ELSE mapped
  /\ UNCHANGED <<parent, lost, maps, karg, queue, status, root, held, count>>

\* Mistaken form: the nodes stay in the queue.
EmptiedNot(t) ==
  /\ pc[t].at = "node" /\ pc[t].i > Len(root[pc[t].q])
  /\ UNCHANGED <<root, parent, lost, maps, karg, queue, status, held, mapped, count>>

\* The loop has ended: the nodes are freed and clFinish returns to its caller.
Emptied(t) ==
  /\ pc[t].at = "node" /\ pc[t].i > Len(root[pc[t].q])
  /\ root' = [root EXCEPT ![pc[t].q] = <<>>]
  /\ UNCHANGED <<parent, lost, maps, karg, queue, status, held, mapped, count>>

FinishReturn(t) ==
  /\ pc[t].op = "return" /\ Emptied(t)
  /\ pc' = [pc EXCEPT ![t] = NoCall]
  /\ UNCHANGED <<st, rc>>

FinishExec(t) ==
  /\ pc[t].op = "exec" /\ Emptied(t)
  /\ pc' = [pc EXCEPT ![t].i = 0]
  /\ UNCHANGED <<st, rc>>

FinishRelease(t) ==
  LET q     == pc[t].q
      freed == (IF rc[q] = 1 THEN {q} ELSE {}) \cup Range(pc[t].events) IN
  /\ pc[t].op \in {"release_queue", "release_event"} /\ Emptied(t)
  /\ rc' = [rc EXCEPT ![q] = @ - 1]
  /\ st' = [o \in Objects |-> IF o \in freed THEN "freed" ELSE st[o]]
  /\ pc' = [pc EXCEPT ![t] = NoCall]

\* Mistaken form: returns when the first event has completed.
FinishWaitFirst(t) ==
  /\ pc[t].op = "wait" /\ Emptied(t)
  /\ pc' = [pc EXCEPT ![t] = NoCall]
  /\ UNCHANGED <<st, rc>>

FinishWait(t) ==
  LET rest == Tail(pc[t].events) IN
  /\ pc[t].op = "wait" /\ Emptied(t)
  /\ pc' = [pc EXCEPT ![t] = IF rest = <<>> THEN NoCall
                             ELSE Finishing(queue[rest[1]], "wait", NoCmd, rest)]
  /\ UNCHANGED <<st, rc>>

\* A thread that is in a call.
Run(t) ==
  \/ StartCommand(t) \/ DeviceDone(t) \/ AssertRunning(t) \/ MarkComplete(t)
  \/ ReleaseBuffer(t) \/ NextCommand(t)
  \/ FinishReturn(t) \/ FinishExec(t) \/ FinishRelease(t) \/ FinishWait(t)

Enqueue(t, q, ev) ==
  \/ clEnqueueMarker(t, q, ev)
  \/ \E k \in Kernels : clEnqueueNDRangeKernel(t, q, k, ev)
  \/ \E b \in Bufs :
       \/ clEnqueueReadBuffer(t, q, b, ev)
       \/ clEnqueueWriteBuffer(t, q, b, ev)
       \/ clEnqueueFillBuffer(t, q, b, ev)
       \/ clEnqueueReadBufferRect(t, q, b, ev)
       \/ ev = None /\ clEnqueueWriteBufferRect(t, q, b)
       \/ clEnqueueMapBuffer(t, q, b, ev)
       \/ clEnqueueUnmapMemObject(t, q, b, ev)
       \/ ev = None /\ EventNotAllocated(t, q, b)
       \/ \E type \in Queued : NodeNotAllocated(t, q, type, b, ev)
       \/ \E dst \in Bufs : \/ clEnqueueCopyBuffer(t, q, b, dst, ev)
                            \/ clEnqueueCopyBufferRect(t, q, b, dst, ev)

\* A call of the client.
Request(t) ==
  \/ \E b \in Bufs : clCreateBuffer(t, b) \/ clReleaseMemObject(t, b)
  \/ \E b, p \in Bufs : clCreateSubBuffer(t, b, p)
  \/ \E k \in Kernels : \/ clReleaseKernel(t, k)
                        \/ \E b \in Bufs \cup {None} : clSetKernelArg(t, k, b)
  \/ \E o \in Objects : clRetain(t, o)
  \/ \E q \in Queues : \/ clFinish(t, q) \/ clFlush(t, q) \/ clReleaseCommandQueue(t, q)
                       \/ \E ev \in Events \cup {None} : Enqueue(t, q, ev)
  \/ \E e \in Events : clReleaseEvent(t, e) \/ clWaitForEvents(t, <<e>>)
  \/ \E e, f \in Events : e # f /\ clWaitForEvents(t, <<e, f>>)

Next == \E t \in Threads : Request(t) \/ Run(t)

\* A thread that is in a call is scheduled, and every driver call returns.
Fairness == \A t \in Threads : WF_vars(Run(t))

Spec == Init /\ [][Next]_vars
FairSpec == Spec /\ Fairness
-----------------------------------------------------------------------------
(* Who refers to what.                                                     *)

\* clFinish is done with the event and the device operation of node i of q.
Executed(q, i) == \E t \in Threads : /\ pc[t].q = q
                                     /\ \/ i < pc[t].i
                                        \/ i = pc[t].i /\ pc[t].at = "release"

\* Nodes that are still to be executed, or are being executed.
Pending(q) == {i \in DOMAIN root[q] : ~Executed(q, i)}

\* The thread has still to execute the command of its own call.
OwnPending(t) == pc[t].op = "exec" /\ ~(pc[t].i = 0 /\ pc[t].at = "release")

\* Commands that will still use their event and buffers.
Outstanding == (UNION {{root[q][i] : i \in Pending(q)} : q \in Queues})
               \cup {pc[t].cmd : t \in {u \in Threads : OwnPending(u)}}

Children(b) == {c \in Bufs : parent[c] = b /\ st[c] = "live"}

\* References of b: the client's, its mappings', its sub-buffers', and those of
\* commands that have not yet given them back.
MemHolders(b) ==
  held[b] + maps[b] + Cardinality(Children(b))
  + Cardinality({r \in Outstanding \X {1, 2} : /\ r[2] \in DOMAIN Released(r[1])
                                               /\ Released(r[1])[r[2]] = b})
  + Cardinality({r \in Threads \X {1, 2} : /\ r[2] \in DOMAIN pc[r[1]].rel
                                           /\ pc[r[1]].rel[r[2]] = b})

\* References of k: the client's and those of launches still in the queues.
KernelHolders(k) ==
  held[k] + Cardinality({r \in Queues \X (1..MaxCommands) :
                           /\ r[2] \in DOMAIN root[r[1]] /\ root[r[1]][r[2]].kernel = k
                           /\ \A t \in Threads : pc[t].q = r[1] => pc[t].i <= r[2]})

\* References of q: the client's, also the one it is giving back, and those of
\* its events.
QueueHolders(q) ==
  held[q] + Cardinality({e \in Events : st[e] = "live" /\ queue[e] = q})
  + Cardinality({t \in Threads : pc[t].op = "release_queue" /\ pc[t].q = q})
-----------------------------------------------------------------------------
(* Properties.                                                             *)

\* What a command still to be executed points to is not freed: its event, its
\* kernel, its buffers and, for a sub-buffer, the parent that owns the memory.
\* clFinish dereferences all of them, whatever the client has released since.
CommandsValid ==
  \A c \in Outstanding :
    /\ c.event # None => st[c.event] = "live"
    /\ c.kernel # None => st[c.kernel] = "live"
    /\ \A b \in Range(c.bufs) : /\ st[b] = "live"
                                /\ parent[b] # None => st[parent[b]] = "live"

\* A queue with nodes, one a thread is executing, and the queue of an event that
\* is not freed, is not freed: clReleaseEvent dereferences event->queue.
QueuesValid ==
  /\ \A q \in Queues : root[q] # <<>> => st[q] = "live"
  /\ \A t \in Threads : ~Idle(t) => st[pc[t].q] = "live"
  /\ \A e \in Events : st[e] = "live" => st[queue[e]] = "live"

\* The reference count of a memory object is the number of its holders, plus one
\* for each device of the context after the first and for each map that found no
\* memory for its event: retains and releases of clEnqueue*, clFinish, mappings
\* and sub-buffers match, on every path.
MemRefs ==
  \A b \in Bufs : st[b] = "live" =>
    LET extra == IF b \in SubBufs THEN 0 ELSE NumDevices - 1 IN
    rc[b] = MemHolders(b) + extra + lost[b]

\* The reference count of a queue covers the client and every event; it is
\* higher after a kernel launch, after the end of a GPU event and when a node
\* could not be allocated.
QueueRefs ==
  \A q \in Queues : st[q] = "live" =>
    /\ rc[q] >= QueueHolders(q)
    /\ ("ndrange" \notin Commands /\ ~IsGPU(q)) => rc[q] = QueueHolders(q)

\* A memory object with no holder is deleted.
MemReclaimed == \A b \in Bufs : st[b] = "live" => MemHolders(b) > 0

\* A kernel with no holder is deleted.
KernelReclaimed == \A k \in Kernels : st[k] = "live" => KernelHolders(k) > 0

\* Events tell the progress of the loop of clFinish: behind it they are complete,
\* ahead of it they are queued.
EventsInOrder ==
  \A q \in Queues : \A i \in DOMAIN root[q] :
    LET e == root[q][i].event IN
    e # None /\ st[e] = "live" =>
      IF Executed(q, i) THEN status[e] = "complete"
      ELSE (\A t \in Threads : pc[t].q = q => i # pc[t].i) => status[e] = "queued"

\* When clWaitForEvents returns, the commands of all its events have completed:
\* it is through with an event only when its status is CL_COMPLETE.
WaitedComplete ==
  [][\A t \in Threads : pc[t].op = "wait" =>
       \A e \in Range(pc[t].events) \ Range(pc'[t].events) : status[e] = "complete"]_vars

\* No command is executed twice: a completed event goes back to an earlier
\* status in one place only, the assignment in the assertion of
\* POCL_UPDATE_EVENT_COMPLETE, behind a driver that has set CL_COMPLETE itself.
CompleteIsFinal ==
  [][\A e \in Events : status[e] = "complete" /\ status'[e] # "complete"
       => \E t \in Threads : pc[t].at = "assert" /\ Current(t).event = e]_vars

\* Every call returns: clFinish, clWaitForEvents and the blocking calls come to
\* an end when the driver's operations do.
CallsReturn == \A t \in Threads : ~Idle(t) ~> Idle(t)
-----------------------------------------------------------------------------
(* The queues implement InOrderQueue.                                      *)

\* How many nodes of q the loop of clFinish is through with.
Behind(q) == Cardinality({i \in DOMAIN root[q] : Executed(q, i)})

\* The commands q has accepted and not executed: the nodes the loop is not
\* through with, and the command of a blocking call.
TodoBar ==
  [q \in Queues |->
     LET nodes == [j \in 1..(Len(root[q]) - Behind(q)) |-> root[q][Behind(q) + j].n]
         owner == {t \in Threads : pc[t].q = q /\ OwnPending(t)}
     IN  nodes \o (IF owner = {} THEN <<>> ELSE <<pc[CHOOSE t \in owner : TRUE].cmd.n>>)]

\* All others, as n numbers the commands without gaps.
DoneBar == {n \in 1..count : \A q \in Queues : \A i \in DOMAIN TodoBar[q] : TodoBar[q][i] # n}

Abstract == INSTANCE InOrderQueue
              WITH Numbers <- 1..MaxCommands, todo <- TodoBar, done <- DoneBar

\* Commands take effect in the order of the calls that enqueued them, whether
\* they are queued or executed by the call itself, and whichever thread's
\* clFinish comes first.
InOrder == Abstract!Spec
=============================================================================
