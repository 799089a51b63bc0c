----------------------------- MODULE TtaDevice -----------------------------
(***************************************************************************)
(* A kernel launch on a TCE device (devices/tce): the driver on the host   *)
(* (pocl_tce_run in tce_common.cc), the device's own main program          *)
(* (tta_device_main.c), and the thread that simulates the device           *)
(* (ttasim.cc).                                                            *)
(*                                                                         *)
(* Host and device share one command object in the device's memory.  Its   *)
(* status word passes it to and fro: FREE, READY (host), RUNNING, FINISHED *)
(* (device), FREE (host).  Each launch loads a program of its own into the *)
(* simulator, which the driver must stop first, as the device polls for    *)
(* ever, and start again, with a condition variable.                       *)
(*                                                                         *)
(* Every read or write of a word is a step; the bytes of a word need none  *)
(* of their own, as the four statuses differ in one byte.  The client      *)
(* calls the driver from one thread.  The memory for arguments, and the    *)
(* debugger of the simulator, are left out.                                *)
(***************************************************************************)
EXTENDS Integers, Sequences, FiniteSets

CONSTANTS
  Shapes,    \* bound: the launches: [work_dim, num_groups]
  MaxRuns    \* bound: launches in a behaviour

ASSUME ShapesAssumption ==
  \A s \in Shapes : s.work_dim \in 1..3 /\ s.num_groups \in [1..3 -> Nat \ {0}]
ASSUME RunsAssumption == MaxRuns \in Nat \ {0}

\* The words of __kernel_exec_cmd behind the status, in order.
Fields == <<"kernel", "args", "work_dim", "num_groups">>

VARIABLES
  host,     \* pocl_tce_run: its place, the field it copies, its command
  runs,     \* launches so far
  status,   \* kernel_command.status
  command,  \* the other words of kernel_command
  dev,      \* the device's main program: its place, what it has read, the group
  sim,      \* the simulator: is it running, asked to stop, with a program?
  thread,   \* pocl_ttasim_thread: "top", "waiting", "running", "returned"
  ran       \* the groups that ran: how often, and of which kernel and arguments

vars == <<host, runs, status, command, dev, sim, thread, ran>>

Absent == 0

\* The words of the n-th launch.
CommandOf(n, shape) == [kernel |-> n, args |-> n, work_dim |-> shape.work_dim,
                        num_groups |-> shape.num_groups]
NoCommand == [kernel |-> Absent, args |-> Absent, work_dim |-> Absent,
              num_groups |-> <<0, 0, 0>>]

Groups(cmd) == {g \in (0..(cmd.num_groups[1] - 1)) \X (0..(cmd.num_groups[2] - 1))
                                                   \X (0..(cmd.num_groups[3] - 1)) :
                  /\ cmd.work_dim < 2 => g[2] = 0
                  /\ cmd.work_dim < 3 => g[3] = 0}

DeviceStart == [at |-> "poll", i |-> 1, cmd |-> NoCommand, group |-> <<0, 0, 0>>]

Init ==
  /\ host = [at |-> "idle", i |-> 0, cmd |-> NoCommand]
  /\ runs = 0
  /\ status = "none" /\ command = NoCommand
  /\ dev = DeviceStart
  /\ sim = [running |-> FALSE, stop |-> FALSE, program |-> Absent]
  /\ thread = "top"
  /\ ran = <<>>
-----------------------------------------------------------------------------
(* The host.                                                               *)

HostAt(a, b) == host.at = a /\ host' = [host EXCEPT !.at = b]

\* loadProgramToDevice: a running simulator is asked to stop.
pocl_tce_run(shape) ==
  /\ host.at = "idle" /\ runs < MaxRuns
  /\ host' = [at |-> "load", i |-> 0, cmd |-> CommandOf(runs + 1, shape)]
  /\ runs' = runs + 1
  /\ sim' = [sim EXCEPT !.stop = sim.running]
  /\ ran' = <<>>
  /\ UNCHANGED <<status, command, dev, thread>>

\* The program is loaded when the simulator has stopped.
LoadProgram ==
  /\ ~sim.running
  /\ HostAt("load", "init")
  /\ sim' = [sim EXCEPT !.program = host.cmd.kernel]
  /\ dev' = DeviceStart
  /\ command' = NoCommand
  /\ UNCHANGED <<runs, status, thread, ran>>

\* Mistaken form: the memory of the device is left as it is.
InitNothing ==
  /\ HostAt("init", "restart")
  /\ UNCHANGED <<runs, status, command, dev, sim, thread, ran>>

initDataMemory ==
  /\ HostAt("init", "restart")
  /\ status' = "FREE"
  /\ UNCHANGED <<runs, command, dev, sim, thread, ran>>

\* pthread_cond_signal: it reaches the thread if it waits, and is lost otherwise.
restartProgram ==
  /\ HostAt("restart", "room")
  /\ IF thread = "waiting"
     THEN thread' = "running" /\ sim' = [sim EXCEPT !.running = TRUE, !.stop = FALSE]
     ELSE UNCHANGED <<thread, sim>>
  /\ UNCHANGED <<runs, status, command, dev, ran>>

WaitForRoom ==
  /\ status = "FREE"
  /\ HostAt("room", "copy")
  /\ UNCHANGED <<runs, status, command, dev, sim, thread, ran>>

\* Mistaken form: the command is copied with its final status.
CopyReady ==
  /\ host.at = "copy"
  /\ IF host.i = 0 THEN status' = "READY" /\ UNCHANGED command
     ELSE UNCHANGED status /\ command' = [command EXCEPT ![Fields[host.i]] = host.cmd[Fields[host.i]]]
  /\ host' = IF host.i = Len(Fields) THEN [host EXCEPT !.at = "ready"]
             ELSE [host EXCEPT !.i = @ + 1]
  /\ UNCHANGED <<runs, dev, sim, thread, ran>>

\* copyHostToDevice of the command: the status first, which stays FREE.
CopyCommand ==
  /\ host.at = "copy"
  /\ IF host.i = 0 THEN status' = "FREE" /\ UNCHANGED command
     ELSE UNCHANGED status /\ command' = [command EXCEPT ![Fields[host.i]] = host.cmd[Fields[host.i]]]
  /\ host' = IF host.i = Len(Fields) THEN [host EXCEPT !.at = "ready"]
             ELSE [host EXCEPT !.i = @ + 1]
  /\ UNCHANGED <<runs, dev, sim, thread, ran>>

WriteReady ==
  /\ HostAt("ready", "wait")
  /\ status' = "READY"
  /\ UNCHANGED <<runs, command, dev, sim, thread, ran>>

WaitFinished ==
  /\ status = "FINISHED"
  /\ HostAt("wait", "finished")
  /\ UNCHANGED <<runs, status, command, dev, sim, thread, ran>>

FreeEntry ==
  /\ HostAt("finished", "idle")
  /\ status' = "FREE"
  /\ UNCHANGED <<runs, command, dev, sim, thread, ran>>

Host == \/ \E shape \in Shapes : pocl_tce_run(shape)
        \/ LoadProgram \/ initDataMemory \/ restartProgram \/ WaitForRoom
        \/ CopyCommand \/ WriteReady \/ WaitFinished \/ FreeEntry
-----------------------------------------------------------------------------
(* The device, while it is simulated.                                      *)

\* wait_for_command: the status is polled, and then set.
wait_for_command ==
  \/ /\ dev.at = "poll" /\ status = "READY"
     /\ dev' = [dev EXCEPT !.at = "take"]
     /\ UNCHANGED <<status, ran>>
  \/ /\ dev.at = "take"
     /\ status' = "RUNNING"
     /\ dev' = [dev EXCEPT !.at = "read", !.i = 1]
     /\ UNCHANGED ran

\* tta_opencl_wg_launch reads the words of the command one after the other.
tta_opencl_wg_launch ==
  /\ dev.at = "read"
  /\ LET read == [dev EXCEPT !.cmd[Fields[dev.i]] = command[Fields[dev.i]], !.i = @ + 1]
     IN  dev' = IF dev.i < Len(Fields) THEN read
                ELSE [read EXCEPT !.at = "execute", !.group = <<0, 0, 0>>]
  /\ UNCHANGED <<status, ran>>

\* Mistaken form: the sizes of all three dimensions count.
ExtentAll(cmd, i) == cmd.num_groups[i]

\* num_groups_x, _y, _z: the upper dimensions count only within work_dim.
Extent(cmd, i) == IF cmd.work_dim >= i THEN cmd.num_groups[i] ELSE 1

\* The group after g in the loops: z is the innermost.
After(cmd, g) ==
  IF g[3] + 1 < Extent(cmd, 3) THEN <<g[1], g[2], g[3] + 1>>
  ELSE IF g[2] + 1 < Extent(cmd, 2) THEN <<g[1], g[2] + 1, 0>>
  ELSE <<g[1] + 1, 0, 0>>

tta_opencl_wg_execute ==
  /\ dev.at = "execute"
  /\ ran' = Append(ran, [kernel |-> dev.cmd.kernel, args |-> dev.cmd.args, group |-> dev.group])
  /\ LET g == After(dev.cmd, dev.group)
     IN  dev' = IF g[1] < dev.cmd.num_groups[1] THEN [dev EXCEPT !.group = g]
                ELSE [dev EXCEPT !.at = "finish"]
  /\ UNCHANGED status

Finish ==
  /\ dev.at = "finish"
  /\ status' = "FINISHED"
  /\ dev' = [dev EXCEPT !.at = "poll"]
  /\ UNCHANGED ran

Device ==
  /\ sim.running /\ sim.program # Absent
  /\ wait_for_command \/ tta_opencl_wg_launch \/ tta_opencl_wg_execute \/ Finish
  /\ UNCHANGED <<host, runs, command, sim, thread>>
-----------------------------------------------------------------------------
(* The thread of the simulator.                                            *)

SimStops ==
  /\ thread = "running" /\ sim.stop
  /\ sim' = [sim EXCEPT !.running = FALSE, !.stop = FALSE]
  /\ thread' = "returned"

\* After simulator.run(), and at the top of the loop.
SimWaits ==
  /\ thread \in {"returned", "top"}
  /\ thread' = IF thread = "returned" THEN "top" ELSE "waiting"
  /\ UNCHANGED sim

pocl_ttasim_thread ==
  /\ SimStops \/ SimWaits
  /\ UNCHANGED <<host, runs, status, command, dev, ran>>

Next == Host \/ Device \/ pocl_ttasim_thread

Spec == Init /\ [][Next]_vars

\* Host, device and thread each go on when they can; a new launch is the client's.
FairSpec == /\ Spec
            /\ WF_vars(Host /\ host.at # "idle")
            /\ WF_vars(Device)
            /\ WF_vars(pocl_ttasim_thread)
-----------------------------------------------------------------------------
\* When the driver sees FINISHED, every group of its launch has run once, of its
\* own kernel and with its own arguments: the device has not taken the command
\* before it was written ("Ensure the READY status is written the last"), not run
\* a group of an earlier launch, and not been stopped on the way.
LaunchComplete ==
  host.at = "finished" =>
    /\ \A i \in DOMAIN ran : ran[i].kernel = host.cmd.kernel /\ ran[i].args = host.cmd.args
    /\ {ran[i].group : i \in DOMAIN ran} = Groups(host.cmd)
    /\ Len(ran) = Cardinality(Groups(host.cmd))

\* The command object changes hands: the host writes its words only while it is
\* FREE, the device reads them only after READY and before FINISHED.
HandedOver ==
  /\ dev.at \in {"take", "read", "execute", "finish"} /\ sim.running /\ ~sim.stop
       => host.at = "wait" /\ sim.program = host.cmd.kernel
  /\ host.at = "copy" => status = "FREE"

\* A launch whose program the simulator is running comes back: host and device do
\* not wait for each other.
StartedReturns == (host.at = "room" /\ sim.running) ~> (host.at = "idle")
=============================================================================
