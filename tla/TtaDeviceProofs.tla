-------------------------- MODULE TtaDeviceProofs --------------------------
(***************************************************************************)
(* Proofs about TtaDevice, for any number and any shapes of launches.      *)
(***************************************************************************)
EXTENDS TtaDevice, FiniteSetTheorems, TLAPS

-----------------------------------------------------------------------------
(* The words of a command.                                                 *)

CommandType == [kernel : Nat, args : Nat, work_dim : Nat, num_groups : [1..3 -> Nat]]

\* The first n words of two commands agree.
Agree(n, c, d) == \A k \in 1..n : c[Fields[k]] = d[Fields[k]]

\* One more word is copied.
LEMMA CopyWord ==
  ASSUME NEW c \in CommandType, NEW d \in CommandType, NEW n \in 1..4, Agree(n - 1, c, d)
  PROVE  LET e == [c EXCEPT ![Fields[n]] = d[Fields[n]]]
         IN  e \in CommandType /\ Agree(n, e, d)
<1> DEFINE e == [c EXCEPT ![Fields[n]] = d[Fields[n]]]
<1>1. CASE n = 1
  BY <1>1 DEF CommandType, Fields, Agree
<1>2. CASE n = 2
  BY <1>2 DEF CommandType, Fields, Agree
<1>3. CASE n = 3
  BY <1>3 DEF CommandType, Fields, Agree
<1>4. CASE n = 4
  BY <1>4 DEF CommandType, Fields, Agree
<1>5. QED
  BY <1>1, <1>2, <1>3, <1>4

LEMMA AllWords ==
  ASSUME NEW c \in CommandType, NEW d \in CommandType, Agree(4, c, d)
  PROVE  c = d
<1>1. c.kernel = d.kernel /\ c.args = d.args /\ c.work_dim = d.work_dim /\ c.num_groups = d.num_groups
  <2>1. \A k \in {1, 2, 3, 4} : c[Fields[k]] = d[Fields[k]]
    BY DEF Agree
  <2>2. QED
    BY <2>1 DEF Fields
<1>2. QED
  BY <1>1 DEF CommandType
-----------------------------------------------------------------------------
(* The invariant.                                                          *)

HostPlaces == {"idle", "load", "init", "restart", "room", "copy", "ready", "wait", "finished"}
Before == {"load", "init", "restart", "room", "copy", "ready"}

DeviceType == [at : {"poll", "take", "read", "execute", "finish"}, i : 1..5, cmd : CommandType,
               group : Nat \X Nat \X Nat]

TypeInv ==
  /\ host \in [at : HostPlaces, i : 0..4, cmd : CommandType]
  /\ runs \in Nat
  /\ status \in {"none", "FREE", "READY", "RUNNING", "FINISHED"}
  /\ command \in CommandType
  /\ dev \in DeviceType
  /\ sim \in [running : BOOLEAN, stop : BOOLEAN, program : Nat]
  /\ thread \in {"top", "waiting", "running", "returned"}
  /\ ran \in Seq([kernel : Nat, args : Nat, group : Nat \X Nat \X Nat])

\* The simulator runs while its thread is in it; it is asked to stop only while
\* the driver waits for that.
ThreadInv ==
  /\ sim.running <=> thread = "running"
  /\ sim.stop => sim.running /\ host.at = "load"

\* The launch, and the program the simulator has.
Launched(cmd) == cmd.work_dim \in 1..3 /\ cmd.num_groups \in [1..3 -> Nat \ {0}]

ProgramInv ==
  /\ host.at # "idle" => Launched(host.cmd)
  /\ host.at \notin {"idle", "load"} => sim.program = host.cmd.kernel

\* The status word says whose turn it is.
StatusInv ==
  /\ host.at \in {"idle", "load", "init"} => status \in {"none", "FREE"}
  /\ host.at \in {"restart", "room", "copy", "ready"} => status = "FREE"
  /\ host.at = "wait" => status \in {"READY", "RUNNING", "FINISHED"}
  /\ host.at = "finished" => status = "FINISHED"
  /\ dev.at # "poll" => host.at = "wait" /\ sim.running
  /\ dev.at = "take" => status = "READY"
  /\ dev.at \in {"read", "execute", "finish"} <=> status = "RUNNING"

\* What has been copied to the device and read there.
WordsInv ==
  /\ host.at \in {"load", "init", "restart", "room"} => host.i = 0
  /\ host.at = "copy" => Agree(host.i - 1, command, host.cmd)
  /\ host.at \in {"ready", "wait"} => command = host.cmd
  /\ dev.at = "read" => dev.i \in 1..4 /\ Agree(dev.i - 1, dev.cmd, command)
  /\ dev.at \in {"execute", "finish"} => dev.cmd = host.cmd

\* The order of the loops.
Earlier(g, h) == \/ g[1] < h[1]
                 \/ g[1] = h[1] /\ (g[2] < h[2] \/ (g[2] = h[2] /\ g[3] < h[3]))

\* The groups in S have been executed, each once.
Executed(S) ==
  /\ \A p \in DOMAIN ran : ran[p].kernel = host.cmd.kernel /\ ran[p].args = host.cmd.args
  /\ {ran[p].group : p \in DOMAIN ran} = S
  /\ IsFiniteSet(S) /\ Cardinality(S) = Len(ran)

RanInv ==
  /\ host.at \in Before \/ status = "READY" \/ dev.at = "read" => ran = <<>>
  /\ dev.at = "execute" =>
       /\ dev.group \in Groups(host.cmd)
       /\ Executed({g \in Groups(host.cmd) : Earlier(g, dev.group)})
  /\ dev.at = "finish" \/ status = "FINISHED" => Executed(Groups(host.cmd))

IInv == TypeInv /\ ThreadInv /\ ProgramInv /\ StatusInv /\ WordsInv /\ RanInv
-----------------------------------------------------------------------------
(* The host.                                                               *)

LEMMA InitInv == Init => IInv
<1> SUFFICES ASSUME Init PROVE IInv
  OBVIOUS
<1>1. NoCommand \in CommandType
  BY DEF NoCommand, CommandType, Absent
<1>2. TypeInv
  BY <1>1 DEF Init, TypeInv, DeviceType, HostPlaces, DeviceStart, Absent
<1>3. ThreadInv /\ ProgramInv /\ StatusInv /\ WordsInv /\ RanInv
  BY DEF Init, ThreadInv, ProgramInv, StatusInv, WordsInv, RanInv, Before, DeviceStart
<1>4. QED
  BY <1>2, <1>3 DEF IInv

\* Groups and executed groups depend on nothing else.
LEMMA SameExecuted ==
  ASSUME UNCHANGED ran, host'.cmd = host.cmd
  PROVE  \A S : Executed(S)' <=> Executed(S)
BY DEF Executed

LEMMA RunPreserves ==
  ASSUME IInv, NEW shape \in Shapes, pocl_tce_run(shape)
  PROVE  IInv'
<1> DEFINE c == CommandOf(runs + 1, shape)
<1>1. /\ host.at = "idle" /\ host' = [at |-> "load", i |-> 0, cmd |-> c]
      /\ sim' = [sim EXCEPT !.stop = sim.running] /\ runs' = runs + 1 /\ ran' = <<>>
      /\ UNCHANGED <<status, command, dev, thread>>
  BY DEF pocl_tce_run
<1>2. c \in CommandType /\ Launched(c)
  <2>1. runs + 1 \in Nat
    BY DEF IInv, TypeInv
  <2>2. shape.work_dim \in 1..3 /\ shape.num_groups \in [1..3 -> Nat \ {0}]
    BY ShapesAssumption
  <2>3. shape.work_dim \in Nat /\ shape.num_groups \in [1..3 -> Nat]
    BY <2>2
  <2>4. QED
    BY <2>1, <2>2, <2>3 DEF CommandOf, CommandType, Launched
<1> HIDE DEF c
<1>3. TypeInv'
  <2>1. sim' \in [running : BOOLEAN, stop : BOOLEAN, program : Nat]
    BY <1>1 DEF IInv, TypeInv
  <2>2. host' \in [at : HostPlaces, i : 0..4, cmd : CommandType] /\ runs' \in Nat
    BY <1>1, <1>2 DEF IInv, TypeInv, HostPlaces
  <2>3. QED
    BY <1>1, <2>1, <2>2 DEF IInv, TypeInv
<1>4. ThreadInv' /\ ProgramInv' /\ StatusInv' /\ WordsInv'
  BY <1>1, <1>2 DEF IInv, TypeInv, ThreadInv, ProgramInv, StatusInv, WordsInv
<1>5. RanInv'
  BY <1>1 DEF IInv, TypeInv, StatusInv, RanInv
<1>6. QED
  BY <1>3, <1>4, <1>5 DEF IInv

LEMMA LoadProgramPreserves == IInv /\ LoadProgram => IInv'
<1> SUFFICES ASSUME IInv, LoadProgram PROVE IInv'
  OBVIOUS
<1> USE DEF LoadProgram, HostAt
<1>1. TypeInv'
  <2>1. sim' \in [running : BOOLEAN, stop : BOOLEAN, program : Nat]
    <3>1. host.cmd.kernel \in Nat
      BY DEF IInv, TypeInv, CommandType
    <3>2. QED
      BY <3>1 DEF IInv, TypeInv
  <2>2. host' \in [at : HostPlaces, i : 0..4, cmd : CommandType]
    BY DEF IInv, TypeInv, HostPlaces
  <2>3. NoCommand \in CommandType
    BY DEF NoCommand, CommandType, Absent
  <2>4. QED
    BY <2>1, <2>2, <2>3 DEF IInv, TypeInv, DeviceType, DeviceStart
<1>2. ThreadInv' /\ ProgramInv' /\ StatusInv'
  BY DEF IInv, TypeInv, DeviceType, HostPlaces, ThreadInv, ProgramInv, StatusInv, DeviceStart
<1>3. WordsInv'
  BY DEF IInv, TypeInv, HostPlaces, WordsInv, StatusInv, Agree, DeviceStart
<1>4. host'.cmd = host.cmd
  BY DEF IInv, TypeInv
<1>5. RanInv'
  BY <1>4, SameExecuted DEF IInv, TypeInv, HostPlaces, RanInv, StatusInv, Before, DeviceStart
<1>6. QED
  BY <1>1, <1>2, <1>3, <1>5 DEF IInv

LEMMA initDataMemoryPreserves == IInv /\ initDataMemory => IInv'
<1> SUFFICES ASSUME IInv, initDataMemory PROVE IInv'
  OBVIOUS
<1> USE DEF initDataMemory, HostAt
<1>1. TypeInv'
  BY DEF IInv, TypeInv, HostPlaces
<1>2. ThreadInv' /\ ProgramInv' /\ StatusInv'
  BY DEF IInv, TypeInv, DeviceType, HostPlaces, ThreadInv, ProgramInv, StatusInv
<1>3. WordsInv'
  BY DEF IInv, TypeInv, HostPlaces, WordsInv, StatusInv, Agree
<1>4. host'.cmd = host.cmd
  BY DEF IInv, TypeInv
<1>5. RanInv'
  BY <1>4, SameExecuted DEF IInv, TypeInv, HostPlaces, RanInv, StatusInv, Before
<1>6. QED
  BY <1>1, <1>2, <1>3, <1>5 DEF IInv

LEMMA restartProgramPreserves == IInv /\ restartProgram => IInv'
<1> SUFFICES ASSUME IInv, restartProgram PROVE IInv'
  OBVIOUS
<1> USE DEF restartProgram, HostAt
<1>1. TypeInv'
  BY DEF IInv, TypeInv, HostPlaces
<1>2. ThreadInv' /\ ProgramInv' /\ StatusInv'
  BY DEF IInv, TypeInv, DeviceType, HostPlaces, ThreadInv, ProgramInv, StatusInv
<1>3. WordsInv'
  BY DEF IInv, TypeInv, HostPlaces, WordsInv, StatusInv, Agree
<1>4. host'.cmd = host.cmd
  BY DEF IInv, TypeInv
<1>5. RanInv'
  BY <1>4, SameExecuted DEF IInv, TypeInv, HostPlaces, RanInv, StatusInv, Before
<1>6. QED
  BY <1>1, <1>2, <1>3, <1>5 DEF IInv

LEMMA WaitForRoomPreserves == IInv /\ WaitForRoom => IInv'
<1> SUFFICES ASSUME IInv, WaitForRoom PROVE IInv'
  OBVIOUS
<1> USE DEF WaitForRoom, HostAt
<1>1. TypeInv'
  BY DEF IInv, TypeInv, HostPlaces
<1>2. ThreadInv' /\ ProgramInv' /\ StatusInv'
  BY DEF IInv, TypeInv, DeviceType, HostPlaces, ThreadInv, ProgramInv, StatusInv
<1>3. WordsInv'
  BY DEF IInv, TypeInv, HostPlaces, WordsInv, StatusInv, Agree
<1>4. host'.cmd = host.cmd
  BY DEF IInv, TypeInv
<1>5. RanInv'
  BY <1>4, SameExecuted DEF IInv, TypeInv, HostPlaces, RanInv, StatusInv, Before
<1>6. QED
  BY <1>1, <1>2, <1>3, <1>5 DEF IInv

LEMMA WriteReadyPreserves == IInv /\ WriteReady => IInv'
<1> SUFFICES ASSUME IInv, WriteReady PROVE IInv'
  OBVIOUS
<1> USE DEF WriteReady, HostAt
<1>1. TypeInv'
  BY DEF IInv, TypeInv, HostPlaces
<1>2. ThreadInv' /\ ProgramInv' /\ StatusInv'
  BY DEF IInv, TypeInv, DeviceType, HostPlaces, ThreadInv, ProgramInv, StatusInv
<1>3. WordsInv'
  BY DEF IInv, TypeInv, HostPlaces, WordsInv, StatusInv, Agree
<1>4. host'.cmd = host.cmd
  BY DEF IInv, TypeInv
<1>5. RanInv'
  BY <1>4, SameExecuted DEF IInv, TypeInv, HostPlaces, RanInv, StatusInv, Before
<1>6. QED
  BY <1>1, <1>2, <1>3, <1>5 DEF IInv

LEMMA WaitFinishedPreserves == IInv /\ WaitFinished => IInv'
<1> SUFFICES ASSUME IInv, WaitFinished PROVE IInv'
  OBVIOUS
<1> USE DEF WaitFinished, HostAt
<1>1. TypeInv'
  BY DEF IInv, TypeInv, HostPlaces
<1>2. ThreadInv' /\ ProgramInv' /\ StatusInv'
  BY DEF IInv, TypeInv, DeviceType, HostPlaces, ThreadInv, ProgramInv, StatusInv
<1>3. WordsInv'
  BY DEF IInv, TypeInv, HostPlaces, WordsInv, StatusInv, Agree
<1>4. host'.cmd = host.cmd
  BY DEF IInv, TypeInv
<1>5. RanInv'
  BY <1>4, SameExecuted DEF IInv, TypeInv, HostPlaces, RanInv, StatusInv, Before
<1>6. QED
  BY <1>1, <1>2, <1>3, <1>5 DEF IInv

LEMMA FreeEntryPreserves == IInv /\ FreeEntry => IInv'
<1> SUFFICES ASSUME IInv, FreeEntry PROVE IInv'
  OBVIOUS
<1> USE DEF FreeEntry, HostAt
<1>1. TypeInv'
  BY DEF IInv, TypeInv, HostPlaces
<1>2. ThreadInv' /\ ProgramInv' /\ StatusInv'
  BY DEF IInv, TypeInv, DeviceType, HostPlaces, ThreadInv, ProgramInv, StatusInv
<1>3. WordsInv'
  BY DEF IInv, TypeInv, HostPlaces, WordsInv, StatusInv, Agree
<1>4. host'.cmd = host.cmd
  BY DEF IInv, TypeInv
<1>5. RanInv'
  BY <1>4, SameExecuted DEF IInv, TypeInv, HostPlaces, RanInv, StatusInv, Before
<1>6. QED
  BY <1>1, <1>2, <1>3, <1>5 DEF IInv

LEMMA CopyCommandPreserves == IInv /\ CopyCommand => IInv'
<1> SUFFICES ASSUME IInv, CopyCommand PROVE IInv'
  OBVIOUS
<1>1. /\ host.at = "copy" /\ host.i \in 0..4 /\ host.cmd \in CommandType /\ command \in CommandType
      /\ status = "FREE" /\ dev.at = "poll" /\ ran = <<>> /\ Launched(host.cmd)
      /\ host \in [at : HostPlaces, i : 0..4, cmd : CommandType]
      /\ Agree(host.i - 1, command, host.cmd) /\ sim.program = host.cmd.kernel
  BY DEF CopyCommand, IInv, TypeInv, StatusInv, WordsInv, RanInv, Before, ProgramInv
<1>2. Len(Fields) = 4
  BY DEF Fields
<1>3. /\ status' = "FREE" /\ UNCHANGED <<runs, dev, sim, thread, ran>>
      /\ host' \in [at : HostPlaces, i : 0..4, cmd : CommandType] /\ host'.cmd = host.cmd
      /\ host.i = 4 => host'.at = "ready"
      /\ host.i < 4 => host'.at = "copy" /\ host'.i = host.i + 1
  BY <1>1, <1>2 DEF CopyCommand, HostPlaces
<1>4. command' \in CommandType /\ Agree(host.i, command', host.cmd)
  <2>1. CASE host.i = 0
    BY <1>1, <2>1 DEF CopyCommand, Agree
  <2>2. CASE host.i # 0
    <3>1. command' = [command EXCEPT ![Fields[host.i]] = host.cmd[Fields[host.i]]] /\ host.i \in 1..4
      BY <1>1, <2>2 DEF CopyCommand
    <3>2. QED
      BY <1>1, <3>1, CopyWord
  <2>3. QED
    BY <2>1, <2>2
<1>5. TypeInv' /\ ThreadInv' /\ ProgramInv' /\ StatusInv'
  BY <1>1, <1>3, <1>4 DEF IInv, TypeInv, ThreadInv, ProgramInv, StatusInv
<1>6. WordsInv'
  <2>1. CASE host.i = 4
    <3>1. command' = host'.cmd
      BY <1>1, <1>3, <1>4, <2>1, AllWords
    <3>2. QED
      BY <1>1, <1>3, <2>1, <3>1 DEF WordsInv
  <2>2. CASE host.i < 4
    <3>1. host'.i - 1 = host.i
      BY <1>1, <1>3, <2>2
    <3>2. Agree(host'.i - 1, command', host'.cmd)
      BY <1>3, <1>4, <3>1
    <3>3. WordsInv'
      BY <1>1, <1>3, <2>2, <3>2 DEF WordsInv, Agree
    <3>4. QED
      BY <3>3
  <2>3. QED
    BY <1>1, <2>1, <2>2
<1>7. RanInv'
  BY <1>1, <1>3 DEF RanInv
<1>8. QED
  BY <1>5, <1>6, <1>7 DEF IInv
-----------------------------------------------------------------------------
(* The groups.                                                             *)

\* The loops of the device go through the groups of a launch in order, to their
\* end, whatever sizes stand beyond work_dim.
LEMMA LoopOrder ==
  ASSUME NEW cmd, Launched(cmd), NEW h \in Groups(cmd)
  PROVE  LET next == After(cmd, h) IN
         /\ next[1] < cmd.num_groups[1] =>
              /\ next \in Groups(cmd)
              /\ \A g \in Groups(cmd) : Earlier(g, next) <=> Earlier(g, h) \/ g = h
         /\ ~(next[1] < cmd.num_groups[1]) => \A g \in Groups(cmd) : Earlier(g, h) \/ g = h
<1> DEFINE n1 == cmd.num_groups[1]
           n2 == Extent(cmd, 2)
           n3 == Extent(cmd, 3)
           next == After(cmd, h)
<1>1. n1 \in Nat \ {0} /\ n2 \in Nat \ {0} /\ n3 \in Nat \ {0}
  BY DEF Launched, Extent
<1>2. \A g : g \in Groups(cmd) <=>
               /\ g = <<g[1], g[2], g[3]>>
               /\ g[1] \in 0..(n1 - 1) /\ g[2] \in 0..(n2 - 1) /\ g[3] \in 0..(n3 - 1)
  BY DEF Launched, Extent, Groups
<1>3. next = IF h[3] + 1 < n3 THEN <<h[1], h[2], h[3] + 1>>
             ELSE IF h[2] + 1 < n2 THEN <<h[1], h[2] + 1, 0>>
             ELSE <<h[1] + 1, 0, 0>>
  BY DEF After
<1> HIDE DEF n1, n2, n3, next
<1>4. /\ h = <<h[1], h[2], h[3]>>
      /\ h[1] \in 0..(n1 - 1) /\ h[2] \in 0..(n2 - 1) /\ h[3] \in 0..(n3 - 1)
  BY <1>2
<1>5. CASE h[3] + 1 < n3
  <2>1. next = <<h[1], h[2], h[3] + 1>>
    BY <1>3, <1>5
  <2>2. QED
    BY <1>1, <1>2, <1>4, <1>5, <2>1 DEF Earlier, next, n1
<1>6. CASE ~(h[3] + 1 < n3) /\ h[2] + 1 < n2
  <2>1. next = <<h[1], h[2] + 1, 0>>
    BY <1>3, <1>6
  <2>2. QED
    BY <1>1, <1>2, <1>4, <1>6, <2>1 DEF Earlier, next, n1
<1>7. CASE ~(h[3] + 1 < n3) /\ ~(h[2] + 1 < n2)
  <2>1. next = <<h[1] + 1, 0, 0>>
    BY <1>3, <1>7
  <2>2. QED
    BY <1>1, <1>2, <1>4, <1>7, <2>1 DEF Earlier, next, n1
<1>8. QED
  BY <1>5, <1>6, <1>7
-----------------------------------------------------------------------------
(* The device and the thread of the simulator.                             *)

DeviceStays == UNCHANGED <<host, runs, command, sim, thread>>

LEMMA WaitForCommandPreserves ==
  IInv /\ sim.running /\ wait_for_command /\ DeviceStays => IInv'
<1> SUFFICES ASSUME IInv, sim.running, wait_for_command, DeviceStays PROVE IInv'
  OBVIOUS
<1> USE DEF DeviceStays
<1>1. CASE dev.at = "poll"
  <2>1. /\ status = "READY" /\ dev' = [dev EXCEPT !.at = "take"] /\ UNCHANGED <<status, ran>>
    BY <1>1 DEF wait_for_command
  <2>2. host.at = "wait"
    BY <2>1 DEF IInv, TypeInv, StatusInv, HostPlaces
  <2>3. dev' \in DeviceType /\ dev'.at = "take" /\ dev'.cmd = dev.cmd
    BY <2>1 DEF IInv, TypeInv, DeviceType
  <2>4. TypeInv' /\ ThreadInv' /\ ProgramInv' /\ StatusInv'
    <3>1. TypeInv'
      BY <2>1, <2>3 DEF IInv, TypeInv
    <3>2. ThreadInv' /\ ProgramInv'
      BY DEF IInv, ThreadInv, ProgramInv
    <3>3. StatusInv'
      BY <2>1, <2>2, <2>3 DEF StatusInv
    <3>4. QED
      BY <3>1, <3>2, <3>3
  <2>5. WordsInv' /\ RanInv'
    BY <1>1, <2>1, <2>2, <2>3 DEF IInv, TypeInv, WordsInv, RanInv, Agree
  <2>6. QED
    BY <2>4, <2>5 DEF IInv
<1>2. CASE dev.at # "poll"
  <2>1. /\ dev.at = "take" /\ status' = "RUNNING" /\ dev' = [dev EXCEPT !.at = "read", !.i = 1]
        /\ UNCHANGED ran
    BY <1>2 DEF wait_for_command
  <2>2. host.at = "wait" /\ status = "READY" /\ ran = <<>>
    BY <2>1 DEF IInv, StatusInv, RanInv
  <2>3. dev' \in DeviceType /\ dev'.at = "read" /\ dev'.i = 1
    <3>1. dev \in DeviceType /\ 1 \in 1..5
      BY DEF IInv, TypeInv
    <3>2. QED
      BY <2>1, <3>1 DEF DeviceType
  <2>4. TypeInv' /\ ThreadInv' /\ ProgramInv'
    BY <2>1, <2>3 DEF IInv, TypeInv, ThreadInv, ProgramInv
  <2>5. StatusInv'
    BY <2>1, <2>2, <2>3 DEF StatusInv
  <2>6. WordsInv' /\ RanInv'
    BY <2>1, <2>2, <2>3 DEF IInv, WordsInv, RanInv, Agree
  <2>7. QED
    BY <2>4, <2>5, <2>6 DEF IInv
<1>3. QED
  BY <1>1, <1>2

\* The first group.
LEMMA FirstGroup ==
  ASSUME NEW cmd, Launched(cmd)
  PROVE  /\ <<0, 0, 0>> \in Groups(cmd)
         /\ {g \in Groups(cmd) : Earlier(g, <<0, 0, 0>>)} = {}
<1>1. <<0, 0, 0>> \in Groups(cmd)
  BY DEF Launched, Groups
<1>2. ASSUME NEW g \in Groups(cmd) PROVE ~Earlier(g, <<0, 0, 0>>)
  <2>1. g[1] \in Nat /\ g[2] \in Nat /\ g[3] \in Nat
    BY DEF Launched, Groups
  <2>2. QED
    BY <2>1 DEF Earlier
<1>3. QED
  BY <1>1, <1>2

LEMMA LaunchPreserves ==
  IInv /\ sim.running /\ tta_opencl_wg_launch /\ DeviceStays => IInv'
<1> SUFFICES ASSUME IInv, sim.running, tta_opencl_wg_launch, DeviceStays PROVE IInv'
  OBVIOUS
<1> DEFINE f == Fields[dev.i]
           c == [dev.cmd EXCEPT ![f] = command[f]]
           read == [dev EXCEPT !.cmd[f] = command[f], !.i = @ + 1]
<1>1. /\ dev.at = "read" /\ dev.i \in 1..4 /\ host.at = "wait" /\ status = "RUNNING" /\ ran = <<>>
      /\ command = host.cmd /\ Launched(host.cmd) /\ Agree(dev.i - 1, dev.cmd, command)
      /\ dev.cmd \in CommandType /\ command \in CommandType
      /\ dev \in DeviceType
  <2>1. /\ dev.at = "read" /\ host.at = "wait" /\ status = "RUNNING" /\ ran = <<>>
    BY DEF tta_opencl_wg_launch, IInv, StatusInv, RanInv
  <2>2. /\ dev.i \in 1..4 /\ command = host.cmd /\ Launched(host.cmd)
        /\ Agree(dev.i - 1, dev.cmd, command)
    BY <2>1 DEF IInv, WordsInv, ProgramInv
  <2>3. dev.cmd \in CommandType /\ command \in CommandType /\ dev \in DeviceType
    BY DEF IInv, TypeInv, DeviceType
  <2>4. QED
    BY <2>1, <2>2, <2>3
<1>2. UNCHANGED <<host, runs, command, sim, thread, status, ran>>
  BY DEF tta_opencl_wg_launch, DeviceStays
<1>3. c \in CommandType /\ Agree(dev.i, c, command)
  BY <1>1, CopyWord
<1>4. read.at = "read" /\ read.i = dev.i + 1 /\ read.cmd = c /\ read.group = dev.group
  BY <1>1 DEF DeviceType
<1>5. read = [dev EXCEPT !.cmd = c, !.i = dev.i + 1]
  BY <1>1 DEF DeviceType
<1>6. dev' = IF dev.i < 4 THEN read ELSE [read EXCEPT !.at = "execute", !.group = <<0, 0, 0>>]
  <2>1. Len(Fields) = 4
    BY DEF Fields
  <2>2. QED
    BY <2>1 DEF tta_opencl_wg_launch
<1> HIDE DEF c, f, read
<1>7. read \in DeviceType
  <2>1. dev.i + 1 \in 1..5
    BY <1>1
  <2>2. QED
    BY <1>1, <1>3, <1>5, <2>1 DEF DeviceType
<1>8. CASE dev.i < 4
  <2>1. dev' = read
    BY <1>6, <1>8
  <2>2. TypeInv' /\ ThreadInv' /\ ProgramInv' /\ StatusInv'
    BY <1>1, <1>2, <1>4, <1>7, <2>1 DEF IInv, TypeInv, ThreadInv, ProgramInv, StatusInv
  <2>3. WordsInv'
    <3>1. dev'.i \in 1..4 /\ dev'.i - 1 = dev.i
      BY <1>1, <1>4, <1>8, <2>1
    <3>2. Agree(dev'.i - 1, dev'.cmd, command')
      BY <1>2, <1>3, <1>4, <2>1, <3>1
    <3>3. WordsInv'
      BY <1>1, <1>2, <1>4, <2>1, <3>1, <3>2 DEF WordsInv, Agree
    <3>4. QED
      BY <3>3
  <2>4. RanInv'
    BY <1>1, <1>2, <1>4, <2>1 DEF RanInv
  <2>5. QED
    BY <2>2, <2>3, <2>4 DEF IInv
<1>9. CASE dev.i = 4
  <2>1. /\ dev' \in DeviceType
        /\ dev'.at = "execute" /\ dev'.group = <<0, 0, 0>> /\ dev'.cmd = c
    <3>1. dev' = [read EXCEPT !.at = "execute", !.group = <<0, 0, 0>>]
      BY <1>6, <1>9
    <3>2. QED
      BY <1>4, <1>7, <3>1 DEF DeviceType
  <2>2. TypeInv' /\ ThreadInv' /\ ProgramInv' /\ StatusInv'
    BY <1>1, <1>2, <2>1 DEF IInv, TypeInv, ThreadInv, ProgramInv, StatusInv
  <2>3. c = command
    BY <1>1, <1>3, <1>9, AllWords
  <2>4. WordsInv'
    BY <1>1, <1>2, <2>1, <2>3 DEF WordsInv
  <2>5. RanInv'
    <3>1. Executed({})'
      <4>1. ran' = <<>>
        BY <1>1, <1>2
      <4>2. QED
        BY <4>1, FS_EmptySet DEF Executed
    <3>2. dev'.group \in Groups(host'.cmd) /\ {g \in Groups(host'.cmd) : Earlier(g, dev'.group)} = {}
      BY <1>1, <1>2, <2>1, FirstGroup
    <3>3. QED
      BY <1>1, <1>2, <2>1, <3>1, <3>2 DEF RanInv
  <2>6. QED
    BY <2>2, <2>4, <2>5 DEF IInv
<1>10. QED
  BY <1>1, <1>8, <1>9

\* The next group is executed.
LEMMA OneMore ==
  ASSUME IInv, dev.at = "execute", tta_opencl_wg_execute, UNCHANGED host
  PROVE  LET S == {g \in Groups(host.cmd) : Earlier(g, dev.group)}
         IN  /\ \A U : U = S \cup {dev.group} => Executed(U)'
             /\ ran' \in Seq([kernel : Nat, args : Nat, group : Nat \X Nat \X Nat])
<1> DEFINE S == {g \in Groups(host.cmd) : Earlier(g, dev.group)}
           h == dev.group
           e == [kernel |-> dev.cmd.kernel, args |-> dev.cmd.args, group |-> dev.group]
           T == [kernel : Nat, args : Nat, group : Nat \X Nat \X Nat]
<1>1. Executed(S) /\ dev.cmd = host.cmd /\ h \in Groups(host.cmd)
  BY DEF IInv, RanInv, WordsInv
<1>2. e \in T
  <2>1. host.cmd \in CommandType /\ dev.group \in Nat \X Nat \X Nat
    BY DEF IInv, TypeInv, DeviceType
  <2>2. QED
    BY <1>1, <2>1 DEF CommandType
<1>3. ran' = Append(ran, e) /\ ran \in Seq(T)
  BY DEF tta_opencl_wg_execute, IInv, TypeInv
<1>4. e.kernel = host.cmd.kernel /\ e.args = host.cmd.args /\ e.group = h
  BY <1>1
<1>5. h \notin S
  <2>1. h \in Nat \X Nat \X Nat
    BY DEF IInv, TypeInv, DeviceType
  <2>2. ~Earlier(h, h)
    BY <2>1 DEF Earlier
  <2>3. QED
    BY <2>2
<1> HIDE DEF e, S, T, h
<1>6. /\ DOMAIN ran' = DOMAIN ran \cup {Len(ran) + 1} /\ Len(ran') = Len(ran) + 1
      /\ ran'[Len(ran) + 1] = e /\ \A p \in DOMAIN ran : ran'[p] = ran[p]
      /\ ran' \in Seq(T)
  BY <1>2, <1>3
<1>7. {ran'[p].group : p \in DOMAIN ran'} = S \cup {h}
  <2>1. {ran[p].group : p \in DOMAIN ran} = S
    BY <1>1 DEF Executed
  <2>2. QED
    BY <1>4, <1>6, <2>1
<1>8. IsFiniteSet(S \cup {h}) /\ Cardinality(S \cup {h}) = Len(ran) + 1
  BY <1>1, <1>5, FS_AddElement DEF Executed
<1>9. \A p \in DOMAIN ran' : ran'[p].kernel = host'.cmd.kernel /\ ran'[p].args = host'.cmd.args
  BY <1>1, <1>4, <1>6 DEF Executed
<1>10. \A U : U = S \cup {h} => Executed(U)'
  BY <1>6, <1>7, <1>8, <1>9 DEF Executed
<1>11. QED
  BY <1>6, <1>10 DEF S, T, h

LEMMA ExecutePreserves ==
  IInv /\ sim.running /\ tta_opencl_wg_execute /\ DeviceStays => IInv'
<1> SUFFICES ASSUME IInv, sim.running, tta_opencl_wg_execute, DeviceStays PROVE IInv'
  OBVIOUS
<1> DEFINE G == Groups(host.cmd)
           h == dev.group
           next == After(dev.cmd, h)
<1>1. /\ dev.at = "execute" /\ host.at = "wait" /\ status = "RUNNING" /\ dev.cmd = host.cmd
      /\ command = host.cmd
      /\ Launched(host.cmd) /\ h \in G /\ dev \in DeviceType
  <2>1. dev.at = "execute" /\ host.at = "wait" /\ status = "RUNNING" /\ dev \in DeviceType
    BY DEF tta_opencl_wg_execute, IInv, StatusInv, TypeInv
  <2>2. QED
    BY <2>1 DEF IInv, WordsInv, ProgramInv, RanInv
<1>2. UNCHANGED <<host, runs, command, sim, thread, status>>
  BY DEF tta_opencl_wg_execute, DeviceStays
<1>3. dev' = IF next[1] < dev.cmd.num_groups[1] THEN [dev EXCEPT !.group = next]
             ELSE [dev EXCEPT !.at = "finish"]
  BY DEF tta_opencl_wg_execute
<1>4. /\ ran' \in Seq([kernel : Nat, args : Nat, group : Nat \X Nat \X Nat])
      /\ \A U : U = {g \in G : Earlier(g, h)} \cup {h} => Executed(U)'
  BY <1>1, <1>2, OneMore
<1>5. /\ next[1] < host.cmd.num_groups[1] =>
           next \in G /\ \A g \in G : Earlier(g, next) <=> Earlier(g, h) \/ g = h
      /\ ~(next[1] < host.cmd.num_groups[1]) => \A g \in G : Earlier(g, h) \/ g = h
  BY <1>1, LoopOrder
<1>6. G \subseteq Nat \X Nat \X Nat
  BY <1>1 DEF Launched, Groups
<1> HIDE DEF next
<1>7. CASE next[1] < host.cmd.num_groups[1]
  <2>1. dev' = [dev EXCEPT !.group = next] /\ next \in Nat \X Nat \X Nat
    BY <1>1, <1>3, <1>5, <1>6, <1>7
  <2>2. dev' \in DeviceType /\ dev'.at = "execute" /\ dev'.group = next /\ dev'.cmd = host.cmd
    BY <1>1, <2>1 DEF DeviceType
  <2>3. TypeInv' /\ ThreadInv' /\ ProgramInv' /\ StatusInv'
    BY <1>1, <1>2, <1>4, <2>2 DEF IInv, TypeInv, ThreadInv, ProgramInv, StatusInv
  <2>4. WordsInv'
    BY <1>1, <1>2, <2>2 DEF WordsInv
  <2>5. {g \in G : Earlier(g, next)} = {g \in G : Earlier(g, h)} \cup {h}
    BY <1>1, <1>5, <1>7
  <2>6. \A U : U = {g \in G : Earlier(g, next)} => Executed(U)'
    BY <1>4, <2>5
  <2>7. Executed({g \in Groups(host.cmd) : Earlier(g, dev.group)})'
    <3>1. {g \in Groups(host'.cmd) : Earlier(g, dev'.group)} = {g \in G : Earlier(g, next)}
      BY <1>2, <2>2
    <3>2. QED
      BY <2>6, <3>1 DEF Executed
  <2>8. RanInv'
    BY <1>1, <1>2, <1>5, <1>7, <2>2, <2>7 DEF RanInv, Before
  <2>9. QED
    BY <2>3, <2>4, <2>8 DEF IInv
<1>8. CASE ~(next[1] < host.cmd.num_groups[1])
  <2>1. dev' = [dev EXCEPT !.at = "finish"]
    BY <1>1, <1>3, <1>8
  <2>2. dev' \in DeviceType /\ dev'.at = "finish" /\ dev'.cmd = host.cmd
    BY <1>1, <2>1 DEF DeviceType
  <2>3. TypeInv' /\ ThreadInv' /\ ProgramInv' /\ StatusInv'
    BY <1>1, <1>2, <1>4, <2>2 DEF IInv, TypeInv, ThreadInv, ProgramInv, StatusInv
  <2>4. WordsInv'
    BY <1>1, <1>2, <2>2 DEF WordsInv
  <2>5. G = {g \in G : Earlier(g, h)} \cup {h}
    BY <1>1, <1>5, <1>8
  <2>6. \A U : U = G => Executed(U)'
    BY <1>4, <2>5
  <2>7. Executed(Groups(host.cmd))'
    <3>1. Groups(host'.cmd) = G
      BY <1>2
    <3>2. QED
      BY <2>6, <3>1 DEF Executed
  <2>8. RanInv'
    BY <1>1, <1>2, <2>2, <2>7 DEF RanInv, Before
  <2>9. QED
    BY <2>3, <2>4, <2>8 DEF IInv
<1>9. QED
  BY <1>7, <1>8

LEMMA FinishPreserves == IInv /\ sim.running /\ Finish /\ DeviceStays => IInv'
<1> SUFFICES ASSUME IInv, sim.running, Finish, DeviceStays PROVE IInv'
  OBVIOUS
<1>1. /\ dev.at = "finish" /\ host.at = "wait" /\ dev \in DeviceType
      /\ status' = "FINISHED" /\ dev' = [dev EXCEPT !.at = "poll"]
      /\ UNCHANGED <<host, runs, command, sim, thread, ran>>
  BY DEF Finish, DeviceStays, IInv, StatusInv, TypeInv
<1>2. dev' \in DeviceType /\ dev'.at = "poll"
  BY <1>1 DEF DeviceType
<1>3. TypeInv' /\ ThreadInv' /\ ProgramInv' /\ StatusInv'
  BY <1>1, <1>2 DEF IInv, TypeInv, ThreadInv, ProgramInv, StatusInv
<1>4. WordsInv'
  BY <1>1, <1>2 DEF IInv, WordsInv
<1>5. RanInv'
  <2>1. Executed(Groups(host.cmd))
    BY <1>1 DEF IInv, RanInv
  <2>2. Executed(Groups(host.cmd))'
    BY <1>1, <2>1, SameExecuted
  <2>3. QED
    BY <1>1, <1>2, <2>2 DEF RanInv, Before
<1>6. QED
  BY <1>3, <1>4, <1>5 DEF IInv

LEMMA ThreadPreserves == IInv /\ pocl_ttasim_thread => IInv'
<1> SUFFICES ASSUME IInv, pocl_ttasim_thread PROVE IInv'
  OBVIOUS
<1>1. UNCHANGED <<host, runs, status, command, dev, ran>>
  BY DEF pocl_ttasim_thread
<1>2. WordsInv'
  BY <1>1 DEF IInv, WordsInv, Agree
<1>3. RanInv'
  BY <1>1, SameExecuted DEF IInv, RanInv
<1>4. CASE SimStops
  <2>1. /\ sim.stop /\ sim' = [sim EXCEPT !.running = FALSE, !.stop = FALSE]
        /\ thread' = "returned" /\ host.at = "load"
    BY <1>4 DEF SimStops, IInv, ThreadInv
  <2>2. sim' \in [running : BOOLEAN, stop : BOOLEAN, program : Nat] /\ ~sim'.running /\ ~sim'.stop
    BY <2>1 DEF IInv, TypeInv
  <2>3. TypeInv' /\ ThreadInv' /\ ProgramInv' /\ StatusInv'
    BY <1>1, <2>1, <2>2 DEF IInv, TypeInv, ThreadInv, ProgramInv, StatusInv
  <2>4. QED
    BY <1>2, <1>3, <2>3 DEF IInv
<1>5. CASE SimWaits
  <2>1. TypeInv' /\ ThreadInv' /\ ProgramInv' /\ StatusInv'
    BY <1>1, <1>5 DEF SimWaits, IInv, TypeInv, ThreadInv, ProgramInv, StatusInv
  <2>2. QED
    BY <1>2, <1>3, <2>1 DEF IInv
<1>6. QED
  BY <1>4, <1>5 DEF pocl_ttasim_thread

LEMMA UnchangedInv == IInv /\ UNCHANGED vars => IInv'
<1> SUFFICES ASSUME IInv, UNCHANGED vars PROVE IInv'
  OBVIOUS
<1> USE DEF vars
<1>1. TypeInv' /\ ThreadInv' /\ ProgramInv' /\ StatusInv'
  BY DEF IInv, TypeInv, ThreadInv, ProgramInv, StatusInv
<1>2. WordsInv'
  BY DEF IInv, WordsInv, Agree
<1>3. RanInv'
  BY SameExecuted DEF IInv, RanInv
<1>4. QED
  BY <1>1, <1>2, <1>3 DEF IInv
-----------------------------------------------------------------------------
(* The theorems.                                                           *)

LEMMA NextInv == IInv /\ [Next]_vars => IInv'
<1> SUFFICES ASSUME IInv, [Next]_vars PROVE IInv'
  OBVIOUS
<1>1. CASE Host
  BY <1>1, RunPreserves, LoadProgramPreserves, initDataMemoryPreserves, restartProgramPreserves,
     WaitForRoomPreserves, CopyCommandPreserves, WriteReadyPreserves, WaitFinishedPreserves,
     FreeEntryPreserves DEF Host
<1>2. CASE Device
  BY <1>2, WaitForCommandPreserves, LaunchPreserves, ExecutePreserves, FinishPreserves
     DEF Device, DeviceStays
<1>3. CASE pocl_ttasim_thread
  BY <1>3, ThreadPreserves
<1>4. CASE UNCHANGED vars
  BY <1>4, UnchangedInv
<1>5. QED
  BY <1>1, <1>2, <1>3, <1>4 DEF Next

\* The invariant of the launches on a TCE device.
THEOREM DeviceInvariant == Spec => []IInv
<1>1. Init => IInv
  BY InitInv
<1>2. IInv /\ [Next]_vars => IInv'
  BY NextInv
<1>3. QED
  BY <1>1, <1>2, PTL DEF Spec

\* The command object changes hands by its status word: a device that is being
\* simulated works on a command only while the driver waits for it, with the
\* program of that launch, and the driver writes words only while the object is
\* free.
THEOREM CommandHandedOver == Spec => []HandedOver
<1>1. IInv => HandedOver
  BY DEF IInv, StatusInv, ProgramInv, HandedOver
<1>2. QED
  BY <1>1, DeviceInvariant, PTL

\* When the driver sees FINISHED the device has executed every group of this
\* launch once, with this launch's kernel and arguments, for any number of
\* launches of any shapes and any interleaving of driver, device and simulator.
THEOREM LaunchExecuted == Spec => []LaunchComplete
<1>1. IInv => LaunchComplete
  BY DEF IInv, StatusInv, RanInv, Executed, LaunchComplete
<1>2. QED
  BY <1>1, DeviceInvariant, PTL
=============================================================================
