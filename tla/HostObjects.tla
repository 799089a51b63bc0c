---------------------------- MODULE HostObjects ----------------------------
(***************************************************************************)
(* The objects a client creates before it can launch anything: the device  *)
(* table and the HSA runtime behind it (clGetDeviceIDs.c, devices.c,       *)
(* clReleaseDevice.c), contexts (clCreateContext*.c, clReleaseContext.c),  *)
(* programs and their executables (clCreateProgramWith*.c,                 *)
(* clBuildProgram.c, clReleaseProgram.c) and kernels (clCreateKernel.c,    *)
(* clReleaseKernel.c), in the build with HSA_RUNTIME.                      *)
(*                                                                         *)
(* A kernel holds a reference of its program, a program one of its         *)
(* context; a program made of source uses the array of devices of its      *)
(* context.  A client may release its handles in any order, and has only   *)
(* the handles it was returned.  It serialises the calls on one program,   *)
(* whose list of kernels has no lock: a call is one step.                  *)
(*                                                                         *)
(* A failing HSA call ends the process (check in pocl_cl.h), so HSA calls  *)
(* succeed here.  All objects are in one variable, h, that the functions   *)
(* transform: a release that releases another object is their composition. *)
(***************************************************************************)
EXTENDS Integers, FiniteSets, Sequences, SequencesExt, FiniteSetsExt

CONSTANTS
  Contexts, Programs, Kernels,   \* bound: the handles that may be created
  MaxHeld,                       \* bound: references the client holds on one object
  None                           \* NULL

ASSUME HandlesAssumption == /\ Contexts \cap Programs = {} /\ Contexts \cap Kernels = {}
                            /\ Programs \cap Kernels = {}
                            /\ None \notin Contexts \cup Programs \cup Kernels
ASSUME HeldAssumption == MaxHeld \in Nat \ {0}

VARIABLES h,      \* the objects
          held,   \* the references the client owns
          known   \* the devices clGetDeviceIDs has returned

vars == <<h, held, known>>

Objects == Contexts \cup Programs \cup Kernels

\* The drivers, with their type; a type is a set of flags.
Devices == {"pthread", "hsa"}
TypeOf == [pthread |-> {"CPU"}, hsa |-> {"GPU", "DEFAULT"}]
IsGPU(d) == "GPU" \in TypeOf[d]
ALL == {"CPU", "GPU", "DEFAULT"}
DeviceTypes == {{"CPU"}, {"GPU"}, {"DEFAULT"}, ALL}

\* Lists of devices a client may pass.
Lists(D) == {<<d>> : d \in D} \cup {<<d, e>> : d, e \in D}
Distinct(D) == {l \in Lists(D) : IsInjective(l)}

NoContext == [st |-> "none", ref |-> 0, valid |-> FALSE, devs |-> <<>>]

\* binaries: NULL, live or freed, and the device each one was built for.  dirs:
\* the device directories in temp_dir.  built: the devices the binaries were made
\* for, in order.
NoProgram == [st |-> "none", ref |-> 0, ctx |-> None, devs |-> <<>>, source |-> FALSE,
              binaries |-> [st |-> "null", of |-> <<>>], dirs |-> {}, hsaProgram |-> FALSE,
              built |-> <<>>, kernels |-> <<>>]

\* from: the binary that kernel.bc of each device is a copy of.
NoKernel == [st |-> "none", ref |-> 0, prog |-> None, from |-> <<>>]

\* hw: how often the HSA runtime was started and not shut down, and the state of
\* the devices.
Init ==
  /\ h = [table |-> <<>>,
          hw |-> [runtime |-> 0, dev |-> [d \in Devices |-> [ref |-> 0, isHSAinit |-> FALSE]]],
          ctx |-> [c \in Contexts |-> NoContext], prog |-> [p \in Programs |-> NoProgram],
          kern |-> [k \in Kernels |-> NoKernel]]
  /\ held = [o \in Objects |-> 0]
  /\ known = {}

Created(o) == held' = [held EXCEPT ![o] = 1] /\ UNCHANGED known
Retained(o) == held' = [held EXCEPT ![o] = @ + 1] /\ UNCHANGED known
Dropped(o) == held' = [held EXCEPT ![o] = @ - 1] /\ UNCHANGED known
Failed == UNCHANGED <<held, known>>
-----------------------------------------------------------------------------
(* Devices.                                                                *)

\* The table is made by the first call, for the type that call asks for.
pocl_init_devices(table, type) ==
  IF table # <<>> THEN table
  ELSE IF type \in {{"GPU"}, {"DEFAULT"}} THEN <<"hsa">>
  ELSE IF type = {"CPU"} THEN <<"pthread">>
  ELSE <<"pthread", "hsa">>

\* The devices of the table that have the type, in its order.
Matching(table, type) ==
  LET among[n \in 0..Len(table)] ==
        IF n = 0 THEN <<>>
        ELSE IF TypeOf[table[n]] \cap type # {} THEN Append(among[n - 1], table[n])
        ELSE among[n - 1]
  IN  among[Len(table)]

hsa_init(hw, d) ==
  IF hw.dev[d].isHSAinit THEN hw
  ELSE [hw EXCEPT !.runtime = @ + 1, !.dev[d].isHSAinit = TRUE]

InitFound(hw, list) ==
  LET init(t, d) == IF TypeOf[d] = {"GPU", "DEFAULT"} THEN hsa_init(t, d) ELSE t
  IN  FoldLeft(init, hw, list)

clGetDeviceIDs(type) ==
  LET table == pocl_init_devices(h.table, type)
      found == Matching(table, type)
  IN  /\ h' = [h EXCEPT !.table = table, !.hw = InitFound(@, found)]
      /\ known' = known \cup ToSet(found)
      /\ UNCHANGED held

RetainDevice(hw, d) == [hw EXCEPT !.dev[d].ref = @ + 1]
RetainAll(hw, list) == FoldLeft(RetainDevice, hw, list)

\* The runtime is shut down by the first release, whatever the count.
ReleaseDevice(hw, d) ==
  IF IsGPU(d) /\ hw.dev[d].isHSAinit
  THEN [hw EXCEPT !.dev[d].ref = @ - 1, !.runtime = @ - 1, !.dev[d].isHSAinit = FALSE]
  ELSE [hw EXCEPT !.dev[d].ref = @ - 1]
ReleaseAll(hw, list) == FoldLeft(ReleaseDevice, hw, list)
-----------------------------------------------------------------------------
(* Contexts.                                                               *)

NewContext(devs) == [st |-> "live", ref |-> 1, valid |-> TRUE, devs |-> devs]

\* The devices exist, so the table does.  A list may name a device twice.
clCreateContext(c, list) ==
  /\ h.ctx[c].st = "none"
  /\ h' = [h EXCEPT !.hw = RetainAll(@, list), !.ctx[c] = NewContext(list)]
  /\ Created(c)

\* The list has a NULL behind the devices: those stay retained.
ContextRefused(c, list) ==
  /\ h.ctx[c].st = "none"
  /\ h' = [h EXCEPT !.hw = RetainAll(@, list), !.ctx[c].st = "freed"]
  /\ Failed

\* The runtime is initialised once per device of the context, hsa or not.
InitAndRetain(hw, type, list) ==
  LET init(t, d) == RetainDevice(IF type \cap {"GPU", "DEFAULT"} # {} THEN hsa_init(t, d) ELSE t, d)
  IN  FoldLeft(init, hw, list)

\* Without a device, a dummy context is returned with the error.
clCreateContextFromType(c, type) ==
  LET table == pocl_init_devices(h.table, type)
      devs == Matching(table, type)
  IN  /\ h.ctx[c].st = "none"
      /\ h' = [h EXCEPT !.table = table, !.hw = InitAndRetain(@, type, devs),
                        !.ctx[c] = [NewContext(devs) EXCEPT !.valid = devs # <<>>]]
      /\ Created(c)

clRetainContext(c) ==
  /\ h.ctx[c].valid
  /\ h' = [h EXCEPT !.ctx[c].ref = @ + 1]
  /\ Retained(c)

\* A dummy context is refused, and stays allocated.
clReleaseContext(c) ==
  LET s == [h EXCEPT !.ctx[c].ref = @ - 1]
  IN  /\ h' = IF ~h.ctx[c].valid THEN h
              ELSE IF s.ctx[c].ref > 0 THEN s
              ELSE [s EXCEPT !.hw = ReleaseAll(@, s.ctx[c].devs), !.ctx[c].st = "freed"]
      /\ Dropped(c)
-----------------------------------------------------------------------------
(* Programs.                                                               *)

RetainContext(s, c) == [s EXCEPT !.ctx[c].ref = @ + 1]

clCreateProgramWithSource(p, c) ==
  /\ h.prog[p].st = "none" /\ h.ctx[c].valid
  /\ h' = [RetainContext(h, c) EXCEPT
             !.prog[p] = [NoProgram EXCEPT !.st = "live", !.ref = 1, !.ctx = c,
                                           !.devs = h.ctx[c].devs, !.source = TRUE]]
  /\ Created(p)

\* Mistaken form: the context is not retained.
ProgramWithBinaryUnretained(p, c, list) ==
  /\ h.prog[p].st = "none" /\ h.ctx[c].valid
  /\ IsPrefix(list, h.ctx[c].devs)
  /\ h' = [h EXCEPT
             !.prog[p] = [NoProgram EXCEPT !.st = "live", !.ref = 1, !.ctx = c,
                                           !.devs = list, !.built = list,
                                           !.binaries = [st |-> "live", of |-> list]]]
  /\ Created(p)

\* device_list[i] is compared with context->devices[i] only: a list that is not
\* a prefix of the devices of the context is refused.
clCreateProgramWithBinary(p, c, list) ==
  /\ h.prog[p].st = "none" /\ h.ctx[c].valid
  /\ IsPrefix(list, h.ctx[c].devs)
  /\ h' = [RetainContext(h, c) EXCEPT
             !.prog[p] = [NoProgram EXCEPT !.st = "live", !.ref = 1, !.ctx = c,
                                           !.devs = list, !.built = list,
                                           !.binaries = [st |-> "live", of |-> list]]]
  /\ Created(p)

clRetainProgram(p) == h' = [h EXCEPT !.prog[p].ref = @ + 1] /\ Retained(p)

CPUs(list) == {d \in ToSet(list) : ~IsGPU(d)}
GPUs(list) == {d \in ToSet(list) : IsGPU(d)}
MayBuild(p) == h.prog[p].kernels = <<>>
Real(p, list) == IF list = <<>> THEN h.prog[p].devs ELSE list

\* The binary of a GPU is read from binary_file_name, which a CPU before it in
\* the list has changed.
BinaryFile(list, i) ==
  LET before == {j \in 1..i : ~IsGPU(list[j])}
  IN  IF IsGPU(list[i]) /\ before # {} THEN list[Max(before)] ELSE list[i]

\* From source: all GPUs of the program are compiled, then the devices listed.
BuildSource(p, list) ==
  LET real == Real(p, list)
  IN  /\ MayBuild(p) /\ h.prog[p].source /\ h.prog[p].binaries.st = "null"
      /\ h' = [h EXCEPT
                 !.prog[p].hsaProgram = @ \/ GPUs(h.prog[p].devs) # {},
                 !.prog[p].dirs = @ \cup CPUs(real),
                 !.prog[p].built = real,
                 !.prog[p].binaries = [st |-> "live", of |-> [i \in DOMAIN real |-> BinaryFile(real, i)]]]
      /\ Failed

\* Mistaken form: the pointer is left as it is.
BuildFailsDangling(p, list) ==
  LET real == Real(p, list)
  IN  /\ MayBuild(p) /\ h.prog[p].source /\ h.prog[p].binaries.st = "null"
      /\ \E i \in {j \in DOMAIN real : ~IsGPU(real[j])} :
           h' = [h EXCEPT !.prog[p].hsaProgram = @ \/ GPUs(h.prog[p].devs) # {},
                          !.prog[p].dirs = @ \cup CPUs(SubSeq(real, 1, i)),
                          !.prog[p].binaries.st = "freed"]
      /\ Failed

\* The compilation for a CPU fails (ERROR_CLEAN_BINARIES).
BuildFails(p, list) ==
  LET real == Real(p, list)
  IN  /\ MayBuild(p) /\ h.prog[p].source /\ h.prog[p].binaries.st = "null"
      /\ \E i \in {j \in DOMAIN real : ~IsGPU(real[j])} :
           h' = [h EXCEPT !.prog[p].hsaProgram = @ \/ GPUs(h.prog[p].devs) # {},
                          !.prog[p].dirs = @ \cup CPUs(SubSeq(real, 1, i)),
                          !.prog[p].binaries.st = "null"]
      /\ Failed

\* From binaries: the directory of a CPU must be new, or the binaries are dropped
\* (ERROR_CLEAN_PROGRAM).  A second build always is of this kind.
BuildBinary(p, list) ==
  LET real == Real(p, list)
      old == {i \in DOMAIN real : real[i] \in h.prog[p].dirs \/ real[i] \in CPUs(SubSeq(real, 1, i - 1))}
      done == IF old = {} THEN real ELSE SubSeq(real, 1, (CHOOSE i \in old : \A j \in old : i <= j) - 1)
  IN  /\ MayBuild(p) /\ h.prog[p].binaries.st = "live"
      /\ h' = [h EXCEPT
                 !.prog[p].hsaProgram = @ \/ GPUs(done) # {},
                 !.prog[p].dirs = @ \cup CPUs(done),
                 !.prog[p].binaries = IF old = {} THEN @ ELSE [st |-> "null", of |-> <<>>]]
      /\ Failed

clBuildProgram(p, list) == BuildSource(p, list) \/ BuildFails(p, list) \/ BuildBinary(p, list)

\* The count of the context goes down, and nothing else happens when it is 0.
ReleaseProgram(s, p) ==
  LET t == [s EXCEPT !.prog[p].ref = @ - 1]
      orphans == ToSet(t.prog[p].kernels)
      c == t.prog[p].ctx
  IN  IF t.prog[p].ref > 0 THEN t
      ELSE [t EXCEPT !.prog[p].st = "freed", !.prog[p].binaries.st = "null", !.ctx[c].ref = @ - 1,
                     !.kern = [k \in Kernels |-> IF k \in orphans THEN [@[k] EXCEPT !.prog = None]
                                                 ELSE @[k]]]

clReleaseProgram(p) == h' = ReleaseProgram(h, p) /\ Dropped(p)
-----------------------------------------------------------------------------
(* Kernels.                                                                *)

\* Mistaken form: the first binary is used for every device.
KernelBinaryFirst(prog, i) ==
  IF IsGPU(prog.devs[i]) \/ prog.devs[i] \notin prog.dirs THEN None
  ELSE prog.binaries.of[1]

\* kernel.bc of the i-th device: a CPU the program was not built for is passed
\* over; binaries[i] may be beyond the list of the last build.
KernelBinary(prog, i) ==
  IF IsGPU(prog.devs[i]) \/ prog.devs[i] \notin prog.dirs THEN None
  ELSE IF i \in DOMAIN prog.binaries.of THEN prog.binaries.of[i] ELSE "beyond"

\* What the descriptor of the kernel is read from must exist: the BRIG module of
\* a GPU, and of the first device the dlhandle of some CPU or the source.
HasDescriptor(prog) ==
  /\ GPUs(prog.devs) # {} => prog.hsaProgram
  /\ IsGPU(prog.devs[1]) \/ CPUs(prog.devs) \cap prog.dirs # {}

\* The kernel is retained once more for each device but the first.
clCreateKernel(k, p) ==
  LET prog == h.prog[p]
  IN  /\ h.kern[k].st = "none" /\ prog.binaries.st = "live" /\ HasDescriptor(prog)
      /\ h' = [h EXCEPT
                 !.prog[p].kernels = <<k>> \o @,
                 !.prog[p].ref = @ + 1,
                 !.kern[k] = [st |-> "live", ref |-> Len(prog.devs), prog |-> p,
                              from |-> [i \in DOMAIN prog.devs |-> KernelBinary(prog, i)]]]
      /\ Created(k)

\* A kernel of an unknown name (ERROR_CLEAN_KERNEL).
KernelRefused(k, p) ==
  /\ h.kern[k].st = "none" /\ h.prog[p].binaries.st = "live"
  /\ CPUs(h.prog[p].devs) \cap h.prog[p].dirs # {}
  /\ h' = [h EXCEPT !.kern[k].st = "freed"]
  /\ Failed

clRetainKernel(k) == h' = [h EXCEPT !.kern[k].ref = @ + 1] /\ Retained(k)

\* Where the search for a kernel in the list of its program stops.
Position(list, k) ==
  CHOOSE i \in DOMAIN list : list[i] = k /\ \A j \in 1..(i - 1) : list[j] # k

clReleaseKernel(k) ==
  LET s == [h EXCEPT !.kern[k].ref = @ - 1]
      p == s.kern[k].prog
      listed == p # None /\ k \in ToSet(s.prog[p].kernels)
      unlinked == [s EXCEPT !.prog[p].kernels = RemoveAt(@, Position(@, k))]
  IN  /\ h' = IF s.kern[k].ref > 0 \/ (p # None /\ ~listed) THEN s
              ELSE [IF listed THEN ReleaseProgram(unlinked, p) ELSE s EXCEPT !.kern[k].st = "freed"]
      /\ Dropped(k)
-----------------------------------------------------------------------------
(* The client.                                                             *)

Owns(o) == held[o] > 0
MayRetain(o) == Owns(o) /\ held[o] < MaxHeld

ClientDevices ==
  \/ \E type \in DeviceTypes : clGetDeviceIDs(type)
  \/ \E c \in Contexts, list \in Lists(known) : clCreateContext(c, list) \/ ContextRefused(c, list)
  \/ \E c \in Contexts, type \in DeviceTypes : clCreateContextFromType(c, type)
  \/ \E c \in Contexts : \/ MayRetain(c) /\ clRetainContext(c)
                         \/ Owns(c) /\ clReleaseContext(c)

ClientPrograms ==
  \E p \in Programs :
    \/ \E c \in Contexts :
         /\ Owns(c)
         /\ \/ clCreateProgramWithSource(p, c)
            \/ \E list \in Distinct(ToSet(h.ctx[c].devs)) : clCreateProgramWithBinary(p, c, list)
    \/ /\ Owns(p)
       /\ \/ \E list \in Distinct(ToSet(h.prog[p].devs)) \cup {<<>>} : clBuildProgram(p, list)
          \/ clReleaseProgram(p)
    \/ MayRetain(p) /\ clRetainProgram(p)

ClientKernels ==
  \E k \in Kernels :
    \/ \E p \in Programs : Owns(p) /\ (clCreateKernel(k, p) \/ KernelRefused(k, p))
    \/ MayRetain(k) /\ clRetainKernel(k)
    \/ Owns(k) /\ clReleaseKernel(k)

Next == ClientDevices \/ ClientPrograms \/ ClientKernels

Spec == Init /\ [][Next]_vars
-----------------------------------------------------------------------------
ProgramsOf(c) == {p \in Programs : h.prog[p].st = "live" /\ h.prog[p].ctx = c}
KernelsOf(p) == {k \in Kernels : h.kern[k].st = "live" /\ h.kern[k].prog = p}

\* Nothing a client or another object points to has been freed, whatever the
\* order of the releases: the program of a kernel, the context of a program, the
\* array of devices a program shares with its context, and the binaries that a
\* failed build has freed (clBuildProgram.c: "Set pointers to NULL during cleanup
\* so that clProgramRelease won't cause a double free").
PointersLive ==
  /\ \A c \in Contexts : Owns(c) => h.ctx[c].st = "live"
  /\ \A p \in Programs : /\ Owns(p) => h.prog[p].st = "live"
                         /\ h.prog[p].st = "live" => /\ h.ctx[h.prog[p].ctx].st = "live"
                                                     /\ h.prog[p].binaries.st # "freed"
  /\ \A k \in Kernels : /\ Owns(k) => h.kern[k].st = "live"
                        /\ h.kern[k].st = "live" => /\ h.kern[k].prog # None
                                                    /\ h.prog[h.kern[k].prog].st = "live"

\* The counts are the references there are, and what has none left is freed.  Two
\* exceptions are in the code: a kernel has one count too many for each device but
\* the first, and a context whose last reference was a program's stays.
RefsAccounted ==
  /\ \A c \in Contexts : h.ctx[c].st = "live" /\ h.ctx[c].valid =>
       h.ctx[c].ref = held[c] + Cardinality(ProgramsOf(c))
  /\ \A p \in Programs : h.prog[p].st = "live" =>
       /\ h.prog[p].ref = held[p] + Cardinality(KernelsOf(p)) /\ h.prog[p].ref > 0
       /\ ToSet(h.prog[p].kernels) = KernelsOf(p) /\ IsInjective(h.prog[p].kernels)
  /\ \A k \in Kernels : h.kern[k].st = "live" =>
       /\ h.kern[k].ref = held[k] + Len(h.kern[k].from) - 1 /\ h.kern[k].ref > 0

\* A kernel is compiled for each CPU from the binary that was built for it, after
\* any sequence of builds, failed ones too; except when the binaries were made for
\* a list other than all devices of the program, whose order they then have.
KernelFromOwnBinary ==
  \A k \in Kernels : h.kern[k].st = "live" =>
    LET prog == h.prog[h.kern[k].prog]
    IN  prog.built = prog.devs =>
          \A i \in DOMAIN h.kern[k].from : h.kern[k].from[i] \in {None, prog.devs[i]}

\* While a client has a context with a GPU, the HSA runtime is up.
RuntimeUp ==
  \A c \in Contexts : Owns(c) /\ GPUs(h.ctx[c].devs) # {} => h.hw.runtime > 0
=============================================================================
