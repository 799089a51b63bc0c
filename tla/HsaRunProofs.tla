---------------------------- MODULE HsaRunProofs ----------------------------
(***************************************************************************)
(* Proofs about PthreadRun and HsaRun: the launches of all three drivers,  *)
(* for any launches, numbers of threads, kinds and sizes of arguments,     *)
(* devices and rings.  The local size that is chosen divides the global    *)
(* one, every group is executed once, and a launch is complete only when   *)
(* all its groups have been executed and all workers are gone.             *)
(***************************************************************************)
EXTENDS HsaRun, ArithmeticTheorems

-----------------------------------------------------------------------------
(* The sizes.                                                              *)

\* What clEnqueueNDRangeKernel finds by halving the preferred multiple is a
\* divisor of the size: a launch without a local size is not refused for it.
LEMMA PreferredDivides ==
  ASSUME NEW x \in Nat \ {0}
  PROVE  Preferred(x) \in Nat \ {0} /\ x % Preferred(x) = 0
<1> DEFINE P == PreferredMultiple
           Fits(m) == x % m = 0 /\ m <= x
           D == {m \in Nat \ {0} : x % m = 0}
           Halved(g, n) == /\ g \in [0..n -> D]
                           /\ \A m \in 0..n : g[m] = IF m = 0 THEN 1 ELSE IF Fits(m) THEN m ELSE g[m \div 2]
           S == {n \in Nat : \E g : Halved(g, n)}
<1>1. P \in Nat
  BY LimitsAssumption
<1>2. 1 \in D
  OBVIOUS
<1>3. 0 \in S
  <2>1. 0..0 = {0}
    OBVIOUS
  <2>2. Halved([m \in {0} |-> 1], 0)
    BY <1>2, <2>1
  <2>3. QED
    BY <2>2
<1>4. ASSUME NEW n \in Nat, n \in S PROVE n + 1 \in S
  <2>1. PICK g : Halved(g, n)
    BY <1>4
  <2> DEFINE v == IF Fits(n + 1) THEN n + 1 ELSE g[(n + 1) \div 2]
             h == [m \in 0..(n + 1) |-> IF m <= n THEN g[m] ELSE v]
  <2>2. (n + 1) \div 2 \in 0..n
    OBVIOUS
  <2>3. v \in D
    BY <2>1, <2>2
  <2>4. h \in [0..(n + 1) -> D]
    BY <2>1, <2>3
  <2>5. ASSUME NEW m \in 0..(n + 1)
        PROVE  h[m] = IF m = 0 THEN 1 ELSE IF Fits(m) THEN m ELSE h[m \div 2]
    <3>1. m # 0 => m \div 2 \in 0..n /\ h[m \div 2] = g[m \div 2]
      OBVIOUS
    <3>2. CASE m = n + 1
      <4>1. h[m] = v
        BY <3>2
      <4>2. QED
        BY <3>1, <3>2, <4>1
    <3>3. CASE m # n + 1
      <4>1. m \in 0..n /\ h[m] = g[m]
        BY <3>3
      <4>2. QED
        BY <2>1, <3>1, <4>1
    <3>4. QED
      BY <3>2, <3>3
  <2>6. Halved(h, n + 1)
    BY <2>4, <2>5
  <2> HIDE DEF Halved
  <2>7. QED
    BY <2>6
<1>5. P \in S
  <2> HIDE DEF S
  <2> QED
    BY <1>1, <1>3, <1>4, SetInduction
<1>6. \E g : g = [m \in 0..P |-> IF m = 0 THEN 1 ELSE IF x % m = 0 /\ m <= x THEN m ELSE g[m \div 2]]
  <2>1. PICK g : Halved(g, P)
    BY <1>5
  <2>2. g = [m \in 0..P |-> IF m = 0 THEN 1 ELSE IF x % m = 0 /\ m <= x THEN m ELSE g[m \div 2]]
    BY <2>1
  <2>3. QED
    BY <2>2
<1> DEFINE halved == CHOOSE g : g = [m \in 0..P |-> IF m = 0 THEN 1
                                       ELSE IF x % m = 0 /\ m <= x THEN m ELSE g[m \div 2]]
<1>7. halved = [m \in 0..P |-> IF m = 0 THEN 1 ELSE IF x % m = 0 /\ m <= x THEN m ELSE halved[m \div 2]]
  BY <1>6
<1>8. Preferred(x) = halved[P]
  BY DEF Preferred
<1> HIDE DEF halved
<1>9. \A m \in 0..P : halved[m] \in D
  <2> DEFINE U == {n \in Nat : \A m \in 0..n : m <= P => halved[m] \in D}
  <2>1. 0 \in U
    BY <1>1, <1>2, <1>7
  <2>2. ASSUME NEW n \in Nat, n \in U PROVE n + 1 \in U
    <3>1. SUFFICES ASSUME n + 1 <= P PROVE halved[n + 1] \in D
      BY <2>2
    <3>2. (n + 1) \div 2 \in 0..n
      OBVIOUS
    <3>3. halved[(n + 1) \div 2] \in D
      BY <1>1, <2>2, <3>1, <3>2
    <3>4. halved[n + 1] = IF x % (n + 1) = 0 /\ n + 1 <= x THEN n + 1 ELSE halved[(n + 1) \div 2]
      BY <1>1, <1>7, <3>1
    <3>5. QED
      BY <3>3, <3>4
  <2>3. Nat \subseteq U
    <3> HIDE DEF U
    <3> QED
      BY <2>1, <2>2, SetInduction
  <2>4. QED
    BY <1>1, <2>3
<1>10. QED
  BY <1>1, <1>8, <1>9

LEMMA ElementOf ==
  ASSUME NEW S, NEW s \in Seq(S), NEW w \in DOMAIN s PROVE s[w] \in S
OBVIOUS

LEMMA ElementReplaced ==
  ASSUME NEW S, NEW s \in Seq(S), NEW w \in DOMAIN s, NEW e \in S
  PROVE  /\ [s EXCEPT ![w] = e] \in Seq(S)
         /\ Len([s EXCEPT ![w] = e]) = Len(s) /\ [s EXCEPT ![w] = e][w] = e
OBVIOUS

Positive == [1..3 -> Nat \ {0}]

\* The sizes of a launch that is not empty, and its groups.
LEMMA LaunchSizes ==
  ASSUME NEW l \in Launches, \A d \in 1..3 : Extended(l, l.global)[d] # 0
  PROVE  /\ Extended(l, l.global) \in Positive
         /\ LocalSizeOf(l) \in Positive
         /\ GroupsWith(Extended(l, l.global), LocalSizeOf(l)) \subseteq AllGroups
<1>1. /\ l.work_dim \in 1..3
      /\ l.global \in [1..l.work_dim -> Nat]
      /\ l.local # <<>> => l.local \in [1..l.work_dim -> Nat \ {0}]
  BY LaunchesAssumption
<1>2. \A d \in 1..l.work_dim : l.global[d] \in Nat \ {0}
  BY <1>1 DEF Extended
<1>3. Extended(l, l.global) \in Positive
  BY <1>1, <1>2 DEF Extended, Positive
<1>4. LocalSizeOf(l) \in Positive
  <2>1. CASE l.local # <<>>
    BY <1>1, <2>1 DEF LocalSizeOf, Extended, Positive
  <2>2. CASE l.local = <<>>
    <3>1. Preferred(l.global[1]) \in Nat \ {0}
      BY <1>1, <1>2, PreferredDivides
    <3>2. QED
      BY <2>2, <3>1 DEF LocalSizeOf, Positive
  <2>3. QED
    BY <2>1, <2>2
<1>5. l \in {k \in Launches : \A d \in 1..k.work_dim : k.global[d] > 0}
  BY <1>2
<1>6. QED
  BY <1>3, <1>4, <1>5 DEF AllGroups

\* The sizes a CPU device accepts: num_groups has all groups with a work-item.
LEMMA AcceptedSizes ==
  ASSUME NEW global \in Positive, NEW local \in Positive, ~BadLocalSize(global, local)
  PROVE  LET groups == [d \in 1..3 |-> global[d] \div local[d]]
         IN  groups \in Positive /\ GroupsWith(global, local) = GroupsOf(groups)
<1>1. \A d \in 1..3 : global[d] % local[d] = 0
  BY DEF BadLocalSize
<1>2. \A d \in 1..3 : /\ global[d] \div local[d] \in Nat \ {0}
                      /\ (global[d] - 1) \div local[d] = global[d] \div local[d] - 1
  BY <1>1, QuotientBefore DEF Positive
<1>3. QED
  BY <1>2 DEF GroupsWith, GroupsOf, Positive
-----------------------------------------------------------------------------
(* The invariant of the pthread and basic drivers.                         *)

Places == {"setup", "group", "cleanup", "exited", "dispatch"}

WorkerType == [at : Places, first : Int, last : Int, gid : Int \X Int \X Int,
               mem : SUBSET Int, ptr : Int]

Preparing == {"enqueue", "refused"}

TypeInv ==
  /\ driver \in {"pthread", "basic", "hsa"}
  /\ pc \in Preparing \cup {"start", "create", "join", "basic", "dispatch", "wait",
                            "returned", "done"}
  /\ max_threads \in Nat \ {0} /\ i \in Nat /\ first_gid_x \in Int /\ last_gid_x \in Int
  /\ workers \in Seq(WorkerType)
  /\ ran \in [AllGroups -> Nat]
  /\ status \in {"running", "complete"}

\* Where a launch of each driver may be.
PlaceInv ==
  /\ pc \in {"create", "join"} => driver = "pthread"
  /\ pc = "basic" => driver = "basic"
  /\ pc \in {"dispatch", "wait"} => driver = "hsa"
  /\ pc = "returned" => driver \in {"basic", "hsa"}
  /\ status = "complete" <=> pc = "done"
  /\ pc \in Preparing \cup {"start"} => workers = <<>> /\ ran = [g \in AllGroups |-> 0]

\* The sizes of an accepted launch.
SizesInv ==
  pc \notin Preparing =>
    /\ global_size \in Positive /\ local_size \in Positive /\ num_groups \in [1..3 -> Nat]
    /\ GroupsWith(global_size, local_size) \subseteq AllGroups
    /\ driver # "hsa" => /\ num_groups \in Positive
                         /\ GroupsWith(global_size, local_size) = GroupsOf(num_groups)

\* The last x of worker w.
LastX(w) == IF w = num_threads THEN num_groups[1] - 1 ELSE w * wgs_per_thread - 1

\* The workers of the pthread driver: who has been created, what each of them has
\* to do, and who has been joined.
ThreadsInv ==
  driver = "pthread" /\ pc \in {"create", "join", "done"} =>
    /\ Len(workers) <= num_threads /\ i <= num_threads
    /\ \A w \in DOMAIN workers : /\ workers[w].first = (w - 1) * wgs_per_thread
                                 /\ workers[w].last = LastX(w)
    /\ pc = "create" => /\ i = Len(workers)
                        /\ first_gid_x = i * wgs_per_thread
                        /\ i < num_threads => last_gid_x = i * wgs_per_thread + wgs_per_thread - 1
    /\ pc \in {"join", "done"} => /\ Len(workers) = num_threads
                                  /\ \A w \in 1..i : workers[w].at = "exited"
    /\ pc = "done" => i = num_threads

\* The caller of the basic driver has all groups.
BasicInv ==
  driver = "basic" /\ pc \in {"basic", "returned", "done"} =>
    /\ Len(workers) = 1
    /\ workers[1].first = 0 /\ workers[1].last = num_groups[1] - 1
    /\ workers[1].at \in {"group", "cleanup", "exited"}
    /\ pc \in {"returned", "done"} => workers[1].at = "exited"

Slice(W) == (W.first..W.last) \X (0..(num_groups[2] - 1)) \X (0..(num_groups[3] - 1))

\* The order of the loops.
Before(g, h) == \/ g[3] < h[3]
                \/ g[3] = h[3] /\ (g[2] < h[2] \/ (g[2] = h[2] /\ g[1] < h[1]))

HasRun(W, g) == /\ g \in Slice(W)
                /\ W.at \in {"cleanup", "exited"} \/ (W.at = "group" /\ Before(g, W.gid))

\* A worker is in its slice, and has memory while it needs it.
WorkerOK(W) ==
  /\ W.gid \in Slice(W)
  /\ W.at # "dispatch"
  /\ W.at = "setup" => W.mem = {} /\ W.gid = <<W.first, 0, 0>>
  /\ W.at \in {"group", "cleanup"} => W.mem = Allocated
  /\ W.at = "exited" => W.mem = Allocated \ Freed
  /\ W.at # "setup" => W.ptr = device_ptrs(device - 1)

WorkersInv == driver # "hsa" => \A w \in DOMAIN workers : WorkerOK(workers[w])

\* A group has been executed once if a worker has passed it, and otherwise not.
RanInv ==
  driver # "hsa" =>
    \A g \in AllGroups : ran[g] = IF \E w \in DOMAIN workers : HasRun(workers[w], g)
                                 THEN 1 ELSE 0

IInv == /\ TypeInv /\ PlaceInv /\ SizesInv /\ ThreadsInv /\ BasicInv /\ WorkersInv /\ RanInv
-----------------------------------------------------------------------------
(* How the groups are dealt out.                                           *)

LEMMA ThreadNumbers ==
  ASSUME max_threads \in Nat \ {0}, num_groups \in Positive
  PROVE  /\ num_threads \in Nat \ {0} /\ wgs_per_thread \in Nat \ {0}
         /\ leftover_wgs \in Nat
         /\ num_groups[1] = num_threads * wgs_per_thread + leftover_wgs
<1>1. /\ num_groups[1] \in Nat \ {0}
      /\ num_threads \in Nat \ {0} /\ num_threads <= num_groups[1]
  BY DEF Positive, num_threads, Min
<1> DEFINE t == num_threads
           g == num_groups[1]
<1>2. g \div t \in Nat \ {0} /\ t * (g \div t) \in Nat /\ g - t * (g \div t) \in Nat
  <2> HIDE DEF t, g
  <2>1. t \in Nat \ {0} /\ g \in Nat \ {0} /\ t <= g
    BY <1>1 DEF t, g
  <2>2. QED
    BY <2>1, QuotientPositive
<1>3. wgs_per_thread = g \div t /\ leftover_wgs = g - t * (g \div t)
  BY DEF wgs_per_thread, leftover_wgs
<1>4. QED
  BY <1>1, <1>2, <1>3

\* The groups of two workers are apart.
LEMMA SlicesApart ==
  ASSUME TypeInv, SizesInv, ThreadsInv, BasicInv, PlaceInv, driver # "hsa",
         NEW v \in DOMAIN workers, NEW w \in DOMAIN workers, v # w,
         NEW g \in Slice(workers[v])
  PROVE  g \notin Slice(workers[w])
<1>1. pc \notin Preparing /\ num_groups \in Positive /\ Len(workers) \in Nat
      /\ DOMAIN workers = 1..Len(workers)
  BY DEF TypeInv, PlaceInv, SizesInv, Preparing
<1>2. CASE driver = "basic"
  BY <1>1, <1>2 DEF BasicInv, PlaceInv, TypeInv, Preparing
<1>3. CASE driver = "pthread"
  <2>1. pc \in {"create", "join", "done"}
    BY <1>1, <1>3 DEF PlaceInv, TypeInv, Preparing
  <2>2. /\ num_threads \in Nat \ {0} /\ wgs_per_thread \in Nat \ {0}
        /\ Len(workers) <= num_threads
        /\ \A x \in DOMAIN workers : /\ workers[x].first = (x - 1) * wgs_per_thread
                                     /\ workers[x].last = LastX(x)
    BY <1>1, <1>3, <2>1, ThreadNumbers DEF ThreadsInv, TypeInv
  <2>3. ASSUME NEW x \in DOMAIN workers, NEW y \in DOMAIN workers, x < y,
               NEW h \in Slice(workers[x])
        PROVE  h \notin Slice(workers[y])
    <3>1. x # num_threads /\ x <= y - 1 /\ x \in Int /\ y - 1 \in Int
      BY <1>1, <2>2, <2>3
    <3>2. x * wgs_per_thread <= (y - 1) * wgs_per_thread
      BY <2>2, <3>1, ProductMonotone
    <3>3. workers[x].last = x * wgs_per_thread - 1
      BY <2>2, <3>1 DEF LastX
    <3>4. workers[y].first = (y - 1) * wgs_per_thread
      BY <2>2
    <3>5. x * wgs_per_thread \in Int /\ (y - 1) * wgs_per_thread \in Int
      BY SMTT(60), <3>1, <2>2
    <3>6. workers[x].last < workers[y].first
      BY <3>2, <3>3, <3>4, <3>5
    <3>7. h[1] \in Int /\ h[1] <= workers[x].last
      BY <2>3, <3>3, <3>5 DEF Slice, TypeInv, WorkerType
    <3>8. QED
      BY <3>6, <3>7, <3>3, <3>4, <3>5 DEF Slice
  <2>4. QED
    BY <1>1, <2>3
<1>4. QED
  BY <1>2, <1>3 DEF TypeInv

\* A worker has no group beyond the launch.
LEMMA SliceWithin ==
  ASSUME IInv, driver # "hsa", NEW w \in DOMAIN workers
  PROVE  0 <= workers[w].first /\ workers[w].last <= num_groups[1] - 1
<1>1. /\ pc \notin Preparing /\ num_groups \in Positive /\ max_threads \in Nat \ {0}
      /\ DOMAIN workers = 1..Len(workers) /\ Len(workers) \in Nat
  BY DEF IInv, TypeInv, PlaceInv, SizesInv, Preparing
<1>2. CASE driver = "basic"
  BY <1>1, <1>2 DEF IInv, BasicInv, PlaceInv, TypeInv, Preparing, Positive
<1>3. CASE driver = "pthread"
  <2>1. pc \in {"create", "join", "done"}
    BY <1>1, <1>3 DEF IInv, PlaceInv, TypeInv, Preparing
  <2>2. /\ num_threads \in Nat \ {0} /\ wgs_per_thread \in Nat \ {0} /\ leftover_wgs \in Nat
        /\ num_groups[1] = num_threads * wgs_per_thread + leftover_wgs
        /\ w \in Nat \ {0} /\ w <= num_threads
        /\ workers[w].first = (w - 1) * wgs_per_thread /\ workers[w].last = LastX(w)
    BY <1>1, <1>3, <2>1, ThreadNumbers DEF IInv, ThreadsInv
  <2>3. 0 <= (w - 1) * wgs_per_thread
    <3>1. 0 * wgs_per_thread <= (w - 1) * wgs_per_thread
      BY <2>2, ProductMonotone
    <3>2. QED
      BY <2>2, <3>1
  <2>4. w * wgs_per_thread <= num_threads * wgs_per_thread
    BY <2>2, ProductMonotone
  <2>5. w * wgs_per_thread \in Int /\ num_threads * wgs_per_thread \in Int
    BY <2>2
  <2>6. LastX(w) <= num_groups[1] - 1
    BY <2>2, <2>4, <2>5 DEF LastX
  <2>7. QED
    BY <2>2, <2>3, <2>6
<1>4. QED
  BY <1>2, <1>3 DEF IInv, TypeInv

\* The three loops go through a slice in order, to its end.
LEMMA LoopOrder ==
  ASSUME num_groups \in Positive, NEW first \in Int, NEW last \in Int,
         NEW gid \in (first..last) \X (0..(num_groups[2] - 1)) \X (0..(num_groups[3] - 1))
  PROVE  LET S == (first..last) \X (0..(num_groups[2] - 1)) \X (0..(num_groups[3] - 1))
             next == After(gid, first, last)
         IN  /\ next # <<>> => /\ next \in S
                               /\ \A g \in S : Before(g, next) <=> Before(g, gid) \/ g = gid
             /\ next = <<>> => \A g \in S : Before(g, gid) \/ g = gid
<1> DEFINE S == (first..last) \X (0..(num_groups[2] - 1)) \X (0..(num_groups[3] - 1))
           next == After(gid, first, last)
<1>1. num_groups[2] \in Nat \ {0} /\ num_groups[3] \in Nat \ {0}
  BY DEF Positive
<1>2. \A g \in S : /\ g[1] \in first..last /\ g[2] \in 0..(num_groups[2] - 1)
                   /\ g[3] \in 0..(num_groups[3] - 1)
                   /\ g = <<g[1], g[2], g[3]>>
  OBVIOUS
<1>3. CASE gid[1] < last
  <2>1. next = <<gid[1] + 1, gid[2], gid[3]>>
    BY <1>3 DEF After
  <2>2. QED
    BY <1>1, <1>2, <1>3, <2>1 DEF Before
<1>4. CASE ~(gid[1] < last) /\ gid[2] + 1 < num_groups[2]
  <2>1. next = <<first, gid[2] + 1, gid[3]>>
    BY <1>4 DEF After
  <2>2. QED
    BY <1>1, <1>2, <1>4, <2>1 DEF Before
<1>5. CASE ~(gid[1] < last) /\ ~(gid[2] + 1 < num_groups[2]) /\ gid[3] + 1 < num_groups[3]
  <2>1. next = <<first, 0, gid[3] + 1>>
    BY <1>5 DEF After
  <2>2. QED
    BY <1>1, <1>2, <1>5, <2>1 DEF Before
<1>6. CASE ~(gid[1] < last) /\ ~(gid[2] + 1 < num_groups[2]) /\ ~(gid[3] + 1 < num_groups[3])
  <2>1. next = <<>>
    BY <1>6 DEF After
  <2>2. gid[1] = last /\ gid[2] = num_groups[2] - 1 /\ gid[3] = num_groups[3] - 1
    BY <1>1, <1>2, <1>6
  <2>3. ASSUME NEW g \in S PROVE Before(g, gid) \/ g = gid
    <3>1. g[1] <= gid[1] /\ g[2] <= gid[2] /\ g[3] <= gid[3]
      BY <1>1, <1>2, <2>2
    <3>2. g = <<g[1], g[2], g[3]>> /\ gid = <<gid[1], gid[2], gid[3]>>
      BY <1>2
    <3>3. QED
      BY <1>1, <1>2, <2>2, <3>1, <3>2 DEF Before
  <2>4. QED
    BY <2>1, <2>3
<1>7. QED
  BY <1>3, <1>4, <1>5, <1>6
-----------------------------------------------------------------------------
(* The steps of the pthread driver.                                        *)

\* A step of a launch that changes no worker and executes nothing.
LEMMA StillPreserves ==
  ASSUME IInv, UNCHANGED <<driver, num_groups, workers, ran>>
  PROVE  WorkersInv' /\ RanInv'
BY DEF IInv, WorkersInv, WorkerOK, RanInv, Slice, HasRun, Before

LEMMA EnqueuePreserves ==
  ASSUME IInv, NEW l \in Launches, clEnqueueNDRangeKernel(l)
  PROVE  IInv'
<1> USE DEF clEnqueueNDRangeKernel
<1>1. /\ pc = "enqueue" /\ pc' \in {"refused", "start"} /\ workers = <<>>
      /\ UNCHANGED <<driver, max_threads, i, first_gid_x, last_gid_x, workers, ran, status>>
  BY DEF IInv, PlaceInv, Preparing
<1>2. TypeInv'
  BY <1>1 DEF IInv, TypeInv, Preparing
<1>3. PlaceInv'
  BY <1>1 DEF IInv, PlaceInv, Preparing
<1>4. SizesInv'
  <2> DEFINE global == Extended(l, l.global)
             local == LocalSizeOf(l)
             groups == [d \in 1..3 |-> global[d] \div local[d]]
  <2>1. SUFFICES ASSUME pc' = "start" PROVE SizesInv'
    BY <1>1 DEF SizesInv, Preparing
  <2>2. /\ \A d \in 1..3 : global[d] # 0
        /\ driver # "hsa" => ~BadLocalSize(global, local)
        /\ global_size' = global /\ local_size' = local /\ num_groups' = groups
    BY <2>1
  <2> HIDE DEF clEnqueueNDRangeKernel
  <2>3. global \in Positive /\ local \in Positive /\ GroupsWith(global, local) \subseteq AllGroups
    BY <2>2, LaunchSizes
  <2>4. driver # "hsa" => groups \in Positive /\ GroupsWith(global, local) = GroupsOf(groups)
    BY <2>2, <2>3, AcceptedSizes
  <2>5. groups \in [1..3 -> Nat]
    <3> HIDE DEF global, local
    <3>1. \A a \in Nat \ {0}, b \in Nat \ {0} : a \div b \in Nat
      OBVIOUS
    <3>2. QED
      BY <2>3, <3>1 DEF Positive
  <2> HIDE DEF global, local, groups
  <2>6. QED
    BY <1>1, <2>2, <2>3, <2>4, <2>5 DEF SizesInv
<1>5. ThreadsInv' /\ BasicInv'
  BY <1>1 DEF ThreadsInv, BasicInv
<1>6. WorkersInv' /\ RanInv'
  BY <1>1 DEF IInv, WorkersInv, RanInv, PlaceInv, Preparing, TypeInv
<1>7. QED
  BY <1>2, <1>3, <1>4, <1>5, <1>6 DEF IInv

LEMMA StartPreserves == IInv /\ Start => IInv'
<1> SUFFICES ASSUME IInv, Start PROVE IInv'
  OBVIOUS
<1> USE DEF Start, sizes
<1>1. /\ driver = "pthread" /\ pc = "start" /\ pc' = "create" /\ workers = <<>>
      /\ UNCHANGED <<driver, global_size, local_size, num_groups, max_threads, workers, ran>>
  BY DEF IInv, PlaceInv
<1>2. /\ num_groups \in Positive /\ max_threads \in Nat \ {0}
      /\ num_threads \in Nat \ {0} /\ wgs_per_thread \in Nat \ {0}
  BY <1>1, ThreadNumbers DEF IInv, TypeInv, SizesInv, Preparing
<1>3. TypeInv' /\ PlaceInv' /\ SizesInv'
  BY <1>1, <1>2 DEF IInv, TypeInv, PlaceInv, SizesInv, Preparing
<1>4. ThreadsInv' /\ BasicInv'
  <2>1. num_threads' = num_threads /\ wgs_per_thread' = wgs_per_thread
    BY <1>1 DEF num_threads, wgs_per_thread
  <2>2. QED
    BY <1>1, <1>2, <2>1 DEF ThreadsInv, BasicInv
<1>5. WorkersInv' /\ RanInv'
  BY <1>1, StillPreserves
<1>6. QED
  BY <1>3, <1>4, <1>5 DEF IInv

\* The slice of the worker that is created next.
LEMMA NextSlice ==
  ASSUME IInv, pc = "create", i < num_threads
  PROVE  /\ first_gid_x = i * wgs_per_thread
         /\ first_gid_x + wgs_per_thread = (i + 1) * wgs_per_thread
         /\ LastOf = LastX(i + 1) /\ first_gid_x <= LastOf
         /\ i + 1 < num_threads =>
              LastOf + wgs_per_thread = (i + 1) * wgs_per_thread + wgs_per_thread - 1
<1> DEFINE t == num_threads
           q == wgs_per_thread
           r == leftover_wgs
           p == i * q
<1>1. driver = "pthread" /\ i \in Nat /\ num_groups \in Positive /\ max_threads \in Nat \ {0}
  BY DEF IInv, PlaceInv, SizesInv, TypeInv, Preparing
<1>2. /\ t \in Nat \ {0} /\ q \in Nat \ {0} /\ r \in Nat
      /\ num_groups[1] = t * q + r
  BY <1>1, ThreadNumbers
<1>3. first_gid_x = p /\ last_gid_x = p + q - 1
  BY <1>1 DEF IInv, ThreadsInv
<1>4. (i + 1) * q = p + q /\ p \in Nat
  <2> HIDE DEF q
  <2> QED
    BY <1>1, <1>2
<1>5. CASE i + 1 = t
  <2>1. num_groups[1] = p + q + r
    BY <1>2, <1>4, <1>5
  <2>2. LastOf = p + q - 1 + r
    BY <1>3, <1>5 DEF LastOf
  <2>3. LastX(i + 1) = num_groups[1] - 1
    BY <1>5 DEF LastX
  <2> HIDE DEF p, q, r, t
  <2>4. LastOf = LastX(i + 1) /\ p <= LastOf
    BY <1>2, <1>4, <2>1, <2>2, <2>3
  <2>5. QED
    BY <1>1, <1>2, <1>3, <1>4, <1>5, <2>4 DEF p, q, t
<1>6. CASE i + 1 # t
  <2>1. LastOf = p + q - 1
    BY <1>3, <1>6 DEF LastOf
  <2>2. LastX(i + 1) = (i + 1) * q - 1
    BY <1>6 DEF LastX
  <2> HIDE DEF p, q, r, t
  <2>3. /\ LastOf = LastX(i + 1) /\ p <= LastOf
        /\ LastOf + q = (i + 1) * q + q - 1 /\ p + q = (i + 1) * q
    BY <1>2, <1>4, <2>1, <2>2
  <2>4. QED
    BY <1>3, <2>3 DEF p, q, t
<1>7. QED
  BY <1>5, <1>6

LEMMA CreateThreadPreserves == IInv /\ CreateThread => IInv'
<1> SUFFICES ASSUME IInv, CreateThread PROVE IInv'
  OBVIOUS
<1> USE DEF CreateThread, sizes
<1>1. /\ driver = "pthread" /\ pc = "create" /\ i < num_threads /\ i = Len(workers)
      /\ i \in Nat /\ max_threads \in Nat \ {0} /\ num_groups \in Positive
      /\ workers \in Seq(WorkerType) /\ DOMAIN workers = 1..i
  BY DEF IInv, PlaceInv, SizesInv, TypeInv, ThreadsInv, Preparing
<1>2. /\ num_threads \in Nat \ {0} /\ wgs_per_thread \in Nat \ {0}
      /\ num_threads' = num_threads /\ wgs_per_thread' = wgs_per_thread
  BY <1>1, ThreadNumbers DEF num_threads, wgs_per_thread
<1> DEFINE W == ThreadArguments(LastOf)
<1>3. /\ W.at = "setup" /\ W.first = first_gid_x /\ W.last = LastOf
      /\ W.gid = <<first_gid_x, 0, 0>> /\ W.mem = {} /\ W.ptr = -1
  BY DEF ThreadArguments
<1>4. /\ first_gid_x = i * wgs_per_thread /\ LastOf = LastX(i + 1) /\ first_gid_x <= LastOf
      /\ first_gid_x \in Int /\ LastOf \in Int
  BY <1>1, <1>2, NextSlice, ThreadNumbers DEF LastOf, IInv, TypeInv
<1>5. W \in WorkerType
  BY <1>4 DEF ThreadArguments, WorkerType, Places
<1>6. /\ workers' = Append(workers, W) /\ workers' \in Seq(WorkerType)
      /\ Len(workers') = i + 1 /\ DOMAIN workers' = 1..(i + 1)
      /\ \A w \in 1..i : workers'[w] = workers[w]
      /\ workers'[i + 1] = W
  <2> HIDE DEF W
  <2>1. workers' = Append(workers, W)
    BY DEF W
  <2>2. QED
    BY <1>1, <1>5, <2>1
<1>7. TypeInv'
  BY <1>1, <1>2, <1>4, <1>6 DEF IInv, TypeInv
<1>8. PlaceInv' /\ SizesInv' /\ BasicInv'
  BY <1>1 DEF IInv, PlaceInv, SizesInv, BasicInv, Preparing
<1>9. ThreadsInv'
  <2>1. \A w : LastX(w)' = LastX(w)
    BY <1>2 DEF LastX
  <2>2. \A w \in 1..i : workers[w].first = (w - 1) * wgs_per_thread /\ workers[w].last = LastX(w)
    BY <1>1 DEF IInv, ThreadsInv
  <2>3. ASSUME NEW w \in 1..(i + 1)
        PROVE  workers'[w].first = (w - 1) * wgs_per_thread /\ workers'[w].last = LastX(w)
    <3>1. CASE w = i + 1
      BY <1>1, <1>3, <1>4, <1>6, <3>1
    <3>2. CASE w # i + 1
      BY <1>1, <1>6, <2>2, <3>2
    <3>3. QED
      BY <3>1, <3>2
  <2>4. /\ i' = i + 1 /\ first_gid_x' = (i + 1) * wgs_per_thread
        /\ i + 1 < num_threads =>
              last_gid_x' = (i + 1) * wgs_per_thread + wgs_per_thread - 1
    BY <1>1, NextSlice
  <2>5. i + 1 <= num_threads
    BY <1>1, <1>2
  <2>6. QED
    BY <1>1, <1>2, <1>6, <2>1, <2>3, <2>4, <2>5 DEF ThreadsInv
<1>10. \A V : Slice(V)' = Slice(V)
  BY DEF Slice
<1>11. WorkersInv'
  <2>1. W.gid \in Slice(W)
    BY SMTT(60), <1>1, <1>3, <1>4 DEF Slice, Positive
  <2>2. WorkerOK(W)
    BY <1>3, <2>1 DEF WorkerOK
  <2>3. \A V : WorkerOK(V)' = WorkerOK(V)
    BY <1>10 DEF WorkerOK
  <2>4. \A w \in 1..(i + 1) : WorkerOK(workers'[w])
    BY <1>1, <1>6, <2>2 DEF IInv, WorkersInv
  <2>5. QED
    BY <1>6, <2>3, <2>4 DEF WorkersInv
<1>12. RanInv'
  <2>1. \A g : ~HasRun(W, g)
    BY <1>3 DEF HasRun
  <2>2. \A V, g : HasRun(V, g)' = HasRun(V, g)
    BY <1>10 DEF HasRun
  <2>3. \A g : (\E w \in 1..i : HasRun(workers[w], g))
                  <=> (\E w \in 1..(i + 1) : HasRun(workers'[w], g))
    BY <1>1, <1>6, <2>1
  <2>4. QED
    BY <1>1, <1>6, <2>2, <2>3 DEF IInv, RanInv
<1>13. QED
  BY <1>7, <1>8, <1>9, <1>11, <1>12 DEF IInv

LEMMA AllCreatedPreserves == IInv /\ AllCreated => IInv'
<1> SUFFICES ASSUME IInv, AllCreated PROVE IInv'
  OBVIOUS
<1> USE DEF AllCreated, sizes
<1>1. /\ driver = "pthread" /\ pc = "create" /\ i = num_threads /\ i = Len(workers)
      /\ max_threads \in Nat \ {0} /\ num_groups \in Positive
  BY DEF IInv, PlaceInv, SizesInv, TypeInv, ThreadsInv, Preparing
<1>2. /\ num_threads \in Nat \ {0}
      /\ num_threads' = num_threads /\ wgs_per_thread' = wgs_per_thread
  BY <1>1, ThreadNumbers DEF num_threads, wgs_per_thread
<1>3. TypeInv' /\ PlaceInv' /\ SizesInv' /\ BasicInv'
  BY <1>1 DEF IInv, TypeInv, PlaceInv, SizesInv, BasicInv, Preparing
<1>4. ThreadsInv'
  <2>1. \A w : LastX(w)' = LastX(w)
    BY <1>2 DEF LastX
  <2>2. \A w \in DOMAIN workers : /\ workers[w].first = (w - 1) * wgs_per_thread
                                 /\ workers[w].last = LastX(w)
    BY <1>1 DEF IInv, ThreadsInv
  <2>3. pc' = "join" /\ i' = 0 /\ 1..i' = {} /\ workers' = workers
    OBVIOUS
  <2>4. Len(workers) = num_threads /\ i' <= num_threads
    BY <1>1, <1>2
  <2> HIDE DEF AllCreated
  <2>5. QED
    BY <1>2, <2>1, <2>2, <2>3, <2>4 DEF ThreadsInv
<1>5. WorkersInv' /\ RanInv'
  BY StillPreserves
<1>6. QED
  BY <1>3, <1>4, <1>5 DEF IInv

LEMMA JoinThreadPreserves == IInv /\ JoinThread => IInv'
<1> SUFFICES ASSUME IInv, JoinThread PROVE IInv'
  OBVIOUS
<1> USE DEF JoinThread, sizes
<1>1. /\ driver = "pthread" /\ pc = "join" /\ i < num_threads /\ i \in Nat
      /\ max_threads \in Nat \ {0} /\ num_groups \in Positive
  BY DEF IInv, PlaceInv, SizesInv, TypeInv, Preparing
<1>2. /\ num_threads \in Nat \ {0}
      /\ num_threads' = num_threads /\ wgs_per_thread' = wgs_per_thread
  BY <1>1, ThreadNumbers DEF num_threads, wgs_per_thread
<1>3. TypeInv' /\ PlaceInv' /\ SizesInv' /\ BasicInv'
  BY <1>1 DEF IInv, TypeInv, PlaceInv, SizesInv, BasicInv, Preparing
<1>4. ThreadsInv'
  <2>1. \A w \in 1..(i + 1) : workers[w].at = "exited"
    BY <1>1 DEF IInv, ThreadsInv
  <2>2. \A w : LastX(w)' = LastX(w)
    BY <1>2 DEF LastX
  <2>3. QED
    BY <1>1, <1>2, <2>1, <2>2 DEF IInv, ThreadsInv
<1>5. WorkersInv' /\ RanInv'
  BY StillPreserves
<1>6. QED
  BY <1>3, <1>4, <1>5 DEF IInv

LEMMA ReturnPreserves == IInv /\ Return => IInv'
<1> SUFFICES ASSUME IInv, Return PROVE IInv'
  OBVIOUS
<1> USE DEF Return, Joined, sizes
<1>1. /\ driver = "pthread" /\ pc = "join" /\ i = num_threads
      /\ num_threads' = num_threads /\ wgs_per_thread' = wgs_per_thread
  BY DEF IInv, PlaceInv, num_threads, wgs_per_thread
<1>2. TypeInv' /\ PlaceInv' /\ SizesInv' /\ BasicInv'
  BY <1>1 DEF IInv, TypeInv, PlaceInv, SizesInv, BasicInv, Preparing
<1>3. ThreadsInv'
  <2>1. \A w : LastX(w)' = LastX(w)
    BY <1>1 DEF LastX
  <2>2. QED
    BY <1>1, <2>1 DEF IInv, ThreadsInv
<1>4. WorkersInv' /\ RanInv'
  BY StillPreserves
<1>5. QED
  BY <1>2, <1>3, <1>4 DEF IInv

\* A step of worker w alone, which stays in its slice.
LEMMA WorkerPreserves ==
  ASSUME IInv, driver = "pthread", NEW w \in DOMAIN workers, NEW W \in WorkerType,
         workers' = [workers EXCEPT ![w] = W],
         W.first = workers[w].first, W.last = workers[w].last, workers[w].at # "exited",
         UNCHANGED <<driver, pc, sizes, max_threads, i, first_gid_x, last_gid_x, status>>,
         ran' \in [AllGroups -> Nat]
  PROVE  TypeInv' /\ PlaceInv' /\ SizesInv' /\ BasicInv' /\ ThreadsInv'
<1> USE DEF sizes
<1>1. /\ workers \in Seq(WorkerType) /\ workers' \in Seq(WorkerType)
      /\ Len(workers') = Len(workers) /\ DOMAIN workers' = DOMAIN workers
      /\ DOMAIN workers = 1..Len(workers)
      /\ workers'[w] = W /\ \A v \in DOMAIN workers : v # w => workers'[v] = workers[v]
  BY DEF IInv, TypeInv
<1>2. num_threads' = num_threads /\ wgs_per_thread' = wgs_per_thread
  BY DEF num_threads, wgs_per_thread
<1>3. TypeInv' /\ SizesInv' /\ BasicInv'
  BY <1>1 DEF IInv, TypeInv, SizesInv, BasicInv
<1>4. PlaceInv'
  BY <1>1 DEF IInv, PlaceInv
<1>5. ThreadsInv'
  <2>1. \A v : LastX(v)' = LastX(v)
    BY <1>2 DEF LastX
  <2>2. pc \in {"create", "join", "done"} =>
          \A v \in DOMAIN workers : /\ workers'[v].first = (v - 1) * wgs_per_thread
                                   /\ workers'[v].last = LastX(v)
    BY <1>1 DEF IInv, ThreadsInv
  <2>3. pc \in {"join", "done"} => \A v \in 1..i : workers'[v].at = "exited"
    BY <1>1 DEF IInv, ThreadsInv, TypeInv
  <2>4. QED
    BY <1>1, <1>2, <2>1, <2>2, <2>3 DEF IInv, ThreadsInv
<1>6. QED
  BY <1>3, <1>4, <1>5

\* A worker that executes nothing keeps what has been executed.
LEMMA IdlePreserves ==
  ASSUME IInv, driver # "hsa", NEW w \in DOMAIN workers, NEW W \in WorkerType,
         workers' = [workers EXCEPT ![w] = W], WorkerOK(W),
         \A g \in AllGroups : HasRun(W, g) <=> HasRun(workers[w], g),
         UNCHANGED <<driver, num_groups, ran>>
  PROVE  WorkersInv' /\ RanInv'
<1>1. /\ workers \in Seq(WorkerType) /\ DOMAIN workers' = DOMAIN workers
      /\ workers'[w] = W /\ \A v \in DOMAIN workers : v # w => workers'[v] = workers[v]
  BY DEF IInv, TypeInv
<1>2. \A V : Slice(V)' = Slice(V)
  BY DEF Slice
<1>3. \A V : WorkerOK(V)' = WorkerOK(V)
  BY <1>2 DEF WorkerOK
<1>4. \A V, g : HasRun(V, g)' = HasRun(V, g)
  BY <1>2 DEF HasRun
<1>5. WorkersInv'
  <2>1. \A v \in DOMAIN workers : WorkerOK(workers'[v])
    BY <1>1 DEF IInv, WorkersInv
  <2>2. QED
    BY <1>1, <1>3, <2>1 DEF WorkersInv
<1>6. RanInv'
  <2>1. \A g \in AllGroups : (\E v \in DOMAIN workers : HasRun(workers[v], g))
                             <=> (\E v \in DOMAIN workers : HasRun(workers'[v], g))
    BY <1>1
  <2>2. QED
    BY <1>1, <1>4, <2>1 DEF IInv, RanInv
<1>7. QED
  BY <1>5, <1>6

\* The execution of a group by a worker of the pthread driver or by the caller of
\* the basic driver.
LEMMA GroupPreserves ==
  ASSUME IInv, driver # "hsa", NEW w \in DOMAIN workers, NEW W,
         W = workers[w], W.at = "group",
         ran' = [ran EXCEPT ![W.gid] = @ + 1],
         workers' = IF After(W.gid, W.first, W.last) = <<>>
                    THEN [workers EXCEPT ![w].at = "cleanup"]
                    ELSE [workers EXCEPT ![w].gid = After(W.gid, W.first, W.last)],
         UNCHANGED <<driver, num_groups>>
  PROVE  /\ WorkersInv' /\ RanInv' /\ ran' \in [AllGroups -> Nat]
         /\ \E V \in WorkerType : /\ workers' = [workers EXCEPT ![w] = V]
                                  /\ V.first = W.first /\ V.last = W.last
                                  /\ V.at \in {"group", "cleanup"}
<1> DEFINE next == After(W.gid, W.first, W.last)
           V == IF next = <<>> THEN [W EXCEPT !.at = "cleanup"] ELSE [W EXCEPT !.gid = next]
<1>1. /\ workers \in Seq(WorkerType) /\ W \in WorkerType /\ WorkerOK(W)
      /\ pc \notin Preparing /\ num_groups \in Positive
  BY DEF IInv, TypeInv, PlaceInv, SizesInv, WorkersInv, Preparing
<1>2. /\ next # <<>> => /\ next \in Slice(W)
                        /\ \A g \in Slice(W) : Before(g, next) <=> Before(g, W.gid) \/ g = W.gid
      /\ next = <<>> => \A g \in Slice(W) : Before(g, W.gid) \/ g = W.gid
  <2>1. W.gid \in Slice(W) /\ W.first \in Int /\ W.last \in Int
    BY <1>1 DEF WorkerOK, WorkerType
  <2>2. QED
    BY <1>1, <2>1, LoopOrder DEF Slice
<1>3. Slice(W) \subseteq Int \X Int \X Int
  BY <1>1 DEF Slice, WorkerType, Positive
<1>4. /\ V \in WorkerType /\ V.first = W.first /\ V.last = W.last /\ V.at \in {"group", "cleanup"}
      /\ V.mem = W.mem /\ V.ptr = W.ptr
      /\ V.at = "cleanup" <=> next = <<>>
      /\ V.gid = IF next = <<>> THEN W.gid ELSE next
  BY <1>1, <1>2, <1>3 DEF WorkerType, Places
<1>5. workers' = [workers EXCEPT ![w] = V]
  OBVIOUS
<1> HIDE DEF V, next
<1>6. /\ DOMAIN workers' = DOMAIN workers
      /\ workers'[w] = V /\ \A v \in DOMAIN workers : v # w => workers'[v] = workers[v]
  BY <1>1, <1>5
<1>7. Slice(V) = Slice(W)
  BY <1>4 DEF Slice
<1>8. WorkerOK(V)
  BY <1>1, <1>2, <1>4, <1>7 DEF WorkerOK
<1>9. \A U : Slice(U)' = Slice(U)
  BY DEF Slice
<1>10. WorkersInv'
  <2>1. \A U : WorkerOK(U)' = WorkerOK(U)
    BY <1>9 DEF WorkerOK
  <2>2. \A v \in DOMAIN workers : WorkerOK(workers'[v])
    BY <1>6, <1>8 DEF IInv, WorkersInv
  <2>3. QED
    BY <1>6, <2>1, <2>2 DEF WorkersInv
<1>11. W.gid \in AllGroups
  <2>1. Slice(W) \subseteq GroupsOf(num_groups)
    <3>1. 0 <= W.first /\ W.last <= num_groups[1] - 1
      BY <1>1, SliceWithin
    <3>2. W.first \in Int /\ W.last \in Int /\ num_groups[1] \in Nat
      BY <1>1 DEF WorkerType, Positive
    <3>3. W.first..W.last \subseteq 0..(num_groups[1] - 1)
      BY <3>1, <3>2
    <3>4. QED
      BY <3>3 DEF Slice, GroupsOf
  <2>2. QED
    BY <1>1, <2>1 DEF IInv, SizesInv, WorkerOK
<1>12. ran' \in [AllGroups -> Nat]
  BY <1>11 DEF IInv, TypeInv
<1>13. \A g \in AllGroups : HasRun(V, g) <=> HasRun(W, g) \/ g = W.gid
  BY <1>1, <1>2, <1>4, <1>7 DEF HasRun, WorkerOK
<1>14. ~\E v \in DOMAIN workers : HasRun(workers[v], W.gid)
  <2>1. ~HasRun(W, W.gid)
    <3>1. W.gid[1] \in Int /\ W.gid[2] \in Int /\ W.gid[3] \in Int
      BY <1>1 DEF WorkerType
    <3>2. QED
      BY <3>1 DEF HasRun, Before
  <2>2. ASSUME NEW v \in DOMAIN workers, v # w PROVE W.gid \notin Slice(workers[v])
    BY <1>1, <2>2, SlicesApart DEF IInv, WorkerOK
  <2>3. QED
    BY <2>1, <2>2 DEF HasRun
<1>15. RanInv'
  <2>1. ASSUME NEW g \in AllGroups, g # W.gid
        PROVE  (\E v \in DOMAIN workers : HasRun(workers[v], g))
                 <=> (\E v \in DOMAIN workers : HasRun(workers'[v], g))
    BY <1>6, <1>13, <2>1
  <2>2. \E v \in DOMAIN workers : HasRun(workers'[v], W.gid)
    BY <1>6, <1>11, <1>13
  <2>3. ran[W.gid] = 0
    BY <1>11, <1>14 DEF IInv, RanInv
  <2>4. \A g \in AllGroups : ran'[g] = IF g = W.gid THEN 1 ELSE ran[g]
    BY <1>11, <2>3 DEF IInv, TypeInv
  <2>5. \A U, g : HasRun(U, g)' = HasRun(U, g)
    BY <1>9 DEF HasRun
  <2>6. \A g \in AllGroups : ran'[g] = IF \E v \in DOMAIN workers : HasRun(workers'[v], g) THEN 1 ELSE 0
    BY <2>1, <2>2, <2>4 DEF IInv, RanInv
  <2>7. QED
    BY <1>6, <2>5, <2>6 DEF RanInv
<1>16. QED
  BY <1>4, <1>5, <1>10, <1>12, <1>15

LEMMA AllocatedType == Allocated \in SUBSET Int
BY ArgsAssumption DEF Allocated

\* device is the place of this device in the context.
LEMMA PointerType == device \in DOMAIN ContextDevs /\ device_ptrs(device - 1) \in Int
<1>1. device \in DOMAIN ContextDevs
  BY DevicesAssumption DEF device
<1>2. device \in Int
  BY <1>1, DevicesAssumption
<1>3. QED
  BY <1>1, <1>2 DEF device_ptrs

LEMMA SetupPreserves ==
  ASSUME IInv, driver = "pthread", NEW w \in DOMAIN workers, Setup(w)
  PROVE  IInv'
<1> USE DEF Setup
<1> DEFINE U == workers[w]
           W == [U EXCEPT !.at = "group", !.mem = Allocated, !.ptr = device_ptrs(device - 1)]
<1>1. workers \in Seq(WorkerType) /\ U \in WorkerType /\ U.at = "setup" /\ WorkerOK(U)
      /\ pc \notin Preparing /\ ran \in [AllGroups -> Nat]
  BY DEF IInv, TypeInv, WorkersInv, PlaceInv, Preparing
<1>2. W \in WorkerType
  BY <1>1, AllocatedType, PointerType DEF WorkerType, Places
<1>3. workers' = [workers EXCEPT ![w] = W]
  OBVIOUS
<1>4. /\ W.at = "group" /\ W.mem = Allocated /\ W.ptr = device_ptrs(device - 1)
      /\ W.first = U.first /\ W.last = U.last /\ W.gid = U.gid
  BY <1>1 DEF WorkerType
<1> HIDE DEF W
<1>5. Slice(W) = Slice(U)
  BY <1>4 DEF Slice
<1>6. WorkerOK(W)
  BY <1>1, <1>4, <1>5 DEF WorkerOK
<1>7. \A g \in AllGroups : HasRun(W, g) <=> HasRun(U, g)
  <2>1. \A g : ~HasRun(U, g)
    BY <1>1 DEF HasRun
  <2>2. ASSUME NEW g \in Slice(W) PROVE ~Before(g, W.gid)
    <3>1. W.gid = <<U.first, 0, 0>> /\ W.first \in Int /\ W.last \in Int
      BY <1>1, <1>2, <1>4 DEF WorkerOK, WorkerType
    <3>2. g[1] \in W.first..W.last /\ g[2] \in Nat /\ g[3] \in Nat
      BY <1>1, <3>1 DEF Slice, IInv, SizesInv, Positive
    <3>3. QED
      BY <1>4, <3>1, <3>2 DEF Before
  <2>3. QED
    BY <1>4, <2>1, <2>2 DEF HasRun
<1>8. TypeInv' /\ PlaceInv' /\ SizesInv' /\ BasicInv' /\ ThreadsInv'
  BY <1>1, <1>2, <1>3, <1>4, WorkerPreserves
<1>9. WorkersInv' /\ RanInv'
  BY <1>2, <1>3, <1>6, <1>7, IdlePreserves DEF sizes
<1>10. QED
  BY <1>8, <1>9 DEF IInv

LEMMA RunGroupPreserves ==
  ASSUME IInv, driver = "pthread", NEW w \in DOMAIN workers, RunGroup(w)
  PROVE  IInv'
<1> USE DEF RunGroup
<1> DEFINE W == workers[w]
<1>1. /\ WorkersInv' /\ RanInv' /\ ran' \in [AllGroups -> Nat]
      /\ \E V \in WorkerType : /\ workers' = [workers EXCEPT ![w] = V]
                               /\ V.first = W.first /\ V.last = W.last
                               /\ V.at \in {"group", "cleanup"}
  BY GroupPreserves DEF sizes
<1>2. TypeInv' /\ PlaceInv' /\ SizesInv' /\ BasicInv' /\ ThreadsInv'
  BY <1>1, WorkerPreserves
<1>3. QED
  BY <1>1, <1>2 DEF IInv

LEMMA CleanupPreserves ==
  ASSUME IInv, driver = "pthread", NEW w \in DOMAIN workers, Cleanup(w)
  PROVE  IInv'
<1> USE DEF Cleanup
<1> DEFINE U == workers[w]
           W == [U EXCEPT !.at = "exited", !.mem = @ \ Freed]
<1>1. workers \in Seq(WorkerType) /\ U \in WorkerType /\ U.at = "cleanup" /\ WorkerOK(U)
      /\ ran \in [AllGroups -> Nat]
  BY DEF IInv, TypeInv, WorkersInv, PlaceInv, Preparing
<1>2. W \in WorkerType
  BY <1>1 DEF WorkerType, Places
<1>3. workers' = [workers EXCEPT ![w] = W]
  OBVIOUS
<1>4. /\ W.at = "exited" /\ W.mem = U.mem \ Freed /\ W.ptr = U.ptr
      /\ W.first = U.first /\ W.last = U.last /\ W.gid = U.gid
  BY <1>1 DEF WorkerType
<1> HIDE DEF W
<1>5. Slice(W) = Slice(U)
  BY <1>4 DEF Slice
<1>6. WorkerOK(W)
  BY <1>1, <1>4, <1>5 DEF WorkerOK
<1>7. \A g \in AllGroups : HasRun(W, g) <=> HasRun(U, g)
  BY <1>1, <1>4, <1>5 DEF HasRun
<1>8. TypeInv' /\ PlaceInv' /\ SizesInv' /\ BasicInv' /\ ThreadsInv'
  BY <1>1, <1>2, <1>3, <1>4, WorkerPreserves
<1>9. WorkersInv' /\ RanInv'
  BY <1>2, <1>3, <1>6, <1>7, IdlePreserves DEF sizes
<1>10. QED
  BY <1>8, <1>9 DEF IInv
-----------------------------------------------------------------------------
(* The basic driver.                                                       *)

LEMMA BasicSetupPreserves == IInv /\ BasicSetup => IInv'
<1> SUFFICES ASSUME IInv, BasicSetup PROVE IInv'
  OBVIOUS
<1> USE DEF BasicSetup, sizes
<1> DEFINE W == [at |-> "group", first |-> 0, last |-> num_groups[1] - 1, gid |-> <<0, 0, 0>>,
                 mem |-> Allocated, ptr |-> device_ptrs(device - 1)]
<1>1. /\ driver = "basic" /\ pc = "start" /\ pc' = "basic" /\ num_groups \in Positive
      /\ ran = [g \in AllGroups |-> 0] /\ ran \in [AllGroups -> Nat]
  BY DEF IInv, PlaceInv, SizesInv, TypeInv, Preparing
<1>2. W \in WorkerType
  BY <1>1, AllocatedType, PointerType DEF WorkerType, Places, Positive
<1>3. /\ W.at = "group" /\ W.first = 0 /\ W.last = num_groups[1] - 1 /\ W.gid = <<0, 0, 0>>
      /\ W.mem = Allocated /\ W.ptr = device_ptrs(device - 1)
  OBVIOUS
<1>4. workers' = <<W>>
  OBVIOUS
<1> HIDE DEF W
<1>5. workers' \in Seq(WorkerType) /\ Len(workers') = 1 /\ DOMAIN workers' = {1} /\ workers'[1] = W
  BY <1>2, <1>4
<1>6. TypeInv' /\ PlaceInv' /\ SizesInv'
  BY <1>1, <1>5 DEF IInv, TypeInv, PlaceInv, SizesInv, Preparing
<1>7. BasicInv' /\ ThreadsInv'
  BY <1>1, <1>3, <1>5 DEF BasicInv, ThreadsInv
<1>8. Slice(W)' = Slice(W) /\ W' = W
  BY DEF Slice, W
<1>9. WorkersInv'
  <2>1. W.gid \in Slice(W)
    BY <1>1, <1>3 DEF Slice, Positive
  <2>2. WorkerOK(W)'
    BY <1>3, <1>8, <2>1 DEF WorkerOK
  <2>3. QED
    BY <1>5, <1>8, <2>2 DEF WorkersInv
<1>10. RanInv'
  <2>1. ASSUME NEW g PROVE ~HasRun(W, g)'
    <3>1. ASSUME NEW h \in Slice(W) PROVE ~Before(h, <<0, 0, 0>>)
      <4>1. h[1] \in 0..(num_groups[1] - 1) /\ h[2] \in Nat /\ h[3] \in Nat
        BY <1>1, <1>3 DEF Slice, Positive
      <4>2. QED
        BY <4>1 DEF Before
    <3>2. QED
      BY <1>3, <1>8, <3>1 DEF HasRun
  <2>2. QED
    BY <1>1, <1>5, <1>8, <2>1 DEF RanInv
<1>11. QED
  BY <1>6, <1>7, <1>9, <1>10 DEF IInv

LEMMA BasicGroupPreserves == IInv /\ BasicGroup => IInv'
<1> SUFFICES ASSUME IInv, BasicGroup PROVE IInv'
  OBVIOUS
<1> USE DEF BasicGroup, sizes
<1> DEFINE W == workers[1]
<1>1. /\ driver = "basic" /\ pc = "basic" /\ Len(workers) = 1 /\ DOMAIN workers = {1}
      /\ W.first = 0 /\ W.last = num_groups[1] - 1 /\ W.at = "group"
      /\ workers \in Seq(WorkerType)
  BY DEF IInv, PlaceInv, BasicInv, TypeInv
<1>2. /\ WorkersInv' /\ RanInv' /\ ran' \in [AllGroups -> Nat]
      /\ \E V \in WorkerType : /\ workers' = [workers EXCEPT ![1] = V]
                               /\ V.first = W.first /\ V.last = W.last
                               /\ V.at \in {"group", "cleanup"}
  <2>1. 1 \in DOMAIN workers /\ driver # "hsa" /\ UNCHANGED <<driver, num_groups>>
    BY <1>1
  <2>2. /\ ran' = [ran EXCEPT ![W.gid] = @ + 1]
        /\ workers' = IF After(W.gid, W.first, W.last) = <<>>
                      THEN [workers EXCEPT ![1].at = "cleanup"]
                      ELSE [workers EXCEPT ![1].gid = After(W.gid, W.first, W.last)]
    BY <1>1
  <2> DEFINE V1 == W
  <2>3. V1 = workers[1] /\ V1.at = "group"
    BY <1>1
  <2> HIDE DEF BasicGroup, V1
  <2>4. QED
    BY <2>1, <2>2, <2>3, GroupPreserves
<1>3. PICK V \in WorkerType : /\ workers' = [workers EXCEPT ![1] = V]
                              /\ V.first = W.first /\ V.last = W.last
                              /\ V.at \in {"group", "cleanup"}
  BY <1>2
<1> HIDE DEF BasicGroup
<1>4. UNCHANGED <<driver, pc, global_size, local_size, num_groups, max_threads, i, first_gid_x,
                  last_gid_x, status>>
  BY DEF BasicGroup
<1>5. workers' \in Seq(WorkerType) /\ Len(workers') = 1 /\ workers'[1] = V
  BY <1>1, <1>3
<1>6. TypeInv' /\ PlaceInv' /\ SizesInv'
  BY <1>1, <1>2, <1>4, <1>5 DEF IInv, TypeInv, PlaceInv, SizesInv, Preparing
<1>7. BasicInv' /\ ThreadsInv'
  BY <1>1, <1>3, <1>4, <1>5 DEF BasicInv, ThreadsInv
<1>8. QED
  BY <1>2, <1>6, <1>7 DEF IInv

LEMMA BasicCleanupPreserves == IInv /\ BasicCleanup => IInv'
<1> SUFFICES ASSUME IInv, BasicCleanup PROVE IInv'
  OBVIOUS
<1> USE DEF BasicCleanup, sizes
<1> DEFINE U == workers[1]
           W == [U EXCEPT !.at = "exited", !.mem = @ \ Freed]
<1>1. /\ driver = "basic" /\ pc = "basic" /\ pc' = "returned"
      /\ Len(workers) = 1 /\ DOMAIN workers = {1} /\ workers \in Seq(WorkerType)
      /\ U.first = 0 /\ U.last = num_groups[1] - 1 /\ U.at = "cleanup"
      /\ U \in WorkerType /\ WorkerOK(U)
  <2>1. /\ driver = "basic" /\ pc = "basic" /\ pc' = "returned" /\ workers \in Seq(WorkerType)
    BY DEF IInv, PlaceInv, TypeInv
  <2>2. /\ Len(workers) = 1 /\ U.first = 0 /\ U.last = num_groups[1] - 1 /\ U.at = "cleanup"
    BY <2>1 DEF IInv, BasicInv
  <2>3. DOMAIN workers = {1} /\ U \in WorkerType
    <3> HIDE DEF BasicCleanup
    <3>1. DOMAIN workers = {1}
      BY <2>1, <2>2
    <3>2. QED
      BY <2>1, <3>1, ElementOf
  <2>4. WorkerOK(U)
    BY <2>1, <2>3 DEF IInv, WorkersInv
  <2>5. QED
    BY <2>1, <2>2, <2>3, <2>4
<1>2. W \in WorkerType
  BY <1>1 DEF WorkerType, Places
<1>3. workers' = [workers EXCEPT ![1] = W]
  OBVIOUS
<1>4. /\ W.at = "exited" /\ W.mem = U.mem \ Freed /\ W.ptr = U.ptr
      /\ W.first = U.first /\ W.last = U.last /\ W.gid = U.gid
  BY <1>1 DEF WorkerType
<1> HIDE DEF W
<1>5. workers' \in Seq(WorkerType) /\ Len(workers') = 1 /\ workers'[1] = W
  <2> HIDE DEF BasicCleanup, U
  <2>1. 1 \in DOMAIN workers
    BY <1>1
  <2> QED
    BY <1>1, <1>2, <1>3, <2>1, ElementReplaced
<1>6. Slice(W) = Slice(U)
  BY <1>4 DEF Slice
<1>7. WorkerOK(W)
  BY <1>1, <1>4, <1>6 DEF WorkerOK
<1>8. \A g \in AllGroups : HasRun(W, g) <=> HasRun(U, g)
  BY <1>1, <1>4, <1>6 DEF HasRun
<1>9. WorkersInv' /\ RanInv'
  BY <1>1, <1>2, <1>3, <1>7, <1>8, IdlePreserves
<1>10. TypeInv' /\ PlaceInv' /\ SizesInv'
  BY <1>1, <1>5 DEF IInv, TypeInv, PlaceInv, SizesInv, Preparing
<1>11. BasicInv' /\ ThreadsInv'
  BY <1>1, <1>4, <1>5 DEF BasicInv, ThreadsInv
<1>12. QED
  BY <1>9, <1>10, <1>11 DEF IInv

LEMMA BasicCompletePreserves == IInv /\ BasicComplete => IInv'
<1> SUFFICES ASSUME IInv, BasicComplete PROVE IInv'
  OBVIOUS
<1> USE DEF BasicComplete, sizes
<1>1. TypeInv' /\ PlaceInv' /\ SizesInv'
  BY DEF IInv, TypeInv, PlaceInv, SizesInv, Preparing
<1>2. BasicInv' /\ ThreadsInv'
  BY DEF IInv, BasicInv, ThreadsInv, PlaceInv
<1>3. WorkersInv' /\ RanInv'
  BY StillPreserves
<1>4. QED
  BY <1>1, <1>2, <1>3 DEF IInv
-----------------------------------------------------------------------------
(* The properties on the pthread and basic devices.                        *)

LEMMA InitInv == Init => IInv
<1> SUFFICES ASSUME Init PROVE IInv
  OBVIOUS
<1> USE DEF Init
<1>1. TypeInv
  BY DriversAssumption, ThreadsAssumption DEF TypeInv, Preparing
<1>2. PlaceInv /\ SizesInv /\ ThreadsInv /\ BasicInv /\ WorkersInv /\ RanInv
  BY DEF PlaceInv, SizesInv, ThreadsInv, BasicInv, WorkersInv, RanInv, Preparing
<1>3. QED
  BY <1>1, <1>2 DEF IInv

LEMMA UnchangedInv == IInv /\ UNCHANGED vars => IInv'
<1> SUFFICES ASSUME IInv, UNCHANGED vars PROVE IInv'
  OBVIOUS
<1> USE DEF vars, sizes
<1>1. TypeInv' /\ PlaceInv' /\ SizesInv' /\ BasicInv'
  BY DEF IInv, TypeInv, PlaceInv, SizesInv, BasicInv
<1>2. ThreadsInv'
  <2>1. /\ num_threads' = num_threads /\ wgs_per_thread' = wgs_per_thread
        /\ \A w : LastX(w)' = LastX(w)
    BY DEF num_threads, wgs_per_thread, LastX
  <2>2. QED
    BY <2>1 DEF IInv, ThreadsInv
<1>3. WorkersInv' /\ RanInv'
  BY StillPreserves
<1>4. QED
  BY <1>1, <1>2, <1>3 DEF IInv

LEMMA NextInv == IInv /\ [Next]_vars => IInv'
<1> SUFFICES ASSUME IInv, [Next]_vars PROVE IInv'
  OBVIOUS
<1>1. CASE Enqueue
  BY <1>1, EnqueuePreserves DEF Enqueue
<1>2. CASE Start
  BY <1>2, StartPreserves
<1>3. CASE CreateThread
  BY <1>3, CreateThreadPreserves
<1>4. CASE AllCreated
  BY <1>4, AllCreatedPreserves
<1>5. CASE JoinThread
  BY <1>5, JoinThreadPreserves
<1>6. CASE Return
  BY <1>6, ReturnPreserves
<1>7. CASE Basic
  BY <1>7, BasicSetupPreserves, BasicGroupPreserves, BasicCleanupPreserves,
     BasicCompletePreserves DEF Basic
<1>8. ASSUME NEW w \in WorkerIds, Work(w) PROVE IInv'
  BY <1>8, SetupPreserves, RunGroupPreserves, CleanupPreserves DEF Work
<1>9. CASE Over \/ UNCHANGED vars
  BY <1>9, UnchangedInv DEF Over
<1>10. QED
  BY <1>1, <1>2, <1>3, <1>4, <1>5, <1>6, <1>7, <1>8, <1>9 DEF Next, Main

\* A worker only ever takes groups of the launch, and none twice.
LEMMA InvGroupsOnce == IInv /\ driver # "hsa" => GroupsOnce
<1> SUFFICES ASSUME IInv, driver # "hsa" PROVE GroupsOnce
  OBVIOUS
<1>1. \A g \in AllGroups : ran[g] <= 1
  BY DEF IInv, RanInv
<1>2. ASSUME NEW w \in DOMAIN workers PROVE workers[w].gid \in GroupsOf(num_groups)
  <2> DEFINE W == workers[w]
  <2>1. W \in WorkerType /\ W.gid \in Slice(W) /\ num_groups \in Positive
    BY DEF IInv, TypeInv, WorkersInv, WorkerOK, PlaceInv, SizesInv, Preparing
  <2>2. W.first \in Int /\ W.last \in Int /\ num_groups[1] \in Nat
    BY <2>1 DEF WorkerType, Positive
  <2>3. 0 <= W.first /\ W.last <= num_groups[1] - 1
    BY SliceWithin
  <2>4. W.first..W.last \subseteq 0..(num_groups[1] - 1)
    BY <2>2, <2>3
  <2>5. QED
    BY <2>1, <2>4 DEF Slice, GroupsOf
<1>3. QED
  BY <1>1, <1>2 DEF GroupsOnce

\* When all workers are gone their slices are the whole launch.
LEMMA SlicesCover ==
  ASSUME IInv, driver # "hsa", pc = "done", NEW g \in GroupsOf(num_groups)
  PROVE  \E w \in DOMAIN workers : g \in Slice(workers[w])
<1>1. /\ num_groups \in Positive /\ max_threads \in Nat \ {0}
      /\ workers \in Seq(WorkerType) /\ DOMAIN workers = 1..Len(workers)
  BY DEF IInv, TypeInv, SizesInv, Preparing
<1>2. /\ g = <<g[1], g[2], g[3]>> /\ g[1] \in 0..(num_groups[1] - 1)
      /\ g[2] \in 0..(num_groups[2] - 1) /\ g[3] \in 0..(num_groups[3] - 1)
  BY DEF GroupsOf
<1>3. CASE driver = "basic"
  BY <1>1, <1>2, <1>3 DEF IInv, BasicInv, Slice
<1>4. CASE driver = "pthread"
  <2> DEFINE t == num_threads
             q == wgs_per_thread
             r == leftover_wgs
             k == g[1] \div q
  <2>1. /\ t \in Nat \ {0} /\ q \in Nat \ {0} /\ r \in Nat /\ num_groups[1] = t * q + r
    BY <1>1, ThreadNumbers
  <2>2. /\ DOMAIN workers = 1..t
        /\ \A w \in 1..t : workers[w].first = (w - 1) * q /\ workers[w].last = LastX(w)
    BY <1>1, <1>4 DEF IInv, ThreadsInv
  <2>3. \E w \in 1..t : (w - 1) * q <= g[1] /\ g[1] <= LastX(w)
    <3> DEFINE x == g[1]
    <3>1. k \in Int /\ x % q \in 0..(q - 1) /\ x = q * k + (x % q) /\ x \in Nat
      <4>1. x \in Nat
        BY <1>1, <1>2 DEF Positive
      <4>2. k = x \div q
        OBVIOUS
      <4> HIDE DEF q, x, k
      <4>3. QED
        BY <2>1, <4>1, <4>2, Division
    <3>2. k >= 0
      <4> HIDE DEF q, x, k
      <4>1. SUFFICES ASSUME k <= -1 PROVE FALSE
        BY <3>1
      <4>2. k * q <= (-1) * q
        BY <2>1, <3>1, <4>1, ProductMonotone
      <4>3. QED
        BY <2>1, <3>1, <4>2
    <3>3. CASE k + 1 < t
      <4>1. LastX(k + 1) = (k + 1) * q - 1
        BY <2>1, <3>1, <3>3 DEF LastX
      <4> HIDE DEF q, x, k, t
      <4>2. (k + 1) * q = k * q + q /\ ((k + 1) - 1) * q = k * q /\ q * k = k * q /\ k * q \in Int
        BY <2>1, <3>1
      <4>3. x <= LastX(k + 1) /\ ((k + 1) - 1) * q <= x
        BY <2>1, <3>1, <4>1, <4>2
      <4>4. k + 1 \in 1..t
        BY <2>1, <3>1, <3>2, <3>3
      <4>5. QED
        BY <4>3, <4>4 DEF x
    <3>4. CASE k + 1 >= t
      <4>1. LastX(t) = num_groups[1] - 1
        BY DEF LastX
      <4> HIDE DEF q, x, k, t
      <4>2. (t - 1) * q <= k * q
        BY <2>1, <3>1, <3>4, ProductMonotone
      <4>3. k * q = q * k /\ k * q \in Int /\ (t - 1) * q \in Int
        BY <2>1, <3>1
      <4>4. (t - 1) * q <= x
        BY <2>1, <3>1, <4>2, <4>3
      <4>5. x <= LastX(t)
        BY <1>1, <1>2, <4>1 DEF x, Positive
      <4>6. QED
        BY <2>1, <4>4, <4>5 DEF x
    <3>5. QED
      BY <2>1, <3>1, <3>3, <3>4
  <2>4. PICK w \in 1..t : (w - 1) * q <= g[1] /\ g[1] <= LastX(w)
    BY <2>3
  <2>5. g[1] \in workers[w].first..workers[w].last
    <3>1. workers[w] \in WorkerType
      BY <1>1, <2>2, ElementOf
    <3>2. workers[w].first \in Int /\ workers[w].last \in Int
      BY <3>1 DEF WorkerType
    <3>3. g[1] \in Int
      BY <1>1, <1>2 DEF Positive
    <3> HIDE DEF q, t
    <3>4. QED
      BY <2>2, <2>4, <3>2, <3>3
  <2>6. QED
    BY <1>2, <2>2, <2>5 DEF Slice
<1>5. QED
  BY <1>3, <1>4 DEF IInv, TypeInv

LEMMA InvCompleteMeansDone == IInv /\ driver # "hsa" => CompleteMeansDone
<1> SUFFICES ASSUME IInv, driver # "hsa", status = "complete"
             PROVE  /\ \A g \in AllGroups :
                         ran[g] = (IF g \in GroupsWith(global_size, local_size) THEN 1 ELSE 0)
                    /\ \A w \in DOMAIN workers : workers[w].at = "exited"
  BY DEF CompleteMeansDone
<1>1. /\ pc = "done" /\ num_groups \in Positive /\ workers \in Seq(WorkerType)
      /\ GroupsWith(global_size, local_size) = GroupsOf(num_groups)
      /\ DOMAIN workers = 1..Len(workers) /\ max_threads \in Nat \ {0}
  BY DEF IInv, PlaceInv, SizesInv, TypeInv, Preparing
<1>2. \A w \in DOMAIN workers : workers[w].at = "exited"
  <2>1. CASE driver = "basic"
    BY <1>1, <2>1 DEF IInv, BasicInv
  <2>2. CASE driver = "pthread"
    BY <1>1, <2>2 DEF IInv, ThreadsInv
  <2>3. QED
    BY <2>1, <2>2 DEF IInv, TypeInv
<1>3. ASSUME NEW g \in AllGroups
      PROVE  (\E w \in DOMAIN workers : HasRun(workers[w], g)) <=> g \in GroupsOf(num_groups)
  <2>1. ASSUME NEW w \in DOMAIN workers, g \in Slice(workers[w]) PROVE g \in GroupsOf(num_groups)
    <3> DEFINE W == workers[w]
    <3>0. W \in WorkerType
      BY <1>1
    <3>1. W.first \in Int /\ W.last \in Int /\ num_groups[1] \in Nat
      BY <1>1, <3>0 DEF WorkerType, Positive
    <3>2. 0 <= workers[w].first /\ workers[w].last <= num_groups[1] - 1
      BY SliceWithin
    <3>3. workers[w].first..workers[w].last \subseteq 0..(num_groups[1] - 1)
      BY <3>1, <3>2
    <3>4. QED
      BY <2>1, <3>3 DEF Slice, GroupsOf
  <2>2. QED
    BY <1>1, <1>2, <2>1, SlicesCover DEF HasRun
<1>4. QED
  BY <1>1, <1>2, <1>3 DEF IInv, RanInv
-----------------------------------------------------------------------------
(* The invariant of the HSA driver.                                        *)

HsaTypeInv ==
  /\ write_index \in Nat /\ read_index \in Nat /\ doorbell \in Int /\ signal \in Int
  /\ dyn_size \in [DOMAIN Args -> Nat] /\ todo \in SUBSET AllGroups
  /\ DOMAIN ring = 0..(RingSize - 1)

\* The sizes fit the packet.
GridInv == pc \notin Preparing => \A d \in 1..3 : global_size[d] < 2^16 /\ local_size[d] < 2^16

\* The agent has nothing to do.
Idle == read_index = write_index /\ doorbell = write_index - 1 /\ todo = {}

\* No group has been executed.
Untouched == ran = [g \in AllGroups |-> 0]

\* The packet is there and the agent has yet to take it.
Posted == /\ read_index + 1 = write_index /\ doorbell = read_index /\ todo = {} /\ signal = 1
          /\ ring[read_index % RingSize] = Packet
          /\ Untouched

GroupsHere == GroupsWith(global_size, local_size)

\* The agent executes the packet, has executed it, or has given it up.
Taken ==
  /\ read_index = write_index /\ doorbell = write_index - 1
  /\ \/ /\ signal = 1 /\ todo # {} /\ todo \subseteq GroupsHere
        /\ \A g \in AllGroups : ran[g] = IF g \in GroupsHere \ todo THEN 1 ELSE 0
     \/ /\ signal = 0 /\ todo = {}
        /\ \A g \in AllGroups : ran[g] = IF g \in GroupsHere THEN 1 ELSE 0
     \/ /\ signal = -1 /\ todo = {}
        /\ \A g \in AllGroups : ran[g] <= 1

\* The launch of a GPU.
AgentInv ==
  /\ driver # "hsa" \/ pc \in Preparing \cup {"start"} => Idle /\ signal = 0
  /\ driver = "hsa" /\ pc = "dispatch" =>
       Idle /\ signal = 1 /\ Untouched /\ ring[write_index % RingSize] = Packet
  /\ driver = "hsa" /\ pc = "wait" => Posted \/ Taken
  /\ driver = "hsa" /\ pc \in {"returned", "done"} => Taken /\ signal < 1

\* The caller, and its kernarg buffer.
CallerInv ==
  driver = "hsa" /\ pc \in {"dispatch", "wait", "returned", "done"} =>
    /\ Len(workers) = 1
    /\ pc \in {"dispatch", "wait"} => workers[1].at = "dispatch" /\ workers[1].mem = {0}
    /\ pc \in {"returned", "done"} => /\ workers[1].at = "exited"
                                      /\ signal = 0 => workers[1].mem = {}

HsaIInv == IInv /\ HsaTypeInv /\ GridInv /\ AgentInv /\ CallerInv
-----------------------------------------------------------------------------
(* The groups of a grid.                                                   *)

LEMMA QuotientBound ==
  ASSUME NEW x \in Nat, NEW g \in Nat \ {0}, NEW l \in Nat \ {0}
  PROVE  x * l < g <=> x \in 0..((g - 1) \div l)
<1> DEFINE q == (g - 1) \div l
           r == (g - 1) % l
<1>1. q \in Int /\ r \in 0..(l - 1) /\ g - 1 = l * q + r /\ x * l \in Int /\ q * l \in Int
  <2>1. g - 1 \in Int /\ x * l \in Int
    OBVIOUS
  <2>2. q \in Int /\ r \in 0..(l - 1) /\ g - 1 = l * q + r
    BY <2>1, Division
  <2> HIDE DEF q, r
  <2>3. QED
    BY <2>1, <2>2
<1> HIDE DEF q, r
<1>2. ASSUME x <= q PROVE x * l < g
  <2>1. x * l <= q * l
    BY <1>1, <1>2, ProductMonotone
  <2>2. QED
    BY <1>1, <2>1
<1>3. ASSUME x > q PROVE ~(x * l < g)
  <2>1. (q + 1) * l <= x * l
    BY <1>1, <1>3, ProductMonotone
  <2>2. (q + 1) * l = q * l + l
    BY <1>1
  <2>3. QED
    BY <1>1, <2>1, <2>2
<1>4. QED
  BY <1>1, <1>2, <1>3 DEF q

LEMMA GroupNumbers ==
  ASSUME NEW global \in Positive, NEW local \in Positive
  PROVE  /\ GroupsWith(global, local) \subseteq Nat \X Nat \X Nat
         /\ <<0, 0, 0>> \in GroupsWith(global, local)
<1>1. \A d \in 1..3 : (global[d] - 1) \div local[d] \in Nat
  BY DEF Positive
<1>2. QED
  BY <1>1 DEF GroupsWith

LEMMA AllGroupNumbers == AllGroups \subseteq Nat \X Nat \X Nat
<1> SUFFICES ASSUME NEW g \in AllGroups PROVE g \in Nat \X Nat \X Nat
  OBVIOUS
<1>1. PICK l \in Launches : /\ \A d \in 1..l.work_dim : l.global[d] > 0
                            /\ g \in GroupsWith(Extended(l, l.global), LocalSizeOf(l))
  BY DEF AllGroups
<1>2. \A d \in 1..3 : Extended(l, l.global)[d] # 0
  BY <1>1, LaunchesAssumption DEF Extended
<1>3. QED
  BY <1>1, <1>2, LaunchSizes, GroupNumbers

\* What the agent executes for a grid are the groups that have a work-item.
LEMMA GridGroups ==
  ASSUME NEW global \in Positive, NEW local \in Positive,
         GroupsWith(global, local) \subseteq AllGroups
  PROVE  {g \in AllGroups : \A d \in 1..3 : g[d] * local[d] < global[d]} = GroupsWith(global, local)
<1>1. ASSUME NEW g \in AllGroups
      PROVE  (\A d \in 1..3 : g[d] * local[d] < global[d]) <=> g \in GroupsWith(global, local)
  <2>1. g = <<g[1], g[2], g[3]>> /\ \A d \in 1..3 : g[d] \in Nat
    BY AllGroupNumbers
  <2>2. \A d \in 1..3 : g[d] * local[d] < global[d] <=> g[d] \in 0..((global[d] - 1) \div local[d])
    BY <2>1, QuotientBound DEF Positive
  <2>3. (\A d \in 1..3 : g[d] * local[d] < global[d]) <=>
          (\A d \in 1..3 : g[d] \in 0..((global[d] - 1) \div local[d]))
    BY <2>2
  <2>4. QED
    BY <2>1, <2>3 DEF GroupsWith
<1>2. QED
  BY <1>1
-----------------------------------------------------------------------------
(* The steps of the HSA driver.                                            *)

LEMMA HsaInitInv == HsaInit => HsaIInv
<1> SUFFICES ASSUME HsaInit PROVE HsaIInv
  OBVIOUS
<1>1. IInv
  BY InitInv DEF HsaInit
<1>2. HsaTypeInv
  BY SizesAssumption DEF HsaInit, HsaTypeInv
<1>3. GridInv /\ AgentInv /\ CallerInv
  BY SizesAssumption DEF HsaInit, Init, GridInv, AgentInv, CallerInv, Idle, Preparing
<1>4. QED
  BY <1>1, <1>2, <1>3 DEF HsaIInv

\* The packet depends on nothing that changes once it is written.
LEMMA PacketStays == UNCHANGED <<dyn_size, global_size, local_size>> => Packet' = Packet
<1> SUFFICES ASSUME UNCHANGED <<dyn_size, global_size, local_size>> PROVE Packet' = Packet
  OBVIOUS
<1>1. LocalBytes(dyn_size)' = LocalBytes(dyn_size)
  BY DEF LocalBytes
<1>2. QED
  BY <1>1 DEF Packet, group_segment_size

\* A launch of a GPU takes no step of the other drivers but these.
LEMMA OtherSteps ==
  ASSUME HsaIInv, [Next]_vars
  PROVE  /\ driver' = driver
         /\ driver = "hsa" => \/ Enqueue
                              \/ BasicComplete
                              \/ UNCHANGED vars
<1>1. driver' = driver
  BY DEF Next, Main, Basic, Enqueue, Work, Over, vars, clEnqueueNDRangeKernel, Start, CreateThread,
         AllCreated, JoinThread, Return, BasicSetup, BasicGroup, BasicCleanup, BasicComplete,
         Setup, RunGroup, Cleanup
<1>2. ASSUME driver = "hsa" PROVE Enqueue \/ BasicComplete \/ UNCHANGED vars
  <2>1. pc \notin {"create", "join", "basic"}
    BY <1>2 DEF HsaIInv, IInv, PlaceInv
  <2>2. QED
    BY <1>2, <2>1 DEF Next, Main, Basic, Work, Over, Start, CreateThread, AllCreated, JoinThread,
         Return, Joined, BasicSetup, BasicGroup, BasicCleanup
<1>3. QED
  BY <1>1, <1>2

\* The launches of the other drivers, and the enqueueing call.
LEMMA OthersPreserve == HsaIInv /\ [Next]_vars /\ UNCHANGED hsaVars => HsaIInv'
<1> SUFFICES ASSUME HsaIInv, [Next]_vars, UNCHANGED hsaVars PROVE HsaIInv'
  OBVIOUS
<1>1. IInv'
  BY NextInv DEF HsaIInv
<1>2. HsaTypeInv'
  BY DEF HsaIInv, HsaTypeInv, hsaVars
<1>3. GridInv'
  <2>1. CASE Enqueue
    BY <2>1, GridAssumption DEF Enqueue, clEnqueueNDRangeKernel, GridInv, HsaIInv, Preparing, sizes
  <2>2. CASE ~Enqueue
    <3>1. UNCHANGED <<global_size, local_size>> /\ (pc' \in Preparing <=> pc \in Preparing)
      BY <2>2 DEF Next, Main, Basic, Work, Over, vars, Start, CreateThread, Joined, Preparing,
         AllCreated, JoinThread, Return, BasicSetup, BasicGroup, BasicCleanup, BasicComplete,
         Setup, RunGroup, Cleanup, sizes
    <3>2. QED
      BY <3>1 DEF GridInv, HsaIInv
  <2>3. QED
    BY <2>1, <2>2
<1>4. driver' = driver
  BY OtherSteps
<1>5. CASE driver # "hsa"
  <2>1. AgentInv'
    BY <1>4, <1>5 DEF HsaIInv, AgentInv, Idle, hsaVars
  <2>2. CallerInv'
    BY <1>4, <1>5 DEF CallerInv
  <2>3. QED
    BY <1>1, <1>2, <1>3, <2>1, <2>2 DEF HsaIInv
<1>6. CASE driver = "hsa" /\ Enqueue
  <2>1. pc = "enqueue" /\ pc' \in Preparing \cup {"start"}
    BY <1>6 DEF Enqueue, clEnqueueNDRangeKernel, Preparing
  <2>2. Idle' /\ signal' = 0
    BY <2>1 DEF HsaIInv, AgentInv, Idle, hsaVars, Preparing
  <2>3. AgentInv' /\ CallerInv'
    BY <2>1, <2>2 DEF AgentInv, CallerInv, Preparing
  <2>4. QED
    BY <1>1, <1>2, <1>3, <2>3 DEF HsaIInv
<1>7. CASE driver = "hsa" /\ BasicComplete
  <2>1. /\ pc = "returned" /\ pc' = "done"
        /\ UNCHANGED <<global_size, local_size, workers, ran, read_index, write_index, doorbell,
                       signal, todo>>
    BY <1>7 DEF BasicComplete, hsaVars, sizes
  <2>2. Taken' /\ signal' < 1
    <3>1. GroupsHere' = GroupsHere
      BY <2>1 DEF GroupsHere
    <3>2. QED
      BY <1>7, <2>1, <3>1 DEF HsaIInv, AgentInv, Taken
  <2>3. AgentInv' /\ CallerInv'
    BY <1>4, <1>7, <2>1, <2>2 DEF HsaIInv, AgentInv, CallerInv, Preparing
  <2>4. QED
    BY <1>1, <1>2, <1>3, <2>3 DEF HsaIInv
<1>8. CASE driver = "hsa" /\ UNCHANGED vars
  <2>1. UNCHANGED <<pc, global_size, local_size, workers, ran>>
    BY <1>8 DEF vars, sizes
  <2>2. /\ Idle' = Idle /\ Untouched' = Untouched /\ Packet' = Packet /\ GroupsHere' = GroupsHere
    BY <2>1, PacketStays DEF Idle, Untouched, GroupsHere, hsaVars
  <2>3. Posted' = Posted /\ Taken' = Taken
    BY <2>1, <2>2 DEF Posted, Taken, hsaVars
  <2>4. AgentInv' /\ CallerInv'
    BY <1>4, <2>1, <2>2, <2>3 DEF HsaIInv, AgentInv, CallerInv, hsaVars
  <2>5. QED
    BY <1>1, <1>2, <1>3, <2>4 DEF HsaIInv
<1>9. QED
  BY <1>5, <1>6, <1>7, <1>8, OtherSteps

\* A step of a GPU's launch leaves what the other drivers use.
LEMMA GpuStep ==
  ASSUME HsaIInv, driver = "hsa", pc \notin Preparing, pc' \notin Preparing,
         UNCHANGED <<driver, global_size, local_size, num_groups, max_threads, i, first_gid_x,
                     last_gid_x, status>>,
         pc' \in {"start", "dispatch", "wait", "returned"} \/ pc' = pc,
         pc # "done" \/ pc' = "done", pc' # "start" \/ UNCHANGED <<pc, workers, ran>>,
         workers' \in Seq(WorkerType), ran' \in [AllGroups -> Nat]
  PROVE  IInv' /\ GridInv'
<1>1. TypeInv'
  BY DEF HsaIInv, IInv, TypeInv
<1>2. PlaceInv'
  BY DEF HsaIInv, IInv, PlaceInv
<1>3. SizesInv'
  BY DEF HsaIInv, IInv, SizesInv
<1>4. ThreadsInv' /\ BasicInv' /\ WorkersInv' /\ RanInv'
  BY DEF ThreadsInv, BasicInv, WorkersInv, RanInv
<1>5. GridInv'
  BY DEF HsaIInv, GridInv
<1>6. QED
  BY <1>1, <1>2, <1>3, <1>4, <1>5 DEF IInv

LEMMA GpuPlaces ==
  ASSUME HsaIInv
  PROVE  /\ pc = "dispatch" \/ pc = "wait" => driver = "hsa"
         /\ workers \in Seq(WorkerType) /\ ran \in [AllGroups -> Nat]
         /\ driver = "hsa" => pc \in Preparing \cup {"start", "dispatch", "wait", "returned", "done"}
         /\ write_index \in Nat /\ read_index \in Nat /\ doorbell \in Int /\ signal \in Int
BY DEF HsaIInv, IInv, TypeInv, PlaceInv, HsaTypeInv

LEMMA SetKernelArgPreserves == HsaIInv /\ SetKernelArg => HsaIInv'
<1> SUFFICES ASSUME HsaIInv, SetKernelArg PROVE HsaIInv'
  OBVIOUS
<1>1. /\ driver = "hsa" /\ pc = "start"
      /\ UNCHANGED <<vars, ring, write_index, doorbell, read_index, signal, todo>>
  BY DEF SetKernelArg
<1>2. UNCHANGED <<driver, pc, global_size, local_size, num_groups, max_threads, i, first_gid_x,
                  last_gid_x, workers, ran, status>>
  BY <1>1 DEF vars, sizes
<1>3. IInv' /\ GridInv'
  BY <1>1, <1>2, GpuPlaces, GpuStep DEF Preparing
<1>4. HsaTypeInv'
  <2>1. PICK a \in 1..num_args, s \in LocalSizes : dyn_size' = [dyn_size EXCEPT ![a] = s]
    BY DEF SetKernelArg
  <2>2. dyn_size' \in [DOMAIN Args -> Nat]
    BY <2>1, SizesAssumption DEF HsaIInv, HsaTypeInv
  <2>3. AllGroups' = AllGroups
    BY DEF AllGroups
  <2>4. QED
    BY <1>1, <2>2, <2>3 DEF HsaIInv, HsaTypeInv
<1>5. AgentInv' /\ CallerInv'
  BY <1>1, <1>2 DEF HsaIInv, AgentInv, CallerInv, Idle
<1>6. QED
  BY <1>3, <1>4, <1>5 DEF HsaIInv

LEMMA PacketType == Packet.ptr \in Int
<1>1. \A d : device_ptrs(d) \in Int
  BY DevicesAssumption DEF device_ptrs
<1>2. QED
  BY <1>1 DEF Packet

LEMMA HsaSetupPreserves == HsaIInv /\ HsaSetup => HsaIInv'
<1> SUFFICES ASSUME HsaIInv, HsaSetup PROVE HsaIInv'
  OBVIOUS
<1> DEFINE W == [at |-> "dispatch", first |-> 0, last |-> num_groups[1] - 1, gid |-> <<0, 0, 0>>,
                 mem |-> {0}, ptr |-> Packet.ptr]
<1>1. /\ driver = "hsa" /\ pc = "start" /\ pc' = "dispatch" /\ signal' = 1
      /\ ring' = [ring EXCEPT ![write_index % RingSize] = Packet]
      /\ UNCHANGED <<driver, global_size, local_size, num_groups, max_threads, i, first_gid_x,
                     last_gid_x, ran, status, dyn_size, write_index, doorbell, read_index, todo>>
  BY DEF HsaSetup, sizes
<1>2. workers' = <<W>>
  BY DEF HsaSetup
<1>3. W \in WorkerType
  <2>1. num_groups[1] - 1 \in Int
    BY <1>1 DEF HsaIInv, IInv, SizesInv, Preparing
  <2>2. QED
    BY <2>1, PacketType DEF WorkerType, Places
<1>4. W.at = "dispatch" /\ W.mem = {0}
  OBVIOUS
<1> HIDE DEF W
<1>5. workers' \in Seq(WorkerType) /\ Len(workers') = 1 /\ workers'[1] = W
  BY <1>2, <1>3
<1>6. IInv' /\ GridInv'
  BY <1>1, <1>5, GpuPlaces, GpuStep DEF Preparing
<1>7. HsaTypeInv'
  BY <1>1 DEF HsaIInv, HsaTypeInv
<1>8. AgentInv'
  <2>1. write_index % RingSize \in 0..(RingSize - 1)
    BY SizesAssumption, GpuPlaces
  <2>2. ring'[write_index % RingSize] = Packet
    BY <1>1, <2>1 DEF HsaIInv, HsaTypeInv
  <2>3. Packet' = Packet
    BY <1>1, PacketStays
  <2>4. Idle' /\ Untouched'
    BY <1>1 DEF HsaIInv, AgentInv, Idle, Untouched, IInv, PlaceInv
  <2>5. QED
    BY <1>1, <2>2, <2>3, <2>4 DEF AgentInv, Preparing
<1>9. CallerInv'
  BY <1>1, <1>4, <1>5 DEF CallerInv
<1>10. QED
  BY <1>6, <1>7, <1>8, <1>9 DEF HsaIInv

LEMMA HsaDispatchPreserves == HsaIInv /\ HsaDispatch => HsaIInv'
<1> SUFFICES ASSUME HsaIInv, HsaDispatch PROVE HsaIInv'
  OBVIOUS
<1>1. /\ driver = "hsa" /\ pc = "dispatch" /\ pc' = "wait"
      /\ write_index' = write_index + 1 /\ doorbell' = write_index
      /\ UNCHANGED <<driver, global_size, local_size, num_groups, max_threads, i, first_gid_x,
                     last_gid_x, workers, ran, status, dyn_size, ring, read_index, signal, todo>>
  BY GpuPlaces DEF HsaDispatch, sizes
<1>2. IInv' /\ GridInv'
  BY <1>1, GpuPlaces, GpuStep DEF Preparing
<1>3. HsaTypeInv'
  BY <1>1 DEF HsaIInv, HsaTypeInv
<1>4. AgentInv'
  <2>1. Packet' = Packet
    BY <1>1, PacketStays
  <2>2. Posted'
    BY <1>1, <2>1, GpuPlaces DEF HsaIInv, AgentInv, Posted, Idle, Untouched
  <2>3. QED
    BY <1>1, <2>2 DEF AgentInv, Preparing
<1>5. CallerInv'
  BY <1>1 DEF HsaIInv, CallerInv
<1>6. QED
  BY <1>2, <1>3, <1>4, <1>5 DEF HsaIInv

\* The two ways out of the wait.
LEMMA HsaReturnPreserves == HsaIInv /\ (HsaFinished \/ HsaFailed) => HsaIInv'
<1> SUFFICES ASSUME HsaIInv, HsaFinished \/ HsaFailed PROVE HsaIInv'
  OBVIOUS
<1>1. /\ driver = "hsa" /\ pc = "wait" /\ pc' = "returned" /\ signal < 1
      /\ UNCHANGED <<driver, global_size, local_size, num_groups, max_threads, i, first_gid_x,
                     last_gid_x, ran, status, hsaVars>>
  BY GpuPlaces DEF HsaFinished, HsaFailed, Signalled, sizes
<1>2. /\ Len(workers) = 1 /\ workers[1].mem = {0} /\ workers[1] \in WorkerType
      /\ DOMAIN workers = {1} /\ workers \in Seq(WorkerType)
  <2>1. /\ Len(workers) = 1 /\ workers[1].mem = {0} /\ workers \in Seq(WorkerType)
    BY <1>1, GpuPlaces DEF HsaIInv, CallerInv
  <2>2. DOMAIN workers = {1}
    BY <2>1
  <2>3. QED
    BY <2>1, <2>2, ElementOf
<1>3. PICK W \in WorkerType : /\ workers' = [workers EXCEPT ![1] = W] /\ W.at = "exited"
                              /\ signal >= 0 => W.mem = {}
  <2> DEFINE U == workers[1]
             V == [U EXCEPT !.at = "exited", !.mem = @ \ {0}]
             X == [U EXCEPT !.at = "exited"]
  <2>1. U.mem = {0} /\ U \in WorkerType
    BY <1>2
  <2>2. CASE HsaFinished
    <3>1. workers' = [workers EXCEPT ![1] = V]
      BY <2>2, <1>2 DEF HsaFinished
    <3> HIDE DEF U
    <3>2. V \in WorkerType /\ V.at = "exited" /\ V.mem = {}
      BY <2>1 DEF WorkerType, Places
    <3>3. QED
      BY <3>1, <3>2
  <2>3. CASE HsaFailed
    <3>1. workers' = [workers EXCEPT ![1] = X] /\ ~(signal >= 0)
      BY <2>3, <1>2, GpuPlaces DEF HsaFailed
    <3> HIDE DEF U
    <3>2. X \in WorkerType /\ X.at = "exited"
      BY <2>1 DEF WorkerType, Places
    <3>3. QED
      BY <3>1, <3>2
  <2>4. QED
    BY <2>2, <2>3
<1>4. workers' \in Seq(WorkerType) /\ Len(workers') = 1 /\ workers'[1] = W
  <2>1. 1 \in DOMAIN workers
    BY <1>2
  <2>2. QED
    BY <1>2, <1>3, <2>1, ElementReplaced
<1>5. IInv' /\ GridInv'
  BY <1>1, <1>4, GpuPlaces, GpuStep DEF Preparing
<1>6. HsaTypeInv'
  BY <1>1 DEF HsaIInv, HsaTypeInv, hsaVars
<1>7. AgentInv'
  <2>1. Taken
    BY <1>1 DEF HsaIInv, AgentInv, Posted
  <2>2. GroupsHere' = GroupsHere
    BY <1>1 DEF GroupsHere
  <2>3. Taken'
    BY <1>1, <2>1, <2>2 DEF Taken, hsaVars
  <2>4. QED
    BY <1>1, <2>3 DEF AgentInv, Preparing, hsaVars
<1>8. CallerInv'
  BY <1>1, <1>3, <1>4 DEF CallerInv, hsaVars
<1>9. QED
  BY <1>5, <1>6, <1>7, <1>8 DEF HsaIInv

\* The agent has something to do only while the caller waits.
LEMMA AgentBusy ==
  ASSUME HsaIInv, doorbell >= read_index \/ todo # {}
  PROVE  /\ driver = "hsa" /\ pc = "wait"
         /\ todo # {} => Taken /\ signal = 1
         /\ todo = {} => Posted
<1>1. /\ write_index \in Nat /\ read_index \in Nat /\ doorbell \in Int /\ signal \in Int
  BY GpuPlaces
<1>2. ~Idle
  BY <1>1 DEF Idle
<1>3. Taken => todo # {} /\ signal = 1
  BY <1>1 DEF Taken
<1>4. driver = "hsa" /\ pc = "wait"
  BY <1>1, <1>2, <1>3, GpuPlaces DEF HsaIInv, AgentInv
<1>5. Posted \/ Taken
  BY <1>4 DEF HsaIInv, AgentInv
<1>6. QED
  BY <1>3, <1>4, <1>5 DEF Posted

LEMMA AgentTakesPreserves == HsaIInv /\ AgentTakes => HsaIInv'
<1> SUFFICES ASSUME HsaIInv, AgentTakes PROVE HsaIInv'
  OBVIOUS
<1>1. /\ driver = "hsa" /\ pc = "wait" /\ Posted
  BY AgentBusy DEF AgentTakes
<1>2. /\ read_index' = read_index + 1
      /\ todo' = {g \in AllGroups : \A d \in 1..3 :
                    g[d] * ring[read_index % RingSize].group[d] < ring[read_index % RingSize].grid[d]}
      /\ UNCHANGED <<driver, pc, global_size, local_size, num_groups, max_threads, i, first_gid_x,
                     last_gid_x, workers, ran, status, dyn_size, ring, write_index, doorbell, signal>>
  BY DEF AgentTakes, vars, sizes
<1>3. IInv' /\ GridInv'
  BY <1>1, <1>2, GpuPlaces, GpuStep DEF Preparing
<1>4. HsaTypeInv'
  BY <1>2 DEF HsaIInv, HsaTypeInv
<1>5. /\ global_size \in Positive /\ local_size \in Positive /\ GroupsHere \subseteq AllGroups
      /\ \A d \in 1..3 : global_size[d] < 2^16 /\ local_size[d] < 2^16
  BY <1>1 DEF HsaIInv, IInv, SizesInv, GridInv, GroupsHere, Preparing
<1>6. \A d \in 1..3 : Packet.grid[d] = global_size[d] /\ Packet.group[d] = local_size[d]
  <2>1. 2^16 \in Nat /\ 2^16 > 0
    BY PowerPositive
  <2>2. \A x \in Nat, m \in Nat : x < m => x % m = x
    OBVIOUS
  <2>3. \A d \in 1..3 : global_size[d] % 2^16 = global_size[d] /\ local_size[d] % 2^16 = local_size[d]
    BY <1>5, <2>1, <2>2 DEF Positive
  <2>4. /\ Packet.grid = [d \in 1..3 |-> global_size[d] % 2^16]
        /\ Packet.group = [d \in 1..3 |-> local_size[d] % 2^16]
    BY DEF Packet
  <2>5. QED
    BY <2>3, <2>4
<1>7. todo' = GroupsHere /\ GroupsHere # {}
  <2>1. todo' = {g \in AllGroups : \A d \in 1..3 : g[d] * local_size[d] < global_size[d]}
    BY <1>1, <1>2, <1>6 DEF Posted
  <2>2. QED
    BY <1>5, <2>1, GridGroups, GroupNumbers DEF GroupsHere
<1>8. AgentInv'
  <2>1. GroupsHere' = GroupsHere
    BY <1>2 DEF GroupsHere
  <2>2. \A g \in AllGroups : ran'[g] = IF g \in GroupsHere' \ todo' THEN 1 ELSE 0
    BY <1>1, <1>2, <1>7, <2>1 DEF Posted, Untouched
  <2>3. Taken'
    BY <1>1, <1>2, <1>7, <2>1, <2>2, GpuPlaces DEF Posted, Taken
  <2>4. QED
    BY <1>1, <1>2, <2>3 DEF AgentInv, Preparing
<1>9. CallerInv'
  BY <1>1, <1>2 DEF HsaIInv, CallerInv
<1>10. QED
  BY <1>3, <1>4, <1>8, <1>9 DEF HsaIInv

LEMMA AgentGroupPreserves == HsaIInv /\ AgentGroup => HsaIInv'
<1> SUFFICES ASSUME HsaIInv, AgentGroup PROVE HsaIInv'
  OBVIOUS
<1>1. PICK g \in todo :
        /\ ran' = [ran EXCEPT ![g] = @ + 1] /\ todo' = todo \ {g}
        /\ signal' = IF todo' = {} THEN signal - 1 ELSE signal
        /\ UNCHANGED <<driver, pc, global_size, local_size, num_groups, max_threads, i, first_gid_x,
                       last_gid_x, workers, status, dyn_size, ring, write_index, doorbell,
                       read_index>>
  BY DEF AgentGroup, sizes
<1>2. driver = "hsa" /\ pc = "wait" /\ Taken /\ signal = 1
  BY <1>1, AgentBusy
<1>3. /\ todo \subseteq GroupsHere /\ GroupsHere \subseteq AllGroups /\ g \in AllGroups
      /\ ran \in [AllGroups -> Nat]
      /\ \A h \in AllGroups : ran[h] = IF h \in GroupsHere \ todo THEN 1 ELSE 0
  BY <1>1, <1>2, GpuPlaces DEF Taken, HsaIInv, IInv, SizesInv, GroupsHere, Preparing
<1>4. ran' \in [AllGroups -> Nat]
  BY <1>1, <1>3
<1>5. IInv' /\ GridInv'
  BY <1>1, <1>2, <1>4, GpuPlaces, GpuStep DEF Preparing
<1>6. HsaTypeInv'
  BY <1>1, <1>2 DEF HsaIInv, HsaTypeInv
<1>7. AgentInv'
  <2>1. GroupsHere' = GroupsHere
    BY <1>1 DEF GroupsHere
  <2>2. \A h \in AllGroups : ran'[h] = IF h \in GroupsHere \ todo' THEN 1 ELSE 0
    BY <1>1, <1>3
  <2>3. CASE todo' = {}
    <3>1. signal' = 0 /\ \A h \in AllGroups : ran'[h] = IF h \in GroupsHere THEN 1 ELSE 0
      BY <1>1, <1>2, <2>2, <2>3
    <3>2. Taken'
      BY <1>1, <1>2, <2>1, <2>3, <3>1 DEF Taken
    <3>3. QED
      BY <1>1, <1>2, <3>2 DEF AgentInv, Preparing
  <2>4. CASE todo' # {}
    <3>1. signal' = 1
      BY <1>1, <1>2, <2>4
    <3>2. todo' \subseteq GroupsHere'
      BY <1>1, <1>3, <2>1
    <3>3. Taken'
      BY <1>1, <1>2, <2>1, <2>2, <2>4, <3>1, <3>2 DEF Taken
    <3>4. QED
      BY <1>1, <1>2, <3>3 DEF AgentInv, Preparing
  <2>5. QED
    BY <2>3, <2>4
<1>8. CallerInv'
  BY <1>1, <1>2 DEF HsaIInv, CallerInv
<1>9. QED
  BY <1>5, <1>6, <1>7, <1>8 DEF HsaIInv

LEMMA AgentFailsPreserves == HsaIInv /\ AgentFails => HsaIInv'
<1> SUFFICES ASSUME HsaIInv, AgentFails PROVE HsaIInv'
  OBVIOUS
<1>1. /\ todo # {} /\ todo' = {} /\ signal' = -1
      /\ UNCHANGED <<driver, pc, global_size, local_size, num_groups, max_threads, i, first_gid_x,
                     last_gid_x, workers, ran, status, dyn_size, ring, write_index, doorbell,
                     read_index>>
  BY DEF AgentFails, vars, sizes
<1>2. driver = "hsa" /\ pc = "wait" /\ Taken /\ signal = 1
  BY <1>1, AgentBusy
<1>3. IInv' /\ GridInv'
  BY <1>1, <1>2, GpuPlaces, GpuStep DEF Preparing
<1>4. HsaTypeInv'
  BY <1>1 DEF HsaIInv, HsaTypeInv
<1>5. AgentInv'
  <2>1. \A g \in AllGroups : ran'[g] <= 1
    BY <1>1, <1>2 DEF Taken
  <2>2. Taken'
    BY <1>1, <1>2, <2>1 DEF Taken
  <2>3. QED
    BY <1>1, <1>2, <2>2 DEF AgentInv, Preparing
<1>6. CallerInv'
  BY <1>1, <1>2 DEF HsaIInv, CallerInv
<1>7. QED
  BY <1>3, <1>4, <1>5, <1>6 DEF HsaIInv

LEMMA HsaNextInv == HsaIInv /\ [HsaNext]_<<vars, hsaVars>> => HsaIInv'
BY OthersPreserve, SetKernelArgPreserves, HsaSetupPreserves, HsaDispatchPreserves,
   HsaReturnPreserves, AgentTakesPreserves, AgentGroupPreserves, AgentFailsPreserves
   DEF HsaNext, Hsa, Agent
-----------------------------------------------------------------------------
(* The theorems, for launches on any of the devices.                       *)

\* The invariant of the launches of all drivers.
THEOREM LaunchInvariant == HsaSpec => []HsaIInv
<1>1. HsaInit => HsaIInv
  BY HsaInitInv
<1>2. HsaIInv /\ [HsaNext]_<<vars, hsaVars>> => HsaIInv'
  BY HsaNextInv
<1>3. QED
  BY <1>1, <1>2, PTL DEF HsaSpec

LEMMA HsaInvGroupsOnce == HsaIInv => GroupsOnce
<1> SUFFICES ASSUME HsaIInv PROVE GroupsOnce
  OBVIOUS
<1>1. CASE driver # "hsa"
  BY <1>1, InvGroupsOnce DEF HsaIInv
<1>2. CASE driver = "hsa"
  <2>1. \A g \in AllGroups : ran[g] <= 1
    <3>1. Untouched \/ Taken
      BY <1>2, GpuPlaces DEF HsaIInv, AgentInv, IInv, PlaceInv, Posted, Untouched
    <3>2. QED
      BY <3>1 DEF Taken, Untouched
  <2>2. \A w \in DOMAIN workers : workers[w].at # "group"
    <3>1. CASE workers = <<>>
      BY <3>1
    <3>2. CASE workers # <<>>
      <4>1. pc \in {"dispatch", "wait", "returned", "done"}
        BY <1>2, <3>2, GpuPlaces DEF HsaIInv, IInv, PlaceInv
      <4>2. Len(workers) = 1 /\ workers[1].at \in {"dispatch", "exited"}
        BY <1>2, <4>1 DEF HsaIInv, CallerInv
      <4>3. DOMAIN workers = {1}
        BY <4>2, GpuPlaces
      <4>4. QED
        BY <4>2, <4>3
    <3>3. QED
      BY <3>1, <3>2
  <2>3. QED
    BY <2>1, <2>2 DEF GroupsOnce
<1>3. QED
  BY <1>1, <1>2

\* Whatever the number of groups and of threads, however the threads interleave
\* and in whatever order a GPU executes the groups: no group is executed twice,
\* and no thread is at a group that the launch does not have.
THEOREM GroupsExecutedOnce == HsaSpec => []GroupsOnce
BY LaunchInvariant, HsaInvGroupsOnce, PTL

LEMMA HsaInvComplete == HsaIInv => CompleteUnlessFailed
<1> SUFFICES ASSUME HsaIInv, ~Failed PROVE CompleteMeansDone
  BY DEF CompleteUnlessFailed
<1>1. CASE driver # "hsa"
  BY <1>1, InvCompleteMeansDone DEF HsaIInv
<1>2. CASE driver = "hsa"
  <2> SUFFICES ASSUME status = "complete"
               PROVE  /\ \A g \in AllGroups : ran[g] = (IF g \in GroupsHere THEN 1 ELSE 0)
                      /\ \A w \in DOMAIN workers : workers[w].at = "exited"
    BY DEF CompleteMeansDone, GroupsHere
  <2>1. pc = "done"
    BY DEF HsaIInv, IInv, PlaceInv
  <2>2. Taken /\ signal < 1 /\ Len(workers) = 1 /\ workers[1].at = "exited"
    BY <1>2, <2>1 DEF HsaIInv, AgentInv, CallerInv
  <2>3. DOMAIN workers = {1}
    BY <2>2, GpuPlaces
  <2>4. QED
    BY <2>2, <2>3, GpuPlaces DEF Taken, Failed
<1>3. QED
  BY <1>1, <1>2

\* An event is CL_COMPLETE only when every group that has a work-item of the
\* global size has been executed, and no other, and no thread still reads the
\* argument array; unless the GPU gave the kernel up.
THEOREM CompleteIsDone == HsaSpec => []CompleteUnlessFailed
BY LaunchInvariant, HsaInvComplete, PTL

LEMMA HsaInvReturned ==
  ASSUME HsaIInv, \A a \in DOMAIN Args : Args[a] \notin {"image", "sampler"}
  PROVE  ReturnedUnlessFailed
<1> SUFFICES ASSUME ~Failed, pc = "done", NEW w \in DOMAIN workers PROVE workers[w].mem = {}
  BY DEF ReturnedUnlessFailed, MemoryReturned
<1>1. CASE driver # "hsa"
  <2>1. status = "complete"
    BY DEF HsaIInv, IInv, PlaceInv
  <2>2. workers[w].at = "exited"
    BY <1>1, <2>1, InvCompleteMeansDone DEF HsaIInv, CompleteMeansDone
  <2>3. workers[w].mem = Allocated \ Freed
    BY <1>1, <2>2 DEF HsaIInv, IInv, WorkersInv, WorkerOK
  <2>4. QED
    BY <2>3 DEF Allocated, Freed
<1>2. CASE driver = "hsa"
  <2>1. Taken /\ signal < 1 /\ Len(workers) = 1 /\ (signal = 0 => workers[1].mem = {})
    BY <1>2 DEF HsaIInv, AgentInv, CallerInv
  <2>2. DOMAIN workers = {1}
    BY <2>1, GpuPlaces
  <2>3. QED
    BY <2>1, <2>2, GpuPlaces DEF Taken, Failed
<1>3. QED
  BY <1>1, <1>2

\* A launch that does not fail gives back all device memory it took.  The
\* structures made for images and samplers are not given back by any driver:
\* the theorem is about kernels without such arguments.
THEOREM MemoryGivenBack ==
  ASSUME \A a \in DOMAIN Args : Args[a] \notin {"image", "sampler"}
  PROVE  HsaSpec => []ReturnedUnlessFailed
<1>1. HsaIInv => ReturnedUnlessFailed
  BY HsaInvReturned
<1>2. QED
  BY <1>1, LaunchInvariant, PTL
-----------------------------------------------------------------------------
(* The packet.                                                             *)

\* A function that does not fall from one place to the next does not fall.
LEMMA Climbing ==
  ASSUME NEW n \in Nat, NEW f \in [0..n -> Nat], \A k \in 1..n : f[k - 1] <= f[k]
  PROVE  \A a, b \in 0..n : a <= b => f[a] <= f[b]
<1> DEFINE S == {m \in Nat : m <= n => \A a \in 0..m : f[a] <= f[m]}
<1>1. 0 \in S
  OBVIOUS
<1>2. ASSUME NEW m \in Nat, m \in S PROVE m + 1 \in S
  <2> SUFFICES ASSUME m + 1 <= n, NEW a \in 0..(m + 1) PROVE f[a] <= f[m + 1]
    OBVIOUS
  <2>1. f[m] <= f[m + 1] /\ f[m] \in Nat /\ f[m + 1] \in Nat /\ f[a] \in Nat
    <3>1. m + 1 \in 1..n /\ (m + 1) - 1 = m /\ m \in 0..n /\ m + 1 \in 0..n /\ a \in 0..n
      OBVIOUS
    <3>2. QED
      BY <3>1
  <2>2. CASE a = m + 1
    BY <2>1, <2>2
  <2>3. CASE a # m + 1
    <3>1. f[a] <= f[m]
      BY <1>2, <2>3
    <3>2. QED
      BY <2>1, <3>1
  <2>4. QED
    BY <2>2, <2>3
<1>3. Nat \subseteq S
  <2> HIDE DEF S
  <2> QED
    BY <1>1, <1>2, SetInduction
<1>4. QED
  BY <1>3

LEMMA AlignedUp ==
  ASSUME NEW at \in Nat
  PROVE  AlignUp(at) \in Nat /\ AlignUp(at) >= at /\ AlignUp(at) % 8 = 0
BY DEF AlignUp

LEMMA ArgTypes ==
  /\ num_args \in Nat /\ 1..num_args \subseteq DOMAIN Args
  /\ \A a \in 1..num_args : ArgSize[a] \in Nat /\ Width(a) \in Nat
BY ArgsAssumption, SizesAssumption DEF num_args, Width

\* Where the arguments end.
LEMMA Ends ==
  /\ EndOf \in [0..num_args -> Nat]
  /\ \A k \in 1..num_args : EndOf[k] = Slot(k, EndOf[k - 1]) + Width(k)
<1> DEFINE n == num_args
           F == [p \in (1..n) \X Nat |-> Slot(p[1], p[2]) + Width(p[1])]
           c == 8 * HiddenArgs
<1>1. n \in Nat /\ c \in Nat
  BY ArgTypes, SizesAssumption
<1>2. F \in [(1..n) \X Nat -> Nat]
  <2>1. \A k \in 1..n, at \in Nat : Slot(k, at) + Width(k) \in Nat
    BY ArgTypes, AlignedUp DEF Slot
  <2>2. QED
    BY <2>1
<1>3. PICK f \in [0..n -> Nat] : f[0] = c /\ \A k \in 1..n : f[k] = F[<<k, f[k - 1]>>]
  <2>1. F \in StepsOn(n, Nat)
    BY <1>2 DEF StepsOn
  <2> HIDE DEF F, c, n
  <2>2. \E f : f \in RecursiveOn(n, Nat, c, F)
    BY <1>1, <2>1, RecursiveFunction
  <2>3. QED
    BY <2>2 DEF RecursiveOn
<1>4. f = [k \in 0..n |-> IF k = 0 THEN c ELSE Slot(k, f[k - 1]) + Width(k)]
  <2>1. \A k \in 0..n : f[k] = IF k = 0 THEN c ELSE Slot(k, f[k - 1]) + Width(k)
    <3> SUFFICES ASSUME NEW k \in 0..n PROVE f[k] = IF k = 0 THEN c ELSE Slot(k, f[k - 1]) + Width(k)
      OBVIOUS
    <3>1. CASE k = 0
      BY <1>1, <1>3, <3>1
    <3>2. CASE k # 0
      <4>1. k \in 1..n /\ f[k - 1] \in Nat
        BY <1>1, <3>2
      <4>2. f[k] = F[<<k, f[k - 1]>>]
        BY <1>3, <4>1
      <4>3. F[<<k, f[k - 1]>>] = Slot(k, f[k - 1]) + Width(k)
        BY <4>1
      <4>4. QED
        BY <3>2, <4>2, <4>3
    <3>3. QED
      BY <3>1, <3>2
  <2>2. QED
    BY <2>1
<1> DEFINE e == CHOOSE g : g = [k \in 0..n |-> IF k = 0 THEN c ELSE Slot(k, g[k - 1]) + Width(k)]
<1>5. e = [k \in 0..n |-> IF k = 0 THEN c ELSE Slot(k, e[k - 1]) + Width(k)]
  BY <1>4
<1>6. EndOf = e
  BY DEF EndOf
<1> HIDE DEF e
<1>7. DOMAIN e = 0..n /\ e[0] = c /\ \A k \in 1..n : e[k] = Slot(k, e[k - 1]) + Width(k)
  BY <1>1, <1>5
<1>8. \A k \in 0..n : e[k] \in Nat
  <2> DEFINE S == {m \in Nat : m <= n => e[m] \in Nat}
  <2>1. 0 \in S
    BY <1>1, <1>7
  <2>2. ASSUME NEW m \in Nat, m \in S PROVE m + 1 \in S
    <3> SUFFICES ASSUME m + 1 <= n PROVE e[m + 1] \in Nat
      OBVIOUS
    <3>1. m + 1 \in 1..n /\ (m + 1) - 1 = m /\ e[m] \in Nat
      BY <1>1, <2>2
    <3>2. e[m + 1] = F[<<m + 1, e[m]>>]
      BY <1>7, <3>1
    <3> HIDE DEF F
    <3>3. QED
      BY <1>2, <3>1, <3>2
  <2>3. Nat \subseteq S
    <3> HIDE DEF S
    <3> QED
      BY <2>1, <2>2, SetInduction
  <2>4. QED
    BY <1>1, <2>3
<1>9. QED
  BY <1>5, <1>6, <1>7, <1>8

\* Bytes of the local argument k, or 0.
LocalPart(size, k) == IF Args[k] = "local" THEN size[k] ELSE 0

\* The sum of the sizes of the local arguments.
LEMMA LocalSums ==
  ASSUME NEW size \in [DOMAIN Args -> Nat]
  PROVE  LET sum == LocalBytes(size)
         IN  /\ sum \in [0..num_args -> Nat]
             /\ \A k \in 1..num_args : sum[k] = sum[k - 1] + LocalPart(size, k)
<1> DEFINE n == num_args
           F == [p \in (1..n) \X Nat |-> p[2] + LocalPart(size, p[1])]
<1>1. n \in Nat /\ \A k \in 1..n : LocalPart(size, k) \in Nat
  BY ArgTypes DEF LocalPart
<1>2. F \in [(1..n) \X Nat -> Nat]
  BY <1>1
<1>3. PICK f \in [0..n -> Nat] : f[0] = 0 /\ \A k \in 1..n : f[k] = F[<<k, f[k - 1]>>]
  <2>1. F \in StepsOn(n, Nat) /\ 0 \in Nat
    BY <1>2 DEF StepsOn
  <2> HIDE DEF F, n
  <2>2. \E f : f \in RecursiveOn(n, Nat, 0, F)
    BY <1>1, <2>1, RecursiveFunction
  <2>3. QED
    BY <2>2 DEF RecursiveOn
<1>4. f = [k \in 0..n |-> IF k = 0 THEN 0
                          ELSE f[k - 1] + (IF Args[k] = "local" THEN size[k] ELSE 0)]
  <2>1. \A k \in 0..n : f[k] = IF k = 0 THEN 0 ELSE f[k - 1] + LocalPart(size, k)
    <3> SUFFICES ASSUME NEW k \in 0..n PROVE f[k] = IF k = 0 THEN 0 ELSE f[k - 1] + LocalPart(size, k)
      OBVIOUS
    <3>1. CASE k = 0
      BY <1>3, <3>1
    <3>2. CASE k # 0
      <4>1. k \in 1..n /\ f[k - 1] \in Nat
        BY <1>1, <3>2
      <4>2. f[k] = F[<<k, f[k - 1]>>]
        BY <1>3, <4>1
      <4>3. F[<<k, f[k - 1]>>] = f[k - 1] + LocalPart(size, k)
        BY <4>1
      <4>4. QED
        BY <3>2, <4>2, <4>3
    <3>3. QED
      BY <3>1, <3>2
  <2>2. QED
    BY <2>1 DEF LocalPart
<1> DEFINE e == CHOOSE g : g = [k \in 0..n |-> IF k = 0 THEN 0
                                  ELSE g[k - 1] + (IF Args[k] = "local" THEN size[k] ELSE 0)]
<1>5. e = [k \in 0..n |-> IF k = 0 THEN 0
                          ELSE e[k - 1] + (IF Args[k] = "local" THEN size[k] ELSE 0)]
  BY <1>4
<1>6. LocalBytes(size) = e
  BY DEF LocalBytes
<1> HIDE DEF e
<1>7. DOMAIN e = 0..n /\ e[0] = 0 /\ \A k \in 1..n : e[k] = e[k - 1] + LocalPart(size, k)
  BY <1>1, <1>5 DEF LocalPart
<1>8. \A k \in 0..n : e[k] \in Nat
  <2> DEFINE S == {m \in Nat : m <= n => e[m] \in Nat}
  <2>1. 0 \in S
    BY <1>1, <1>7
  <2>2. ASSUME NEW m \in Nat, m \in S PROVE m + 1 \in S
    <3> SUFFICES ASSUME m + 1 <= n PROVE e[m + 1] \in Nat
      OBVIOUS
    <3>1. m + 1 \in 1..n /\ (m + 1) - 1 = m /\ e[m] \in Nat
      BY <1>1, <2>2
    <3>2. e[m + 1] = e[m] + LocalPart(size, m + 1)
      BY <1>7, <3>1
    <3>3. QED
      BY <1>1, <3>1, <3>2
  <2>3. Nat \subseteq S
    <3> HIDE DEF S
    <3> QED
      BY <2>1, <2>2, SetInduction
  <2>4. QED
    BY <1>1, <2>3
<1>9. QED
  BY <1>5, <1>6, <1>7, <1>8

\* In the kernarg buffer of a packet the arguments are apart and pointers are
\* aligned.
LEMMA ArgumentsApart ==
  ASSUME NEW a \in 1..num_args
  PROVE  /\ Args[a] \notin Packed => Packet.kernarg[a] % 8 = 0
         /\ \A b \in (a + 1)..num_args : Packet.kernarg[a] + Width(a) <= Packet.kernarg[b]
<1> DEFINE K(x) == Slot(x, EndOf[x - 1])
<1>1. \A x \in 1..num_args : Packet.kernarg[x] = K(x)
  BY DEF Packet
<1>2. num_args \in Nat /\ EndOf \in [0..num_args -> Nat]
  BY ArgTypes, Ends
<1>3. \A x \in 1..num_args :
        /\ EndOf[x - 1] \in Nat /\ Width(x) \in Nat
        /\ K(x) \in Nat /\ EndOf[x - 1] <= K(x) /\ EndOf[x] = K(x) + Width(x)
        /\ Args[x] \notin Packed => K(x) % 8 = 0
  <2> SUFFICES ASSUME NEW x \in 1..num_args
               PROVE  /\ EndOf[x - 1] \in Nat /\ Width(x) \in Nat
                      /\ K(x) \in Nat /\ EndOf[x - 1] <= K(x) /\ EndOf[x] = K(x) + Width(x)
                      /\ Args[x] \notin Packed => K(x) % 8 = 0
    OBVIOUS
  <2>1. x - 1 \in 0..num_args
    BY <1>2
  <2>2. EndOf[x - 1] \in Nat /\ Width(x) \in Nat /\ EndOf[x] = K(x) + Width(x)
    BY <1>2, <2>1, ArgTypes, Ends
  <2>3. QED
    BY <2>2, AlignedUp DEF Slot
<1>4. ASSUME NEW b \in (a + 1)..num_args PROVE K(a) + Width(a) <= K(b)
  <2>1. b \in 1..num_args /\ a \in 0..num_args /\ b - 1 \in 0..num_args /\ a <= b - 1
    BY <1>2
  <2>2. \A k \in 1..num_args : EndOf[k - 1] <= EndOf[k]
    <3> SUFFICES ASSUME NEW k \in 1..num_args PROVE EndOf[k - 1] <= EndOf[k]
      OBVIOUS
    <3> HIDE DEF K
    <3> QED
      BY <1>3
  <2>3. EndOf[a] <= EndOf[b - 1]
    BY <1>2, <2>1, <2>2, Climbing
  <2> HIDE DEF K
  <2>4. K(a) + Width(a) = EndOf[a] /\ EndOf[b - 1] <= K(b) /\ K(b) \in Nat /\ EndOf[b - 1] \in Nat
        /\ EndOf[a] \in Nat
    BY <1>2, <1>3, <2>1
  <2>5. QED
    BY <2>3, <2>4
<1>5. QED
  <2> HIDE DEF K
  <2>1. Args[a] \notin Packed => Packet.kernarg[a] % 8 = 0
    BY <1>1, <1>3
  <2>2. ASSUME NEW b \in (a + 1)..num_args
        PROVE  Packet.kernarg[a] + Width(a) <= Packet.kernarg[b]
    <3>1. b \in 1..num_args
      BY <1>2
    <3>2. QED
      BY <1>1, <1>4, <3>1
  <2>3. QED
    BY <2>1, <2>2

\* The local buffers are apart, and inside the group memory of the packet unless
\* they have been given less room.
LEMMA LocalsApart ==
  ASSUME HsaTypeInv, NEW a \in DOMAIN Packet.locals
  PROVE  /\ Packet.locals[a] >= StaticGroup
         /\ \A b \in DOMAIN Packet.locals : a < b => Packet.locals[a] + ArgSize[a] <= Packet.locals[b]
         /\ RoomKept => Packet.locals[a] + ArgSize[a] <= Packet.group_segment
<1> DEFINE sum == LocalBytes(ArgSize)
           L == {b \in 1..num_args : Args[b] = "local"}
           dynsum == LocalBytes(dyn_size)
<1>1. a \in L /\ DOMAIN Packet.locals = L /\ \A b \in L : Packet.locals[b] = StaticGroup + sum[b - 1]
  BY DEF Packet, LocalAt
<1>2. /\ Packet.group_segment = StaticGroup + dynsum[num_args]
      /\ RoomKept => dynsum[num_args] >= sum[num_args]
  BY DEF Packet, group_segment_size, RoomKept
<1>3. /\ num_args \in Nat /\ sum \in [0..num_args -> Nat] /\ StaticGroup \in Nat
      /\ dynsum[num_args] \in Nat
      /\ \A k \in 1..num_args :
           sum[k] = sum[k - 1] + LocalPart(ArgSize, k) /\ LocalPart(ArgSize, k) \in Nat
  <2>1. num_args \in Nat /\ num_args \in 0..num_args /\ StaticGroup \in Nat
    BY ArgTypes, SizesAssumption
  <2>2. sum \in [0..num_args -> Nat] /\ dynsum \in [0..num_args -> Nat]
    BY LocalSums, SizesAssumption DEF HsaTypeInv
  <2>3. \A k \in 1..num_args :
          sum[k] = sum[k - 1] + LocalPart(ArgSize, k) /\ LocalPart(ArgSize, k) \in Nat
    BY LocalSums, ArgTypes, SizesAssumption DEF LocalPart
  <2> HIDE DEF sum, dynsum
  <2>4. QED
    BY <2>1, <2>2, <2>3
<1> HIDE DEF sum, dynsum
<1>4. \A x, y \in 0..num_args : x <= y => sum[x] <= sum[y]
  <2>1. \A k \in 1..num_args : sum[k - 1] <= sum[k]
    <3> SUFFICES ASSUME NEW k \in 1..num_args PROVE sum[k - 1] <= sum[k]
      OBVIOUS
    <3>1. k - 1 \in 0..num_args
      BY <1>3
    <3>2. sum[k - 1] \in Nat /\ sum[k] = sum[k - 1] + LocalPart(ArgSize, k) /\ LocalPart(ArgSize, k) \in Nat
      BY <1>3, <3>1
    <3>3. QED
      BY <3>2
  <2>2. QED
    BY <1>3, <2>1, Climbing
<1>5. \A x \in L : /\ x \in 0..num_args /\ sum[x - 1] \in Nat /\ sum[x] \in Nat
                   /\ Packet.locals[x] = StaticGroup + sum[x - 1]
                   /\ Packet.locals[x] + ArgSize[x] = StaticGroup + sum[x]
  <2> SUFFICES ASSUME NEW x \in L
               PROVE  /\ x \in 0..num_args /\ sum[x - 1] \in Nat /\ sum[x] \in Nat
                      /\ Packet.locals[x] = StaticGroup + sum[x - 1]
                      /\ Packet.locals[x] + ArgSize[x] = StaticGroup + sum[x]
    OBVIOUS
  <2>1. x \in 0..num_args /\ x - 1 \in 0..num_args /\ x \in 1..num_args
    BY <1>3
  <2>2. /\ sum[x - 1] \in Nat /\ sum[x] \in Nat /\ ArgSize[x] \in Nat
        /\ LocalPart(ArgSize, x) = ArgSize[x]
    BY <1>3, <2>1, ArgTypes DEF LocalPart
  <2>3. sum[x] = sum[x - 1] + LocalPart(ArgSize, x)
    BY <1>3, <2>1
  <2>4. Packet.locals[x] = StaticGroup + sum[x - 1]
    BY <1>1
  <2>5. QED
    BY <1>3, <2>1, <2>2, <2>3, <2>4
<1>6. ASSUME NEW b \in L, a < b
      PROVE  Packet.locals[a] + ArgSize[a] <= Packet.locals[b]
  <2>1. a \in 0..num_args /\ b - 1 \in 0..num_args /\ a <= b - 1
    <3>1. a \in 1..num_args /\ b \in 1..num_args
      BY <1>1
    <3>2. \A x, y \in 1..num_args :
            x < y => x \in 0..num_args /\ y - 1 \in 0..num_args /\ x <= y - 1
      BY <1>3
    <3>3. QED
      BY <1>6, <3>1, <3>2
  <2>2. sum[a] <= sum[b - 1]
    BY <1>4, <2>1
  <2>3. /\ Packet.locals[a] + ArgSize[a] = StaticGroup + sum[a]
        /\ Packet.locals[b] = StaticGroup + sum[b - 1]
        /\ sum[a] \in Nat /\ sum[b - 1] \in Nat
    BY <1>1, <1>5
  <2>4. QED
    BY <1>3, <2>2, <2>3
<1>7. /\ Packet.locals[a] >= StaticGroup
      /\ RoomKept => Packet.locals[a] + ArgSize[a] <= Packet.group_segment
  <2>1. a \in 0..num_args /\ num_args \in 0..num_args /\ a <= num_args
    BY <1>1, <1>3
  <2>2. sum[a] <= sum[num_args] /\ sum[num_args] \in Nat
    BY <1>3, <1>4, <2>1
  <2>3. QED
    BY <1>1, <1>2, <1>3, <1>5, <2>2
<1>8. QED
  BY <1>1, <1>6, <1>7

LEMMA HsaInvArguments == HsaIInv => ArgumentsInPlace
<1> SUFFICES ASSUME HsaIInv, NEW k \in read_index..(write_index - 1)
             PROVE  ring[k % RingSize] = Packet
  BY ArgumentsApart, LocalsApart DEF ArgumentsInPlace, HsaIInv
<1>1. ~Idle /\ ~Taken
  BY GpuPlaces DEF Idle, Taken
<1>2. Posted
  BY <1>1, GpuPlaces DEF HsaIInv, AgentInv
<1>3. k = read_index
  BY <1>2, GpuPlaces DEF Posted
<1>4. QED
  BY <1>2, <1>3 DEF Posted

\* The packet a GPU is about to take has its arguments apart in the kernarg buffer
\* and its pointers aligned, for every list of arguments, and its local buffers
\* apart and inside its group memory unless the client has given them less room
\* since the launch was enqueued.
THEOREM ArgumentsPlaced == HsaSpec => []ArgumentsInPlace
BY HsaInvArguments, LaunchInvariant, PTL
=============================================================================
