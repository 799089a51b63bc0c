----------------------- MODULE CommandQueueReferences -----------------------
(***************************************************************************)
(* The reference counts of CommandQueue, for every number of threads,      *)
(* queues, buffers, kernels and events, every assignment of devices to     *)
(* queues and any number of commands.                                      *)
(*                                                                         *)
(* References says that the count of every object is the number of those   *)
(* who refer to it.  It stands on Control, the invariant of                *)
(* CommandQueueProofs.  The bridge between the two is Outstanding: a step  *)
(* adds a command to it, takes the one that has completed out of it, or    *)
(* leaves it alone.                                                        *)
(***************************************************************************)
EXTENDS CommandQueueProofs
-----------------------------------------------------------------------------
(* References.                                                             *)

\* The references that outstanding commands, and threads on their way to give
\* them back, have of b.
CommandRefs(b) == {r \in Outstanding \X {1, 2} : /\ r[2] \in DOMAIN Released(r[1])
                                                 /\ Released(r[1])[r[2]] = b}
ReleaseRefs(b) == {r \in Threads \X {1, 2} : /\ r[2] \in DOMAIN pc[r[1]].rel
                                             /\ pc[r[1]].rel[r[2]] = b}

Extra(b) == IF b \in SubBufs THEN 0 ELSE NumDevices - 1

\* The blocking maps of b that have not returned.
OwnMaps(b) == {t \in Threads : /\ pc[t].op = "exec" /\ pc[t].cmd.type = "map"
                               /\ pc[t].cmd.bufs[1] = b}

MemOK(b) ==
  /\ IsFiniteSet(Children(b)) /\ IsFiniteSet(CommandRefs(b)) /\ IsFiniteSet(ReleaseRefs(b))
  /\ st[b] = "live" => rc[b] = MemHolders(b) + Extra(b) + lost[b]
  /\ st[b] # "live" => MemHolders(b) = 0
  /\ st[b] = "none" => parent[b] = None /\ lost[b] = 0

ParentsOK ==
  \A b \in Bufs : parent[b] # None => /\ parent[parent[b]] = None /\ b \in SubBufs
                                      /\ st[parent[b]] # "none"

MapsOK ==
  \A b \in Bufs : /\ IsFiniteSet(OwnMaps(b))
                  /\ maps[b] >= mapped[b] + Cardinality(OwnMaps(b))
                  /\ ~UnmapsEarly /\ MapQueued(b) => mapped[b] > 0

\* The launches in the queues that have a reference of k.
LaunchRefs(k) == {r \in Queues \X (1..MaxCommands) :
                    /\ r[2] \in DOMAIN root[r[1]] /\ root[r[1]][r[2]].kernel = k
                    /\ \A t \in Threads : pc[t].q = r[1] => pc[t].i <= r[2]}

NoGPU == \A q \in Queues : ~IsGPU(q)

KernelsOK ==
  \A k \in Kernels :
    /\ IsFiniteSet(LaunchRefs(k))
    /\ st[k] = "live" => rc[k] > 0 /\ rc[k] >= KernelHolders(k)
    /\ st[k] = "live" /\ NoGPU => rc[k] = KernelHolders(k)
    /\ st[k] # "live" => KernelHolders(k) = 0

EventsOf(q) == {e \in Events : st[e] = "live" /\ queue[e] = q}
Releasing(q) == {t \in Threads : pc[t].op = "release_queue" /\ pc[t].q = q}

QueuesOK ==
  \A q \in Queues :
    /\ IsFiniteSet(EventsOf(q)) /\ IsFiniteSet(Releasing(q))
    /\ st[q] = "live" => rc[q] >= QueueHolders(q)
    /\ st[q] = "live" /\ "ndrange" \notin Commands /\ ~IsGPU(q) => rc[q] = QueueHolders(q)
    /\ st[q] # "live" => QueueHolders(q) = 0 /\ root[q] = <<>>

\* Only a sub-buffer takes the count of another buffer to 0 without deleting it.
BufsCounted == SubBufs = {} => \A b \in Bufs : st[b] = "live" => rc[b] > 0

NothingLost == ~HostFull => \A b \in Bufs : lost[b] = 0

\* The events of outstanding commands are not freed.
EventsKept ==
  ~DropsEarly \/ NoGPU => \A c \in Outstanding : c.event # None => st[c.event] = "live"

References ==
  /\ \A b \in Bufs : MemOK(b)
  /\ ParentsOK /\ MapsOK /\ KernelsOK /\ QueuesOK /\ BufsCounted /\ NothingLost /\ EventsKept

IInv == Control /\ References
-----------------------------------------------------------------------------
(* References: counting.                                                   *)

\* The places of a list of at most two buffers that hold o.
Slots(s, o) == {j \in {1, 2} : j \in DOMAIN s /\ s[j] = o}

LEMMA SlotsTimes ==
  ASSUME NEW S, NEW s \in Seq(S), Len(s) <= 2, NEW o
  PROVE  Slots(s, o) \in SUBSET {1, 2} /\ Cardinality(Slots(s, o)) = Times(s, o)
<1>1. Len(s) \in Nat /\ DOMAIN s = 1..Len(s)
  OBVIOUS
<1>2. Slots(s, o) = {j \in DOMAIN s : s[j] = o}
  BY <1>1 DEF Slots
<1>3. QED
  BY <1>2 DEF Slots, Times

LEMMA TwoSlots == IsFiniteSet({1, 2}) /\ Cardinality({1, 2}) = 2
<1>1. IsFiniteSet({1}) /\ Cardinality({1}) = 1
  BY FS_Singleton
<1>2. IsFiniteSet({1} \cup {2}) /\ Cardinality({1} \cup {2}) = 2
  BY <1>1, FS_AddElement
<1>3. {1, 2} = {1} \cup {2}
  OBVIOUS
<1>4. QED  BY <1>2, <1>3

LEMMA SlotSets ==
  ASSUME NEW J \in SUBSET {1, 2}
  PROVE  IsFiniteSet(J) /\ Cardinality(J) \in Nat
<1>1. IsFiniteSet({1, 2})
  BY TwoSlots
<1>2. QED
  BY <1>1, FS_Subset, FS_CardinalityType

\* One object and its slots are added to a set of references.
LEMMA PairCount ==
  ASSUME NEW S, IsFiniteSet(S), NEW x, NEW J \in SUBSET {1, 2},
         \A j \in J : <<x, j>> \notin S
  PROVE  /\ IsFiniteSet(S \cup ({x} \X J))
         /\ Cardinality(S \cup ({x} \X J)) = Cardinality(S) + Cardinality(J)
<1>1. Cardinality(S) \in Nat
  BY FS_CardinalityType
<1>2. CASE J = {}
  <2>1. S \cup ({x} \X J) = S
    BY <1>2
  <2>2. QED
    BY <1>1, <1>2, <2>1, FS_EmptySet
<1>3. ASSUME NEW j \in {1, 2}, J = {j}
      PROVE  /\ IsFiniteSet(S \cup ({x} \X J))
             /\ Cardinality(S \cup ({x} \X J)) = Cardinality(S) + Cardinality(J)
  <2>1. S \cup ({x} \X J) = S \cup {<<x, j>>}
    BY <1>3
  <2>2. Cardinality(J) = 1
    BY <1>3, FS_Singleton
  <2>3. <<x, j>> \notin S
    BY <1>3
  <2>4. QED
    BY <2>1, <2>2, <2>3, FS_AddElement
<1>4. CASE J = {1, 2}
  <2> DEFINE T == S \cup {<<x, 1>>}
  <2>1. IsFiniteSet(T) /\ Cardinality(T) = Cardinality(S) + 1
    BY <1>4, FS_AddElement
  <2>2. <<x, 2>> \notin T
    BY <1>4
  <2>3. IsFiniteSet(T \cup {<<x, 2>>}) /\ Cardinality(T \cup {<<x, 2>>}) = Cardinality(T) + 1
    BY <2>1, <2>2, FS_AddElement
  <2>4. S \cup ({x} \X J) = T \cup {<<x, 2>>}
    BY <1>4
  <2>5. Cardinality(J) = 2
    BY <1>4, TwoSlots
  <2>6. QED
    BY <1>1, <2>1, <2>3, <2>4, <2>5
<1>5. QED
  <2>1. J = {} \/ J = {1} \/ J = {2} \/ J = {1, 2}
    OBVIOUS
  <2>2. QED  BY <1>2, <1>3, <1>4, <2>1

\* How often o stands in the lists of references there are.
One(b, o) == IF b = o THEN 1 ELSE 0

LEMMA TimesNothing == \A o : Times(<<>>, o) = 0
<1>1. \A o : {i \in DOMAIN <<>> : <<>>[i] = o} = {}
  OBVIOUS
<1>2. QED  BY <1>1, FS_EmptySet DEF Times

LEMMA TimesOne == \A b, o : Times(<<b>>, o) = One(b, o)
<1>1. \A b, o : {i \in DOMAIN <<b>> : <<b>>[i] = o} = IF b = o THEN {1} ELSE {}
  OBVIOUS
<1>2. QED  BY SMTT(60), <1>1, FS_EmptySet, FS_Singleton DEF Times, One

LEMMA TimesTwo == \A b, d, o : Times(<<b, d>>, o) = One(b, o) + One(d, o)
<1> SUFFICES ASSUME NEW b, NEW d, NEW o PROVE Times(<<b, d>>, o) = One(b, o) + One(d, o)
  OBVIOUS
<1> DEFINE A == {i \in DOMAIN <<b, d>> : <<b, d>>[i] = o}
<1>1. DOMAIN <<b, d>> = {1, 2} /\ <<b, d>>[1] = b /\ <<b, d>>[2] = d
  OBVIOUS
<1>2. /\ b = o /\ d = o => A = {1, 2}
      /\ b = o /\ d # o => A = {1}
      /\ b # o /\ d = o => A = {2}
      /\ b # o /\ d # o => A = {}
  BY <1>1
<1>3. Times(<<b, d>>, o) = Cardinality(A)
  BY DEF Times
<1> HIDE DEF A
<1>4. Cardinality({}) = 0 /\ Cardinality({1}) = 1 /\ Cardinality({2}) = 1 /\ Cardinality({1, 2}) = 2
  BY FS_EmptySet, FS_Singleton, TwoSlots
<1>5. QED
  BY <1>2, <1>3, <1>4 DEF One

LEMMA TimesThree ==
  \A b, d, e, o : b # d /\ b # e /\ d # e => Times(<<b, d, e>>, o) = One(b, o) + One(d, o) + One(e, o)
<1> SUFFICES ASSUME NEW b, NEW d, NEW e, NEW o, b # d, b # e, d # e
             PROVE  Times(<<b, d, e>>, o) = One(b, o) + One(d, o) + One(e, o)
  OBVIOUS
<1> DEFINE A == {i \in DOMAIN <<b, d, e>> : <<b, d, e>>[i] = o}
<1>1. /\ DOMAIN <<b, d, e>> = {1, 2, 3}
      /\ <<b, d, e>>[1] = b /\ <<b, d, e>>[2] = d /\ <<b, d, e>>[3] = e
  OBVIOUS
<1>2. /\ o = b => A = {1}
      /\ o = d => A = {2}
      /\ o = e => A = {3}
      /\ o # b /\ o # d /\ o # e => A = {}
  BY <1>1
<1>3. Times(<<b, d, e>>, o) = Cardinality(A)
  BY DEF Times
<1> HIDE DEF A
<1>4. Cardinality({}) = 0 /\ \A i : Cardinality({i}) = 1
  BY FS_EmptySet, FS_Singleton
<1>5. /\ o = b => One(b, o) = 1 /\ One(d, o) = 0 /\ One(e, o) = 0
      /\ o = d => One(b, o) = 0 /\ One(d, o) = 1 /\ One(e, o) = 0
      /\ o = e => One(b, o) = 0 /\ One(d, o) = 0 /\ One(e, o) = 1
      /\ o # b /\ o # d /\ o # e => One(b, o) = 0 /\ One(d, o) = 0 /\ One(e, o) = 0
  BY DEF One
<1>6. PICK n, x, y, z : /\ n = Times(<<b, d, e>>, o) /\ x = One(b, o) /\ y = One(d, o) /\ z = One(e, o)
  OBVIOUS
<1>7. n = x + y + z
  <2>1. CASE o = b
    <3>1. n = 1 /\ x = 1 /\ y = 0 /\ z = 0
      BY <1>2, <1>3, <1>4, <1>5, <1>6, <2>1
    <3>2. QED  BY <3>1
  <2>2. CASE o = d
    <3>1. n = 1 /\ x = 0 /\ y = 1 /\ z = 0
      BY <1>2, <1>3, <1>4, <1>5, <1>6, <2>2
    <3>2. QED  BY <3>1
  <2>3. CASE o = e
    <3>1. n = 1 /\ x = 0 /\ y = 0 /\ z = 1
      BY <1>2, <1>3, <1>4, <1>5, <1>6, <2>3
    <3>2. QED  BY <3>1
  <2>4. CASE o # b /\ o # d /\ o # e
    <3>1. n = 0 /\ x = 0 /\ y = 0 /\ z = 0
      BY <1>2, <1>3, <1>4, <1>5, <1>6, <2>4
    <3>2. QED  BY <3>1
  <2>5. QED  BY <2>1, <2>2, <2>3, <2>4
<1>8. QED  BY <1>6, <1>7

\* The first of a list is given back.
LEMMA TimesTail ==
  ASSUME NEW S, NEW s \in Seq(S), s # <<>>, Len(s) <= 2, NEW o
  PROVE  /\ Times(Tail(s), o) \in Nat
         /\ Times(s, o) = Times(Tail(s), o) + One(Head(s), o)
<1>1. Len(s) \in Nat /\ Len(s) # 0 /\ Head(s) = s[1]
  OBVIOUS
<1>2. One(Head(s), o) \in Nat /\ \A a : One(a, o) \in Nat
  BY DEF One
<1>3. CASE Len(s) = 1
  <2>1. s = <<s[1]>>
    <3>1. DOMAIN s = 1..1 /\ <<s[1]>> = [i \in 1..1 |-> s[1]]
      BY <1>3
    <3>2. s = [i \in 1..1 |-> s[i]]
      BY <3>1
    <3>3. QED  BY <3>1, <3>2
  <2>5. Tail(s) = <<>>
    <3>1. PICK r : r = Tail(s)
      OBVIOUS
    <3>2. r \in Seq(S) /\ Len(r) = 0
      BY <1>3, <3>1, TailOf
    <3>3. r = <<>>
      BY <3>2
    <3>4. QED  BY <3>1, <3>3
  <2>2. Times(Tail(s), o) = 0
    BY <2>5, TimesNothing
  <2>3. Times(s, o) = One(s[1], o)
    BY <2>1, TimesOne
  <2>4. QED
    BY <1>1, <1>2, <2>2, <2>3
<1>4. CASE Len(s) = 2
  <2>1. s = <<s[1], s[2]>>
    BY <1>4
  <2>5. Tail(s) = <<s[2]>>
    <3>1. PICK r : r = Tail(s)
      OBVIOUS
    <3>2. r \in Seq(S) /\ Len(r) = 1 /\ \A i \in DOMAIN r : r[i] = s[i + 1]
      BY <1>4, <3>1, TailOf
    <3>3. DOMAIN r = 1..1 /\ <<s[2]>> = [i \in 1..1 |-> s[2]] /\ r = [i \in 1..1 |-> r[i]]
      BY <3>2
    <3>4. r[1] = s[2]
      BY <3>2, <3>3
    <3>5. r = <<s[2]>>
      BY <3>3, <3>4
    <3>6. QED  BY <3>1, <3>5
  <2>2. Times(Tail(s), o) = One(s[2], o)
    BY <2>5, TimesOne
  <2>3. Times(s, o) = One(s[1], o) + One(s[2], o)
    BY <2>1, TimesTwo
  <2>4. QED
    BY <1>1, <1>2, <2>2, <2>3
<1>5. Len(s) = 1 \/ Len(s) = 2
  <2>1. \A n \in Nat : n # 0 /\ n <= 2 => n = 1 \/ n = 2
    OBVIOUS
  <2>2. QED  BY <1>1, <2>1
<1>6. QED  BY <1>3, <1>4, <1>5
-----------------------------------------------------------------------------
(* References: the work that is left.                                      *)

\* The call c is through with node i of queue q.
Through(c, q, i) == c.q = q /\ (i < c.i \/ (i = c.i /\ c.at = "release"))

\* Node i of q is still to be executed, or to give its kernel back, when the
\* queues are r and the calls p.
Ahead(r, p, q, i)     == i \in DOMAIN r[q] /\ \A t \in Threads : ~Through(p[t], q, i)
HasKernel(r, p, q, i) == i \in DOMAIN r[q] /\ \A t \in Threads : p[t].q = q => p[t].i <= i

\* The call has its own command still to execute.
Own(c) == c.op = "exec" /\ ~(c.i = 0 /\ c.at = "release")

\* A step that leaves the work in the queues, and that of the calls, as it is.
AheadKept ==
  \A q \in Queues, i \in Nat :
    /\ Ahead(root', pc', q, i) <=> Ahead(root, pc, q, i)
    /\ Ahead(root, pc, q, i) => root'[q][i] = root[q][i]
KernelsKept ==
  \A q \in Queues, i \in Nat :
    /\ HasKernel(root', pc', q, i) <=> HasKernel(root, pc, q, i)
    /\ HasKernel(root, pc, q, i) => root'[q][i] = root[q][i]
NodesKept == AheadKept /\ KernelsKept
OwnKept ==
  \A t \in Threads : /\ Own(pc'[t]) <=> Own(pc[t])
                     /\ Own(pc[t]) => pc'[t].cmd = pc[t].cmd

LEMMA OutstandingNow ==
  ASSUME root \in [Queues -> Seq(Node)]
  PROVE  \A c : c \in Outstanding <=>
           \/ \E q \in Queues, i \in Nat : Ahead(root, pc, q, i) /\ c = root[q][i]
           \/ \E t \in Threads : Own(pc[t]) /\ c = pc[t].cmd
<1>1. \A q \in Queues : \A i : i \in Pending(q) <=> i \in Nat /\ Ahead(root, pc, q, i)
  BY DEF Pending, Executed, Ahead, Through
<1>2. \A t \in Threads : OwnPending(t) <=> Own(pc[t])
  BY DEF OwnPending, Own
<1>3. QED
  <2>1. \A c : c \in Outstanding <=> \/ \E q \in Queues : \E i \in Pending(q) : c = root[q][i]
                                     \/ \E t \in Threads : OwnPending(t) /\ c = pc[t].cmd
    BY DEF Outstanding
  <2>2. QED  BY <1>1, <1>2, <2>1

LEMMA OutstandingNext ==
  ASSUME root' \in [Queues -> Seq(Node)]
  PROVE  \A c : c \in Outstanding' <=>
           \/ \E q \in Queues, i \in Nat : Ahead(root', pc', q, i) /\ c = root'[q][i]
           \/ \E t \in Threads : Own(pc'[t]) /\ c = pc'[t].cmd
<1>1. \A q \in Queues : \A i : i \in Pending(q)' <=> i \in Nat /\ Ahead(root', pc', q, i)
  BY DEF Pending, Executed, Ahead, Through
<1>2. \A t \in Threads : OwnPending(t)' <=> Own(pc'[t])
  BY DEF OwnPending, Own
<1>3. QED
  <2>1. \A c : c \in Outstanding' <=> \/ \E q \in Queues : \E i \in Pending(q)' : c = root'[q][i]
                                      \/ \E t \in Threads : OwnPending(t)' /\ c = pc'[t].cmd
    BY DEF Outstanding
  <2>2. QED  BY <1>1, <1>2, <2>1

LEMMA WorkKept ==
  ASSUME root \in [Queues -> Seq(Node)], root' \in [Queues -> Seq(Node)], AheadKept, OwnKept
  PROVE  Outstanding' = Outstanding
<1>1. \A c : c \in Outstanding' <=> c \in Outstanding
  <2> TAKE c
  <2>1. \A q \in Queues, i \in Nat : (Ahead(root', pc', q, i) /\ c = root'[q][i])
                                     <=> (Ahead(root, pc, q, i) /\ c = root[q][i])
    BY DEF AheadKept
  <2>2. \A t \in Threads : (Own(pc'[t]) /\ c = pc'[t].cmd) <=> (Own(pc[t]) /\ c = pc[t].cmd)
    BY DEF OwnKept
  <2>3. c \in Outstanding <=> \/ \E q \in Queues, i \in Nat : Ahead(root, pc, q, i) /\ c = root[q][i]
                            \/ \E t \in Threads : Own(pc[t]) /\ c = pc[t].cmd
    BY OutstandingNow
  <2>4. c \in Outstanding' <=> \/ \E q \in Queues, i \in Nat : Ahead(root', pc', q, i) /\ c = root'[q][i]
                             \/ \E t \in Threads : Own(pc'[t]) /\ c = pc'[t].cmd
    BY OutstandingNext
  <2>5. QED
    BY <2>1, <2>2, <2>3, <2>4
<1>2. QED  BY <1>1

LEMMA LaunchesKept ==
  ASSUME KernelsKept, NEW k
  PROVE  LaunchRefs(k)' = LaunchRefs(k)
<1>1. \A r \in Queues \X (1..MaxCommands) : r[1] \in Queues /\ r[2] \in Nat
  BY BoundsAssumption
<1>2. \A r \in Queues \X (1..MaxCommands) :
        HasKernel(root', pc', r[1], r[2]) /\ root'[r[1]][r[2]].kernel = k
          <=> HasKernel(root, pc, r[1], r[2]) /\ root[r[1]][r[2]].kernel = k
  BY <1>1 DEF KernelsKept
<1>3. /\ LaunchRefs(k) = {r \in Queues \X (1..MaxCommands) :
                            HasKernel(root, pc, r[1], r[2]) /\ root[r[1]][r[2]].kernel = k}
      /\ LaunchRefs(k)' = {r \in Queues \X (1..MaxCommands) :
                            HasKernel(root', pc', r[1], r[2]) /\ root'[r[1]][r[2]].kernel = k}
  BY DEF LaunchRefs, HasKernel
<1>4. QED  BY <1>2, <1>3

\* Steps that do not touch the queues and calls.
LEMMA StillWork ==
  ASSUME pc' = pc, root' = root
  PROVE  NodesKept /\ OwnKept
BY DEF NodesKept, AheadKept, KernelsKept, OwnKept, Ahead, HasKernel, Through, Own

\* The thread goes on with the command it is at, which does not complete.
LEMMA PlaceWork ==
  ASSUME TypeOK, NEW t \in Threads, NEW d, pc' = [pc EXCEPT ![t] = d], root' = root,
         SameCall(pc[t], d), d.i = pc[t].i, d.at = "release" <=> pc[t].at = "release"
  PROVE  NodesKept /\ OwnKept
<1>1. pc'[t] = d /\ (\A u \in Threads : u # t => pc'[u] = pc[u]) /\ root' = root /\ SameCall(pc[t], d)
  BY DEF TypeOK
<1>2. \A u \in Threads : /\ \A q, i : Through(pc'[u], q, i) <=> Through(pc[u], q, i)
                         /\ pc'[u].q = pc[u].q /\ pc'[u].i = pc[u].i
                         /\ Own(pc'[u]) <=> Own(pc[u])
                         /\ pc'[u].cmd = pc[u].cmd
  BY <1>1 DEF Through, Own, SameCall
<1>3. QED
  BY <1>1, <1>2 DEF NodesKept, AheadKept, KernelsKept, OwnKept, Ahead, HasKernel

\* The loop goes on to the next node.
LEMMA NextNodeWork ==
  ASSUME Control, NEW t \in Threads, NEW d, pc' = [pc EXCEPT ![t] = d], root' = root,
         SameCall(pc[t], d), pc[t].op # "idle", pc[t].i # 0, pc[t].at = "release", d.i = pc[t].i + 1, d.at = "node"
  PROVE  /\ OwnKept /\ root' = root
         /\ \A q \in Queues, i \in Nat :
              /\ Ahead(root', pc', q, i) <=> Ahead(root, pc, q, i)
              /\ HasKernel(root', pc', q, i) <=> HasKernel(root, pc, q, i) /\ ~(q = pc[t].q /\ i = pc[t].i)
<1>1. pc'[t] = d /\ (\A u \in Threads : u # t => pc'[u] = pc[u]) /\ root' = root /\ SameCall(pc[t], d)
  BY DEF Control, TypeOK
<1>2. pc[t].i \in Nat /\ \A u \in Threads : pc[u].q = pc[t].q => u = t
  BY WorkingFacts
<1>3. \A u \in Threads : /\ \A q : \A i \in Nat : Through(pc'[u], q, i) <=> Through(pc[u], q, i)
                         /\ Own(pc'[u]) <=> Own(pc[u])
                         /\ pc'[u].cmd = pc[u].cmd
  BY <1>1, <1>2 DEF Through, Own, SameCall
<1>4. \A q \in Queues, i \in Nat :
        HasKernel(root', pc', q, i) <=> HasKernel(root, pc, q, i) /\ ~(q = pc[t].q /\ i = pc[t].i)
  <2> TAKE q \in Queues, i \in Nat
  <2>1. CASE q # pc[t].q
    BY <1>1, <2>1 DEF HasKernel, SameCall
  <2>2. CASE q = pc[t].q
    <3>1. HasKernel(root', pc', q, i) <=> i \in DOMAIN root[q] /\ pc[t].i + 1 <= i
      BY <1>1, <1>2, <2>2 DEF HasKernel, SameCall
    <3>2. HasKernel(root, pc, q, i) <=> i \in DOMAIN root[q] /\ pc[t].i <= i
      BY <1>2, <2>2 DEF HasKernel
    <3>3. QED  BY <1>2, <2>2, <3>1, <3>2
  <2>3. QED  BY <2>1, <2>2
<1>5. QED
  BY <1>1, <1>3, <1>4 DEF OwnKept, Ahead

\* A call begins.
LEMMA BeginWork ==
  ASSUME Control, NEW t \in Threads, NEW d, pc[t].op = "idle", pc' = [pc EXCEPT ![t] = d], root' = root,
         d.q \in Queues, d.i = 1, d.at = "node", \A u \in Threads : pc[u].q # d.q
  PROVE  /\ NodesKept /\ pc'[t] = d /\ ~Own(pc[t])
         /\ \A u \in Threads : u # t => pc'[u] = pc[u]
         /\ d.op # "exec" => OwnKept
<1>1. /\ pc'[t] = d /\ (\A u \in Threads : u # t => pc'[u] = pc[u]) /\ root' = root
      /\ d.q \in Queues /\ d.i = 1 /\ d.at = "node" /\ pc[t].op = "idle"
      /\ \A u \in Threads : pc[u].q # d.q
      /\ root \in [Queues -> Seq(Node)]
  BY DEF Control, TypeOK
<1>2. pc[t].q = None /\ ~Own(pc[t]) /\ \A q \in Queues : pc[t].q # q
  BY <1>1, NoCallType, Kinds DEF Control, CallsOK, CallOK, Own
<1>3. \A q \in Queues : \A i \in DOMAIN root[q] : i \in Nat /\ 1 <= i
  BY <1>1
<1>4. ASSUME NEW q \in Queues, NEW i \in DOMAIN root[q]
      PROVE  /\ \A u \in Threads : Through(pc'[u], q, i) <=> Through(pc[u], q, i)
             /\ \A u \in Threads : (pc'[u].q = q => pc'[u].i <= i) <=> (pc[u].q = q => pc[u].i <= i)
  <2>1. i \in Nat /\ 1 <= i
    BY <1>3, <1>4
  <2>2. ASSUME NEW u \in Threads, u # t
        PROVE  pc'[u] = pc[u]
    BY <1>1, <2>2
  <2>3. pc[t].q # q /\ ~Through(pc[t], q, i)
    BY <1>2, <1>4 DEF Through
  <2>4. ~Through(pc'[t], q, i) /\ pc'[t].i <= i
    BY <1>1, <2>1 DEF Through
  <2>5. QED
    BY <2>2, <2>3, <2>4
<1>5. NodesKept
  BY <1>1, <1>4 DEF NodesKept, AheadKept, KernelsKept, Ahead, HasKernel
<1>6. d.op # "exec" => OwnKept
  BY <1>1, <1>2 DEF OwnKept, Own
<1>7. QED
  BY <1>1, <1>2, <1>5, <1>6

\* A call ends, or goes on with another queue; its own command has completed.
LEMMA EndWork ==
  ASSUME Control, NEW t \in Threads, NEW d, pc[t].op # "idle", pc' = [pc EXCEPT ![t] = d],
         root' = [root EXCEPT ![pc[t].q] = <<>>], ~Own(pc[t]),
         d = NoCall \/ (d.op = "wait" /\ d.i = 1 /\ d.at = "node" /\ d.q \in Queues /\ Uses(t, d.q)),
         pc[t].i = Len(root[pc[t].q]) + 1 \/ root[pc[t].q] = <<>>
  PROVE  NodesKept /\ OwnKept /\ pc'[t] = d /\ \A u \in Threads : u # t => pc'[u] = pc[u]
<1> DEFINE q == pc[t].q
<1>1. /\ pc'[t] = d /\ (\A u \in Threads : u # t => pc'[u] = pc[u]) /\ q \in Queues
      /\ root'[q] = <<>> /\ (\A p \in Queues : p # q => root'[p] = root[p])
      /\ root \in [Queues -> Seq(Node)] /\ pc[t].i \in Nat
      /\ \A u \in Threads : pc[u].q = q => u = t
  BY WorkingFacts DEF Control, TypeOK
<1>2. d.op # "exec" /\ (d = NoCall \/ (d.i = 1 /\ d.at = "node" /\ d.q \in Queues))
  BY NoCallType
<1>3. \A p \in Queues : p # q /\ d.q = p => \A u \in Threads : u # t => pc[u].q # p
  BY <1>1, NoCallType, Kinds DEF Uses, Control, Exclusive
<1>4. ASSUME NEW i \in Nat
      PROVE  /\ ~Ahead(root', pc', q, i) /\ ~HasKernel(root', pc', q, i)
             /\ ~Ahead(root, pc, q, i) /\ ~HasKernel(root, pc, q, i)
  <2>1. i \notin DOMAIN root'[q]
    BY <1>1
  <2>2. i \in DOMAIN root[q] => i < pc[t].i
    BY <1>1
  <2>3. QED
    BY <1>1, <2>1, <2>2 DEF Ahead, HasKernel, Through
<1>5. ASSUME NEW p \in Queues, p # q, NEW i \in Nat
      PROVE  /\ Ahead(root', pc', p, i) <=> Ahead(root, pc, p, i)
             /\ HasKernel(root', pc', p, i) <=> HasKernel(root, pc, p, i)
             /\ root'[p] = root[p]
  <2>1. i \in DOMAIN root[p] => 1 <= i
    BY <1>1
  <2>2. \A u \in Threads : u # t => pc'[u] = pc[u]
    BY <1>1
  <2>3. pc[t].q # p /\ ~Through(pc[t], p, i)
    BY <1>5 DEF Through
  <2>4. i \in DOMAIN root[p] => ~Through(pc'[t], p, i) /\ (pc'[t].q = p => pc'[t].i <= i)
    <3>1. d = NoCall => d.q # p
      BY NoCallType, Kinds
    <3>2. QED
      BY <1>1, <1>2, <2>1, <3>1 DEF Through
  <2>5. QED
    BY <1>1, <1>5, <2>2, <2>3, <2>4 DEF Ahead, HasKernel
<1>6. NodesKept
  BY ZenonT(60), <1>4, <1>5 DEF NodesKept, AheadKept, KernelsKept
<1>7. OwnKept
  BY <1>1, <1>2 DEF OwnKept, Own
<1>8. QED
  BY <1>1, <1>6, <1>7

\* A blocking call has executed the queue and goes on with its own command.
LEMMA FinishExecWork ==
  ASSUME Control, NEW t \in Threads, NEW d, Emptied(t), pc[t].op = "exec",
         pc' = [pc EXCEPT ![t] = d], SameCall(pc[t], d), d.i = 0, d.at = "node"
  PROVE  NodesKept /\ OwnKept /\ pc'[t] = d /\ \A u \in Threads : u # t => pc'[u] = pc[u]
<1> DEFINE q == pc[t].q
<1>1. /\ pc'[t] = d /\ (\A u \in Threads : u # t => pc'[u] = pc[u])
      /\ root \in [Queues -> Seq(Node)]
  BY DEF Control, TypeOK
<1>2. /\ q \in Queues /\ pc[t].i # 0 /\ pc[t].i = Len(root[q]) + 1
      /\ root'[q] = <<>> /\ \A p \in Queues : p # q => root'[p] = root[p]
  BY EmptiedFacts
<1>3. ASSUME NEW i \in Nat
      PROVE  /\ ~Ahead(root', pc', q, i) /\ ~HasKernel(root', pc', q, i)
             /\ ~Ahead(root, pc, q, i) /\ ~HasKernel(root, pc, q, i)
  <2>1. i \notin DOMAIN root'[q]
    BY <1>2
  <2>2. i \in DOMAIN root[q] => i < pc[t].i
    BY <1>1, <1>2
  <2>3. i \in DOMAIN root[q] => ~(pc[t].i <= i)
    BY <1>1, <1>2
  <2>4. QED
    BY <2>1, <2>2, <2>3 DEF Ahead, HasKernel, Through
<1>4. ASSUME NEW p \in Queues, p # q, NEW i \in Nat
      PROVE  /\ Ahead(root', pc', p, i) <=> Ahead(root, pc, p, i)
             /\ HasKernel(root', pc', p, i) <=> HasKernel(root, pc, p, i)
             /\ root'[p] = root[p]
  BY <1>1, <1>2, <1>4 DEF Ahead, HasKernel, Through, SameCall
<1>5. NodesKept
  BY <1>3, <1>4 DEF NodesKept, AheadKept, KernelsKept
<1>6. OwnKept
  BY <1>1, <1>2 DEF OwnKept, Own, SameCall
<1>7. QED
  BY <1>1, <1>5, <1>6
-----------------------------------------------------------------------------
(* References: what a step leaves alone.                                   *)

MemPart ==
  (\A b \in Bufs : MemOK(b)) /\ ParentsOK /\ MapsOK /\ BufsCounted /\ NothingLost

\* MemOK and MapsOK of a step's new state, when the references of b are C and R,
\* its sub-buffers S, and the calls that will return a mapping of it M.
NewMemOK(b, S, C, R) ==
  /\ IsFiniteSet(S) /\ IsFiniteSet(C) /\ IsFiniteSet(R)
  /\ st'[b] = "live" => rc'[b] = held'[b] + maps'[b] + Cardinality(S) + Cardinality(C) + Cardinality(R)
                                 + Extra(b) + lost'[b]
  /\ st'[b] # "live" => held'[b] + maps'[b] + Cardinality(S) + Cardinality(C) + Cardinality(R) = 0
  /\ st'[b] = "none" => parent'[b] = None /\ lost'[b] = 0

LEMMA MemOKIs ==
  ASSUME NEW b \in Bufs
  PROVE  /\ MemHolders(b) = held[b] + maps[b] + Cardinality(Children(b)) + Cardinality(CommandRefs(b))
                            + Cardinality(ReleaseRefs(b))
         /\ MemOK(b)' <=> NewMemOK(b, Children(b)', CommandRefs(b)', ReleaseRefs(b)')
<1>1. MemHolders(b) = held[b] + maps[b] + Cardinality(Children(b)) + Cardinality(CommandRefs(b))
                      + Cardinality(ReleaseRefs(b))
  BY DEF MemHolders, CommandRefs, ReleaseRefs
<1>2. MemHolders(b)' = held'[b] + maps'[b] + Cardinality(Children(b)') + Cardinality(CommandRefs(b)')
                      + Cardinality(ReleaseRefs(b)')
  BY DEF MemHolders, CommandRefs, ReleaseRefs
<1>3. Extra(b)' = Extra(b)
  BY DEF Extra
<1>4. QED
  BY <1>1, <1>2, <1>3 DEF MemOK, NewMemOK

\* The numbers in MemOK.
LEMMA MemNumbers ==
  ASSUME TypeOK, NEW b \in Bufs, MemOK(b)
  PROVE  /\ rc[b] \in Int /\ held[b] \in Nat /\ maps[b] \in Nat /\ mapped[b] \in Nat /\ lost[b] \in Nat
         /\ Cardinality(Children(b)) \in Nat /\ Cardinality(CommandRefs(b)) \in Nat
         /\ Cardinality(ReleaseRefs(b)) \in Nat /\ Extra(b) \in Nat
<1>1. b \in Objects
  BY Kinds
<1>2. Cardinality(Children(b)) \in Nat /\ Cardinality(CommandRefs(b)) \in Nat
      /\ Cardinality(ReleaseRefs(b)) \in Nat
  BY FS_CardinalityType DEF MemOK
<1>3. Extra(b) \in Nat
  BY BoundsAssumption DEF Extra
<1>4. QED
  BY <1>1, <1>2, <1>3 DEF TypeOK

\* The counts of b stay.
BufSame(b) ==
  /\ st'[b] = st[b] /\ rc'[b] = rc[b] /\ held'[b] = held[b] /\ maps'[b] = maps[b]
  /\ mapped'[b] = mapped[b] /\ lost'[b] = lost[b]

\* No call takes or gives back a reference of a buffer, and no map returns.
RelSame  == \A u \in Threads : pc'[u].rel = pc[u].rel
ExecSame == \A u \in Threads : /\ pc'[u].op = "exec" <=> pc[u].op = "exec"
                               /\ pc[u].op = "exec" => pc'[u].cmd = pc[u].cmd
NoMapAdded == \A q \in Queues : \A i \in DOMAIN root'[q] :
                 i \in DOMAIN root[q] /\ root'[q][i] = root[q][i]

LEMMA ReleaseRefsKept ==
  ASSUME RelSame, NEW b
  PROVE  ReleaseRefs(b)' = ReleaseRefs(b)
<1>1. \A r \in Threads \X {1, 2} : pc'[r[1]].rel = pc[r[1]].rel
  BY DEF RelSame
<1>2. QED  BY <1>1 DEF ReleaseRefs

LEMMA CommandRefsKept ==
  ASSUME Outstanding' = Outstanding, NEW b
  PROVE  CommandRefs(b)' = CommandRefs(b)
BY DEF CommandRefs, Released

LEMMA OwnMapsKept ==
  ASSUME ExecSame, NEW b
  PROVE  OwnMaps(b)' = OwnMaps(b)
BY DEF OwnMaps, ExecSame

LEMMA MapQueuedKept ==
  ASSUME NoMapAdded, NEW b, MapQueued(b)'
  PROVE  MapQueued(b)
<1>1. PICK q \in Queues : \E i \in DOMAIN root'[q] : root'[q][i].type = "map" /\ b \in Range(root'[q][i].bufs)
  BY DEF MapQueued, Range
<1>2. PICK i \in DOMAIN root'[q] : root'[q][i].type = "map" /\ b \in Range(root'[q][i].bufs)
  BY <1>1
<1>3. i \in DOMAIN root[q] /\ root'[q][i] = root[q][i]
  BY DEF NoMapAdded
<1>4. QED
  BY <1>2, <1>3 DEF MapQueued

\* Sub-buffers stay sub-buffers of their parents.
LEMMA ChildrenKept ==
  ASSUME parent' = parent, \A b \in Bufs : st'[b] = st[b], NEW b
  PROVE  Children(b)' = Children(b)
BY DEF Children

\* MapsOK when nothing is mapped or unmapped.
LEMMA MapsKept ==
  ASSUME MapsOK, ExecSame, NoMapAdded, \A b \in Bufs : maps'[b] = maps[b] /\ mapped'[b] = mapped[b]
  PROVE  MapsOK'
<1> SUFFICES ASSUME NEW b \in Bufs
             PROVE  /\ IsFiniteSet(OwnMaps(b)')
                    /\ maps'[b] >= mapped'[b] + Cardinality(OwnMaps(b)')
                    /\ ~UnmapsEarly /\ MapQueued(b)' => mapped'[b] > 0
  BY DEF MapsOK
<1>1. OwnMaps(b)' = OwnMaps(b)
  BY OwnMapsKept
<1>2. MapQueued(b)' => MapQueued(b)
  BY MapQueuedKept
<1>3. QED
  BY <1>1, <1>2 DEF MapsOK

LEMMA ParentsKept ==
  ASSUME TypeOK, ParentsOK, parent' = parent, \A b \in Bufs : st'[b] = st[b]
  PROVE  ParentsOK'
BY DEF ParentsOK, TypeOK

LEMMA MemOKFrame ==
  ASSUME TypeOK, MemPart, Outstanding' = Outstanding, RelSame, parent' = parent,
         \A b \in Bufs : /\ st'[b] = st[b] /\ rc'[b] = rc[b] /\ held'[b] = held[b] /\ maps'[b] = maps[b]
                         /\ lost'[b] = lost[b]
  PROVE  (\A b \in Bufs : MemOK(b)') /\ ParentsOK' /\ BufsCounted' /\ NothingLost'
<1>1. ASSUME NEW b \in Bufs PROVE MemOK(b)'
  <2>1. /\ Children(b)' = Children(b) /\ CommandRefs(b)' = CommandRefs(b)
        /\ ReleaseRefs(b)' = ReleaseRefs(b)
    BY ChildrenKept, CommandRefsKept, ReleaseRefsKept
  <2>2. MemOK(b)
    BY DEF MemPart
  <2>3. NewMemOK(b, Children(b)', CommandRefs(b)', ReleaseRefs(b)')
    BY <2>1, <2>2, MemOKIs DEF NewMemOK, MemOK
  <2>4. QED  BY <2>3, MemOKIs
<1>2. ParentsOK'
  BY DEF MemPart, ParentsOK, TypeOK
<1>3. BufsCounted' /\ NothingLost'
  BY DEF MemPart, BufsCounted, NothingLost
<1>4. QED
  BY <1>1, <1>2, <1>3

LEMMA MemFrame ==
  ASSUME TypeOK, MemPart, Outstanding' = Outstanding, RelSame, ExecSame, NoMapAdded,
         parent' = parent, \A b \in Bufs : BufSame(b)
  PROVE  MemPart'
<1>1. \A b \in Bufs : /\ st'[b] = st[b] /\ rc'[b] = rc[b] /\ held'[b] = held[b] /\ maps'[b] = maps[b]
                      /\ mapped'[b] = mapped[b] /\ lost'[b] = lost[b]
  BY DEF BufSame
<1>2. MapsOK'
  BY <1>1, MapsKept DEF MemPart
<1>3. (\A b \in Bufs : MemOK(b)') /\ ParentsOK' /\ BufsCounted' /\ NothingLost'
  BY <1>1, MemOKFrame
<1>4. QED
  BY <1>2, <1>3 DEF MemPart

\* The count of kernel k, and the queue q, stays.
ObjectSame(o) == st'[o] = st[o] /\ rc'[o] = rc[o] /\ held'[o] = held[o]

NewKernelOK(k, L) ==
  /\ IsFiniteSet(L)
  /\ st'[k] = "live" => rc'[k] > 0 /\ rc'[k] >= held'[k] + Cardinality(L)
  /\ st'[k] = "live" /\ NoGPU => rc'[k] = held'[k] + Cardinality(L)
  /\ st'[k] # "live" => held'[k] + Cardinality(L) = 0

LEMMA KernelsOKIs ==
  /\ \A k : KernelHolders(k) = held[k] + Cardinality(LaunchRefs(k))
  /\ KernelsOK' <=> \A k \in Kernels : NewKernelOK(k, LaunchRefs(k)')
<1>1. \A k : KernelHolders(k) = held[k] + Cardinality(LaunchRefs(k))
  BY DEF KernelHolders, LaunchRefs
<1>2. \A k : KernelHolders(k)' = held'[k] + Cardinality(LaunchRefs(k)')
  BY DEF KernelHolders, LaunchRefs
<1>3. NoGPU' <=> NoGPU
  BY DEF NoGPU, IsGPU
<1>4. QED
  BY <1>1, <1>2, <1>3 DEF KernelsOK, NewKernelOK

LEMMA KernelFrame ==
  ASSUME KernelsOK, KernelsKept, \A k \in Kernels : ObjectSame(k)
  PROVE  KernelsOK'
<1> SUFFICES ASSUME NEW k \in Kernels PROVE NewKernelOK(k, LaunchRefs(k)')
  BY KernelsOKIs
<1>1. LaunchRefs(k)' = LaunchRefs(k)
  BY LaunchesKept
<1>2. QED
  BY <1>1, KernelsOKIs DEF NewKernelOK, KernelsOK, ObjectSame

NewQueueOK(q, E, R) ==
  /\ IsFiniteSet(E) /\ IsFiniteSet(R)
  /\ st'[q] = "live" => rc'[q] >= held'[q] + Cardinality(E) + Cardinality(R)
  /\ st'[q] = "live" /\ "ndrange" \notin Commands /\ ~IsGPU(q)
       => rc'[q] = held'[q] + Cardinality(E) + Cardinality(R)
  /\ st'[q] # "live" => held'[q] + Cardinality(E) + Cardinality(R) = 0 /\ root'[q] = <<>>

LEMMA QueuesOKIs ==
  /\ \A q : QueueHolders(q) = held[q] + Cardinality(EventsOf(q)) + Cardinality(Releasing(q))
  /\ QueuesOK' <=> \A q \in Queues : NewQueueOK(q, EventsOf(q)', Releasing(q)')
<1>1. \A q : QueueHolders(q) = held[q] + Cardinality(EventsOf(q)) + Cardinality(Releasing(q))
  BY DEF QueueHolders, EventsOf, Releasing
<1>2. \A q : QueueHolders(q)' = held'[q] + Cardinality(EventsOf(q)') + Cardinality(Releasing(q)')
  BY DEF QueueHolders, EventsOf, Releasing
<1>3. \A q : IsGPU(q)' <=> IsGPU(q)
  BY DEF IsGPU
<1>4. QED
  BY <1>1, <1>2, <1>3 DEF QueuesOK, NewQueueOK

\* No call begins or ends the release of a queue; no event is made or freed.
ReleasingSame == \A u \in Threads : /\ pc'[u].op = "release_queue" <=> pc[u].op = "release_queue"
                                    /\ pc[u].op = "release_queue" => pc'[u].q = pc[u].q
EventsSame == \A e \in Events : st'[e] = st[e] /\ queue'[e] = queue[e]

LEMMA QueueFrame ==
  ASSUME QueuesOK, ReleasingSame, EventsSame, \A q \in Queues : ObjectSame(q),
         \A q \in Queues : st[q] # "live" => root'[q] = root[q]
  PROVE  QueuesOK'
<1> SUFFICES ASSUME NEW q \in Queues PROVE NewQueueOK(q, EventsOf(q)', Releasing(q)')
  BY QueuesOKIs
<1>1. EventsOf(q)' = EventsOf(q)
  BY DEF EventsOf, EventsSame
<1>2. Releasing(q)' = Releasing(q)
  BY DEF Releasing, ReleasingSame
<1>3. QED
  BY <1>1, <1>2, QueuesOKIs DEF NewQueueOK, QueuesOK, ObjectSame

LEMMA EventsKeptFrame ==
  ASSUME EventsKept, Outstanding' \subseteq Outstanding, EventsSame, \A c \in Outstanding : c \in Node
  PROVE  EventsKept'
<1>1. NoGPU' <=> NoGPU
  BY DEF NoGPU, IsGPU
<1>2. \A c \in Outstanding : c.event \in Events \cup {None}
  BY NodeFields
<1>3. QED
  BY <1>1, <1>2 DEF EventsKept, EventsSame

LEMMA OutstandingNodes ==
  ASSUME Control
  PROVE  \A c \in Outstanding :
           /\ c \in Node
           /\ \/ \E q \in Queues, i \in Nat : Ahead(root, pc, q, i) /\ c = root[q][i] /\ CommandOK(c, q)
              \/ \E t \in Threads : Own(pc[t]) /\ c = pc[t].cmd /\ CommandOK(c, pc[t].q)
<1> SUFFICES ASSUME NEW c \in Outstanding
             PROVE  /\ c \in Node
                    /\ \/ \E q \in Queues, i \in Nat : Ahead(root, pc, q, i) /\ c = root[q][i] /\ CommandOK(c, q)
                       \/ \E t \in Threads : Own(pc[t]) /\ c = pc[t].cmd /\ CommandOK(c, pc[t].q)
  OBVIOUS
<1>1. root \in [Queues -> Seq(Node)]
  BY DEF Control, TypeOK
<1>2. \A q \in Queues, i \in Nat : Ahead(root, pc, q, i) => root[q][i] \in Node /\ CommandOK(root[q][i], q)
  BY <1>1 DEF Ahead, Control, NodesOK
<1>3. \A t \in Threads : Own(pc[t]) => pc[t].cmd \in Node /\ CommandOK(pc[t].cmd, pc[t].q)
  BY CallFields DEF Own, Control, OwnOK, TypeOK
<1>4. QED
  BY <1>1, <1>2, <1>3, OutstandingNow
-----------------------------------------------------------------------------
(* References: steps that leave all counts alone.                          *)

ReferencesIs == MemPart /\ KernelsOK /\ QueuesOK /\ EventsKept

LEMMA ReferencesParts ==
  /\ References <=> ReferencesIs
  /\ References' <=> ReferencesIs'
<1>1. References <=> ReferencesIs
  BY DEF References, ReferencesIs, MemPart
<1>2. References' <=> ReferencesIs'
  BY DEF References, ReferencesIs, MemPart
<1>3. QED  BY <1>1, <1>2

\* Kernels, queues and events, when only buffers change.
LEMMA OthersKept ==
  ASSUME Control, Control', References, NodesKept, OwnKept, NoMapAdded, ReleasingSame, EventsSame,
         \A o \in Kernels \cup Queues : ObjectSame(o)
  PROVE  Outstanding' = Outstanding /\ KernelsOK' /\ QueuesOK' /\ EventsKept'
<1>1. /\ root \in [Queues -> Seq(Node)] /\ root' \in [Queues -> Seq(Node)]
      /\ KernelsOK /\ QueuesOK /\ EventsKept
  BY ReferencesParts DEF Control, TypeOK, ReferencesIs
<1>2. Outstanding' = Outstanding
  BY <1>1, WorkKept DEF NodesKept
<1>3. KernelsOK'
  BY <1>1, KernelFrame DEF NodesKept
<1>4. QueuesOK'
  <2>1. ASSUME NEW q \in Queues, st[q] # "live" PROVE root'[q] = root[q]
    <3>1. root[q] = <<>>
      BY <1>1, <2>1 DEF QueuesOK
    <3>2. PICK s : s = root'[q]
      OBVIOUS
    <3>3. s \in Seq(Node) /\ DOMAIN s = {}
      BY <1>1, <3>1, <3>2 DEF NoMapAdded
    <3>4. s = <<>>
      BY <3>3
    <3>5. QED  BY <3>1, <3>2, <3>4
  <2>2. QED  BY <1>1, <2>1, QueueFrame
<1>5. EventsKept'
  <2>1. \A c \in Outstanding : c \in Node
    BY OutstandingNodes
  <2>2. QED  BY <1>1, <1>2, <2>1, EventsKeptFrame
<1>6. QED
  BY <1>2, <1>3, <1>4, <1>5

\* No count changes, but those of events.
LEMMA CountsKept ==
  ASSUME Control, Control', References, NodesKept, OwnKept, RelSame, ExecSame, NoMapAdded, ReleasingSame,
         EventsSame, \A o \in Objects : o \notin Events => ObjectSame(o), UNCHANGED <<parent, maps, mapped, lost>>
  PROVE  References'
<1>1. Outstanding' = Outstanding /\ KernelsOK' /\ QueuesOK' /\ EventsKept'
  <2>1. \A o \in Kernels \cup Queues : ObjectSame(o)
    BY Kinds
  <2>2. QED  BY <2>1, OthersKept
<1>2. MemPart'
  <2>1. TypeOK /\ MemPart /\ \A b \in Bufs : BufSame(b)
    BY Kinds, ReferencesParts DEF Control, ReferencesIs, BufSame, ObjectSame
  <2>2. QED  BY <1>1, <2>1, MemFrame
<1>3. QED
  BY <1>1, <1>2, ReferencesParts DEF ReferencesIs

LEMMA StillReferences ==
  ASSUME Control, Control', References, NodesKept, OwnKept, RelSame, ExecSame, NoMapAdded, ReleasingSame,
         UNCHANGED <<st, rc, parent, maps, queue, held, mapped, lost>>
  PROVE  References'
<1>1. EventsSame /\ \A o \in Objects : ObjectSame(o)
  BY DEF ObjectSame, EventsSame
<1>2. QED  BY <1>1, CountsKept

\* A thread goes on with its command.
LEMMA PlaceReferences ==
  ASSUME Control, Control', References, NEW t \in Threads, NEW a \in Places \ {"release"}, pc[t].at # "release",
         Goto(t, a), UNCHANGED <<st, rc, parent, maps, queue, root, held, mapped, lost>>
  PROVE  References'
<1>1. TypeOK /\ pc \in [Threads -> Call] /\ pc[t] \in Call
  BY DEF Control, TypeOK
<1>2. PICK d : d = [pc[t] EXCEPT !.at = a]
  OBVIOUS
<1>3. d \in Call /\ d.at = a /\ d.i = pc[t].i /\ d.rel = pc[t].rel /\ SameCall(pc[t], d)
  BY <1>1, <1>2, AtUpdate
<1>4. pc' = [pc EXCEPT ![t] = d]
  BY <1>1, <1>2, NestedUpdate DEF Goto
<1>5. NodesKept /\ OwnKept
  BY <1>1, <1>3, <1>4, PlaceWork
<1>6. pc'[t] = d /\ \A u \in Threads : u # t => pc'[u] = pc[u]
  BY <1>1, <1>4
<1>7. RelSame /\ ExecSame /\ ReleasingSame /\ NoMapAdded
  BY <1>3, <1>6 DEF RelSame, ExecSame, ReleasingSame, NoMapAdded, SameCall
<1>8. QED
  BY <1>5, <1>7, StillReferences

\* A thread calls clFinish.
LEMMA EnterReferences ==
  ASSUME Control, Control', References, NEW t \in Threads, NEW q \in Queues, NEW op \in {"return", "wait"},
         NEW events \in Seq(Events), Enter(t, q, op, events),
         UNCHANGED <<st, rc, parent, maps, queue, root, held, mapped, lost>>
  PROVE  References'
<1>1. pc \in [Threads -> Call] /\ pc[t].op = "idle" /\ CallOK(pc[t], root)
  BY DEF Control, TypeOK, CallsOK, Enter, Idle
<1>2. PICK d : d = Finishing(q, op, NoCmd, events)
  OBVIOUS
<1>3. d \in Call /\ d.op = op /\ d.q = q /\ d.i = 1 /\ d.at = "node" /\ d.rel = <<>>
  BY <1>2, NoCallType, FinishingType
<1>4. pc' = [pc EXCEPT ![t] = d] /\ \A u \in Threads : pc[u].q # q
  BY <1>2 DEF Enter, Busy
<1>5. pc'[t] = d /\ (\A u \in Threads : u # t => pc'[u] = pc[u]) /\ NodesKept /\ OwnKept
  BY <1>1, <1>3, <1>4, BeginWork
<1>6. pc[t].rel = <<>>
  BY <1>1, NoCallType DEF CallOK
<1>7. RelSame /\ ExecSame /\ ReleasingSame /\ NoMapAdded
  BY <1>1, <1>3, <1>5, <1>6 DEF RelSame, ExecSame, ReleasingSame, NoMapAdded
<1>8. QED
  BY <1>5, <1>7, StillReferences

\* The loop of clFinish has ended; the call ends, or goes on with another queue.
LEMMA LeaveReferences ==
  ASSUME Control, Control', References, NEW t \in Threads, pc[t].op \in {"return", "wait"}, Emptied(t),
         NEW d, pc' = [pc EXCEPT ![t] = d], UNCHANGED <<st, rc>>,
         d = NoCall \/ (d.op = "wait" /\ d.i = 1 /\ d.at = "node" /\ d.rel = <<>> /\ d.q \in Queues /\ Uses(t, d.q))
  PROVE  References'
<1>1. pc \in [Threads -> Call] /\ CallOK(pc[t], root) /\ root \in [Queues -> Seq(Node)]
  BY DEF Control, TypeOK, CallsOK
<1>2. /\ pc[t].q \in Queues /\ pc[t].i = Len(root[pc[t].q]) + 1 /\ root' = [root EXCEPT ![pc[t].q] = <<>>]
      /\ pc[t].at = "node" /\ UNCHANGED <<parent, maps, queue, held, mapped, lost>>
  BY EmptiedFacts DEF Emptied
<1>3. ~Own(pc[t]) /\ pc[t].op # "idle"
  BY DEF Own
<1>4. NodesKept /\ OwnKept /\ pc'[t] = d /\ \A u \in Threads : u # t => pc'[u] = pc[u]
  BY <1>2, <1>3, EndWork
<1>5. pc[t].rel = <<>> /\ d.rel = <<>> /\ d.op \in {"idle", "wait"}
  BY <1>1, <1>2, NoCallType DEF CallOK
<1>6. RelSame /\ ExecSame /\ ReleasingSame
  BY <1>4, <1>5 DEF RelSame, ExecSame, ReleasingSame
<1>7. NoMapAdded
  BY <1>1, <1>2 DEF NoMapAdded
<1>8. QED
  BY <1>2, <1>4, <1>6, <1>7, StillReferences

LEMMA SetKernelArgReferences ==
  ASSUME Control, Control', References, NEW t \in Threads, NEW k \in Kernels, NEW b \in Bufs \cup {None},
         clSetKernelArg(t, k, b)
  PROVE  References'
<1>1. UNCHANGED <<st, rc, parent, maps, queue, root, held, mapped, lost>> /\ pc' = pc
  BY DEF clSetKernelArg
<1>2. NodesKept /\ OwnKept
  BY <1>1, StillWork
<1>3. RelSame /\ ExecSame /\ ReleasingSame /\ NoMapAdded
  BY <1>1 DEF RelSame, ExecSame, ReleasingSame, NoMapAdded
<1>4. QED
  BY <1>1, <1>2, <1>3, StillReferences

LEMMA FinishReferences ==
  ASSUME Control, Control', References, NEW t \in Threads, NEW q \in Queues, clFinish(t, q)
  PROVE  References'
<1>1. "return" \in {"return", "wait"} /\ <<>> \in Seq(Events)
  OBVIOUS
<1>2. QED
  BY <1>1, EnterReferences DEF clFinish

LEMMA WaitForEventsReferences ==
  ASSUME Control, Control', References, NEW t \in Threads, NEW events \in Seq(Events), events # <<>>,
         clWaitForEvents(t, events)
  PROVE  References'
<1>1. 1 \in DOMAIN events /\ events[1] \in Events
  OBVIOUS
<1>2. PICK q \in Queues : q = queue[events[1]]
  BY <1>1 DEF clWaitForEvents, Owns, Control, EventsOK
<1>3. Enter(t, q, "wait", events) /\ "wait" \in {"return", "wait"}
  BY <1>2 DEF clWaitForEvents
<1>4. QED
  BY <1>3, EnterReferences DEF clWaitForEvents

\* The steps of a command up to its completion.
LEMMA ExecutingReferences ==
  ASSUME Control, Control', References, NEW t \in Threads,
         StartCommand(t) \/ DeviceDone(t) \/ AssertRunning(t)
  PROVE  References'
<1>1. {"device", "assert", "complete"} \subseteq Places \ {"release"}
  BY DEF Places
<1>2. CASE StartCommand(t)
  BY <1>1, <1>2, PlaceReferences DEF StartCommand, AtCommand
<1>3. CASE DeviceDone(t)
  BY <1>1, <1>3, PlaceReferences DEF DeviceDone
<1>4. CASE AssertRunning(t)
  BY <1>1, <1>4, PlaceReferences DEF AssertRunning
<1>5. QED  BY <1>2, <1>3, <1>4

LEMMA FinishReturnReferences ==
  ASSUME Control, Control', References, NEW t \in Threads, FinishReturn(t)
  PROVE  References'
BY LeaveReferences DEF FinishReturn

LEMMA FinishWaitReferences ==
  ASSUME Control, Control', References, NEW t \in Threads, FinishWait(t)
  PROVE  References'
<1> DEFINE rest == Tail(pc[t].events)
<1>1. /\ pc[t].op = "wait" /\ Emptied(t) /\ UNCHANGED <<st, rc>>
      /\ pc' = [pc EXCEPT ![t] = IF rest = <<>> THEN NoCall ELSE Finishing(queue[rest[1]], "wait", NoCmd, rest)]
  BY DEF FinishWait
<1>2. /\ pc[t].events \in Seq(Events) /\ pc[t].events # <<>>
      /\ \A j \in DOMAIN pc[t].events : held[pc[t].events[j]] > 0
  BY <1>1, CallFields DEF Control, TypeOK, WaitsOK, WaitOK
<1>3. CASE rest = <<>>
  BY <1>1, <1>3, LeaveReferences
<1>4. CASE rest # <<>>
  <2>1. /\ rest \in Seq(Events) /\ 1 \in DOMAIN rest
        /\ \A i \in DOMAIN rest : i + 1 \in DOMAIN pc[t].events /\ rest[i] = pc[t].events[i + 1]
    BY <1>2, <1>4, TailOf
  <2> HIDE DEF rest
  <2>2. rest[1] \in Events /\ rest[1] \in Range(pc[t].events) /\ held[rest[1]] > 0
    BY <1>2, <2>1 DEF Range
  <2>3. PICK q \in Queues : q = queue[rest[1]]
    BY <2>2 DEF Control, EventsOK
  <2>4. PICK d : d = Finishing(q, "wait", NoCmd, rest)
    OBVIOUS
  <2>5. pc' = [pc EXCEPT ![t] = d]
    BY <1>1, <1>4, <2>3, <2>4
  <2>6. d.op = "wait" /\ d.q = q /\ d.i = 1 /\ d.at = "node" /\ d.rel = <<>>
    BY <2>1, <2>4, NoCallType, FinishingType
  <2>7. Uses(t, q)
    BY <2>2, <2>3 DEF Uses
  <2>8. QED
    BY <1>1, <2>5, <2>6, <2>7, LeaveReferences
<1>5. QED  BY <1>3, <1>4

LEMMA FinishExecReferences ==
  ASSUME Control, Control', References, NEW t \in Threads, FinishExec(t)
  PROVE  References'
<1>1. /\ pc[t].op = "exec" /\ Emptied(t) /\ pc' = [pc EXCEPT ![t].i = 0] /\ pc[t].at = "node"
      /\ UNCHANGED <<st, rc, parent, maps, queue, held, mapped, lost>>
  BY DEF FinishExec, Emptied
<1>2. pc \in [Threads -> Call] /\ pc[t] \in Call /\ root \in [Queues -> Seq(Node)]
  BY DEF Control, TypeOK
<1>3. PICK d : d = [pc[t] EXCEPT !.i = 0]
  OBVIOUS
<1>4. d \in Call /\ d.at = "node" /\ d.i = 0 /\ d.rel = pc[t].rel /\ SameCall(pc[t], d)
  <2>1. 0 \in Nat
    OBVIOUS
  <2>2. pc[t].at = "node" /\ pc[t] \in Call
    BY <1>1, <1>2
  <2>3. d \in Call /\ d.at = pc[t].at /\ d.i = 0 /\ d.rel = pc[t].rel /\ SameCall(pc[t], d)
    BY <1>3, <2>1, <2>2, IndexUpdate
  <2>4. QED  BY <2>2, <2>3
<1>5. pc' = [pc EXCEPT ![t] = d]
  BY <1>1, <1>2, <1>3, NestedUpdate
<1>6. NodesKept /\ OwnKept /\ pc'[t] = d /\ \A u \in Threads : u # t => pc'[u] = pc[u]
  BY <1>1, <1>4, <1>5, FinishExecWork
<1>7. RelSame /\ ExecSame /\ ReleasingSame
  BY <1>4, <1>6 DEF RelSame, ExecSame, ReleasingSame, SameCall
<1>8. NoMapAdded
  <2>1. pc[t].q \in Queues /\ root'[pc[t].q] = <<>> /\ \A p \in Queues : p # pc[t].q => root'[p] = root[p]
    BY <1>1, EmptiedFacts
  <2>2. QED  BY <1>2, <2>1 DEF NoMapAdded
<1>9. QED
  BY <1>1, <1>6, <1>7, <1>8, StillReferences
-----------------------------------------------------------------------------
(* References: memory objects.                                             *)

\* A step that only changes the counts of buffers.
LEMMA BufferStep ==
  ASSUME Control, Control', References, pc' = pc, root' = root, queue' = queue,
         \A o \in Objects : o \notin Bufs => st'[o] = st[o] /\ rc'[o] = rc[o] /\ held'[o] = held[o]
  PROVE  /\ Outstanding' = Outstanding /\ RelSame /\ ExecSame /\ NoMapAdded
         /\ MemPart' => References'
<1>1. NodesKept /\ OwnKept
  BY StillWork
<1>2. RelSame /\ ExecSame /\ NoMapAdded /\ ReleasingSame
  BY DEF RelSame, ExecSame, NoMapAdded, ReleasingSame
<1>3. EventsSame /\ \A o \in Kernels \cup Queues : ObjectSame(o)
  BY Kinds DEF EventsSame, ObjectSame
<1>4. QED
  BY <1>1, <1>2, <1>3, OthersKept, ReferencesParts DEF ReferencesIs

\* Nobody refers to a buffer that is not there.
LEMMA NoHolders ==
  ASSUME TypeOK, NEW b \in Bufs, MemOK(b), st[b] # "live"
  PROVE  /\ held[b] = 0 /\ maps[b] = 0 /\ Cardinality(Children(b)) = 0
         /\ Cardinality(CommandRefs(b)) = 0 /\ Cardinality(ReleaseRefs(b)) = 0
<1>1. /\ held[b] \in Nat /\ maps[b] \in Nat /\ Cardinality(Children(b)) \in Nat
      /\ Cardinality(CommandRefs(b)) \in Nat /\ Cardinality(ReleaseRefs(b)) \in Nat
  BY MemNumbers
<1>2. held[b] + maps[b] + Cardinality(Children(b)) + Cardinality(CommandRefs(b)) + Cardinality(ReleaseRefs(b)) = 0
  BY MemOKIs DEF MemOK
<1>3. PICK h, m, s, c, r : /\ h = held[b] /\ m = maps[b] /\ s = Cardinality(Children(b))
                           /\ c = Cardinality(CommandRefs(b)) /\ r = Cardinality(ReleaseRefs(b))
  OBVIOUS
<1>4. h \in Nat /\ m \in Nat /\ s \in Nat /\ c \in Nat /\ r \in Nat /\ h + m + s + c + r = 0
  BY <1>1, <1>2, <1>3
<1>5. h = 0 /\ m = 0 /\ s = 0 /\ c = 0 /\ r = 0
  BY <1>4
<1>6. QED  BY <1>3, <1>5

\* The count of a buffer that stays live grows by n, and so does the number of
\* those who refer to it.
LEMMA LiveStays ==
  ASSUME TypeOK, TypeOK', NEW b \in Bufs, MemOK(b), st[b] = "live", st'[b] = "live", NEW n \in Int,
         NEW S, NEW C, NEW R, IsFiniteSet(S), IsFiniteSet(C), IsFiniteSet(R), rc'[b] = rc[b] + n,
         held'[b] + maps'[b] + Cardinality(S) + Cardinality(C) + Cardinality(R) + lost'[b]
           = held[b] + maps[b] + Cardinality(Children(b)) + Cardinality(CommandRefs(b))
             + Cardinality(ReleaseRefs(b)) + lost[b] + n
  PROVE  NewMemOK(b, S, C, R)
<1>1. /\ held[b] \in Nat /\ maps[b] \in Nat /\ Cardinality(Children(b)) \in Nat /\ lost[b] \in Nat
      /\ Cardinality(CommandRefs(b)) \in Nat /\ Cardinality(ReleaseRefs(b)) \in Nat /\ Extra(b) \in Nat
      /\ rc[b] \in Int
  BY MemNumbers
<1>2. /\ held'[b] \in Nat /\ maps'[b] \in Nat /\ lost'[b] \in Nat
      /\ Cardinality(S) \in Nat /\ Cardinality(C) \in Nat /\ Cardinality(R) \in Nat
  BY Kinds, FS_CardinalityType DEF TypeOK
<1>3. PICK h, m, s, c, r, l, y : /\ h = held'[b] /\ m = maps'[b] /\ s = Cardinality(S) /\ c = Cardinality(C)
                              /\ r = Cardinality(R) /\ l = lost'[b] /\ y = Extra(b)
  OBVIOUS
<1>4. PICK h0, m0, s0, c0, r0, l0 : /\ h0 = held[b] /\ m0 = maps[b] /\ s0 = Cardinality(Children(b))
                                    /\ c0 = Cardinality(CommandRefs(b)) /\ r0 = Cardinality(ReleaseRefs(b))
                                    /\ l0 = lost[b]
  OBVIOUS
<1>5. rc[b] = h0 + m0 + s0 + c0 + r0 + y + l0
  BY <1>3, <1>4, MemOKIs DEF MemOK
<1>6. h + m + s + c + r + l = h0 + m0 + s0 + c0 + r0 + l0 + n
  BY <1>3, <1>4
<1>7. rc'[b] = h + m + s + c + r + y + l
  BY <1>1, <1>2, <1>3, <1>4, <1>5, <1>6
<1>8. QED
  BY <1>3, <1>7 DEF NewMemOK

LEMMA CreateBufferReferences ==
  ASSUME Control, Control', References, NEW t \in Threads, NEW b \in Bufs, clCreateBuffer(t, b)
  PROVE  References'
<1>1. /\ st[b] = "none" /\ b \notin SubBufs /\ TypeOK /\ b \in Objects
      /\ st' = [st EXCEPT ![b] = "live"] /\ rc' = [rc EXCEPT ![b] = NumDevices]
      /\ held' = [held EXCEPT ![b] = 1]
      /\ UNCHANGED <<parent, lost, maps, queue, root, pc, mapped>>
  BY Kinds DEF clCreateBuffer, Control
<1>2. /\ st'[b] = "live" /\ rc'[b] = NumDevices /\ held'[b] = 1
      /\ \A o \in Objects : o # b => st'[o] = st[o] /\ rc'[o] = rc[o] /\ held'[o] = held[o]
  BY <1>1 DEF TypeOK
<1>3. MemPart /\ MemOK(b)
  BY ReferencesParts DEF ReferencesIs, MemPart
<1>4. /\ Outstanding' = Outstanding /\ RelSame /\ ExecSame /\ NoMapAdded
      /\ MemPart' => References'
  BY <1>1, <1>2, BufferStep
<1>5. \A x \in Bufs : /\ Children(x)' = Children(x) /\ CommandRefs(x)' = CommandRefs(x)
                      /\ ReleaseRefs(x)' = ReleaseRefs(x)
  <2>1. parent[b] = None
    BY <1>1, <1>3 DEF MemOK
  <2>2. ASSUME NEW x \in Bufs PROVE Children(x)' = Children(x)
    <3>1. \A c \in Bufs : parent[c] = x => st'[c] = st[c]
      BY <1>2, <2>1, Kinds
    <3>2. QED  BY <1>1, <3>1 DEF Children
  <2>3. QED
    BY <1>4, <2>2, CommandRefsKept, ReleaseRefsKept
<1>6. ASSUME NEW x \in Bufs PROVE MemOK(x)'
  <2>1. CASE x = b
    <3>1. NewMemOK(b, Children(b), CommandRefs(b), ReleaseRefs(b))
      <4>1. /\ maps[b] = 0 /\ Cardinality(Children(b)) = 0 /\ Cardinality(CommandRefs(b)) = 0
            /\ Cardinality(ReleaseRefs(b)) = 0 /\ lost[b] = 0
        BY <1>1, <1>3, NoHolders DEF MemOK
      <4>2. NumDevices \in Nat /\ Extra(b) = NumDevices - 1
        BY <1>1, BoundsAssumption DEF Extra
      <4>3. QED
        BY <1>1, <1>2, <1>3, <4>1, <4>2 DEF NewMemOK, MemOK
    <3>2. QED
      BY <1>5, <2>1, <3>1, MemOKIs
  <2>2. CASE x # b
    <3>1. MemOK(x) /\ st'[x] = st[x] /\ rc'[x] = rc[x] /\ held'[x] = held[x]
      BY <1>2, <1>3, <2>2, Kinds DEF MemPart
    <3>2. NewMemOK(x, Children(x), CommandRefs(x), ReleaseRefs(x))
      BY <1>1, <3>1, MemOKIs DEF NewMemOK, MemOK
    <3>3. QED  BY <1>5, <3>2, MemOKIs
  <2>3. QED  BY <2>1, <2>2
<1>7. ParentsOK'
  <2>1. \A x \in Bufs : st[x] # "none" => st'[x] # "none"
    BY <1>2, Kinds
  <2>2. QED
    BY <1>1, <1>3, <2>1 DEF MemPart, ParentsOK, TypeOK
<1>8. MapsOK'
  BY <1>1, <1>3, <1>4, MapsKept DEF MemPart
<1>9. BufsCounted' /\ NothingLost'
  BY <1>1, <1>2, <1>3, Kinds, BoundsAssumption DEF MemPart, BufsCounted, NothingLost
<1>10. QED
  BY <1>4, <1>6, <1>7, <1>8, <1>9 DEF MemPart

LEMMA CreateSubBufferReferences ==
  ASSUME Control, Control', References, NEW t \in Threads, NEW b \in Bufs, NEW p \in Bufs,
         clCreateSubBuffer(t, b, p)
  PROVE  References'
<1>1. /\ st[b] = "none" /\ b \in SubBufs /\ TypeOK /\ b \in Objects /\ p \in Objects /\ held[p] > 0
      /\ parent[p] = None
      /\ st' = [st EXCEPT ![b] = "live"] /\ rc' = [rc EXCEPT ![b] = 1, ![p] = @ + 1]
      /\ parent' = [parent EXCEPT ![b] = p] /\ held' = [held EXCEPT ![b] = 1]
      /\ UNCHANGED <<lost, maps, queue, root, pc, mapped>>
  BY Kinds DEF clCreateSubBuffer, Control, Owns
<1>2. MemPart /\ MemOK(b) /\ MemOK(p)
  BY ReferencesParts DEF ReferencesIs, MemPart
<1>3. st[p] = "live" /\ p # b
  <2>1. held[p] # 0
    BY <1>1
  <2>2. QED  BY <1>1, <1>2, <2>1, NoHolders
<1>4. /\ st'[b] = "live" /\ rc'[b] = 1 /\ held'[b] = 1 /\ parent'[b] = p
      /\ st'[p] = "live" /\ rc'[p] = rc[p] + 1 /\ held'[p] = held[p] /\ parent'[p] = None
      /\ \A o \in Objects : o # b /\ o # p => st'[o] = st[o] /\ rc'[o] = rc[o] /\ held'[o] = held[o]
      /\ \A x \in Bufs : x # b => parent'[x] = parent[x]
  BY <1>1, <1>3 DEF TypeOK
<1>5. /\ Outstanding' = Outstanding /\ RelSame /\ ExecSame /\ NoMapAdded
      /\ MemPart' => References'
  <2>1. \A o \in Objects : o \notin Bufs => st'[o] = st[o] /\ rc'[o] = rc[o] /\ held'[o] = held[o]
    BY <1>4
  <2>2. QED  BY <1>1, <2>1, BufferStep
<1>6. \A x \in Bufs : CommandRefs(x)' = CommandRefs(x) /\ ReleaseRefs(x)' = ReleaseRefs(x)
  BY <1>5, CommandRefsKept, ReleaseRefsKept
<1>7. parent[b] = None /\ lost[b] = 0
  BY <1>1, <1>2 DEF MemOK
<1>8. \A x \in Bufs : x # p => Children(x)' = Children(x)
  BY <1>3, <1>4, <1>7, Kinds DEF Children
<1>9. Children(p)' = Children(p) \cup {b} /\ b \notin Children(p)
  BY <1>1, <1>3, <1>4, <1>7, Kinds DEF Children
<1>10. ASSUME NEW x \in Bufs PROVE MemOK(x)'
  <2>1. CASE x = b
    <3>1. NewMemOK(b, Children(b), CommandRefs(b), ReleaseRefs(b))
      <4>1. /\ maps[b] = 0 /\ Cardinality(Children(b)) = 0 /\ Cardinality(CommandRefs(b)) = 0
            /\ Cardinality(ReleaseRefs(b)) = 0
        BY <1>1, <1>2, NoHolders
      <4>2. Extra(b) = 0
        BY <1>1 DEF Extra
      <4>3. QED
        BY <1>1, <1>2, <1>4, <1>7, <4>1, <4>2 DEF NewMemOK, MemOK
    <3>2. QED
      BY <1>3, <1>6, <1>8, <2>1, <3>1, MemOKIs
  <2>2. CASE x = p
    <3>1. IsFiniteSet(Children(p)') /\ Cardinality(Children(p)') = Cardinality(Children(p)) + 1
      BY <1>2, <1>9, FS_AddElement DEF MemOK
    <3>2. NewMemOK(p, Children(p)', CommandRefs(p), ReleaseRefs(p))
      <4>1. /\ held'[p] + maps'[p] + Cardinality(Children(p)') + Cardinality(CommandRefs(p))
               + Cardinality(ReleaseRefs(p)) + lost'[p]
              = held[p] + maps[p] + Cardinality(Children(p)) + Cardinality(CommandRefs(p))
                + Cardinality(ReleaseRefs(p)) + lost[p] + 1
            /\ IsFiniteSet(CommandRefs(p)) /\ IsFiniteSet(ReleaseRefs(p))
        BY <1>1, <1>2, <1>4, <3>1, MemNumbers DEF MemOK
      <4>2. TypeOK /\ TypeOK' /\ 1 \in Int
        BY DEF Control
      <4>3. QED
        BY <1>2, <1>3, <1>4, <3>1, <4>1, <4>2, LiveStays
    <3>3. QED
      BY <1>6, <2>2, <3>2, MemOKIs
  <2>3. CASE x # b /\ x # p
    <3>1. MemOK(x) /\ st'[x] = st[x] /\ rc'[x] = rc[x] /\ held'[x] = held[x] /\ parent'[x] = parent[x]
      BY <1>2, <1>4, <2>3, Kinds DEF MemPart
    <3>2. NewMemOK(x, Children(x), CommandRefs(x), ReleaseRefs(x))
      BY <1>1, <3>1, MemOKIs DEF NewMemOK, MemOK
    <3>3. QED  BY <1>6, <1>8, <2>3, <3>2, MemOKIs
  <2>4. QED  BY <2>1, <2>2, <2>3
<1>11. ParentsOK'
  <2>1. \A x \in Bufs : st[x] # "none" => st'[x] # "none" /\ x # b
    BY <1>1, <1>4, Kinds
  <2>2. ASSUME NEW x \in Bufs, x # b, parent[x] # None
        PROVE  /\ parent[x] \in Bufs /\ parent[x] # b /\ parent[parent[x]] = None /\ x \in SubBufs
               /\ st'[parent[x]] # "none"
    BY <1>1, <1>2, <2>1, <2>2 DEF MemPart, ParentsOK, TypeOK
  <2>3. QED
    BY <1>1, <1>4, <2>2 DEF ParentsOK
<1>12. MapsOK'
  BY <1>1, <1>2, <1>5, MapsKept DEF MemPart
<1>13. BufsCounted' /\ NothingLost'
  BY <1>1, <1>2 DEF MemPart, BufsCounted, NothingLost
<1>14. QED
  BY <1>5, <1>10, <1>11, <1>12, <1>13 DEF MemPart

\* clReleaseMemObject gives back one of the references that the client, or a call
\* on its way to release the buffers of a command, has of b.
LEMMA DropMemReferences ==
  ASSUME TypeOK, TypeOK', MemPart, NEW b \in Bufs, DropMem(b), parent' = parent, lost' = lost, mapped' = mapped,
         Outstanding' = Outstanding, NoMapAdded, ExecSame,
         \A c \in Bufs : /\ IsFiniteSet(ReleaseRefs(c)')
                         /\ held[c] + Cardinality(ReleaseRefs(c))
                              = held'[c] + Cardinality(ReleaseRefs(c)') + One(b, c)
  PROVE  MemPart'
<1>1. /\ rc'[b] = rc[b] - 1
      /\ \A c \in Bufs : c # b => /\ st'[c] = st[c] /\ maps'[c] = maps[c]
                                  /\ rc'[c] = IF rc[b] = 1 /\ parent[b] = c THEN rc[c] - 1 ELSE rc[c]
      /\ rc[b] = 1 => st'[b] = "freed" /\ maps'[b] = 0
      /\ rc[b] # 1 => st' = st /\ maps' = maps
  BY DropMemEffect
<1>2. \A c \in Bufs : /\ MemOK(c) /\ CommandRefs(c)' = CommandRefs(c) /\ IsFiniteSet(ReleaseRefs(c)')
                      /\ IsFiniteSet(CommandRefs(c)) /\ IsFiniteSet(Children(c))
  BY CommandRefsKept DEF MemPart, MemOK
<1>3. \A c \in Bufs : /\ held[c] \in Nat /\ held'[c] \in Nat /\ maps[c] \in Nat /\ lost[c] \in Nat
                      /\ Cardinality(ReleaseRefs(c)) \in Nat /\ Cardinality(ReleaseRefs(c)') \in Nat
                      /\ Cardinality(CommandRefs(c)) \in Nat /\ Cardinality(Children(c)) \in Nat
                      /\ Extra(c) \in Nat /\ rc[c] \in Int
  <2>1. \A c \in Bufs : held'[c] \in Nat
    BY Kinds DEF TypeOK
  <2>2. \A c \in Bufs : Cardinality(ReleaseRefs(c)') \in Nat
    BY <1>2, FS_CardinalityType
  <2>3. QED  BY <1>2, <2>1, <2>2, MemNumbers
<1>4. One(b, b) = 1 /\ \A c : c # b => One(b, c) = 0
  BY DEF One
<1>5. held[b] + Cardinality(ReleaseRefs(b)) = held'[b] + Cardinality(ReleaseRefs(b)') + 1
  BY <1>4
<1>6. st[b] = "live"
  <2> SUFFICES ASSUME st[b] # "live" PROVE FALSE
    OBVIOUS
  <2>1. held[b] = 0 /\ Cardinality(ReleaseRefs(b)) = 0
    BY <1>2, NoHolders
  <2>2. QED  BY <1>3, <1>5, <2>1
<1>7. rc[b] = held[b] + maps[b] + Cardinality(Children(b)) + Cardinality(CommandRefs(b))
              + Cardinality(ReleaseRefs(b)) + Extra(b) + lost[b]
  BY <1>2, <1>6, MemOKIs DEF MemOK
<1>8. rc[b] >= 1
  BY <1>3, <1>5, <1>7
<1>9. rc[b] = 1 => /\ maps[b] = 0 /\ Cardinality(Children(b)) = 0 /\ Cardinality(CommandRefs(b)) = 0
                   /\ held'[b] = 0 /\ Cardinality(ReleaseRefs(b)') = 0
  <2>1. PICK h, m, s, c, r, y, l : /\ h = held[b] /\ m = maps[b] /\ s = Cardinality(Children(b))
                                   /\ c = Cardinality(CommandRefs(b)) /\ r = Cardinality(ReleaseRefs(b))
                                   /\ y = Extra(b) /\ l = lost[b]
    OBVIOUS
  <2>2. PICK h1, r1 : h1 = held'[b] /\ r1 = Cardinality(ReleaseRefs(b)')
    OBVIOUS
  <2>3. /\ h \in Nat /\ m \in Nat /\ s \in Nat /\ c \in Nat /\ r \in Nat /\ y \in Nat /\ l \in Nat
        /\ h1 \in Nat /\ r1 \in Nat /\ h + r = h1 + r1 + 1 /\ rc[b] = h + m + s + c + r + y + l
    BY <1>3, <1>5, <1>7, <2>1, <2>2
  <2>4. rc[b] = 1 => m = 0 /\ s = 0 /\ c = 0 /\ h1 = 0 /\ r1 = 0
    BY <2>3
  <2>5. QED  BY <2>1, <2>2, <2>4
<1>10. \A c \in Bufs : maps'[c] = maps[c]
  BY <1>1, <1>9
<1>11. parent[b] \in Bufs => parent[b] # b /\ b \in Children(parent[b])
  <2>1. parent[b] \in Bufs => parent[b] # None /\ parent[parent[b]] = None
    BY Kinds DEF MemPart, ParentsOK
  <2>2. QED  BY <1>6, <2>1 DEF Children
<1>12. ASSUME NEW c \in Bufs, ~(rc[b] = 1 /\ parent[b] = c)
       PROVE  Children(c)' = Children(c)
  BY <1>1, <1>12 DEF Children
<1>13. rc[b] = 1 /\ parent[b] \in Bufs => Children(parent[b])' = Children(parent[b]) \ {b}
  <2> SUFFICES ASSUME rc[b] = 1, NEW p \in Bufs, p = parent[b] PROVE Children(p)' = Children(p) \ {b}
    BY DEF Children
  <2>1. st'[b] = "freed" /\ \A c \in Bufs : c # b => st'[c] = st[c]
    BY <1>1
  <2>2. QED
    BY <2>1 DEF Children
<1>14. ASSUME NEW c \in Bufs PROVE MemOK(c)'
  <2>1. /\ MemOK(c) /\ IsFiniteSet(ReleaseRefs(c)') /\ IsFiniteSet(CommandRefs(c)) /\ IsFiniteSet(Children(c))
        /\ CommandRefs(c)' = CommandRefs(c)
    BY <1>2
  <2>2. /\ held[c] \in Nat /\ held'[c] \in Nat /\ maps[c] \in Nat /\ lost[c] \in Nat
        /\ Cardinality(ReleaseRefs(c)) \in Nat /\ Cardinality(ReleaseRefs(c)') \in Nat
        /\ Cardinality(CommandRefs(c)) \in Nat /\ Cardinality(Children(c)) \in Nat
    BY <1>3
  <2> SUFFICES NewMemOK(c, Children(c)', CommandRefs(c), ReleaseRefs(c)')
    BY <2>1, MemOKIs
  <2>3. CASE c = b /\ rc[b] = 1
    <3>1. Children(c)' = Children(c)
      BY <1>11, <1>12, <2>3
    <3>2. st'[c] = "freed" /\ maps'[c] = 0
      BY <1>1, <2>3
    <3>3. held'[c] + maps'[c] + Cardinality(Children(c)) + Cardinality(CommandRefs(c))
            + Cardinality(ReleaseRefs(c)') = 0
      BY <1>9, <2>2, <2>3, <3>2
    <3>4. QED
      BY <2>1, <3>1, <3>2, <3>3 DEF NewMemOK
  <2>4. CASE c = b /\ rc[b] # 1
    <3>1. Children(c)' = Children(c)
      BY <1>12, <2>4
    <3>2. st'[c] = "live" /\ st[c] = "live" /\ rc'[c] = rc[c] + (-1) /\ maps'[c] = maps[c] /\ -1 \in Int
      BY <1>1, <1>3, <1>6, <2>4
    <3>3. held'[c] + maps'[c] + Cardinality(Children(c)) + Cardinality(CommandRefs(c)) + Cardinality(ReleaseRefs(c)') + lost'[c]
           = held[c] + maps[c] + Cardinality(Children(c)) + Cardinality(CommandRefs(c))
             + Cardinality(ReleaseRefs(c)) + lost[c] + (-1)
      <4>1. held[c] + Cardinality(ReleaseRefs(c)) = held'[c] + Cardinality(ReleaseRefs(c)') + 1
        BY <1>5, <2>4
      <4>2. QED  BY <2>2, <3>2, <4>1
    <3>4. QED
      BY <2>1, <3>1, <3>2, <3>3, LiveStays
  <2>5. CASE c # b /\ ~(rc[b] = 1 /\ parent[b] = c)
    <3>1. Children(c)' = Children(c)
      BY <1>12, <2>5
    <3>2. st'[c] = st[c] /\ rc'[c] = rc[c] + 0 /\ maps'[c] = maps[c] /\ 0 \in Int
      BY <1>1, <1>3, <2>5
    <3>3. held[c] + Cardinality(ReleaseRefs(c)) = held'[c] + Cardinality(ReleaseRefs(c)')
      BY <1>4, <2>2, <2>5
    <3>4. CASE st[c] = "live"
      <4>1. held'[c] + maps'[c] + Cardinality(Children(c)) + Cardinality(CommandRefs(c)) + Cardinality(ReleaseRefs(c)') + lost'[c]
             = held[c] + maps[c] + Cardinality(Children(c)) + Cardinality(CommandRefs(c))
               + Cardinality(ReleaseRefs(c)) + lost[c] + 0
        BY <2>2, <3>2, <3>3
      <4>2. QED
        BY <2>1, <3>1, <3>2, <3>4, <4>1, LiveStays
    <3>5. CASE st[c] # "live"
      <4>1. /\ held[c] = 0 /\ maps[c] = 0 /\ Cardinality(Children(c)) = 0
            /\ Cardinality(CommandRefs(c)) = 0 /\ Cardinality(ReleaseRefs(c)) = 0
        BY <2>1, <3>5, NoHolders
      <4>2. held'[c] = 0 /\ Cardinality(ReleaseRefs(c)') = 0
        BY <2>2, <3>3, <4>1
      <4>3. st[c] = "none" => parent[c] = None /\ lost[c] = 0
        BY <2>1 DEF MemOK
      <4>4. QED
        BY <2>1, <3>1, <3>2, <3>5, <4>1, <4>2, <4>3 DEF NewMemOK
    <3>6. QED  BY <3>4, <3>5
  <2>6. CASE c # b /\ rc[b] = 1 /\ parent[b] = c
    <3>1. Children(c)' = Children(c) \ {b} /\ b \in Children(c)
      BY <1>11, <1>13, <2>6
    <3>2. IsFiniteSet(Children(c)') /\ Cardinality(Children(c)') = Cardinality(Children(c)) - 1
      BY <2>1, <3>1, FS_RemoveElement
    <3>3. Cardinality(Children(c)) # 0
      BY <2>1, <3>1, FS_EmptySet
    <3>4. st[c] = "live"
      BY <2>1, <3>3, NoHolders
    <3>5. st'[c] = "live" /\ rc'[c] = rc[c] + (-1) /\ maps'[c] = maps[c] /\ -1 \in Int
      BY <1>1, <1>3, <2>6, <3>4
    <3>6. held[c] + Cardinality(ReleaseRefs(c)) = held'[c] + Cardinality(ReleaseRefs(c)')
      BY <1>4, <2>2, <2>6
    <3>7. held'[c] + maps'[c] + Cardinality(Children(c)') + Cardinality(CommandRefs(c)) + Cardinality(ReleaseRefs(c)') + lost'[c]
           = held[c] + maps[c] + Cardinality(Children(c)) + Cardinality(CommandRefs(c))
             + Cardinality(ReleaseRefs(c)) + lost[c] + (-1)
      BY <2>2, <3>2, <3>5, <3>6
    <3>8. QED
      BY <2>1, <3>2, <3>4, <3>5, <3>7, LiveStays
  <2>7. QED  BY <2>3, <2>4, <2>5, <2>6
<1>15. ParentsOK'
  <2>1. \A c \in Bufs : st[c] # "none" => st'[c] # "none"
    BY <1>1
  <2>2. QED
    BY <2>1 DEF MemPart, ParentsOK, TypeOK
<1>16. MapsOK'
  BY <1>10, MapsKept DEF MemPart
<1>17. BufsCounted' /\ NothingLost'
  <2>1. SubBufs = {} => parent[b] = None
    BY DEF MemPart, ParentsOK
  <2>2. SubBufs = {} => \A c \in Bufs : st'[c] = "live" => rc'[c] > 0
    BY <1>1, <1>3, <1>8, <2>1, Kinds DEF MemPart, BufsCounted
  <2>3. QED
    BY <2>2 DEF MemPart, BufsCounted, NothingLost
<1>18. QED
  BY <1>14, <1>15, <1>16, <1>17 DEF MemPart

LEMMA ReleaseMemObjectReferences ==
  ASSUME Control, Control', References, NEW t \in Threads, NEW b \in Bufs, clReleaseMemObject(t, b)
  PROVE  References'
<1>1. /\ DropMem(b) /\ held[b] > 0 /\ held' = [held EXCEPT ![b] = @ - 1] /\ TypeOK /\ TypeOK' /\ b \in Objects
      /\ UNCHANGED <<parent, lost, queue, root, pc, mapped>>
  BY Kinds DEF clReleaseMemObject, Owns, Control
<1>2. held'[b] = held[b] - 1 /\ \A o \in Objects : o # b => held'[o] = held[o]
  BY <1>1 DEF TypeOK
<1>3. /\ Outstanding' = Outstanding /\ RelSame /\ ExecSame /\ NoMapAdded
      /\ MemPart' => References'
  <2>1. \A o \in Objects : o \notin Bufs => st'[o] = st[o] /\ rc'[o] = rc[o] /\ held'[o] = held[o]
    BY <1>1, <1>2, DropMemEffect
  <2>2. QED  BY <1>1, <2>1, BufferStep
<1>4. MemPart
  BY ReferencesParts DEF ReferencesIs
<1>5. ASSUME NEW c \in Bufs
      PROVE  /\ IsFiniteSet(ReleaseRefs(c)')
             /\ held[c] + Cardinality(ReleaseRefs(c)) = held'[c] + Cardinality(ReleaseRefs(c)') + One(b, c)
  <2>1. ReleaseRefs(c)' = ReleaseRefs(c) /\ IsFiniteSet(ReleaseRefs(c))
    BY <1>3, <1>4, ReleaseRefsKept DEF MemPart, MemOK
  <2>2. held[c] \in Nat /\ Cardinality(ReleaseRefs(c)) \in Nat
    BY <1>1, <2>1, Kinds, FS_CardinalityType DEF TypeOK
  <2>3. held[c] = held'[c] + One(b, c)
    BY <1>2, <2>2, Kinds DEF One
  <2>4. One(b, c) \in Nat /\ held'[c] \in Nat
    BY <1>1, Kinds DEF One, TypeOK
  <2>5. QED
    BY <2>1, <2>2, <2>3, <2>4
<1>6. MemPart'
  BY <1>1, <1>3, <1>4, <1>5, DropMemReferences
<1>7. QED  BY <1>3, <1>6

\* The references of b in the lists rel of the calls, when one thread's is r.
LEMMA ReleaseRefsUpdate ==
  ASSUME TypeOK, CallsOK, NEW t \in Threads, NEW d, pc' = [pc EXCEPT ![t] = d], NEW b,
         IsFiniteSet(ReleaseRefs(b)), d.rel \in Seq(Bufs), Len(d.rel) <= 2
  PROVE  /\ IsFiniteSet(ReleaseRefs(b)')
         /\ Cardinality(ReleaseRefs(b)') + Times(pc[t].rel, b) = Cardinality(ReleaseRefs(b)) + Times(d.rel, b)
<1> DEFINE Rest == {r \in Threads \X {1, 2} : /\ r[1] # t /\ r[2] \in DOMAIN pc[r[1]].rel
                                              /\ pc[r[1]].rel[r[2]] = b}
           J == Slots(pc[t].rel, b)
           K == Slots(d.rel, b)
<1>1. pc'[t] = d /\ \A u \in Threads : u # t => pc'[u] = pc[u]
  BY DEF TypeOK
<1>2. pc[t].rel \in Seq(Bufs) /\ Len(pc[t].rel) <= 2
  BY CallFields DEF TypeOK, CallsOK, CallOK
<1>3. /\ J \in SUBSET {1, 2} /\ Cardinality(J) = Times(pc[t].rel, b)
      /\ K \in SUBSET {1, 2} /\ Cardinality(K) = Times(d.rel, b)
  BY <1>2, SlotsTimes
<1>4. ReleaseRefs(b) = Rest \cup ({t} \X J)
  BY DEF ReleaseRefs, Slots
<1>5. ReleaseRefs(b)' = Rest \cup ({t} \X K)
  <2>1. ReleaseRefs(b)' = {r \in Threads \X {1, 2} : /\ r[2] \in DOMAIN pc'[r[1]].rel
                                                     /\ pc'[r[1]].rel[r[2]] = b}
    BY DEF ReleaseRefs
  <2>2. QED
    BY <1>1, <2>1 DEF Slots
<1>6. IsFiniteSet(Rest)
  <2>1. Rest \in SUBSET ReleaseRefs(b)
    BY <1>4
  <2>2. QED  BY <2>1, FS_Subset
<1>7. \A j : <<t, j>> \notin Rest
  OBVIOUS
<1> HIDE DEF Rest, J, K
<1>8. /\ IsFiniteSet(ReleaseRefs(b)') /\ Cardinality(ReleaseRefs(b)') = Cardinality(Rest) + Cardinality(K)
      /\ Cardinality(ReleaseRefs(b)) = Cardinality(Rest) + Cardinality(J)
  <2>1. /\ IsFiniteSet(Rest \cup ({t} \X K))
        /\ Cardinality(Rest \cup ({t} \X K)) = Cardinality(Rest) + Cardinality(K)
    BY <1>3, <1>6, <1>7, PairCount
  <2>2. Cardinality(Rest \cup ({t} \X J)) = Cardinality(Rest) + Cardinality(J)
    BY <1>3, <1>6, <1>7, PairCount
  <2>3. QED  BY <1>4, <1>5, <2>1, <2>2
<1>9. Cardinality(Rest) \in Nat /\ Cardinality(J) \in Nat /\ Cardinality(K) \in Nat
  BY <1>3, <1>6, SlotSets, FS_CardinalityType
<1>10. QED
  BY <1>3, <1>8, <1>9

LEMMA ReleaseBufferReferences ==
  ASSUME Control, Control', References, NEW t \in Threads, ReleaseBuffer(t)
  PROVE  References'
<1>1. /\ pc[t].at = "release" /\ pc[t].rel # <<>> /\ TypeOK /\ TypeOK' /\ CallsOK
      /\ DropMem(Head(pc[t].rel)) /\ pc' = [pc EXCEPT ![t].rel = Tail(pc[t].rel)]
      /\ UNCHANGED <<parent, lost, karg, queue, status, root, held, mapped, count>>
  BY DEF ReleaseBuffer, Control
<1>2. pc \in [Threads -> Call] /\ pc[t] \in Call /\ pc[t].rel \in Seq(Bufs) /\ Len(pc[t].rel) <= 2
  BY <1>1, CallFields DEF TypeOK, CallsOK, CallOK
<1>3. PICK b \in Bufs : b = Head(pc[t].rel)
  BY <1>1, <1>2, TailOf
<1>4. PICK s \in Seq(Bufs) : s = Tail(pc[t].rel) /\ Len(s) <= 2
  <2>1. PICK s : s = Tail(pc[t].rel)
    OBVIOUS
  <2>2. s \in Seq(Bufs) /\ Len(s) = Len(pc[t].rel) - 1 /\ Len(pc[t].rel) \in Nat
    BY <1>1, <1>2, <2>1, TailOf
  <2>3. Len(s) <= 2
    BY <1>2, <2>2
  <2>4. QED  BY <2>1, <2>2, <2>3
<1>5. PICK d : d = [pc[t] EXCEPT !.rel = s]
  OBVIOUS
<1>6. d \in Call /\ d.at = pc[t].at /\ d.i = pc[t].i /\ d.rel = s /\ SameCall(pc[t], d)
  BY <1>2, <1>5, RelUpdate
<1>7. pc' = [pc EXCEPT ![t] = d]
  BY <1>1, <1>2, <1>4, <1>5, NestedUpdate
<1>8. pc'[t] = d /\ \A u \in Threads : u # t => pc'[u] = pc[u]
  BY <1>2, <1>7
<1>9. NodesKept /\ OwnKept
  BY <1>1, <1>6, <1>7, PlaceWork
<1>10. ExecSame /\ ReleasingSame /\ NoMapAdded
  BY <1>1, <1>6, <1>8 DEF ExecSame, ReleasingSame, NoMapAdded, SameCall
<1>11. DropMem(b) /\ MemPart
  BY <1>1, <1>3, ReferencesParts DEF ReferencesIs
<1>12. EventsSame /\ \A o \in Kernels \cup Queues : ObjectSame(o)
  <2>1. \A o \in Objects : o \notin Bufs => rc'[o] = rc[o] /\ st'[o] = st[o]
    BY <1>1, <1>11, DropMemEffect
  <2>2. QED
    BY <1>1, <2>1, Kinds DEF EventsSame, ObjectSame
<1>13. Outstanding' = Outstanding /\ KernelsOK' /\ QueuesOK' /\ EventsKept'
  BY <1>9, <1>10, <1>12, OthersKept
<1>14. ASSUME NEW c \in Bufs
       PROVE  /\ IsFiniteSet(ReleaseRefs(c)')
              /\ held[c] + Cardinality(ReleaseRefs(c)) = held'[c] + Cardinality(ReleaseRefs(c)') + One(b, c)
  <2>1. IsFiniteSet(ReleaseRefs(c)) /\ held[c] \in Nat /\ held'[c] = held[c]
    BY <1>1, <1>11, Kinds DEF MemPart, MemOK, TypeOK
  <2>2. /\ IsFiniteSet(ReleaseRefs(c)')
        /\ Cardinality(ReleaseRefs(c)') + Times(pc[t].rel, c) = Cardinality(ReleaseRefs(c)) + Times(s, c)
    <3>1. d.rel = s /\ d.rel \in Seq(Bufs) /\ Len(d.rel) <= 2 /\ TypeOK /\ CallsOK
      BY <1>1, <1>4, <1>6
    <3>2. /\ IsFiniteSet(ReleaseRefs(c)')
          /\ Cardinality(ReleaseRefs(c)') + Times(pc[t].rel, c) = Cardinality(ReleaseRefs(c)) + Times(d.rel, c)
      BY <1>7, <2>1, <3>1, ReleaseRefsUpdate
    <3>3. QED  BY <3>1, <3>2
  <2>3. Times(pc[t].rel, c) = Times(s, c) + One(b, c) /\ Times(s, c) \in Nat
    BY <1>1, <1>2, <1>3, <1>4, TimesTail
  <2>4. Cardinality(ReleaseRefs(c)) \in Nat /\ Cardinality(ReleaseRefs(c)') \in Nat /\ One(b, c) \in Nat
    BY <2>1, <2>2, FS_CardinalityType DEF One
  <2>5. QED
    BY SMTT(60), <2>1, <2>2, <2>3, <2>4
<1>15. MemPart'
  BY <1>1, <1>10, <1>11, <1>13, <1>14, DropMemReferences
<1>16. QED
  BY <1>13, <1>15, ReferencesParts DEF ReferencesIs
-----------------------------------------------------------------------------
(* References: the handles of the client.                                  *)

LEMMA QuietWork ==
  ASSUME TypeOK, TypeOK', pc' = pc, root' = root
  PROVE  /\ NodesKept /\ OwnKept /\ RelSame /\ ExecSame /\ NoMapAdded /\ ReleasingSame
         /\ Outstanding' = Outstanding
<1>1. NodesKept /\ OwnKept
  BY StillWork
<1>2. RelSame /\ ExecSame /\ NoMapAdded /\ ReleasingSame
  BY DEF RelSame, ExecSame, NoMapAdded, ReleasingSame
<1>3. QED
  BY <1>1, <1>2, WorkKept DEF TypeOK, NodesKept

\* The parts of KernelsOK and QueuesOK, as numbers.
LEMMA KernelNumbers ==
  ASSUME TypeOK, KernelsOK, NEW k \in Kernels
  PROVE  /\ IsFiniteSet(LaunchRefs(k)) /\ Cardinality(LaunchRefs(k)) \in Nat /\ rc[k] \in Int /\ held[k] \in Nat
         /\ st[k] = "live" => rc[k] > 0 /\ rc[k] >= held[k] + Cardinality(LaunchRefs(k))
         /\ st[k] = "live" /\ NoGPU => rc[k] = held[k] + Cardinality(LaunchRefs(k))
         /\ st[k] # "live" => held[k] = 0 /\ Cardinality(LaunchRefs(k)) = 0
<1>1. IsFiniteSet(LaunchRefs(k)) /\ Cardinality(LaunchRefs(k)) \in Nat
  BY FS_CardinalityType DEF KernelsOK
<1>2. rc[k] \in Int /\ held[k] \in Nat
  BY Kinds DEF TypeOK
<1>3. /\ st[k] = "live" => rc[k] > 0 /\ rc[k] >= held[k] + Cardinality(LaunchRefs(k))
      /\ st[k] = "live" /\ NoGPU => rc[k] = held[k] + Cardinality(LaunchRefs(k))
      /\ st[k] # "live" => held[k] + Cardinality(LaunchRefs(k)) = 0
  BY KernelsOKIs DEF KernelsOK
<1>4. QED  BY <1>1, <1>2, <1>3

LEMMA QueueNumbers ==
  ASSUME TypeOK, QueuesOK, NEW q \in Queues
  PROVE  /\ IsFiniteSet(EventsOf(q)) /\ IsFiniteSet(Releasing(q))
         /\ Cardinality(EventsOf(q)) \in Nat /\ Cardinality(Releasing(q)) \in Nat
         /\ rc[q] \in Int /\ held[q] \in Nat
         /\ st[q] = "live" => rc[q] >= held[q] + Cardinality(EventsOf(q)) + Cardinality(Releasing(q))
         /\ st[q] = "live" /\ "ndrange" \notin Commands /\ ~IsGPU(q)
              => rc[q] = held[q] + Cardinality(EventsOf(q)) + Cardinality(Releasing(q))
         /\ st[q] # "live" => /\ held[q] = 0 /\ Cardinality(EventsOf(q)) = 0 /\ Cardinality(Releasing(q)) = 0
                              /\ root[q] = <<>>
<1>1. /\ IsFiniteSet(EventsOf(q)) /\ IsFiniteSet(Releasing(q))
      /\ Cardinality(EventsOf(q)) \in Nat /\ Cardinality(Releasing(q)) \in Nat
  BY FS_CardinalityType DEF QueuesOK
<1>2. rc[q] \in Int /\ held[q] \in Nat
  BY Kinds DEF TypeOK
<1>3. /\ st[q] = "live" => rc[q] >= held[q] + Cardinality(EventsOf(q)) + Cardinality(Releasing(q))
      /\ st[q] = "live" /\ "ndrange" \notin Commands /\ ~IsGPU(q)
              => rc[q] = held[q] + Cardinality(EventsOf(q)) + Cardinality(Releasing(q))
      /\ st[q] # "live" => held[q] + Cardinality(EventsOf(q)) + Cardinality(Releasing(q)) = 0 /\ root[q] = <<>>
  BY QueuesOKIs DEF QueuesOK
<1>4. st[q] # "live" => held[q] = 0 /\ Cardinality(EventsOf(q)) = 0 /\ Cardinality(Releasing(q)) = 0
  BY <1>1, <1>2, <1>3
<1>5. QED  BY <1>1, <1>2, <1>3, <1>4

LEMMA RetainReferences ==
  ASSUME Control, Control', References, NEW t \in Threads, NEW o \in Objects, clRetain(t, o)
  PROVE  References'
<1>1. /\ held[o] = 1 /\ rc' = [rc EXCEPT ![o] = @ + 1] /\ held' = [held EXCEPT ![o] = @ + 1]
      /\ UNCHANGED <<st, parent, lost, maps, queue, root, pc, mapped>> /\ TypeOK /\ TypeOK'
  BY DEF clRetain, Control
<1>2. /\ rc'[o] = rc[o] + 1 /\ held'[o] = held[o] + 1 /\ rc[o] \in Int
      /\ \A x \in Objects : x # o => rc'[x] = rc[x] /\ held'[x] = held[x]
  BY <1>1 DEF TypeOK
<1>3. /\ NodesKept /\ OwnKept /\ RelSame /\ ExecSame /\ NoMapAdded /\ ReleasingSame
      /\ Outstanding' = Outstanding
  BY <1>1, QuietWork
<1>4. MemPart /\ KernelsOK /\ QueuesOK /\ EventsKept
  BY ReferencesParts DEF ReferencesIs
<1>5. EventsSame /\ (\A x \in Objects : x # o => ObjectSame(x))
  BY <1>1, <1>2 DEF EventsSame, ObjectSame
<1>6. o \notin Bufs => MemPart'
  <2> SUFFICES ASSUME o \notin Bufs PROVE MemPart'
    OBVIOUS
  <2>1. \A b \in Bufs : BufSame(b)
    BY <1>1, <1>2, Kinds DEF BufSame
  <2>2. QED  BY <1>1, <1>3, <1>4, <2>1, MemFrame
<1>7. o \notin Kernels => KernelsOK'
  BY <1>3, <1>4, <1>5, Kinds, KernelFrame DEF NodesKept
<1>8. o \notin Queues => QueuesOK'
  BY <1>1, <1>3, <1>4, <1>5, Kinds, QueueFrame
<1>9. EventsKept'
  <2>1. \A c \in Outstanding : c \in Node
    BY OutstandingNodes
  <2>2. QED  BY <1>3, <1>4, <1>5, <2>1, EventsKeptFrame
<1>10. o \in Bufs => MemPart'
  <2> SUFFICES ASSUME o \in Bufs PROVE MemPart'
    OBVIOUS
  <2>1. MemOK(o) /\ held[o] # 0
    BY <1>1, <1>4 DEF MemPart
  <2>2. st[o] = "live"
    BY <1>1, <2>1, NoHolders
  <2>3. \A x \in Bufs : /\ Children(x)' = Children(x) /\ CommandRefs(x)' = CommandRefs(x)
                        /\ ReleaseRefs(x)' = ReleaseRefs(x)
    BY <1>1, <1>3, ChildrenKept, CommandRefsKept, ReleaseRefsKept
  <2>4. ASSUME NEW x \in Bufs PROVE MemOK(x)'
    <3>1. MemOK(x) /\ IsFiniteSet(Children(x)) /\ IsFiniteSet(CommandRefs(x)) /\ IsFiniteSet(ReleaseRefs(x))
      BY <1>4 DEF MemPart, MemOK
    <3>2. CASE x = o
      <4>1. held'[x] + maps'[x] + Cardinality(Children(x)) + Cardinality(CommandRefs(x)) + Cardinality(ReleaseRefs(x)) + lost'[x]
             = held[x] + maps[x] + Cardinality(Children(x)) + Cardinality(CommandRefs(x))
               + Cardinality(ReleaseRefs(x)) + lost[x] + 1
        BY <1>1, <1>2, <3>1, <3>2, MemNumbers
      <4>2. NewMemOK(x, Children(x), CommandRefs(x), ReleaseRefs(x))
        BY <1>1, <1>2, <2>2, <3>1, <3>2, <4>1, LiveStays
      <4>3. QED  BY <2>3, <4>2, MemOKIs
    <3>3. CASE x # o
      <4>1. NewMemOK(x, Children(x), CommandRefs(x), ReleaseRefs(x))
        BY <1>1, <1>2, <3>1, <3>3, Kinds, MemOKIs DEF NewMemOK, MemOK
      <4>2. QED  BY <2>3, <4>1, MemOKIs
    <3>4. QED  BY <3>2, <3>3
  <2>5. ParentsOK' /\ MapsOK' /\ NothingLost'
    BY <1>1, <1>3, <1>4, MapsKept DEF MemPart, ParentsOK, NothingLost
  <2>6. BufsCounted'
    BY <1>1, <1>2, <1>4, Kinds DEF MemPart, BufsCounted
  <2>7. QED
    BY <2>4, <2>5, <2>6 DEF MemPart
<1>11. o \in Kernels => KernelsOK'
  <2> SUFFICES ASSUME o \in Kernels, NEW k \in Kernels PROVE NewKernelOK(k, LaunchRefs(k))
    BY <1>3, KernelsOKIs, LaunchesKept DEF NodesKept
  <2>1. /\ IsFiniteSet(LaunchRefs(k)) /\ Cardinality(LaunchRefs(k)) \in Nat /\ rc[k] \in Int /\ held[k] \in Nat
        /\ st[k] = "live" => rc[k] > 0 /\ rc[k] >= held[k] + Cardinality(LaunchRefs(k))
        /\ st[k] = "live" /\ NoGPU => rc[k] = held[k] + Cardinality(LaunchRefs(k))
        /\ st[k] # "live" => held[k] = 0 /\ Cardinality(LaunchRefs(k)) = 0
    BY <1>1, <1>4, KernelNumbers
  <2>2. CASE k # o
    BY <1>1, <1>2, <2>1, <2>2, Kinds DEF NewKernelOK
  <2>3. CASE k = o
    BY <1>1, <1>2, <2>1, <2>3 DEF NewKernelOK
  <2>4. QED  BY <2>2, <2>3
<1>12. o \in Queues => QueuesOK'
  <2> SUFFICES ASSUME o \in Queues, NEW q \in Queues PROVE NewQueueOK(q, EventsOf(q)', Releasing(q)')
    BY QueuesOKIs
  <2>0. EventsOf(q)' = EventsOf(q) /\ Releasing(q)' = Releasing(q)
    BY <1>1 DEF EventsOf, Releasing
  <2>1. /\ IsFiniteSet(EventsOf(q)) /\ IsFiniteSet(Releasing(q))
        /\ Cardinality(EventsOf(q)) \in Nat /\ Cardinality(Releasing(q)) \in Nat
        /\ rc[q] \in Int /\ held[q] \in Nat
        /\ st[q] = "live" => rc[q] >= held[q] + Cardinality(EventsOf(q)) + Cardinality(Releasing(q))
        /\ st[q] = "live" /\ "ndrange" \notin Commands /\ ~IsGPU(q)
             => rc[q] = held[q] + Cardinality(EventsOf(q)) + Cardinality(Releasing(q))
        /\ st[q] # "live" => /\ held[q] = 0 /\ Cardinality(EventsOf(q)) = 0 /\ Cardinality(Releasing(q)) = 0
                             /\ root[q] = <<>>
    BY <1>1, <1>4, QueueNumbers
  <2>2. CASE q # o
    BY <1>1, <1>2, <2>0, <2>1, <2>2, Kinds DEF NewQueueOK
  <2>3. CASE q = o
    BY <1>1, <1>2, <2>0, <2>1, <2>3 DEF NewQueueOK
  <2>4. QED  BY <2>2, <2>3
<1>13. QED
  BY <1>6, <1>7, <1>8, <1>9, <1>10, <1>11, <1>12, ReferencesParts DEF ReferencesIs

LEMMA ReleaseKernelReferences ==
  ASSUME Control, Control', References, NEW t \in Threads, NEW k \in Kernels, clReleaseKernel(t, k)
  PROVE  References'
<1>1. /\ held[k] > 0 /\ rc' = [rc EXCEPT ![k] = @ - 1] /\ held' = [held EXCEPT ![k] = @ - 1]
      /\ st' = IF rc[k] = 1 THEN [st EXCEPT ![k] = "freed"] ELSE st
      /\ UNCHANGED <<parent, lost, maps, queue, root, pc, mapped>> /\ TypeOK /\ TypeOK' /\ k \in Objects
  BY Kinds DEF clReleaseKernel, Owns, Control
<1>2. /\ rc'[k] = rc[k] - 1 /\ held'[k] = held[k] - 1 /\ st'[k] = IF rc[k] = 1 THEN "freed" ELSE st[k]
      /\ \A x \in Objects : x # k => rc'[x] = rc[x] /\ held'[x] = held[x] /\ st'[x] = st[x]
  BY <1>1 DEF TypeOK
<1>3. /\ NodesKept /\ OwnKept /\ RelSame /\ ExecSame /\ NoMapAdded /\ ReleasingSame
      /\ Outstanding' = Outstanding
  BY <1>1, QuietWork
<1>4. MemPart /\ KernelsOK /\ QueuesOK /\ EventsKept
  BY ReferencesParts DEF ReferencesIs
<1>5. EventsSame /\ (\A q \in Queues : ObjectSame(q)) /\ (\A b \in Bufs : BufSame(b))
  BY <1>1, <1>2, Kinds DEF EventsSame, ObjectSame, BufSame
<1>6. MemPart' /\ QueuesOK'
  BY <1>1, <1>3, <1>4, <1>5, MemFrame, QueueFrame
<1>7. EventsKept'
  <2>1. \A c \in Outstanding : c \in Node
    BY OutstandingNodes
  <2>2. QED  BY <1>3, <1>4, <1>5, <2>1, EventsKeptFrame
<1>8. KernelsOK'
  <2> SUFFICES ASSUME NEW x \in Kernels PROVE NewKernelOK(x, LaunchRefs(x))
    BY <1>3, KernelsOKIs, LaunchesKept DEF NodesKept
  <2>1. /\ IsFiniteSet(LaunchRefs(x)) /\ Cardinality(LaunchRefs(x)) \in Nat /\ rc[x] \in Int /\ held[x] \in Nat
        /\ st[x] = "live" => rc[x] > 0 /\ rc[x] >= held[x] + Cardinality(LaunchRefs(x))
        /\ st[x] = "live" /\ NoGPU => rc[x] = held[x] + Cardinality(LaunchRefs(x))
        /\ st[x] # "live" => held[x] = 0 /\ Cardinality(LaunchRefs(x)) = 0
    BY <1>1, <1>4, KernelNumbers
  <2>2. CASE x # k
    BY <1>2, <2>1, <2>2, Kinds DEF NewKernelOK
  <2>3. CASE x = k
    BY <1>1, <1>2, <2>1, <2>3 DEF NewKernelOK
  <2>4. QED  BY <2>2, <2>3
<1>9. QED
  BY <1>6, <1>7, <1>8, ReferencesParts DEF ReferencesIs

\* QueuesOK of a step that changes the events, and the counts, of one queue.
LEMMA OneQueue ==
  ASSUME TypeOK, QueuesOK, NEW q \in Queues,
         \A p \in Queues : p # q => /\ ObjectSame(p) /\ EventsOf(p)' = EventsOf(p) /\ Releasing(p)' = Releasing(p)
                                    /\ root'[p] = root[p],
         NewQueueOK(q, EventsOf(q)', Releasing(q)')
  PROVE  QueuesOK'
<1> SUFFICES ASSUME NEW p \in Queues, p # q PROVE NewQueueOK(p, EventsOf(p)', Releasing(p)')
  BY QueuesOKIs
<1>1. /\ ObjectSame(p) /\ EventsOf(p)' = EventsOf(p) /\ Releasing(p)' = Releasing(p) /\ root'[p] = root[p]
  OBVIOUS
<1>2. QED
  BY <1>1, QueuesOKIs DEF NewQueueOK, QueuesOK, ObjectSame

LEMMA ReleaseCommandQueueReferences ==
  ASSUME Control, Control', References, NEW t \in Threads, NEW q \in Queues, clReleaseCommandQueue(t, q)
  PROVE  References'
<1>1. /\ held[q] > 0 /\ Enter(t, q, "release_queue", <<>>) /\ held' = [held EXCEPT ![q] = @ - 1]
      /\ UNCHANGED <<st, rc, parent, lost, maps, queue, root, mapped>> /\ TypeOK /\ TypeOK' /\ q \in Objects
  BY Kinds DEF clReleaseCommandQueue, Owns, Control
<1>2. held'[q] = held[q] - 1 /\ \A x \in Objects : x # q => held'[x] = held[x]
  BY <1>1 DEF TypeOK
<1>3. pc \in [Threads -> Call] /\ pc[t].op = "idle" /\ CallOK(pc[t], root)
  BY <1>1 DEF Control, TypeOK, CallsOK, Enter, Idle
<1>4. PICK d : d = Finishing(q, "release_queue", NoCmd, <<>>)
  OBVIOUS
<1>5. d.op = "release_queue" /\ d.q = q /\ d.i = 1 /\ d.at = "node" /\ d.rel = <<>>
  BY <1>4 DEF Finishing
<1>6. pc' = [pc EXCEPT ![t] = d] /\ \A u \in Threads : pc[u].q # q
  BY <1>1, <1>4 DEF Enter, Busy
<1>7. pc'[t] = d /\ (\A u \in Threads : u # t => pc'[u] = pc[u]) /\ NodesKept /\ OwnKept
  BY <1>1, <1>3, <1>5, <1>6, BeginWork
<1>8. RelSame /\ ExecSame /\ NoMapAdded
  BY <1>1, <1>3, <1>5, <1>7, NoCallType DEF RelSame, ExecSame, NoMapAdded, CallOK
<1>9. Outstanding' = Outstanding
  BY <1>1, <1>7, WorkKept DEF TypeOK, NodesKept
<1>10. MemPart /\ KernelsOK /\ QueuesOK /\ EventsKept
  BY ReferencesParts DEF ReferencesIs
<1>11. MemPart'
  <2>1. \A b \in Bufs : BufSame(b)
    BY <1>1, <1>2, Kinds DEF BufSame
  <2>2. QED  BY <1>1, <1>8, <1>9, <1>10, <2>1, MemFrame
<1>12. KernelsOK'
  <2>1. \A k \in Kernels : ObjectSame(k)
    BY <1>1, <1>2, Kinds DEF ObjectSame
  <2>2. QED  BY <1>7, <1>10, <2>1, KernelFrame DEF NodesKept
<1>13. EventsKept'
  <2>1. EventsSame /\ \A c \in Outstanding : c \in Node
    BY <1>1, OutstandingNodes DEF EventsSame
  <2>2. QED  BY <1>9, <1>10, <2>1, EventsKeptFrame
<1>14. QueuesOK'
  <2>1. \A p \in Queues : EventsOf(p)' = EventsOf(p) /\ (p # q => ObjectSame(p))
    BY <1>1, <1>2, Kinds DEF EventsOf, ObjectSame
  <2>2. Releasing(q)' = Releasing(q) \cup {t} /\ t \notin Releasing(q)
    BY <1>3, <1>5, <1>6, <1>7 DEF Releasing
  <2>3. \A p \in Queues : p # q => Releasing(p)' = Releasing(p)
    BY <1>3, <1>5, <1>7 DEF Releasing
  <2>4. /\ IsFiniteSet(EventsOf(q)) /\ IsFiniteSet(Releasing(q))
        /\ Cardinality(EventsOf(q)) \in Nat /\ Cardinality(Releasing(q)) \in Nat
        /\ rc[q] \in Int /\ held[q] \in Nat
        /\ st[q] = "live" => rc[q] >= held[q] + Cardinality(EventsOf(q)) + Cardinality(Releasing(q))
        /\ st[q] = "live" /\ "ndrange" \notin Commands /\ ~IsGPU(q)
             => rc[q] = held[q] + Cardinality(EventsOf(q)) + Cardinality(Releasing(q))
        /\ st[q] # "live" => held[q] = 0
    BY <1>1, <1>10, QueueNumbers
  <2>5. IsFiniteSet(Releasing(q)') /\ Cardinality(Releasing(q)') = Cardinality(Releasing(q)) + 1
    BY <2>2, <2>4, FS_AddElement
  <2>6. NewQueueOK(q, EventsOf(q), Releasing(q)')
    <3>1. st'[q] = "live" /\ rc'[q] = rc[q] /\ held'[q] = held[q] - 1 /\ st[q] = "live"
      BY <1>1, <1>2, <2>4
    <3>2. QED
      BY <2>4, <2>5, <3>1 DEF NewQueueOK
  <2>7. QED
    BY <1>1, <1>10, <2>1, <2>3, <2>6, OneQueue
<1>15. QED
  BY <1>11, <1>12, <1>13, <1>14, ReferencesParts DEF ReferencesIs

\* An event whose command is outstanding is complete only when a launch has
\* returned from the pthread driver.
LEMMA OutstandingStatus ==
  ASSUME Control, NEW c \in Outstanding, c.event # None
  PROVE  /\ c.event \in Events /\ queue[c.event] \in Queues
         /\ status[c.event] = "complete" => Device[queue[c.event]] = "pthread"
<1>1. c \in Node /\ \/ \E q \in Queues, i \in Nat : Ahead(root, pc, q, i) /\ c = root[q][i] /\ CommandOK(c, q)
                    \/ \E t \in Threads : Own(pc[t]) /\ c = pc[t].cmd /\ CommandOK(c, pc[t].q)
  BY OutstandingNodes
<1>2. PICK e \in Events : e = c.event
  BY <1>1, NodeFields
<1>3. \A s, dev : \A a \in Places : a \notin {"none", "release"} /\ StatusAt(a, s, dev) /\ s = "complete" => dev = "pthread"
  BY DEF Places, StatusAt
<1>4. ASSUME NEW q \in Queues, NEW i \in Nat, Ahead(root, pc, q, i), c = root[q][i], CommandOK(c, q)
      PROVE  queue[e] = q /\ (status[e] = "complete" => Device[q] = "pthread")
  <2>1. queue[e] = q /\ i \in DOMAIN root[q]
    BY <1>2, <1>4 DEF CommandOK, Ahead
  <2>2. CASE \A t \in Threads : pc[t].q = q => pc[t].i < i
    BY <1>2, <1>4, <2>1, <2>2 DEF Control, NodeStatus
  <2>3. ASSUME NEW t \in Threads, pc[t].q = q, ~(pc[t].i < i)
        PROVE  status[e] = "complete" => Device[q] = "pthread"
    <3>1. pc[t] \in Call /\ pc[t].i \in Nat /\ pc[t].at \in Places /\ CallOK(pc[t], root)
      BY CallFields DEF Control, TypeOK, CallsOK
    <3>2. i = pc[t].i /\ pc[t].at # "release"
      BY <1>4, <2>3, <3>1 DEF Ahead, Through
    <3>3. StatusAt(pc[t].at, status[e], Device[q])
      BY <1>2, <1>4, <2>1, <2>3, <3>2 DEF Control, NodeStatus
    <3>4. pc[t].at # "none"
      BY <2>3, <3>1, NoCallType, Kinds DEF CallOK
    <3>5. QED
      BY <1>3, <3>1, <3>2, <3>3, <3>4
  <2>4. QED  BY <2>1, <2>2, <2>3
<1>5. ASSUME NEW t \in Threads, Own(pc[t]), c = pc[t].cmd, CommandOK(c, pc[t].q)
      PROVE  queue[e] = pc[t].q /\ pc[t].q \in Queues /\ (status[e] = "complete" => Device[pc[t].q] = "pthread")
  <2>1. pc[t] \in Call /\ pc[t].at \in Places /\ CallOK(pc[t], root) /\ pc[t].op = "exec"
    BY <1>5, CallFields DEF Control, TypeOK, CallsOK, Own
  <2>2. queue[e] = pc[t].q /\ pc[t].q \in Queues /\ pc[t].at # "none"
    BY <1>2, <1>5, <2>1 DEF CommandOK, CallOK
  <2>3. IF pc[t].i = 0 THEN StatusAt(pc[t].at, status[e], Device[pc[t].q]) ELSE status[e] = "queued"
    BY <1>2, <1>5, <2>1 DEF Control, OwnStatus
  <2>4. pc[t].i = 0 => pc[t].at # "release"
    BY <1>5 DEF Own
  <2>5. QED
    BY <1>3, <2>1, <2>2, <2>3, <2>4
<1>6. QED
  BY <1>1, <1>2, <1>4, <1>5

LEMMA ReleaseEventReferences ==
  ASSUME Control, Control', References, NEW t \in Threads, NEW e \in Events, clReleaseEvent(t, e)
  PROVE  References'
<1>1. /\ Idle(t) /\ held[e] > 0 /\ rc' = [rc EXCEPT ![e] = @ - 1] /\ held' = [held EXCEPT ![e] = @ - 1]
      /\ (status[e] # "complete" => DropsEarly)
      /\ UNCHANGED <<parent, lost, maps, queue, status, root, mapped>> /\ TypeOK /\ TypeOK' /\ e \in Objects
  BY Kinds DEF clReleaseEvent, Owns, Control
<1>2. \A o \in Objects : o # e => rc'[o] = rc[o] /\ held'[o] = held[o]
  BY <1>1 DEF TypeOK
<1>3. PICK q \in Queues : q = queue[e] /\ st[e] = "live"
  BY <1>1 DEF Control, EventsOK
<1>4. MemPart /\ KernelsOK /\ QueuesOK /\ EventsKept
  BY ReferencesParts DEF ReferencesIs
<1>5. CASE pc' = pc /\ st' = st
  <2>1. /\ NodesKept /\ OwnKept /\ RelSame /\ ExecSame /\ NoMapAdded /\ ReleasingSame
    BY <1>1, <1>5, QuietWork
  <2>2. EventsSame /\ \A o \in Objects : o \notin Events => ObjectSame(o)
    BY <1>1, <1>2, <1>5 DEF EventsSame, ObjectSame
  <2>3. QED
    BY <1>1, <2>1, <2>2, CountsKept
<1>6. CASE st' = st /\ Enter(t, q, "release_event", <<e>>)
  <2>1. pc \in [Threads -> Call] /\ pc[t].op = "idle" /\ CallOK(pc[t], root)
    BY <1>1 DEF Control, TypeOK, CallsOK, Idle
  <2>2. PICK d : d = Finishing(q, "release_event", NoCmd, <<e>>)
    OBVIOUS
  <2>3. d.op = "release_event" /\ d.q = q /\ d.i = 1 /\ d.at = "node" /\ d.rel = <<>>
    BY <2>2 DEF Finishing
  <2>4. pc' = [pc EXCEPT ![t] = d] /\ \A u \in Threads : pc[u].q # q
    BY <1>6, <2>2 DEF Enter, Busy
  <2>5. pc'[t] = d /\ (\A u \in Threads : u # t => pc'[u] = pc[u]) /\ NodesKept /\ OwnKept
    BY <1>1, <2>1, <2>3, <2>4, BeginWork
  <2>6. RelSame /\ ExecSame /\ NoMapAdded /\ ReleasingSame
    BY <1>1, <2>1, <2>3, <2>5, NoCallType DEF RelSame, ExecSame, NoMapAdded, ReleasingSame, CallOK
  <2>7. EventsSame /\ \A o \in Objects : o \notin Events => ObjectSame(o)
    BY <1>1, <1>2, <1>6 DEF EventsSame, ObjectSame
  <2>8. QED
    BY <1>1, <2>5, <2>6, <2>7, CountsKept
<1>7. CASE pc' = pc /\ st' = [st EXCEPT ![e] = "freed"] /\ IsGPU(q)
  <2>1. /\ NodesKept /\ OwnKept /\ RelSame /\ ExecSame /\ NoMapAdded /\ ReleasingSame
        /\ Outstanding' = Outstanding
    BY <1>1, <1>7, QuietWork
  <2>2. st'[e] = "freed" /\ \A o \in Objects : o # e => st'[o] = st[o]
    BY <1>1, <1>7 DEF TypeOK
  <2>3. MemPart' /\ KernelsOK'
    <3>1. (\A b \in Bufs : BufSame(b)) /\ (\A k \in Kernels : ObjectSame(k))
      BY <1>1, <1>2, <2>2, Kinds DEF BufSame, ObjectSame
    <3>2. QED  BY <1>1, <1>4, <2>1, <3>1, MemFrame, KernelFrame DEF NodesKept
  <2>4. QueuesOK'
    <3>1. \A p \in Queues : ObjectSame(p) /\ Releasing(p)' = Releasing(p) /\ root'[p] = root[p]
      BY <1>1, <1>2, <1>7, <2>2, Kinds DEF ObjectSame, Releasing
    <3>2. \A p \in Queues : p # q => EventsOf(p)' = EventsOf(p)
      BY <1>1, <1>3, <2>2, Kinds DEF EventsOf
    <3>3. EventsOf(q)' = EventsOf(q) \ {e} /\ e \in EventsOf(q)
      BY <1>1, <1>3, <2>2, Kinds DEF EventsOf
    <3>4. /\ IsFiniteSet(EventsOf(q)) /\ IsFiniteSet(Releasing(q))
          /\ Cardinality(EventsOf(q)) \in Nat /\ Cardinality(Releasing(q)) \in Nat
          /\ rc[q] \in Int /\ held[q] \in Nat
          /\ st[q] = "live" => rc[q] >= held[q] + Cardinality(EventsOf(q)) + Cardinality(Releasing(q))
          /\ st[q] # "live" => Cardinality(EventsOf(q)) = 0
      BY <1>1, <1>4, QueueNumbers
    <3>5. /\ IsFiniteSet(EventsOf(q)') /\ Cardinality(EventsOf(q)') = Cardinality(EventsOf(q)) - 1
          /\ Cardinality(EventsOf(q)) # 0
      BY <3>3, <3>4, FS_RemoveElement, FS_EmptySet
    <3>6. NewQueueOK(q, EventsOf(q)', Releasing(q)')
      <4>1. st'[q] = "live" /\ rc'[q] = rc[q] /\ held'[q] = held[q] /\ st[q] = "live"
        BY <3>1, <3>4, <3>5 DEF ObjectSame
      <4>2. QED
        BY <1>7, <3>1, <3>4, <3>5, <4>1 DEF NewQueueOK
    <3>7. QED
      BY <1>1, <1>4, <3>1, <3>2, <3>6, OneQueue
  <2>5. EventsKept'
    <3>1. NoGPU' <=> NoGPU
      BY DEF NoGPU, IsGPU
    <3>2. ASSUME ~DropsEarly \/ NoGPU, NEW c \in Outstanding, c.event # None PROVE st'[c.event] = "live"
      <4>1. /\ c.event \in Events /\ queue[c.event] \in Queues
            /\ status[c.event] = "complete" => Device[queue[c.event]] = "pthread"
        BY <3>2, OutstandingStatus
      <4>2. ~NoGPU
        BY <1>7 DEF NoGPU
      <4>3. status[e] = "complete" /\ Device[q] = "hsa"
        BY <1>1, <1>7, <3>2, <4>2 DEF IsGPU
      <4>4. c.event # e
        BY <1>3, <4>1, <4>3
      <4>5. st[c.event] = "live"
        BY <1>4, <3>2 DEF EventsKept
      <4>6. QED
        BY <2>2, <4>1, <4>4, <4>5, Kinds
    <3>3. QED
      BY <2>1, <3>1, <3>2 DEF EventsKept
  <2>6. QED
    BY <2>3, <2>4, <2>5, ReferencesParts DEF ReferencesIs
<1>8. QED
  BY <1>3, <1>5, <1>6, <1>7 DEF clReleaseEvent
-----------------------------------------------------------------------------
(* References: the end of a command, and of a release.                     *)

LEMMA FinishReleaseReferences ==
  ASSUME Control, Control', References, NEW t \in Threads, FinishRelease(t)
  PROVE  References'
<1>1. /\ pc[t].op \in {"release_queue", "release_event"} /\ Emptied(t) /\ TypeOK /\ TypeOK'
      /\ pc' = [pc EXCEPT ![t] = NoCall] /\ rc' = [rc EXCEPT ![pc[t].q] = @ - 1]
      /\ st' = [o \in Objects |-> IF o \in (IF rc[pc[t].q] = 1 THEN {pc[t].q} ELSE {}) \cup Range(pc[t].events)
                                  THEN "freed" ELSE st[o]]
      /\ UNCHANGED <<parent, lost, maps, queue, held, mapped>>
  BY DEF FinishRelease, Emptied, Control
<1>2. PICK q \in Queues : q = pc[t].q
  BY <1>1, EmptiedFacts
<1>3. /\ pc[t].i = Len(root[q]) + 1 /\ pc[t].at = "node" /\ root' = [root EXCEPT ![q] = <<>>]
      /\ root'[q] = <<>> /\ \A p \in Queues : p # q => root'[p] = root[p]
      /\ \A u \in Threads : pc[u].q = q => u = t
  BY <1>1, <1>2, EmptiedFacts DEF Emptied
<1>4. NodesKept /\ OwnKept /\ pc'[t] = NoCall /\ \A u \in Threads : u # t => pc'[u] = pc[u]
  <2>1. ~Own(pc[t]) /\ pc[t].op # "idle"
    BY <1>1 DEF Own
  <2>2. QED
    BY <1>1, <1>2, <1>3, <2>1, EndWork
<1>5. CallOK(pc[t], root) /\ pc[t].rel = <<>> /\ NoCall.rel = <<>> /\ NoCall.op = "idle"
  BY <1>3, NoCallType DEF Control, CallsOK, CallOK
<1>6. RelSame /\ ExecSame
  BY <1>1, <1>4, <1>5 DEF RelSame, ExecSame
<1>7. NoMapAdded
  BY <1>3 DEF NoMapAdded
<1>8. Outstanding' = Outstanding
  BY <1>1, <1>4, WorkKept DEF TypeOK, NodesKept
<1>9. MemPart /\ KernelsOK /\ QueuesOK /\ EventsKept
  BY ReferencesParts DEF ReferencesIs
<1>10. /\ rc'[q] = rc[q] - 1 /\ (\A o \in Objects : o # q => rc'[o] = rc[o])
       /\ st'[q] = IF rc[q] = 1 THEN "freed" ELSE st[q]
       /\ \A o \in Objects : o # q /\ o \notin Range(pc[t].events) => st'[o] = st[o]
       /\ \A o \in Objects : o \in Range(pc[t].events) => st'[o] = "freed"
  <2>1. q \in Objects /\ q \notin Range(pc[t].events)
    BY EventsMade, Kinds
  <2>2. QED
    BY <1>1, <1>2, <2>1 DEF TypeOK
<1>11. Range(pc[t].events) \subseteq Events
  BY EventsMade
<1>12. MemPart' /\ KernelsOK'
  <2>1. (\A b \in Bufs : BufSame(b)) /\ (\A k \in Kernels : ObjectSame(k))
    BY <1>1, <1>10, <1>11, Kinds DEF BufSame, ObjectSame
  <2>2. QED
    BY <1>1, <1>4, <1>6, <1>7, <1>8, <1>9, <2>1, MemFrame, KernelFrame DEF NodesKept
<1>13. \A p \in Queues : p # q => ObjectSame(p)
  BY <1>1, <1>10, <1>11, Kinds DEF ObjectSame
<1>14. /\ IsFiniteSet(EventsOf(q)) /\ IsFiniteSet(Releasing(q))
       /\ Cardinality(EventsOf(q)) \in Nat /\ Cardinality(Releasing(q)) \in Nat
       /\ rc[q] \in Int /\ held[q] \in Nat
       /\ st[q] = "live" => rc[q] >= held[q] + Cardinality(EventsOf(q)) + Cardinality(Releasing(q))
       /\ st[q] = "live" /\ "ndrange" \notin Commands /\ ~IsGPU(q)
            => rc[q] = held[q] + Cardinality(EventsOf(q)) + Cardinality(Releasing(q))
       /\ st[q] # "live" => Cardinality(EventsOf(q)) = 0 /\ Cardinality(Releasing(q)) = 0
  BY <1>1, <1>9, QueueNumbers
<1>15. ASSUME NEW E, NEW R, IsFiniteSet(E), IsFiniteSet(R),
              Cardinality(E) + Cardinality(R) + 1 = Cardinality(EventsOf(q)) + Cardinality(Releasing(q))
       PROVE  NewQueueOK(q, E, R)
  <2>1. Cardinality(E) \in Nat /\ Cardinality(R) \in Nat /\ held'[q] = held[q]
    BY <1>1, <1>15, FS_CardinalityType
  <2>2. st[q] = "live"
    BY <1>14, <1>15, <2>1
  <2>3. rc[q] >= held[q] + Cardinality(E) + Cardinality(R) + 1
    BY <1>14, <1>15, <2>1, <2>2
  <2>4. CASE rc[q] = 1
    <3>1. held'[q] + Cardinality(E) + Cardinality(R) = 0 /\ st'[q] = "freed"
      BY <1>10, <1>14, <2>1, <2>3, <2>4
    <3>2. QED  BY <1>3, <1>15, <3>1 DEF NewQueueOK
  <2>5. CASE rc[q] # 1
    <3>1. st'[q] = "live" /\ rc'[q] >= held'[q] + Cardinality(E) + Cardinality(R)
      BY <1>10, <1>14, <2>1, <2>2, <2>3, <2>5
    <3>2. "ndrange" \notin Commands /\ ~IsGPU(q) => rc'[q] = held'[q] + Cardinality(E) + Cardinality(R)
      <4> SUFFICES ASSUME "ndrange" \notin Commands, ~IsGPU(q)
                   PROVE  rc'[q] = held'[q] + Cardinality(E) + Cardinality(R)
        OBVIOUS
      <4>1. rc[q] = held[q] + Cardinality(EventsOf(q)) + Cardinality(Releasing(q))
        BY <1>14, <2>2
      <4>2. rc'[q] = rc[q] - 1
        BY <1>10
      <4>3. QED  BY <1>14, <1>15, <2>1, <4>1, <4>2
    <3>3. QED  BY <1>15, <3>1, <3>2 DEF NewQueueOK
  <2>6. QED  BY <2>4, <2>5
<1>16. QueuesOK'
  <2>1. CASE pc[t].op = "release_queue"
    <3>1. Range(pc[t].events) = {}
      BY <1>5, <2>1 DEF CallOK, Range
    <3>2. \A p \in Queues : EventsOf(p)' = EventsOf(p)
      BY <1>1, <1>10, <3>1, Kinds DEF EventsOf
    <3>3. \A p \in Queues : p # q => Releasing(p)' = Releasing(p)
      BY <1>2, <1>4, <1>5 DEF Releasing
    <3>4. Releasing(q)' = Releasing(q) \ {t} /\ t \in Releasing(q)
      BY <1>2, <1>4, <1>5, <2>1 DEF Releasing
    <3>5. IsFiniteSet(Releasing(q)') /\ Cardinality(Releasing(q)') = Cardinality(Releasing(q)) - 1
      BY <1>14, <3>4, FS_RemoveElement
    <3>6. NewQueueOK(q, EventsOf(q), Releasing(q)')
      BY <1>14, <1>15, <3>5
    <3>7. QED
      BY <1>1, <1>3, <1>9, <1>13, <3>2, <3>3, <3>6, OneQueue
  <2>2. CASE pc[t].op = "release_event"
    <3>1. PICK e \in Events : pc[t].events = <<e>> /\ queue[e] = q /\ st[e] = "live"
      BY <1>2, <2>2 DEF Control, WaitsOK, WaitOK
    <3>2. Range(pc[t].events) = {e}
      BY <3>1 DEF Range
    <3>3. st'[e] = "freed" /\ \A f \in Events : f # e => st'[f] = st[f]
      BY <1>10, <3>2, Kinds
    <3>4. \A p \in Queues : Releasing(p)' = Releasing(p)
      BY <1>4, <1>5, <2>2 DEF Releasing
    <3>5. \A p \in Queues : p # q => EventsOf(p)' = EventsOf(p)
      BY <1>1, <3>1, <3>3 DEF EventsOf
    <3>6. EventsOf(q)' = EventsOf(q) \ {e} /\ e \in EventsOf(q)
      BY <1>1, <3>1, <3>3 DEF EventsOf
    <3>7. IsFiniteSet(EventsOf(q)') /\ Cardinality(EventsOf(q)') = Cardinality(EventsOf(q)) - 1
      BY <1>14, <3>6, FS_RemoveElement
    <3>8. NewQueueOK(q, EventsOf(q)', Releasing(q))
      BY <1>14, <1>15, <3>7
    <3>9. QED
      BY <1>1, <1>3, <1>9, <1>13, <3>4, <3>5, <3>8, OneQueue
  <2>3. QED  BY <1>1, <2>1, <2>2
<1>17. EventsKept'
  <2>1. NoGPU' <=> NoGPU
    BY DEF NoGPU, IsGPU
  <2>2. ASSUME NEW c \in Outstanding, c.event # None, st[c.event] = "live" PROVE st'[c.event] = "live"
    <3>1. c.event \in Events /\ \/ \E p \in Queues, i \in Nat : Ahead(root, pc, p, i) /\ CommandOK(c, p)
                                \/ \E u \in Threads : Own(pc[u]) /\ CommandOK(c, pc[u].q)
      BY <2>2, OutstandingNodes, OutstandingStatus
    <3>2. queue[c.event] # q
      <4>1. \A i \in Nat : ~Ahead(root, pc, q, i)
        BY <1>3, <1>4 DEF NodesKept, AheadKept, Ahead
      <4>2. \A u \in Threads : Own(pc[u]) => pc[u].q # q
        BY <1>1, <1>3 DEF Own
      <4>3. QED
        BY <2>2, <3>1, <4>1, <4>2 DEF CommandOK
    <3>3. c.event \notin Range(pc[t].events)
      <4>1. CASE pc[t].op = "release_queue"
        BY <1>5, <4>1 DEF CallOK, Range
      <4>2. CASE pc[t].op = "release_event"
        <5>1. PICK e \in Events : pc[t].events = <<e>> /\ queue[e] = q
          BY <1>2, <4>2 DEF Control, WaitsOK, WaitOK
        <5>2. QED  BY <3>2, <5>1 DEF Range
      <4>3. QED  BY <1>1, <4>1, <4>2
    <3>4. QED
      BY <1>10, <2>2, <3>1, <3>3, Kinds
  <2>3. QED
    BY <1>8, <1>9, <2>1, <2>2 DEF EventsKept
<1>18. QED
  BY <1>12, <1>16, <1>17, ReferencesParts DEF ReferencesIs

\* A command completes: it is no longer outstanding.
LEMMA CompleteWork ==
  ASSUME Control, NEW t \in Threads, pc[t].at = "complete", NEW d, pc' = [pc EXCEPT ![t] = d], root' = root,
         SameCall(pc[t], d), d.i = pc[t].i, d.at = "release"
  PROVE  /\ KernelsKept /\ Current(t) \in Outstanding /\ Current(t) \in Node
         /\ Outstanding' = Outstanding \ {Current(t)}
<1>0. Executing(t)
  BY PlaceFacts
<1>1. /\ pc[t].op # "idle" /\ pc[t].q \in Queues /\ pc[t].i \in Nat /\ root \in [Queues -> Seq(Node)]
      /\ root' \in [Queues -> Seq(Node)] /\ \A u \in Threads : pc[u].q = pc[t].q => u = t
  BY <1>0, WorkingFacts DEF Executing, Control, TypeOK
<1>2. pc'[t] = d /\ (\A u \in Threads : u # t => pc'[u] = pc[u]) /\ SameCall(pc[t], d)
  BY DEF Control, TypeOK
<1>3. PICK c : c = Current(t)
  OBVIOUS
<1>4. /\ c \in Node
      /\ \A p \in Queues : \A i \in DOMAIN root[p] : Same(root[p][i], c) => p = pc[t].q /\ i = pc[t].i
      /\ \A u \in Threads : pc[u].op = "exec" /\ Same(pc[u].cmd, c) => u = t /\ pc[t].i = 0
      /\ pc[t].i = 0 => pc[t].op = "exec" /\ c = pc[t].cmd /\ root[pc[t].q] = <<>>
      /\ pc[t].i # 0 => pc[t].i \in DOMAIN root[pc[t].q] /\ c = root[pc[t].q][pc[t].i]
  BY <1>0, <1>3, CurrentFacts
<1>5. KernelsKept
  BY <1>2 DEF KernelsKept, HasKernel, SameCall
<1>6. \A q \in Queues, i \in Nat :
        Ahead(root', pc', q, i) <=> Ahead(root, pc, q, i) /\ ~(q = pc[t].q /\ i = pc[t].i)
  <2> TAKE q \in Queues, i \in Nat
  <2>1. \A u \in Threads : u # t => (Through(pc'[u], q, i) <=> Through(pc[u], q, i))
    BY <1>2
  <2>2. Through(pc'[t], q, i) <=> q = pc[t].q /\ i <= pc[t].i
    BY <1>1, <1>2 DEF Through, SameCall
  <2>3. Through(pc[t], q, i) <=> q = pc[t].q /\ i < pc[t].i
    BY DEF Through
  <2>4. QED
    BY <1>1, <2>1, <2>2, <2>3 DEF Ahead
<1>7. \A u \in Threads : /\ Own(pc'[u]) <=> Own(pc[u]) /\ ~(u = t /\ pc[t].i = 0)
                         /\ pc'[u].cmd = pc[u].cmd
  BY <1>2 DEF Own, SameCall
<1>8. c \in Outstanding
  <2>1. CASE pc[t].i = 0
    <3>1. Own(pc[t]) /\ c = pc[t].cmd
      BY <1>4, <2>1 DEF Own
    <3>2. QED  BY <1>1, <3>1, OutstandingNow
  <2>2. CASE pc[t].i # 0
    <3>1. Ahead(root, pc, pc[t].q, pc[t].i) /\ c = root[pc[t].q][pc[t].i]
      BY <1>1, <1>4, <2>2 DEF Ahead, Through
    <3>2. QED  BY <1>1, <3>1, OutstandingNow
  <2>3. QED  BY <2>1, <2>2
<1>9. \A x : x \in Outstanding' <=> x \in Outstanding /\ x # c
  <2> TAKE x
  <2>1. x \in Outstanding <=> \/ \E q \in Queues, i \in Nat : Ahead(root, pc, q, i) /\ x = root[q][i]
                              \/ \E u \in Threads : Own(pc[u]) /\ x = pc[u].cmd
    BY <1>1, OutstandingNow
  <2>2. x \in Outstanding' <=> \/ \E q \in Queues, i \in Nat : Ahead(root', pc', q, i) /\ x = root'[q][i]
                               \/ \E u \in Threads : Own(pc'[u]) /\ x = pc'[u].cmd
    BY <1>1, OutstandingNext
  <2>3. Same(c, c)
    BY DEF Same
  <2>4. \A q \in Queues, i \in Nat : Ahead(root, pc, q, i) /\ root[q][i] = c => q = pc[t].q /\ i = pc[t].i
    BY <1>4, <2>3 DEF Ahead
  <2>5. \A u \in Threads : Own(pc[u]) /\ pc[u].cmd = c => u = t /\ pc[t].i = 0
    BY <1>4, <2>3 DEF Own
  <2>6. \A q \in Queues, i \in Nat : q = pc[t].q /\ i = pc[t].i /\ Ahead(root, pc, q, i) => root[q][i] = c
    <3>1. \A q \in Queues, i \in Nat : i \in DOMAIN root[q] => i # 0
      BY <1>1
    <3>2. QED
      BY <1>4, <3>1 DEF Ahead
  <2>7. pc[t].i = 0 => pc[t].cmd = c
    BY <1>4
  <2>8. ASSUME x \in Outstanding' PROVE x \in Outstanding /\ x # c
    <3>1. CASE \E q \in Queues, i \in Nat : Ahead(root', pc', q, i) /\ x = root'[q][i]
      <4>1. PICK q \in Queues, i \in Nat : Ahead(root', pc', q, i) /\ x = root'[q][i]
        BY <3>1
      <4>2. Ahead(root, pc, q, i) /\ ~(q = pc[t].q /\ i = pc[t].i) /\ x = root[q][i]
        BY <1>6, <4>1
      <4>3. QED  BY <2>1, <2>4, <4>2
    <3>2. CASE \E u \in Threads : Own(pc'[u]) /\ x = pc'[u].cmd
      <4>1. PICK u \in Threads : Own(pc'[u]) /\ x = pc'[u].cmd
        BY <3>2
      <4>2. Own(pc[u]) /\ ~(u = t /\ pc[t].i = 0) /\ x = pc[u].cmd
        BY <1>7, <4>1
      <4>3. QED  BY <2>1, <2>5, <4>2
    <3>3. QED  BY <2>2, <2>8, <3>1, <3>2
  <2>9. ASSUME x \in Outstanding, x # c PROVE x \in Outstanding'
    <3>1. CASE \E q \in Queues, i \in Nat : Ahead(root, pc, q, i) /\ x = root[q][i]
      <4>1. PICK q \in Queues, i \in Nat : Ahead(root, pc, q, i) /\ x = root[q][i]
        BY <3>1
      <4>2. Ahead(root', pc', q, i) /\ x = root'[q][i]
        BY <1>6, <2>6, <2>9, <4>1
      <4>3. QED  BY <2>2, <4>2
    <3>2. CASE \E u \in Threads : Own(pc[u]) /\ x = pc[u].cmd
      <4>1. PICK u \in Threads : Own(pc[u]) /\ x = pc[u].cmd
        BY <3>2
      <4>2. Own(pc'[u]) /\ x = pc'[u].cmd
        BY <1>7, <2>7, <2>9, <4>1
      <4>3. QED  BY <2>2, <4>2
    <3>3. QED  BY <2>1, <2>9, <3>1, <3>2
  <2>10. QED  BY <2>8, <2>9
<1>10. Outstanding' = Outstanding \ {c}
  BY <1>9
<1>11. QED
  BY <1>3, <1>4, <1>5, <1>8, <1>10

\* The references of a command that completes are given back by its thread.
LEMMA CommandRefsLess ==
  ASSUME NEW c \in Outstanding, Outstanding' = Outstanding \ {c}, Released(c) \in Seq(Bufs), Len(Released(c)) <= 2,
         NEW b, IsFiniteSet(CommandRefs(b))
  PROVE  /\ IsFiniteSet(CommandRefs(b)')
         /\ Cardinality(CommandRefs(b)) = Cardinality(CommandRefs(b)') + Times(Released(c), b)
<1> DEFINE J == Slots(Released(c), b)
<1>1. J \in SUBSET {1, 2} /\ Cardinality(J) = Times(Released(c), b)
  BY SlotsTimes
<1>2. CommandRefs(b)' = {r \in (Outstanding \ {c}) \X {1, 2} : /\ r[2] \in DOMAIN Released(r[1])
                                                             /\ Released(r[1])[r[2]] = b}
  BY DEF CommandRefs, Released
<1>3. CommandRefs(b) = CommandRefs(b)' \cup ({c} \X J)
  BY <1>2 DEF CommandRefs, Slots
<1>4. \A j : <<c, j>> \notin CommandRefs(b)'
  BY <1>2
<1>5. IsFiniteSet(CommandRefs(b)')
  <2>1. CommandRefs(b)' \in SUBSET CommandRefs(b)
    BY <1>3
  <2>2. QED  BY <2>1, FS_Subset
<1> HIDE DEF J
<1>6. PICK S : S = CommandRefs(b)'
  OBVIOUS
<1>7. Cardinality(S \cup ({c} \X J)) = Cardinality(S) + Cardinality(J)
  BY <1>1, <1>4, <1>5, <1>6, PairCount
<1>8. QED
  BY <1>1, <1>3, <1>5, <1>6, <1>7

LEMMA MarkCompleteReferences ==
  ASSUME Control, Control', References, NEW t \in Threads, MarkComplete(t)
  PROVE  References'
<1>1. /\ pc[t].at = "complete" /\ TypeOK /\ TypeOK' /\ CallsOK
      /\ pc' = [pc EXCEPT ![t].at = "release", ![t].rel = Released(Current(t))]
      /\ UNCHANGED <<st, rc, parent, lost, maps, karg, queue, root, held, mapped, count>>
  BY DEF MarkComplete, Control
<1>2. pc \in [Threads -> Call] /\ pc[t] \in Call /\ Executing(t) /\ pc[t].rel = <<>>
  BY <1>1, PlaceFacts DEF TypeOK, CallsOK, CallOK
<1>3. PICK c : c = Current(t)
  OBVIOUS
<1>4. PICK s \in Seq(Bufs) : s = Released(c) /\ Len(s) <= 2
  BY <1>2, <1>3, CurrentFacts, ReleasedBuffers
<1>5. PICK d0 : d0 = [pc[t] EXCEPT !.at = "release"]
  OBVIOUS
<1>6. PICK d : d = [d0 EXCEPT !.rel = s]
  OBVIOUS
<1>7. pc' = [pc EXCEPT ![t] = d]
  BY <1>1, <1>2, <1>3, <1>4, <1>5, <1>6, NestedUpdate
<1>8. d.at = "release" /\ d.i = pc[t].i /\ d.rel = s /\ SameCall(pc[t], d)
  <2>1. "release" \in Places
    BY DEF Places
  <2>2. d0 \in Call /\ d0.at = "release" /\ d0.i = pc[t].i /\ SameCall(pc[t], d0)
    BY <1>2, <1>5, <2>1, AtUpdate
  <2>3. d.at = d0.at /\ d.i = d0.i /\ d.rel = s /\ SameCall(d0, d)
    BY <1>6, <2>2, RelUpdate
  <2>4. QED
    BY <2>2, <2>3 DEF SameCall
<1>9. pc'[t] = d /\ \A u \in Threads : u # t => pc'[u] = pc[u]
  BY <1>2, <1>7
<1>10. KernelsKept /\ c \in Outstanding /\ Outstanding' = Outstanding \ {c}
  BY <1>1, <1>3, <1>7, <1>8, CompleteWork
<1>11. ExecSame /\ ReleasingSame /\ NoMapAdded
  BY <1>1, <1>8, <1>9 DEF ExecSame, ReleasingSame, NoMapAdded, SameCall
<1>12. MemPart /\ KernelsOK /\ QueuesOK /\ EventsKept
  BY ReferencesParts DEF ReferencesIs
<1>13. EventsSame /\ \A o \in Kernels \cup Queues : ObjectSame(o)
  BY <1>1 DEF EventsSame, ObjectSame
<1>14. KernelsOK' /\ QueuesOK' /\ EventsKept'
  <2>1. \A x \in Outstanding : x \in Node
    BY OutstandingNodes
  <2>2. EventsKept'
    BY <1>10, <1>12, <1>13, <2>1, EventsKeptFrame
  <2>3. KernelsOK'
    BY <1>10, <1>12, <1>13, KernelFrame
  <2>4. QueuesOK'
    BY <1>1, <1>11, <1>12, <1>13, QueueFrame
  <2>5. QED  BY <2>2, <2>3, <2>4
<1>15. ASSUME NEW b \in Bufs PROVE MemOK(b)'
  <2>1. MemOK(b) /\ IsFiniteSet(CommandRefs(b)) /\ IsFiniteSet(ReleaseRefs(b)) /\ IsFiniteSet(Children(b))
    BY <1>12 DEF MemPart, MemOK
  <2>2. /\ IsFiniteSet(CommandRefs(b)')
        /\ Cardinality(CommandRefs(b)) = Cardinality(CommandRefs(b)') + Times(s, b)
    BY <1>4, <1>10, <2>1, CommandRefsLess
  <2>3. /\ IsFiniteSet(ReleaseRefs(b)')
        /\ Cardinality(ReleaseRefs(b)') + Times(<<>>, b) = Cardinality(ReleaseRefs(b)) + Times(s, b)
    <3>1. d.rel \in Seq(Bufs) /\ Len(d.rel) <= 2 /\ TypeOK /\ CallsOK
      BY <1>1, <1>4, <1>8
    <3>2. /\ IsFiniteSet(ReleaseRefs(b)')
          /\ Cardinality(ReleaseRefs(b)') + Times(pc[t].rel, b) = Cardinality(ReleaseRefs(b)) + Times(d.rel, b)
      BY <1>7, <2>1, <3>1, ReleaseRefsUpdate
    <3>3. QED  BY <1>2, <1>8, <3>2
  <2>4. Times(<<>>, b) = 0 /\ Times(s, b) \in Nat
    BY TimesNothing, TimesNat
  <2>5. Children(b)' = Children(b)
    BY <1>1, ChildrenKept
  <2>6. /\ held[b] \in Nat /\ maps[b] \in Nat /\ Cardinality(Children(b)) \in Nat /\ lost[b] \in Nat
        /\ Cardinality(CommandRefs(b)) \in Nat /\ Cardinality(ReleaseRefs(b)) \in Nat
        /\ Cardinality(CommandRefs(b)') \in Nat /\ Cardinality(ReleaseRefs(b)') \in Nat
    BY <1>1, <2>1, <2>2, <2>3, MemNumbers, FS_CardinalityType
  <2>7. Cardinality(CommandRefs(b)') + Cardinality(ReleaseRefs(b)') = Cardinality(CommandRefs(b)) + Cardinality(ReleaseRefs(b))
    BY <2>2, <2>3, <2>4, <2>6
  <2>8. CASE st[b] = "live"
    <3>1. held'[b] + maps'[b] + Cardinality(Children(b)) + Cardinality(CommandRefs(b)') + Cardinality(ReleaseRefs(b)') + lost'[b]
           = held[b] + maps[b] + Cardinality(Children(b)) + Cardinality(CommandRefs(b))
             + Cardinality(ReleaseRefs(b)) + lost[b] + 0
      <4>1. held'[b] = held[b] /\ maps'[b] = maps[b] /\ lost'[b] = lost[b]
        BY <1>1
      <4>2. PICK h, m, n, x, y, z, w, l : /\ h = held[b] /\ m = maps[b] /\ n = Cardinality(Children(b)) /\ l = lost[b]
                                          /\ x = Cardinality(CommandRefs(b)) /\ y = Cardinality(ReleaseRefs(b))
                                          /\ z = Cardinality(CommandRefs(b)') /\ w = Cardinality(ReleaseRefs(b)')
        OBVIOUS
      <4>3. /\ h \in Nat /\ m \in Nat /\ n \in Nat /\ l \in Nat /\ x \in Nat /\ y \in Nat /\ z \in Nat /\ w \in Nat
            /\ z + w = x + y
        BY <2>6, <2>7, <4>2
      <4>4. h + m + n + z + w + l = h + m + n + x + y + l + 0
        BY <4>3
      <4>5. QED  BY <4>1, <4>2, <4>4
    <3>2. st'[b] = "live" /\ rc'[b] = rc[b] + 0 /\ 0 \in Int
      BY <1>1, <2>1, <2>8, MemNumbers
    <3>3. NewMemOK(b, Children(b), CommandRefs(b)', ReleaseRefs(b)')
      BY <1>1, <2>1, <2>2, <2>3, <2>8, <3>1, <3>2, LiveStays
    <3>4. QED  BY <2>5, <3>3, MemOKIs
  <2>9. CASE st[b] # "live"
    <3>1. /\ held[b] = 0 /\ maps[b] = 0 /\ Cardinality(Children(b)) = 0
          /\ Cardinality(CommandRefs(b)) = 0 /\ Cardinality(ReleaseRefs(b)) = 0
      BY <1>1, <2>1, <2>9, NoHolders
    <3>2. Cardinality(CommandRefs(b)') = 0 /\ Cardinality(ReleaseRefs(b)') = 0
      BY <2>6, <2>7, <3>1
    <3>3. NewMemOK(b, Children(b), CommandRefs(b)', ReleaseRefs(b)')
      BY <1>1, <2>1, <2>2, <2>3, <2>9, <3>1, <3>2 DEF NewMemOK, MemOK
    <3>4. QED  BY <2>5, <3>3, MemOKIs
  <2>10. QED  BY <2>8, <2>9
<1>16. ParentsOK' /\ MapsOK' /\ BufsCounted' /\ NothingLost'
  <2>1. MapsOK'
    BY <1>1, <1>11, <1>12, MapsKept DEF MemPart
  <2>2. QED
    BY <1>1, <1>12, <2>1 DEF MemPart, ParentsOK, BufsCounted, NothingLost
<1>17. QED
  BY <1>14, <1>15, <1>16, ReferencesParts DEF ReferencesIs, MemPart
-----------------------------------------------------------------------------
(* References: the end of a command.                                       *)

\* The loop of clFinish goes on to the next node: one launch less has a
\* reference of the kernel of the node.
LEMMA LaunchesLess ==
  ASSUME Control, NEW t \in Threads, pc[t].op # "idle", pc[t].i # 0, pc[t].i <= Len(root[pc[t].q]), root' = root,
         \A q \in Queues, i \in Nat :
           HasKernel(root', pc', q, i) <=> HasKernel(root, pc, q, i) /\ ~(q = pc[t].q /\ i = pc[t].i),
         NEW k
  PROVE  /\ root[pc[t].q][pc[t].i].kernel # k => LaunchRefs(k)' = LaunchRefs(k)
         /\ root[pc[t].q][pc[t].i].kernel = k => /\ LaunchRefs(k)' = LaunchRefs(k) \ {<<pc[t].q, pc[t].i>>}
                                                 /\ <<pc[t].q, pc[t].i>> \in LaunchRefs(k)
<1>1. PICK q \in Queues, i \in Nat : q = pc[t].q /\ i = pc[t].i
  BY WorkingFacts
<1>2. /\ i \in 1..MaxCommands /\ i \in DOMAIN root[q] /\ HasKernel(root, pc, q, i)
  <2>1. /\ root[q] \in Seq(Node) /\ Len(root[q]) \in Nat /\ i # 0 /\ i <= Len(root[q])
        /\ Len(root[q]) <= count /\ count <= MaxCommands /\ count \in Nat
    BY <1>1 DEF Control, TypeOK, Lengths
  <2>2. i \in 1..MaxCommands /\ i \in 1..Len(root[q])
    BY <2>1, BoundsAssumption
  <2>3. i \in DOMAIN root[q] /\ \A u \in Threads : pc[u].q = q => u = t
    BY <1>1, <2>1, <2>2, WorkingFacts
  <2>4. QED
    BY <1>1, <2>2, <2>3 DEF HasKernel
<1>3. \A r \in Queues \X (1..MaxCommands) : r[1] \in Queues /\ r[2] \in Nat
  BY BoundsAssumption
<1>4. \A r \in Queues \X (1..MaxCommands) :
        HasKernel(root', pc', r[1], r[2]) <=> HasKernel(root, pc, r[1], r[2]) /\ r # <<q, i>>
  <2>1. \A r \in Queues \X (1..MaxCommands) : r = <<q, i>> <=> r[1] = q /\ r[2] = i
    OBVIOUS
  <2>2. QED
    BY <1>1, <1>3, <2>1
<1>5. /\ LaunchRefs(k) = {r \in Queues \X (1..MaxCommands) :
                            HasKernel(root, pc, r[1], r[2]) /\ root[r[1]][r[2]].kernel = k}
      /\ LaunchRefs(k)' = {r \in Queues \X (1..MaxCommands) :
                            HasKernel(root', pc', r[1], r[2]) /\ root'[r[1]][r[2]].kernel = k}
  BY DEF LaunchRefs, HasKernel
<1>6. LaunchRefs(k)' = LaunchRefs(k) \ {<<q, i>>}
  BY <1>4, <1>5
<1>7. <<q, i>> \in LaunchRefs(k) <=> root[q][i].kernel = k
  BY <1>2, <1>5
<1>8. QED
  BY <1>1, <1>6, <1>7

LEMMA NextNodeReferences ==
  ASSUME Control, Control', References, NEW t \in Threads, NextCommand(t), pc[t].i # 0
  PROVE  References'
<1>1. /\ pc[t].at = "release" /\ pc[t].rel = <<>> /\ Executing(t)
      /\ UNCHANGED <<parent, lost, maps, karg, queue, status, root, held, count, mapped>>
      /\ rc' \in [Objects -> Int] /\ st' \in [Objects -> {"none", "live", "freed"}]
      /\ \A o \in Objects : o # Current(t).kernel => rc'[o] = rc[o] /\ st'[o] = st[o]
      /\ \A o \in Objects : o \notin Kernels => rc'[o] = rc[o] /\ st'[o] = st[o]
  BY NextCommandEffect DEF NextCommand
<1>2. /\ TypeOK /\ TypeOK' /\ pc \in [Threads -> Call] /\ pc[t] \in Call /\ pc[t].i \in Nat
      /\ pc[t].q \in Queues /\ root[pc[t].q] \in Seq(Node) /\ pc[t].i <= Len(root[pc[t].q])
      /\ pc[t].op # "idle" /\ root \in [Queues -> Seq(Node)]
  BY <1>1, PlaceFacts DEF Executing, TypeOK, Control
<1>3. PICK d0 : d0 = [pc[t] EXCEPT !.at = "node"]
  OBVIOUS
<1>4. PICK j \in Nat : j = pc[t].i + 1
  BY <1>2
<1>5. PICK d : d = [d0 EXCEPT !.i = j]
  OBVIOUS
<1>6. pc' = [pc EXCEPT ![t] = d]
  <2>1. pc' = [pc EXCEPT ![t].at = "node", ![t].i = j]
    BY <1>4 DEF NextCommand
  <2>2. QED  BY <1>2, <1>3, <1>5, <2>1, NestedUpdate
<1>7. d.at = "node" /\ d.i = j /\ d.rel = pc[t].rel /\ SameCall(pc[t], d)
  <2>1. "node" \in Places
    BY DEF Places
  <2>2. d0 \in Call /\ d0.at = "node" /\ d0.rel = pc[t].rel /\ SameCall(pc[t], d0)
    BY <1>2, <1>3, <2>1, AtUpdate
  <2>3. d.at = d0.at /\ d.i = j /\ d.rel = d0.rel /\ SameCall(d0, d)
    BY <1>5, <2>2, IndexUpdate
  <2>4. QED  BY <2>2, <2>3 DEF SameCall
<1>8. /\ OwnKept
      /\ \A q \in Queues, i \in Nat :
           /\ Ahead(root', pc', q, i) <=> Ahead(root, pc, q, i)
           /\ HasKernel(root', pc', q, i) <=> HasKernel(root, pc, q, i) /\ ~(q = pc[t].q /\ i = pc[t].i)
  <2>1. d.i = pc[t].i + 1 /\ root' = root /\ pc[t].at = "release" /\ d.at = "node" /\ pc[t].op # "idle"
    BY <1>1, <1>2, <1>4, <1>7
  <2>2. QED  BY <1>6, <1>7, <2>1, NextNodeWork
<1>9. Outstanding' = Outstanding
  <2>1. AheadKept /\ root' \in [Queues -> Seq(Node)]
    BY <1>1, <1>2, <1>8 DEF AheadKept
  <2>2. QED  BY <1>2, <1>8, <2>1, WorkKept
<1>10. pc'[t] = d /\ \A u \in Threads : u # t => pc'[u] = pc[u]
  BY <1>2, <1>6
<1>11. RelSame /\ ExecSame /\ ReleasingSame /\ NoMapAdded
  BY <1>1, <1>7, <1>10 DEF RelSame, ExecSame, ReleasingSame, NoMapAdded, SameCall
<1>12. MemPart /\ KernelsOK /\ QueuesOK /\ EventsKept
  BY ReferencesParts DEF ReferencesIs
<1>13. EventsSame /\ (\A q \in Queues : ObjectSame(q)) /\ (\A b \in Bufs : BufSame(b))
  BY <1>1, Kinds DEF EventsSame, ObjectSame, BufSame
<1>14. MemPart' /\ QueuesOK'
  BY <1>1, <1>2, <1>9, <1>11, <1>12, <1>13, MemFrame, QueueFrame
<1>15. EventsKept'
  <2>1. \A c \in Outstanding : c \in Node
    BY OutstandingNodes
  <2>2. QED  BY <1>9, <1>12, <1>13, <2>1, EventsKeptFrame
<1>16. KernelsOK'
  <2> SUFFICES ASSUME NEW x \in Kernels PROVE NewKernelOK(x, LaunchRefs(x)')
    BY KernelsOKIs
  <2>1. /\ IsFiniteSet(LaunchRefs(x)) /\ Cardinality(LaunchRefs(x)) \in Nat /\ rc[x] \in Int /\ held[x] \in Nat
        /\ st[x] = "live" => rc[x] > 0 /\ rc[x] >= held[x] + Cardinality(LaunchRefs(x))
        /\ st[x] = "live" /\ NoGPU => rc[x] = held[x] + Cardinality(LaunchRefs(x))
        /\ st[x] # "live" => held[x] = 0 /\ Cardinality(LaunchRefs(x)) = 0
    BY <1>2, <1>12, KernelNumbers
  <2>2. PICK k : k = root[pc[t].q][pc[t].i].kernel
    OBVIOUS
  <2>3. Current(t).kernel = k /\ x # None /\ x \in Objects /\ held'[x] = held[x]
    BY <1>1, <2>2, Kinds DEF Current
  <2>4. PICK r : r = <<pc[t].q, pc[t].i>>
    OBVIOUS
  <2>5. /\ k # x => LaunchRefs(x)' = LaunchRefs(x)
        /\ k = x => LaunchRefs(x)' = LaunchRefs(x) \ {r} /\ r \in LaunchRefs(x)
    BY <1>1, <1>2, <1>8, <2>2, <2>4, LaunchesLess
  <2>6. CASE k # x
    BY <1>1, <2>1, <2>3, <2>5, <2>6 DEF NewKernelOK
  <2>7. CASE k = x
    <3>1. PICK S : S = LaunchRefs(x) \ {r}
      OBVIOUS
    <3>2. IsFiniteSet(S) /\ Cardinality(S) = Cardinality(LaunchRefs(x)) - 1 /\ Cardinality(S) \in Nat
      BY <2>1, <2>5, <2>7, <3>1, FS_RemoveElement, FS_CardinalityType
    <3>3. st[x] = "live"
      BY <2>1, <3>2
    <3>4. CASE IsGPU(pc[t].q)
      <4>1. rc'[x] = rc[x] /\ st'[x] = st[x] /\ ~NoGPU
        BY <1>2, <2>3, <2>7, <3>4 DEF NextCommand, NoGPU
      <4>2. LaunchRefs(x)' = S /\ held'[x] = held[x]
        BY <2>3, <2>5, <2>7, <3>1
      <4>3. PICK r0, h, l, n : r0 = rc[x] /\ h = held[x] /\ l = Cardinality(LaunchRefs(x)) /\ n = Cardinality(S)
        OBVIOUS
      <4>4. r0 \in Int /\ h \in Nat /\ l \in Nat /\ n \in Nat /\ n = l - 1 /\ r0 > 0 /\ r0 >= h + l
        BY <2>1, <3>2, <3>3, <4>3
      <4>5. r0 > 0 /\ r0 >= h + n
        BY <4>4
      <4>6. rc'[x] > 0 /\ rc'[x] >= held'[x] + Cardinality(S) /\ st'[x] = "live" /\ IsFiniteSet(S) /\ ~NoGPU
        BY <3>2, <3>3, <4>1, <4>2, <4>3, <4>5
      <4>7. QED
        BY <4>2, <4>6 DEF NewKernelOK
    <3>5. CASE ~IsGPU(pc[t].q)
      <4>1. rc' = [rc EXCEPT ![x] = @ - 1] /\ st' = IF rc[x] = 1 THEN [st EXCEPT ![x] = "freed"] ELSE st
        BY <2>3, <2>7, <3>5 DEF NextCommand
      <4>2. rc'[x] = rc[x] - 1 /\ st'[x] = IF rc[x] = 1 THEN "freed" ELSE st[x]
        BY <1>2, <2>3, <4>1 DEF TypeOK
      <4>3. LaunchRefs(x)' = S /\ held'[x] = held[x]
        BY <2>3, <2>5, <2>7, <3>1
      <4>4. PICK r0, h, l, n : r0 = rc[x] /\ h = held[x] /\ l = Cardinality(LaunchRefs(x)) /\ n = Cardinality(S)
        OBVIOUS
      <4>5. /\ r0 \in Int /\ h \in Nat /\ l \in Nat /\ n \in Nat /\ n = l - 1 /\ r0 > 0 /\ r0 >= h + l
            /\ NoGPU => r0 = h + l
        BY <2>1, <3>2, <3>3, <4>4
      <4>6. rc'[x] = r0 - 1 /\ held'[x] = h
        BY <4>2, <4>3, <4>4
      <4>7. CASE r0 = 1
        <5>1. st'[x] = "freed" /\ h + n = 0
          BY <4>2, <4>4, <4>5, <4>7
        <5>2. NewKernelOK(x, S)
          BY <3>2, <4>4, <4>6, <5>1 DEF NewKernelOK
        <5>3. QED  BY <4>3, <5>2
      <4>8. CASE r0 # 1
        <5>1. st'[x] = "live" /\ r0 - 1 > 0 /\ r0 - 1 >= h + n /\ (NoGPU => r0 - 1 = h + n)
          BY <3>3, <4>2, <4>4, <4>5, <4>8
        <5>2. NewKernelOK(x, S)
          BY <3>2, <4>4, <4>6, <5>1 DEF NewKernelOK
        <5>3. QED  BY <4>3, <5>2
      <4>9. QED  BY <4>7, <4>8
    <3>6. QED  BY <3>4, <3>5
  <2>8. QED  BY <2>6, <2>7
<1>17. QED
  BY <1>14, <1>15, <1>16, ReferencesParts DEF ReferencesIs

\* The end of a blocking call's own command: a map returns its pointer.
LEMMA OwnEndReferences ==
  ASSUME Control, Control', References, NEW t \in Threads, NextCommand(t), pc[t].i = 0
  PROVE  References'
<1>1. /\ pc[t].at = "release" /\ pc[t].rel = <<>> /\ Executing(t)
      /\ UNCHANGED <<parent, lost, maps, karg, queue, status, root, held, count>>
      /\ pc' = [pc EXCEPT ![t] = NoCall]
      /\ mapped' = IF pc[t].cmd.type = "map" THEN [mapped EXCEPT ![pc[t].cmd.bufs[1]] = @ + 1] ELSE mapped
  BY NextCommandEffect DEF NextCommand
<1>2. /\ TypeOK /\ TypeOK' /\ pc \in [Threads -> Call] /\ pc[t] \in Call
      /\ pc[t].q \in Queues /\ pc[t].op # "idle" /\ root \in [Queues -> Seq(Node)] /\ CallOK(pc[t], root)
  BY <1>1, PlaceFacts DEF TypeOK, Control
<1>3. pc[t].op = "exec" /\ root[pc[t].q] = <<>> /\ pc[t].cmd.kernel = None /\ CommandOK(pc[t].cmd, pc[t].q)
  BY <1>2 DEF CallOK, Control, OwnOK
<1>4. UNCHANGED <<st, rc>>
  BY <1>3 DEF NextCommand, Current
<1>5. ~Own(pc[t]) /\ root' = [root EXCEPT ![pc[t].q] = <<>>]
  BY <1>1, <1>2, <1>3 DEF Own
<1>6. PICK d : d = NoCall
  OBVIOUS
<1>7. NodesKept /\ OwnKept /\ pc'[t] = d /\ \A u \in Threads : u # t => pc'[u] = pc[u]
  BY <1>1, <1>2, <1>3, <1>5, <1>6, EndWork
<1>8. d.rel = <<>> /\ d.op = "idle"
  BY <1>6, NoCallType
<1>9. RelSame /\ ReleasingSame /\ NoMapAdded
  BY <1>1, <1>3, <1>7, <1>8 DEF RelSame, ReleasingSame, NoMapAdded
<1>10. EventsSame /\ \A o \in Kernels \cup Queues : ObjectSame(o)
  BY <1>1, <1>4 DEF EventsSame, ObjectSame
<1>11. Outstanding' = Outstanding /\ KernelsOK' /\ QueuesOK' /\ EventsKept'
  BY <1>7, <1>9, <1>10, OthersKept
<1>12. MemPart
  BY ReferencesParts DEF ReferencesIs
<1>13. (\A b \in Bufs : MemOK(b)') /\ ParentsOK' /\ BufsCounted' /\ NothingLost'
  BY <1>1, <1>2, <1>4, <1>9, <1>11, <1>12, MemOKFrame
<1>14. MapsOK'
  <2> SUFFICES ASSUME NEW b \in Bufs
               PROVE  /\ IsFiniteSet(OwnMaps(b)')
                      /\ maps'[b] >= mapped'[b] + Cardinality(OwnMaps(b)')
                      /\ ~UnmapsEarly /\ MapQueued(b)' => mapped'[b] > 0
    BY DEF MapsOK
  <2>1. /\ IsFiniteSet(OwnMaps(b)) /\ maps[b] >= mapped[b] + Cardinality(OwnMaps(b))
        /\ ~UnmapsEarly /\ MapQueued(b) => mapped[b] > 0
        /\ maps[b] \in Nat /\ mapped[b] \in Nat /\ Cardinality(OwnMaps(b)) \in Nat
    BY <1>2, <1>12, FS_CardinalityType DEF MemPart, MapsOK, TypeOK
  <2>2. MapQueued(b)' => MapQueued(b)
    BY <1>9, MapQueuedKept
  <2>3. OwnMaps(b)' = OwnMaps(b) \ {t}
    BY <1>7, <1>8 DEF OwnMaps
  <2>4. t \in OwnMaps(b) <=> pc[t].cmd.type = "map" /\ pc[t].cmd.bufs[1] = b
    BY <1>3 DEF OwnMaps
  <2>5. CASE t \in OwnMaps(b)
    <3>1. mapped'[b] = mapped[b] + 1
      BY <1>1, <1>2, <2>4, <2>5 DEF TypeOK
    <3>2. IsFiniteSet(OwnMaps(b)') /\ Cardinality(OwnMaps(b)') = Cardinality(OwnMaps(b)) - 1
      <4>1. PICK S : S = OwnMaps(b) \ {t}
        OBVIOUS
      <4>2. IsFiniteSet(S) /\ Cardinality(S) = Cardinality(OwnMaps(b)) - 1
        BY <2>1, <2>5, <4>1, FS_RemoveElement
      <4>3. QED  BY <2>3, <4>1, <4>2
    <3>3. maps'[b] = maps[b]
      BY <1>1
    <3>4. QED
      BY <2>1, <2>2, <3>1, <3>2, <3>3
  <2>6. CASE t \notin OwnMaps(b)
    <3>1. mapped'[b] = mapped[b]
      BY <1>1, <1>2, <2>4, <2>6 DEF TypeOK
    <3>2. OwnMaps(b)' = OwnMaps(b) /\ maps'[b] = maps[b]
      BY <1>1, <2>3, <2>6
    <3>3. QED
      BY <2>1, <2>2, <3>1, <3>2
  <2>7. QED  BY <2>5, <2>6
<1>15. QED
  BY <1>11, <1>13, <1>14, ReferencesParts DEF ReferencesIs, MemPart

LEMMA NextCommandReferences ==
  ASSUME Control, Control', References, NEW t \in Threads, NextCommand(t)
  PROVE  References'
BY NextNodeReferences, OwnEndReferences
-----------------------------------------------------------------------------
(* References: what every clEnqueue call does.                             *)

LEMMA RetainedCounts ==
  ASSUME TypeOK, NEW q \in Queues, NEW ev \in Events \cup {None}, NEW refs, rc' = Retained(q, ev, refs)
  PROVE  /\ \A o \in Bufs \cup Kernels : rc'[o] = rc[o] + Times(refs, o) + 0
         /\ \A p \in Queues : rc'[p] = rc[p] + Times(refs, p) + (IF ev # None /\ p = q THEN 1 ELSE 0)
<1>1. \A o \in Objects : rc'[o] = rc[o] + Times(refs, o) + (IF ev # None /\ o \in {ev, q} THEN 1 ELSE 0)
  BY DEF Retained
<1>2. \A o \in Bufs \cup Kernels : o \in Objects /\ o # q /\ (ev # None => o # ev)
  BY Kinds
<1>3. \A p \in Queues : p \in Objects /\ (ev # None => p # ev)
  BY Kinds
<1>4. QED
  BY <1>1, <1>2, <1>3

\* The events of the queues when an event is made.
LEMMA EventsOfMade ==
  ASSUME Control, NEW q \in Queues, NEW ev \in Events \cup {None}, NEW stat, NEW n, EventMade(q, ev, stat, n)
  PROVE  /\ \A p \in Queues : p # q => EventsOf(p)' = EventsOf(p)
         /\ ev = None => EventsOf(q)' = EventsOf(q)
         /\ ev # None => EventsOf(q)' = EventsOf(q) \cup {ev} /\ ev \notin EventsOf(q)
<1>1. \A e \in Events : e # ev => st'[e] = st[e] /\ queue'[e] = queue[e]
  BY DEF EventMade, EventSame
<1>2. ev # None => ev \in Events /\ st[ev] = "none" /\ st'[ev] = "live" /\ queue'[ev] = q
  BY DEF EventMade
<1>3. \A e \in Events : e # None
  BY Kinds
<1>4. QED
  BY <1>1, <1>2, <1>3 DEF EventsOf

\* An event takes a reference of its queue, and a launch one more.
LEMMA EnqueueQueues ==
  ASSUME Control, QueuesOK, NEW q \in Queues, NEW ev \in Events \cup {None}, NEW stat, NEW n,
         EventMade(q, ev, stat, n), ReleasingSame, held[q] > 0, NEW m \in Nat, m = 0 \/ "ndrange" \in Commands,
         rc'[q] = rc[q] + m + (IF ev # None THEN 1 ELSE 0),
         \A p \in Queues : st'[p] = st[p] /\ held'[p] = held[p] /\ (p # q => rc'[p] = rc[p] /\ root'[p] = root[p])
  PROVE  QueuesOK'
<1>1. TypeOK
  BY DEF Control
<1>2. /\ IsFiniteSet(EventsOf(q)) /\ IsFiniteSet(Releasing(q))
      /\ Cardinality(EventsOf(q)) \in Nat /\ Cardinality(Releasing(q)) \in Nat
      /\ rc[q] \in Int /\ held[q] \in Nat
      /\ st[q] = "live" => rc[q] >= held[q] + Cardinality(EventsOf(q)) + Cardinality(Releasing(q))
      /\ st[q] = "live" /\ "ndrange" \notin Commands /\ ~IsGPU(q)
           => rc[q] = held[q] + Cardinality(EventsOf(q)) + Cardinality(Releasing(q))
      /\ st[q] # "live" => held[q] = 0
  BY <1>1, QueueNumbers
<1>3. \A p \in Queues : Releasing(p)' = Releasing(p)
  BY DEF Releasing, ReleasingSame
<1>4. /\ \A p \in Queues : p # q => EventsOf(p)' = EventsOf(p)
      /\ ev = None => EventsOf(q)' = EventsOf(q)
      /\ ev # None => EventsOf(q)' = EventsOf(q) \cup {ev} /\ ev \notin EventsOf(q)
  BY EventsOfMade
<1>5. PICK w \in {0, 1} : w = IF ev # None THEN 1 ELSE 0
  OBVIOUS
<1>6. IsFiniteSet(EventsOf(q)') /\ Cardinality(EventsOf(q)') = Cardinality(EventsOf(q)) + w
  <2>1. CASE ev = None
    BY <1>2, <1>4, <1>5, <2>1
  <2>2. CASE ev # None
    <3>1. PICK S : S = EventsOf(q) \cup {ev}
      OBVIOUS
    <3>2. IsFiniteSet(S) /\ Cardinality(S) = Cardinality(EventsOf(q)) + 1
      BY <1>2, <1>4, <2>2, <3>1, FS_AddElement
    <3>3. QED  BY <1>4, <1>5, <2>2, <3>1, <3>2
  <2>3. QED  BY <2>1, <2>2
<1>7. st[q] = "live" /\ st'[q] = "live" /\ held'[q] = held[q] /\ rc'[q] = rc[q] + m + w
  BY <1>2, <1>5
<1>8. NewQueueOK(q, EventsOf(q)', Releasing(q)')
  <2>1. PICK E, R : E = EventsOf(q)' /\ R = Releasing(q)'
    OBVIOUS
  <2>2. PICK r0, h, e, l, x : /\ r0 = rc[q] /\ h = held[q] /\ e = Cardinality(EventsOf(q)) /\ l = Cardinality(Releasing(q))
                              /\ x = Cardinality(E)
    OBVIOUS
  <2>3. /\ r0 \in Int /\ h \in Nat /\ e \in Nat /\ l \in Nat /\ r0 >= h + e + l /\ x = e + w
        /\ "ndrange" \notin Commands /\ ~IsGPU(q) => r0 = h + e + l
    BY <1>2, <1>6, <1>7, <2>1, <2>2
  <2>4. r0 + m + w >= h + x + l /\ ("ndrange" \notin Commands /\ ~IsGPU(q) => r0 + m + w = h + x + l)
    BY <2>3
  <2>5. Cardinality(R) = l /\ rc'[q] = r0 + m + w /\ held'[q] = h /\ IsFiniteSet(E) /\ IsFiniteSet(R)
    BY <1>2, <1>3, <1>6, <1>7, <2>1, <2>2
  <2>6. NewQueueOK(q, E, R)
    BY <1>7, <2>2, <2>4, <2>5 DEF NewQueueOK
  <2>7. QED  BY <2>1, <2>6
<1>9. \A p \in Queues : p # q => /\ ObjectSame(p) /\ EventsOf(p)' = EventsOf(p) /\ Releasing(p)' = Releasing(p)
                                 /\ root'[p] = root[p]
  BY <1>3, <1>4 DEF ObjectSame
<1>10. QED
  BY <1>1, <1>8, <1>9, OneQueue

\* The event of a new command is not freed.
LEMMA EnqueueEvents ==
  ASSUME Control, EventsKept, NEW q \in Queues, NEW ev \in Events \cup {None}, NEW stat, NEW n,
         EventMade(q, ev, stat, n), \A c \in Outstanding' : c \in Outstanding \/ c.event = ev
  PROVE  EventsKept'
<1>1. NoGPU' <=> NoGPU
  BY DEF NoGPU, IsGPU
<1>2. \A c \in Outstanding : c.event \in Events \cup {None}
  BY OutstandingNodes, NodeFields
<1>3. \A e \in Events : st[e] = "live" => st'[e] = "live"
  BY Kinds DEF EventMade, EventSame
<1>4. ev # None => st'[ev] = "live"
  BY DEF EventMade
<1>5. QED
  BY <1>1, <1>2, <1>3, <1>4 DEF EventsKept

\* A step that adds n to the count of b, and n to those who refer to it.
LEMMA BufferCounts ==
  ASSUME TypeOK, TypeOK', NEW b \in Bufs, MemOK(b), NEW n \in Int, NEW C, IsFiniteSet(C),
         st'[b] = st[b], held'[b] = held[b], parent'[b] = parent[b], rc'[b] = rc[b] + n,
         maps'[b] + Cardinality(C) + lost'[b] = maps[b] + Cardinality(CommandRefs(b)) + lost[b] + n,
         held[b] = 0 => n = 0 /\ maps'[b] = maps[b] /\ lost'[b] = lost[b]
  PROVE  NewMemOK(b, Children(b), C, ReleaseRefs(b))
<1>1. /\ held[b] \in Nat /\ maps[b] \in Nat /\ Cardinality(Children(b)) \in Nat /\ lost[b] \in Nat
      /\ Cardinality(CommandRefs(b)) \in Nat /\ Cardinality(ReleaseRefs(b)) \in Nat
      /\ maps'[b] \in Nat /\ lost'[b] \in Nat /\ Cardinality(C) \in Nat
  BY MemNumbers, FS_CardinalityType DEF TypeOK
<1>2. IsFiniteSet(Children(b)) /\ IsFiniteSet(ReleaseRefs(b))
  BY DEF MemOK
<1>3. PICK h, m, s, c, r, l, m1, c1, l1 :
        /\ h = held[b] /\ m = maps[b] /\ s = Cardinality(Children(b)) /\ c = Cardinality(CommandRefs(b))
        /\ r = Cardinality(ReleaseRefs(b)) /\ l = lost[b] /\ m1 = maps'[b] /\ c1 = Cardinality(C) /\ l1 = lost'[b]
  OBVIOUS
<1>4. /\ h \in Nat /\ m \in Nat /\ s \in Nat /\ c \in Nat /\ r \in Nat /\ l \in Nat
      /\ m1 \in Nat /\ c1 \in Nat /\ l1 \in Nat /\ m1 + c1 + l1 = m + c + l + n
  BY <1>1, <1>3
<1>5. CASE st[b] = "live"
  <2>1. h + m1 + s + c1 + r + l1 = h + m + s + c + r + l + n
    BY <1>4
  <2>2. held'[b] + maps'[b] + Cardinality(Children(b)) + Cardinality(C) + Cardinality(ReleaseRefs(b)) + lost'[b]
          = held[b] + maps[b] + Cardinality(Children(b)) + Cardinality(CommandRefs(b))
            + Cardinality(ReleaseRefs(b)) + lost[b] + n
    BY <1>3, <2>1
  <2>3. st'[b] = "live"
    BY <1>5
  <2>4. QED
    BY <1>2, <1>5, <2>2, <2>3, LiveStays
<1>6. CASE st[b] # "live"
  <2>1. h = 0 /\ m = 0 /\ s = 0 /\ c = 0 /\ r = 0
    BY <1>3, <1>6, NoHolders
  <2>2. n = 0 /\ m1 = m /\ l1 = l
    BY <1>3, <2>1
  <2>3. c1 = 0
    BY <1>4, <2>1, <2>2
  <2>4. held'[b] = 0 /\ maps'[b] = 0 /\ Cardinality(Children(b)) = 0 /\ Cardinality(C) = 0
        /\ Cardinality(ReleaseRefs(b)) = 0 /\ st'[b] # "live" /\ lost'[b] = lost[b]
    BY <1>3, <1>6, <2>1, <2>2, <2>3
  <2>5. st'[b] = "none" => parent'[b] = None /\ lost'[b] = 0
    BY <2>4 DEF MemOK
  <2>6. QED
    BY <1>2, <2>4, <2>5 DEF NewMemOK
<1>7. QED  BY <1>5, <1>6

LEMMA OwnedCounted ==
  ASSUME TypeOK', NEW b \in Bufs, MemOK(b)', st'[b] = "live", held'[b] > 0
  PROVE  rc'[b] > 0
<1>1. NewMemOK(b, Children(b)', CommandRefs(b)', ReleaseRefs(b)')
  BY MemOKIs
<1>2. PICK S, C, R : S = Children(b)' /\ C = CommandRefs(b)' /\ R = ReleaseRefs(b)'
  OBVIOUS
<1>3. NewMemOK(b, S, C, R)
  BY <1>1, <1>2
<1>4. Cardinality(S) \in Nat /\ Cardinality(C) \in Nat /\ Cardinality(R) \in Nat
  BY <1>3, FS_CardinalityType DEF NewMemOK
<1>5. held'[b] \in Nat /\ maps'[b] \in Nat /\ lost'[b] \in Nat /\ Extra(b) \in Nat
  BY Kinds, BoundsAssumption DEF TypeOK, Extra
<1>6. rc'[b] = held'[b] + maps'[b] + Cardinality(S) + Cardinality(C) + Cardinality(R) + Extra(b) + lost'[b]
  BY <1>3 DEF NewMemOK
<1>7. PICK h, m, s, c, r, x, l :
        /\ h = held'[b] /\ m = maps'[b] /\ s = Cardinality(S) /\ c = Cardinality(C) /\ r = Cardinality(R)
        /\ x = Extra(b) /\ l = lost'[b]
  OBVIOUS
<1>8. /\ h \in Nat /\ m \in Nat /\ s \in Nat /\ c \in Nat /\ r \in Nat /\ x \in Nat /\ l \in Nat /\ h > 0
  BY <1>4, <1>5, <1>7
<1>9. h + m + s + c + r + x + l > 0
  BY <1>8
<1>10. QED  BY <1>6, <1>7, <1>9

\* The references of a new command are added.
LEMMA CommandRefsMore ==
  ASSUME NEW c, c \notin Outstanding, Outstanding' = Outstanding \cup {c}, Released(c) \in Seq(Bufs),
         Len(Released(c)) <= 2, NEW b, IsFiniteSet(CommandRefs(b))
  PROVE  /\ IsFiniteSet(CommandRefs(b)')
         /\ Cardinality(CommandRefs(b)') = Cardinality(CommandRefs(b)) + Times(Released(c), b)
<1> DEFINE J == Slots(Released(c), b)
<1>1. J \in SUBSET {1, 2} /\ Cardinality(J) = Times(Released(c), b)
  BY SlotsTimes
<1>2. CommandRefs(b)' = {r \in (Outstanding \cup {c}) \X {1, 2} : /\ r[2] \in DOMAIN Released(r[1])
                                                                 /\ Released(r[1])[r[2]] = b}
  BY DEF CommandRefs, Released
<1>3. CommandRefs(b)' = CommandRefs(b) \cup ({c} \X J)
  BY <1>2 DEF CommandRefs, Slots
<1>4. \A j : <<c, j>> \notin CommandRefs(b)
  BY DEF CommandRefs
<1> HIDE DEF J
<1>5. PICK S : S = CommandRefs(b)
  OBVIOUS
<1>6. IsFiniteSet(S \cup ({c} \X J)) /\ Cardinality(S \cup ({c} \X J)) = Cardinality(S) + Cardinality(J)
  BY <1>1, <1>4, <1>5, PairCount
<1>7. QED
  BY <1>1, <1>3, <1>5, <1>6

\* MemOK, when a command is added and the counts of its buffers are raised.
LEMMA EnqueueMem ==
  ASSUME TypeOK, TypeOK', MemPart, NEW c, c \notin Outstanding, Outstanding' = Outstanding \cup {c},
         Released(c) \in Seq(Bufs), Len(Released(c)) <= 2, RelSame, UNCHANGED <<parent, lost>>,
         NEW refs \in Seq(Counted),
         \A b \in Bufs : /\ st'[b] = st[b] /\ held'[b] = held[b] /\ rc'[b] = rc[b] + Times(refs, b) + 0
                         /\ maps'[b] + Times(Released(c), b) = maps[b] + Times(refs, b)
                         /\ held[b] = 0 => Times(refs, b) = 0 /\ maps'[b] = maps[b]
  PROVE  (\A b \in Bufs : MemOK(b)') /\ ParentsOK' /\ BufsCounted' /\ NothingLost'
<1>1. ASSUME NEW b \in Bufs
      PROVE  MemOK(b)' /\ (st[b] = "live" /\ rc[b] > 0 => rc'[b] > 0)
  <2>1. MemOK(b) /\ IsFiniteSet(CommandRefs(b))
    BY DEF MemPart, MemOK
  <2>2. IsFiniteSet(CommandRefs(b)') /\ Cardinality(CommandRefs(b)') = Cardinality(CommandRefs(b)) + Times(Released(c), b)
    BY <2>1, CommandRefsMore
  <2>3. Times(Released(c), b) \in Nat /\ Times(refs, b) \in Nat
    BY TimesNat
  <2>4. PICK n \in Nat : n = Times(refs, b)
    BY <2>3
  <2>5. PICK C : C = CommandRefs(b)'
    OBVIOUS
  <2>6. rc'[b] = rc[b] + n /\ n \in Int /\ rc[b] \in Int
    BY <2>1, <2>4, MemNumbers
  <2>7. maps'[b] + Cardinality(C) + lost'[b] = maps[b] + Cardinality(CommandRefs(b)) + lost[b] + n
    <3>1. PICK m, m1, x, y, l, l1, z :
            /\ m = maps[b] /\ m1 = maps'[b] /\ x = Cardinality(CommandRefs(b)) /\ y = Cardinality(C) /\ l = lost[b]
            /\ l1 = lost'[b] /\ z = Times(Released(c), b)
      OBVIOUS
    <3>2. /\ m \in Nat /\ m1 \in Nat /\ x \in Nat /\ l \in Nat /\ z \in Nat /\ l1 = l /\ y = x + z /\ m1 + z = m + n
      BY <2>1, <2>2, <2>3, <2>4, <2>5, <3>1, MemNumbers DEF TypeOK
    <3>3. m1 + y + l1 = m + x + l + n
      BY <3>2
    <3>4. QED  BY <3>1, <3>3
  <2>8. /\ st'[b] = st[b] /\ held'[b] = held[b] /\ parent'[b] = parent[b] /\ IsFiniteSet(C)
        /\ held[b] = 0 => n = 0 /\ maps'[b] = maps[b] /\ lost'[b] = lost[b]
    BY <2>2, <2>4, <2>5
  <2>9. NewMemOK(b, Children(b), C, ReleaseRefs(b))
    BY <2>1, <2>6, <2>7, <2>8, BufferCounts
  <2>10. Children(b)' = Children(b) /\ ReleaseRefs(b)' = ReleaseRefs(b)
    BY ChildrenKept, ReleaseRefsKept
  <2>11. MemOK(b)'
    BY <2>5, <2>9, <2>10, MemOKIs
  <2>12. QED  BY <2>6, <2>11
<1>2. ParentsOK'
  BY DEF MemPart, ParentsOK, TypeOK
<1>3. BufsCounted' /\ NothingLost'
  BY <1>1 DEF MemPart, BufsCounted, NothingLost
<1>4. QED
  BY <1>1, <1>2, <1>3
-----------------------------------------------------------------------------
(* References: commands that are queued.                                   *)

\* The node goes behind all others of its queue.
Appended(q, c) ==
  \A p \in Queues, i \in Nat :
    /\ Ahead(root', pc', p, i) <=> Ahead(root, pc, p, i) \/ (p = q /\ i = Len(root[q]) + 1)
    /\ HasKernel(root', pc', p, i) <=> HasKernel(root, pc, p, i) \/ (p = q /\ i = Len(root[q]) + 1)
    /\ i \in DOMAIN root'[p] => root'[p][i] = IF p = q /\ i = Len(root[q]) + 1 THEN c ELSE root[p][i]

LEMMA AppendWork ==
  ASSUME Control, NEW q \in Queues, NEW c \in Node, ~Busy(q), pc' = pc, root' = [root EXCEPT ![q] = Append(@, c)]
  PROVE  Appended(q, c)
<1>1. /\ root \in [Queues -> Seq(Node)] /\ root[q] \in Seq(Node) /\ Len(root[q]) \in Nat
      /\ pc' = pc /\ \A u \in Threads : pc[u].q # q
  BY DEF Control, TypeOK, Busy
<1>2. root'[q] = Append(root[q], c) /\ \A p \in Queues : p # q => root'[p] = root[p]
  BY <1>1
<1>3. PICK s \in Seq(Node) : s = root[q]
  BY <1>1
<1>4. PICK z : z = Append(s, c)
  OBVIOUS
<1>5. /\ DOMAIN z = 1..(Len(s) + 1) /\ DOMAIN s = 1..Len(s) /\ Len(s) \in Nat
      /\ z[Len(s) + 1] = c /\ \A i \in 1..Len(s) : z[i] = s[i]
  BY <1>3, <1>4
<1>6. root'[q] = z
  BY <1>2, <1>3, <1>4
<1> SUFFICES ASSUME NEW p \in Queues, NEW i \in Nat
             PROVE  /\ Ahead(root', pc', p, i) <=> Ahead(root, pc, p, i) \/ (p = q /\ i = Len(root[q]) + 1)
                    /\ HasKernel(root', pc', p, i) <=> HasKernel(root, pc, p, i) \/ (p = q /\ i = Len(root[q]) + 1)
                    /\ i \in DOMAIN root'[p] => root'[p][i] = IF p = q /\ i = Len(root[q]) + 1 THEN c ELSE root[p][i]
  BY DEF Appended
<1>7. CASE p # q
  BY <1>1, <1>2, <1>7 DEF Ahead, HasKernel
<1>8. CASE p = q
  <2>1. /\ Ahead(root', pc', p, i) <=> i \in DOMAIN z
        /\ HasKernel(root', pc', p, i) <=> i \in DOMAIN z
        /\ Ahead(root, pc, p, i) <=> i \in DOMAIN s
        /\ HasKernel(root, pc, p, i) <=> i \in DOMAIN s
    BY <1>1, <1>3, <1>6, <1>8 DEF Ahead, HasKernel, Through
  <2>2. i \in DOMAIN z <=> i \in DOMAIN s \/ i = Len(s) + 1
    BY <1>5
  <2>3. i \in DOMAIN z => z[i] = IF i = Len(s) + 1 THEN c ELSE s[i]
    BY <1>5, <2>2
  <2>4. QED
    BY <1>3, <1>6, <1>8, <2>1, <2>2, <2>3
<1>9. QED  BY <1>7, <1>8

\* x is a command of the queues r or of the calls p, still to be executed.
WorkLeft(r, p, x) == \/ \E q \in Queues, i \in Nat : Ahead(r, p, q, i) /\ x = r[q][i]
                     \/ \E u \in Threads : Own(p[u]) /\ x = p[u].cmd

\* A step that adds one command to the work that is left.
LEMMA OutstandingMore ==
  ASSUME Control, root' \in [Queues -> Seq(Node)], NEW c \in Node, c.n = count + 1, c.event # None => st[c.event] = "none",
         \A x : WorkLeft(root', pc', x) <=> WorkLeft(root, pc, x) \/ x = c
  PROVE  c \notin Outstanding /\ Outstanding' = Outstanding \cup {c}
<1>1. root \in [Queues -> Seq(Node)]
  BY DEF Control, TypeOK
<1>2. \A x : x \in Outstanding' <=> x \in Outstanding \/ x = c
  <2> TAKE x
  <2>1. x \in Outstanding <=> WorkLeft(root, pc, x)
    BY <1>1, OutstandingNow DEF WorkLeft
  <2>2. x \in Outstanding' <=> WorkLeft(root', pc', x)
    BY OutstandingNext DEF WorkLeft
  <2>3. QED  BY <2>1, <2>2
<1>3. c \notin Outstanding
  <2>1. Same(c, c)
    BY DEF Same
  <2>2. /\ \A p \in Queues : \A i \in DOMAIN root[p] : root[p][i] # c
        /\ \A u \in Threads : pc[u].op = "exec" => pc[u].cmd # c
    BY <2>1, NewCommand
  <2>3. QED
    BY <1>1, <2>2, OutstandingNow DEF Ahead, Own
<1>4. QED  BY <1>2, <1>3

LEMMA AppendOutstanding ==
  ASSUME Control, root' \in [Queues -> Seq(Node)], NEW q \in Queues, NEW c \in Node, ~Busy(q), pc' = pc,
         root' = [root EXCEPT ![q] = Append(@, c)], c.n = count + 1, c.event # None => st[c.event] = "none"
  PROVE  c \notin Outstanding /\ Outstanding' = Outstanding \cup {c}
<1>1. \A p \in Queues, i \in Nat :
        /\ Ahead(root', pc', p, i) <=> Ahead(root, pc, p, i) \/ (p = q /\ i = Len(root[q]) + 1)
        /\ i \in DOMAIN root'[p] => root'[p][i] = IF p = q /\ i = Len(root[q]) + 1 THEN c ELSE root[p][i]
  <2>1. Appended(q, c)
    BY AppendWork
  <2>2. QED  BY <2>1 DEF Appended
<1>2. PICK j \in Nat : j = Len(root[q]) + 1
  BY DEF Control, TypeOK
<1>3. \A p \in Queues, i \in Nat : /\ Ahead(root', pc', p, i) => i \in DOMAIN root'[p]
                                   /\ Ahead(root, pc, p, i) => i \in DOMAIN root[p]
  BY DEF Ahead
<1>4. j \notin DOMAIN root[q]
  <2>1. root[q] \in Seq(Node)
    BY DEF Control, TypeOK
  <2>2. QED  BY <1>2, <2>1
<1>5. \A x : (\E p \in Queues, i \in Nat : Ahead(root', pc', p, i) /\ x = root'[p][i])
             <=> (\E p \in Queues, i \in Nat : Ahead(root, pc, p, i) /\ x = root[p][i]) \/ x = c
  <2> TAKE x
  <2>1. ASSUME NEW p \in Queues, NEW i \in Nat, Ahead(root', pc', p, i), x = root'[p][i]
        PROVE  (\E p1 \in Queues, i1 \in Nat : Ahead(root, pc, p1, i1) /\ x = root[p1][i1]) \/ x = c
    BY <1>1, <1>3, <2>1
  <2>2. ASSUME NEW p \in Queues, NEW i \in Nat, Ahead(root, pc, p, i), x = root[p][i]
        PROVE  \E p1 \in Queues, i1 \in Nat : Ahead(root', pc', p1, i1) /\ x = root'[p1][i1]
    <3>1. ~(p = q /\ i = j) /\ Ahead(root', pc', p, i)
      BY <1>1, <1>3, <1>4, <2>2
    <3>2. x = root'[p][i]
      BY <1>1, <1>2, <1>3, <2>2, <3>1
    <3>3. QED  BY <3>1, <3>2
  <2>3. ASSUME x = c
        PROVE  \E p1 \in Queues, i1 \in Nat : Ahead(root', pc', p1, i1) /\ x = root'[p1][i1]
    <3>1. Ahead(root', pc', q, j) /\ root'[q][j] = c
      BY <1>1, <1>2, <1>3
    <3>2. QED  BY <2>3, <3>1
  <2>4. QED  BY <2>1, <2>2, <2>3
<1>6. \A x : (\E u \in Threads : Own(pc'[u]) /\ x = pc'[u].cmd) <=> (\E u \in Threads : Own(pc[u]) /\ x = pc[u].cmd)
  OBVIOUS
<1>7. ASSUME NEW x
      PROVE  WorkLeft(root', pc', x) <=> WorkLeft(root, pc, x) \/ x = c
  <2>1. /\ (\E p \in Queues, i \in Nat : Ahead(root', pc', p, i) /\ x = root'[p][i])
             <=> (\E p \in Queues, i \in Nat : Ahead(root, pc, p, i) /\ x = root[p][i]) \/ x = c
        /\ (\E u \in Threads : Own(pc'[u]) /\ x = pc'[u].cmd) <=> (\E u \in Threads : Own(pc[u]) /\ x = pc[u].cmd)
    BY ZenonT(60), <1>5, <1>6
  <2>2. QED  BY <2>1, Zenon DEF WorkLeft
<1>8. QED
  BY <1>7, OutstandingMore

\* A launch in the queue has a reference of its kernel.
LEMMA LaunchesMore ==
  ASSUME Control, NEW q \in Queues, NEW c \in Node, ~Busy(q), pc' = pc, root' = [root EXCEPT ![q] = Append(@, c)],
         count < MaxCommands, NEW k
  PROVE  /\ c.kernel # k => LaunchRefs(k)' = LaunchRefs(k)
         /\ c.kernel = k => /\ LaunchRefs(k)' = LaunchRefs(k) \cup {<<q, Len(root[q]) + 1>>}
                            /\ <<q, Len(root[q]) + 1>> \notin LaunchRefs(k)
<1>1. \A p \in Queues, i \in Nat :
        /\ HasKernel(root', pc', p, i) <=> HasKernel(root, pc, p, i) \/ (p = q /\ i = Len(root[q]) + 1)
        /\ i \in DOMAIN root'[p] => root'[p][i] = IF p = q /\ i = Len(root[q]) + 1 THEN c ELSE root[p][i]
  <2>1. Appended(q, c)
    BY AppendWork
  <2>2. QED  BY <2>1 DEF Appended
<1>2. PICK j \in Nat : j = Len(root[q]) + 1
  BY DEF Control, TypeOK
<1>3. j \notin DOMAIN root[q] /\ j \in 1..MaxCommands
  <2>1. root[q] \in Seq(Node) /\ count \in Nat /\ Len(root[q]) <= count /\ Len(root[q]) \in Nat
    BY DEF Control, TypeOK, Lengths
  <2>2. QED  BY <1>2, <2>1, BoundsAssumption
<1>4. \A r \in Queues \X (1..MaxCommands) : r[1] \in Queues /\ r[2] \in Nat
  BY BoundsAssumption
<1>5. \A r \in Queues \X (1..MaxCommands) : r = <<q, j>> <=> r[1] = q /\ r[2] = j
  OBVIOUS
<1>6. /\ LaunchRefs(k) = {r \in Queues \X (1..MaxCommands) :
                            HasKernel(root, pc, r[1], r[2]) /\ root[r[1]][r[2]].kernel = k}
      /\ LaunchRefs(k)' = {r \in Queues \X (1..MaxCommands) :
                            HasKernel(root', pc', r[1], r[2]) /\ root'[r[1]][r[2]].kernel = k}
  BY DEF LaunchRefs, HasKernel
<1>7. \A r \in Queues \X (1..MaxCommands) :
        r # <<q, j>> => /\ HasKernel(root', pc', r[1], r[2]) <=> HasKernel(root, pc, r[1], r[2])
                        /\ HasKernel(root, pc, r[1], r[2]) => root'[r[1]][r[2]] = root[r[1]][r[2]]
  BY <1>1, <1>2, <1>4, <1>5 DEF HasKernel
<1>8. <<q, j>> \in Queues \X (1..MaxCommands) /\ HasKernel(root', pc', q, j) /\ root'[q][j] = c
  BY <1>1, <1>2, <1>3 DEF HasKernel
<1>9. ~HasKernel(root, pc, q, j)
  BY <1>3 DEF HasKernel
<1>10. <<q, j>> \notin LaunchRefs(k) /\ (<<q, j>> \in LaunchRefs(k)' <=> c.kernel = k)
  BY <1>6, <1>8, <1>9
<1>11. \A r : r # <<q, j>> => (r \in LaunchRefs(k)' <=> r \in LaunchRefs(k))
  BY <1>6, <1>7
<1>12. /\ c.kernel # k => LaunchRefs(k)' = LaunchRefs(k)
       /\ c.kernel = k => LaunchRefs(k)' = LaunchRefs(k) \cup {<<q, j>>}
  <2>1. PICK S, T, r : S = LaunchRefs(k) /\ T = LaunchRefs(k)' /\ r = <<q, j>>
    OBVIOUS
  <2>2. r \notin S /\ (r \in T <=> c.kernel = k) /\ \A x : x # r => (x \in T <=> x \in S)
    BY <1>10, <1>11, <2>1
  <2>3. (c.kernel # k => T = S) /\ (c.kernel = k => T = S \cup {r})
    <3>1. c.kernel # k => T \subseteq S /\ S \subseteq T
      BY <2>2
    <3>2. c.kernel = k => T \subseteq S \cup {r} /\ S \cup {r} \subseteq T
      BY <2>2
    <3>3. QED  BY <3>1, <3>2, Zenon
  <2>4. QED  BY <2>1, <2>3
<1>13. QED
  BY <1>2, <1>10, <1>12

\* Only a map adds a queued map.
LEMMA AppendMaps ==
  ASSUME Control, NEW q \in Queues, NEW c \in Node, ~Busy(q), pc' = pc, root' = [root EXCEPT ![q] = Append(@, c)],
         NEW b, MapQueued(b)'
  PROVE  MapQueued(b) \/ (c.type = "map" /\ b \in Range(c.bufs))
<1>1. PICK p \in Queues : \E i \in DOMAIN root'[p] : root'[p][i].type = "map" /\ b \in Range(root'[p][i].bufs)
  BY DEF MapQueued, Range
<1>2. PICK i \in DOMAIN root'[p] : root'[p][i].type = "map" /\ b \in Range(root'[p][i].bufs)
  BY <1>1
<1>3. root[p] \in Seq(Node) /\ root[q] \in Seq(Node) /\ root \in [Queues -> Seq(Node)]
  BY DEF Control, TypeOK
<1>4. PICK s \in Seq(Node) : s = root[p]
  BY <1>3
<1>5. CASE p # q
  <2>1. root'[p] = root[p]
    BY <1>3, <1>5
  <2>2. QED  BY <1>2, <2>1 DEF MapQueued
<1>6. CASE p = q
  <2>1. root'[p] = Append(s, c)
    BY <1>3, <1>4, <1>6
  <2>2. i \in 1..Len(s) + 1 /\ Len(s) \in Nat /\ (i = Len(s) + 1 => root'[p][i] = c)
        /\ (i # Len(s) + 1 => i \in DOMAIN root[p] /\ root'[p][i] = root[p][i])
    BY <1>4, <2>1
  <2>3. QED  BY <1>2, <2>2 DEF MapQueued
<1>7. QED  BY <1>5, <1>6

\* A non-blocking call takes the references in refs, which are those that its
\* command will give back, but for that of a map and that of the queue.
LEMMA AppendReferences ==
  ASSUME Control, Control', References, NEW t \in Threads, NEW q \in Queues, NEW type \in Types,
         NEW bufs \in Seq(Bufs), NEW k \in Kernels \cup {None}, NEW ev \in Events \cup {None},
         NEW refs \in Seq(Counted), Len(bufs) <= 2, AppendNode(t, q, type, bufs, k, ev, refs),
         \A b \in Bufs : /\ maps'[b] + Times(IF type = "map" THEN <<>> ELSE bufs, b) = maps[b] + Times(refs, b)
                         /\ held[b] = 0 => Times(refs, b) = 0 /\ maps'[b] = maps[b]
                         /\ \/ maps'[b] = maps[b] /\ mapped'[b] = mapped[b] /\ ~(type = "map" /\ b \in Range(bufs))
                            \/ maps'[b] = maps[b] + 1 /\ mapped'[b] = mapped[b] + 1,
         \A x \in Kernels : Times(refs, x) = One(k, x), k # None => held[k] > 0,
         \A p \in Queues : p # q => Times(refs, p) = 0, Times(refs, q) = 0 \/ "ndrange" \in Commands
  PROVE  References'
<1>1. /\ ~Busy(q) /\ count < MaxCommands /\ (ev # None => st[ev] = "none") /\ held[q] > 0
      /\ MakeEvent(q, ev, "queued") /\ rc' = Retained(q, ev, refs)
      /\ root' = [root EXCEPT ![q] = Append(@, Cmd(type, bufs, k, ev))]
      /\ UNCHANGED <<parent, lost, karg, pc>>
  BY DEF AppendNode, MayEnqueue, Owns
<1>2. TypeOK /\ TypeOK' /\ count \in Nat /\ root \in [Queues -> Seq(Node)] /\ root' \in [Queues -> Seq(Node)]
  BY DEF Control, TypeOK
<1>3. PICK c : c = Cmd(type, bufs, k, ev)
  OBVIOUS
<1>4. c \in Node /\ c.n = count + 1 /\ c.type = type /\ c.bufs = bufs /\ c.kernel = k /\ c.event = ev
  BY <1>2, <1>3 DEF Cmd, Node
<1>5. root' = [root EXCEPT ![q] = Append(@, c)] /\ pc' = pc /\ parent' = parent /\ lost' = lost
  BY <1>1, <1>3
<1>6. EventMade(q, ev, "queued", 1)
  BY <1>1, RetainedEvent, MakeEventEffect DEF Stats
<1>7. \A o \in Bufs \cup Kernels \cup Queues : st'[o] = st[o] /\ held'[o] = held[o]
  <2>1. \A o \in Bufs \cup Kernels \cup Queues : o \in Objects /\ (ev # None => o # ev)
    BY Kinds
  <2>2. QED  BY <1>1, <1>2, <2>1 DEF MakeEvent, TypeOK
<1>8. /\ \A o \in Bufs \cup Kernels : rc'[o] = rc[o] + Times(refs, o) + 0
      /\ \A p \in Queues : rc'[p] = rc[p] + Times(refs, p) + (IF ev # None /\ p = q THEN 1 ELSE 0)
  <2>1. TypeOK /\ rc' = Retained(q, ev, refs)
    BY <1>1, <1>2
  <2>2. QED  BY <2>1, RetainedCounts
<1>9. c \notin Outstanding /\ Outstanding' = Outstanding \cup {c}
  BY <1>1, <1>2, <1>4, <1>5, AppendOutstanding
<1>10. RelSame /\ ReleasingSame /\ ExecSame
  BY <1>5 DEF RelSame, ReleasingSame, ExecSame
<1>11. MemPart /\ KernelsOK /\ QueuesOK /\ EventsKept
  BY ReferencesParts DEF ReferencesIs
<1>12. EventsKept'
  <2>1. \A x \in Outstanding' : x \in Outstanding \/ x.event = ev
    BY <1>4, <1>9
  <2>2. QED  BY <1>6, <1>11, <2>1, EnqueueEvents
<1>13. QueuesOK'
  <2>1. PICK m \in Nat : m = Times(refs, q)
    BY TimesNat
  <2>2. rc'[q] = rc[q] + m + (IF ev # None THEN 1 ELSE 0) /\ (m = 0 \/ "ndrange" \in Commands)
    BY <1>8, <2>1
  <2>3. \A p \in Queues : p # q => rc'[p] = rc[p] /\ root'[p] = root[p]
    <3>1. \A p \in Queues : p # q => rc'[p] = rc[p] + 0 + 0 /\ rc[p] \in Int
      BY <1>2, <1>8, Kinds DEF TypeOK
    <3>2. \A p \in Queues : p # q => rc'[p] = rc[p]
      BY <3>1
    <3>3. \A p \in Queues : p # q => root'[p] = root[p]
      BY <1>2, <1>5
    <3>4. QED  BY <3>2, <3>3
  <2>4. QED
    BY SMTT(60), <1>1, <1>6, <1>7, <1>10, <1>11, <2>2, <2>3, EnqueueQueues
<1>14. KernelsOK'
  <2> SUFFICES ASSUME NEW x \in Kernels PROVE NewKernelOK(x, LaunchRefs(x)')
    BY KernelsOKIs
  <2>1. /\ IsFiniteSet(LaunchRefs(x)) /\ Cardinality(LaunchRefs(x)) \in Nat /\ rc[x] \in Int /\ held[x] \in Nat
        /\ st[x] = "live" => rc[x] > 0 /\ rc[x] >= held[x] + Cardinality(LaunchRefs(x))
        /\ st[x] = "live" /\ NoGPU => rc[x] = held[x] + Cardinality(LaunchRefs(x))
        /\ st[x] # "live" => held[x] = 0 /\ Cardinality(LaunchRefs(x)) = 0
    BY <1>2, <1>11, KernelNumbers
  <2>2. PICK r : r = <<q, Len(root[q]) + 1>>
    OBVIOUS
  <2>3. /\ k # x => LaunchRefs(x)' = LaunchRefs(x)
        /\ k = x => LaunchRefs(x)' = LaunchRefs(x) \cup {r} /\ r \notin LaunchRefs(x)
    <3>1. ~Busy(q) /\ count < MaxCommands /\ c \in Node /\ c.kernel = k
      BY <1>1, <1>4
    <3>2. /\ c.kernel # x => LaunchRefs(x)' = LaunchRefs(x)
          /\ c.kernel = x => /\ LaunchRefs(x)' = LaunchRefs(x) \cup {<<q, Len(root[q]) + 1>>}
                             /\ <<q, Len(root[q]) + 1>> \notin LaunchRefs(x)
      BY <1>5, <3>1, LaunchesMore
    <3>3. QED  BY <2>2, <3>1, <3>2
  <2>4. st'[x] = st[x] /\ held'[x] = held[x] /\ rc'[x] = rc[x] + One(k, x) + 0
    BY <1>7, <1>8
  <2>5. CASE k # x
    <3>1. rc'[x] = rc[x]
      BY <2>1, <2>4, <2>5 DEF One
    <3>2. QED
      BY <2>1, <2>3, <2>4, <2>5, <3>1 DEF NewKernelOK
  <2>6. CASE k = x
    <3>1. PICK S : S = LaunchRefs(x) \cup {r}
      OBVIOUS
    <3>2. IsFiniteSet(S) /\ Cardinality(S) = Cardinality(LaunchRefs(x)) + 1
      BY <2>1, <2>3, <2>6, <3>1, FS_AddElement
    <3>3. held[x] > 0
      BY <2>6, Kinds
    <3>4. st[x] = "live" /\ LaunchRefs(x)' = S /\ rc'[x] = rc[x] + 1
      BY <2>1, <2>3, <2>4, <2>6, <3>1, <3>3 DEF One
    <3>5. PICK r0, h, l : r0 = rc[x] /\ h = held[x] /\ l = Cardinality(LaunchRefs(x))
      OBVIOUS
    <3>6. /\ r0 \in Int /\ h \in Nat /\ l \in Nat /\ r0 > 0 /\ r0 >= h + l /\ (NoGPU => r0 = h + l)
      BY <2>1, <3>4, <3>5
    <3>7. r0 + 1 > 0 /\ r0 + 1 >= h + (l + 1) /\ (NoGPU => r0 + 1 = h + (l + 1))
      BY <3>6
    <3>8. NewKernelOK(x, S)
      BY <2>4, <3>2, <3>4, <3>5, <3>7 DEF NewKernelOK
    <3>9. QED  BY <3>4, <3>8
  <2>7. QED  BY <2>5, <2>6
<1>15. (\A b \in Bufs : MemOK(b)') /\ ParentsOK' /\ BufsCounted' /\ NothingLost'
  <2>1. Released(c) = (IF type = "map" THEN <<>> ELSE bufs) /\ Released(c) \in Seq(Bufs) /\ Len(Released(c)) <= 2
    BY <1>4 DEF Released
  <2>2. \A b \in Bufs : /\ st'[b] = st[b] /\ held'[b] = held[b] /\ rc'[b] = rc[b] + Times(refs, b) + 0
                        /\ maps'[b] + Times(Released(c), b) = maps[b] + Times(refs, b)
                        /\ held[b] = 0 => Times(refs, b) = 0 /\ maps'[b] = maps[b]
    BY <1>7, <1>8, <2>1
  <2>3. UNCHANGED <<parent, lost>>
    BY <1>5
  <2>4. QED
    <3>1. TypeOK /\ TypeOK' /\ MemPart /\ RelSame /\ Released(c) \in Seq(Bufs) /\ Len(Released(c)) <= 2
      BY <1>2, <1>10, <1>11, <2>1
    <3>2. QED  BY <1>9, <2>2, <2>3, <3>1, EnqueueMem
<1>16. MapsOK'
  <2> SUFFICES ASSUME NEW b \in Bufs
               PROVE  /\ IsFiniteSet(OwnMaps(b)')
                      /\ maps'[b] >= mapped'[b] + Cardinality(OwnMaps(b)')
                      /\ ~UnmapsEarly /\ MapQueued(b)' => mapped'[b] > 0
    BY DEF MapsOK
  <2>1. /\ IsFiniteSet(OwnMaps(b)) /\ maps[b] >= mapped[b] + Cardinality(OwnMaps(b))
        /\ ~UnmapsEarly /\ MapQueued(b) => mapped[b] > 0
        /\ maps[b] \in Nat /\ mapped[b] \in Nat /\ Cardinality(OwnMaps(b)) \in Nat
    BY <1>2, <1>11, FS_CardinalityType DEF MemPart, MapsOK, TypeOK
  <2>2. OwnMaps(b)' = OwnMaps(b)
    BY <1>10, OwnMapsKept
  <2>3. MapQueued(b)' => MapQueued(b) \/ (type = "map" /\ b \in Range(bufs))
    BY <1>1, <1>4, <1>5, AppendMaps
  <2>4. \/ maps'[b] = maps[b] /\ mapped'[b] = mapped[b] /\ ~(type = "map" /\ b \in Range(bufs))
        \/ maps'[b] = maps[b] + 1 /\ mapped'[b] = mapped[b] + 1
    OBVIOUS
  <2>5. QED
    BY <2>1, <2>2, <2>3, <2>4
<1>17. QED
  BY <1>12, <1>13, <1>14, <1>15, <1>16, ReferencesParts DEF ReferencesIs, MemPart
-----------------------------------------------------------------------------
(* References: commands that the call itself executes.                     *)

LEMMA TimesOther ==
  ASSUME NEW S, NEW s \in Seq(S), NEW o, o \notin S
  PROVE  Times(s, o) = 0
<1>1. {i \in DOMAIN s : s[i] = o} = {}
  OBVIOUS
<1>2. QED  BY <1>1, FS_EmptySet DEF Times

LEMMA DirectReferences ==
  ASSUME Control, Control', References, NEW t \in Threads, NEW q \in Queues, NEW type \in Types,
         NEW bufs \in Seq(Bufs), NEW ev \in Events \cup {None}, Len(bufs) <= 2,
         ExecuteDirectly(t, q, type, bufs, ev), mapped' = mapped,
         \A b \in Bufs : /\ maps'[b] + Times(IF type = "map" THEN <<>> ELSE bufs, b) = maps[b] + Times(bufs, b)
                         /\ held[b] = 0 => Times(bufs, b) = 0 /\ maps'[b] = maps[b]
                         /\ maps'[b] = IF type = "map" /\ bufs[1] = b THEN maps[b] + 1 ELSE maps[b]
  PROVE  References'
<1>1. /\ Idle(t) /\ ~Busy(q) /\ count < MaxCommands /\ (ev # None => st[ev] = "none") /\ held[q] > 0
      /\ MakeEvent(q, ev, "queued") /\ rc' = Retained(q, ev, bufs)
      /\ pc' = [pc EXCEPT ![t] = Finishing(q, "exec", Cmd(type, bufs, None, ev), <<>>)]
      /\ UNCHANGED <<parent, lost, karg, root>>
  BY DEF ExecuteDirectly, MayEnqueue, Owns
<1>2. /\ TypeOK /\ TypeOK' /\ count \in Nat /\ root \in [Queues -> Seq(Node)] /\ root' \in [Queues -> Seq(Node)]
      /\ pc \in [Threads -> Call] /\ pc[t].op = "idle" /\ CallOK(pc[t], root)
  BY <1>1 DEF Control, TypeOK, Idle, CallsOK
<1>3. PICK c : c = Cmd(type, bufs, None, ev)
  OBVIOUS
<1>4. c \in Node /\ c.n = count + 1 /\ c.type = type /\ c.bufs = bufs /\ c.event = ev
  BY <1>2, <1>3 DEF Cmd, Node
<1>5. PICK d : d = Finishing(q, "exec", c, <<>>)
  OBVIOUS
<1>6. d.op = "exec" /\ d.q = q /\ d.i = 1 /\ d.at = "node" /\ d.rel = <<>> /\ d.cmd = c
  BY <1>5 DEF Finishing
<1>7. pc' = [pc EXCEPT ![t] = d] /\ root' = root /\ parent' = parent /\ lost' = lost
  BY <1>1, <1>3, <1>5
<1>8. NodesKept /\ pc'[t] = d /\ ~Own(pc[t]) /\ \A u \in Threads : u # t => pc'[u] = pc[u]
  <2>1. \A u \in Threads : pc[u].q # d.q
    BY <1>1, <1>6 DEF Busy
  <2>2. QED  BY <1>2, <1>6, <1>7, <2>1, BeginWork
<1>9. bufs \in Seq(Counted) /\ EventMade(q, ev, "queued", 1)
  <2>1. bufs \in Seq(Counted)
    BY DEF Counted
  <2>2. QED  BY SMTT(60), <1>1, <2>1, RetainedEvent, MakeEventEffect DEF Stats
<1>10. \A o \in Bufs \cup Kernels \cup Queues : st'[o] = st[o] /\ held'[o] = held[o]
  <2>1. \A o \in Bufs \cup Kernels \cup Queues : o \in Objects /\ (ev # None => o # ev)
    BY Kinds
  <2>2. QED  BY <1>1, <1>2, <2>1 DEF MakeEvent, TypeOK
<1>11. /\ \A o \in Bufs \cup Kernels : rc'[o] = rc[o] + Times(bufs, o) + 0
       /\ \A p \in Queues : rc'[p] = rc[p] + Times(bufs, p) + (IF ev # None /\ p = q THEN 1 ELSE 0)
  <2>1. TypeOK /\ rc' = Retained(q, ev, bufs)
    BY <1>1, <1>2
  <2>2. QED  BY <2>1, RetainedCounts
<1>12. \A o \in Kernels \cup Queues : Times(bufs, o) = 0
  <2>1. \A o \in Kernels \cup Queues : o \notin Bufs
    BY Kinds
  <2>2. QED  BY <2>1, TimesOther
<1>13. c \notin Outstanding /\ Outstanding' = Outstanding \cup {c}
  <2>1. ASSUME NEW x PROVE WorkLeft(root', pc', x) <=> WorkLeft(root, pc, x) \/ x = c
    <3>1. (\E p \in Queues, i \in Nat : Ahead(root', pc', p, i) /\ x = root'[p][i])
             <=> (\E p \in Queues, i \in Nat : Ahead(root, pc, p, i) /\ x = root[p][i])
      <4>1. \A p \in Queues, i \in Nat : (Ahead(root', pc', p, i) /\ x = root'[p][i])
                                         <=> (Ahead(root, pc, p, i) /\ x = root[p][i])
        BY <1>8 DEF NodesKept, AheadKept
      <4>2. QED  BY <4>1
    <3>2. (\E u \in Threads : Own(pc'[u]) /\ x = pc'[u].cmd) <=> (\E u \in Threads : Own(pc[u]) /\ x = pc[u].cmd) \/ x = c
      <4>1. Own(d)
        BY <1>6 DEF Own
      <4>2. ASSUME NEW u \in Threads
            PROVE  (Own(pc'[u]) /\ x = pc'[u].cmd) <=> (Own(pc[u]) /\ x = pc[u].cmd) \/ (u = t /\ x = c)
        BY <1>6, <1>8, <4>1
      <4>3. QED  BY <4>2
    <3>3. QED  BY <3>1, <3>2, Zenon DEF WorkLeft
  <2>2. c.event # None => st[c.event] = "none"
    BY <1>1, <1>4
  <2>3. QED  BY <1>2, <1>4, <2>1, <2>2, OutstandingMore
<1>14. RelSame /\ ReleasingSame /\ NoMapAdded
  <2>1. pc[t].rel = <<>>
    BY <1>2, NoCallType DEF CallOK
  <2>2. QED  BY <1>2, <1>6, <1>7, <1>8, <2>1 DEF RelSame, ReleasingSame, NoMapAdded
<1>15. MemPart /\ KernelsOK /\ QueuesOK /\ EventsKept
  BY ReferencesParts DEF ReferencesIs
<1>16. EventsKept'
  <2>1. \A x \in Outstanding' : x \in Outstanding \/ x.event = ev
    BY <1>4, <1>13
  <2>2. QED  BY <1>9, <1>15, <2>1, EnqueueEvents
<1>17. \A o \in Kernels \cup Queues : rc[o] \in Int
  BY <1>2, Kinds DEF TypeOK
<1>18. QueuesOK'
  <2>1. PICK m \in Nat : m = 0
    OBVIOUS
  <2>2. rc'[q] = rc[q] + m + (IF ev # None THEN 1 ELSE 0)
    BY <1>11, <1>12, <2>1
  <2>3. \A p \in Queues : p # q => rc'[p] = rc[p] + 0 + 0
    BY <1>11, <1>12
  <2>4. \A p \in Queues : p # q => rc'[p] = rc[p]
    BY <1>17, <2>3
  <2>5. QED
    <3>1. QueuesOK /\ EventMade(q, ev, "queued", 1) /\ ReleasingSame /\ held[q] > 0 /\ (m = 0 \/ "ndrange" \in Commands)
      BY <1>1, <1>9, <1>14, <1>15, <2>1
    <3>2. \A p \in Queues : st'[p] = st[p] /\ held'[p] = held[p] /\ (p # q => rc'[p] = rc[p] /\ root'[p] = root[p])
      BY <1>7, <1>10, <2>4
    <3>3. QED  BY <2>2, <3>1, <3>2, EnqueueQueues
<1>19. KernelsOK'
  <2>1. \A x \in Kernels : rc'[x] = rc[x] + 0 + 0
    BY <1>11, <1>12
  <2>2. \A x \in Kernels : ObjectSame(x)
    BY <1>10, <1>17, <2>1 DEF ObjectSame
  <2>3. QED  BY <1>8, <1>15, <2>2, KernelFrame DEF NodesKept
<1>20. (\A b \in Bufs : MemOK(b)') /\ ParentsOK' /\ BufsCounted' /\ NothingLost'
  <2>1. Released(c) = (IF type = "map" THEN <<>> ELSE bufs) /\ Released(c) \in Seq(Bufs) /\ Len(Released(c)) <= 2
    BY <1>4 DEF Released
  <2>2. \A b \in Bufs : /\ st'[b] = st[b] /\ held'[b] = held[b] /\ rc'[b] = rc[b] + Times(bufs, b) + 0
                        /\ maps'[b] + Times(Released(c), b) = maps[b] + Times(bufs, b)
                        /\ held[b] = 0 => Times(bufs, b) = 0 /\ maps'[b] = maps[b]
    BY <1>10, <1>11, <2>1
  <2>3. UNCHANGED <<parent, lost>>
    BY <1>7
  <2>4. TypeOK /\ TypeOK' /\ MemPart /\ RelSame /\ Released(c) \in Seq(Bufs) /\ Len(Released(c)) <= 2
    BY <1>2, <1>14, <1>15, <2>1
  <2>5. QED
    BY <1>9, <1>13, <2>2, <2>3, <2>4, EnqueueMem
<1>21. MapsOK'
  <2> SUFFICES ASSUME NEW b \in Bufs
               PROVE  /\ IsFiniteSet(OwnMaps(b)')
                      /\ maps'[b] >= mapped'[b] + Cardinality(OwnMaps(b)')
                      /\ ~UnmapsEarly /\ MapQueued(b)' => mapped'[b] > 0
    BY DEF MapsOK
  <2>1. /\ IsFiniteSet(OwnMaps(b)) /\ maps[b] >= mapped[b] + Cardinality(OwnMaps(b))
        /\ ~UnmapsEarly /\ MapQueued(b) => mapped[b] > 0
        /\ maps[b] \in Nat /\ mapped[b] \in Nat /\ Cardinality(OwnMaps(b)) \in Nat
    BY <1>2, <1>15, FS_CardinalityType DEF MemPart, MapsOK, TypeOK
  <2>2. MapQueued(b)' => MapQueued(b)
    BY <1>14, MapQueuedKept
  <2>3. t \notin OwnMaps(b)
    BY <1>2 DEF OwnMaps
  <2>4. CASE type = "map" /\ bufs[1] = b
    <3>1. OwnMaps(b)' = OwnMaps(b) \cup {t}
      BY <1>4, <1>6, <1>8, <2>4 DEF OwnMaps
    <3>2. PICK S : S = OwnMaps(b) \cup {t}
      OBVIOUS
    <3>3. IsFiniteSet(S) /\ Cardinality(S) = Cardinality(OwnMaps(b)) + 1
      BY <2>1, <2>3, <3>2, FS_AddElement
    <3>4. IsFiniteSet(OwnMaps(b)') /\ Cardinality(OwnMaps(b)') = Cardinality(OwnMaps(b)) + 1
      BY <3>1, <3>2, <3>3
    <3>5. maps'[b] = maps[b] + 1 /\ mapped'[b] = mapped[b]
      BY <2>4
    <3>6. QED  BY <2>1, <2>2, <3>4, <3>5
  <2>5. CASE ~(type = "map" /\ bufs[1] = b)
    <3>1. OwnMaps(b)' = OwnMaps(b)
      BY <1>2, <1>4, <1>6, <1>8, <2>5 DEF OwnMaps
    <3>2. maps'[b] = maps[b] /\ mapped'[b] = mapped[b]
      BY <2>5
    <3>3. QED  BY <2>1, <2>2, <3>1, <3>2
  <2>6. QED  BY <2>4, <2>5
<1>22. QED
  BY <1>16, <1>18, <1>19, <1>20, <1>21, ReferencesParts DEF ReferencesIs, MemPart
-----------------------------------------------------------------------------
(* References: calls that queue and execute nothing.                       *)

\* Such a call makes an event, or not, and changes the counts of one buffer.
LEMMA ImmediateReferences ==
  ASSUME Control, Control', References, NEW q \in Queues, NEW ev \in Events \cup {None}, NEW stat, NEW n,
         EventMade(q, ev, stat, n), pc' = pc, root' = root, parent' = parent, held[q] > 0,
         NEW b \in Bufs, held[b] > 0, NEW z \in Int,
         \A o \in Bufs \cup Kernels \cup Queues : st'[o] = st[o] /\ held'[o] = held[o],
         \A k \in Kernels : rc'[k] = rc[k],
         \A p \in Queues : rc'[p] = rc[p] + 0 + (IF ev # None /\ p = q THEN 1 ELSE 0),
         \A x \in Bufs : x # b => rc'[x] = rc[x] /\ maps'[x] = maps[x] /\ lost'[x] = lost[x] /\ mapped'[x] = mapped[x],
         rc'[b] = rc[b] + z, maps'[b] + lost'[b] = maps[b] + lost[b] + z,
         maps'[b] + mapped[b] >= maps[b] + mapped'[b], ~UnmapsEarly /\ MapQueued(b) => mapped'[b] > 0,
         HostFull \/ lost' = lost
  PROVE  References'
<1>1. TypeOK /\ TypeOK'
  BY DEF Control
<1>2. /\ NodesKept /\ OwnKept /\ RelSame /\ ExecSame /\ NoMapAdded /\ ReleasingSame
      /\ Outstanding' = Outstanding
  BY <1>1, QuietWork
<1>3. MemPart /\ KernelsOK /\ QueuesOK /\ EventsKept
  BY ReferencesParts DEF ReferencesIs
<1>4. EventsKept'
  BY <1>2, <1>3, EnqueueEvents
<1>5. KernelsOK'
  <2>1. \A k \in Kernels : ObjectSame(k)
    BY DEF ObjectSame
  <2>2. QED  BY <1>2, <1>3, <2>1, KernelFrame DEF NodesKept
<1>6. QueuesOK'
  <2>1. PICK m \in Nat : m = 0
    OBVIOUS
  <2>2. rc'[q] = rc[q] + m + (IF ev # None THEN 1 ELSE 0) /\ (m = 0 \/ "ndrange" \in Commands)
    BY <2>1
  <2>3. \A p \in Queues : p # q => rc'[p] = rc[p] + 0 + 0 /\ rc[p] \in Int
    BY <1>1, Kinds DEF TypeOK
  <2>4. \A p \in Queues : p # q => rc'[p] = rc[p]
    BY <2>3
  <2>5. \A p \in Queues : st'[p] = st[p] /\ held'[p] = held[p] /\ (p # q => rc'[p] = rc[p] /\ root'[p] = root[p])
    BY <2>4
  <2>6. QED  BY <1>2, <1>3, <2>2, <2>5, EnqueueQueues
<1>7. \A x \in Bufs : /\ Children(x)' = Children(x) /\ CommandRefs(x)' = CommandRefs(x)
                      /\ ReleaseRefs(x)' = ReleaseRefs(x)
  BY <1>2, ChildrenKept, CommandRefsKept, ReleaseRefsKept
<1>8. ASSUME NEW x \in Bufs PROVE MemOK(x)'
  <2>1. MemOK(x) /\ IsFiniteSet(CommandRefs(x)) /\ IsFiniteSet(Children(x)) /\ IsFiniteSet(ReleaseRefs(x))
    BY <1>3 DEF MemPart, MemOK
  <2>2. CASE x = b
    <3>1. maps'[x] + Cardinality(CommandRefs(x)) + lost'[x] = maps[x] + Cardinality(CommandRefs(x)) + lost[x] + z
      <4>1. PICK m, m1, y, l, l1 : /\ m = maps[x] /\ m1 = maps'[x] /\ y = Cardinality(CommandRefs(x))
                                   /\ l = lost[x] /\ l1 = lost'[x]
        OBVIOUS
      <4>2. m \in Nat /\ m1 \in Nat /\ y \in Nat /\ l \in Nat /\ l1 \in Nat
        BY <1>1, <2>1, <4>1, MemNumbers DEF TypeOK
      <4>3. m1 + l1 = m + l + z
        BY <2>2, <4>1
      <4>4. m1 + y + l1 = m + y + l + z
        BY <4>2, <4>3
      <4>5. QED  BY <4>1, <4>4
    <3>2. /\ st'[x] = st[x] /\ held'[x] = held[x] /\ parent'[x] = parent[x] /\ rc'[x] = rc[x] + z
          /\ held[x] # 0
      BY <1>1, <2>2, Kinds DEF TypeOK
    <3>3. NewMemOK(x, Children(x), CommandRefs(x), ReleaseRefs(x))
      BY <1>1, <2>1, <3>1, <3>2, BufferCounts
    <3>4. QED  BY <1>7, <3>3, MemOKIs
  <2>3. CASE x # b
    <3>1. /\ st'[x] = st[x] /\ held'[x] = held[x] /\ parent'[x] = parent[x] /\ rc'[x] = rc[x]
          /\ maps'[x] = maps[x] /\ lost'[x] = lost[x]
      BY <2>3
    <3>2. NewMemOK(x, Children(x), CommandRefs(x), ReleaseRefs(x))
      BY <2>1, <3>1, MemOKIs DEF NewMemOK, MemOK
    <3>3. QED  BY <1>7, <3>2, MemOKIs
  <2>4. QED  BY <2>2, <2>3
<1>9. ParentsOK'
  <2>1. ParentsOK /\ \A x \in Bufs : st'[x] = st[x]
    BY <1>3 DEF MemPart
  <2>2. QED  BY <1>1, <2>1, ParentsKept
<1>10. BufsCounted'
  <2>1. st'[b] = "live" => rc'[b] > 0
    BY <1>1, <1>8, OwnedCounted
  <2>2. QED
    BY <1>3, <2>1 DEF MemPart, BufsCounted
<1>11. NothingLost'
  BY <1>3 DEF MemPart, NothingLost
<1>12. MapsOK'
  <2> SUFFICES ASSUME NEW x \in Bufs
               PROVE  /\ IsFiniteSet(OwnMaps(x)')
                      /\ maps'[x] >= mapped'[x] + Cardinality(OwnMaps(x)')
                      /\ ~UnmapsEarly /\ MapQueued(x)' => mapped'[x] > 0
    BY DEF MapsOK
  <2>1. /\ IsFiniteSet(OwnMaps(x)) /\ maps[x] >= mapped[x] + Cardinality(OwnMaps(x))
        /\ ~UnmapsEarly /\ MapQueued(x) => mapped[x] > 0
        /\ maps[x] \in Nat /\ mapped[x] \in Nat /\ Cardinality(OwnMaps(x)) \in Nat
        /\ maps'[x] \in Nat /\ mapped'[x] \in Nat
    BY <1>1, <1>3, FS_CardinalityType DEF MemPart, MapsOK, TypeOK
  <2>2. MapQueued(x)' => MapQueued(x)
    BY <1>2, MapQueuedKept
  <2>3. OwnMaps(x)' = OwnMaps(x)
    BY <1>2, OwnMapsKept
  <2>4. CASE x # b
    BY <2>1, <2>2, <2>3, <2>4
  <2>5. CASE x = b
    BY <2>1, <2>2, <2>3, <2>5
  <2>6. QED  BY <2>4, <2>5
<1>13. QED
  BY <1>4, <1>5, <1>6, <1>8, <1>9, <1>10, <1>11, <1>12, ReferencesParts DEF ReferencesIs, MemPart

LEMMA UnmapReferences ==
  ASSUME Control, Control', References, NEW t \in Threads, NEW q \in Queues, NEW b \in Bufs,
         NEW ev \in Events \cup {None}, clEnqueueUnmapMemObject(t, q, b, ev)
  PROVE  References'
<1>1. PICK kept : kept = Retained(q, ev, <<>>)
  OBVIOUS
<1>2. /\ (ev # None => st[ev] = "none") /\ held[q] > 0 /\ held[b] > 0
      /\ MakeEvent(q, ev, "complete") /\ maps[b] > 0 /\ mapped[b] > 0 /\ (MapQueued(b) => UnmapsEarly)
      /\ UNCHANGED <<parent, lost, karg, root, pc>>
  BY DEF clEnqueueUnmapMemObject, MayEnqueue, Owns
<1>3. /\ rc' = [kept EXCEPT ![b] = @ - 1]
      /\ maps' = [maps EXCEPT ![b] = @ - 1] /\ mapped' = [mapped EXCEPT ![b] = @ - 1]
  BY <1>1 DEF clEnqueueUnmapMemObject
<1>4. TypeOK /\ TypeOK' /\ rc \in [Objects -> Int] /\ maps \in [Bufs -> Nat] /\ mapped \in [Bufs -> Nat]
  BY DEF Control, TypeOK
<1>5. <<>> \in Seq(Counted)
  OBVIOUS
<1>6. /\ kept \in [Objects -> Int]
      /\ \A e \in Events : kept[e] = IF e = ev THEN rc[e] + 1 ELSE rc[e]
  BY <1>1, <1>5, RetainedEvent
<1>7. \A o \in Objects : kept[o] = rc[o] + 0 + (IF ev # None /\ o \in {ev, q} THEN 1 ELSE 0)
  BY <1>1, TimesNothing DEF Retained
<1>8. rc'[b] = kept[b] - 1 /\ \A o \in Objects : o # b => rc'[o] = kept[o]
  BY <1>3, <1>6, Kinds
<1>9. EventMade(q, ev, "complete", 1)
  <2>1. \A e \in Events : rc'[e] = IF e = ev THEN rc[e] + 1 ELSE rc[e]
    BY <1>6, <1>8, Kinds
  <2>2. rc' \in [Objects -> Int]
    BY <1>4 DEF TypeOK
  <2>3. QED  BY <1>2, <2>1, <2>2, MakeEventEffect DEF Stats
<1>10. \A o \in Bufs \cup Kernels \cup Queues : st'[o] = st[o] /\ held'[o] = held[o]
  <2>1. \A o \in Bufs \cup Kernels \cup Queues : o \in Objects /\ (ev # None => o # ev)
    BY Kinds
  <2>2. QED  BY <1>2, <1>4, <2>1 DEF MakeEvent, TypeOK
<1>11. \A o \in Bufs \cup Kernels : kept[o] = rc[o] /\ rc[o] \in Int
  <2>1. \A o \in Bufs \cup Kernels : o \in Objects /\ o # q /\ (ev # None => o # ev)
    BY Kinds
  <2>2. \A o \in Bufs \cup Kernels : kept[o] = rc[o] + 0 + 0 /\ rc[o] \in Int
    BY <1>4, <1>7, <2>1
  <2>3. QED  BY <2>2
<1>12. \A k \in Kernels : rc'[k] = rc[k]
  BY <1>8, <1>11, Kinds
<1>13. \A p \in Queues : rc'[p] = rc[p] + 0 + (IF ev # None /\ p = q THEN 1 ELSE 0)
  <2>1. \A p \in Queues : p \in Objects /\ p # b /\ (ev # None => p # ev)
    BY Kinds
  <2>2. QED  BY <1>7, <1>8, <2>1
<1>14. \A x \in Bufs : x # b => rc'[x] = rc[x] /\ maps'[x] = maps[x] /\ lost'[x] = lost[x] /\ mapped'[x] = mapped[x]
  BY <1>2, <1>3, <1>4, <1>8, <1>11, Kinds
<1>15. rc'[b] = rc[b] - 1 /\ maps'[b] = maps[b] - 1 /\ mapped'[b] = mapped[b] - 1 /\ lost'[b] = lost[b]
  BY <1>2, <1>3, <1>4, <1>8, <1>11
<1>16. PICK z \in Int : z = -1
  OBVIOUS
<1>17. /\ rc'[b] = rc[b] + z /\ maps'[b] + lost'[b] = maps[b] + lost[b] + z
       /\ maps'[b] + mapped[b] >= maps[b] + mapped'[b]
  <2>1. rc[b] \in Int /\ maps[b] \in Nat /\ mapped[b] \in Nat /\ lost[b] \in Nat
    BY <1>4, Kinds DEF TypeOK
  <2>2. QED  BY <1>15, <1>16, <2>1
<1>18. (~UnmapsEarly /\ MapQueued(b) => mapped'[b] > 0) /\ lost' = lost /\ pc' = pc /\ root' = root /\ parent' = parent
       /\ held[q] > 0 /\ held[b] > 0
  BY <1>2
<1>19. QED
  BY <1>9, <1>10, <1>12, <1>13, <1>14, <1>17, <1>18, ImmediateReferences

LEMMA EventNotAllocatedReferences ==
  ASSUME Control, Control', References, NEW t \in Threads, NEW q \in Queues, NEW b \in Bufs, EventNotAllocated(t, q, b)
  PROVE  References'
<1>1. /\ HostFull /\ held[q] > 0 /\ held[b] > 0 /\ rc' = [rc EXCEPT ![b] = @ + 1] /\ lost' = [lost EXCEPT ![b] = @ + 1]
      /\ UNCHANGED <<st, parent, maps, karg, queue, status, root, pc, held, mapped>>
  BY DEF EventNotAllocated, MayEnqueue, Owns
<1>2. /\ TypeOK /\ rc \in [Objects -> Int] /\ lost \in [Bufs -> Nat] /\ maps \in [Bufs -> Nat] /\ mapped \in [Bufs -> Nat]
  BY DEF Control, TypeOK
<1>3. /\ rc'[b] = rc[b] + 1 /\ lost'[b] = lost[b] + 1 /\ (\A o \in Objects : o # b => rc'[o] = rc[o])
      /\ \A x \in Bufs : x # b => lost'[x] = lost[x]
  BY <1>1, <1>2, Kinds
<1>4. \A o \in Kernels \cup Queues \cup Events : rc'[o] = rc[o] /\ rc[o] \in Int
  BY <1>2, <1>3, Kinds
<1>5. EventMade(q, None, "queued", 0)
  BY <1>1, <1>4 DEF EventMade, EventSame
<1>6. \A p \in Queues : rc'[p] = rc[p] + 0 + (IF None # None /\ p = q THEN 1 ELSE 0)
  BY <1>4
<1>7. \A x \in Bufs : x # b => rc'[x] = rc[x] /\ maps'[x] = maps[x] /\ lost'[x] = lost[x] /\ mapped'[x] = mapped[x]
  BY <1>1, <1>3, Kinds
<1>8. /\ maps'[b] + lost'[b] = maps[b] + lost[b] + 1 /\ maps'[b] + mapped[b] >= maps[b] + mapped'[b]
      /\ (~UnmapsEarly /\ MapQueued(b) => mapped'[b] > 0)
  <2>1. maps'[b] = maps[b] /\ mapped'[b] = mapped[b] /\ maps[b] \in Nat /\ mapped[b] \in Nat /\ lost[b] \in Nat
    BY <1>1, <1>2
  <2>2. ~UnmapsEarly /\ MapQueued(b) => mapped[b] > 0
    BY DEF References, MapsOK
  <2>3. QED  BY <1>3, <2>1, <2>2
<1>9. /\ pc' = pc /\ root' = root /\ parent' = parent /\ HostFull /\ held[q] > 0 /\ held[b] > 0 /\ 1 \in Int
      /\ (\A k \in Kernels : rc'[k] = rc[k]) /\ rc'[b] = rc[b] + 1
      /\ \A o \in Bufs \cup Kernels \cup Queues : st'[o] = st[o] /\ held'[o] = held[o]
  BY <1>1, <1>3, <1>4
<1>10. PICK ev \in Events \cup {None} : ev = None
  OBVIOUS
<1>11. EventMade(q, ev, "queued", 0) /\ \A p \in Queues : rc'[p] = rc[p] + 0 + (IF ev # None /\ p = q THEN 1 ELSE 0)
  BY <1>5, <1>6, <1>10
<1>12. QED
  BY <1>7, <1>8, <1>9, <1>11, ImmediateReferences

LEMMA NodeNotAllocatedReferences ==
  ASSUME Control, Control', References, NEW t \in Threads, NEW q \in Queues, NEW type \in Queued, NEW b \in Bufs,
         NEW ev \in Events \cup {None}, NodeNotAllocated(t, q, type, b, ev)
  PROVE  References'
<1>1. PICK refs : refs = IF type = "map" THEN <<b>> ELSE <<>>
  OBVIOUS
<1>2. /\ HostFull /\ held[q] > 0 /\ held[b] > 0 /\ (ev # None => st[ev] = "none")
      /\ st' = IF ev = None THEN st ELSE [st EXCEPT ![ev] = "live"]
      /\ queue' = IF ev = None THEN queue ELSE [queue EXCEPT ![ev] = q]
      /\ status' = IF ev = None THEN status ELSE [status EXCEPT ![ev] = "queued"]
      /\ rc' = Retained(q, ev, refs)
      /\ \/ maps' = (IF type = "map" THEN [maps EXCEPT ![b] = @ + 1] ELSE maps) /\ lost' = lost
         \/ type = "map" /\ lost' = [lost EXCEPT ![b] = @ + 1] /\ maps' = maps
      /\ UNCHANGED <<parent, karg, root, pc, held, mapped>>
  BY <1>1 DEF NodeNotAllocated, MayEnqueue, Owns
<1>3. /\ TypeOK /\ TypeOK' /\ rc \in [Objects -> Int] /\ maps \in [Bufs -> Nat] /\ mapped \in [Bufs -> Nat]
      /\ lost \in [Bufs -> Nat]
  BY DEF Control, TypeOK
<1>4. refs \in Seq(Counted)
  BY <1>1, Lists
<1>5. PICK z \in {0, 1} : z = IF type = "map" THEN 1 ELSE 0
  OBVIOUS
<1>6. \A o : Times(refs, o) = IF o = b THEN z ELSE 0
  <2>1. \A o : Times(<<b>>, o) = One(b, o) /\ Times(<<>>, o) = 0
    BY TimesOne, TimesNothing
  <2>2. QED  BY <1>1, <1>5, <2>1 DEF One
<1>7. /\ \A o \in Bufs \cup Kernels : rc'[o] = rc[o] + Times(refs, o) + 0
      /\ \A p \in Queues : rc'[p] = rc[p] + Times(refs, p) + (IF ev # None /\ p = q THEN 1 ELSE 0)
  <2>1. TypeOK /\ rc' = Retained(q, ev, refs)
    BY <1>2, <1>3
  <2>2. QED  BY <2>1, RetainedCounts
<1>8. EventMade(q, ev, "queued", 0)
  <2>1. \A e \in Events : rc'[e] = IF e = ev THEN rc[e] + 1 ELSE rc[e]
    BY <1>2, <1>4, RetainedEvent
  <2>2. \A e \in Events : e # ev => EventSame(e)
    BY <1>2, <1>3, <2>1, Kinds DEF EventSame, TypeOK
  <2>3. ASSUME ev # None
        PROVE  /\ st[ev] = "none" /\ st'[ev] = "live" /\ held'[ev] = 0 /\ rc'[ev] = 1
               /\ queue'[ev] = q /\ status'[ev] = "queued"
    <3>1. ev \in Events /\ ev \in Objects /\ held[ev] = 0 /\ rc[ev] = 0
      BY <1>2, <2>3, Kinds DEF Control, EventsOK
    <3>2. /\ st' = [st EXCEPT ![ev] = "live"] /\ queue' = [queue EXCEPT ![ev] = q]
          /\ status' = [status EXCEPT ![ev] = "queued"] /\ held' = held
          /\ st[ev] = "none" /\ rc'[ev] = 1
      BY <1>2, <2>1, <2>3, <3>1
    <3>3. QED
      BY <1>3, <3>1, <3>2 DEF TypeOK
  <2>4. QED  BY <2>2, <2>3 DEF EventMade
<1>9. \A o \in Bufs \cup Kernels \cup Queues : st'[o] = st[o] /\ held'[o] = held[o]
  <2>1. \A o \in Bufs \cup Kernels \cup Queues : o \in Objects /\ (ev # None => o # ev)
    BY Kinds
  <2>2. QED  BY <1>2, <1>3, <2>1 DEF TypeOK
<1>10. \A k \in Kernels : rc'[k] = rc[k]
  <2>1. \A k \in Kernels : rc'[k] = rc[k] + 0 + 0 /\ rc[k] \in Int
    BY <1>3, <1>6, <1>7, Kinds
  <2>2. QED  BY <2>1
<1>11. \A p \in Queues : rc'[p] = rc[p] + 0 + (IF ev # None /\ p = q THEN 1 ELSE 0)
  BY <1>6, <1>7, Kinds
<1>12. /\ maps'[b] + lost'[b] = maps[b] + lost[b] + z /\ maps'[b] >= maps[b] /\ maps'[b] \in Nat
       /\ mapped' = mapped /\ z \in Int
       /\ \A x \in Bufs : x # b => maps'[x] = maps[x] /\ lost'[x] = lost[x]
  <2>1. CASE maps' = (IF type = "map" THEN [maps EXCEPT ![b] = @ + 1] ELSE maps) /\ lost' = lost
    BY <1>2, <1>3, <1>5, <2>1
  <2>2. CASE type = "map" /\ lost' = [lost EXCEPT ![b] = @ + 1] /\ maps' = maps
    BY <1>2, <1>3, <1>5, <2>2
  <2>3. QED  BY <1>2, <2>1, <2>2
<1>13. rc'[b] = rc[b] + z /\ \A x \in Bufs : x # b => rc'[x] = rc[x]
  <2>1. \A x \in Bufs : rc[x] \in Int /\ rc'[x] = rc[x] + Times(refs, x) + 0
    BY <1>3, <1>7, Kinds
  <2>2. rc[b] \in Int /\ rc'[b] = rc[b] + z + 0
    BY <1>6, <2>1
  <2>3. \A x \in Bufs : x # b => rc[x] \in Int /\ rc'[x] = rc[x] + 0 + 0
    BY <1>6, <2>1
  <2>4. QED  BY <1>5, <2>2, <2>3
<1>14. /\ maps'[b] + lost'[b] = maps[b] + lost[b] + z /\ maps'[b] + mapped[b] >= maps[b] + mapped'[b]
       /\ (~UnmapsEarly /\ MapQueued(b) => mapped'[b] > 0)
  <2>1. maps[b] \in Nat /\ mapped[b] \in Nat /\ lost[b] \in Nat
    BY <1>3 DEF TypeOK
  <2>2. ~UnmapsEarly /\ MapQueued(b) => mapped[b] > 0
    BY DEF References, MapsOK
  <2>3. QED  BY <1>5, <1>12, <2>1, <2>2
<1>15. \A x \in Bufs : x # b => rc'[x] = rc[x] /\ maps'[x] = maps[x] /\ lost'[x] = lost[x] /\ mapped'[x] = mapped[x]
  BY <1>12, <1>13
<1>16. pc' = pc /\ root' = root /\ parent' = parent /\ HostFull /\ held[q] > 0 /\ held[b] > 0
  BY <1>2
<1>17. rc'[b] = rc[b] + z /\ z \in Int
  BY <1>12, <1>13
<1>18. QED
  BY <1>8, <1>9, <1>10, <1>11, <1>14, <1>15, <1>16, <1>17, ImmediateReferences
-----------------------------------------------------------------------------
(* References: the clEnqueue calls.                                        *)

\* A list of buffers that the client owns holds no other.
LEMMA OwnedTimes ==
  ASSUME NEW bufs \in Seq(Bufs), \A j \in DOMAIN bufs : held[bufs[j]] > 0
  PROVE  \A b \in Bufs : held[b] = 0 => Times(bufs, b) = 0
<1> SUFFICES ASSUME NEW b \in Bufs, held[b] = 0 PROVE Times(bufs, b) = 0
  OBVIOUS
<1>1. {i \in DOMAIN bufs : bufs[i] = b} = {}
  <2>1. ~(0 > 0)
    OBVIOUS
  <2>2. QED  BY <2>1
<1>2. QED  BY <1>1, FS_EmptySet DEF Times

LEMMA AppendPlainReferences ==
  ASSUME Control, Control', References, NEW t \in Threads, NEW q \in Queues, NEW type \in Types, type # "map",
         NEW bufs \in Seq(Bufs), NEW ev \in Events \cup {None}, Len(bufs) <= 2,
         \A j \in DOMAIN bufs : held[bufs[j]] > 0, AppendNode(t, q, type, bufs, None, ev, bufs), UNCHANGED <<maps, mapped>>
  PROVE  References'
<1>1. bufs \in Seq(Counted) /\ None \in Kernels \cup {None}
  BY DEF Counted
<1>2. \A b \in Bufs : held[b] = 0 => Times(bufs, b) = 0
  BY OwnedTimes
<1>3. (\A x \in Kernels : Times(bufs, x) = One(None, x)) /\ (\A p \in Queues : Times(bufs, p) = 0)
  <2>1. \A x \in Kernels \cup Queues : x \notin Bufs /\ x # None
    BY Kinds
  <2>2. \A x \in Kernels \cup Queues : Times(bufs, x) = 0
    BY <2>1, TimesOther
  <2>3. QED  BY <2>1, <2>2 DEF One
<1>4. \A b \in Bufs : /\ maps'[b] + Times(IF type = "map" THEN <<>> ELSE bufs, b) = maps[b] + Times(bufs, b)
                      /\ held[b] = 0 => Times(bufs, b) = 0 /\ maps'[b] = maps[b]
                      /\ \/ maps'[b] = maps[b] /\ mapped'[b] = mapped[b] /\ ~(type = "map" /\ b \in Range(bufs))
                         \/ maps'[b] = maps[b] + 1 /\ mapped'[b] = mapped[b] + 1
  BY <1>2
<1>5. PICK k \in Kernels \cup {None}, refs \in Seq(Counted) : k = None /\ refs = bufs
  BY <1>1
<1>6. /\ AppendNode(t, q, type, bufs, k, ev, refs)
      /\ \A x \in Kernels : Times(refs, x) = One(k, x)
      /\ \A p \in Queues : p # q => Times(refs, p) = 0
      /\ Times(refs, q) = 0 \/ "ndrange" \in Commands
      /\ k # None => held[k] > 0
  BY <1>3, <1>5
<1>7. \A b \in Bufs : /\ maps'[b] + Times(IF type = "map" THEN <<>> ELSE bufs, b) = maps[b] + Times(refs, b)
                      /\ held[b] = 0 => Times(refs, b) = 0 /\ maps'[b] = maps[b]
                      /\ \/ maps'[b] = maps[b] /\ mapped'[b] = mapped[b] /\ ~(type = "map" /\ b \in Range(bufs))
                         \/ maps'[b] = maps[b] + 1 /\ mapped'[b] = mapped[b] + 1
  BY <1>4, <1>5
<1>8. QED
  BY <1>6, <1>7, AppendReferences

LEMMA DirectPlainReferences ==
  ASSUME Control, Control', References, NEW t \in Threads, NEW q \in Queues, NEW type \in Types, type # "map",
         NEW bufs \in Seq(Bufs), NEW ev \in Events \cup {None}, Len(bufs) <= 2,
         ExecuteDirectly(t, q, type, bufs, ev), UNCHANGED <<maps, mapped>>
  PROVE  References'
<1>1. \A j \in DOMAIN bufs : held[bufs[j]] > 0
  BY DEF ExecuteDirectly, Owns
<1>2. \A b \in Bufs : held[b] = 0 => Times(bufs, b) = 0
  BY <1>1, OwnedTimes
<1>3. \A b \in Bufs : /\ maps'[b] + Times(IF type = "map" THEN <<>> ELSE bufs, b) = maps[b] + Times(bufs, b)
                      /\ held[b] = 0 => Times(bufs, b) = 0 /\ maps'[b] = maps[b]
                      /\ maps'[b] = IF type = "map" /\ bufs[1] = b THEN maps[b] + 1 ELSE maps[b]
  BY <1>2
<1>4. QED
  BY <1>3, DirectReferences

\* The node of a launch refers to the kernel, its argument and the queue.
LEMMA NDRangeReferences ==
  ASSUME Control, Control', References, NEW t \in Threads, NEW q \in Queues, NEW k \in Kernels,
         NEW ev \in Events \cup {None}, clEnqueueNDRangeKernel(t, q, k, ev)
  PROVE  References'
<1>1. PICK bufs : bufs = IF karg[k] = None THEN <<>> ELSE <<karg[k]>>
  OBVIOUS
<1>2. PICK refs : refs = bufs \o <<k, q>>
  OBVIOUS
<1>3. karg[k] \in Bufs \cup {None} /\ TypeOK
  BY DEF Control, TypeOK
<1>4. /\ held[k] > 0 /\ (karg[k] # None => held[karg[k]] > 0) /\ AppendNode(t, q, "ndrange", bufs, k, ev, refs)
      /\ UNCHANGED <<maps, mapped>>
  BY <1>1, <1>2 DEF clEnqueueNDRangeKernel, Owns
<1>5. "ndrange" \in Commands /\ "ndrange" \in Types /\ "ndrange" # "map"
  BY <1>4 DEF AppendNode, MayEnqueue, Types, Queued
<1>6. bufs \in Seq(Bufs) /\ Len(bufs) <= 2 /\ refs \in Seq(Counted)
  BY <1>1, <1>2, <1>3, Lists
<1>7. k # q /\ \A b \in Bufs : b # k /\ b # q
  BY Kinds
<1>8. \A o : Times(refs, o) = Times(bufs, o) + (One(k, o) + One(q, o))
  <2>1. \A o : One(k, o) \in Nat /\ One(q, o) \in Nat
    BY DEF One
  <2>2. CASE karg[k] = None
    <3>1. bufs = <<>> /\ refs = <<k, q>>
      BY <1>1, <1>2, <2>2
    <3>2. \A o : Times(refs, o) = One(k, o) + One(q, o) /\ Times(bufs, o) = 0
      BY <3>1, TimesTwo, TimesNothing
    <3>3. QED  BY <2>1, <3>2
  <2>3. ASSUME NEW a \in Bufs, a = karg[k], karg[k] # None
        PROVE  \A o : Times(refs, o) = Times(bufs, o) + (One(k, o) + One(q, o))
    <3>1. bufs = <<a>> /\ refs = <<a>> \o <<k, q>>
      BY <1>1, <1>2, <2>3
    <3>2. refs = <<a, k, q>>
      <4>1. <<a>> \in Seq({a, k, q}) /\ <<k, q>> \in Seq({a, k, q}) /\ <<a, k, q>> \in Seq({a, k, q})
        OBVIOUS
      <4>2. Len(refs) = 3 /\ refs[1] = a /\ refs[2] = k /\ refs[3] = q /\ refs \in Seq({a, k, q})
        BY <3>1, <4>1
      <4>3. QED  BY <4>1, <4>2
    <3>3. a # k /\ a # q /\ k # q
      BY <1>7
    <3>4. \A o : Times(refs, o) = One(a, o) + One(k, o) + One(q, o) /\ Times(bufs, o) = One(a, o)
      <4>1. \A o : Times(<<a, k, q>>, o) = One(a, o) + One(k, o) + One(q, o)
        BY <3>3, TimesThree
      <4>2. \A o : Times(bufs, o) = One(a, o)
        BY <3>1, TimesOne
      <4>3. QED  BY <3>2, <4>1, <4>2
    <3>5. \A o : One(a, o) \in Nat
      BY DEF One
    <3>6. QED  BY <2>1, <3>4, <3>5
  <2>4. QED  BY <1>3, <2>2, <2>3
<1>9. \A b \in Bufs : Times(refs, b) = Times(bufs, b)
  <2>1. \A b \in Bufs : One(k, b) = 0 /\ One(q, b) = 0 /\ Times(bufs, b) \in Nat
    BY <1>6, <1>7, TimesNat DEF One
  <2>2. QED  BY <1>8, <2>1
<1>10. \A x \in Kernels \cup Queues : Times(bufs, x) = 0
  <2>1. \A x \in Kernels \cup Queues : x \notin Bufs
    BY Kinds
  <2>2. QED  BY <1>6, <2>1, TimesOther
<1>11. \A x \in Kernels : Times(refs, x) = One(k, x)
  <2>1. \A x \in Kernels : One(q, x) = 0 /\ One(k, x) \in Nat
    BY Kinds DEF One
  <2>2. QED  BY <1>8, <1>10, <2>1
<1>12. \A p \in Queues : p # q => Times(refs, p) = 0
  <2>1. \A p \in Queues : p # q => One(q, p) = 0 /\ One(k, p) = 0
    BY Kinds DEF One
  <2>2. QED  BY <1>8, <1>10, <2>1
<1>13. \A b \in Bufs : held[b] = 0 => Times(bufs, b) = 0
  <2>1. \A j \in DOMAIN bufs : held[bufs[j]] > 0
    BY <1>1, <1>4
  <2>2. QED  BY <1>6, <2>1, OwnedTimes
<1>14. \A b \in Bufs : /\ maps'[b] + Times(IF "ndrange" = "map" THEN <<>> ELSE bufs, b) = maps[b] + Times(refs, b)
                       /\ held[b] = 0 => Times(refs, b) = 0 /\ maps'[b] = maps[b]
                       /\ \/ maps'[b] = maps[b] /\ mapped'[b] = mapped[b] /\ ~("ndrange" = "map" /\ b \in Range(bufs))
                          \/ maps'[b] = maps[b] + 1 /\ mapped'[b] = mapped[b] + 1
  BY <1>4, <1>5, <1>9, <1>13
<1>15. PICK type \in Types : type = "ndrange"
  BY <1>5
<1>16. \A b \in Bufs : /\ maps'[b] + Times(IF type = "map" THEN <<>> ELSE bufs, b) = maps[b] + Times(refs, b)
                       /\ held[b] = 0 => Times(refs, b) = 0 /\ maps'[b] = maps[b]
                       /\ \/ maps'[b] = maps[b] /\ mapped'[b] = mapped[b] /\ ~(type = "map" /\ b \in Range(bufs))
                          \/ maps'[b] = maps[b] + 1 /\ mapped'[b] = mapped[b] + 1
  BY <1>14, <1>15
<1>17. AppendNode(t, q, type, bufs, k, ev, refs) /\ k \in Kernels \cup {None} /\ held[k] > 0
  BY <1>4, <1>15
<1>18. QED
  BY SMTT(60), <1>5, <1>6, <1>11, <1>12, <1>16, <1>17, AppendReferences

\* A map retains its buffer until the client unmaps it.
LEMMA MapReferences ==
  ASSUME Control, Control', References, NEW t \in Threads, NEW q \in Queues, NEW b \in Bufs,
         NEW ev \in Events \cup {None}, clEnqueueMapBuffer(t, q, b, ev)
  PROVE  References'
<1>1. /\ held[b] > 0 /\ maps' = [maps EXCEPT ![b] = @ + 1] /\ maps \in [Bufs -> Nat] /\ mapped \in [Bufs -> Nat]
  BY DEF clEnqueueMapBuffer, Owns, Control, TypeOK
<1>2. PICK type \in Types : type = "map"
  BY DEF Types, Queued
<1>3. PICK bufs \in Seq(Bufs) : bufs = <<b>>
  BY Lists
<1>4. bufs[1] = b /\ Range(bufs) = {b} /\ Len(bufs) <= 2 /\ bufs \in Seq(Counted)
  BY <1>3, Lists DEF Range
<1>5. /\ \A x : Times(<<>>, x) = 0 /\ Times(bufs, x) = One(b, x)
      /\ \A x : x # b => One(b, x) = 0
      /\ One(b, b) = 1
  BY <1>3, TimesNothing, TimesOne DEF One
<1>6. maps'[b] = maps[b] + 1 /\ \A x \in Bufs : maps[x] \in Nat /\ mapped[x] \in Nat /\ (x # b => maps'[x] = maps[x])
  BY <1>1
<1>7. \A x \in Bufs : /\ maps'[x] + Times(IF type = "map" THEN <<>> ELSE bufs, x) = maps[x] + Times(bufs, x)
                      /\ held[x] = 0 => Times(bufs, x) = 0 /\ maps'[x] = maps[x]
  <2>1. \A x \in Bufs : Times(IF type = "map" THEN <<>> ELSE bufs, x) = 0
    BY <1>2, <1>5
  <2>2. held[b] # 0
    BY <1>1
  <2>3. \A x \in Bufs : x # b => maps'[x] + 0 = maps[x] + 0
    BY <1>6
  <2>4. maps'[b] + 0 = maps[b] + 1
    BY <1>6
  <2>5. QED  BY <1>5, <1>6, <2>1, <2>2, <2>3, <2>4
<1>8. CASE AppendNode(t, q, "map", <<b>>, None, ev, <<b>>) /\ mapped' = [mapped EXCEPT ![b] = @ + 1]
  <2>1. mapped'[b] = mapped[b] + 1 /\ \A x \in Bufs : x # b => mapped'[x] = mapped[x]
    BY <1>1, <1>8
  <2>2. AppendNode(t, q, type, bufs, None, ev, bufs) /\ None \in Kernels \cup {None}
    BY <1>2, <1>3, <1>8
  <2>3. \A x \in Bufs : /\ maps'[x] + Times(IF type = "map" THEN <<>> ELSE bufs, x) = maps[x] + Times(bufs, x)
                        /\ held[x] = 0 => Times(bufs, x) = 0 /\ maps'[x] = maps[x]
                        /\ \/ maps'[x] = maps[x] /\ mapped'[x] = mapped[x] /\ ~(type = "map" /\ x \in Range(bufs))
                           \/ maps'[x] = maps[x] + 1 /\ mapped'[x] = mapped[x] + 1
    BY <1>4, <1>6, <1>7, <2>1
  <2>4. (\A x \in Kernels : Times(bufs, x) = One(None, x)) /\ (\A p \in Queues : Times(bufs, p) = 0)
    BY <1>5, Kinds DEF One
  <2>5. QED
    BY <1>4, <2>2, <2>3, <2>4, AppendReferences
<1>9. CASE ExecuteDirectly(t, q, "map", <<b>>, ev) /\ UNCHANGED mapped
  <2>1. ExecuteDirectly(t, q, type, bufs, ev) /\ mapped' = mapped /\ Len(bufs) <= 2
    BY <1>2, <1>3, <1>4, <1>9
  <2>2. \A x \in Bufs : /\ maps'[x] + Times(IF type = "map" THEN <<>> ELSE bufs, x) = maps[x] + Times(bufs, x)
                        /\ held[x] = 0 => Times(bufs, x) = 0 /\ maps'[x] = maps[x]
                        /\ maps'[x] = IF type = "map" /\ bufs[1] = x THEN maps[x] + 1 ELSE maps[x]
    BY <1>2, <1>4, <1>6, <1>7
  <2>3. QED
    BY <2>1, <2>2, DirectReferences
<1>10. QED  BY <1>8, <1>9 DEF clEnqueueMapBuffer

LEMMA EnqueueReferences ==
  ASSUME Control, Control', References, NEW t \in Threads, NEW q \in Queues, NEW ev \in Events \cup {None},
         Enqueue(t, q, ev)
  PROVE  References'
<1>1. /\ \A type \in {"read", "write", "copy", "marker", "fill", "read_rect", "write_rect", "copy_rect"} :
           type \in Types /\ type # "map"
  BY DEF Types, Queued, Direct
<1>2. CASE clEnqueueMarker(t, q, ev)
  <2>1. PICK bufs \in Seq(Bufs) : bufs = <<>>
    BY Lists
  <2>2. AppendNode(t, q, "marker", bufs, None, ev, bufs) /\ UNCHANGED <<maps, mapped>>
    BY <1>2, <2>1 DEF clEnqueueMarker
  <2>3. Len(bufs) <= 2 /\ \A j \in DOMAIN bufs : held[bufs[j]] > 0
    BY <2>1
  <2>4. QED
    BY <1>1, <2>2, <2>3, AppendPlainReferences
<1>3. ASSUME NEW b \in Bufs, \/ clEnqueueReadBuffer(t, q, b, ev) \/ clEnqueueWriteBuffer(t, q, b, ev)
      PROVE  References'
  <2>1. PICK bufs \in Seq(Bufs) : bufs = <<b>>
    BY Lists
  <2>2. PICK type \in {"read", "write"} :
          /\ \/ AppendNode(t, q, type, bufs, None, ev, bufs)
             \/ ExecuteDirectly(t, q, type, bufs, ev)
          /\ UNCHANGED <<maps, mapped>>
    BY <1>3, <2>1 DEF clEnqueueReadBuffer, clEnqueueWriteBuffer
  <2>3. type \in Types /\ type # "map" /\ Len(bufs) <= 2
    BY <1>1, <2>1
  <2>4. held[b] > 0
    BY <1>3 DEF clEnqueueReadBuffer, clEnqueueWriteBuffer, Owns
  <2>5. \A j \in DOMAIN bufs : held[bufs[j]] > 0
    BY <2>1, <2>4
  <2>6. CASE AppendNode(t, q, type, bufs, None, ev, bufs)
    BY <2>2, <2>3, <2>5, <2>6, AppendPlainReferences
  <2>7. CASE ExecuteDirectly(t, q, type, bufs, ev)
    BY <2>2, <2>3, <2>7, DirectPlainReferences
  <2>8. QED  BY <2>2, <2>6, <2>7
<1>4. ASSUME NEW b \in Bufs, \/ clEnqueueFillBuffer(t, q, b, ev) \/ clEnqueueReadBufferRect(t, q, b, ev)
                             \/ ev = None /\ clEnqueueWriteBufferRect(t, q, b)
      PROVE  References'
  <2>1. PICK bufs \in Seq(Bufs) : bufs = <<b>>
    BY Lists
  <2>2. PICK type \in {"fill", "read_rect", "write_rect"} :
          ExecuteDirectly(t, q, type, bufs, ev) /\ UNCHANGED <<maps, mapped>>
    BY <1>4, <2>1 DEF clEnqueueFillBuffer, clEnqueueReadBufferRect, clEnqueueWriteBufferRect
  <2>3. type \in Types /\ type # "map" /\ Len(bufs) <= 2
    BY <1>1, <2>1
  <2>4. QED
    BY <2>2, <2>3, DirectPlainReferences
<1>5. ASSUME NEW b \in Bufs, NEW dst \in Bufs, clEnqueueCopyBuffer(t, q, b, dst, ev) PROVE References'
  <2>1. PICK bufs \in Seq(Bufs) : bufs = <<b, dst>>
    BY Lists
  <2>2. AppendNode(t, q, "copy", bufs, None, ev, bufs) /\ UNCHANGED <<maps, mapped>> /\ held[b] > 0 /\ held[dst] > 0
    BY <1>5, <2>1 DEF clEnqueueCopyBuffer, Owns
  <2>3. Len(bufs) <= 2 /\ \A j \in DOMAIN bufs : held[bufs[j]] > 0
    BY <2>1, <2>2
  <2>4. QED
    BY <1>1, <2>2, <2>3, AppendPlainReferences
<1>6. ASSUME NEW b \in Bufs, NEW dst \in Bufs, clEnqueueCopyBufferRect(t, q, b, dst, ev) PROVE References'
  <2>1. PICK bufs \in Seq(Bufs) : bufs = <<b, dst>>
    BY Lists
  <2>2. ExecuteDirectly(t, q, "copy_rect", bufs, ev) /\ UNCHANGED <<maps, mapped>> /\ Len(bufs) <= 2
    BY <1>6, <2>1 DEF clEnqueueCopyBufferRect
  <2>3. QED
    BY <1>1, <2>2, DirectPlainReferences
<1>7. QED
  BY <1>2, <1>3, <1>4, <1>5, <1>6, NDRangeReferences, MapReferences, UnmapReferences, EventNotAllocatedReferences,
     NodeNotAllocatedReferences DEF Enqueue
-----------------------------------------------------------------------------
(* References: the invariant.                                              *)

LEMMA NextReferences ==
  ASSUME Control, Control', References, [Next]_vars
  PROVE  References'
<1>1. CASE UNCHANGED vars
  <2>1. TypeOK /\ TypeOK' /\ pc' = pc /\ root' = root
        /\ UNCHANGED <<st, rc, parent, maps, queue, held, mapped, lost>>
    BY <1>1 DEF Control, vars
  <2>2. NodesKept /\ OwnKept /\ RelSame /\ ExecSame /\ NoMapAdded /\ ReleasingSame
    BY <2>1, QuietWork
  <2>3. QED
    BY <2>1, <2>2, StillReferences
<1>2. ASSUME NEW t \in Threads, Run(t) PROVE References'
  BY <1>2, ExecutingReferences, MarkCompleteReferences, ReleaseBufferReferences, NextCommandReferences,
     FinishReturnReferences, FinishExecReferences, FinishReleaseReferences, FinishWaitReferences DEF Run
<1>3. ASSUME NEW t \in Threads, Request(t) PROVE References'
  <2>1. ASSUME NEW e \in Events, clWaitForEvents(t, <<e>>) PROVE References'
    <3>1. <<e>> \in Seq(Events) /\ <<e>> # <<>>
      OBVIOUS
    <3>2. QED  BY <2>1, <3>1, WaitForEventsReferences
  <2>2. ASSUME NEW e \in Events, NEW f \in Events, clWaitForEvents(t, <<e, f>>) PROVE References'
    <3>1. <<e, f>> \in Seq(Events) /\ <<e, f>> # <<>>
      OBVIOUS
    <3>2. QED  BY <2>2, <3>1, WaitForEventsReferences
  <2>3. QED
    BY <1>3, <2>1, <2>2, CreateBufferReferences, ReleaseMemObjectReferences, CreateSubBufferReferences,
       ReleaseKernelReferences, SetKernelArgReferences, RetainReferences, FinishReferences,
       ReleaseCommandQueueReferences, EnqueueReferences, ReleaseEventReferences DEF Request, clFlush
<1>4. QED
  BY <1>1, <1>2, <1>3 DEF Next

LEMMA InitReferences == Init => References
<1> SUFFICES ASSUME Init PROVE References
  OBVIOUS
<1>1. \A t \in Threads : pc[t].op = "idle" /\ pc[t].q = None /\ pc[t].rel = <<>>
  BY NoCallType DEF Init
<1>2. \A q \in Queues : root[q] = <<>>
  BY DEF Init
<1>3. /\ \A b \in Bufs : /\ st[b] = "none" /\ held[b] = 0 /\ rc[b] = 0 /\ maps[b] = 0 /\ mapped[b] = 0
                         /\ lost[b] = 0 /\ parent[b] = None
      /\ \A e \in Events : st[e] = "none"
      /\ \A o \in Queues \cup Kernels : st[o] = "live" /\ held[o] = 1 /\ rc[o] = 1
  BY Kinds, HandlesAssumption DEF Init, Objects
<1>4. Outstanding = {}
  <2>1. \A q \in Queues : Pending(q) = {}
    BY <1>2 DEF Pending
  <2>2. \A t \in Threads : ~OwnPending(t)
    BY <1>1 DEF OwnPending
  <2>3. QED  BY <2>1, <2>2 DEF Outstanding
<1>5. /\ \A b : CommandRefs(b) = {} /\ ReleaseRefs(b) = {} /\ OwnMaps(b) = {} /\ ~MapQueued(b) /\ Children(b) = {}
      /\ \A k : LaunchRefs(k) = {}
      /\ \A q \in Queues : EventsOf(q) = {} /\ Releasing(q) = {}
  <2>1. ASSUME NEW b PROVE CommandRefs(b) = {}
    BY <1>4 DEF CommandRefs
  <2>2. ASSUME NEW b PROVE ReleaseRefs(b) = {}
    BY <1>1 DEF ReleaseRefs
  <2>3. ASSUME NEW b PROVE OwnMaps(b) = {} /\ ~MapQueued(b) /\ Children(b) = {}
    BY <1>1, <1>2, <1>3 DEF OwnMaps, MapQueued, Children
  <2>4. ASSUME NEW k PROVE LaunchRefs(k) = {}
    BY <1>2 DEF LaunchRefs
  <2>5. ASSUME NEW q \in Queues PROVE EventsOf(q) = {} /\ Releasing(q) = {}
    BY <1>1, <1>3 DEF EventsOf, Releasing
  <2>6. QED  BY <2>1, <2>2, <2>3, <2>4, <2>5
<1>6. IsFiniteSet({}) /\ Cardinality({}) = 0
  BY FS_EmptySet
<1>7. ASSUME NEW b \in Bufs PROVE MemOK(b)
  <2>1. MemHolders(b) = 0
    <3>1. MemHolders(b) = 0 + 0 + 0 + 0 + 0
      BY <1>3, <1>5, <1>6, MemOKIs
    <3>2. QED  BY <3>1
  <2>2. QED  BY <1>3, <1>5, <1>6, <2>1 DEF MemOK
<1>8. ParentsOK /\ BufsCounted /\ NothingLost /\ EventsKept
  BY <1>3, <1>4 DEF ParentsOK, BufsCounted, NothingLost, EventsKept
<1>9. MapsOK
  <2>1. 0 >= 0 + 0
    OBVIOUS
  <2>2. QED  BY <1>3, <1>5, <1>6, <2>1 DEF MapsOK
<1>10. KernelsOK
  <2>1. \A k \in Kernels : KernelHolders(k) = 1 + 0
    BY <1>3, <1>5, <1>6, KernelsOKIs
  <2>2. \A k \in Kernels : rc[k] = 1 /\ st[k] = "live" /\ IsFiniteSet(LaunchRefs(k))
    BY <1>3, <1>5, <1>6
  <2>3. 1 > 0 /\ 1 >= 1 + 0 /\ 1 = 1 + 0
    OBVIOUS
  <2>4. QED  BY <2>1, <2>2, <2>3 DEF KernelsOK
<1>11. QueuesOK
  <2>1. \A q \in Queues : QueueHolders(q) = 1 + 0 + 0
    BY <1>3, <1>5, <1>6, QueuesOKIs
  <2>2. \A q \in Queues : rc[q] = 1 /\ st[q] = "live" /\ IsFiniteSet(EventsOf(q)) /\ IsFiniteSet(Releasing(q))
    BY <1>3, <1>5, <1>6
  <2>3. 1 >= 1 + 0 + 0 /\ 1 = 1 + 0 + 0
    OBVIOUS
  <2>4. QED  BY <2>1, <2>2, <2>3 DEF QueuesOK
<1>12. QED
  BY <1>7, <1>8, <1>9, <1>10, <1>11 DEF References

\* The counts of all objects are right in every state.
LEMMA ReferencesInvariant == Spec => []IInv
<1>1. Init => IInv
  BY InitControl, InitReferences DEF IInv
<1>2. IInv /\ [Next]_vars => IInv'
  <2> SUFFICES ASSUME Control, References, [Next]_vars PROVE Control' /\ References'
    BY DEF IInv
  <2>1. Control'
    BY NextControl
  <2>2. QED  BY <2>1, NextReferences
<1>3. QED
  BY <1>1, <1>2, PTL DEF Spec
-----------------------------------------------------------------------------
(* The queues of calls.                                                    *)

\* The client keeps the queue of a clFinish, or of a blocking call, meanwhile.
Holding == {"return", "exec"}
Callers == \A t \in Threads : pc[t].op \in Holding => held[pc[t].q] > 0

LEMMA CallersKept ==
  ASSUME Callers, CallsOK, \A q \in Queues : held[q] > 0 => held'[q] > 0,
         \A t \in Threads : pc'[t].op \in Holding =>
           held'[pc'[t].q] > 0 \/ (pc[t].op \in Holding /\ pc'[t].q = pc[t].q)
  PROVE  Callers'
<1>1. \A t \in Threads : pc[t].op \in Holding => pc[t].q \in Queues
  BY DEF CallsOK, CallOK, Holding
<1>2. QED
  BY <1>1 DEF Callers

\* A thread goes on within its call, or returns, or begins to wait.
LEMMA RunCallers ==
  ASSUME Control, Callers, NEW u \in Threads, Run(u)
  PROVE  Callers'
<1>1. TypeOK /\ pc \in [Threads -> Call] /\ CallsOK
  BY DEF Control, TypeOK
<1>2. held' = held
  BY DEF Run, StartCommand, DeviceDone, AssertRunning, MarkComplete, ReleaseBuffer, NextCommand, FinishReturn,
         FinishExec, FinishRelease, FinishWait, Emptied
<1>3. \A a, r, i : \A t \in Threads :
         /\ [pc EXCEPT ![u].at = a][t].op = pc[t].op /\ [pc EXCEPT ![u].at = a][t].q = pc[t].q
         /\ [pc EXCEPT ![u].rel = r][t].op = pc[t].op /\ [pc EXCEPT ![u].rel = r][t].q = pc[t].q
         /\ [pc EXCEPT ![u].i = i][t].op = pc[t].op /\ [pc EXCEPT ![u].i = i][t].q = pc[t].q
         /\ /\ [pc EXCEPT ![u].at = a, ![u].rel = r][t].op = pc[t].op
            /\ [pc EXCEPT ![u].at = a, ![u].rel = r][t].q = pc[t].q
         /\ /\ [pc EXCEPT ![u].at = a, ![u].i = i][t].op = pc[t].op
            /\ [pc EXCEPT ![u].at = a, ![u].i = i][t].q = pc[t].q
  BY <1>1 DEF Call
<1>4. ASSUME NEW d, d.op \notin Holding, pc' = [pc EXCEPT ![u] = d]
      PROVE  \A t \in Threads : pc'[t].op \in Holding => pc[t].op \in Holding /\ pc'[t].q = pc[t].q
  BY <1>1, <1>4
<1>5. NoCall.op \notin Holding /\ \A q, cmd, events : Finishing(q, "wait", cmd, events).op \notin Holding
  BY NoCallType DEF Holding, Finishing
<1>6. \A t \in Threads : pc'[t].op \in Holding => pc[t].op \in Holding /\ pc'[t].q = pc[t].q
  <2>1. ASSUME StartCommand(u) \/ DeviceDone(u) \/ AssertRunning(u)
        PROVE  \A t \in Threads : pc'[t].op = pc[t].op /\ pc'[t].q = pc[t].q
    <3>1. PICK a : pc' = [pc EXCEPT ![u].at = a]
      BY <2>1 DEF StartCommand, DeviceDone, AssertRunning, Goto
    <3>2. QED  BY <1>3, <3>1
  <2>2. ASSUME MarkComplete(u) PROVE \A t \in Threads : pc'[t].op = pc[t].op /\ pc'[t].q = pc[t].q
    <3>1. PICK a, r : pc' = [pc EXCEPT ![u].at = a, ![u].rel = r]
      BY <2>2 DEF MarkComplete
    <3>2. \A t \in Threads : /\ [pc EXCEPT ![u].at = a, ![u].rel = r][t].op = pc[t].op
                             /\ [pc EXCEPT ![u].at = a, ![u].rel = r][t].q = pc[t].q
      BY <1>3
    <3>3. QED  BY <3>1, <3>2
  <2>3. ASSUME ReleaseBuffer(u) PROVE \A t \in Threads : pc'[t].op = pc[t].op /\ pc'[t].q = pc[t].q
    BY <1>3, <2>3 DEF ReleaseBuffer
  <2>4. ASSUME FinishExec(u) PROVE \A t \in Threads : pc'[t].op = pc[t].op /\ pc'[t].q = pc[t].q
    BY <1>3, <2>4 DEF FinishExec
  <2>5. ASSUME NextCommand(u), pc[u].i # 0 PROVE \A t \in Threads : pc'[t].op = pc[t].op /\ pc'[t].q = pc[t].q
    <3>1. PICK a, i : pc' = [pc EXCEPT ![u].at = a, ![u].i = i]
      BY <2>5 DEF NextCommand
    <3>2. \A t \in Threads : /\ [pc EXCEPT ![u].at = a, ![u].i = i][t].op = pc[t].op
                             /\ [pc EXCEPT ![u].at = a, ![u].i = i][t].q = pc[t].q
      BY <1>3
    <3>3. QED  BY <3>1, <3>2
  <2>6. CASE FinishReturn(u) \/ FinishRelease(u) \/ (NextCommand(u) /\ pc[u].i = 0)
    <3>1. pc' = [pc EXCEPT ![u] = NoCall]
      BY <2>6 DEF FinishReturn, FinishRelease, NextCommand
    <3>2. QED  BY <1>4, <1>5, <3>1
  <2>7. CASE FinishWait(u)
    <3>1. PICK d : d.op \notin Holding /\ pc' = [pc EXCEPT ![u] = d]
      BY <1>5, <2>7 DEF FinishWait
    <3>2. QED  BY <1>4, <3>1
  <2>8. QED
    BY <2>1, <2>2, <2>3, <2>4, <2>5, <2>6, <2>7 DEF Run
<1>7. QED
  BY <1>1, <1>2, <1>6, CallersKept

\* An enqueueing call leaves the client's queues alone, and a blocking one is
\* given a queue that the client owns.
LEMMA EnqueueCallers ==
  ASSUME Control, NEW u \in Threads, NEW q \in Queues, NEW ev \in Events \cup {None}, Enqueue(u, q, ev)
  PROVE  /\ held[q] > 0 /\ \A p \in Queues : held'[p] = held[p]
         /\ pc' = pc \/ \E d : pc' = [pc EXCEPT ![u] = d] /\ d.q = q
<1> DEFINE Goal == /\ held[q] > 0 /\ (\A p \in Queues : held'[p] = held[p])
                   /\ (pc' = pc \/ \E d : pc' = [pc EXCEPT ![u] = d] /\ d.q = q)
<1>1. held \in [Objects -> Nat] /\ \A p \in Queues : p \in Objects /\ p # ev
  BY Kinds DEF Control, TypeOK
<1>2. ASSUME NEW s, MakeEvent(q, ev, s) PROVE \A p \in Queues : held'[p] = held[p]
  BY <1>1, <1>2 DEF MakeEvent
<1>3. ASSUME NEW type, NEW bufs, ExecuteDirectly(u, q, type, bufs, ev) PROVE Goal
  <2>1. PICK c : pc' = [pc EXCEPT ![u] = Finishing(q, "exec", c, <<>>)]
    BY <1>3 DEF ExecuteDirectly
  <2>2. Finishing(q, "exec", c, <<>>).q = q
    BY DEF Finishing
  <2>3. held[q] > 0 /\ MakeEvent(q, ev, "queued")
    BY <1>3 DEF ExecuteDirectly, MayEnqueue, Owns
  <2>4. QED  BY <1>2, <2>1, <2>2, <2>3
<1>4. ASSUME NEW type, NEW bufs, NEW k, NEW refs, AppendNode(u, q, type, bufs, k, ev, refs) PROVE Goal
  BY <1>2, <1>4 DEF AppendNode, MayEnqueue, Owns
<1>5. ASSUME NEW b, clEnqueueUnmapMemObject(u, q, b, ev) PROVE Goal
  BY <1>2, <1>5 DEF clEnqueueUnmapMemObject, MayEnqueue, Owns
<1>6. ASSUME NEW type, NEW b, NodeNotAllocated(u, q, type, b, ev) PROVE Goal
  BY <1>6 DEF NodeNotAllocated, MayEnqueue, Owns
<1>7. ASSUME NEW b, EventNotAllocated(u, q, b) PROVE Goal
  BY <1>7 DEF EventNotAllocated, MayEnqueue, Owns
<1>8. ASSUME NEW b, clEnqueueWriteBufferRect(u, q, b), ev = None PROVE Goal
  BY <1>3, <1>8 DEF clEnqueueWriteBufferRect
<1> HIDE DEF Goal
<1>9. Goal
  BY <1>3, <1>4, <1>5, <1>6, <1>7, <1>8 DEF Enqueue, clEnqueueMarker, clEnqueueNDRangeKernel,
     clEnqueueReadBuffer, clEnqueueWriteBuffer, clEnqueueFillBuffer, clEnqueueReadBufferRect,
     clEnqueueMapBuffer, clEnqueueCopyBuffer, clEnqueueCopyBufferRect
<1>10. QED  BY <1>9 DEF Goal

LEMMA RequestCallers ==
  ASSUME Control, Callers, NEW u \in Threads, Request(u)
  PROVE  Callers'
<1>1. TypeOK /\ pc \in [Threads -> Call] /\ CallsOK /\ held \in [Objects -> Nat]
  BY DEF Control, TypeOK
<1>2. ASSUME \A p \in Queues : held[p] > 0 => held'[p] > 0, pc' = pc PROVE Callers'
  BY <1>1, <1>2, CallersKept
<1>3. ASSUME NEW d, pc' = [pc EXCEPT ![u] = d], d.op \in Holding => held'[d.q] > 0,
             \A p \in Queues : held[p] > 0 => held'[p] > 0
      PROVE  Callers'
  <2>1. pc'[u] = d /\ \A t \in Threads : t # u => pc'[t] = pc[t]
    BY <1>1, <1>3
  <2>2. QED  BY <1>1, <1>3, <2>1, CallersKept
<1>4. \A q, op, cmd, events : Finishing(q, op, cmd, events).q = q /\ Finishing(q, op, cmd, events).op = op
  BY DEF Finishing
<1>5. ASSUME NEW b \in Bufs, clCreateBuffer(u, b) \/ clReleaseMemObject(u, b) PROVE Callers'
  <2>1. pc' = pc /\ \A p \in Queues : held'[p] = held[p]
    BY <1>1, <1>5, Kinds DEF clCreateBuffer, clReleaseMemObject
  <2>2. QED  BY <1>2, <2>1
<1>6. ASSUME NEW b \in Bufs, NEW p \in Bufs, clCreateSubBuffer(u, b, p) PROVE Callers'
  <2>1. pc' = pc /\ \A q \in Queues : held'[q] = held[q]
    BY <1>1, <1>6, Kinds DEF clCreateSubBuffer
  <2>2. QED  BY <1>2, <2>1
<1>7. ASSUME NEW k \in Kernels, clReleaseKernel(u, k) \/ \E b \in Bufs \cup {None} : clSetKernelArg(u, k, b)
      PROVE  Callers'
  <2>1. pc' = pc /\ \A p \in Queues : held'[p] = held[p]
    BY <1>1, <1>7, Kinds DEF clReleaseKernel, clSetKernelArg
  <2>2. QED  BY <1>2, <2>1
<1>8. ASSUME NEW o \in Objects, clRetain(u, o) PROVE Callers'
  <2>1. pc' = pc /\ held' = [held EXCEPT ![o] = held[o] + 1] /\ held[o] = 1
    BY <1>8 DEF clRetain
  <2>2. \A p \in Queues : held[p] > 0 => held'[p] > 0
    BY <1>1, <2>1, Kinds
  <2>3. QED  BY <1>2, <2>1, <2>2
<1>9. ASSUME NEW q \in Queues, clFinish(u, q) PROVE Callers'
  <2>1. held' = held /\ held[q] > 0 /\ pc' = [pc EXCEPT ![u] = Finishing(q, "return", NoCmd, <<>>)]
    BY <1>9 DEF clFinish, Enter, Owns
  <2>2. PICK d : d = Finishing(q, "return", NoCmd, <<>>)
    OBVIOUS
  <2>3. d.q = q /\ pc' = [pc EXCEPT ![u] = d]
    BY <1>4, <2>1, <2>2
  <2>4. QED  BY <1>3, <2>1, <2>3
<1>10. ASSUME NEW q \in Queues, clReleaseCommandQueue(u, q) PROVE Callers'
  <2>1. /\ held' = [held EXCEPT ![q] = held[q] - 1] /\ ~Busy(q)
        /\ pc' = [pc EXCEPT ![u] = Finishing(q, "release_queue", NoCmd, <<>>)]
    BY <1>10 DEF clReleaseCommandQueue, Enter
  <2>2. PICK d : d = Finishing(q, "release_queue", NoCmd, <<>>)
    OBVIOUS
  <2>3. d.op \notin Holding /\ pc' = [pc EXCEPT ![u] = d]
    BY <1>4, <2>1, <2>2 DEF Holding
  <2>4. pc'[u] = d /\ \A t \in Threads : t # u => pc'[t] = pc[t] /\ pc[t].q # q
    BY <1>1, <2>1, <2>3 DEF Busy
  <2>5. \A p : p # q => held'[p] = held[p]
    BY <1>1, <2>1
  <2>6. QED
    BY <2>3, <2>4, <2>5 DEF Callers
<1>11. ASSUME NEW q \in Queues, NEW ev \in Events \cup {None}, Enqueue(u, q, ev) PROVE Callers'
  <2>1. /\ held[q] > 0 /\ \A p \in Queues : held'[p] = held[p]
        /\ pc' = pc \/ \E d : pc' = [pc EXCEPT ![u] = d] /\ d.q = q
    BY <1>11, EnqueueCallers
  <2>2. CASE pc' = pc
    BY <1>2, <2>1, <2>2
  <2>3. ASSUME NEW d, pc' = [pc EXCEPT ![u] = d], d.q = q PROVE Callers'
    BY <1>3, <2>1, <2>3
  <2>4. QED  BY <2>1, <2>2, <2>3
<1>12. ASSUME NEW e \in Events, clReleaseEvent(u, e) PROVE Callers'
  <2>1. \A p \in Queues : held'[p] = held[p]
    BY <1>1, <1>12, Kinds DEF clReleaseEvent
  <2>2. pc' = pc \/ pc' = [pc EXCEPT ![u] = Finishing(queue[e], "release_event", NoCmd, <<e>>)]
    BY <1>12 DEF clReleaseEvent, Enter
  <2>3. PICK d : d = Finishing(queue[e], "release_event", NoCmd, <<e>>)
    OBVIOUS
  <2>4. d.op \notin Holding
    BY <1>4, <2>3 DEF Holding
  <2>5. QED  BY <1>2, <1>3, <2>1, <2>2, <2>3, <2>4
<1>13. ASSUME NEW events, clWaitForEvents(u, events) PROVE Callers'
  <2>1. held' = held /\ pc' = [pc EXCEPT ![u] = Finishing(queue[events[1]], "wait", NoCmd, events)]
    BY <1>13 DEF clWaitForEvents, Enter
  <2>2. PICK d : d = Finishing(queue[events[1]], "wait", NoCmd, events)
    OBVIOUS
  <2>3. d.op \notin Holding /\ pc' = [pc EXCEPT ![u] = d]
    BY <1>4, <2>1, <2>2 DEF Holding
  <2>4. QED  BY <1>3, <2>1, <2>3
<1>14. QED
  BY <1>5, <1>6, <1>7, <1>8, <1>9, <1>10, <1>11, <1>12, <1>13 DEF Request, clFlush

LEMMA CallersInvariant == Spec => []Callers
<1>1. Init => Callers
  BY NoCallType DEF Init, Callers, Holding
<1>2. Control /\ Callers /\ [Next]_vars => Callers'
  <2> SUFFICES ASSUME Control, Callers, [Next]_vars PROVE Callers'
    OBVIOUS
  <2>1. CASE UNCHANGED vars
    BY <2>1 DEF vars, Callers
  <2>2. CASE Next
    BY <2>2, RunCallers, RequestCallers DEF Next
  <2>3. QED  BY <2>1, <2>2
<1>3. QED
  BY <1>1, <1>2, ControlInvariant, PTL DEF Spec
-----------------------------------------------------------------------------
(* What the counts are for.                                                *)

LEMMA HasMember ==
  ASSUME NEW S, NEW x \in S, IsFiniteSet(S)
  PROVE  Cardinality(S) # 0
BY FS_EmptySet

LEMMA QueueLive ==
  ASSUME Control, References, NEW q \in Queues
  PROVE  /\ held[q] > 0 => st[q] = "live"
         /\ root[q] # <<>> => st[q] = "live"
         /\ \A e \in Events : st[e] = "live" /\ queue[e] = q => st[q] = "live"
         /\ \A t \in Threads : pc[t].op = "release_queue" /\ pc[t].q = q => st[q] = "live"
<1>1. TypeOK /\ QueuesOK
  BY DEF Control, References
<1>2. /\ IsFiniteSet(EventsOf(q)) /\ IsFiniteSet(Releasing(q)) /\ held[q] \in Nat
      /\ st[q] # "live" => /\ held[q] = 0 /\ Cardinality(EventsOf(q)) = 0 /\ Cardinality(Releasing(q)) = 0
                           /\ root[q] = <<>>
  BY <1>1, QueueNumbers
<1>3. \A e \in Events : st[e] = "live" /\ queue[e] = q => st[q] = "live"
  <2>1. \A e \in Events : st[e] = "live" /\ queue[e] = q => e \in EventsOf(q)
    BY DEF EventsOf
  <2>2. QED  BY <1>2, <2>1, HasMember
<1>4. \A t \in Threads : pc[t].op = "release_queue" /\ pc[t].q = q => st[q] = "live"
  <2>1. \A t \in Threads : pc[t].op = "release_queue" /\ pc[t].q = q => t \in Releasing(q)
    BY DEF Releasing
  <2>2. QED  BY <1>2, <2>1, HasMember
<1>5. QED  BY <1>2, <1>3, <1>4

\* A queue with nodes, one a thread is executing and the queue of an event that
\* is not freed are not freed, however many threads release them meanwhile.
THEOREM QueuesStayValid == Spec => []QueuesValid
<1>1. ASSUME Control, References, Callers PROVE QueuesValid
  <2>1. \A q \in Queues : root[q] # <<>> => st[q] = "live"
    BY <1>1, QueueLive
  <2>2. \A e \in Events : st[e] = "live" => st[queue[e]] = "live"
    <3>1. \A e \in Events : st[e] = "live" => queue[e] \in Queues
      BY <1>1 DEF Control, EventsOK
    <3>2. QED  BY <1>1, <3>1, QueueLive
  <2>3. ASSUME NEW t \in Threads, ~Idle(t) PROVE st[pc[t].q] = "live"
    <3>1. /\ pc[t] \in Call /\ pc[t].op # "idle" /\ pc[t].q \in Queues /\ WaitOK(pc[t])
          /\ pc[t].op \in {"idle", "return", "exec", "release_queue", "release_event", "wait"}
      BY <1>1, <2>3, CallFields DEF Control, TypeOK, CallsOK, CallOK, WaitsOK, Idle, Call
    <3>2. CASE pc[t].op \in {"return", "exec"}
      BY <1>1, <3>1, <3>2, QueueLive DEF Callers, Holding
    <3>3. CASE pc[t].op = "release_queue"
      BY <1>1, <3>1, <3>3, QueueLive
    <3>4. CASE pc[t].op = "release_event"
      <4>1. PICK e \in Events : queue[e] = pc[t].q /\ st[e] = "live"
        BY <3>1, <3>4 DEF WaitOK
      <4>2. QED  BY <2>2, <4>1
    <3>5. CASE pc[t].op = "wait"
      <4>1. PICK e \in Events : queue[e] = pc[t].q /\ held[e] > 0
        <5>1. pc[t].events \in Seq(Events) /\ pc[t].events # <<>>
          BY <3>1, <3>5, CallFields DEF WaitOK
        <5>2. 1 \in DOMAIN pc[t].events /\ pc[t].events[1] \in Events
          BY <5>1
        <5>3. queue[pc[t].events[1]] = pc[t].q /\ held[pc[t].events[1]] > 0
          BY <3>1, <3>5, <5>2 DEF WaitOK
        <5>4. QED  BY <5>2, <5>3
      <4>2. st[e] = "live"
        BY <1>1, <4>1 DEF Control, EventsOK
      <4>3. QED  BY <2>2, <4>1, <4>2
    <3>6. QED  BY <3>1, <3>2, <3>3, <3>4, <3>5
  <2>4. QED
    BY <2>1, <2>2, <2>3 DEF QueuesValid
<1>2. IInv /\ Callers => QueuesValid
  BY <1>1 DEF IInv
<1>3. QED
  BY <1>2, ReferencesInvariant, CallersInvariant, PTL

\* The count of a queue covers the client, every event of the queue and a release
\* in progress; it is exact without kernel launches, on a device that is no GPU.
THEOREM QueueCounts == Spec => []QueueRefs
<1>1. IInv => QueueRefs
  BY DEF IInv, References, QueuesOK, QueueRefs
<1>2. QED
  BY <1>1, ReferencesInvariant, PTL

\* The count of every memory object is the number of its holders, plus one for
\* each device after the first and for each reference a failed map has lost:
\* every retain of clEnqueue*, mappings and sub-buffers is matched by one release
\* of clFinish, of the blocking call, of the unmap or of the deleted sub-buffer.
THEOREM MemCounts == Spec => []MemRefs
<1>1. IInv => MemRefs
  BY DEF IInv, References, MemOK, MemRefs, Extra
<1>2. QED
  BY <1>1, ReferencesInvariant, PTL

\* Without a GPU, a kernel whose client and launches have released it is deleted.
THEOREM KernelsReclaimed ==
  ASSUME NoGPU
  PROVE  Spec => []KernelReclaimed
<1>1. IInv => KernelReclaimed
  <2> SUFFICES ASSUME KernelsOK, NEW k \in Kernels, st[k] = "live" PROVE KernelHolders(k) > 0
    BY DEF IInv, References, KernelReclaimed
  <2>1. rc[k] > 0 /\ rc[k] = KernelHolders(k)
    BY DEF KernelsOK
  <2>2. QED  BY <2>1
<1>2. QED
  BY <1>1, ReferencesInvariant, PTL

\* In a context of one device, without sub-buffers and when no malloc fails, a
\* memory object that nobody refers to is deleted.
THEOREM MemObjectsReclaimed ==
  ASSUME NumDevices = 1, SubBufs = {}, ~HostFull
  PROVE  Spec => []MemReclaimed
<1>1. IInv => MemReclaimed
  <2> SUFFICES ASSUME Control, References, NEW b \in Bufs, st[b] = "live" PROVE MemHolders(b) > 0
    BY DEF IInv, MemReclaimed
  <2>1. TypeOK /\ MemOK(b) /\ BufsCounted /\ NothingLost
    BY DEF Control, References
  <2>2. rc[b] > 0 /\ lost[b] = 0 /\ Extra(b) = 0
    BY <2>1 DEF BufsCounted, NothingLost, Extra
  <2>3. rc[b] = MemHolders(b) + Extra(b) + lost[b]
    BY <2>1 DEF MemOK
  <2>4. MemHolders(b) \in Int
    <3>1. /\ held[b] \in Nat /\ maps[b] \in Nat /\ Cardinality(Children(b)) \in Nat
          /\ Cardinality(CommandRefs(b)) \in Nat /\ Cardinality(ReleaseRefs(b)) \in Nat
      BY <2>1, MemNumbers
    <3>2. QED  BY <3>1, MemOKIs
  <2>5. QED  BY <2>2, <2>3, <2>4
<1>2. QED
  BY <1>1, ReferencesInvariant, PTL

\* The kernel of an outstanding command has the reference of its launch.
LEMMA KernelLive ==
  ASSUME Control, References, NEW c \in Outstanding, c.kernel # None
  PROVE  st[c.kernel] = "live"
<1>1. c \in Node /\ \/ \E q \in Queues, i \in Nat : Ahead(root, pc, q, i) /\ c = root[q][i]
                    \/ \E t \in Threads : Own(pc[t]) /\ c = pc[t].cmd
  BY OutstandingNodes
<1>2. PICK k \in Kernels : k = c.kernel
  BY <1>1, NodeFields
<1>3. \A t \in Threads : Own(pc[t]) => pc[t].cmd.kernel = None
  BY DEF Control, OwnOK, Own
<1>4. PICK q \in Queues, i \in Nat : Ahead(root, pc, q, i) /\ c = root[q][i]
  BY <1>1, <1>3
<1>5. i \in DOMAIN root[q] /\ i \in 1..MaxCommands
  <2>1. root[q] \in Seq(Node) /\ Len(root[q]) <= count /\ count <= MaxCommands /\ count \in Nat /\ MaxCommands \in Nat
    BY BoundsAssumption DEF Control, TypeOK, Lengths
  <2>2. i \in DOMAIN root[q]
    BY <1>4 DEF Ahead
  <2>3. QED  BY <2>1, <2>2
<1>6. \A t \in Threads : pc[t].q = q => pc[t].i <= i
  <2>1. \A t \in Threads : pc[t].i \in Nat /\ ~Through(pc[t], q, i)
    BY <1>4, CallFields DEF Ahead, Control, TypeOK
  <2>2. QED  BY <2>1 DEF Through
<1>7. <<q, i>> \in LaunchRefs(k)
  BY <1>2, <1>4, <1>5, <1>6 DEF LaunchRefs
<1>8. /\ IsFiniteSet(LaunchRefs(k)) /\ Cardinality(LaunchRefs(k)) \in Nat /\ held[k] \in Nat
      /\ st[k] # "live" => held[k] + Cardinality(LaunchRefs(k)) = 0
  <2>1. TypeOK /\ KernelsOK
    BY DEF Control, References
  <2>2. QED  BY <2>1, KernelNumbers
<1>9. Cardinality(LaunchRefs(k)) # 0
  BY <1>7, <1>8, HasMember
<1>10. QED  BY <1>2, <1>8, <1>9

\* A buffer that someone refers to is not freed.
LEMMA BufferLive ==
  ASSUME Control, References, NEW b \in Bufs,
         maps[b] > 0 \/ Children(b) # {} \/ CommandRefs(b) # {}
  PROVE  st[b] = "live"
<1>1. TypeOK /\ MemOK(b)
  BY DEF Control, References
<1>2. SUFFICES ASSUME st[b] # "live" PROVE FALSE
  OBVIOUS
<1>3. maps[b] = 0 /\ Cardinality(Children(b)) = 0 /\ Cardinality(CommandRefs(b)) = 0
  BY <1>1, <1>2, NoHolders
<1>4. IsFiniteSet(Children(b)) /\ IsFiniteSet(CommandRefs(b))
  BY <1>1 DEF MemOK
<1>5. Children(b) = {} /\ CommandRefs(b) = {}
  BY <1>3, <1>4, HasMember
<1>6. QED  BY <1>3, <1>5

\* The buffers of an outstanding command have its reference, or that of its
\* mapping.
LEMMA CommandBuffersLive ==
  ASSUME Control, References, ~UnmapsEarly, NEW c \in Outstanding, NEW b \in Range(c.bufs)
  PROVE  b \in Bufs /\ st[b] = "live"
<1>1. /\ c \in Node
      /\ \/ \E q \in Queues, i \in Nat : Ahead(root, pc, q, i) /\ c = root[q][i] /\ CommandOK(c, q)
         \/ \E t \in Threads : Own(pc[t]) /\ c = pc[t].cmd /\ CommandOK(c, pc[t].q)
  BY OutstandingNodes
<1>2. c.bufs \in Seq(Bufs) /\ Len(c.bufs) <= 2 /\ (c.type = "map" => Len(c.bufs) = 1)
  BY <1>1, NodeFields DEF CommandOK
<1>3. PICK j \in DOMAIN c.bufs : b = c.bufs[j]
  BY DEF Range
<1>4. b \in Bufs /\ j \in {1, 2} /\ (c.type = "map" => j = 1)
  BY <1>2, <1>3
<1>5. CASE c.type # "map"
  <2>1. Released(c) = c.bufs
    BY <1>5 DEF Released
  <2>2. <<c, j>> \in CommandRefs(b)
    BY <1>3, <1>4, <2>1 DEF CommandRefs
  <2>3. QED  BY <1>4, <2>2, BufferLive
<1>6. CASE c.type = "map"
  <2>1. /\ maps[b] \in Nat /\ mapped[b] \in Nat /\ IsFiniteSet(OwnMaps(b))
        /\ maps[b] >= mapped[b] + Cardinality(OwnMaps(b)) /\ Cardinality(OwnMaps(b)) \in Nat
        /\ (MapQueued(b) => mapped[b] > 0)
    BY <1>4, FS_CardinalityType DEF Control, TypeOK, References, MapsOK
  <2>2. MapQueued(b) \/ OwnMaps(b) # {}
    <3>1. ASSUME NEW q \in Queues, NEW i \in Nat, Ahead(root, pc, q, i), c = root[q][i] PROVE MapQueued(b)
      BY <1>6, <3>1 DEF Ahead, MapQueued
    <3>2. ASSUME NEW t \in Threads, Own(pc[t]), c = pc[t].cmd PROVE t \in OwnMaps(b)
      <4>1. pc[t].op = "exec" /\ pc[t].cmd.type = "map" /\ pc[t].cmd.bufs[1] = b
        BY <1>3, <1>4, <1>6, <3>2 DEF Own
      <4>2. QED  BY <4>1 DEF OwnMaps
    <3>3. QED  BY <1>1, <3>1, <3>2
  <2>3. OwnMaps(b) # {} => Cardinality(OwnMaps(b)) # 0
    BY <2>1, HasMember
  <2>4. PICK m, p, n : m = maps[b] /\ p = mapped[b] /\ n = Cardinality(OwnMaps(b))
    OBVIOUS
  <2>5. m \in Nat /\ p \in Nat /\ n \in Nat /\ m >= p + n /\ (p > 0 \/ n # 0)
    BY <2>1, <2>2, <2>3, <2>4
  <2>6. maps[b] > 0
    BY <2>4, <2>5
  <2>7. QED  BY <1>4, <2>6, BufferLive
<1>7. QED  BY <1>5, <1>6

\* What a command still to be executed points to - its event, kernel, buffers and
\* the parent of a sub-buffer - is not freed, whatever the client has released
\* since.  The client unmaps no mapping whose map command is still queued; and it
\* releases no event before its command has completed, or has no GPU queue.
THEOREM CommandsStayValid ==
  ASSUME ~UnmapsEarly, ~DropsEarly \/ NoGPU
  PROVE  Spec => []CommandsValid
<1>1. IInv => CommandsValid
  <2> SUFFICES ASSUME Control, References, NEW c \in Outstanding
               PROVE  /\ c.event # None => st[c.event] = "live"
                      /\ c.kernel # None => st[c.kernel] = "live"
                      /\ \A b \in Range(c.bufs) : /\ st[b] = "live"
                                                  /\ parent[b] # None => st[parent[b]] = "live"
    BY DEF IInv, CommandsValid
  <2>1. c.event # None => st[c.event] = "live"
    BY DEF References, EventsKept
  <2>2. c.kernel # None => st[c.kernel] = "live"
    BY KernelLive
  <2>3. ASSUME NEW b \in Range(c.bufs)
        PROVE  st[b] = "live" /\ (parent[b] # None => st[parent[b]] = "live")
    <3>1. b \in Bufs /\ st[b] = "live"
      BY CommandBuffersLive
    <3>2. ASSUME parent[b] # None PROVE st[parent[b]] = "live"
      <4>1. PICK p \in Bufs : p = parent[b]
        BY <3>1, <3>2 DEF Control, TypeOK
      <4>2. b \in Children(p)
        BY <3>1, <4>1 DEF Children
      <4>3. QED  BY <4>1, <4>2, BufferLive
    <3>3. QED  BY <3>1, <3>2
  <2>4. QED  BY <2>1, <2>2, <2>3
<1>2. QED
  BY <1>1, ReferencesInvariant, PTL
=============================================================================
