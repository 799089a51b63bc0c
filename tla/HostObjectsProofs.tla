------------------------- MODULE HostObjectsProofs -------------------------
(***************************************************************************)
(* HostObjects, for every number of contexts, programs and kernels: no     *)
(* release frees what is still pointed to, the counts are the references,  *)
(* and a kernel is compiled from the binaries of its own devices.          *)
(*                                                                         *)
(* The invariant relates the three tables of objects to the references of  *)
(* the client.  It is stated over the values of the tables, so that the    *)
(* lemmas about updates of them need no state.                             *)
(***************************************************************************)
EXTENDS HostObjects, ArithmeticTheorems

Stages == {"none", "live", "freed"}
ContextType == [st : Stages, ref : Int, valid : BOOLEAN, devs : Seq(Devices)]
BinariesType == [st : {"null", "live", "freed"}, of : Seq(Devices)]
ProgramType == [st : Stages, ref : Int, ctx : Contexts \cup {None}, devs : Seq(Devices),
                source : BOOLEAN, binaries : BinariesType, dirs : SUBSET Devices,
                hsaProgram : BOOLEAN, built : Seq(Devices), kernels : Seq(Kernels)]
BinaryNames == Devices \cup {None, "beyond"}
KernelType == [st : Stages, ref : Int, prog : Programs \cup {None}, from : Seq(BinaryNames)]

\* The programs of a context and the kernels of a program that are not freed.
ProgramsIn(prog, c) == {p \in Programs : prog[p].st = "live" /\ prog[p].ctx = c}
KernelsIn(kern, p) == {k \in Kernels : kern[k].st = "live" /\ kern[k].prog = p}

\* A context r with the programs P of which the client has n references.  A dummy
\* context, which the client gets with an error, has no program.
ContextOK(r, P, n) ==
  /\ IsFiniteSet(P)
  /\ r.st # "live" => n = 0
  /\ ~(r.st = "live" /\ r.valid) => P = {}
  /\ r.st = "live" /\ r.valid => r.ref = n + Cardinality(P) /\ r.devs # <<>>

\* The binary of a CPU is the one made for it.
BinariesOK(r) ==
  r.binaries.st = "live" =>
    /\ Len(r.binaries.of) = Len(r.built)
    /\ \A i \in 1..Len(r.built) : ~IsGPU(r.built[i]) => r.binaries.of[i] = r.built[i]

\* A program r with the kernels K of which the client has n references.
ProgramOK(r, K, n) ==
  /\ IsFiniteSet(K)
  /\ r.st # "live" => n = 0 /\ K = {}
  /\ r.st = "live" => /\ r.ctx \in Contexts /\ r.devs # <<>>
                      /\ r.ref = n + Cardinality(K) /\ r.ref > 0
                      /\ ToSet(r.kernels) = K /\ IsInjective(r.kernels)
                      /\ r.binaries.st # "freed"
                      /\ BinariesOK(r)

\* The binaries of a kernel and those of its program g.
FromOwn(g, from) ==
  g.built = g.devs => \A i \in DOMAIN from : from[i] \in {None, g.devs[i]}

\* A kernel r of which the client has n references.
KernelOK(r, prog, n) ==
  /\ r.st # "live" => n = 0
  /\ r.st = "live" => /\ r.prog \in Programs /\ r.from # <<>>
                      /\ r.ref = n + Len(r.from) - 1 /\ r.ref > 0
                      /\ FromOwn(prog[r.prog], r.from)

Typed(ctx, prog, kern, own) ==
  /\ ctx \in [Contexts -> ContextType]
  /\ prog \in [Programs -> ProgramType]
  /\ kern \in [Kernels -> KernelType]
  /\ own \in [Objects -> Nat]

Good(ctx, prog, kern, own) ==
  /\ Typed(ctx, prog, kern, own)
  /\ \A c \in Contexts : ContextOK(ctx[c], ProgramsIn(prog, c), own[c])
  /\ \A p \in Programs : ProgramOK(prog[p], KernelsIn(kern, p), own[p])
  /\ \A k \in Kernels : KernelOK(kern[k], prog, own[k])

HasFields(s) == s = [table |-> s.table, hw |-> s.hw, ctx |-> s.ctx, prog |-> s.prog, kern |-> s.kern]

\* The inductive invariant.
IInv ==
  /\ HasFields(h)
  /\ h.table \in Seq(Devices)
  /\ known \subseteq Devices
  /\ Good(h.ctx, h.prog, h.kern, held)
-----------------------------------------------------------------------------
(* Updates of the tables.                                                  *)

\* One context changes.
LEMMA ContextStep ==
  ASSUME NEW ctx, NEW prog, NEW kern, NEW own, Good(ctx, prog, kern, own),
         NEW c \in Contexts, NEW r \in ContextType, NEW n \in Nat,
         ContextOK(r, ProgramsIn(prog, c), n)
  PROVE  Good([ctx EXCEPT ![c] = r], prog, kern, [own EXCEPT ![c] = n])
<1> USE DEF Good
<1>1. Typed([ctx EXCEPT ![c] = r], prog, kern, [own EXCEPT ![c] = n])
  BY DEF Typed, Objects
<1>2. ASSUME NEW d \in Contexts
      PROVE  ContextOK([ctx EXCEPT ![c] = r][d], ProgramsIn(prog, d), [own EXCEPT ![c] = n][d])
  <2>1. CASE d = c
    BY <2>1 DEF Typed, Objects
  <2>2. CASE d # c
    <3>1. [ctx EXCEPT ![c] = r][d] = ctx[d] /\ [own EXCEPT ![c] = n][d] = own[d]
      BY <2>2 DEF Typed, Objects
    <3>2. QED  BY <3>1
  <2>3. QED  BY <2>1, <2>2
<1>3. \A o \in Programs \cup Kernels : [own EXCEPT ![c] = n][o] = own[o]
  BY HandlesAssumption DEF Typed, Objects
<1>4. QED
  BY <1>1, <1>2, <1>3

\* A program and its context change.
LEMMA ProgramStep ==
  ASSUME NEW ctx, NEW prog, NEW kern, NEW own, Good(ctx, prog, kern, own),
         NEW c \in Contexts, NEW rc \in ContextType,
         NEW p \in Programs, NEW r \in ProgramType, NEW n \in Nat,
         prog[p].st = "live" => prog[p].ctx = c,
         r.st = "live" => r.ctx = c,
         ContextOK(rc, ProgramsIn([prog EXCEPT ![p] = r], c), own[c]),
         ProgramOK(r, KernelsIn(kern, p), n),
         KernelsIn(kern, p) # {} => r.built = prog[p].built /\ r.devs = prog[p].devs
  PROVE  Good([ctx EXCEPT ![c] = rc], [prog EXCEPT ![p] = r], kern, [own EXCEPT ![p] = n])
<1> DEFINE cx == [ctx EXCEPT ![c] = rc]
           px == [prog EXCEPT ![p] = r]
           ox == [own EXCEPT ![p] = n]
<1> USE DEF Good
<1>1. Typed(cx, px, kern, ox)
  BY DEF Typed, Objects
<1>2. \A o \in Contexts \cup Kernels : ox[o] = own[o]
  BY HandlesAssumption DEF Typed, Objects
<1>3. ASSUME NEW d \in Contexts PROVE ContextOK(cx[d], ProgramsIn(px, d), ox[d])
  <2>1. CASE d = c
    BY <2>1, <1>2 DEF Typed
  <2>2. CASE d # c
    <3>1. ProgramsIn(px, d) = ProgramsIn(prog, d)
      BY <2>2 DEF Typed, ProgramsIn
    <3>2. cx[d] = ctx[d]
      BY <2>2 DEF Typed
    <3>3. QED  BY <3>1, <3>2, <1>2
  <2>3. QED  BY <2>1, <2>2
<1>4. ASSUME NEW q \in Programs PROVE ProgramOK(px[q], KernelsIn(kern, q), ox[q])
  <2>1. CASE q = p
    <3>1. px[q] = r /\ ox[q] = n
      BY <2>1 DEF Typed, Objects
    <3>2. QED  BY <3>1, <2>1
  <2>2. CASE q # p
    <3>1. px[q] = prog[q] /\ ox[q] = own[q]
      BY <2>2 DEF Typed, Objects
    <3>2. QED  BY <3>1
  <2>3. QED  BY <2>1, <2>2
<1>5. ASSUME NEW k \in Kernels PROVE KernelOK(kern[k], px, ox[k])
  <2>1. KernelOK(kern[k], prog, own[k]) /\ ox[k] = own[k]
    BY <1>2
  <2>2. kern[k].st = "live" /\ kern[k].prog = p => k \in KernelsIn(kern, p)
    BY DEF KernelsIn
  <2>3. kern[k].st = "live" /\ kern[k].prog \in Programs =>
          px[kern[k].prog].built = prog[kern[k].prog].built /\ px[kern[k].prog].devs = prog[kern[k].prog].devs
    BY <2>2 DEF Typed
  <2>4. QED  BY <2>1, <2>3 DEF KernelOK, FromOwn
<1>6. QED
  BY <1>1, <1>3, <1>4, <1>5

\* A kernel, its program and the context of that change.
LEMMA KernelStep ==
  ASSUME NEW ctx, NEW prog, NEW kern, NEW own, Good(ctx, prog, kern, own),
         NEW c \in Contexts, NEW rc \in ContextType,
         NEW p \in Programs, NEW r \in ProgramType,
         NEW k \in Kernels, NEW rk \in KernelType, NEW n \in Nat,
         prog[p].st = "live" => prog[p].ctx = c,
         r.st = "live" => r.ctx = c,
         kern[k].st = "live" => kern[k].prog = p,
         rk.st = "live" => rk.prog = p,
         ContextOK(rc, ProgramsIn([prog EXCEPT ![p] = r], c), own[c]),
         ProgramOK(r, KernelsIn([kern EXCEPT ![k] = rk], p), own[p]),
         KernelOK(rk, [prog EXCEPT ![p] = r], n),
         r.built = prog[p].built /\ r.devs = prog[p].devs
  PROVE  Good([ctx EXCEPT ![c] = rc], [prog EXCEPT ![p] = r], [kern EXCEPT ![k] = rk], [own EXCEPT ![k] = n])
<1> DEFINE cx == [ctx EXCEPT ![c] = rc]
           px == [prog EXCEPT ![p] = r]
           kx == [kern EXCEPT ![k] = rk]
           ox == [own EXCEPT ![k] = n]
<1> USE DEF Good
<1>1. Typed(cx, px, kx, ox)
  BY DEF Typed, Objects
<1>2. \A o \in Contexts \cup Programs : ox[o] = own[o]
  BY HandlesAssumption DEF Typed, Objects
<1>3. ASSUME NEW d \in Contexts PROVE ContextOK(cx[d], ProgramsIn(px, d), ox[d])
  <2>1. CASE d = c
    BY <2>1, <1>2 DEF Typed
  <2>2. CASE d # c
    <3>1. ProgramsIn(px, d) = ProgramsIn(prog, d)
      BY <2>2 DEF Typed, ProgramsIn
    <3>2. cx[d] = ctx[d]
      BY <2>2 DEF Typed
    <3>3. QED  BY <3>1, <3>2, <1>2
  <2>3. QED  BY <2>1, <2>2
<1>4. ASSUME NEW q \in Programs PROVE ProgramOK(px[q], KernelsIn(kx, q), ox[q])
  <2>1. CASE q = p
    <3>1. px[q] = r
      BY <2>1 DEF Typed
    <3>2. QED  BY <3>1, <2>1, <1>2
  <2>2. CASE q # p
    <3>1. px[q] = prog[q]
      BY <2>2 DEF Typed
    <3>2. KernelsIn(kx, q) = KernelsIn(kern, q)
      BY <2>2 DEF Typed, KernelsIn
    <3>3. QED  BY <3>1, <3>2, <1>2
  <2>3. QED  BY <2>1, <2>2
<1>5. ASSUME NEW l \in Kernels PROVE KernelOK(kx[l], px, ox[l])
  <2>1. CASE l = k
    <3>1. kx[l] = rk /\ ox[l] = n
      BY <2>1 DEF Typed, Objects
    <3>2. QED  BY <3>1
  <2>2. CASE l # k
    <3>1. kx[l] = kern[l] /\ ox[l] = own[l]
      BY <2>2 DEF Typed, Objects
    <3>2. KernelOK(kern[l], prog, own[l])
      OBVIOUS
    <3>3. kern[l].st = "live" /\ kern[l].prog \in Programs =>
            px[kern[l].prog].built = prog[kern[l].prog].built /\ px[kern[l].prog].devs = prog[kern[l].prog].devs
      BY DEF Typed
    <3>4. QED  BY SMTT(60), <3>1, <3>2, <3>3 DEF KernelOK, FromOwn
  <2>3. QED  BY <2>1, <2>2
<1>6. QED
  BY <1>1, <1>3, <1>4, <1>5
-----------------------------------------------------------------------------
(* Lists.                                                                  *)

\* The devices that match a type are devices.
LEMMA MatchingType ==
  ASSUME NEW table \in Seq(Devices), NEW type
  PROVE  Matching(table, type) \in Seq(Devices)
<1> DEFINE n == Len(table)
           V == Seq(Devices)
           G(m, v) == IF TypeOf[table[m]] \cap type # {} THEN Append(v, table[m]) ELSE v
           F == [kv \in (1..n) \X V |-> G(kv[1], kv[2])]
           Holds(g) == g = [m \in 0..n |-> IF m = 0 THEN <<>> ELSE G(m, g[m - 1])]
           e == CHOOSE g : Holds(g)
<1>1. n \in Nat /\ <<>> \in V
  OBVIOUS
<1>2. ASSUME NEW m \in 1..n, NEW v \in V PROVE G(m, v) \in V
  <2>1. table[m] \in Devices
    OBVIOUS
  <2>2. Append(v, table[m]) \in V
    BY <2>1
  <2>3. QED  BY <2>2
<1>3. Matching(table, type) = e[n]
  BY DEF Matching
<1> HIDE DEF G, V, n
<1>4. F \in StepsOn(n, V)
  BY <1>2 DEF StepsOn
<1>5. PICK f : f \in RecursiveOn(n, V, <<>>, F)
  <2> HIDE DEF F
  <2> QED  BY <1>1, <1>4, RecursiveFunction
<1>6. Holds(f)
  <2>1. f \in [0..n -> V] /\ f[0] = <<>> /\ \A m \in 1..n : f[m] = F[<<m, f[m - 1]>>]
    <3> HIDE DEF F
    <3> QED  BY <1>5 DEF RecursiveOn
  <2>2. ASSUME NEW m \in 1..n PROVE f[m] = G(m, f[m - 1])
    <3>1. f[m - 1] \in V
      BY <2>1, <1>1
    <3>2. QED  BY <2>1, <3>1
  <2>3. ASSUME NEW m \in 0..n PROVE f[m] = IF m = 0 THEN <<>> ELSE G(m, f[m - 1])
    BY <2>1, <2>2, <1>1
  <2>4. QED  BY <2>1, <2>3, <1>1
<1>7. Holds(e)
  BY <1>6
<1> HIDE DEF e
<1>8. e[0] = <<>>
  <2>1. 0 \in 0..n
    BY <1>1
  <2>2. QED  BY <1>7, <2>1
<1>9. ASSUME NEW m \in 1..n PROVE e[m] = G(m, e[m - 1])
  <2>1. m \in 0..n /\ m # 0
    BY <1>1
  <2>2. QED  BY <1>7, <2>1
<1>10. \A m \in Nat : m <= n => e[m] \in V
  <2> DEFINE S == {m \in Nat : m <= n => e[m] \in V}
  <2>1. 0 \in S
    BY <1>8, <1>1
  <2>2. ASSUME NEW m \in Nat, m \in S PROVE m + 1 \in S
    <3> SUFFICES ASSUME m + 1 <= n PROVE e[m + 1] \in V
      OBVIOUS
    <3>1. e[m] \in V /\ m + 1 \in 1..n /\ (m + 1) - 1 = m
      BY <2>2, <1>1
    <3>2. e[m + 1] = G(m + 1, e[m])
      BY <1>9, <3>1
    <3>3. QED  BY <3>1, <3>2, <1>2
  <2>3. Nat \subseteq S
    <3> HIDE DEF S
    <3> QED  BY <2>1, <2>2, SetInduction
  <2>4. QED  BY <2>3
<1>11. QED
  BY <1>3, <1>10, <1>1 DEF V

\* The table is one of devices.
LEMMA TableType ==
  ASSUME NEW table \in Seq(Devices), NEW type
  PROVE  pocl_init_devices(table, type) \in Seq(Devices)
<1>1. "hsa" \in Devices /\ "pthread" \in Devices
  BY DEF Devices
<1>2. <<"hsa">> \in Seq(Devices) /\ <<"pthread">> \in Seq(Devices) /\ <<"pthread", "hsa">> \in Seq(Devices)
  BY <1>1
<1>3. QED
  BY <1>2 DEF pocl_init_devices

\* A list without the kernel at a place.
LEMMA Unlinked ==
  ASSUME NEW S, NEW s \in Seq(S), NEW at \in 1..Len(s), IsInjective(s)
  PROVE  /\ RemoveAt(s, at) \in Seq(S)
         /\ ToSet(RemoveAt(s, at)) = ToSet(s) \ {s[at]}
         /\ IsInjective(RemoveAt(s, at))
<1> DEFINE a == SubSeq(s, 1, at - 1)
           b == SubSeq(s, at + 1, Len(s))
           t == a \o b
<1>1. RemoveAt(s, at) = t
  BY DEF RemoveAt
<1>2. /\ a \in Seq(S) /\ Len(a) = at - 1 /\ \A i \in 1..(at - 1) : a[i] = s[i]
  OBVIOUS
<1>3. /\ b \in Seq(S) /\ Len(b) = Len(s) - at /\ \A i \in 1..(Len(s) - at) : b[i] = s[at + i]
  OBVIOUS
<1>4. /\ t \in Seq(S) /\ Len(t) = Len(s) - 1
      /\ \A i \in 1..(Len(s) - 1) : t[i] = IF i < at THEN s[i] ELSE s[i + 1]
  <2> HIDE DEF a, b
  <2>0. t \in Seq(S) /\ Len(t) = Len(a) + Len(b) /\ Len(s) \in Nat
    <3>1. a \in Seq(S) /\ b \in Seq(S)
      BY <1>2, <1>3
    <3>2. QED  BY <3>1
  <2>1. t \in Seq(S) /\ Len(t) = Len(s) - 1
    <3> HIDE DEF t
    <3> QED  BY <2>0, <1>2, <1>3
  <2>2. \A i \in 1..Len(t) : t[i] = IF i <= Len(a) THEN a[i] ELSE b[i - Len(a)]
    BY <1>2, <1>3
  <2>3. ASSUME NEW i \in 1..(Len(s) - 1) PROVE t[i] = IF i < at THEN s[i] ELSE s[i + 1]
    <3>1. t[i] = IF i <= Len(a) THEN a[i] ELSE b[i - Len(a)]
      BY <2>1, <2>2
    <3>2. CASE i < at
      BY <3>1, <3>2, <1>2
    <3>3. CASE i >= at
      <4>1. t[i] = b[i - (at - 1)] /\ i - (at - 1) \in 1..(Len(s) - at)
        BY <3>1, <3>3, <1>2
      <4>2. t[i] = s[at + (i - (at - 1))] /\ at + (i - (at - 1)) = i + 1
        BY <4>1, <1>3
      <4>3. QED  BY <4>2, <3>3
    <3>4. Len(s) \in Nat /\ (i < at \/ i >= at)
      OBVIOUS
    <3>5. QED  BY <3>2, <3>3, <3>4
  <2>4. QED  BY <2>1, <2>3
<1> HIDE DEF t
<1>5. \A i, j \in 1..Len(s) : s[i] = s[j] => i = j
  BY DEF IsInjective
<1>6. ToSet(t) = ToSet(s) \ {s[at]}
  <2>1. ASSUME NEW i \in 1..Len(t) PROVE t[i] \in ToSet(s) \ {s[at]}
    BY <1>4, <1>5 DEF ToSet
  <2>2. ASSUME NEW x \in ToSet(s) \ {s[at]} PROVE x \in ToSet(t)
    <3>1. PICK i \in 1..Len(s) : s[i] = x
      BY DEF ToSet
    <3>2. i # at
      BY <3>1
    <3>3. CASE i < at
      <4>1. i \in 1..Len(t) /\ t[i] = x
        BY <3>1, <3>3, <1>4
      <4>2. QED  BY <4>1, <1>4 DEF ToSet
    <3>4. CASE i > at
      <4>1. i - 1 \in 1..Len(t) /\ t[i - 1] = x
        BY <3>1, <3>4, <1>4
      <4>2. QED  BY <4>1, <1>4 DEF ToSet
    <3>5. QED  BY <3>2, <3>3, <3>4
  <2>3. DOMAIN t = 1..Len(t)
    BY <1>4
  <2>4. ToSet(t) \subseteq ToSet(s) \ {s[at]}
    <3> SUFFICES ASSUME NEW i \in DOMAIN t PROVE t[i] \in ToSet(s) \ {s[at]}
      BY DEF ToSet
    <3> QED  BY <2>1, <2>3
  <2>5. QED  BY <2>2, <2>4
<1>7. IsInjective(t)
  BY <1>4, <1>5 DEF IsInjective
<1>8. QED
  BY <1>1, <1>4, <1>6, <1>7

\* A list with one more kernel in front.
LEMMA Linked ==
  ASSUME NEW S, NEW s \in Seq(S), NEW x \in S, x \notin ToSet(s), IsInjective(s)
  PROVE  /\ <<x>> \o s \in Seq(S) /\ ToSet(<<x>> \o s) = ToSet(s) \cup {x}
         /\ IsInjective(<<x>> \o s)
<1> DEFINE t == <<x>> \o s
<1>1. /\ t \in Seq(S) /\ Len(t) = Len(s) + 1 /\ t[1] = x
      /\ \A i \in 1..Len(s) : t[i + 1] = s[i]
  OBVIOUS
<1> HIDE DEF t
<1>2. \A i \in 1..Len(t) : i = 1 \/ (i - 1 \in 1..Len(s) /\ t[i] = s[i - 1])
  <2> SUFFICES ASSUME NEW i \in 1..Len(t), i # 1 PROVE i - 1 \in 1..Len(s) /\ t[i] = s[i - 1]
    OBVIOUS
  <2>1. i - 1 \in 1..Len(s) /\ (i - 1) + 1 = i
    BY <1>1
  <2>2. QED  BY <2>1, <1>1
<1>3. \A i, j \in 1..Len(s) : s[i] = s[j] => i = j
  BY DEF IsInjective
<1>4. \A i \in 1..Len(s) : s[i] # x
  BY DEF ToSet
<1>5. ToSet(t) = ToSet(s) \cup {x}
  <2>1. ASSUME NEW i \in 1..Len(t) PROVE t[i] \in ToSet(s) \cup {x}
    BY <1>1, <1>2 DEF ToSet
  <2>2. ASSUME NEW i \in 1..Len(s) PROVE s[i] \in ToSet(t)
    <3>1. i + 1 \in 1..Len(t) /\ t[i + 1] = s[i]
      BY <1>1
    <3>2. QED  BY <3>1, <1>1 DEF ToSet
  <2>3. x \in ToSet(t)
    BY <1>1 DEF ToSet
  <2>4. QED  BY SMTT(60), <2>1, <2>2, <2>3, <1>1 DEF ToSet
<1>6. IsInjective(t)
  <2>1. ASSUME NEW i \in 1..Len(t), NEW j \in 1..Len(t), t[i] = t[j] PROVE i = j
    <3>1. CASE i = 1
      BY <2>1, <3>1, <1>1, <1>2, <1>4
    <3>2. CASE j = 1
      BY <2>1, <3>2, <1>1, <1>2, <1>4
    <3>3. CASE i # 1 /\ j # 1
      <4>1. i - 1 \in 1..Len(s) /\ j - 1 \in 1..Len(s) /\ s[i - 1] = s[j - 1]
        BY <2>1, <3>3, <1>2
      <4>2. i - 1 = j - 1
        BY <4>1, <1>3
      <4>3. QED  BY <4>2
    <3>4. QED  BY <3>1, <3>2, <3>3
  <2>2. QED  BY <2>1, <1>1 DEF IsInjective
<1>7. QED
  BY <1>1, <1>5, <1>6 DEF t
-----------------------------------------------------------------------------
(* Devices and contexts.                                                   *)

\* Lists of known devices.
LEMMA ListsType ==
  ASSUME NEW D, D \subseteq Devices, NEW list \in Lists(D)
  PROVE  list \in Seq(Devices) /\ list # <<>>
<1>1. CASE list \in {<<d>> : d \in D}
  <2>1. PICK d \in D : list = <<d>>
    BY <1>1
  <2>2. d \in Devices
    OBVIOUS
  <2>3. QED  BY <2>1, <2>2
<1>2. CASE list \in {<<d, e>> : d, e \in D}
  <2>1. PICK d \in D, e \in D : list = <<d, e>>
    BY <1>2
  <2>2. d \in Devices /\ e \in Devices
    OBVIOUS
  <2>3. QED  BY <2>1, <2>2
<1>3. QED
  BY <1>1, <1>2 DEF Lists

LEMMA InitInvariant == Init => IInv
<1> SUFFICES ASSUME Init PROVE IInv
  OBVIOUS
<1>1. HasFields(h)
  BY DEF Init, HasFields
<1>2. h.table \in Seq(Devices) /\ known \subseteq Devices
  BY DEF Init
<1> DEFINE ctx == [c \in Contexts |-> NoContext]
           prog == [p \in Programs |-> NoProgram]
           kern == [k \in Kernels |-> NoKernel]
<1>3. h.ctx = ctx /\ h.prog = prog /\ h.kern = kern /\ held = [o \in Objects |-> 0]
  BY DEF Init
<1>4. NoContext \in ContextType /\ NoProgram \in ProgramType /\ NoKernel \in KernelType
  BY DEF NoContext, NoProgram, NoKernel, ContextType, ProgramType, KernelType, BinariesType, Stages
<1>5. Typed(ctx, prog, kern, held)
  BY <1>3, <1>4 DEF Typed
<1>6. /\ \A c : ProgramsIn(prog, c) = {}
      /\ \A p : KernelsIn(kern, p) = {}
  BY DEF ProgramsIn, KernelsIn, NoProgram, NoKernel
<1>7. \A c \in Contexts : ContextOK(ctx[c], ProgramsIn(prog, c), held[c])
  BY <1>3, <1>6, FS_EmptySet DEF ContextOK, NoContext, Objects
<1>8. \A p \in Programs : ProgramOK(prog[p], KernelsIn(kern, p), held[p])
  BY <1>3, <1>6, FS_EmptySet DEF ProgramOK, NoProgram, Objects
<1>9. \A k \in Kernels : KernelOK(kern[k], prog, held[k])
  BY <1>3 DEF KernelOK, NoKernel, Objects
<1>10. QED
  BY <1>1, <1>2, <1>3, <1>5, <1>7, <1>8, <1>9 DEF IInv, Good

LEMMA GetDeviceIDsStep ==
  ASSUME IInv, NEW type, clGetDeviceIDs(type)
  PROVE  IInv'
<1> DEFINE table == pocl_init_devices(h.table, type)
           found == Matching(table, type)
           hw == InitFound(h.hw, found)
<1>1. /\ h' = [h EXCEPT !.table = table, !.hw = hw] /\ known' = known \cup ToSet(found)
      /\ held' = held
  BY DEF clGetDeviceIDs
<1>2. table \in Seq(Devices)
  BY TableType DEF IInv
<1> HIDE DEF table
<1>3. found \in Seq(Devices)
  BY <1>2, MatchingType
<1> HIDE DEF found, hw
<1>4. known' \subseteq Devices
  <2>1. ToSet(found) \subseteq Devices
    BY <1>3 DEF ToSet
  <2>2. QED  BY <1>1, <2>1 DEF IInv
<1>5. /\ HasFields(h') /\ h'.table = table
      /\ h'.ctx = h.ctx /\ h'.prog = h.prog /\ h'.kern = h.kern
  BY <1>1 DEF IInv, HasFields
<1>6. QED
  BY <1>1, <1>2, <1>4, <1>5 DEF IInv

\* A new context, one that was refused, or one the client has a reference less
\* or more of.
LEMMA OneContext ==
  ASSUME IInv, NEW c \in Contexts, NEW r \in ContextType, NEW n \in Nat, NEW table \in Seq(Devices), NEW hw,
         ContextOK(r, ProgramsIn(h.prog, c), n),
         h' = [h EXCEPT !.table = table, !.hw = hw, !.ctx[c] = r],
         held' = [held EXCEPT ![c] = n], known' = known
  PROVE  IInv'
<1>1. /\ HasFields(h') /\ h'.table = table
      /\ h'.ctx = [h.ctx EXCEPT ![c] = r] /\ h'.prog = h.prog /\ h'.kern = h.kern
  BY DEF IInv, HasFields
<1>2. Good(h.ctx, h.prog, h.kern, held)
  BY DEF IInv
<1>3. Good([h.ctx EXCEPT ![c] = r], h.prog, h.kern, [held EXCEPT ![c] = n])
  BY <1>2, ContextStep
<1>4. QED
  BY <1>1, <1>3 DEF IInv

LEMMA CreateContextStep ==
  ASSUME IInv, NEW c \in Contexts, NEW list \in Lists(known), clCreateContext(c, list)
  PROVE  IInv'
<1>1. list \in Seq(Devices) /\ list # <<>>
  BY ListsType DEF IInv
<1>2. NewContext(list) \in ContextType
  BY <1>1 DEF NewContext, ContextType, Stages
<1>3. ProgramsIn(h.prog, c) = {} /\ h.table \in Seq(Devices)
  BY DEF clCreateContext, IInv, Good, ContextOK
<1>4. ContextOK(NewContext(list), ProgramsIn(h.prog, c), 1)
  BY <1>1, <1>3, FS_EmptySet DEF ContextOK, NewContext
<1>5. /\ h' = [h EXCEPT !.table = h.table, !.hw = RetainAll(h.hw, list), !.ctx[c] = NewContext(list)]
      /\ held' = [held EXCEPT ![c] = 1] /\ known' = known
  <2>1. h = [h EXCEPT !.table = h.table]
    BY DEF IInv, HasFields
  <2>2. QED  BY <2>1 DEF clCreateContext, Created, IInv, HasFields
<1>6. QED
  BY <1>2, <1>3, <1>4, <1>5, OneContext

LEMMA ContextRefusedStep ==
  ASSUME IInv, NEW c \in Contexts, NEW list \in Lists(known), ContextRefused(c, list)
  PROVE  IInv'
<1> DEFINE r == [h.ctx[c] EXCEPT !.st = "freed"]
<1>1. h.ctx[c] \in ContextType /\ h.table \in Seq(Devices) /\ held \in [Objects -> Nat]
  BY DEF IInv, Good, Typed
<1>2. r \in ContextType /\ r.st = "freed"
  BY <1>1 DEF ContextType, Stages
<1>3. ProgramsIn(h.prog, c) = {} /\ held[c] = 0
  BY DEF ContextRefused, IInv, Good, ContextOK
<1>4. h' = [h EXCEPT !.table = h.table, !.hw = RetainAll(h.hw, list), !.ctx[c] = r]
  BY DEF ContextRefused, IInv, HasFields
<1>5. held' = [held EXCEPT ![c] = 0] /\ known' = known
  BY <1>1, <1>3 DEF ContextRefused, Failed, Objects
<1> HIDE DEF r
<1>6. ContextOK(r, ProgramsIn(h.prog, c), 0)
  BY <1>2, <1>3, FS_EmptySet DEF ContextOK
<1>7. QED
  BY <1>1, <1>2, <1>4, <1>5, <1>6, OneContext

LEMMA ContextFromTypeStep ==
  ASSUME IInv, NEW c \in Contexts, NEW type, clCreateContextFromType(c, type)
  PROVE  IInv'
<1> DEFINE table == pocl_init_devices(h.table, type)
           devs == Matching(table, type)
           hw == InitAndRetain(h.hw, type, devs)
           r == [NewContext(devs) EXCEPT !.valid = devs # <<>>]
<1>1. /\ h' = [h EXCEPT !.table = table, !.hw = hw, !.ctx[c] = r]
      /\ held' = [held EXCEPT ![c] = 1] /\ known' = known /\ h.ctx[c].st = "none"
  BY DEF clCreateContextFromType, Created
<1>2. table \in Seq(Devices)
  BY TableType DEF IInv
<1> HIDE DEF table
<1>3. devs \in Seq(Devices)
  BY <1>2, MatchingType
<1> HIDE DEF devs, hw
<1>4. r \in ContextType /\ r.st = "live" /\ r.ref = 1 /\ r.devs = devs /\ (r.valid <=> devs # <<>>)
  <2> DEFINE v == devs # <<>>
  <2>1. v \in BOOLEAN /\ (v <=> devs # <<>>)
    OBVIOUS
  <2>2. r = [st |-> "live", ref |-> 1, valid |-> v, devs |-> devs]
    BY DEF NewContext
  <2> HIDE DEF v, r
  <2>3. QED  BY <1>3, <2>1, <2>2 DEF ContextType, Stages
<1> HIDE DEF r
<1>5. ProgramsIn(h.prog, c) = {}
  BY <1>1 DEF IInv, Good, ContextOK
<1>6. ContextOK(r, ProgramsIn(h.prog, c), 1)
  BY <1>4, <1>5, FS_EmptySet DEF ContextOK
<1>7. QED
  BY <1>1, <1>2, <1>4, <1>6, OneContext

\* One reference less.
LEMMA OneLessContext ==
  ASSUME NEW x \in ContextType
  PROVE  LET r == [x EXCEPT !.ref = @ - 1]
             f == [x EXCEPT !.ref = @ - 1, !.st = "freed"]
         IN  /\ r \in ContextType /\ r.st = x.st /\ r.valid = x.valid /\ r.devs = x.devs /\ r.ref = x.ref - 1
             /\ f \in ContextType /\ f.st = "freed"
<1> DEFINE n == x.ref - 1
<1>1. n \in Int
  BY DEF ContextType
<1> HIDE DEF n
<1>2. /\ [x EXCEPT !.ref = n] \in ContextType /\ [x EXCEPT !.ref = n].st = x.st
      /\ [x EXCEPT !.ref = n].valid = x.valid /\ [x EXCEPT !.ref = n].devs = x.devs
      /\ [x EXCEPT !.ref = n].ref = n
  BY <1>1 DEF ContextType
<1>3. [x EXCEPT !.ref = n, !.st = "freed"] \in ContextType /\ [x EXCEPT !.ref = n, !.st = "freed"].st = "freed"
  BY <1>1 DEF ContextType, Stages
<1>4. QED
  BY <1>2, <1>3 DEF n

LEMMA RetainContextStep ==
  ASSUME IInv, NEW c \in Contexts, MayRetain(c), clRetainContext(c)
  PROVE  IInv'
<1> DEFINE r == [h.ctx[c] EXCEPT !.ref = @ + 1]
           P == ProgramsIn(h.prog, c)
<1>1. h.ctx[c] \in ContextType /\ h.table \in Seq(Devices) /\ held \in [Objects -> Nat] /\ held[c] \in Nat
  BY DEF IInv, Good, Typed, Objects
<1>2. /\ r \in ContextType /\ r.st = h.ctx[c].st /\ r.valid = h.ctx[c].valid /\ r.devs = h.ctx[c].devs
      /\ r.ref = h.ctx[c].ref + 1
  BY SMTT(60), <1>1 DEF ContextType
<1>3. h' = [h EXCEPT !.table = h.table, !.hw = h.hw, !.ctx[c] = r]
  BY DEF clRetainContext, IInv, HasFields
<1>4. held' = [held EXCEPT ![c] = held[c] + 1] /\ known' = known /\ held[c] > 0 /\ h.ctx[c].valid
  BY DEF clRetainContext, Retained, MayRetain, Owns
<1>5. ContextOK(h.ctx[c], P, held[c])
  BY DEF IInv, Good
<1> HIDE DEF r, P
<1>6. ContextOK(r, P, held[c] + 1)
  <2>1. IsFiniteSet(P) /\ Cardinality(P) \in Nat
    BY <1>5, FS_CardinalityType DEF ContextOK
  <2>2. h.ctx[c].st = "live"
    BY <1>4, <1>5 DEF ContextOK
  <2>3. QED  BY <1>1, <1>2, <1>4, <1>5, <2>1, <2>2 DEF ContextOK
<1>7. held[c] + 1 \in Nat
  BY <1>1
<1>8. QED
  BY <1>1, <1>2, <1>3, <1>4, <1>6, <1>7, OneContext DEF P

LEMMA ReleaseContextStep ==
  ASSUME IInv, NEW c \in Contexts, Owns(c), clReleaseContext(c)
  PROVE  IInv'
<1> DEFINE P == ProgramsIn(h.prog, c)
           s == [h EXCEPT !.ctx[c].ref = @ - 1]
<1>1. /\ h.ctx[c] \in ContextType /\ h.ctx \in [Contexts -> ContextType] /\ h.table \in Seq(Devices)
      /\ held \in [Objects -> Nat] /\ held[c] \in Nat
  BY DEF IInv, Good, Typed, Objects
<1>2. held' = [held EXCEPT ![c] = held[c] - 1] /\ known' = known /\ held[c] > 0
  BY DEF clReleaseContext, Dropped, Owns
<1>3. ContextOK(h.ctx[c], P, held[c])
  BY DEF IInv, Good
<1>4. h.ctx[c].st = "live"
  BY <1>2, <1>3 DEF ContextOK
<1>5. held[c] - 1 \in Nat /\ IsFiniteSet(P) /\ Cardinality(P) \in Nat
  BY <1>1, <1>2, <1>3, FS_CardinalityType DEF ContextOK
<1>6. CASE ~h.ctx[c].valid
  <2>1. h' = h
    BY <1>6 DEF clReleaseContext
  <2>2. h' = [h EXCEPT !.table = h.table, !.hw = h.hw, !.ctx[c] = h.ctx[c]]
    BY <2>1, <1>1 DEF IInv, HasFields
  <2>3. ContextOK(h.ctx[c], P, held[c] - 1)
    BY <1>3, <1>4, <1>6 DEF ContextOK
  <2>4. QED
    BY <1>1, <1>2, <1>5, <2>2, <2>3, OneContext
<1>7. CASE h.ctx[c].valid /\ h.ctx[c].ref - 1 > 0
  <2> DEFINE r == [h.ctx[c] EXCEPT !.ref = @ - 1]
  <2>1. /\ r \in ContextType /\ r.st = h.ctx[c].st /\ r.valid = h.ctx[c].valid /\ r.devs = h.ctx[c].devs
        /\ r.ref = h.ctx[c].ref - 1
    BY <1>1, OneLessContext
  <2>2. s.ctx[c].ref = h.ctx[c].ref - 1
    BY <1>1 DEF IInv, HasFields, ContextType
  <2>3. h' = s
    BY <1>7, <2>2 DEF clReleaseContext
  <2>4. h' = [h EXCEPT !.table = h.table, !.hw = h.hw, !.ctx[c] = r]
    BY <2>3 DEF IInv, HasFields
  <2> HIDE DEF r, P
  <2>5. ContextOK(r, P, held[c] - 1)
    BY <1>1, <1>3, <1>4, <1>5, <1>7, <2>1 DEF ContextOK
  <2>6. QED
    BY <1>1, <1>2, <1>5, <2>1, <2>4, <2>5, OneContext DEF P
<1>8. CASE h.ctx[c].valid /\ ~(h.ctx[c].ref - 1 > 0)
  <2> DEFINE r == [h.ctx[c] EXCEPT !.ref = @ - 1, !.st = "freed"]
             hw == ReleaseAll(s.hw, s.ctx[c].devs)
  <2>1. r \in ContextType /\ r.st = "freed"
    BY <1>1, OneLessContext
  <2>2. s.ctx[c].ref = h.ctx[c].ref - 1
    BY <1>1 DEF IInv, HasFields, ContextType
  <2>3. h' = [s EXCEPT !.hw = hw, !.ctx[c].st = "freed"]
    BY <1>8, <2>2 DEF clReleaseContext
  <2> HIDE DEF hw
  <2>4. h' = [h EXCEPT !.table = h.table, !.hw = hw, !.ctx[c] = r]
    BY <2>3, <1>1 DEF IInv, HasFields
  <2>5. h.ctx[c].ref = held[c] + Cardinality(P)
    BY <1>3, <1>4, <1>8 DEF ContextOK
  <2> HIDE DEF r, P
  <2>6. held[c] - 1 = 0 /\ Cardinality(P) = 0
    BY <2>5, <1>5, <1>8, <1>2, <1>1
  <2>7. P = {}
    BY <2>6, <1>5, FS_EmptySet
  <2>8. ContextOK(r, P, held[c] - 1)
    BY <2>1, <2>6, <2>7, FS_EmptySet DEF ContextOK
  <2>9. QED
    BY <1>1, <1>2, <1>5, <2>1, <2>4, <2>8, OneContext DEF P
<1>9. QED
  BY <1>6, <1>7, <1>8
-----------------------------------------------------------------------------
(* Programs.                                                               *)

\* A program and its context change.
LEMMA OneProgramFields ==
  ASSUME IInv, NEW c \in Contexts, NEW rc \in ContextType,
         NEW p \in Programs, NEW r \in ProgramType, NEW n \in Nat,
         h.prog[p].st = "live" => h.prog[p].ctx = c,
         r.st = "live" => r.ctx = c,
         ContextOK(rc, ProgramsIn([h.prog EXCEPT ![p] = r], c), held[c]),
         ProgramOK(r, KernelsIn(h.kern, p), n),
         KernelsIn(h.kern, p) # {} => r.built = h.prog[p].built /\ r.devs = h.prog[p].devs,
         HasFields(h'), h'.table = h.table,
         h'.ctx = [h.ctx EXCEPT ![c] = rc], h'.prog = [h.prog EXCEPT ![p] = r], h'.kern = h.kern,
         held' = [held EXCEPT ![p] = n], known' = known
  PROVE  IInv'
<1>1. Good(h.ctx, h.prog, h.kern, held)
  BY DEF IInv
<1>2. Good([h.ctx EXCEPT ![c] = rc], [h.prog EXCEPT ![p] = r], h.kern, [held EXCEPT ![p] = n])
  BY <1>1, ProgramStep
<1>3. QED
  BY <1>2 DEF IInv

LEMMA OneProgram ==
  ASSUME IInv, NEW c \in Contexts, NEW rc \in ContextType,
         NEW p \in Programs, NEW r \in ProgramType, NEW n \in Nat,
         h.prog[p].st = "live" => h.prog[p].ctx = c,
         r.st = "live" => r.ctx = c,
         ContextOK(rc, ProgramsIn([h.prog EXCEPT ![p] = r], c), held[c]),
         ProgramOK(r, KernelsIn(h.kern, p), n),
         KernelsIn(h.kern, p) # {} => r.built = h.prog[p].built /\ r.devs = h.prog[p].devs,
         h' = [h EXCEPT !.ctx[c] = rc, !.prog[p] = r],
         held' = [held EXCEPT ![p] = n], known' = known
  PROVE  IInv'
<1>1. /\ HasFields(h') /\ h'.table = h.table
      /\ h'.ctx = [h.ctx EXCEPT ![c] = rc] /\ h'.prog = [h.prog EXCEPT ![p] = r] /\ h'.kern = h.kern
  BY DEF IInv, HasFields
<1>2. QED
  BY <1>1, OneProgramFields

\* One reference more.
LEMMA OneMoreContext ==
  ASSUME NEW x \in ContextType
  PROVE  LET r == [x EXCEPT !.ref = @ + 1]
         IN  r \in ContextType /\ r.st = x.st /\ r.valid = x.valid /\ r.devs = x.devs /\ r.ref = x.ref + 1
<1> DEFINE n == x.ref + 1
<1>1. n \in Int
  BY DEF ContextType
<1> HIDE DEF n
<1>2. /\ [x EXCEPT !.ref = n] \in ContextType /\ [x EXCEPT !.ref = n].st = x.st
      /\ [x EXCEPT !.ref = n].valid = x.valid /\ [x EXCEPT !.ref = n].devs = x.devs
      /\ [x EXCEPT !.ref = n].ref = n
  BY <1>1 DEF ContextType
<1>3. QED
  BY <1>2 DEF n

\* A new program of a context the client has.
LEMMA NewProgram ==
  ASSUME IInv, NEW c \in Contexts, Owns(c), h.ctx[c].valid,
         NEW p \in Programs, h.prog[p].st = "none", NEW r \in ProgramType,
         r.st = "live", r.ref = 1, r.ctx = c, r.devs # <<>>, r.kernels = <<>>,
         r.binaries.st # "freed", BinariesOK(r),
         h' = [RetainContext(h, c) EXCEPT !.prog[p] = r], Created(p)
  PROVE  IInv'
<1> DEFINE rc == [h.ctx[c] EXCEPT !.ref = @ + 1]
           P == ProgramsIn(h.prog, c)
           Q == ProgramsIn([h.prog EXCEPT ![p] = r], c)
<1>1. /\ h.ctx[c] \in ContextType /\ h.prog \in [Programs -> ProgramType]
      /\ held \in [Objects -> Nat] /\ held[c] \in Nat
  BY DEF IInv, Good, Typed, Objects
<1>2. /\ rc \in ContextType /\ rc.st = h.ctx[c].st /\ rc.valid = h.ctx[c].valid
      /\ rc.devs = h.ctx[c].devs /\ rc.ref = h.ctx[c].ref + 1
  BY <1>1, OneMoreContext
<1>3. h' = [h EXCEPT !.ctx[c] = rc, !.prog[p] = r]
  BY DEF RetainContext, IInv, HasFields
<1>4. held' = [held EXCEPT ![p] = 1] /\ known' = known
  BY DEF Created
<1>5. ContextOK(h.ctx[c], P, held[c]) /\ held[c] > 0
  BY DEF IInv, Good, Owns
<1>6. Q = P \cup {p} /\ p \notin P
  BY <1>1 DEF ProgramsIn
<1>7. IsFiniteSet(Q) /\ Cardinality(Q) = Cardinality(P) + 1 /\ Cardinality(P) \in Nat
  <2>1. IsFiniteSet(P)
    BY <1>5 DEF ContextOK
  <2> HIDE DEF P, Q
  <2>2. QED
    BY <1>6, <2>1, FS_AddElement, FS_CardinalityType
<1> HIDE DEF rc, P
<1>8. ContextOK(rc, Q, held[c])
  <2> HIDE DEF Q
  <2>1. h.ctx[c].st = "live" /\ h.ctx[c].ref = held[c] + Cardinality(P) /\ h.ctx[c].devs # <<>>
    BY <1>5 DEF ContextOK
  <2>2. rc.ref = held[c] + Cardinality(Q)
    BY <2>1, <1>1, <1>2, <1>7
  <2>3. QED
    BY <2>1, <2>2, <1>2, <1>7 DEF ContextOK
<1>9. ProgramOK(r, KernelsIn(h.kern, p), 1)
  <2>1. KernelsIn(h.kern, p) = {}
    BY DEF IInv, Good, ProgramOK
  <2>2. ToSet(r.kernels) = {} /\ IsInjective(r.kernels)
    BY DEF ToSet, IsInjective
  <2>3. QED  BY <2>1, <2>2, FS_EmptySet DEF ProgramOK
<1>10. KernelsIn(h.kern, p) = {} /\ (h.prog[p].st # "live")
  BY DEF IInv, Good, ProgramOK
<1>11. QED
  BY <1>2, <1>3, <1>4, <1>8, <1>9, <1>10, OneProgram

\* The devices of a context the client has.
LEMMA ContextDevices ==
  ASSUME IInv, NEW c \in Contexts, Owns(c), h.ctx[c].valid
  PROVE  h.ctx[c].devs \in Seq(Devices) /\ h.ctx[c].devs # <<>>
<1>1. h.ctx[c] \in ContextType /\ ContextOK(h.ctx[c], ProgramsIn(h.prog, c), held[c])
  BY DEF IInv, Good, Typed
<1>2. held[c] > 0
  BY DEF Owns
<1>3. QED
  BY <1>1, <1>2 DEF ContextOK, ContextType

\* The records the two functions make.
LEMMA ProgramRecords ==
  ASSUME NEW x \in ProgramType, NEW st \in Stages, NEW n \in Int, NEW c \in Contexts,
         NEW devs \in Seq(Devices), NEW source \in BOOLEAN, NEW b \in BinariesType
  PROVE  /\ [x EXCEPT !.st = st, !.ref = n, !.ctx = c, !.devs = devs, !.source = source] \in ProgramType
         /\ [x EXCEPT !.st = st, !.ref = n, !.ctx = c, !.devs = devs, !.built = devs,
                      !.binaries = b] \in ProgramType
BY DEF ProgramType

LEMMA ProgramWithSourceStep ==
  ASSUME IInv, NEW c \in Contexts, Owns(c), NEW p \in Programs, clCreateProgramWithSource(p, c)
  PROVE  IInv'
<1> DEFINE devs == h.ctx[c].devs
           r == [NoProgram EXCEPT !.st = "live", !.ref = 1, !.ctx = c, !.devs = devs, !.source = TRUE]
<1>1. h.prog[p].st = "none" /\ h.ctx[c].valid /\ Created(p) /\ h' = [RetainContext(h, c) EXCEPT !.prog[p] = r]
  BY DEF clCreateProgramWithSource
<1>2. devs \in Seq(Devices) /\ devs # <<>>
  BY <1>1, ContextDevices
<1> HIDE DEF devs
<1>3. NoProgram \in ProgramType /\ NoProgram.kernels = <<>> /\ NoProgram.binaries.st = "null"
  BY DEF NoProgram, ProgramType, BinariesType, Stages
<1>4. r \in ProgramType
  <2>1. "live" \in Stages /\ 1 \in Int /\ TRUE \in BOOLEAN /\ [st |-> "null", of |-> <<>>] \in BinariesType
    BY DEF Stages, BinariesType
  <2>2. QED  BY <1>2, <1>3, <2>1, ProgramRecords
<1>5. /\ r.st = "live" /\ r.ref = 1 /\ r.ctx = c /\ r.devs = devs /\ r.kernels = <<>>
      /\ r.binaries.st = "null"
  BY <1>3 DEF ProgramType
<1> HIDE DEF r
<1>6. BinariesOK(r)
  BY <1>5 DEF BinariesOK
<1>7. QED
  BY <1>1, <1>2, <1>4, <1>5, <1>6, NewProgram

LEMMA ProgramWithBinaryStep ==
  ASSUME IInv, NEW c \in Contexts, Owns(c), NEW p \in Programs,
         NEW list \in Distinct(ToSet(h.ctx[c].devs)), clCreateProgramWithBinary(p, c, list)
  PROVE  IInv'
<1> DEFINE r == [NoProgram EXCEPT !.st = "live", !.ref = 1, !.ctx = c, !.devs = list, !.built = list,
                                  !.binaries = [st |-> "live", of |-> list]]
<1>1. h.prog[p].st = "none" /\ h.ctx[c].valid /\ Created(p) /\ h' = [RetainContext(h, c) EXCEPT !.prog[p] = r]
  BY DEF clCreateProgramWithBinary
<1>2. list \in Seq(Devices) /\ list # <<>>
  <2>1. h.ctx[c].devs \in Seq(Devices)
    BY <1>1, ContextDevices
  <2>2. ToSet(h.ctx[c].devs) \subseteq Devices
    BY <2>1 DEF ToSet
  <2>3. QED
    BY <2>2, ListsType DEF Distinct
<1>3. NoProgram \in ProgramType /\ NoProgram.kernels = <<>>
  BY DEF NoProgram, ProgramType, BinariesType, Stages
<1>4. r \in ProgramType
  <2>1. /\ "live" \in Stages /\ 1 \in Int /\ TRUE \in BOOLEAN
        /\ [st |-> "live", of |-> list] \in BinariesType
    BY <1>2 DEF Stages, BinariesType
  <2>2. QED  BY <1>2, <1>3, <2>1, ProgramRecords
<1>5. /\ r.st = "live" /\ r.ref = 1 /\ r.ctx = c /\ r.devs = list /\ r.kernels = <<>>
      /\ r.binaries.st = "live" /\ r.binaries.of = list /\ r.built = list
  BY <1>3 DEF ProgramType
<1> HIDE DEF r
<1>6. BinariesOK(r)
  BY <1>5 DEF BinariesOK
<1>7. QED
  BY <1>1, <1>2, <1>4, <1>5, <1>6, NewProgram

\* A program the client has changes, and stays one of its context.
LEMMA KeptProgram ==
  ASSUME IInv, NEW p \in Programs, Owns(p), NEW r \in ProgramType, NEW n \in Nat,
         r.st = h.prog[p].st, r.ctx = h.prog[p].ctx,
         ProgramOK(r, KernelsIn(h.kern, p), n),
         KernelsIn(h.kern, p) # {} => r.built = h.prog[p].built /\ r.devs = h.prog[p].devs,
         h' = [h EXCEPT !.prog[p] = r], held' = [held EXCEPT ![p] = n], known' = known
  PROVE  IInv'
<1> DEFINE c == h.prog[p].ctx
<1>1. h.prog \in [Programs -> ProgramType] /\ h.ctx \in [Contexts -> ContextType]
  BY DEF IInv, Good, Typed
<1>2. h.prog[p].st = "live" /\ c \in Contexts
  <2>1. ProgramOK(h.prog[p], KernelsIn(h.kern, p), held[p])
    BY DEF IInv, Good
  <2>2. QED  BY <2>1 DEF ProgramOK, Owns
<1>3. ProgramsIn([h.prog EXCEPT ![p] = r], c) = ProgramsIn(h.prog, c)
  BY <1>1, <1>2 DEF ProgramsIn
<1>4. ContextOK(h.ctx[c], ProgramsIn([h.prog EXCEPT ![p] = r], c), held[c])
  BY <1>2, <1>3 DEF IInv, Good
<1>5. h' = [h EXCEPT !.ctx[c] = h.ctx[c], !.prog[p] = r]
  BY <1>1 DEF IInv, HasFields
<1>6. h.ctx[c] \in ContextType
  BY <1>1, <1>2
<1> HIDE DEF c
<1>7. QED
  BY <1>2, <1>4, <1>5, <1>6, OneProgram DEF c

\* One reference more, or less.
LEMMA ProgramCount ==
  ASSUME NEW x \in ProgramType, NEW n \in Int
  PROVE  LET r == [x EXCEPT !.ref = n]
         IN  /\ r \in ProgramType /\ r.st = x.st /\ r.ctx = x.ctx /\ r.ref = n /\ r.devs = x.devs
             /\ r.kernels = x.kernels /\ r.built = x.built /\ r.binaries = x.binaries
BY DEF ProgramType

\* What IInv says of a program the client has.
LEMMA OwnProgram ==
  ASSUME IInv, NEW p \in Programs, Owns(p)
  PROVE  /\ h.prog[p] \in ProgramType /\ h.prog[p].st = "live" /\ h.prog[p].ctx \in Contexts
         /\ held \in [Objects -> Nat] /\ held[p] \in Nat /\ held[p] > 0
         /\ ProgramOK(h.prog[p], KernelsIn(h.kern, p), held[p])
         /\ IsFiniteSet(KernelsIn(h.kern, p)) /\ Cardinality(KernelsIn(h.kern, p)) \in Nat
<1>1. /\ h.prog[p] \in ProgramType /\ held \in [Objects -> Nat] /\ held[p] \in Nat
      /\ ProgramOK(h.prog[p], KernelsIn(h.kern, p), held[p])
  BY DEF IInv, Good, Typed, Objects
<1>2. held[p] > 0
  BY DEF Owns
<1>3. QED
  BY <1>1, <1>2, FS_CardinalityType DEF ProgramOK

LEMMA RetainProgramStep ==
  ASSUME IInv, NEW p \in Programs, MayRetain(p), clRetainProgram(p)
  PROVE  IInv'
<1> DEFINE x == h.prog[p]
           r == [x EXCEPT !.ref = x.ref + 1]
           K == KernelsIn(h.kern, p)
<1>1. Owns(p)
  BY DEF MayRetain
<1>2. /\ x \in ProgramType /\ x.st = "live" /\ held[p] \in Nat /\ ProgramOK(x, K, held[p])
      /\ IsFiniteSet(K) /\ Cardinality(K) \in Nat
  BY <1>1, OwnProgram
<1>3. x.ref + 1 \in Int
  BY <1>2 DEF ProgramType
<1>4. /\ r \in ProgramType /\ r.st = x.st /\ r.ctx = x.ctx /\ r.ref = x.ref + 1 /\ r.devs = x.devs
      /\ r.kernels = x.kernels /\ r.built = x.built /\ r.binaries = x.binaries
  BY <1>2, <1>3, ProgramCount
<1>5. /\ h' = [h EXCEPT !.prog[p] = r] /\ held' = [held EXCEPT ![p] = held[p] + 1] /\ known' = known
  BY DEF clRetainProgram, Retained
<1>6. ProgramOK(r, K, held[p] + 1)
  <2> HIDE DEF r, K, x
  <2>1. x.ref = held[p] + Cardinality(K) /\ x.ref > 0
    BY <1>2 DEF ProgramOK
  <2>2. r.ref = (held[p] + 1) + Cardinality(K) /\ r.ref > 0
    BY <2>1, <1>2, <1>4
  <2>3. QED
    BY <2>2, <1>2, <1>4 DEF ProgramOK, BinariesOK
<1>7. held[p] + 1 \in Nat
  BY <1>2
<1> HIDE DEF r
<1>8. QED
  BY <1>1, <1>4, <1>5, <1>6, <1>7, KeptProgram

\* The largest of the places up to i.
LEMMA MaxPlace ==
  ASSUME NEW i \in Nat, NEW S, S \subseteq 1..i, S # {}
  PROVE  Max(S) \in S
<1> DEFINE T == {i - j : j \in S}
<1>1. T \subseteq Nat /\ T # {}
  <2>1. \A j \in S : i - j \in Nat
    OBVIOUS
  <2>2. T \subseteq Nat
    BY <2>1
  <2>3. PICK j \in S : TRUE
    OBVIOUS
  <2>4. i - j \in T
    OBVIOUS
  <2>5. QED  BY <2>2, <2>4
<1>2. PICK x \in T : \A y \in T : x <= y
  <2> HIDE DEF T
  <2> QED  BY <1>1, LeastElement
<1>3. PICK j \in S : x = i - j
  BY <1>2
<1>4. \A l \in S : j >= l
  <2> SUFFICES ASSUME NEW l \in S PROVE j >= l
    OBVIOUS
  <2>1. i - j <= i - l
    BY <1>2, <1>3
  <2>2. QED  BY <2>1
<1>5. QED
  BY <1>3, <1>4 DEF Max

\* Whatever the list, the binary of a CPU is made for it.
LEMMA BinaryFileType ==
  ASSUME NEW list \in Seq(Devices), NEW i \in 1..Len(list)
  PROVE  BinaryFile(list, i) \in Devices /\ (~IsGPU(list[i]) => BinaryFile(list, i) = list[i])
<1> DEFINE before == {j \in 1..i : ~IsGPU(list[j])}
<1>1. list[i] \in Devices
  OBVIOUS
<1>2. CASE IsGPU(list[i]) /\ before # {}
  <2>1. before \subseteq 1..i /\ i \in Nat
    OBVIOUS
  <2>2. Max(before) \in before
    <3> HIDE DEF before
    <3> QED  BY <1>2, <2>1, MaxPlace
  <2>3. list[Max(before)] \in Devices
    <3>1. Max(before) \in 1..Len(list)
      BY <2>1, <2>2
    <3> HIDE DEF before
    <3>2. QED  BY <3>1
  <2>4. BinaryFile(list, i) = list[Max(before)]
    BY <1>2 DEF BinaryFile
  <2>5. QED  BY <1>2, <2>3, <2>4
<1>3. CASE ~(IsGPU(list[i]) /\ before # {})
  BY <1>1, <1>3 DEF BinaryFile
<1>4. QED
  BY <1>2, <1>3

\* The list a build goes through.
LEMMA RealType ==
  ASSUME IInv, NEW p \in Programs, Owns(p), NEW list \in Distinct(ToSet(h.prog[p].devs)) \cup {<<>>}
  PROVE  Real(p, list) \in Seq(Devices)
<1>1. h.prog[p].devs \in Seq(Devices)
  BY OwnProgram DEF ProgramType
<1>2. CASE list = <<>>
  BY <1>1, <1>2 DEF Real
<1>3. CASE list # <<>>
  <2>1. list \in Lists(ToSet(h.prog[p].devs))
    BY <1>3 DEF Distinct
  <2>2. ToSet(h.prog[p].devs) \subseteq Devices
    BY <1>1 DEF ToSet
  <2>3. QED  BY <1>3, <2>1, <2>2, ListsType DEF Real
<1>4. QED
  BY <1>2, <1>3

\* A build changes a program that has no kernel.
LEMMA BuiltProgram ==
  ASSUME IInv, NEW p \in Programs, Owns(p), MayBuild(p), NEW r \in ProgramType,
         r.st = h.prog[p].st, r.ctx = h.prog[p].ctx, r.ref = h.prog[p].ref, r.devs = h.prog[p].devs,
         r.kernels = h.prog[p].kernels, r.binaries.st # "freed", BinariesOK(r),
         h' = [h EXCEPT !.prog[p] = r], Failed
  PROVE  IInv'
<1> DEFINE x == h.prog[p]
           K == KernelsIn(h.kern, p)
<1>1. /\ x \in ProgramType /\ x.st = "live" /\ held[p] \in Nat /\ ProgramOK(x, K, held[p])
      /\ IsFiniteSet(K) /\ held \in [Objects -> Nat]
  BY OwnProgram
<1>2. x.kernels = <<>>
  BY DEF MayBuild
<1> HIDE DEF K
<1>3. K = {}
  <2>1. ToSet(x.kernels) = K
    BY <1>1 DEF ProgramOK
  <2>2. QED  BY <2>1, <1>2 DEF ToSet
<1>4. ProgramOK(r, K, held[p])
  BY <1>1 DEF ProgramOK
<1>5. held' = [held EXCEPT ![p] = held[p]] /\ known' = known
  BY <1>1 DEF Failed, Objects
<1>6. QED
  BY <1>1, <1>3, <1>4, <1>5, KeptProgram DEF K

\* The devices in a part of a list.
LEMMA CPUsType ==
  ASSUME NEW list \in Seq(Devices), NEW n \in 0..Len(list)
  PROVE  /\ CPUs(list) \in SUBSET Devices
         /\ CPUs(SubSeq(list, 1, n)) \in SUBSET Devices
<1>1. SubSeq(list, 1, n) \in Seq(Devices)
  OBVIOUS
<1>2. \A l \in Seq(Devices) : ToSet(l) \subseteq Devices
  BY DEF ToSet
<1>3. QED
  BY <1>1, <1>2 DEF CPUs

LEMMA BuildSourceStep ==
  ASSUME IInv, NEW p \in Programs, Owns(p), NEW list \in Distinct(ToSet(h.prog[p].devs)) \cup {<<>>},
         BuildSource(p, list)
  PROVE  IInv'
<1> DEFINE x == h.prog[p]
           real == Real(p, list)
           hsa == x.hsaProgram \/ GPUs(x.devs) # {}
           dirs == x.dirs \cup CPUs(real)
           of == [i \in DOMAIN real |-> BinaryFile(real, i)]
           b == [st |-> "live", of |-> of]
<1>1. MayBuild(p) /\ Failed
  BY DEF BuildSource
<1>2. x \in ProgramType /\ h.prog \in [Programs -> ProgramType]
  BY OwnProgram DEF IInv, Good, Typed
<1>3. h' = [h EXCEPT !.prog[p].hsaProgram = hsa, !.prog[p].dirs = dirs, !.prog[p].built = real, !.prog[p].binaries = b]
  BY DEF BuildSource
<1>4. real \in Seq(Devices)
  BY RealType
<1> HIDE DEF real
<1>5. hsa \in BOOLEAN
  BY <1>2 DEF ProgramType
<1>6. dirs \in SUBSET Devices
  <2>1. CPUs(real) \in SUBSET Devices /\ x.dirs \in SUBSET Devices
    BY <1>2, <1>4, CPUsType DEF ProgramType
  <2>2. QED  BY <2>1
<1>7. /\ of \in Seq(Devices) /\ Len(of) = Len(real)
      /\ \A i \in 1..Len(real) : ~IsGPU(real[i]) => of[i] = real[i]
  <2>1. DOMAIN real = 1..Len(real) /\ Len(real) \in Nat
    BY <1>4
  <2>2. \A i \in 1..Len(real) : BinaryFile(real, i) \in Devices /\ (~IsGPU(real[i]) => BinaryFile(real, i) = real[i])
    BY <1>4, BinaryFileType
  <2>3. QED  BY <2>1, <2>2
<1> HIDE DEF hsa, dirs, of
<1>8. b \in BinariesType /\ b.st = "live" /\ b.of = of
  BY <1>7 DEF BinariesType
<1> HIDE DEF b
<1> DEFINE r == [x EXCEPT !.hsaProgram = hsa, !.dirs = dirs, !.built = real, !.binaries = b]
<1>9. h' = [h EXCEPT !.prog[p] = r]
  BY ZenonT(60), <1>2, <1>3 DEF IInv, HasFields
<1>10. /\ r \in ProgramType /\ r.st = x.st /\ r.ctx = x.ctx /\ r.ref = x.ref /\ r.devs = x.devs
       /\ r.kernels = x.kernels /\ r.built = real /\ r.binaries = b
  <2> HIDE DEF x
  <2> QED  BY <1>2, <1>4, <1>5, <1>6, <1>8 DEF ProgramType
<1> HIDE DEF r
<1>11. BinariesOK(r) /\ r.binaries.st # "freed"
  BY <1>7, <1>8, <1>10 DEF BinariesOK
<1>12. QED
  BY <1>1, <1>9, <1>10, <1>11, BuiltProgram

LEMMA BuildFailsStep ==
  ASSUME IInv, NEW p \in Programs, Owns(p), NEW list \in Distinct(ToSet(h.prog[p].devs)) \cup {<<>>},
         BuildFails(p, list)
  PROVE  IInv'
<1> DEFINE x == h.prog[p]
           real == Real(p, list)
<1>1. MayBuild(p) /\ Failed
  BY DEF BuildFails
<1>2. x \in ProgramType /\ h.prog \in [Programs -> ProgramType]
  BY OwnProgram DEF IInv, Good, Typed
<1>3. real \in Seq(Devices)
  BY RealType
<1>4. PICK i \in DOMAIN real :
        h' = [h EXCEPT !.prog[p].hsaProgram = @ \/ GPUs(h.prog[p].devs) # {},
                       !.prog[p].dirs = @ \cup CPUs(SubSeq(real, 1, i)),
                       !.prog[p].binaries.st = "null"]
  BY DEF BuildFails
<1> HIDE DEF real
<1> DEFINE hsa == x.hsaProgram \/ GPUs(x.devs) # {}
           dirs == x.dirs \cup CPUs(SubSeq(real, 1, i))
           b == [x.binaries EXCEPT !.st = "null"]
<1>5. h' = [h EXCEPT !.prog[p].hsaProgram = hsa, !.prog[p].dirs = dirs, !.prog[p].binaries.st = "null"]
  BY <1>4
<1>6. hsa \in BOOLEAN
  BY <1>2 DEF ProgramType
<1>7. dirs \in SUBSET Devices
  <2>1. i \in 0..Len(real)
    BY <1>3
  <2>2. CPUs(SubSeq(real, 1, i)) \in SUBSET Devices /\ x.dirs \in SUBSET Devices
    BY <1>2, <1>3, <2>1, CPUsType DEF ProgramType
  <2>3. QED  BY <2>2
<1>8. b \in BinariesType /\ b.st = "null"
  <2>1. x.binaries \in BinariesType
    BY <1>2 DEF ProgramType
  <2>2. QED  BY <2>1 DEF BinariesType
<1>9. x.built \in Seq(Devices)
  BY <1>2 DEF ProgramType
<1> HIDE DEF hsa, dirs
<1> DEFINE r == [x EXCEPT !.hsaProgram = hsa, !.dirs = dirs, !.binaries = b]
<1>10. h' = [h EXCEPT !.prog[p] = r]
  BY <1>2, <1>5 DEF IInv, HasFields, ProgramType
<1> HIDE DEF b
<1>11. /\ r \in ProgramType /\ r.st = x.st /\ r.ctx = x.ctx /\ r.ref = x.ref /\ r.devs = x.devs
       /\ r.kernels = x.kernels /\ r.built = x.built /\ r.binaries = b
  <2> HIDE DEF x
  <2> QED  BY <1>2, <1>6, <1>7, <1>8, <1>9 DEF ProgramType
<1> HIDE DEF r
<1>12. BinariesOK(r) /\ r.binaries.st # "freed"
  BY <1>8, <1>11 DEF BinariesOK
<1>13. QED
  BY <1>1, <1>10, <1>11, <1>12, BuiltProgram

LEMMA BuildBinaryStep ==
  ASSUME IInv, NEW p \in Programs, Owns(p), NEW list \in Distinct(ToSet(h.prog[p].devs)) \cup {<<>>},
         BuildBinary(p, list)
  PROVE  IInv'
<1> DEFINE x == h.prog[p]
           real == Real(p, list)
           old == {i \in DOMAIN real : real[i] \in h.prog[p].dirs \/ real[i] \in CPUs(SubSeq(real, 1, i - 1))}
           first == CHOOSE i \in old : \A j \in old : i <= j
           done == IF old = {} THEN real ELSE SubSeq(real, 1, first - 1)
           hsa == x.hsaProgram \/ GPUs(done) # {}
           dirs == x.dirs \cup CPUs(done)
           b == IF old = {} THEN x.binaries ELSE [st |-> "null", of |-> <<>>]
<1>1. MayBuild(p) /\ Failed
  BY DEF BuildBinary
<1>2. x \in ProgramType /\ h.prog \in [Programs -> ProgramType] /\ ProgramOK(x, KernelsIn(h.kern, p), held[p])
      /\ x.st = "live"
  BY OwnProgram DEF IInv, Good, Typed
<1>3. real \in Seq(Devices)
  BY RealType
<1>4. h' = [h EXCEPT !.prog[p].hsaProgram = hsa, !.prog[p].dirs = dirs, !.prog[p].binaries = b]
  BY DEF BuildBinary
<1> HIDE DEF real
<1>5. dirs \in SUBSET Devices
  <2>1. old \subseteq 1..Len(real)
    BY <1>3
  <2>2. old # {} => first \in old
    <3> HIDE DEF old
    <3> SUFFICES ASSUME old # {} PROVE \E i \in old : \A j \in old : i <= j
      OBVIOUS
    <3>1. old \subseteq Nat
      BY <2>1
    <3>2. QED  BY <3>1, LeastElement
  <2> HIDE DEF old, first
  <2>3. CPUs(done) \in SUBSET Devices
    <3>1. CASE old = {}
      <4>1. 0 \in 0..Len(real)
        BY <1>3
      <4>2. QED  BY <3>1, <4>1, <1>3, CPUsType
    <3>2. CASE old # {}
      <4>1. first \in 1..Len(real) /\ Len(real) \in Nat
        <5>1. first \in old
          BY <3>2, <2>2
        <5>2. QED  BY <5>1, <2>1, <1>3
      <4>2. first - 1 \in 0..Len(real)
        BY <4>1
      <4>3. QED  BY <3>2, <4>2, <1>3, CPUsType
    <3>3. QED  BY <3>1, <3>2
  <2>4. x.dirs \in SUBSET Devices
    BY <1>2 DEF ProgramType
  <2> HIDE DEF done
  <2>5. QED  BY <2>3, <2>4
<1> HIDE DEF done, old
<1>6. hsa \in BOOLEAN
  BY <1>2 DEF ProgramType
<1>7. /\ b \in BinariesType /\ b.st # "freed"
      /\ b.st = "live" => /\ Len(b.of) = Len(x.built)
                          /\ \A i \in 1..Len(x.built) : ~IsGPU(x.built[i]) => b.of[i] = x.built[i]
  <2>1. x.binaries \in BinariesType
    BY <1>2 DEF ProgramType
  <2>2. CASE old = {}
    BY <1>2, <2>1, <2>2 DEF ProgramOK, BinariesOK
  <2>3. CASE old # {}
    <3>1. b = [st |-> "null", of |-> <<>>]
      BY <2>3
    <3>2. [st |-> "null", of |-> <<>>] \in BinariesType
      BY DEF BinariesType
    <3>3. b \in BinariesType /\ b.st = "null"
      BY <3>1, <3>2
    <3> HIDE DEF b
    <3>4. QED  BY <3>3
  <2>4. QED  BY <2>2, <2>3
<1>8. x.built \in Seq(Devices)
  BY <1>2 DEF ProgramType
<1> HIDE DEF hsa, dirs, b
<1> DEFINE r == [x EXCEPT !.hsaProgram = hsa, !.dirs = dirs, !.binaries = b]
<1>9. h' = [h EXCEPT !.prog[p] = r]
  BY <1>2, <1>4 DEF IInv, HasFields
<1>10. /\ r \in ProgramType /\ r.st = x.st /\ r.ctx = x.ctx /\ r.ref = x.ref /\ r.devs = x.devs
       /\ r.kernels = x.kernels /\ r.built = x.built /\ r.binaries = b
  <2> HIDE DEF x
  <2> QED  BY <1>2, <1>5, <1>6, <1>7, <1>8 DEF ProgramType
<1> HIDE DEF r
<1>11. BinariesOK(r) /\ r.binaries.st # "freed"
  BY <1>7, <1>10 DEF BinariesOK
<1>12. QED
  BY <1>1, <1>9, <1>10, <1>11, BuiltProgram

\* A program with a reference less, and one that is freed.
LessProgram(x) == [x EXCEPT !.ref = x.ref - 1]
FreedProgram(x) == [x EXCEPT !.ref = x.ref - 1, !.st = "freed", !.binaries = [x.binaries EXCEPT !.st = "null"]]

\* The fields of updated objects.
LEMMA FieldsFreed ==
  ASSUME NEW t, HasFields(t), NEW p, NEW c, NEW kern, NEW l,
         l = [t EXCEPT !.prog[p].st = "freed", !.prog[p].binaries.st = "null", !.ctx[c].ref = @ - 1, !.kern = kern]
  PROVE  l = [table |-> t.table, hw |-> t.hw, ctx |-> [t.ctx EXCEPT ![c].ref = @ - 1],
              prog |-> [t.prog EXCEPT ![p].st = "freed", ![p].binaries.st = "null"], kern |-> kern]
<1>1. HasFields(l)
  BY DEF HasFields
<1>2. /\ l.table = t.table /\ l.hw = t.hw /\ l.ctx = [t.ctx EXCEPT ![c].ref = @ - 1]
      /\ l.prog = [t.prog EXCEPT ![p].st = "freed", ![p].binaries.st = "null"] /\ l.kern = kern
  BY DEF HasFields
<1>3. QED
  BY <1>1, <1>2, Zenon DEF HasFields

\* A release that leaves a reference, and one of the last reference of a program
\* without kernels.
LEMMA ReleaseProgramValue ==
  ASSUME NEW s, HasFields(s), s.prog \in [Programs -> ProgramType], s.ctx \in [Contexts -> ContextType],
         s.kern \in [Kernels -> KernelType], NEW p \in Programs,
         NEW x, x = s.prog[p], NEW c, c = x.ctx, NEW u, u = ReleaseProgram(s, p),
         x.ref - 1 > 0 \/ x.kernels = <<>>
  PROVE  /\ HasFields(u) /\ u.table = s.table /\ u.kern = s.kern
         /\ x.ref - 1 > 0 => u.ctx = s.ctx /\ u.prog = [s.prog EXCEPT ![p] = LessProgram(x)]
         /\ ~(x.ref - 1 > 0) =>
              /\ u.ctx = [s.ctx EXCEPT ![c] = [s.ctx[c] EXCEPT !.ref = s.ctx[c].ref - 1]]
              /\ u.prog = [s.prog EXCEPT ![p] = FreedProgram(x)]
<1> DEFINE t == [s EXCEPT !.prog[p].ref = @ - 1]
           y == LessProgram(x)
<1>1. x \in ProgramType
  OBVIOUS
<1>2. t = [s EXCEPT !.prog[p] = y]
  BY DEF HasFields, LessProgram
<1>3. /\ HasFields(t) /\ t.table = s.table /\ t.hw = s.hw /\ t.ctx = s.ctx /\ t.kern = s.kern
      /\ t.prog = [s.prog EXCEPT ![p] = y]
  BY <1>2 DEF HasFields
<1>4. y.ref = x.ref - 1 /\ y.kernels = x.kernels /\ y.ctx = x.ctx /\ y.binaries = x.binaries
  BY <1>1 DEF ProgramType, LessProgram
<1>5. t.prog[p] = y
  BY <1>3
<1>6. CASE x.ref - 1 > 0
  <2>1. u = t
    BY <1>4, <1>5, <1>6 DEF ReleaseProgram
  <2> HIDE DEF t
  <2>2. QED
    BY <1>3, <1>6, <2>1
<1>7. CASE ~(x.ref - 1 > 0) /\ x.kernels = <<>>
  <2> DEFINE kern == [k \in Kernels |-> IF k \in ToSet(t.prog[p].kernels) THEN [t.kern[k] EXCEPT !.prog = None]
                                        ELSE t.kern[k]]
             d == t.prog[p].ctx
             v == [t EXCEPT !.prog[p].st = "freed", !.prog[p].binaries.st = "null",
                            !.ctx[d].ref = @ - 1, !.kern = kern]
             z == [y EXCEPT !.st = "freed", !.binaries.st = "null"]
  <2>1. ~(t.prog[p].ref > 0)
    BY <1>4, <1>5, <1>7
  <2>2. u = v
    BY <2>1 DEF ReleaseProgram
  <2>3. kern = s.kern
    <3>1. ToSet(t.prog[p].kernels) = {}
      BY <1>4, <1>5, <1>7 DEF ToSet
    <3> HIDE DEF t
    <3>2. QED  BY <3>1, <1>3
  <2>4. d = c
    BY <1>4, <1>5
  <2>5. HasFields(t)
    BY <1>3
  <2> HIDE DEF kern, d, t
  <2>6. u = [table |-> t.table, hw |-> t.hw, ctx |-> [t.ctx EXCEPT ![d].ref = @ - 1],
             prog |-> [t.prog EXCEPT ![p].st = "freed", ![p].binaries.st = "null"], kern |-> kern]
    BY ZenonT(60), <2>2, <2>5, FieldsFreed
  <2>7. [t.ctx EXCEPT ![d].ref = @ - 1] = [s.ctx EXCEPT ![c] = [s.ctx[c] EXCEPT !.ref = s.ctx[c].ref - 1]]
    BY <2>4, <1>3
  <2>8. [t.prog EXCEPT ![p].st = "freed", ![p].binaries.st = "null"] = [s.prog EXCEPT ![p] = z]
    <3>1. t.prog = [s.prog EXCEPT ![p] = y]
      BY <1>3
    <3> HIDE DEF y
    <3>2. QED  BY ZenonT(60), <3>1
  <2>9. z = FreedProgram(x)
    BY <1>1 DEF FreedProgram, LessProgram, ProgramType
  <2> HIDE DEF z, v
  <2>10. /\ u.table = s.table /\ u.kern = s.kern
         /\ u.ctx = [s.ctx EXCEPT ![c] = [s.ctx[c] EXCEPT !.ref = s.ctx[c].ref - 1]]
         /\ u.prog = [s.prog EXCEPT ![p] = z]
    <3> DEFINE cx == [t.ctx EXCEPT ![d].ref = @ - 1]
               px == [t.prog EXCEPT ![p].st = "freed", ![p].binaries.st = "null"]
    <3>1. u = [table |-> t.table, hw |-> t.hw, ctx |-> cx, prog |-> px, kern |-> kern]
      BY <2>6
    <3> HIDE DEF cx, px
    <3>2. u.table = t.table /\ u.kern = kern /\ u.ctx = cx /\ u.prog = px
      BY <3>1
    <3>3. QED  BY <3>2, <1>3, <2>3, <2>7, <2>8 DEF cx, px
  <2>11. HasFields(u)
    <3> DEFINE cx == [t.ctx EXCEPT ![d].ref = @ - 1]
               px == [t.prog EXCEPT ![p].st = "freed", ![p].binaries.st = "null"]
    <3>1. u = [table |-> t.table, hw |-> t.hw, ctx |-> cx, prog |-> px, kern |-> kern]
      BY <2>6
    <3> HIDE DEF cx, px
    <3>2. QED  BY <3>1 DEF HasFields
  <2>12. QED
    BY <1>7, <2>9, <2>10, <2>11
<1>8. QED
  BY <1>6, <1>7

\* The context of a program that is freed has a reference less; its array of
\* devices is not freed, even when that was the last reference.
LEMMA ContextOfFreed ==
  ASSUME NEW ctx, NEW prog, NEW kern, NEW own, Good(ctx, prog, kern, own),
         NEW p \in Programs, prog[p].st = "live", NEW c, c = prog[p].ctx, NEW r \in ProgramType, r.st = "freed",
         NEW rc, rc = [ctx[c] EXCEPT !.ref = ctx[c].ref - 1]
  PROVE  rc \in ContextType /\ ContextOK(rc, ProgramsIn([prog EXCEPT ![p] = r], c), own[c])
<1> DEFINE P == ProgramsIn(prog, c)
           Q == ProgramsIn([prog EXCEPT ![p] = r], c)
<1>1. ctx \in [Contexts -> ContextType] /\ prog \in [Programs -> ProgramType] /\ own \in [Objects -> Nat]
  BY DEF Good, Typed
<1>2. c \in Contexts
  <2>1. ProgramOK(prog[p], KernelsIn(kern, p), own[p])
    BY DEF Good
  <2>2. QED  BY <2>1 DEF ProgramOK
<1>3. ContextOK(ctx[c], P, own[c]) /\ ctx[c] \in ContextType /\ own[c] \in Nat
  BY <1>1, <1>2 DEF Good, Objects
<1>4. p \in P
  BY DEF ProgramsIn
<1>5. Q = P \ {p}
  BY <1>1 DEF ProgramsIn
<1>6. /\ rc \in ContextType /\ rc.st = ctx[c].st /\ rc.valid = ctx[c].valid /\ rc.devs = ctx[c].devs
      /\ rc.ref = ctx[c].ref - 1
  BY <1>3, OneLessContext
<1> HIDE DEF P, Q
<1>7. ctx[c].st = "live" /\ ctx[c].valid /\ ctx[c].ref = own[c] + Cardinality(P) /\ ctx[c].devs # <<>> /\ IsFiniteSet(P)
  BY <1>3, <1>4 DEF ContextOK
<1>8. IsFiniteSet(Q) /\ Cardinality(Q) = Cardinality(P) - 1 /\ Cardinality(P) \in Nat
  BY <1>4, <1>5, <1>7, FS_RemoveElement, FS_CardinalityType
<1>9. rc.ref = own[c] + Cardinality(Q)
  BY <1>3, <1>6, <1>7, <1>8
<1>10. QED
  BY <1>6, <1>7, <1>8, <1>9 DEF ContextOK, Q

\* The fields of the two records.
LEMMA ReleasedRecords ==
  ASSUME NEW x \in ProgramType
  PROVE  /\ LessProgram(x) \in ProgramType /\ LessProgram(x).st = x.st /\ LessProgram(x).ctx = x.ctx
         /\ LessProgram(x).ref = x.ref - 1 /\ LessProgram(x).devs = x.devs
         /\ LessProgram(x).kernels = x.kernels /\ LessProgram(x).built = x.built
         /\ LessProgram(x).binaries = x.binaries
         /\ FreedProgram(x) \in ProgramType /\ FreedProgram(x).st = "freed"
         /\ FreedProgram(x).built = x.built /\ FreedProgram(x).devs = x.devs
<1> DEFINE n == x.ref - 1
           b == [x.binaries EXCEPT !.st = "null"]
           st == "freed"
<1>1. n \in Int
  BY DEF ProgramType
<1>2. b \in BinariesType
  <2>1. x.binaries \in BinariesType
    BY DEF ProgramType
  <2>2. QED  BY <2>1 DEF BinariesType
<1>3. st \in Stages
  BY DEF Stages
<1>4. LessProgram(x) = [x EXCEPT !.ref = n] /\ FreedProgram(x) = [x EXCEPT !.ref = n, !.st = st, !.binaries = b]
  BY DEF LessProgram, FreedProgram
<1> HIDE DEF n, b, st
<1>5. /\ LessProgram(x) \in ProgramType /\ LessProgram(x).st = x.st /\ LessProgram(x).ctx = x.ctx
      /\ LessProgram(x).ref = n /\ LessProgram(x).devs = x.devs
      /\ LessProgram(x).kernels = x.kernels /\ LessProgram(x).built = x.built
      /\ LessProgram(x).binaries = x.binaries
  BY <1>1, <1>4 DEF ProgramType
<1>6. /\ FreedProgram(x) \in ProgramType /\ FreedProgram(x).st = st
      /\ FreedProgram(x).built = x.built /\ FreedProgram(x).devs = x.devs
  BY <1>1, <1>2, <1>3, <1>4 DEF ProgramType
<1>7. QED
  BY <1>5, <1>6 DEF n, st

\* A list without elements.
LEMMA EmptyList ==
  ASSUME NEW S, NEW s \in Seq(S), ToSet(s) = {}
  PROVE  s = <<>>
<1>1. Len(s) = 0
  <2> SUFFICES ASSUME Len(s) # 0 PROVE FALSE
    OBVIOUS
  <2>1. 1 \in DOMAIN s
    OBVIOUS
  <2>2. QED  BY <2>1 DEF ToSet
<1>2. QED
  BY <1>1

LEMMA ReleaseProgramStep ==
  ASSUME IInv, NEW p \in Programs, Owns(p), clReleaseProgram(p)
  PROVE  IInv'
<1> DEFINE x == h.prog[p]
           c == x.ctx
           K == KernelsIn(h.kern, p)
           n == held[p] - 1
           rc == [h.ctx[c] EXCEPT !.ref = h.ctx[c].ref - 1]
<1>1. /\ x \in ProgramType /\ x.st = "live" /\ c \in Contexts /\ held[p] \in Nat /\ held[p] > 0
      /\ ProgramOK(x, K, held[p]) /\ IsFiniteSet(K) /\ Cardinality(K) \in Nat
  BY OwnProgram
<1>2. Good(h.ctx, h.prog, h.kern, held) /\ HasFields(h)
  BY DEF IInv
<1>3. h.prog \in [Programs -> ProgramType] /\ h.ctx \in [Contexts -> ContextType] /\ h.kern \in [Kernels -> KernelType]
  BY <1>2 DEF Good, Typed
<1>4. x.ref = held[p] + Cardinality(K) /\ x.ref > 0 /\ ToSet(x.kernels) = K
  BY <1>1 DEF ProgramOK
<1>5. n \in Nat /\ held' = [held EXCEPT ![p] = n] /\ known' = known /\ h' = ReleaseProgram(h, p)
  BY <1>1 DEF clReleaseProgram, Dropped
<1>6. /\ LessProgram(x) \in ProgramType /\ LessProgram(x).st = x.st /\ LessProgram(x).ctx = x.ctx
      /\ LessProgram(x).ref = x.ref - 1 /\ LessProgram(x).devs = x.devs
      /\ LessProgram(x).kernels = x.kernels /\ LessProgram(x).built = x.built
      /\ LessProgram(x).binaries = x.binaries
      /\ FreedProgram(x) \in ProgramType /\ FreedProgram(x).st = "freed"
  BY <1>1, ReleasedRecords
<1>7. ~(x.ref - 1 > 0) => n = 0 /\ K = {} /\ x.kernels = <<>>
  <2> SUFFICES ASSUME ~(x.ref - 1 > 0) PROVE n = 0 /\ K = {} /\ x.kernels = <<>>
    OBVIOUS
  <2>1. held[p] = 1 /\ Cardinality(K) = 0
    BY <1>1, <1>4
  <2>2. K = {}
    BY <1>1, <2>1, FS_EmptySet
  <2>3. x.kernels \in Seq(Kernels)
    BY <1>1 DEF ProgramType
  <2>4. x.kernels = <<>>
    BY <1>4, <2>2, <2>3, EmptyList
  <2>5. QED  BY <2>1, <2>2, <2>4
<1>8. /\ HasFields(h') /\ h'.table = h.table /\ h'.kern = h.kern
      /\ x.ref - 1 > 0 => h'.ctx = h.ctx /\ h'.prog = [h.prog EXCEPT ![p] = LessProgram(x)]
      /\ ~(x.ref - 1 > 0) => h'.ctx = [h.ctx EXCEPT ![c] = rc] /\ h'.prog = [h.prog EXCEPT ![p] = FreedProgram(x)]
  <2>1. x = h.prog[p] /\ c = x.ctx /\ (x.ref - 1 > 0 \/ x.kernels = <<>>)
    BY <1>7
  <2>2. rc = [h.ctx[c] EXCEPT !.ref = h.ctx[c].ref - 1]
    OBVIOUS
  <2> HIDE DEF x, c, rc
  <2>3. QED  BY SMTT(60), <1>2, <1>3, <1>5, <2>1, <2>2, ReleaseProgramValue
<1>9. CASE x.ref - 1 > 0
  <2>1. ProgramOK(LessProgram(x), K, n)
    <3> HIDE DEF x, K
    <3>1. x.ref - 1 = n + Cardinality(K)
      BY <1>1, <1>4
    <3> HIDE DEF n
    <3>2. QED  BY <1>1, <1>6, <1>9, <3>1 DEF ProgramOK, BinariesOK
  <2>2. h'.ctx = [h.ctx EXCEPT ![c] = h.ctx[c]] /\ h.ctx[c] \in ContextType
    BY <1>1, <1>3, <1>8, <1>9
  <2>3. ProgramsIn([h.prog EXCEPT ![p] = LessProgram(x)], c) = ProgramsIn(h.prog, c)
    BY <1>1, <1>3, <1>6 DEF ProgramsIn
  <2>4. ContextOK(h.ctx[c], ProgramsIn([h.prog EXCEPT ![p] = LessProgram(x)], c), held[c])
    BY <1>1, <1>2, <2>3 DEF Good
  <2>5. h'.prog = [h.prog EXCEPT ![p] = LessProgram(x)]
    BY <1>8, <1>9
  <2> HIDE DEF c, n
  <2>6. QED
    BY <1>1, <1>5, <1>6, <1>8, <2>1, <2>2, <2>4, <2>5, OneProgramFields DEF c
<1>10. CASE ~(x.ref - 1 > 0)
  <2>1. n = 0 /\ K = {}
    BY <1>7, <1>10
  <2>2. ProgramOK(FreedProgram(x), K, n)
    BY <1>1, <1>6, <2>1 DEF ProgramOK
  <2>3. rc \in ContextType /\ ContextOK(rc, ProgramsIn([h.prog EXCEPT ![p] = FreedProgram(x)], c), held[c])
    <3>1. rc = [h.ctx[c] EXCEPT !.ref = h.ctx[c].ref - 1] /\ c = h.prog[p].ctx /\ h.prog[p].st = "live"
      BY <1>1
    <3> HIDE DEF c, rc
    <3>2. QED  BY SMTT(60), <1>2, <1>6, <3>1, ContextOfFreed
  <2>4. h'.ctx = [h.ctx EXCEPT ![c] = rc] /\ h'.prog = [h.prog EXCEPT ![p] = FreedProgram(x)]
    BY <1>8, <1>10
  <2> HIDE DEF c, n, rc
  <2>5. QED
    BY <1>1, <1>5, <1>6, <1>8, <2>1, <2>2, <2>3, <2>4, OneProgramFields DEF c
<1>11. QED
  BY <1>9, <1>10
-----------------------------------------------------------------------------
(* Kernels.                                                                *)

\* A kernel changes and stays one of its program, if it was.
LEMMA KernelAlone ==
  ASSUME NEW ctx, NEW prog, NEW kern, NEW own, Good(ctx, prog, kern, own),
         NEW k \in Kernels, NEW rk \in KernelType, NEW n \in Nat,
         rk.st = "live" <=> kern[k].st = "live", rk.prog = kern[k].prog, KernelOK(rk, prog, n)
  PROVE  Good(ctx, prog, [kern EXCEPT ![k] = rk], [own EXCEPT ![k] = n])
<1> DEFINE kx == [kern EXCEPT ![k] = rk]
           ox == [own EXCEPT ![k] = n]
<1> USE DEF Good
<1>1. Typed(ctx, prog, kx, ox)
  BY DEF Typed, Objects
<1>2. \A o \in Contexts \cup Programs : ox[o] = own[o]
  BY HandlesAssumption DEF Typed, Objects
<1>3. \A c \in Contexts : ContextOK(ctx[c], ProgramsIn(prog, c), ox[c])
  BY <1>2
<1>4. ASSUME NEW q \in Programs PROVE ProgramOK(prog[q], KernelsIn(kx, q), ox[q])
  <2>1. KernelsIn(kx, q) = KernelsIn(kern, q)
    BY DEF Typed, KernelsIn
  <2>2. QED  BY <2>1, <1>2
<1>5. ASSUME NEW l \in Kernels PROVE KernelOK(kx[l], prog, ox[l])
  <2>1. CASE l = k
    <3>1. kx[l] = rk /\ ox[l] = n
      BY <2>1 DEF Typed, Objects
    <3>2. QED  BY <3>1
  <2>2. CASE l # k
    <3>1. kx[l] = kern[l] /\ ox[l] = own[l]
      BY <2>2 DEF Typed, Objects
    <3>2. QED  BY <3>1
  <2>3. QED  BY <2>1, <2>2
<1>6. QED
  BY <1>1, <1>3, <1>4, <1>5

LEMMA OneKernel ==
  ASSUME IInv, NEW k \in Kernels, NEW rk \in KernelType, NEW n \in Nat,
         rk.st = "live" <=> h.kern[k].st = "live", rk.prog = h.kern[k].prog, KernelOK(rk, h.prog, n),
         h' = [h EXCEPT !.kern[k] = rk], held' = [held EXCEPT ![k] = n], known' = known
  PROVE  IInv'
<1>1. /\ HasFields(h') /\ h'.table = h.table
      /\ h'.ctx = h.ctx /\ h'.prog = h.prog /\ h'.kern = [h.kern EXCEPT ![k] = rk]
  BY DEF IInv, HasFields
<1>2. Good(h.ctx, h.prog, h.kern, held)
  BY DEF IInv
<1>3. Good(h.ctx, h.prog, [h.kern EXCEPT ![k] = rk], [held EXCEPT ![k] = n])
  BY <1>2, KernelAlone
<1>4. QED
  BY <1>1, <1>3 DEF IInv

\* The records of a kernel.
LEMMA KernelRecords ==
  ASSUME NEW x \in KernelType, NEW n \in Int, NEW st \in Stages
  PROVE  /\ LET r == [x EXCEPT !.ref = n]
            IN  r \in KernelType /\ r.st = x.st /\ r.prog = x.prog /\ r.from = x.from /\ r.ref = n
         /\ LET r == [x EXCEPT !.st = st]
            IN  r \in KernelType /\ r.st = st /\ r.prog = x.prog /\ r.from = x.from /\ r.ref = x.ref
         /\ LET r == [x EXCEPT !.ref = n, !.st = st]
            IN  r \in KernelType /\ r.st = st /\ r.prog = x.prog /\ r.from = x.from /\ r.ref = n
BY DEF KernelType

LEMMA KernelRefusedStep ==
  ASSUME IInv, NEW k \in Kernels, NEW p \in Programs, KernelRefused(k, p)
  PROVE  IInv'
<1> DEFINE x == h.kern[k]
           r == [x EXCEPT !.st = "freed"]
<1>1. x \in KernelType /\ held \in [Objects -> Nat] /\ KernelOK(x, h.prog, held[k]) /\ k \in Objects
  BY DEF IInv, Good, Typed, Objects
<1>2. x.st = "none" /\ h' = [h EXCEPT !.kern[k].st = "freed"] /\ held' = held /\ known' = known
  BY DEF KernelRefused, Failed
<1>3. "freed" \in Stages /\ x.ref \in Int
  BY <1>1 DEF Stages, KernelType
<1>4. r \in KernelType /\ r.st = "freed" /\ r.prog = x.prog
  <2> HIDE DEF x
  <2> QED  BY ZenonT(60), <1>1, <1>3, KernelRecords
<1>5. h' = [h EXCEPT !.kern[k] = r]
  BY <1>2 DEF IInv, HasFields
<1>6. held[k] = 0 /\ held' = [held EXCEPT ![k] = 0]
  BY <1>1, <1>2 DEF KernelOK
<1> HIDE DEF r
<1>7. KernelOK(r, h.prog, 0)
  BY <1>4 DEF KernelOK
<1>8. (r.st = "live" <=> h.kern[k].st = "live") /\ 0 \in Nat
  BY <1>2, <1>4
<1>9. known' = known
  BY <1>2
<1>10. QED
  BY <1>4, <1>5, <1>6, <1>7, <1>8, <1>9, OneKernel

LEMMA RetainKernelStep ==
  ASSUME IInv, NEW k \in Kernels, MayRetain(k), clRetainKernel(k)
  PROVE  IInv'
<1> DEFINE x == h.kern[k]
           r == [x EXCEPT !.ref = x.ref + 1]
<1>1. /\ x \in KernelType /\ held \in [Objects -> Nat] /\ KernelOK(x, h.prog, held[k]) /\ k \in Objects
      /\ held[k] \in Nat
  BY DEF IInv, Good, Typed, Objects
<1>2. /\ h' = [h EXCEPT !.kern[k] = r] /\ held' = [held EXCEPT ![k] = held[k] + 1] /\ known' = known
      /\ held[k] > 0
  BY DEF clRetainKernel, Retained, MayRetain, Owns
<1>3. x.ref + 1 \in Int /\ x.from \in Seq(BinaryNames)
  BY <1>1 DEF KernelType
<1>4. r \in KernelType /\ r.st = x.st /\ r.prog = x.prog /\ r.from = x.from /\ r.ref = x.ref + 1
  <2>1. "live" \in Stages
    BY DEF Stages
  <2> HIDE DEF x
  <2> QED  BY ZenonT(60), <1>1, <1>3, <2>1, KernelRecords
<1> HIDE DEF r
<1>5. KernelOK(r, h.prog, held[k] + 1)
  <2>1. x.st = "live" /\ x.prog \in Programs /\ x.from # <<>> /\ FromOwn(h.prog[x.prog], x.from)
        /\ x.ref = held[k] + Len(x.from) - 1 /\ x.ref > 0
    BY <1>1, <1>2 DEF KernelOK
  <2>2. r.ref = (held[k] + 1) + Len(r.from) - 1 /\ r.ref > 0
    <3> HIDE DEF x
    <3>1. Len(x.from) \in Nat
      BY <1>3
    <3>2. QED  BY <3>1, <1>1, <1>4, <2>1
  <2>3. QED  BY <2>1, <2>2, <1>4 DEF KernelOK
<1>6. held[k] + 1 \in Nat
  BY <1>1
<1>7. QED
  BY <1>2, <1>4, <1>5, <1>6, OneKernel

\* A step that changes a kernel, its program and the context of that.
KernelUpdate(c, rc, p, r, k, rk, n) ==
  /\ c \in Contexts /\ rc \in ContextType /\ p \in Programs /\ r \in ProgramType
  /\ k \in Kernels /\ rk \in KernelType /\ n \in Nat
  /\ h.prog[p].st = "live" => h.prog[p].ctx = c
  /\ r.st = "live" => r.ctx = c
  /\ h.kern[k].st = "live" => h.kern[k].prog = p
  /\ rk.st = "live" => rk.prog = p
  /\ ContextOK(rc, ProgramsIn([h.prog EXCEPT ![p] = r], c), held[c])
  /\ ProgramOK(r, KernelsIn([h.kern EXCEPT ![k] = rk], p), held[p])
  /\ KernelOK(rk, [h.prog EXCEPT ![p] = r], n)
  /\ r.built = h.prog[p].built /\ r.devs = h.prog[p].devs
  /\ HasFields(h') /\ h'.table = h.table /\ h'.ctx = [h.ctx EXCEPT ![c] = rc]
  /\ h'.prog = [h.prog EXCEPT ![p] = r] /\ h'.kern = [h.kern EXCEPT ![k] = rk]
  /\ held' = [held EXCEPT ![k] = n] /\ known' = known

LEMMA KernelUpdated ==
  ASSUME IInv, NEW c, NEW rc, NEW p, NEW r, NEW k, NEW rk, NEW n, KernelUpdate(c, rc, p, r, k, rk, n)
  PROVE  IInv'
<1>1. Good(h.ctx, h.prog, h.kern, held)
  BY DEF IInv
<1>2. Good([h.ctx EXCEPT ![c] = rc], [h.prog EXCEPT ![p] = r], [h.kern EXCEPT ![k] = rk], [held EXCEPT ![k] = n])
  <2> USE DEF KernelUpdate
  <2>1. /\ c \in Contexts /\ rc \in ContextType /\ p \in Programs /\ r \in ProgramType
        /\ k \in Kernels /\ rk \in KernelType /\ n \in Nat
    OBVIOUS
  <2>2. /\ h.prog[p].st = "live" => h.prog[p].ctx = c
        /\ r.st = "live" => r.ctx = c
        /\ h.kern[k].st = "live" => h.kern[k].prog = p
        /\ rk.st = "live" => rk.prog = p
        /\ ContextOK(rc, ProgramsIn([h.prog EXCEPT ![p] = r], c), held[c])
        /\ ProgramOK(r, KernelsIn([h.kern EXCEPT ![k] = rk], p), held[p])
        /\ KernelOK(rk, [h.prog EXCEPT ![p] = r], n)
        /\ r.built = h.prog[p].built /\ r.devs = h.prog[p].devs
    OBVIOUS
  <2> HIDE DEF KernelUpdate
  <2>3. QED
    BY <1>1, <2>1, <2>2, KernelStep
<1>3. QED
  BY <1>2 DEF IInv, KernelUpdate

\* The binaries a kernel is made of.
LEMMA FromType ==
  ASSUME NEW x \in ProgramType, BinariesOK(x), x.binaries.st = "live",
         NEW from, from = [i \in DOMAIN x.devs |-> KernelBinary(x, i)]
  PROVE  from \in Seq(BinaryNames) /\ Len(from) = Len(x.devs) /\ FromOwn(x, from)
<1>1. x.devs \in Seq(Devices) /\ x.built \in Seq(Devices) /\ x.binaries \in BinariesType
  BY DEF ProgramType
<1>2. x.binaries.of \in Seq(Devices)
  BY <1>1 DEF BinariesType
<1>3. DOMAIN x.devs = 1..Len(x.devs) /\ Len(x.devs) \in Nat /\ DOMAIN x.binaries.of = 1..Len(x.binaries.of)
  BY <1>1, <1>2
<1>4. ASSUME NEW i \in 1..Len(x.devs) PROVE KernelBinary(x, i) \in BinaryNames
  <2>1. i \in DOMAIN x.binaries.of => x.binaries.of[i] \in Devices
    BY <1>2
  <2>2. QED  BY <2>1 DEF KernelBinary, BinaryNames
<1>5. from \in Seq(BinaryNames) /\ Len(from) = Len(x.devs) /\ DOMAIN from = 1..Len(x.devs)
  BY <1>3, <1>4
<1>6. ASSUME x.built = x.devs, NEW i \in 1..Len(x.devs) PROVE from[i] \in {None, x.devs[i]}
  <2>1. from[i] = KernelBinary(x, i)
    BY <1>3
  <2>2. Len(x.binaries.of) = Len(x.devs) /\ (~IsGPU(x.devs[i]) => x.binaries.of[i] = x.devs[i])
    BY <1>6 DEF BinariesOK
  <2>3. i \in DOMAIN x.binaries.of
    BY <2>2, <1>3
  <2>4. QED  BY <2>1, <2>2, <2>3 DEF KernelBinary
<1>7. QED
  BY <1>5, <1>6 DEF FromOwn

LEMMA CreateKernelStep ==
  ASSUME IInv, NEW k \in Kernels, NEW p \in Programs, Owns(p), clCreateKernel(k, p)
  PROVE  IInv'
<1> DEFINE x == h.prog[p]
           c == x.ctx
           K == KernelsIn(h.kern, p)
           l == <<k>> \o x.kernels
           r == [x EXCEPT !.kernels = l, !.ref = x.ref + 1]
           from == [i \in DOMAIN x.devs |-> KernelBinary(x, i)]
           rk == [st |-> "live", ref |-> Len(x.devs), prog |-> p, from |-> from]
           kx == [h.kern EXCEPT ![k] = rk]
           px == [h.prog EXCEPT ![p] = r]
<1>1. /\ x \in ProgramType /\ x.st = "live" /\ c \in Contexts /\ held[p] \in Nat
      /\ ProgramOK(x, K, held[p]) /\ IsFiniteSet(K) /\ Cardinality(K) \in Nat
  BY OwnProgram
<1>2. Good(h.ctx, h.prog, h.kern, held) /\ HasFields(h)
  BY DEF IInv
<1>3. h.prog \in [Programs -> ProgramType] /\ h.ctx \in [Contexts -> ContextType] /\ h.kern \in [Kernels -> KernelType]
  BY <1>2 DEF Good, Typed
<1>4. /\ h.kern[k].st = "none" /\ x.binaries.st = "live"
      /\ h' = [h EXCEPT !.prog[p].kernels = l, !.prog[p].ref = x.ref + 1, !.kern[k] = rk]
      /\ held' = [held EXCEPT ![k] = 1] /\ known' = known
  BY DEF clCreateKernel, Created
<1>5. /\ x.ref = held[p] + Cardinality(K) /\ x.ref > 0 /\ ToSet(x.kernels) = K /\ IsInjective(x.kernels)
      /\ BinariesOK(x) /\ x.devs # <<>> /\ x.binaries.st # "freed"
  BY <1>1 DEF ProgramOK
<1>6. x.kernels \in Seq(Kernels) /\ x.ref + 1 \in Int /\ x.devs \in Seq(Devices)
  BY <1>1 DEF ProgramType
<1>7. k \notin K
  BY <1>4 DEF KernelsIn
<1>8. l \in Seq(Kernels) /\ ToSet(l) = K \cup {k} /\ IsInjective(l)
  BY <1>5, <1>6, <1>7, Linked
<1>9. /\ r \in ProgramType /\ r.st = x.st /\ r.ctx = x.ctx /\ r.ref = x.ref + 1 /\ r.devs = x.devs
      /\ r.kernels = l /\ r.built = x.built /\ r.binaries = x.binaries
  <2> HIDE DEF x, l
  <2> DEFINE n == x.ref + 1
  <2>1. r = [x EXCEPT !.kernels = l, !.ref = n] /\ n \in Int
    BY <1>6
  <2> HIDE DEF n
  <2>2. /\ r \in ProgramType /\ r.st = x.st /\ r.ctx = x.ctx /\ r.ref = n /\ r.devs = x.devs
        /\ r.kernels = l /\ r.built = x.built /\ r.binaries = x.binaries
    <3> HIDE DEF r
    <3> QED  BY <1>1, <1>8, <2>1 DEF ProgramType
  <2>3. QED  BY <2>2 DEF n
<1>10. from \in Seq(BinaryNames) /\ Len(from) = Len(x.devs) /\ FromOwn(x, from)
  <2> HIDE DEF x
  <2> QED  BY <1>1, <1>4, <1>5, FromType
<1>11. HasFields(h') /\ h'.table = h.table /\ h'.ctx = h.ctx /\ h'.prog = px /\ h'.kern = kx
  <2> HIDE DEF l, rk
  <2> QED  BY <1>2, <1>4 DEF HasFields
<1>12. rk \in KernelType /\ rk.st = "live" /\ rk.prog = p /\ rk.from = from /\ rk.ref = Len(x.devs)
  <2>1. Len(x.devs) \in Int /\ "live" \in Stages
    BY <1>6 DEF Stages
  <2> HIDE DEF from, x
  <2>2. QED  BY <1>10, <2>1 DEF KernelType
<1>13. KernelsIn(kx, p) = K \cup {k}
  <2> HIDE DEF rk
  <2> QED  BY <1>3, <1>12 DEF KernelsIn
<1> HIDE DEF rk, r, l, from
<1>14. ProgramOK(r, KernelsIn(kx, p), held[p])
  <2> HIDE DEF x, K, kx
  <2>1. IsFiniteSet(K \cup {k}) /\ Cardinality(K \cup {k}) = Cardinality(K) + 1
    BY <1>1, <1>7, FS_AddElement
  <2>2. r.ref = held[p] + Cardinality(K \cup {k}) /\ r.ref > 0
    BY <1>1, <1>5, <1>9, <2>1
  <2>3. BinariesOK(r)
    BY <1>5, <1>9 DEF BinariesOK
  <2>4. QED
    BY <1>1, <1>5, <1>8, <1>9, <1>13, <2>1, <2>2, <2>3 DEF ProgramOK, c
<1>15. KernelOK(rk, px, 1)
  <2>1. px[p] = r
    BY <1>3
  <2>2. FromOwn(px[rk.prog], rk.from)
    BY <2>1, <1>9, <1>10, <1>12 DEF FromOwn
  <2>3. Len(x.devs) > 0 /\ Len(x.devs) \in Nat
    BY <1>5, <1>6
  <2>4. rk.ref = 1 + Len(rk.from) - 1 /\ rk.ref > 0 /\ rk.from # <<>>
    <3> HIDE DEF x
    <3> QED  BY <2>3, <1>10, <1>12
  <2>5. QED
    BY <2>2, <2>4, <1>12 DEF KernelOK
<1>16. ProgramsIn(px, c) = ProgramsIn(h.prog, c)
  BY <1>1, <1>3, <1>9 DEF ProgramsIn
<1>17. ContextOK(h.ctx[c], ProgramsIn(px, c), held[c]) /\ h.ctx[c] \in ContextType
  BY <1>1, <1>2, <1>3, <1>16 DEF Good
<1>18. h'.ctx = [h.ctx EXCEPT ![c] = h.ctx[c]]
  BY <1>1, <1>3, <1>11
<1>19. KernelUpdate(c, h.ctx[c], p, r, k, rk, 1)
  BY <1>1, <1>4, <1>9, <1>11, <1>12, <1>14, <1>15, <1>17, <1>18 DEF KernelUpdate
<1> HIDE DEF c
<1>20. QED
  BY <1>19, KernelUpdated

\* The search finds the kernel.
LEMMA PositionFound ==
  ASSUME NEW s \in Seq(Kernels), NEW k, k \in ToSet(s), IsInjective(s)
  PROVE  Position(s, k) \in 1..Len(s) /\ s[Position(s, k)] = k
<1>1. PICK i \in DOMAIN s : s[i] = k
  BY DEF ToSet
<1>2. DOMAIN s = 1..Len(s) /\ Len(s) \in Nat
  OBVIOUS
<1>3. \A j \in 1..(i - 1) : s[j] # k
  <2> SUFFICES ASSUME NEW j \in 1..(i - 1), s[j] = k PROVE FALSE
    OBVIOUS
  <2>1. j \in DOMAIN s /\ j # i
    BY <1>2
  <2>2. QED  BY <1>1, <2>1 DEF IsInjective
<1> DEFINE Here(l) == s[l] = k /\ \A j \in 1..(l - 1) : s[j] # k
<1>4. Here(i)
  BY <1>1, <1>3
<1>5. Position(s, k) = CHOOSE l \in DOMAIN s : Here(l)
  BY DEF Position
<1> HIDE DEF Here
<1>6. Position(s, k) \in DOMAIN s /\ Here(Position(s, k))
  BY <1>4, <1>5
<1>7. QED
  BY <1>2, <1>6 DEF Here

\* What IInv says of a kernel the client has.
LEMMA OwnKernel ==
  ASSUME IInv, NEW k \in Kernels, Owns(k), NEW x, x = h.kern[k], NEW p, p = x.prog, NEW y, y = h.prog[p]
  PROVE  /\ x \in KernelType /\ x.st = "live" /\ held[k] \in Nat /\ held[k] > 0 /\ KernelOK(x, h.prog, held[k])
         /\ p \in Programs /\ p # None /\ y \in ProgramType /\ y.st = "live" /\ y.ctx \in Contexts
         /\ k \in KernelsIn(h.kern, p) /\ held[p] \in Nat /\ ProgramOK(y, KernelsIn(h.kern, p), held[p])
<1>1. x \in KernelType /\ held[k] \in Nat /\ KernelOK(x, h.prog, held[k])
  BY DEF IInv, Good, Typed, Objects
<1>2. held[k] > 0
  BY DEF Owns
<1>3. x.st = "live" /\ p \in Programs
  BY <1>1, <1>2 DEF KernelOK
<1>4. y \in ProgramType /\ held[p] \in Nat /\ ProgramOK(y, KernelsIn(h.kern, p), held[p])
  BY <1>3 DEF IInv, Good, Typed, Objects
<1>5. k \in KernelsIn(h.kern, p)
  BY <1>3 DEF KernelsIn
<1>6. y.st = "live"
  BY <1>4, <1>5 DEF ProgramOK
<1>7. y.ctx \in Contexts
  BY <1>4, <1>6 DEF ProgramOK
<1>8. p # None
  BY <1>3, HandlesAssumption
<1>9. QED
  BY <1>1, <1>2, <1>3, <1>4, <1>5, <1>6, <1>7, <1>8

LEMMA ReleaseKernelLeaves ==
  ASSUME IInv, NEW k \in Kernels, Owns(k), clReleaseKernel(k), h.kern[k].ref - 1 > 0
  PROVE  IInv'
<1> DEFINE x == h.kern[k]
           r == [x EXCEPT !.ref = x.ref - 1]
           s == [h EXCEPT !.kern[k].ref = @ - 1]
<1>1. x \in KernelType /\ x.st = "live" /\ held[k] \in Nat /\ held[k] > 0 /\ KernelOK(x, h.prog, held[k])
  BY OwnKernel
<1>2. s = [h EXCEPT !.kern[k] = r] /\ s.kern[k].ref = x.ref - 1
  BY <1>1 DEF IInv, HasFields, Good, Typed, KernelType
<1>3. h' = s
  BY <1>2 DEF clReleaseKernel
<1>4. held' = [held EXCEPT ![k] = held[k] - 1] /\ known' = known /\ held[k] - 1 \in Nat
  <2>1. Dropped(k)
    BY DEF clReleaseKernel
  <2>2. QED  BY <1>1, <2>1 DEF Dropped
<1>5. x.ref - 1 \in Int /\ x.from \in Seq(BinaryNames)
  BY <1>1 DEF KernelType
<1>6. r \in KernelType /\ r.st = x.st /\ r.prog = x.prog /\ r.from = x.from /\ r.ref = x.ref - 1
  <2>1. "live" \in Stages
    BY DEF Stages
  <2> HIDE DEF x
  <2> QED  BY <1>1, <1>5, <2>1, KernelRecords
<1> HIDE DEF r
<1>7. KernelOK(r, h.prog, held[k] - 1)
  <2>1. x.prog \in Programs /\ x.from # <<>> /\ FromOwn(h.prog[x.prog], x.from)
        /\ x.ref = held[k] + Len(x.from) - 1
    BY <1>1 DEF KernelOK
  <2>2. r.ref = (held[k] - 1) + Len(r.from) - 1 /\ r.ref > 0
    <3>1. Len(x.from) \in Nat
      BY <1>5
    <3>2. x.ref - 1 > 0
      OBVIOUS
    <3> HIDE DEF x
    <3>3. QED  BY <3>1, <3>2, <1>1, <1>6, <2>1
  <2>3. QED  BY <1>1, <2>1, <2>2, <1>6 DEF KernelOK
<1>8. h' = [h EXCEPT !.kern[k] = r]
  BY <1>2, <1>3
<1> HIDE DEF s
<1>9. QED
  BY <1>4, <1>6, <1>7, <1>8, OneKernel

\* The last reference: the kernel leaves the list of its program and is freed, and
\* with it the program when that was its last reference.
LEMMA ReleaseKernelLast ==
  ASSUME IInv, NEW k \in Kernels, Owns(k), clReleaseKernel(k), ~(h.kern[k].ref - 1 > 0)
  PROVE  IInv'
<1> DEFINE x == h.kern[k]
           p == x.prog
           y == h.prog[p]
           c == y.ctx
           K == KernelsIn(h.kern, p)
           rs == [x EXCEPT !.ref = x.ref - 1]
           s == [h EXCEPT !.kern[k].ref = @ - 1]
           list == RemoveAt(y.kernels, Position(y.kernels, k))
           z == [y EXCEPT !.kernels = list]
           unlinked == [s EXCEPT !.prog[p].kernels = list]
           u == ReleaseProgram(unlinked, p)
<1>1. /\ x \in KernelType /\ x.st = "live" /\ held[k] \in Nat /\ held[k] > 0 /\ KernelOK(x, h.prog, held[k])
      /\ p \in Programs /\ p # None /\ y \in ProgramType /\ y.st = "live" /\ c \in Contexts
      /\ k \in K /\ held[p] \in Nat /\ ProgramOK(y, K, held[p])
  BY OwnKernel
<1>2. Good(h.ctx, h.prog, h.kern, held) /\ HasFields(h)
  BY DEF IInv
<1>3. h.prog \in [Programs -> ProgramType] /\ h.ctx \in [Contexts -> ContextType] /\ h.kern \in [Kernels -> KernelType]
  BY <1>2 DEF Good, Typed
<1>4. /\ y.ref = held[p] + Cardinality(K) /\ y.ref > 0 /\ ToSet(y.kernels) = K /\ IsInjective(y.kernels)
      /\ BinariesOK(y) /\ y.devs # <<>> /\ y.binaries.st # "freed" /\ IsFiniteSet(K)
  BY <1>1 DEF ProgramOK
<1>5. held[k] = 1
  <2>1. x.ref = held[k] + Len(x.from) - 1 /\ x.from # <<>> /\ x.from \in Seq(BinaryNames)
    BY <1>1 DEF KernelOK, KernelType
  <2>2. Len(x.from) \in Nat /\ Len(x.from) > 0
    BY <2>1
  <2>3. ~(x.ref - 1 > 0)
    OBVIOUS
  <2> HIDE DEF x
  <2>4. QED  BY <2>1, <2>2, <2>3, <1>1
<1>6. /\ HasFields(s) /\ s.table = h.table /\ s.ctx = h.ctx /\ s.prog = h.prog
      /\ s.kern = [h.kern EXCEPT ![k] = rs]
  BY <1>2 DEF HasFields
<1>7. /\ rs \in KernelType /\ rs.st = x.st /\ rs.prog = p /\ rs.from = x.from /\ rs.ref = x.ref - 1
  <2>1. "live" \in Stages /\ x.ref - 1 \in Int
    BY <1>1 DEF Stages, KernelType
  <2> HIDE DEF x
  <2>2. QED  BY <1>1, <2>1, KernelRecords DEF p
<1>8. s.kern[k] = rs /\ s.prog[p] = y
  BY <1>3, <1>6
<1>9. y.kernels \in Seq(Kernels)
  BY <1>1 DEF ProgramType
<1>10. list \in Seq(Kernels) /\ ToSet(list) = K \ {k} /\ IsInjective(list)
  <2>1. Position(y.kernels, k) \in 1..Len(y.kernels) /\ y.kernels[Position(y.kernels, k)] = k
    BY <1>1, <1>4, <1>9, PositionFound
  <2> HIDE DEF y
  <2>2. QED  BY <2>1, <1>4, <1>9, Unlinked
<1>11. h' = [u EXCEPT !.kern[k].st = "freed"] /\ Dropped(k)
  <2>1. s.kern[k].prog = p /\ ~(s.kern[k].ref > 0)
    BY <1>7, <1>8
  <2>2. k \in ToSet(s.prog[p].kernels) /\ s.prog[p] = y
    BY <1>1, <1>4, <1>8
  <2>3. h' = [ReleaseProgram([s EXCEPT !.prog[p].kernels = RemoveAt(@, Position(@, k))], p) EXCEPT !.kern[k].st = "freed"]
    BY <1>1, <2>1, <2>2 DEF clReleaseKernel
  <2>4. [s EXCEPT !.prog[p].kernels = RemoveAt(@, Position(@, k))] = unlinked
    BY <2>2
  <2>5. Dropped(k)
    BY DEF clReleaseKernel
  <2>6. QED  BY <2>3, <2>4, <2>5
<1>12. held' = [held EXCEPT ![k] = 0] /\ known' = known
  <2>1. Dropped(k)
    BY <1>11
  <2>2. QED  BY <1>5, <2>1 DEF Dropped
<1> HIDE DEF list, s
<1>13. /\ z \in ProgramType /\ z.st = y.st /\ z.ctx = y.ctx /\ z.ref = y.ref /\ z.devs = y.devs
       /\ z.kernels = list /\ z.built = y.built /\ z.binaries = y.binaries
  <2> HIDE DEF y
  <2> QED  BY <1>1, <1>10 DEF ProgramType
<1>14. /\ HasFields(unlinked) /\ unlinked.table = h.table /\ unlinked.ctx = h.ctx
       /\ unlinked.kern = [h.kern EXCEPT ![k] = rs] /\ unlinked.prog = [h.prog EXCEPT ![p] = z]
  <2>1. /\ HasFields(unlinked) /\ unlinked.table = s.table /\ unlinked.ctx = s.ctx /\ unlinked.kern = s.kern
        /\ unlinked.prog = [s.prog EXCEPT ![p].kernels = list]
    <3>1. HasFields(s)
      BY <1>6
    <3> HIDE DEF p
    <3>2. QED  BY <3>1 DEF HasFields
  <2>2. [s.prog EXCEPT ![p].kernels = list] = [h.prog EXCEPT ![p] = z]
    BY <1>6
  <2> HIDE DEF unlinked
  <2>3. QED  BY <2>1, <2>2, <1>6
<1> DEFINE rk == [rs EXCEPT !.st = "freed"]
           kx == [h.kern EXCEPT ![k] = rk]
           rc == [h.ctx[c] EXCEPT !.ref = h.ctx[c].ref - 1]
<1>15. rk \in KernelType /\ rk.st = "freed"
  <2>1. "freed" \in Stages /\ x.ref \in Int
    BY <1>1 DEF Stages, KernelType
  <2> HIDE DEF rs
  <2>2. QED  BY <1>7, <2>1, KernelRecords
<1>16. KernelsIn(kx, p) = K \ {k}
  <2>1. rk.st # "live"
    BY <1>15
  <2> HIDE DEF rk, p
  <2>2. QED  BY <1>3, <1>15, <2>1 DEF KernelsIn
<1>17. IsFiniteSet(K \ {k}) /\ Cardinality(K \ {k}) = Cardinality(K) - 1 /\ Cardinality(K) \in Nat
  <2> HIDE DEF K
  <2> QED  BY <1>1, <1>4, FS_RemoveElement, FS_CardinalityType
<1>18. ~(y.ref - 1 > 0) => held[p] = 0 /\ K \ {k} = {} /\ list = <<>>
  <2> SUFFICES ASSUME ~(y.ref - 1 > 0) PROVE held[p] = 0 /\ K \ {k} = {} /\ list = <<>>
    OBVIOUS
  <2>1. held[p] = 0 /\ Cardinality(K \ {k}) = 0
    <3>1. K # {} /\ Cardinality(K) # 0
      <4> HIDE DEF K
      <4> QED  BY <1>1, <1>4, FS_EmptySet
    <3> HIDE DEF K, y, p
    <3>2. QED  BY <1>1, <1>4, <1>17, <3>1
  <2>2. K \ {k} = {}
    <3> HIDE DEF K
    <3> QED  BY <2>1, <1>17, FS_EmptySet
  <2>3. list = <<>>
    BY <2>2, <1>10, EmptyList
  <2>4. QED  BY <2>1, <2>2, <2>3
<1> HIDE DEF rk, rs, z, unlinked
<1>19. /\ unlinked.prog \in [Programs -> ProgramType] /\ unlinked.ctx \in [Contexts -> ContextType]
       /\ unlinked.kern \in [Kernels -> KernelType] /\ z = unlinked.prog[p]
  BY <1>1, <1>3, <1>7, <1>13, <1>14
<1>20. /\ HasFields(u) /\ u.table = unlinked.table /\ u.kern = unlinked.kern
       /\ z.ref - 1 > 0 => u.ctx = unlinked.ctx /\ u.prog = [unlinked.prog EXCEPT ![p] = LessProgram(z)]
       /\ ~(z.ref - 1 > 0) =>
            /\ u.ctx = [unlinked.ctx EXCEPT ![c] = [unlinked.ctx[c] EXCEPT !.ref = unlinked.ctx[c].ref - 1]]
            /\ u.prog = [unlinked.prog EXCEPT ![p] = FreedProgram(z)]
  <2>1. c = z.ctx /\ (z.ref - 1 > 0 \/ z.kernels = <<>>) /\ u = ReleaseProgram(unlinked, p) /\ p \in Programs
    BY <1>1, <1>13, <1>18
  <2>2. HasFields(unlinked)
    BY <1>14
  <2> HIDE DEF u, c, p
  <2>3. QED  BY <1>19, <2>1, <2>2, ReleaseProgramValue
<1> HIDE DEF u
<1>21. HasFields(h') /\ h'.table = u.table /\ h'.ctx = u.ctx /\ h'.prog = u.prog /\ h'.kern = [u.kern EXCEPT ![k].st = "freed"]
  BY <1>11, <1>20 DEF HasFields
<1>22. h'.kern = kx
  <2>1. u.kern = [h.kern EXCEPT ![k] = rs]
    BY <1>14, <1>20
  <2>2. QED  BY <1>3, <1>21, <2>1 DEF rk
<1>23. h'.table = h.table
  BY <1>14, <1>20, <1>21
<1>24. z.ref - 1 > 0 => h'.ctx = h.ctx /\ h'.prog = [h.prog EXCEPT ![p] = LessProgram(z)]
  BY <1>3, <1>14, <1>20, <1>21
<1>25. ~(z.ref - 1 > 0) => h'.ctx = [h.ctx EXCEPT ![c] = rc] /\ h'.prog = [h.prog EXCEPT ![p] = FreedProgram(z)]
  BY <1>3, <1>14, <1>20, <1>21
<1>26. /\ LessProgram(z) \in ProgramType /\ LessProgram(z).st = "live" /\ LessProgram(z).ctx = c
       /\ LessProgram(z).ref = y.ref - 1 /\ LessProgram(z).devs = y.devs
       /\ LessProgram(z).kernels = list /\ LessProgram(z).built = y.built
       /\ LessProgram(z).binaries = y.binaries
       /\ FreedProgram(z) \in ProgramType /\ FreedProgram(z).st = "freed"
       /\ FreedProgram(z).built = y.built /\ FreedProgram(z).devs = y.devs
  BY SMTT(60), <1>1, <1>13, ReleasedRecords
<1>27. /\ \A px : KernelOK(rk, px, 0)
       /\ rk.st # "live"
  BY <1>15 DEF KernelOK
<1>28. CASE y.ref - 1 > 0
  <2> DEFINE px == [h.prog EXCEPT ![p] = LessProgram(z)]
  <2>1. h'.ctx = [h.ctx EXCEPT ![c] = h.ctx[c]] /\ h'.prog = px /\ h.ctx[c] \in ContextType
    <3>1. h'.ctx = h.ctx /\ h'.prog = px
      BY <1>13, <1>24, <1>28
    <3> HIDE DEF c, px
    <3>2. QED  BY <1>1, <1>3, <3>1
  <2>2. ProgramOK(LessProgram(z), KernelsIn(kx, p), held[p])
    <3>1. y.ref - 1 = held[p] + Cardinality(K \ {k})
      <4> HIDE DEF y, K, p
      <4> QED  BY <1>1, <1>4, <1>17
    <3>2. BinariesOK(LessProgram(z))
      BY <1>4, <1>26 DEF BinariesOK
    <3> HIDE DEF kx, K, y, p, c
    <3>3. QED
      BY <1>1, <1>4, <1>10, <1>16, <1>17, <1>26, <1>28, <3>1, <3>2 DEF ProgramOK
  <2>3. ProgramsIn(px, c) = ProgramsIn(h.prog, c)
    BY <1>1, <1>3, <1>26 DEF ProgramsIn
  <2>4. ContextOK(h.ctx[c], ProgramsIn(px, c), held[c])
    BY <1>1, <1>2, <2>3 DEF Good
  <2>5. KernelUpdate(c, h.ctx[c], p, LessProgram(z), k, rk, 0)
    BY <1>1, <1>12, <1>15, <1>21, <1>22, <1>23, <1>26, <1>27, <2>1, <2>2, <2>4 DEF KernelUpdate
  <2> HIDE DEF c, p
  <2>6. QED
    BY <2>5, KernelUpdated
<1>29. CASE ~(y.ref - 1 > 0)
  <2> DEFINE px == [h.prog EXCEPT ![p] = FreedProgram(z)]
  <2>1. h'.ctx = [h.ctx EXCEPT ![c] = rc] /\ h'.prog = px
    BY <1>13, <1>25, <1>29
  <2>2. ProgramOK(FreedProgram(z), KernelsIn(kx, p), held[p])
    <3>1. held[p] = 0 /\ KernelsIn(kx, p) = {} /\ FreedProgram(z).st # "live"
      BY <1>16, <1>18, <1>26, <1>29
    <3> HIDE DEF kx, p
    <3>2. QED  BY <3>1, FS_EmptySet DEF ProgramOK
  <2>3. rc \in ContextType /\ ContextOK(rc, ProgramsIn(px, c), held[c])
    <3>1. rc = [h.ctx[c] EXCEPT !.ref = h.ctx[c].ref - 1] /\ c = h.prog[p].ctx /\ h.prog[p].st = "live" /\ p \in Programs
      BY <1>1
    <3> HIDE DEF c, rc, p
    <3>2. QED  BY SMTT(60), <1>2, <1>26, <3>1, ContextOfFreed
  <2>4. KernelUpdate(c, rc, p, FreedProgram(z), k, rk, 0)
    <3> HIDE DEF rc
    <3> QED
      BY <1>1, <1>12, <1>15, <1>21, <1>22, <1>23, <1>26, <1>27, <2>1, <2>2, <2>3 DEF KernelUpdate
  <2> HIDE DEF c, p, rc
  <2>5. QED
    BY <2>4, KernelUpdated
<1>30. QED
  BY <1>28, <1>29
-----------------------------------------------------------------------------
(* The theorems.                                                           *)

LEMMA NextInvariant == IInv /\ [Next]_vars => IInv'
<1> SUFFICES ASSUME IInv, [Next]_vars PROVE IInv'
  OBVIOUS
<1>1. CASE UNCHANGED vars
  BY <1>1 DEF vars, IInv
<1>2. CASE ClientDevices
  <2>1. ASSUME NEW type \in DeviceTypes, clGetDeviceIDs(type) PROVE IInv'
    BY <2>1, GetDeviceIDsStep
  <2>2. ASSUME NEW c \in Contexts, NEW list \in Lists(known), clCreateContext(c, list) PROVE IInv'
    BY <2>2, CreateContextStep
  <2>3. ASSUME NEW c \in Contexts, NEW list \in Lists(known), ContextRefused(c, list) PROVE IInv'
    BY <2>3, ContextRefusedStep
  <2>4. ASSUME NEW c \in Contexts, NEW type \in DeviceTypes, clCreateContextFromType(c, type) PROVE IInv'
    BY <2>4, ContextFromTypeStep
  <2>5. ASSUME NEW c \in Contexts, MayRetain(c), clRetainContext(c) PROVE IInv'
    BY <2>5, RetainContextStep
  <2>6. ASSUME NEW c \in Contexts, Owns(c), clReleaseContext(c) PROVE IInv'
    BY <2>6, ReleaseContextStep
  <2>7. QED
    BY <1>2, <2>1, <2>2, <2>3, <2>4, <2>5, <2>6 DEF ClientDevices
<1>3. CASE ClientPrograms
  <2>1. ASSUME NEW p \in Programs, NEW c \in Contexts, Owns(c), clCreateProgramWithSource(p, c) PROVE IInv'
    BY <2>1, ProgramWithSourceStep
  <2>2. ASSUME NEW p \in Programs, NEW c \in Contexts, Owns(c),
               NEW list \in Distinct(ToSet(h.ctx[c].devs)), clCreateProgramWithBinary(p, c, list)
        PROVE  IInv'
    BY <2>2, ProgramWithBinaryStep
  <2>3. ASSUME NEW p \in Programs, Owns(p), NEW list \in Distinct(ToSet(h.prog[p].devs)) \cup {<<>>},
               clBuildProgram(p, list)
        PROVE  IInv'
    BY <2>3, BuildSourceStep, BuildFailsStep, BuildBinaryStep DEF clBuildProgram
  <2>4. ASSUME NEW p \in Programs, Owns(p), clReleaseProgram(p) PROVE IInv'
    BY <2>4, ReleaseProgramStep
  <2>5. ASSUME NEW p \in Programs, MayRetain(p), clRetainProgram(p) PROVE IInv'
    BY <2>5, RetainProgramStep
  <2>6. QED
    BY <1>3, <2>1, <2>2, <2>3, <2>4, <2>5 DEF ClientPrograms
<1>4. CASE ClientKernels
  <2>1. ASSUME NEW k \in Kernels, NEW p \in Programs, Owns(p), clCreateKernel(k, p) PROVE IInv'
    BY <2>1, CreateKernelStep
  <2>2. ASSUME NEW k \in Kernels, NEW p \in Programs, KernelRefused(k, p) PROVE IInv'
    BY <2>2, KernelRefusedStep
  <2>3. ASSUME NEW k \in Kernels, MayRetain(k), clRetainKernel(k) PROVE IInv'
    BY <2>3, RetainKernelStep
  <2>4. ASSUME NEW k \in Kernels, Owns(k), clReleaseKernel(k) PROVE IInv'
    BY <2>4, ReleaseKernelLeaves, ReleaseKernelLast
  <2>5. QED
    BY <1>4, <2>1, <2>2, <2>3, <2>4 DEF ClientKernels
<1>5. QED
  BY <1>1, <1>2, <1>3, <1>4 DEF Next

\* The inductive invariant: in every behaviour the tables have their types, and
\* the count of every object is the references the client and the objects that
\* point to it have.
THEOREM ObjectsInvariant == Spec => []IInv
BY InitInvariant, NextInvariant, PTL DEF Spec

LEMMA PointersLiveHolds == IInv => PointersLive
<1> SUFFICES ASSUME IInv PROVE PointersLive
  OBVIOUS
<1>1. Good(h.ctx, h.prog, h.kern, held)
  BY DEF IInv
<1>2. ASSUME NEW c \in Contexts, Owns(c) PROVE h.ctx[c].st = "live"
  BY <1>1, <1>2 DEF Good, ContextOK, Owns
<1>3. ASSUME NEW p \in Programs, Owns(p) PROVE h.prog[p].st = "live"
  BY <1>1, <1>3 DEF Good, ProgramOK, Owns
<1>4. ASSUME NEW p \in Programs, h.prog[p].st = "live"
      PROVE  h.ctx[h.prog[p].ctx].st = "live" /\ h.prog[p].binaries.st # "freed"
  <2>1. h.prog[p].ctx \in Contexts /\ h.prog[p].binaries.st # "freed"
    BY <1>1, <1>4 DEF Good, ProgramOK
  <2>2. p \in ProgramsIn(h.prog, h.prog[p].ctx)
    BY <1>4 DEF ProgramsIn
  <2>3. QED  BY <1>1, <2>1, <2>2 DEF Good, ContextOK
<1>5. ASSUME NEW k \in Kernels, Owns(k) PROVE h.kern[k].st = "live"
  BY <1>1, <1>5 DEF Good, KernelOK, Owns
<1>6. ASSUME NEW k \in Kernels, h.kern[k].st = "live"
      PROVE  h.kern[k].prog # None /\ h.prog[h.kern[k].prog].st = "live"
  <2>1. h.kern[k].prog \in Programs
    BY <1>1, <1>6 DEF Good, KernelOK
  <2>2. k \in KernelsIn(h.kern, h.kern[k].prog)
    BY <1>6 DEF KernelsIn
  <2>3. QED  BY <1>1, <2>1, <2>2, HandlesAssumption DEF Good, ProgramOK
<1>7. QED
  BY <1>2, <1>3, <1>4, <1>5, <1>6 DEF PointersLive

\* Whatever the order of the releases, nothing a client or another object points
\* to has been freed: the program of a kernel, the context of a program, its
\* devices and its binaries.
THEOREM NothingDangles == Spec => []PointersLive
BY ObjectsInvariant, PointersLiveHolds, PTL

LEMMA RefsAccountedHolds == IInv => RefsAccounted
<1> SUFFICES ASSUME IInv PROVE RefsAccounted
  OBVIOUS
<1>1. Good(h.ctx, h.prog, h.kern, held)
  BY DEF IInv
<1>2. (\A c : ProgramsOf(c) = ProgramsIn(h.prog, c)) /\ (\A p : KernelsOf(p) = KernelsIn(h.kern, p))
  BY DEF ProgramsOf, ProgramsIn, KernelsOf, KernelsIn
<1>3. ASSUME NEW c \in Contexts, h.ctx[c].st = "live", h.ctx[c].valid
      PROVE  h.ctx[c].ref = held[c] + Cardinality(ProgramsOf(c))
  BY <1>1, <1>2, <1>3 DEF Good, ContextOK
<1>4. ASSUME NEW p \in Programs, h.prog[p].st = "live"
      PROVE  /\ h.prog[p].ref = held[p] + Cardinality(KernelsOf(p)) /\ h.prog[p].ref > 0
             /\ ToSet(h.prog[p].kernels) = KernelsOf(p) /\ IsInjective(h.prog[p].kernels)
  <2>1. ProgramOK(h.prog[p], KernelsIn(h.kern, p), held[p])
    BY <1>1 DEF Good
  <2>2. QED  BY <1>2, <1>4, <2>1 DEF ProgramOK
<1>5. ASSUME NEW k \in Kernels, h.kern[k].st = "live"
      PROVE  h.kern[k].ref = held[k] + Len(h.kern[k].from) - 1 /\ h.kern[k].ref > 0
  BY <1>1, <1>5 DEF Good, KernelOK
<1>6. QED
  BY <1>3, <1>4, <1>5 DEF RefsAccounted

\* The count of an object is the references there are to it, for every number of
\* objects and every sequence of calls.
THEOREM CountsExact == Spec => []RefsAccounted
BY ObjectsInvariant, RefsAccountedHolds, PTL

LEMMA OwnBinaryHolds == IInv => KernelFromOwnBinary
<1> SUFFICES ASSUME IInv PROVE KernelFromOwnBinary
  OBVIOUS
<1>1. ASSUME NEW k \in Kernels, h.kern[k].st = "live" PROVE FromOwn(h.prog[h.kern[k].prog], h.kern[k].from)
  BY <1>1 DEF IInv, Good, KernelOK
<1>2. QED
  BY <1>1 DEF KernelFromOwnBinary, FromOwn

\* A kernel is compiled for each CPU from the binary built for that CPU, after
\* any sequence of builds, failed ones too, while the binaries are those of all
\* devices of the program.
THEOREM OwnBinaries == Spec => []KernelFromOwnBinary
BY ObjectsInvariant, OwnBinaryHolds, PTL
=============================================================================
