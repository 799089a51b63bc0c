-------------------------- MODULE WorkitemHandlers --------------------------
(***************************************************************************)
(* The work-group function the kernel compiler makes of a kernel, and its  *)
(* execution: the passes of BarrierPasses, the parallel regions between    *)
(* the barriers (Kernel.cc, ParallelRegion.cc), and the two handlers that  *)
(* run a region for every work-item: WorkitemReplication chains a copy per *)
(* work-item, WorkitemLoops puts loops over the local ids around it.       *)
(***************************************************************************)
EXTENDS BarrierPasses

CONSTANTS
  Kernels,    \* the kernels: [graph, uniform, known]; uniform are the conditions
              \* that are the same for all work-items whenever they are evaluated,
              \* known the ones isUniform finds out
  LocalSizes, \* local sizes <<x, y, z>>
  Handlers,   \* subset of {"loops", "repl"}, see WorkitemHandlerChooser
  MaxUnroll,  \* POCL_WILOOPS_MAX_UNROLL_COUNT, 1 when not set
  MaxEvals    \* bound: times a work-item takes the first successor of a condition

ASSUME SizesAssumption == LocalSizes \subseteq (Nat \ {0}) \X (Nat \ {0}) \X (Nat \ {0})
ASSUME KernelsAssumption == \A k \in Kernels : k.known \subseteq k.uniform

VARIABLES
  source,   \* the kernel that is compiled, one of Kernels
  size,     \* the local size
  handler,  \* chosenHandler_
  pass,     \* the pass that is next, "run", "done", or "abort"
  cfg,      \* the function, as the passes so far have left it
  base,     \* the function as the handler found it
  regions,  \* original_parallel_regions
  pc,       \* the instruction that is executed next: [b, i]
  lid,      \* _local_id_x, _y and _z
  first,    \* .pocl.local_id_x_init
  at,       \* where each work-item is in the source
  reg,      \* for every operation the work-item that executed it last
  evals,    \* how often each work-item has evaluated each condition
  decided   \* the values of the uniform conditions, in the order of evaluation

compiler == <<source, size, handler, pass, cfg, base, regions>>
machine == <<pc, lid, first, at, reg, evals, decided>>
vars == <<source, size, handler, pass, cfg, base, regions, pc, lid, first, at, reg, evals, decided>>

Source == INSTANCE WorkGroup WITH kernel <- source.graph

Items(sz) == (0..(sz[1] - 1)) \X (0..(sz[2] - 1)) \X (0..(sz[3] - 1))

Operations(g) == UNION {ToSet(g[b].body) : b \in DOMAIN g} \ Barriers
Conditions(g) == {g[b].cond : b \in DOMAIN g} \ {"none"}
-----------------------------------------------------------------------------
\* add_predecessors: a barrier in front of a barrier is passed over.
RECURSIVE AddPredecessors(_, _)
AddPredecessors(g, b) ==
  UNION {IF HasOnlyBarrier(g, p) /\ HasOnlyBarrier(g, b) THEN AddPredecessors(g, p) ELSE {p}
           : p \in Preds(g, b)}

\* The blocks of a region: everything in front of its barrier up to the
\* barriers before.
RECURSIVE BlocksInRegion(_, _, _)
BlocksInRegion(g, pending, found) ==
  LET new == {b \in pending \ found : ~HasOnlyBarrier(g, b)}
  IN  IF new = {} THEN found
      ELSE BlocksInRegion(g, UNION {AddPredecessors(g, b) : b \in new}, found \cup new)

\* ParallelRegion::Create takes the first block for the exit when the given
\* one is not in the region.
ExitOf(g, B, blocks) ==
  LET exit == SinglePredecessor(g, B)
  IN  IF exit \in blocks \/ exit = Unreachable THEN exit ELSE Min(blocks)

createParallelRegionBefore(g, B) ==
  LET blocks == BlocksInRegion(g, AddPredecessors(g, B), {})
      entries == {b \in blocks : \E p \in Preds(g, b) : HasOnlyBarrier(g, p)}
  IN  [blocks |-> blocks,
       entry |-> IF entries = {} THEN Unreachable ELSE Min(entries),
       exit |-> ExitOf(g, B, blocks)]

\* The assertions of createParallelRegionBefore, Create, Verify and
\* BarrierBlock.
Verify(g, r) ==
  /\ r.entry # Unreachable /\ r.exit # Unreachable
  /\ Len(g[r.exit].succ) = 1
  /\ \A b \in r.blocks :
       /\ ~HasBarrier(g, b)
       /\ \A p \in Preds(g, b) \ r.blocks : b = r.entry /\ HasBarrier(g, p)

BarrierBlocksVerify(g) ==
  \A b \in DOMAIN g : HasOnlyBarrier(g, b) => b = Entry \/ Cardinality(Preds(g, b)) = 1

\* Kernel::getParallelRegions: upwards from the exits, inner loops first.
\* pending is the vector exit_blocks; the result ends with a region that does
\* not verify when an assertion fails.
RECURSIVE RegionsUpFrom(_, _, _, _, _)
RegionsUpFrom(g, exit, pending, found, rs) ==
  LET pr == createParallelRegionBefore(g, exit)
      seen == found \cup {exit}
      new == {p \in Preds(g, pr.entry) : p \notin seen}
      inLoop == {p \in new : /\ LoopFor(g, p) # Unreachable
                             /\ LoopFor(g, p) = LoopFor(g, pr.entry)}
      outside == new \ inLoop
      saved == InnerFirst(inLoop \ {Max(inLoop)}, LAMBDA p : 1..p)
      more == Append(rs, pr)
  IN  IF exit = Unreachable THEN
        IF pending = <<>> THEN rs
        ELSE RegionsUpFrom(g, Last(pending), Front(pending), found, rs)
      ELSE IF pr.blocks = {} THEN RegionsUpFrom(g, Unreachable, pending, found, rs)
      ELSE IF ~Verify(g, pr) \/ \E p \in Preds(g, pr.entry) : ~HasOnlyBarrier(g, p) THEN more
      ELSE IF new = {} THEN RegionsUpFrom(g, Unreachable, pending, seen, more)
      ELSE IF inLoop = {} THEN RegionsUpFrom(g, Max(outside), pending, seen, more)
      ELSE RegionsUpFrom(g, Max(inLoop),
             pending \o saved \o (IF outside = {} THEN <<>> ELSE <<Max(outside)>>), seen, more)

getParallelRegions(g) ==
  RegionsUpFrom(g, Unreachable, InnerFirst(Exits(g), LAMBDA b : 1..b), {}, <<>>)
-----------------------------------------------------------------------------
\* ParallelRegion::replicate, with the graph and the region of the copies.
replicate(g, r) ==
  LET m == CopyOf(g, r.blocks)
      copied == ReplicateBlocks(g, r.blocks)
      origin(b) == IF g[b].of = 0 THEN b ELSE g[b].of
  IN  [g |-> [c \in DOMAIN copied |->
                IF c \in DOMAIN g THEN g[c]
                ELSE [copied[c] EXCEPT !.of = origin(CHOOSE b \in r.blocks : m[b] = c)]],
       r |-> [blocks |-> {m[b] : b \in r.blocks}, entry |-> m[r.entry], exit |-> m[r.exit]]]

\* chainAfter: region r runs between prev and what came behind prev.
chainAfter(g, r, prev) ==
  [g EXCEPT ![prev.exit].succ = <<r.entry>>, ![r.exit].succ = g[prev.exit].succ]

\* purge: what leaves the region elsewhere cannot happen.
purge(g, r) ==
  [b \in DOMAIN g |->
     IF b \in r.blocks \ {r.exit}
     THEN [g[b] EXCEPT !.succ = [i \in DOMAIN @ |-> IF @[i] \in r.blocks THEN @[i] ELSE Unreachable]]
     ELSE g[b]]

SetIds(ids) == [op |-> "set", ids |-> ids, dim |-> 0]

\* insertLocalIdInit and insertPrologue.
insertLocalIdInit(g, b, ids) == [g EXCEPT ![b].wi = <<SetIds(ids)>> \o @]

\* AppendIncBlock behind block b, which has one successor.
AppendIncBlock(g, b, dim) ==
  LET n == FreshBlock(g)
      inc == [Block(<<>>, "none", g[b].succ) EXCEPT
                !.wi = <<[op |-> "inc", ids |-> <<>>, dim |-> dim]>>]
  IN  [c \in DOMAIN g \cup {n} |->
         CASE c = b -> [g[b] EXCEPT !.succ = <<n>>] [] c = n -> inc [] OTHER -> g[c]]

Less == <<"x<", "y<", "z<">>

\* CreateLoopAround from l.entry to l.exit; the result has the graph and the
\* first and the last block of the loop.
CreateLoopAround(l, dim, peeledFirst, addIncBlock) ==
  LET g == l.g
      init == FreshBlock(g)
      end == init + 1
      cond == init + 2
      outer == {p \in Preds(g, l.entry) : ~Dominates(g, l.entry, p)}
      start == [op |-> IF peeledFirst THEN "first" ELSE "zero", ids |-> <<>>, dim |-> dim]
      looped == [b \in DOMAIN g \cup {init, end, cond} |->
                   CASE b = init -> [Block(<<>>, "none", <<l.entry>>) EXCEPT !.wi = <<start>>]
                     [] b = end  -> Block(<<>>, "none", g[l.exit].succ)
                     [] b = cond -> Block(<<>>, Less[dim], <<l.entry, end>>)
                     [] b = l.exit -> [g[b] EXCEPT !.succ = <<cond>>]
                     [] OTHER -> g[b]]
      entered == RedirectAll(looped, outer, l.entry, init)
  IN  [g |-> IF addIncBlock THEN AppendIncBlock(entered, l.exit, dim) ELSE entered,
       entry |-> init, exit |-> end]

\* The unroll count of WorkitemLoops::ProcessFunction.
RECURSIVE UnrollCount(_, _)
UnrollCount(n, x) == IF n < 1 \/ (x % n = 0 /\ n <= x) THEN n ELSE UnrollCount(n \div 2, x)

\* Copies of a region, each with its increment, in a row.
Unrolled(g, r, n) ==
  LET one == AppendIncBlock(g, r.exit, 1)
      whole == [r EXCEPT !.blocks = @ \cup {FreshBlock(g)}, !.exit = FreshBlock(g)]
      step(acc, c) == LET copy == replicate(acc.g, whole)
                      IN  [g |-> chainAfter(copy.g, copy.r, acc.last), last |-> copy.r]
      all == FoldLeft(step, [g |-> one, last |-> whole], [c \in 1..(n - 1) |-> c])
  IN  [g |-> all.g, entry |-> r.entry, exit |-> all.last.exit]

\* A region whose entry another region has too is entered by the first
\* work-item alone, which finds out which of them the group is in; the loops
\* go around a copy for the others.
Peeled(g, r) ==
  LET copy == replicate(g, r)
  IN  [g |-> purge(chainAfter(copy.g, copy.r, r), copy.r), entry |-> copy.r.entry, exit |-> copy.r.exit]

Shared(rs, r) == Cardinality({i \in DOMAIN rs : rs[i].entry = r.entry}) > 1

RegionOf(rs, b) == {i \in DOMAIN rs : b \in rs[i].blocks}

\* WorkitemLoops::ProcessFunction for one region.
LoopRegion(g, rs, r, sz) ==
  LET peel == Shared(rs, r)
      unroll == UnrollCount(MaxUnroll, sz[1])
      into == {p \in Preds(g, r.entry) : ~(Dominates(g, r.entry, p) /\ p \in r.blocks)}
      body == IF peel THEN Peeled(g, r)
              ELSE IF unroll > 1 THEN Unrolled(g, r, unroll)
              ELSE [g |-> g, entry |-> r.entry, exit |-> r.exit]
      x == IF sz[1] > 1 THEN CreateLoopAround(body, 1, peel, peel \/ unroll <= 1) ELSE body
      y == IF sz[2] > 1 THEN CreateLoopAround(x, 2, FALSE, TRUE) ELSE x
      z == IF sz[3] > 1 THEN CreateLoopAround(y, 3, FALSE, TRUE) ELSE y
  IN  IF peel THEN z.g ELSE RedirectAll(z.g, into, r.entry, z.entry)

\* Mistaken form: nothing tells the x loop that work-item 0 is done.
NoPeeledPrologue(g, rs, r) ==
  IF ~Shared(rs, r) THEN g ELSE insertLocalIdInit(g, r.entry, <<0, 0, 0>>)

\* The peeled iteration is that of work-item 0, and tells the x loop so.
PeeledPrologue(g, rs, r) ==
  IF ~Shared(rs, r) THEN g
  ELSE insertLocalIdInit([g EXCEPT ![r.entry].wi = <<[op |-> "peel", ids |-> <<>>, dim |-> 1]>>],
                         r.entry, <<0, 0, 0>>)

WorkitemLoops(g, rs, sz) ==
  LET looped == FoldLeft(LAMBDA h, r : LoopRegion(h, rs, r, sz), g, rs)
      started == FoldLeft(LAMBDA h, r : PeeledPrologue(h, rs, r), looped, rs)
  IN  insertLocalIdInit(IF sz = <<1, 1, 1>> THEN g ELSE started, Entry, <<0, 0, 0>>)

\* Mistaken form: only the last block of a region is looked at.
ContextSavedAtExit(g, rs) ==
  {d \in DOMAIN g : \E i \in RegionOf(rs, d) : d = rs[i].exit /\ \E u \in DOMAIN g \ rs[i].blocks :
                      RegionOf(rs, u) # {} /\ Dominates(g, d, u)}

\* FixMultiRegionVariables: the blocks whose results are kept per work-item,
\* because a block of some region outside theirs may use them.
ContextSaved(g, rs) ==
  {d \in DOMAIN g : \E i \in RegionOf(rs, d) : \E u \in DOMAIN g \ rs[i].blocks :
                      RegionOf(rs, u) # {} /\ Dominates(g, d, u)}
-----------------------------------------------------------------------------
\* WorkitemReplication::ProcessFunction: the local ids in the order of the
\* index, and the copies of one region chained in that order.
ItemAt(sz, n) == <<n % sz[1], (n \div sz[1]) % sz[2], n \div (sz[1] * sz[2])>>

ReplicateRegion(g, r, sz) ==
  LET step(acc, n) ==
        LET copy == replicate(acc.g, r)
            chained == purge(chainAfter(copy.g, copy.r, acc.last), copy.r)
        IN  [g |-> insertLocalIdInit(chained, copy.r.entry, ItemAt(sz, n)), last |-> copy.r]
  IN  FoldLeft(step, [g |-> g, last |-> r], [n \in 1..(sz[1] * sz[2] * sz[3] - 1) |-> n]).g

WorkitemReplication(g, rs, sz) ==
  LET copied == FoldLeft(LAMBDA h, r : ReplicateRegion(h, r, sz), g, rs)
  IN  FoldLeft(LAMBDA h, r : insertLocalIdInit(h, r.entry, <<0, 0, 0>>), copied, rs)
-----------------------------------------------------------------------------
NoGraph == [b \in {Entry} |-> Block(<<>>, "none", <<>>)]

Init ==
  /\ source \in Kernels /\ size \in LocalSizes /\ handler \in Handlers
  /\ pass = "isolate-regions"
  /\ cfg = source.graph /\ base = NoGraph /\ regions = <<>>
  /\ pc = [b |-> Entry, i |-> 0] /\ lid = <<0, 0, 0>> /\ first = 0
  /\ at = [w \in Items(size) |-> Source!Start(source.graph)]
  /\ reg = [o \in Operations(source.graph) |-> <<>>]
  /\ evals = [w \in Items(size) |-> [c \in Conditions(source.graph) |-> 0]]
  /\ decided = [c \in source.uniform |-> <<>>]

\* A pass: it turns cfg into g, unless one of its assertions fails.
Pass(name, ok, g, next) ==
  /\ pass = name
  /\ cfg' = IF ok THEN g ELSE cfg
  /\ pass' = IF ok THEN next ELSE "abort"
  /\ UNCHANGED <<source, size, handler, machine>>

Prepare ==
  /\ \/ Pass("isolate-regions", TRUE, IsolateRegions(cfg), "implicit-loop-barriers")
     \/ Pass("implicit-loop-barriers", TRUE, ImplicitLoopBarriers(cfg, source.known), "loop-barriers")
     \/ Pass("loop-barriers", LoopsCanonical(cfg), LoopBarriers(cfg), "barriertails")
     \/ Pass("barriertails", TRUE, BarrierTailReplication(cfg), "barriers")
     \/ Pass("barriers", TRUE, CanonicalizeBarriers(cfg), "isolate-again")
     \/ Pass("isolate-again", TRUE, IsolateRegions(cfg), "workitem")
  /\ UNCHANGED <<base, regions>>

\* WorkitemLoops leaves a single work-item's function as it is, and asks nothing.
HandlerPass ==
  LET rs == getParallelRegions(cfg)
      ok == \/ handler = "loops" /\ size = <<1, 1, 1>>
            \/ BarrierBlocksVerify(cfg) /\ \A i \in DOMAIN rs : Verify(cfg, rs[i])
  IN  /\ Pass("workitem", ok,
              IF handler = "loops" THEN WorkitemLoops(cfg, rs, size)
              ELSE WorkitemReplication(cfg, rs, size), "run")
      /\ base' = cfg /\ regions' = rs
-----------------------------------------------------------------------------
\* The execution of the work-group function, one instruction at a time.
here == cfg[pc.b]
Running == pass = "run"

Goto(n) == pc' = [b |-> n, i |-> IF n # Unreachable /\ cfg[n].wi # <<>> THEN 0 ELSE 1]
Continue == pc' = [pc EXCEPT !.i = @ + 1]

\* The code of the handler on the local ids, as <<lid, first>>.
HandlerCode(state, code) ==
  CASE code.op = "set"   -> <<code.ids, state[2]>>
    [] code.op = "peel"  -> <<state[1], 1>>
    [] code.op = "zero"  -> <<[state[1] EXCEPT ![code.dim] = 0], state[2]>>
    [] code.op = "first" -> <<[state[1] EXCEPT ![code.dim] = state[2]], 0>>
    [] code.op = "inc"   -> <<[state[1] EXCEPT ![code.dim] = @ + 1], state[2]>>

LocalIds ==
  /\ Running /\ pc.b # Unreachable /\ pc.i = 0
  /\ LET after == FoldLeft(HandlerCode, <<lid, first>>, here.wi)
     IN  lid' = after[1] /\ first' = after[2]
  /\ Continue
  /\ UNCHANGED <<compiler, at, reg, evals, decided>>

\* An operation of the kernel, for the work-item the local ids name.
Operation ==
  /\ Running /\ pc.b # Unreachable /\ pc.i \in DOMAIN here.body
  /\ here.body[pc.i] \notin Barriers
  /\ at' = [at EXCEPT ![lid] = Source!AfterOperation(source.graph, @, here.body[pc.i])]
  /\ reg' = [reg EXCEPT ![here.body[pc.i]] = lid]
  /\ Continue
  /\ UNCHANGED <<compiler, lid, first, evals, decided>>

\* A barrier block is executed once for the group; it is only a mark.
PassBarrier ==
  /\ Running /\ pc.b # Unreachable /\ pc.i \in DOMAIN here.body
  /\ here.body[pc.i] \in Barriers
  /\ at' = IF here.body[pc.i] = "imp" THEN at
           ELSE [w \in DOMAIN at |-> Source!AfterBarrier(source.graph, at[w])]
  /\ Continue
  /\ UNCHANGED <<compiler, lid, first, reg, evals, decided>>

AtTerminator == Running /\ pc.b # Unreachable /\ pc.i = Len(here.body) + 1

Jump ==
  /\ AtTerminator /\ here.cond = "none" /\ here.succ # <<>>
  /\ Goto(here.succ[1])
  /\ UNCHANGED <<compiler, lid, first, at, reg, evals, decided>>

\* The condition of a work-item loop.
LoopBranch ==
  /\ AtTerminator
  /\ \E dim \in 1..3 : /\ here.cond = Less[dim]
                       /\ Goto(here.succ[IF lid[dim] < size[dim] THEN 1 ELSE 2])
  /\ UNCHANGED <<compiler, lid, first, at, reg, evals, decided>>

\* The values the n-th evaluation of condition c may have.  The first
\* successor is taken at most MaxEvals times, so that every loop ends.
Values(c, n) ==
  IF c \in source.uniform /\ n <= Len(decided[c]) THEN {decided[c][n]}
  ELSE IF n > MaxEvals THEN {2} ELSE {1, 2}

\* The work-items W evaluate condition c, each with its own value v[w].
Evaluate(W, c, v) ==
  /\ \A w \in W : v[w] \in Values(c, evals[w][c] + 1)
  /\ c \in source.uniform => \A w, u \in W : v[w] = v[u]
  /\ at' = [w \in DOMAIN at |-> IF w \in W THEN Source!AfterBranch(source.graph, at[w], c, v[w])
                                ELSE at[w]]
  /\ evals' = [w \in DOMAIN evals |-> IF w \in W THEN [evals[w] EXCEPT ![c] = @ + 1] ELSE evals[w]]
  /\ decided' = IF c \in source.uniform /\ \E w \in W : evals[w][c] = Len(decided[c])
                THEN [decided EXCEPT ![c] = Append(@, v[CHOOSE w \in W : TRUE])] ELSE decided

\* A branch of the kernel: in a region it is that of one work-item; in a
\* barrier block the group takes it once, with the value of the work-item that
\* ran last (loops), or of the first one, whose region is not a copy.
Branch ==
  LET W == IF HasOnlyBarrier(cfg, pc.b) THEN DOMAIN at ELSE {lid}
      decides == IF ~HasOnlyBarrier(cfg, pc.b) THEN lid
                 ELSE IF handler = "loops" THEN <<size[1] - 1, size[2] - 1, size[3] - 1>>
                 ELSE <<0, 0, 0>>
  IN  /\ AtTerminator /\ here.cond \in Conditions(source.graph)
      /\ \E v \in [W -> {1, 2}] :
           /\ Evaluate(W, here.cond, v)
           /\ Goto(here.succ[v[decides]])
      /\ UNCHANGED <<compiler, lid, first, reg>>

Return ==
  /\ AtTerminator /\ here.succ = <<>>
  /\ pass' = "done"
  /\ UNCHANGED <<source, size, handler, cfg, base, regions, machine>>

Execute == LocalIds \/ Operation \/ PassBarrier \/ Jump \/ LoopBranch \/ Branch \/ Return

Next == Prepare \/ HandlerPass \/ Execute

Spec == Init /\ [][Next]_vars

\* The processor goes on executing the work-group function.
FairSpec == Spec /\ WF_vars(Execute)
-----------------------------------------------------------------------------
\* The work-group function that the passes and a handler have made of a kernel
\* executes the kernel as WorkGroup says: each work-item takes the steps of the
\* source, in its order, once, by its own conditions, and none gets behind a
\* barrier before all the others have come to it.  The barriers that the passes
\* add, the tails they replicate, the peeled and the unrolled iterations and the
\* loops over the local ids show in no execution.
RunsAsSource == Source!Spec

\* WorkitemLoops keeps a value per work-item only if FixMultiRegionVariables
\* finds a use of it in another region.  All other values are in registers, one
\* for the group: an operation of a work-item never finds in one of them what
\* another work-item has left there.
OwnValue ==
  Running /\ handler = "loops" /\ pc.b # Unreachable /\ pc.i \in DOMAIN here.body
  /\ here.body[pc.i] \notin Barriers =>
    LET u == IF here.of = 0 THEN pc.b ELSE here.of
    IN  \A d \in DOMAIN base \ ContextSaved(base, regions) :
          Dominates(base, d, u) /\ d # u => \A o \in ToSet(base[d].body) \ Barriers : reg[o] = lid

\* The compiler gets through without a failing assertion, the work-group
\* function never runs into the unreachable blocks of purge or round in its own
\* loops, and when it returns every work-item has been through the kernel.
Returns == pass \in {"run", "abort"} ~> (pass = "done" /\ \A w \in DOMAIN at : at[w] = Source!End)
=============================================================================
