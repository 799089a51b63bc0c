--------------------------- MODULE BarrierPasses ---------------------------
(***************************************************************************)
(* The passes of the kernel compiler that prepare the barriers of a kernel *)
(* for the work-item handlers, in the order scripts/pocl-workgroup runs    *)
(* them: isolate-regions, uniformity with implicit-loop-barriers,          *)
(* loop-barriers, barriertails, barriers and isolate-regions again.  Each  *)
(* is an operator from graphs to graphs.                                   *)
(*                                                                         *)
(* Kernels come out of LLVM's simplifycfg and loop-simplify (every loop    *)
(* has a preheader, one latch and exits of its own) and of phistoallocas:  *)
(* there are no PHI nodes.                                                 *)
(***************************************************************************)
EXTENDS ControlFlow

HasBarrier(g, b) == ToSet(g[b].body) \cap Barriers # {}

EndsWithBarrier(g, b) == g[b].body # <<>> /\ Last(g[b].body) \in Barriers

\* A BarrierBlock: nothing but the barrier and the terminator.
HasOnlyBarrier(g, b) == Len(g[b].body) = 1 /\ HasBarrier(g, b)

\* Barrier::Create in front of the terminator, unless there is one already.
CreateBarrier(g, b) ==
  IF EndsWithBarrier(g, b) THEN g ELSE [g EXCEPT ![b].body = Append(@, "imp")]

\* The elements of S in the order of the size of blocksOf: a pass over loops or
\* regions takes the inner ones first.
InnerFirst(S, blocksOf(_)) ==
  LET size == [p \in S |-> Cardinality(blocksOf(p))]
      smallest(T) == CHOOSE p \in T : \A q \in T : size[p] <= size[q]
      step(acc, i) == Append(acc, smallest(S \ ToSet(acc)))
  IN  FoldLeft(step, <<>>, [i \in 1..Cardinality(S) |-> i])
-----------------------------------------------------------------------------
\* IsolateRegions::addDummyBefore and addDummyAfter.  Regions that share
\* their exit or entry would each add one: a second empty block next to a
\* first changes no path and is left out.
IsEmpty(g, b) == g[b].body = <<>> /\ Cardinality(Succs(g, b)) = 1

addDummyBefore(g, e, x) ==
  LET inside == Preds(g, x) \cap RegionBlocks(g, e, x)
      n == FreshBlock(g)
      h == [b \in DOMAIN g \cup {n} |-> IF b = n THEN Block(<<>>, "none", <<x>>) ELSE g[b]]
  IN  IF inside = {} \/ \E p \in inside : inside = {p} /\ IsEmpty(g, p) THEN g
      ELSE RedirectAll(h, inside, x, n)

addDummyAfter(g, e) ==
  IF \E s \in Succs(g, e) : Succs(g, e) = {s} /\ IsEmpty(g, s) THEN g
  ELSE SplitBlock(g, e, Len(g[e].body) + 1)

runOnRegion(g, e, x) ==
  LET h == IF HasBarrier(g, x) \/ Succs(g, x) = {} THEN addDummyBefore(g, e, x) ELSE g
  IN  IF HasBarrier(h, e) \/ e = Entry THEN addDummyAfter(h, e) ELSE h

IsolateRegions(g) ==
  FoldLeft(LAMBDA h, p : runOnRegion(h, p[1], p[2]), g,
           InnerFirst(Regions(g), LAMBDA p : RegionBlocks(g, p[1], p[2])))
-----------------------------------------------------------------------------
\* VariableUniformityAnalysis::analyzeBBDivergence from block b, with the
\* uniform block seen last and the blocks analysed so far as a function to
\* BOOLEAN.  known are the conditions isUniform finds the same for all
\* work-items.
RECURSIVE AnalyzeEach(_, _, _, _, _)
RECURSIVE analyzeBBDivergence(_, _, _, _, _)
analyzeBBDivergence(g, known, b, prev, cache) ==
  LET branched == g[prev].cond \in known \cup {"none"} /\ b \in Succs(g, prev)
      uniform == branched \/ PostDominates(g, b, prev)
      found == [c \in DOMAIN cache \cup {b} |->
                  IF c # b THEN cache[c]
                  ELSE uniform \/ (b \in DOMAIN cache /\ cache[b])]
  IN  IF Succs(g, prev) = {} THEN cache
      ELSE AnalyzeEach(g, known, g[b].succ, IF uniform THEN b ELSE prev, found)

AnalyzeEach(g, known, succ, prev, cache) ==
  IF succ = <<>> THEN cache
  ELSE AnalyzeEach(g, known, Tail(succ), prev,
         IF Head(succ) \in DOMAIN cache THEN cache
         ELSE analyzeBBDivergence(g, known, Head(succ), prev, cache))

Divergence(g, known) == analyzeBBDivergence(g, known, Entry, Entry, [b \in {Entry} |-> TRUE])

\* ImplicitLoopBarriers::ProcessLoop and AddInnerLoopBarrier.
ImplicitLoopBarrier(g, known, h) ==
  LET brexit == ExitingBlock(g, h)
      blocks == LoopBlocks(g, h)
  IN  IF /\ \A b \in blocks : ~HasBarrier(g, b)
         /\ Headers(g) \cap blocks = {h}
         /\ brexit # Unreachable
         /\ Divergence(g, known)[h]
         /\ g[brexit].cond \in known
      THEN CreateBarrier(g, brexit) ELSE g

LoopsInnerFirst(g) == InnerFirst(Headers(g), LAMBDA h : LoopBlocks(g, h))

ImplicitLoopBarriers(g, known) ==
  FoldLeft(LAMBDA f, h : ImplicitLoopBarrier(f, known, h), g, LoopsInnerFirst(g))
-----------------------------------------------------------------------------
\* LoopBarriers::ProcessLoop.  Once a loop has a barrier, its preheader, the
\* block it is left from and its latches get one too; the preheader of any
\* other loop must not end with one.
LoopBarrier(g, h) ==
  LET pre == Preheader(g, h)
      brexit == ExitingBlock(g, h)
      first == CHOOSE b \in LoopBlocks(g, h) : HasBarrier(g, b)
      atEntry == CreateBarrier(g, pre)
      atExit == IF brexit = Unreachable THEN atEntry ELSE CreateBarrier(atEntry, brexit)
      latches == {l \in Latches(g, h) : \/ Latches(g, h) = {l} /\ l # brexit
                                        \/ Dominates(g, first, l)}
  IN  IF \E b \in LoopBlocks(g, h) : HasBarrier(g, b)
      THEN [b \in DOMAIN g |-> IF b \in latches THEN CreateBarrier(atExit, b)[b] ELSE atExit[b]]
      ELSE IF EndsWithBarrier(g, pre) THEN SplitBlock(g, pre, Len(g[pre].body) + 1) ELSE g

LoopBarriers(g) == FoldLeft(LoopBarrier, g, LoopsInnerFirst(g))

\* The assertion of the pass.
LoopsCanonical(g) == \A h \in Headers(g) : Preheader(g, h) # Unreachable
-----------------------------------------------------------------------------
\* BarrierTailReplication::FindSubgraph: what follows b, without back edges.
RECURSIVE FindSubgraph(_, _, _)
FindSubgraph(g, todo, found) ==
  IF todo \subseteq found THEN found
  ELSE FindSubgraph(g,
         UNION {{s \in Succs(g, b) : ~Dominates(g, s, b)} : b \in todo \ found}, found \cup todo)

\* The numbers the copies of the blocks S get.
CopyOf(g, S) == [b \in S |-> Max(DOMAIN g) + Cardinality({c \in S : c <= b})]

\* ReplicateBasicBlocks and UpdateReferences: copies of the blocks S, with the
\* edges between them going to the copies.
ReplicateBlocks(g, S) ==
  LET m == CopyOf(g, S)
      orig(c) == CHOOSE b \in S : m[b] = c
      target(t) == IF t \in S THEN m[t] ELSE t
  IN  [c \in DOMAIN g \cup {m[b] : b \in S} |->
         IF c \in DOMAIN g THEN g[c]
         ELSE [g[orig(c)] EXCEPT !.succ = [i \in DOMAIN @ |-> target(@[i])]]]

\* ReplicateSubgraph for the i-th successor of block e.
ReplicateSubgraph(g, e, i) ==
  LET S == FindSubgraph(g, {g[e].succ[i]}, {})
  IN  [ReplicateBlocks(g, S) EXCEPT ![e].succ[i] = CopyOf(g, S)[@]]

\* ReplicateJoinedSubgraphs: where a path from the barrier dom joins one that
\* does not pass it, the rest of the kernel is replicated.  The result is the
\* graph and the blocks that are done.
RECURSIVE ReplicateJoinedSubgraphs(_, _, _, _)
ReplicateJoinedSubgraphs(g, dom, e, done) ==
  LET step(acc, i) ==
        LET h == acc[1]
            s == h[e].succ[i]
        IN  CASE s \in acc[2] \/ Dominates(h, s, e) -> acc
              [] Dominates(h, dom, s) -> ReplicateJoinedSubgraphs(h, dom, s, acc[2])
              [] OTHER -> <<ReplicateSubgraph(h, e, i), acc[2]>>
      all == FoldLeft(step, <<g, done>>, [i \in DOMAIN g[e].succ |-> i])
  IN  <<all[1], all[2] \cup {e}>>

RECURSIVE FindBarriersDFS(_, _, _)
FindBarriersDFS(g, b, processed) ==
  LET h == IF HasBarrier(g, b) THEN ReplicateJoinedSubgraphs(g, b, b, {})[1] ELSE g
      step(acc, i) == FindBarriersDFS(acc[1], acc[1][b].succ[i], acc[2])
  IN  IF b \in processed THEN <<g, processed>>
      ELSE FoldLeft(step, <<h, processed \cup {b}>>, [i \in DOMAIN h[b].succ |-> i])

\* Mistaken form: the kernel is left as it is.
NoTailReplication(g) == g

BarrierTailReplication(g) == FindBarriersDFS(g, Entry, {})[1]
-----------------------------------------------------------------------------
\* CanonicalizeBarriers::runOnFunction: the entry and every exit of the kernel
\* become barriers.
EntryBarrier(g) ==
  IF HasOnlyBarrier(g, Entry) THEN g ELSE CreateBarrier(SplitBlock(g, Entry, 1), Entry)

ExitBarrier(g, b) ==
  IF HasOnlyBarrier(g, b) THEN g
  ELSE IF EndsWithBarrier(g, b) THEN SplitBlock(g, b, Len(g[b].body))
  ELSE CreateBarrier(SplitBlock(g, b, Len(g[b].body) + 1), FreshBlock(g))

\* CanonicalizeBarriers::ProcessFunction puts every barrier in a block of its
\* own: behind the barrier first, then in front of it.  alone are the blocks
\* that are finished; the barriers of a block are taken from the last.
RECURSIVE SplitBarriers(_, _)
SplitBarriers(g, alone) ==
  LET todo == {b \in (DOMAIN g) \ alone : HasBarrier(g, b)}
      b == Min(todo)
      p == Max({i \in DOMAIN g[b].body : g[b].body[i] \in Barriers})
      h == IF p < Len(g[b].body) THEN SplitBlock(g, b, p + 1) ELSE g
      pred == SinglePredecessor(h, b)
      inPlace == p = 1 /\ (b = Entry \/ (pred # Unreachable /\ Len(h[pred].succ) = 1))
  IN  IF todo = {} THEN g
      ELSE IF inPlace THEN SplitBarriers(h, alone \cup {b})
      ELSE SplitBarriers(SplitBlock(h, b, p), alone \cup {FreshBlock(h)})

\* Of two barriers in a row the second is removed; the one that stays stands
\* for both.
EmptyRegionBehind(g, b) ==
  /\ EndsWithBarrier(g, b) /\ Len(g[b].succ) = 1
  /\ LET s == g[b].succ[1]
     IN  HasOnlyBarrier(g, s) /\ SinglePredecessor(g, s) = b /\ Len(g[s].succ) = 1

RECURSIVE PruneEmptyRegions(_)
PruneEmptyRegions(g) ==
  LET before == {b \in DOMAIN g : EmptyRegionBehind(g, b)}
      b == Min(before)
      s == g[b].succ[1]
  IN  IF before = {} THEN g
      ELSE PruneEmptyRegions([c \in (DOMAIN g) \ {s} |->
        IF c # b THEN g[c]
        ELSE [g[b] EXCEPT !.succ = g[s].succ,
                          !.body[Len(g[b].body)] = IF @ = "bar" THEN @ ELSE g[s].body[1]]])

CanonicalizeBarriers(g) ==
  LET h == EntryBarrier(g)
      ended == FoldLeft(ExitBarrier, h, InnerFirst(Exits(h), LAMBDA b : 1..b))
  IN  PruneEmptyRegions(SplitBarriers(ended, {}))
=============================================================================
