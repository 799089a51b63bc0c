---------------------------- MODULE ControlFlow ----------------------------
(***************************************************************************)
(* The control-flow graph of a kernel and what the passes of the kernel    *)
(* compiler ask LLVM about it: dominators, loops, single-entry single-exit *)
(* regions, and the splitting of blocks.                                   *)
(*                                                                         *)
(* A graph is a function from block numbers to blocks; block 1 is the      *)
(* entry of the function and the order of the numbers that of its blocks.  *)
(* body   the instructions in front of the terminator: operations, by      *)
(*        name, and calls of pocl.barrier ("bar", "imp" when a pass of     *)
(*        pocl has added it),                                              *)
(* cond   the condition the terminator branches on, or "none",             *)
(* succ   the successors; two when there is a condition, none at a return, *)
(* wi     what the work-item handler added in front of the body,           *)
(* of     the block a block of a replicated region is a copy of.           *)
(***************************************************************************)
EXTENDS Integers, Sequences, FiniteSets, SequencesExt

Entry == 1
Unreachable == 0

Barriers == {"bar", "imp"}

Block(body, cond, succ) == [body |-> body, cond |-> cond, succ |-> succ, wi |-> <<>>, of |-> 0]

Succs(g, b) == ToSet(g[b].succ) \ {Unreachable}

Preds(g, b) == {p \in DOMAIN g : b \in Succs(g, p)}

FreshBlock(g) == 1 + Max(DOMAIN g)

Exits(g) == {b \in DOMAIN g : Succs(g, b) = {}}

\* getSinglePredecessor: Unreachable stands for NULL.
SinglePredecessor(g, b) == IF Cardinality(Preds(g, b)) = 1
                           THEN CHOOSE p \in Preds(g, b) : TRUE ELSE Unreachable

\* The terminator of block b jumps to new where it jumped to old.
Redirect(g, b, old, new) ==
  [g EXCEPT ![b].succ = [i \in DOMAIN @ |-> IF @[i] = old THEN new ELSE @[i]]]

RECURSIVE RedirectAll(_, _, _, _)
RedirectAll(g, B, old, new) ==
  IF B = {} THEN g
  ELSE LET b == Min(B) IN RedirectAll(Redirect(g, b, old, new), B \ {b}, old, new)

\* SplitBlock: the instructions from the i-th on, and the terminator, move to
\* a new block behind b.
SplitBlock(g, b, i) ==
  LET n == FreshBlock(g)
      rest == SubSeq(g[b].body, i, Len(g[b].body))
  IN  [c \in DOMAIN g \cup {n} |->
         CASE c = b -> [g[b] EXCEPT !.body = SubSeq(@, 1, i - 1), !.cond = "none", !.succ = <<n>>]
           [] c = n -> Block(rest, g[b].cond, g[b].succ)
           [] OTHER -> g[c]]
-----------------------------------------------------------------------------
RECURSIVE ReachableFrom(_, _, _)
ReachableFrom(g, todo, seen) ==
  IF todo \subseteq seen THEN seen
  ELSE ReachableFrom(g, UNION {Succs(g, b) : b \in todo \ seen}, seen \cup todo)

\* The blocks on the paths from b that do not pass a.
Avoiding(g, b, a) == ReachableFrom(g, {b} \ {a}, {a}) \ {a}

Dominates(g, a, b) == a = b \/ b \notin Avoiding(g, Entry, a)

PostDominates(g, a, b) == a = b \/ Avoiding(g, b, a) \cap Exits(g) = {}

\* The headers of the natural loops, and the blocks of the loop of a header.
Headers(g) == {h \in DOMAIN g : \E l \in Preds(g, h) : Dominates(g, h, l)}

Latches(g, h) == {l \in Preds(g, h) : Dominates(g, h, l)}

LoopBlocks(g, h) == {b \in DOMAIN g : /\ Dominates(g, h, b)
                                      /\ b = h \/ Avoiding(g, b, h) \cap Latches(g, h) # {}}

\* getLoopFor: the header of the innermost loop around b.
LoopFor(g, b) ==
  LET around == {h \in Headers(g) : b \in LoopBlocks(g, h)}
  IN  IF around = {} THEN Unreachable
      ELSE CHOOSE h \in around : \A k \in around : h \in LoopBlocks(g, k)

ExitingBlocks(g, h) == {b \in LoopBlocks(g, h) : Succs(g, b) \ LoopBlocks(g, h) # {}}

\* getExitingBlock and getLoopPreheader: NULL when there is not exactly one.
ExitingBlock(g, h) == IF Cardinality(ExitingBlocks(g, h)) = 1
                      THEN CHOOSE b \in ExitingBlocks(g, h) : TRUE ELSE Unreachable

Preheader(g, h) ==
  LET outside == Preds(g, h) \ LoopBlocks(g, h)
  IN  IF \E p \in outside : outside = {p} /\ Succs(g, p) = {h}
      THEN CHOOSE p \in outside : TRUE ELSE Unreachable

\* The blocks of the region from e up to x, and whether it is one: nothing
\* enters it but at e and nothing leaves it but to x.
RegionBlocks(g, e, x) ==
  {b \in DOMAIN g : Dominates(g, e, b) /\ ~(Dominates(g, e, x) /\ Dominates(g, x, b))}

IsRegion(g, e, x) ==
  LET B == RegionBlocks(g, e, x)
  IN  /\ \A b \in B \ {e} : Preds(g, b) \subseteq B
      /\ \A b \in B : Succs(g, b) \subseteq B \cup {x}

\* The immediate post-dominator.
IPostDom(g, b) ==
  LET above == {a \in (DOMAIN g) \ {b} : PostDominates(g, a, b)}
  IN  IF above = {} THEN Unreachable
      ELSE CHOOSE a \in above : \A c \in above : PostDominates(g, c, a)

\* RegionInfo::findRegionsWithEntry: up the post-dominators of e, from n, over
\* the shortcuts that skip what earlier regions cover.  A region of one edge is
\* not made.
ShortCut(e, last, acc) ==
  LET target == IF last \in DOMAIN acc.short THEN acc.short[last] ELSE last
  IN  IF last = e THEN acc
      ELSE [acc EXCEPT !.short = [b \in DOMAIN @ \cup {e} |-> IF b = e THEN target ELSE @[b]]]

RECURSIVE RegionsWithEntry(_, _, _, _, _)
RegionsWithEntry(g, e, n, last, acc) ==
  LET x == IPostDom(g, IF n \in DOMAIN acc.short THEN acc.short[n] ELSE n)
      made == IF Succs(g, e) = {x} THEN acc ELSE [acc EXCEPT !.regions = @ \cup {<<e, x>>}]
      found == IsRegion(g, e, x)
      upTo == IF found THEN x ELSE last
      after == IF found THEN made ELSE acc
  IN  IF x = Unreachable THEN ShortCut(e, last, acc)
      ELSE IF Dominates(g, e, x) THEN RegionsWithEntry(g, e, x, upTo, after)
      ELSE ShortCut(e, upTo, after)

\* RegionInfo::scanForRegions: dominated blocks before their dominators.
RECURSIVE ScanForRegions(_, _, _)
ScanForRegions(g, todo, acc) ==
  IF todo = {} THEN acc.regions
  ELSE LET e == CHOOSE b \in todo : \A c \in todo \ {b} : ~Dominates(g, b, c)
       IN  ScanForRegions(g, todo \ {e}, RegionsWithEntry(g, e, e, e, acc))

Regions(g) == ScanForRegions(g, DOMAIN g, [short |-> <<>>, regions |-> {}])
=============================================================================
