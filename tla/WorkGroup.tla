------------------------------ MODULE WorkGroup ------------------------------
(***************************************************************************)
(* What a kernel means: the work-items of a group each walk through the    *)
(* kernel on their own, in any order, and meet at every barrier of it: no  *)
(* one passes a barrier before all of them have arrived at this barrier.   *)
(***************************************************************************)
EXTENDS ControlFlow

VARIABLES kernel,  \* the kernel as it was written: a control-flow graph
          at       \* where each work-item is in it

\* A position is in front of an instruction of a block, or behind the last in
\* front of a conditional branch.
End   == [b |-> 0, i |-> 0]
Wrong == [b |-> 0, i |-> 1]

RECURSIVE Settle(_, _)
Settle(g, p) ==
  IF p.i <= Len(g[p.b].body) \/ g[p.b].cond # "none" THEN p
  ELSE IF g[p.b].succ = <<>> THEN End
  ELSE Settle(g, [b |-> g[p.b].succ[1], i |-> 1])

Start(g) == Settle(g, [b |-> Entry, i |-> 1])

AtInstruction(g, p) == p.b # 0 /\ p.i <= Len(g[p.b].body)
AtBarrier(g, p) == AtInstruction(g, p) /\ g[p.b].body[p.i] = "bar"

AfterOperation(g, p, op) ==
  IF AtInstruction(g, p) /\ g[p.b].body[p.i] = op
  THEN Settle(g, [p EXCEPT !.i = @ + 1]) ELSE Wrong

AfterBranch(g, p, c, n) ==
  IF p.b # 0 /\ ~AtInstruction(g, p) /\ g[p.b].cond = c
  THEN Settle(g, [b |-> g[p.b].succ[n], i |-> 1]) ELSE Wrong

\* Barriers in a row are one.
RECURSIVE AfterBarrier(_, _)
AfterBarrier(g, p) ==
  LET next == AfterOperation(g, p, "bar")
  IN  IF AtBarrier(g, next) THEN AfterBarrier(g, next) ELSE next

\* Where a work-item can be after one more operation or branch.
OneStep(g, p) ==
  IF p.b = 0 \/ AtBarrier(g, p) THEN {}
  ELSE IF AtInstruction(g, p) THEN {AfterOperation(g, p, g[p.b].body[p.i])}
  ELSE {AfterBranch(g, p, g[p.b].cond, n) : n \in DOMAIN g[p.b].succ}
-----------------------------------------------------------------------------
Init == at = [w \in DOMAIN at |-> Start(kernel)]

\* Some work-items go on, each on its own.
Advance ==
  /\ \A w \in DOMAIN at : at'[w] \in OneStep(kernel, at[w]) \cup {at[w]}
  /\ at' # at
  /\ UNCHANGED kernel

\* All of them are at one barrier and pass it.
Barrier ==
  /\ \A w, v \in DOMAIN at : AtBarrier(kernel, at[w]) /\ at[w] = at[v]
  /\ at' = [w \in DOMAIN at |-> AfterBarrier(kernel, at[w])]
  /\ UNCHANGED kernel

Next == Advance \/ Barrier

Spec == Init /\ [][Next]_<<kernel, at>>
=============================================================================
