------------------------- MODULE MCWorkitemHandlers -------------------------
(***************************************************************************)
(* Model checking of WorkitemHandlers on the control flow of the kernels   *)
(* in tests/workgroup and examples, as simplifycfg and loop-simplify leave *)
(* it.  A condition u or v is the same for all work-items, i is not.       *)
(***************************************************************************)
EXTENDS WorkitemHandlers

Kernel(graph, uniform) == [graph |-> graph, uniform |-> uniform, known |-> uniform]

\* a; barrier; barrier; b
Straight == Kernel(<<Block(<<"a", "bar", "bar", "b">>, "none", <<>>)>>, {})

\* conditional_barriers.cl: a; if (u) { b; barrier; } c
Conditional == Kernel(<<Block(<<"a">>, "u", <<2, 3>>), Block(<<"b", "bar">>, "none", <<3>>),
                        Block(<<"c">>, "none", <<>>)>>, {"u"})

\* a; if (u) { b; barrier; c; } else { d; barrier; e; } f
Both == Kernel(<<Block(<<"a">>, "u", <<2, 3>>), Block(<<"b", "bar", "c">>, "none", <<4>>),
                 Block(<<"d", "bar", "e">>, "none", <<4>>), Block(<<"f">>, "none", <<>>)>>, {"u"})

\* a; if (i) b; barrier; c
Divergent == Kernel(<<Block(<<"a">>, "i", <<2, 3>>), Block(<<"b">>, "none", <<3>>),
                      Block(<<"bar", "c">>, "none", <<>>)>>, {})

\* a; if (u) return; b; barrier; c
EarlyReturn == Kernel(<<Block(<<"a">>, "u", <<2, 3>>), Block(<<"b", "bar", "c">>, "none", <<3>>),
                        Block(<<>>, "none", <<>>)>>, {"u"})

\* loopbarriers.cl: a; for (u) { b; barrier; c; } d
BLoop == Kernel(<<Block(<<"a">>, "none", <<2>>), Block(<<>>, "u", <<3, 4>>),
                  Block(<<"b", "bar", "c">>, "none", <<2>>), Block(<<"d">>, "none", <<>>)>>, {"u"})

\* do { a; barrier; b; } while (u); c
DoWhile == Kernel(<<Block(<<>>, "none", <<2>>), Block(<<"a", "bar", "b">>, "u", <<2, 3>>),
                    Block(<<"c">>, "none", <<>>)>>, {"u"})

\* for_bug.cl: a; for (u) { barrier; b; if (i) c; } d
ForBug == Kernel(<<Block(<<"a">>, "none", <<2>>), Block(<<>>, "u", <<3, 6>>),
                   Block(<<"bar", "b">>, "i", <<4, 5>>), Block(<<"c">>, "none", <<5>>),
                   Block(<<>>, "none", <<2>>), Block(<<"d">>, "none", <<>>)>>, {"u"})

\* tricky_for.cl: for (;;) { if (u) break; b; if (v) { e; break; } barrier; c; } d
Tricky == Kernel(<<Block(<<>>, "none", <<2>>), Block(<<>>, "u", <<3, 7>>),
                   Block(<<"b">>, "v", <<4, 6>>), Block(<<"bar", "c">>, "none", <<2>>),
                   Block(<<"d">>, "none", <<>>), Block(<<"e">>, "none", <<5>>),
                   Block(<<>>, "none", <<5>>)>>, {"u", "v"})

\* multilatch_bloop.cl: for (u) { a; barrier; b; if (i) continue; c; } d
MultiLatch == Kernel(<<Block(<<>>, "none", <<2>>), Block(<<>>, "u", <<3, 6>>),
                       Block(<<"a", "bar", "b">>, "i", <<5, 4>>), Block(<<"c">>, "none", <<5>>),
                       Block(<<>>, "none", <<2>>), Block(<<"d">>, "none", <<>>)>>, {"u"})

\* a; for (u) { b; for (v) { c; barrier; } d; } e
Nested == Kernel(<<Block(<<"a">>, "none", <<2>>), Block(<<>>, "u", <<3, 7>>),
                   Block(<<"b">>, "none", <<4>>), Block(<<>>, "v", <<5, 6>>),
                   Block(<<"c", "bar">>, "none", <<4>>), Block(<<"d">>, "none", <<2>>),
                   Block(<<"e">>, "none", <<>>)>>, {"u", "v"})

\* a; for (u) { b; if (v) { c; barrier; } d; } e
CondInLoop == Kernel(<<Block(<<"a">>, "none", <<2>>), Block(<<>>, "u", <<3, 6>>),
                       Block(<<"b">>, "v", <<4, 5>>), Block(<<"c", "bar">>, "none", <<5>>),
                       Block(<<"d">>, "none", <<2>>), Block(<<"e">>, "none", <<>>)>>, {"u", "v"})

\* outerlooppar.cl, its three loops: a; for (i) b; c; barrier; d
Vertical == Kernel(<<Block(<<"a">>, "none", <<2>>), Block(<<>>, "i", <<3, 4>>),
                     Block(<<"b">>, "none", <<2>>), Block(<<"c", "bar", "d">>, "none", <<>>)>>, {})

\* a; for (u) b; c
Horizontal == Kernel(<<Block(<<"a">>, "none", <<2>>), Block(<<>>, "u", <<3, 4>>),
                       Block(<<"b">>, "none", <<2>>), Block(<<"c">>, "none", <<>>)>>, {"u"})

\* a; if (i) for (u) b; c; barrier; d
Subset == Kernel(<<Block(<<"a">>, "i", <<2, 5>>), Block(<<>>, "none", <<3>>),
                   Block(<<>>, "u", <<4, 6>>), Block(<<"b">>, "none", <<3>>),
                   Block(<<"c", "bar", "d">>, "none", <<>>), Block(<<>>, "none", <<5>>)>>, {"u"})

\* a; do { for (u) b; c; } while (i); d
DivergentOuter == Kernel(<<Block(<<"a">>, "none", <<2>>), Block(<<>>, "none", <<3>>),
                           Block(<<>>, "u", <<4, 5>>), Block(<<"b">>, "none", <<3>>),
                           Block(<<"c">>, "i", <<2, 6>>), Block(<<"d">>, "none", <<>>)>>, {"u"})

AllKernels == {Straight, Conditional, Both, Divergent, EarlyReturn, BLoop, DoWhile, ForBug,
               Tricky, MultiLatch, Nested, CondInLoop, Vertical, Horizontal, Subset}

OuterKernels == {DivergentOuter}

SomeSizes == {<<1, 1, 1>>, <<2, 1, 1>>, <<3, 1, 1>>, <<2, 2, 1>>, <<2, 1, 2>>}

TwoItems == {<<2, 1, 1>>}
=============================================================================
