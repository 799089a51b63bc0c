---------------------------- MODULE MCPthreadRun ----------------------------
(***************************************************************************)
(* Model checking of PthreadRun and HsaRun: launches of up to seven groups *)
(* in x and two in y or z, on one to five threads, by the basic driver and *)
(* by a GPU.                                                               *)
(***************************************************************************)
EXTENDS HsaRun

OneDim(global, local) == [work_dim |-> 1, global |-> <<global>>, local |-> local]

\* One to seven groups of four; the same, and sizes that are odd or too large,
\* without a local size; a remainder, too large a group, no work-item; two and
\* three dimensions.
SomeLaunches ==
  {OneDim(4 * n, <<4>>) : n \in 1..7} \cup {OneDim(n, <<>>) : n \in {3, 4, 6, 12, 16}}
  \cup {OneDim(6, <<4>>), OneDim(16, <<16>>), OneDim(0, <<>>)}
  \cup {[work_dim |-> 2, global |-> <<x, y>>, local |-> <<2, 1>>] : x \in {2, 4, 6}, y \in {1, 2}}
  \cup {[work_dim |-> 3, global |-> <<4, 2, z>>, local |-> <<2, 2, 1>>] : z \in {1, 2}}
  \cup {[work_dim |-> 3, global |-> <<4, 2, 2>>, local |-> <<2, 1, 1>>]}

Limits == <<8, 8, 2>>

\* The last one is an automatic local.
SomeArgs == <<"buffer", "value", "null", "value", "local", "struct", "local", "local">>

SomeSizes == <<8, 4, 8, 2, 16, 24, 12, 32>>

BothDevices == <<0, 1>>

\* A context for the second device of the system alone.
SecondDevice == <<1>>
=============================================================================
