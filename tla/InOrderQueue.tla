---------------------------- MODULE InOrderQueue ----------------------------
(***************************************************************************)
(* What a command queue of pocl promises its client.  All queues are       *)
(* in-order (clCreateCommandQueue refuses                                  *)
(* CL_QUEUE_OUT_OF_ORDER_EXEC_MODE_ENABLE): whoever executes a command,    *)
(* and whenever, the commands of one queue take effect one at a time and   *)
(* in the order of the calls that enqueued them.  Queues are independent.  *)
(***************************************************************************)
EXTENDS Sequences

CONSTANTS Queues, Numbers   \* the queues, and the numbers commands are given

VARIABLES
  todo,   \* the numbers of the commands a queue has accepted, in order
  done    \* the commands that have completed

\* A call hands the queue a command with a new number.
Submit(q, n) ==
  /\ n \notin done
  /\ \A p \in Queues : \A i \in DOMAIN todo[p] : todo[p][i] # n
  /\ todo' = [todo EXCEPT ![q] = Append(@, n)]
  /\ done' = done

\* The oldest command of a queue completes.
Complete(q) ==
  /\ todo[q] # <<>>
  /\ todo' = [todo EXCEPT ![q] = Tail(@)]
  /\ done' = done \cup {Head(todo[q])}

Init == todo = [q \in Queues |-> <<>>] /\ done = {}

Next == \E q \in Queues : Complete(q) \/ \E n \in Numbers : Submit(q, n)

Spec == Init /\ [][Next]_<<todo, done>>
=============================================================================
