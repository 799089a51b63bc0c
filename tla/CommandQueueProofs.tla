------------------------- MODULE CommandQueueProofs -------------------------
(***************************************************************************)
(* The order of events in CommandQueue, and that the queues implement      *)
(* InOrderQueue, for every number of threads, queues, buffers, kernels and *)
(* events, every assignment of devices to queues and any number of         *)
(* commands.                                                               *)
(*                                                                         *)
(* The invariant, Control, says what the calls in progress and the nodes   *)
(* of the queues look like: one thread at a time is at work on a queue, no *)
(* two commands have the same number or event, and the status of an event  *)
(* tells where its command is.  CommandQueueReferences builds on it.       *)
(***************************************************************************)
EXTENDS CommandQueue, ArithmeticTheorems

Stats == {"none", "queued", "running", "complete"}

\* Every variable has its type.
TypeOK ==
  /\ st \in [Objects -> {"none", "live", "freed"}]
  /\ rc \in [Objects -> Int]
  /\ held \in [Objects -> Nat]
  /\ parent \in [Bufs -> Bufs \cup {None}]
  /\ maps \in [Bufs -> Nat]
  /\ mapped \in [Bufs -> Nat]
  /\ lost \in [Bufs -> Nat]
  /\ karg \in [Kernels -> Bufs \cup {None}]
  /\ queue \in [Events -> Queues \cup {None}]
  /\ status \in [Events -> Stats]
  /\ root \in [Queues -> Seq(Node)]
  /\ pc \in [Threads -> Call]
  /\ count \in Nat
-----------------------------------------------------------------------------
(* Control.                                                                *)

\* What a call looks like, when its queue has the nodes r[c.q].
CallOK(c, r) ==
  /\ c.op = "idle" => c = NoCall
  /\ c.op # "idle" => /\ c.q \in Queues /\ c.at # "none"
                      /\ c.i <= Len(r[c.q]) + 1
                      /\ c.at # "node" => c.i <= Len(r[c.q])
                      /\ c.i = 0 => c.op = "exec" /\ r[c.q] = <<>>
  /\ c.at # "release" => c.rel = <<>>
  /\ Len(c.rel) <= 2
  /\ c.op # "exec" => c.cmd = NoCmd
  /\ c.op \notin {"release_event", "wait"} => c.events = <<>>

CallsOK == \A t \in Threads : CallOK(pc[t], root)

\* The queues a thread is at work on, or will be before its call returns.
Uses(t, q) == pc[t].q = q \/ \E e \in Range(pc[t].events) : queue[e] = q

\* No two threads are at work on one queue.
Exclusive == \A t, u \in Threads : \A q \in Queues : Uses(t, q) /\ Uses(u, q) => t = u

\* What is known of an event in its life.
EventsOK ==
  \A e \in Events :
    /\ st[e] = "none" => status[e] = "none" /\ held[e] = 0 /\ rc[e] = 0
    /\ st[e] # "none" => queue[e] \in Queues
    /\ held[e] > 0 => st[e] = "live" /\ rc[e] = held[e]

\* The events of a call: the client owns those it waits for, and nobody the one
\* that is being released.
WaitOK(c) ==
  /\ c.op = "wait" => /\ c.events # <<>> /\ queue[c.events[1]] = c.q
                      /\ \A j \in DOMAIN c.events : held[c.events[j]] > 0
                      /\ \A j, k \in DOMAIN c.events : c.events[j] = c.events[k] => j = k
  /\ c.op = "release_event" => \E e \in Events : /\ c.events = <<e>> /\ queue[e] = c.q
                                                 /\ st[e] = "live" /\ held[e] = 0

WaitsOK == \A t \in Threads : WaitOK(pc[t])

\* A command of queue q.
CommandOK(c, q) ==
  /\ c.n \in 1..count
  /\ Len(c.bufs) <= 2
  /\ c.type = "map" => Len(c.bufs) = 1
  /\ c.event # None => st[c.event] # "none" /\ queue[c.event] = q

NodesOK == \A q \in Queues : \A i \in DOMAIN root[q] : CommandOK(root[q][i], q)

OwnOK == \A t \in Threads : pc[t].op = "exec" => /\ CommandOK(pc[t].cmd, pc[t].q)
                                                 /\ pc[t].cmd.kernel = None

\* Two commands with one number, or one event.
Same(c, d) == c.n = d.n \/ (c.event # None /\ c.event = d.event)

\* No two commands have the same number or the same event.
Unique ==
  /\ \A q, p \in Queues : \A i \in DOMAIN root[q], j \in DOMAIN root[p] :
       Same(root[q][i], root[p][j]) => q = p /\ i = j
  /\ \A t \in Threads : pc[t].op = "exec" =>
       /\ \A q \in Queues : \A i \in DOMAIN root[q] : ~Same(pc[t].cmd, root[q][i])
       /\ \A u \in Threads : pc[u].op = "exec" /\ Same(pc[t].cmd, pc[u].cmd) => t = u

\* The status of the event of a command that is being executed at a place.
StatusAt(at, s, dev) ==
  /\ at = "node" => s = "queued"
  /\ at = "assert" /\ s = "complete" => dev = "pthread"
  /\ at \in {"device", "complete"} => s = "running"
  /\ at = "release" => s = "complete"

\* The status of a node's event: complete behind the loop, queued ahead of it.
NodeStatus ==
  \A q \in Queues : \A i \in DOMAIN root[q] :
    LET e == root[q][i].event IN
    e # None =>
      /\ (\A t \in Threads : pc[t].q = q => pc[t].i < i) => status[e] = "queued"
      /\ \A t \in Threads : pc[t].q = q =>
           /\ i < pc[t].i => status[e] = "complete"
           /\ i = pc[t].i => StatusAt(pc[t].at, status[e], Device[q])

\* The status of the event of a blocking call.
OwnStatus ==
  \A t \in Threads :
    LET e == pc[t].cmd.event IN
    pc[t].op = "exec" /\ e # None =>
      IF pc[t].i = 0 THEN StatusAt(pc[t].at, status[e], Device[pc[t].q])
                     ELSE status[e] = "queued"

\* The command of e is in a queue, or in a call.
InProgress(e) ==
  \/ \E q \in Queues : \E i \in DOMAIN root[q] : root[q][i].event = e
  \/ \E t \in Threads : pc[t].op = "exec" /\ pc[t].cmd.event = e

\* An event the client owns completes.
Tracked == \A e \in Events : held[e] > 0 => status[e] = "complete" \/ InProgress(e)

\* The queues do not grow beyond the commands there were.
Lengths == count <= MaxCommands /\ \A q \in Queues : Len(root[q]) <= count

Control ==
  /\ TypeOK /\ CallsOK /\ Exclusive /\ EventsOK /\ WaitsOK /\ NodesOK /\ OwnOK
  /\ Unique /\ NodeStatus /\ OwnStatus /\ Tracked /\ Lengths
-----------------------------------------------------------------------------
(* Records, nodes and calls.                                               *)

Places == {"none", "node", "device", "assert", "complete", "release"}

\* d is a later stage of the call c.
SameCall(c, d) == d.op = c.op /\ d.q = c.q /\ d.cmd = c.cmd /\ d.events = c.events

LEMMA AtUpdate ==
  ASSUME NEW c \in Call, NEW a \in Places, NEW d, d = [c EXCEPT !.at = a]
  PROVE  d \in Call /\ d.at = a /\ d.i = c.i /\ d.rel = c.rel /\ SameCall(c, d)
BY DEF Call, Places, SameCall

LEMMA RelUpdate ==
  ASSUME NEW c \in Call, NEW r \in Seq(Bufs), NEW d, d = [c EXCEPT !.rel = r]
  PROVE  d \in Call /\ d.at = c.at /\ d.i = c.i /\ d.rel = r /\ SameCall(c, d)
BY DEF Call, SameCall

LEMMA IndexUpdate ==
  ASSUME NEW c \in Call, NEW i \in Nat, NEW d, d = [c EXCEPT !.i = i]
  PROVE  d \in Call /\ d.at = c.at /\ d.i = i /\ d.rel = c.rel /\ SameCall(c, d)
BY DEF Call, SameCall

\* The updates of a thread's call, as updates of a record.
LEMMA NestedUpdate ==
  ASSUME pc \in [Threads -> Call], NEW t \in Threads, NEW a, NEW r, NEW i
  PROVE  /\ [pc EXCEPT ![t].at = a] = [pc EXCEPT ![t] = [pc[t] EXCEPT !.at = a]]
         /\ [pc EXCEPT ![t].rel = r] = [pc EXCEPT ![t] = [pc[t] EXCEPT !.rel = r]]
         /\ [pc EXCEPT ![t].i = i] = [pc EXCEPT ![t] = [pc[t] EXCEPT !.i = i]]
         /\ [pc EXCEPT ![t].at = a, ![t].rel = r]
              = [pc EXCEPT ![t] = [[pc[t] EXCEPT !.at = a] EXCEPT !.rel = r]]
         /\ [pc EXCEPT ![t].at = a, ![t].i = i]
              = [pc EXCEPT ![t] = [[pc[t] EXCEPT !.at = a] EXCEPT !.i = i]]
OBVIOUS

LEMMA NodeFields ==
  ASSUME NEW c \in Node
  PROVE  /\ c.n \in Nat /\ c.type \in Types /\ c.bufs \in Seq(Bufs)
         /\ c.kernel \in Kernels \cup {None} /\ c.event \in Events \cup {None}
BY DEF Node

LEMMA NoCallType ==
  /\ NoCmd \in Node /\ NoCmd.event = None /\ NoCmd.kernel = None
  /\ NoCall \in Call /\ NoCall.op = "idle" /\ NoCall.q = None /\ NoCall.i = 0
  /\ NoCall.at = "none" /\ NoCall.cmd = NoCmd /\ NoCall.rel = <<>> /\ NoCall.events = <<>>
<1>1. NoCmd \in Node /\ NoCmd.event = None /\ NoCmd.kernel = None
  BY DEF NoCmd, Node, Types, Queued
<1> HIDE DEF NoCmd
<1>2. QED
  BY <1>1 DEF NoCall, Call

LEMMA FinishingType ==
  ASSUME NEW q \in Queues \cup {None}, NEW op \in {"return", "exec", "release_queue", "release_event", "wait"},
         NEW cmd \in Node, NEW events \in Seq(Events), NEW d, d = Finishing(q, op, cmd, events)
  PROVE  /\ d \in Call /\ d.op = op /\ d.q = q /\ d.i = 1 /\ d.at = "node" /\ d.cmd = cmd
         /\ d.rel = <<>> /\ d.events = events
BY DEF Finishing, Call

LEMMA CallFields ==
  ASSUME NEW c \in Call
  PROVE  /\ c.op \in {"idle", "return", "exec", "release_queue", "release_event", "wait"}
         /\ c.q \in Queues \cup {None} /\ c.i \in Nat /\ c.at \in Places /\ c.cmd \in Node
         /\ c.rel \in Seq(Bufs) /\ c.events \in Seq(Events)
BY DEF Call, Places

LEMMA TimesNat ==
  ASSUME NEW S, NEW s \in Seq(S), NEW o
  PROVE  Times(s, o) \in Nat
<1>1. IsFiniteSet(1..Len(s))
  BY FS_Interval
<1>2. {i \in DOMAIN s : s[i] = o} \in SUBSET (1..Len(s))
  OBVIOUS
<1>3. IsFiniteSet({i \in DOMAIN s : s[i] = o})
  BY <1>1, <1>2, FS_Subset
<1>4. QED
  BY <1>3, FS_CardinalityType DEF Times

LEMMA RetainedType ==
  ASSUME rc \in [Objects -> Int], NEW q, NEW ev, NEW S, NEW refs \in Seq(S)
  PROVE  Retained(q, ev, refs) \in [Objects -> Int]
BY TimesNat DEF Retained
-----------------------------------------------------------------------------
(* Control: what a step does to the events.                                *)

EventSame(e) == /\ st'[e] = st[e] /\ held'[e] = held[e] /\ rc'[e] = rc[e]
                /\ queue'[e] = queue[e] /\ status'[e] = status[e]

\* A step that makes the event ev of queue q, if it is not None, of which the
\* client then has n references.
EventMade(q, ev, stat, n) ==
  /\ \A e \in Events : e # ev => EventSame(e)
  /\ ev # None => /\ st[ev] = "none" /\ st'[ev] = "live" /\ held'[ev] = n /\ rc'[ev] = 1
                  /\ queue'[ev] = q /\ status'[ev] = stat

\* The types of what such a step changes.
EventTypes ==
  /\ st' \in [Objects -> {"none", "live", "freed"}] /\ rc' \in [Objects -> Int]
  /\ held' \in [Objects -> Nat] /\ queue' \in [Events -> Queues \cup {None}]
  /\ status' \in [Events -> Stats]

Counted == Bufs \cup Kernels \cup Queues

LEMMA TimesNone ==
  ASSUME NEW refs \in Seq(Counted), NEW o, o \notin Counted
  PROVE  Times(refs, o) = 0
<1>1. {i \in DOMAIN refs : refs[i] = o} = {}
  OBVIOUS
<1>2. QED
  BY <1>1, FS_EmptySet DEF Times

LEMMA RetainedEvent ==
  ASSUME Control, NEW q \in Queues, NEW ev \in Events \cup {None}, NEW refs \in Seq(Counted)
  PROVE  /\ Retained(q, ev, refs) \in [Objects -> Int]
         /\ \A e \in Events : Retained(q, ev, refs)[e] = IF e = ev THEN rc[e] + 1 ELSE rc[e]
<1>1. Retained(q, ev, refs) \in [Objects -> Int]
  BY RetainedType DEF Control, TypeOK
<1>2. ASSUME NEW e \in Events
      PROVE  Retained(q, ev, refs)[e] = IF e = ev THEN rc[e] + 1 ELSE rc[e]
  <2>1. e \in Objects /\ e \notin Counted /\ e # None /\ e # q /\ rc[e] \in Int
    BY HandlesAssumption DEF Objects, Counted, Control, TypeOK
  <2>2. Times(refs, e) = 0
    BY <2>1, TimesNone
  <2>3. QED
    BY <2>1, <2>2 DEF Retained
<1>3. QED
  BY <1>1, <1>2

LEMMA MakeEventEffect ==
  ASSUME Control, NEW q \in Queues, NEW ev \in Events \cup {None},
         NEW stat \in Stats, ev # None => st[ev] = "none", MakeEvent(q, ev, stat),
         rc' \in [Objects -> Int],
         \A e \in Events : rc'[e] = IF e = ev THEN rc[e] + 1 ELSE rc[e]
  PROVE  EventMade(q, ev, stat, 1) /\ EventTypes
<1>1. /\ rc' \in [Objects -> Int]
      /\ \A e \in Events : rc'[e] = IF e = ev THEN rc[e] + 1 ELSE rc[e]
  OBVIOUS
<1>2. Events \subseteq Objects /\ None \notin Events /\ None \notin Objects
  BY HandlesAssumption DEF Objects
<1>3. ev # None => rc[ev] = 0
  BY DEF Control, EventsOK
<1>4. EventTypes
  BY <1>1, <1>2 DEF EventTypes, MakeEvent, Control, TypeOK
<1>5. CASE ev = None
  BY <1>1, <1>2, <1>4, <1>5 DEF EventMade, EventSame, MakeEvent
<1>6. CASE ev # None
  <2>1. ev \in Events /\ ev \in Objects
    BY <1>2, <1>6
  <2>2. st'[ev] = "live" /\ held'[ev] = 1 /\ queue'[ev] = q /\ status'[ev] = stat /\ rc'[ev] = 1
    BY <1>1, <1>3, <1>6, <2>1 DEF MakeEvent, Control, TypeOK
  <2>3. ASSUME NEW e \in Events, e # ev PROVE EventSame(e)
    BY <1>1, <1>2, <1>6, <2>1, <2>3 DEF EventSame, MakeEvent, Control, TypeOK
  <2>4. QED
    BY <1>4, <1>6, <2>2, <2>3 DEF EventMade
<1>7. QED
  BY <1>4, <1>5, <1>6

\* An event that a call or a command refers to has been made.
LEMMA EventsMade ==
  ASSUME Control
  PROVE  /\ \A t \in Threads : \A e \in Range(pc[t].events) : e \in Events /\ st[e] # "none"
         /\ \A q \in Queues : \A i \in DOMAIN root[q] : root[q][i].event # None =>
              root[q][i].event \in Events /\ st[root[q][i].event] # "none"
         /\ \A t \in Threads : pc[t].op = "exec" /\ pc[t].cmd.event # None =>
              pc[t].cmd.event \in Events /\ st[pc[t].cmd.event] # "none"
<1>1. ASSUME NEW t \in Threads, NEW e \in Range(pc[t].events)
      PROVE  e \in Events /\ st[e] # "none"
  <2>1. pc[t] \in Call /\ CallOK(pc[t], root) /\ WaitOK(pc[t])
    BY DEF Control, TypeOK, CallsOK, WaitsOK
  <2>2. pc[t].events \in Seq(Events) /\ pc[t].op \in {"idle", "return", "exec", "release_queue", "release_event", "wait"}
    BY <2>1, CallFields
  <2>3. PICK j \in DOMAIN pc[t].events : e = pc[t].events[j]
    BY DEF Range
  <2>4. pc[t].events # <<>> /\ e \in Events
    BY <2>2, <2>3
  <2>5. pc[t].op \in {"release_event", "wait"}
    BY <2>1, <2>4 DEF CallOK
  <2>6. CASE pc[t].op = "wait"
    BY <2>1, <2>3, <2>4, <2>6 DEF WaitOK, Control, EventsOK
  <2>7. CASE pc[t].op = "release_event"
    BY <2>1, <2>3, <2>4, <2>7 DEF WaitOK
  <2>8. QED  BY <2>4, <2>5, <2>6, <2>7
<1>2. ASSUME NEW q \in Queues, NEW i \in DOMAIN root[q], root[q][i].event # None
      PROVE  root[q][i].event \in Events /\ st[root[q][i].event] # "none"
  <2>1. root[q][i] \in Node
    BY DEF Control, TypeOK
  <2>2. QED
    BY <1>2, <2>1, NodeFields DEF Control, NodesOK, CommandOK
<1>3. ASSUME NEW t \in Threads, pc[t].op = "exec", pc[t].cmd.event # None
      PROVE  pc[t].cmd.event \in Events /\ st[pc[t].cmd.event] # "none"
  <2>1. pc[t].cmd \in Node
    BY CallFields DEF Control, TypeOK
  <2>2. QED
    BY <1>3, <2>1, NodeFields DEF Control, OwnOK, CommandOK
<1>4. QED
  BY <1>1, <1>2, <1>3

\* The events there are stay what they are; they stay events of their queues; they
\* keep their status.
OlderSame  == \A e \in Events : st[e] # "none" => EventSame(e)
OlderStay  == \A e \in Events : st[e] # "none" => st'[e] # "none" /\ queue'[e] = queue[e]
StatusStay == \A e \in Events : st[e] # "none" => status'[e] = status[e]

LEMMA OlderEvents ==
  ASSUME Control, NEW q \in Queues, NEW ev \in Events \cup {None}, NEW stat, NEW n,
         EventMade(q, ev, stat, n)
  PROVE  OlderSame /\ OlderStay /\ StatusStay
<1>1. OlderSame
  BY HandlesAssumption DEF EventMade, Objects, OlderSame
<1>2. QED
  BY <1>1 DEF OlderSame, EventSame, OlderStay, StatusStay

LEMMA UsesKept ==
  ASSUME Control, OlderStay, NEW t \in Threads, pc'[t] = pc[t], NEW q
  PROVE  Uses(t, q)' <=> Uses(t, q)
<1>1. \A e \in Range(pc[t].events) : queue'[e] = queue[e]
  BY EventsMade DEF OlderStay
<1>2. QED
  BY <1>1 DEF Uses, Range

LEMMA WaitKept ==
  ASSUME Control, NEW t \in Threads, pc'[t] = pc[t],
         \A e \in Range(pc[t].events) : EventSame(e)
  PROVE  WaitOK(pc[t])'
<1>1. WaitOK(pc[t]) /\ pc[t] \in Call
  BY DEF Control, WaitsOK, TypeOK
<1>2. \A e \in Range(pc[t].events) : e \in Events /\ EventSame(e)
  BY EventsMade
<1>3. \A j \in DOMAIN pc[t].events : pc[t].events[j] \in Events /\ EventSame(pc[t].events[j])
  BY <1>2 DEF Range
<1>4. pc[t].events # <<>> => 1 \in DOMAIN pc[t].events
  BY <1>1, CallFields
<1>5. pc[t].op = "wait" =>
        /\ pc[t].events # <<>> /\ queue'[pc[t].events[1]] = pc[t].q
        /\ \A j \in DOMAIN pc[t].events : held'[pc[t].events[j]] > 0
        /\ \A j, k \in DOMAIN pc[t].events : pc[t].events[j] = pc[t].events[k] => j = k
  BY <1>1, <1>3, <1>4 DEF WaitOK, EventSame
<1>6. ASSUME pc[t].op = "release_event"
      PROVE  \E e \in Events : /\ pc[t].events = <<e>> /\ queue'[e] = pc[t].q
                               /\ st'[e] = "live" /\ held'[e] = 0
  <2>1. PICK e \in Events : pc[t].events = <<e>> /\ queue[e] = pc[t].q /\ st[e] = "live" /\ held[e] = 0
    BY <1>1, <1>6 DEF WaitOK
  <2>2. e \in Range(pc[t].events)
    BY <2>1 DEF Range
  <2>3. QED
    BY <1>2, <2>1, <2>2 DEF EventSame
<1>7. QED
  BY <1>5, <1>6 DEF WaitOK

\* CommandOK in the next state, of a command of this state.
CommandStays(c, q) ==
  /\ c.n \in 1..count'
  /\ Len(c.bufs) <= 2
  /\ c.type = "map" => Len(c.bufs) = 1
  /\ c.event # None => st'[c.event] # "none" /\ queue'[c.event] = q

LEMMA CommandKept ==
  ASSUME Control, OlderStay, count' \in Nat, count <= count', NEW c \in Node, NEW q, CommandOK(c, q)
  PROVE  CommandStays(c, q)
<1>1. c.event # None => st'[c.event] # "none" /\ queue'[c.event] = queue[c.event]
  BY NodeFields DEF CommandOK, OlderStay
<1>2. c.n \in 1..count'
  BY DEF CommandOK, Control, TypeOK
<1>3. QED
  BY <1>1, <1>2 DEF CommandOK, CommandStays

LEMMA CommandsKept ==
  ASSUME Control, OlderStay, count' \in Nat, count <= count'
  PROVE  /\ \A p \in Queues : \A i \in DOMAIN root[p] : CommandStays(root[p][i], p)
         /\ \A t \in Threads : pc[t].op = "exec" =>
              CommandStays(pc[t].cmd, pc[t].q) /\ pc[t].cmd.kernel = None
<1>1. \A p \in Queues : \A i \in DOMAIN root[p] : CommandStays(root[p][i], p)
  <2> TAKE p \in Queues
  <2> TAKE i \in DOMAIN root[p]
  <2>1. root[p][i] \in Node /\ CommandOK(root[p][i], p)
    BY DEF Control, TypeOK, NodesOK
  <2>2. QED  BY <2>1, CommandKept
<1>2. ASSUME NEW t \in Threads, pc[t].op = "exec"
      PROVE  CommandStays(pc[t].cmd, pc[t].q) /\ pc[t].cmd.kernel = None
  <2>1. pc[t].cmd \in Node /\ CommandOK(pc[t].cmd, pc[t].q) /\ pc[t].cmd.kernel = None
    BY <1>2, CallFields DEF Control, TypeOK, OwnOK
  <2>2. QED  BY <2>1, CommandKept
<1>3. QED
  BY <1>1, <1>2

LEMMA StatusKept ==
  ASSUME Control, StatusStay
  PROVE  /\ \A p \in Queues : \A i \in DOMAIN root[p] : root[p][i].event # None =>
              status'[root[p][i].event] = status[root[p][i].event]
         /\ \A t \in Threads : pc[t].op = "exec" /\ pc[t].cmd.event # None =>
              status'[pc[t].cmd.event] = status[pc[t].cmd.event]
BY EventsMade DEF StatusStay

LEMMA EventsOKKept ==
  ASSUME Control, NEW q \in Queues, NEW ev \in Events \cup {None}, NEW stat, NEW n \in {0, 1},
         EventMade(q, ev, stat, n)
  PROVE  EventsOK'
<1> SUFFICES ASSUME NEW e \in Events
             PROVE  /\ st'[e] = "none" => status'[e] = "none" /\ held'[e] = 0 /\ rc'[e] = 0
                    /\ st'[e] # "none" => queue'[e] \in Queues
                    /\ held'[e] > 0 => st'[e] = "live" /\ rc'[e] = held'[e]
  BY DEF EventsOK
<1>1. CASE e = ev
  <2>1. ev # None
    BY <1>1, HandlesAssumption DEF Objects
  <2>2. QED
    BY <1>1, <2>1 DEF EventMade
<1>2. CASE e # ev
  BY <1>2 DEF EventMade, EventSame, Control, EventsOK
<1>3. QED  BY <1>1, <1>2

\* A step that makes an event, or none, and changes no call and no queue.
LEMMA EventControl ==
  ASSUME Control, TypeOK', NEW q \in Queues, NEW ev \in Events \cup {None},
         NEW stat \in Stats, NEW n \in {0, 1}, EventMade(q, ev, stat, n), n = 0 \/ stat = "complete",
         pc' = pc, root' = root, count <= count', count' <= MaxCommands
  PROVE  Control'
<1>1. OlderSame /\ OlderStay /\ StatusStay
  BY OlderEvents
<1>2. CallsOK'
  BY DEF Control, CallsOK, CallOK
<1>3. Exclusive'
  <2>1. \A t \in Threads : \A p : Uses(t, p)' <=> Uses(t, p)
    BY <1>1, UsesKept
  <2>2. QED
    BY <2>1 DEF Control, Exclusive
<1>4. EventsOK'
  BY EventsOKKept
<1>5. WaitsOK'
  BY <1>1, WaitKept, EventsMade DEF WaitsOK, OlderSame
<1>6. count' \in Nat /\ count \in Nat
  BY DEF TypeOK, Control
<1>7. NodesOK' /\ OwnOK'
  BY <1>1, <1>6, CommandsKept DEF NodesOK, OwnOK, CommandOK, CommandStays
<1>9. Unique'
  BY DEF Control, Unique, Same
<1>10. NodeStatus'
  BY <1>1, StatusKept DEF Control, NodeStatus, StatusAt
<1>11. OwnStatus'
  BY <1>1, StatusKept DEF Control, OwnStatus, StatusAt
<1>12. Tracked'
  <2> SUFFICES ASSUME NEW e \in Events, held'[e] > 0
               PROVE  status'[e] = "complete" \/ InProgress(e)
    BY DEF Tracked, InProgress
  <2>1. CASE e = ev
    BY <2>1, HandlesAssumption DEF EventMade, Objects
  <2>2. CASE e # ev
    BY <2>2 DEF EventMade, EventSame, Control, Tracked
  <2>3. QED  BY <2>1, <2>2
<1>13. Lengths'
  BY <1>6 DEF Control, Lengths, TypeOK
<1>14. QED
  BY <1>2, <1>3, <1>4, <1>5, <1>7, <1>9, <1>10, <1>11, <1>12, <1>13 DEF Control

\* A command with a new number and, if any, a new event.
LEMMA NewCommand ==
  ASSUME Control, NEW c \in Node, c.n = count + 1, c.event # None => st[c.event] = "none"
  PROVE  /\ \A p \in Queues : \A i \in DOMAIN root[p] : ~Same(c, root[p][i]) /\ ~Same(root[p][i], c)
         /\ \A t \in Threads : pc[t].op = "exec" => ~Same(c, pc[t].cmd) /\ ~Same(pc[t].cmd, c)
<1>1. \A d, q : d \in Node /\ CommandOK(d, q) => ~Same(c, d) /\ ~Same(d, c)
  BY NodeFields DEF CommandOK, Same, Control, TypeOK
<1>2. \A p \in Queues : \A i \in DOMAIN root[p] : root[p][i] \in Node /\ CommandOK(root[p][i], p)
  BY DEF Control, TypeOK, NodesOK
<1>3. \A t \in Threads : pc[t].op = "exec" => pc[t].cmd \in Node /\ CommandOK(pc[t].cmd, pc[t].q)
  BY CallFields DEF Control, TypeOK, OwnOK
<1>4. QED
  BY <1>1, <1>2, <1>3

\* A node is put at the end of a queue that no thread is at work on.
LEMMA AppendControl ==
  ASSUME Control, TypeOK', NEW q \in Queues, NEW c \in Node,
         EventMade(q, c.event, "queued", 1), ~Busy(q), c.n = count + 1, Len(c.bufs) <= 2,
         c.type = "map" => Len(c.bufs) = 1,
         pc' = pc, root' = [root EXCEPT ![q] = Append(@, c)], count' = count + 1, count' <= MaxCommands
  PROVE  Control'
<1>1. c.event \in Events \cup {None} /\ OlderSame /\ OlderStay /\ StatusStay
  <2>1. c.event \in Events \cup {None}
    BY NodeFields
  <2>2. QED  BY <2>1, OlderEvents
<1>2. count \in Nat /\ count' \in Nat /\ root \in [Queues -> Seq(Node)] /\ pc \in [Threads -> Call]
  BY DEF TypeOK, Control
<1>3. /\ root'[q] = Append(root[q], c)
      /\ DOMAIN root'[q] = 1..(Len(root[q]) + 1) /\ DOMAIN root[q] = 1..Len(root[q])
      /\ Len(root[q]) \in Nat /\ Len(root'[q]) = Len(root[q]) + 1
      /\ root'[q][Len(root[q]) + 1] = c
      /\ \A i \in DOMAIN root[q] : root'[q][i] = root[q][i]
      /\ \A p \in Queues : p # q => root'[p] = root[p]
  BY <1>2
<1>4. \A u \in Threads : pc[u].q # q /\ ~Uses(u, q)
  BY DEF Busy, Uses
<1>5. CallsOK'
  <2> SUFFICES ASSUME NEW u \in Threads PROVE CallOK(pc[u], root')
    BY DEF CallsOK, CallOK
  <2>1. CallOK(pc[u], root)
    BY DEF Control, CallsOK
  <2>2. pc[u].q \in Queues => root'[pc[u].q] = root[pc[u].q]
    BY <1>3, <1>4
  <2>3. QED
    BY <2>1, <2>2 DEF CallOK
<1>6. Exclusive'
  <2>1. \A t \in Threads : \A p : Uses(t, p)' <=> Uses(t, p)
    BY <1>1, UsesKept
  <2>2. QED
    BY <2>1 DEF Control, Exclusive
<1>7. EventsOK'
  BY <1>1, EventsOKKept
<1>8. WaitsOK'
  BY <1>1, WaitKept, EventsMade DEF WaitsOK, OlderSame
<1>9. CommandStays(c, q)
  BY <1>2 DEF CommandStays, EventMade
<1>10. \A p \in Queues : \A i \in DOMAIN root'[p] :
         \/ p = q /\ i = Len(root[q]) + 1 /\ root'[p][i] = c
         \/ i \in DOMAIN root[p] /\ root'[p][i] = root[p][i]
  BY <1>3
<1>11. NodesOK' /\ OwnOK'
  <2>1. /\ \A p \in Queues : \A i \in DOMAIN root[p] : CommandStays(root[p][i], p)
        /\ \A t \in Threads : pc[t].op = "exec" =>
              CommandStays(pc[t].cmd, pc[t].q) /\ pc[t].cmd.kernel = None
    BY <1>1, <1>2, CommandsKept
  <2>2. \A p \in Queues : \A i \in DOMAIN root'[p] : CommandStays(root'[p][i], p)
    BY <1>9, <1>10, <2>1
  <2>3. QED
    BY <2>1, <2>2 DEF NodesOK, OwnOK, CommandOK, CommandStays
<1>12. Unique'
  <2>1. /\ \A p \in Queues : \A i \in DOMAIN root[p] : ~Same(c, root[p][i]) /\ ~Same(root[p][i], c)
        /\ \A t \in Threads : pc[t].op = "exec" => ~Same(c, pc[t].cmd) /\ ~Same(pc[t].cmd, c)
    BY NewCommand DEF EventMade
  <2>2. \A p, r \in Queues : \A i \in DOMAIN root'[p], j \in DOMAIN root'[r] :
          Same(root'[p][i], root'[r][j]) => p = r /\ i = j
    BY <1>10, <2>1 DEF Control, Unique
  <2>3. \A t \in Threads : pc[t].op = "exec" =>
          \A p \in Queues : \A i \in DOMAIN root'[p] : ~Same(pc[t].cmd, root'[p][i])
    BY <1>10, <2>1 DEF Control, Unique
  <2>4. QED
    BY <2>2, <2>3 DEF Control, Unique, Same
<1>13. NodeStatus'
  <2>1. /\ \A p \in Queues : \A i \in DOMAIN root[p] : root[p][i].event # None =>
              status'[root[p][i].event] = status[root[p][i].event]
    BY <1>1, StatusKept
  <2>2. c.event # None => status'[c.event] = "queued"
    BY DEF EventMade
  <2> SUFFICES ASSUME NEW p \in Queues, NEW i \in DOMAIN root'[p], root'[p][i].event # None
               PROVE  LET e == root'[p][i].event IN
                      /\ (\A t \in Threads : pc[t].q = p => pc[t].i < i) => status'[e] = "queued"
                      /\ \A t \in Threads : pc[t].q = p =>
                           /\ i < pc[t].i => status'[e] = "complete"
                           /\ i = pc[t].i => StatusAt(pc[t].at, status'[e], Device[p])
    BY DEF NodeStatus, StatusAt
  <2>3. CASE p = q /\ i = Len(root[q]) + 1 /\ root'[p][i] = c
    BY <1>4, <2>2, <2>3
  <2>4. CASE i \in DOMAIN root[p] /\ root'[p][i] = root[p][i]
    BY <2>1, <2>4 DEF Control, NodeStatus
  <2>5. QED  BY <1>10, <2>3, <2>4
<1>14. OwnStatus'
  BY <1>1, StatusKept DEF Control, OwnStatus, StatusAt
<1>15. Tracked'
  <2> SUFFICES ASSUME NEW e \in Events, held'[e] > 0
               PROVE  \/ status'[e] = "complete"
                      \/ \E p \in Queues : \E i \in DOMAIN root'[p] : root'[p][i].event = e
                      \/ \E t \in Threads : pc[t].op = "exec" /\ pc[t].cmd.event = e
    BY DEF Tracked, InProgress
  <2>1. CASE e = c.event
    BY <1>3, <2>1
  <2>2. CASE e # c.event
    <3>1. EventSame(e)
      BY <2>2 DEF EventMade
    <3>2. status[e] = "complete" \/ InProgress(e)
      BY <3>1 DEF EventSame, Control, Tracked
    <3>3. ASSUME NEW p \in Queues, NEW i \in DOMAIN root[p], root[p][i].event = e
          PROVE  i \in DOMAIN root'[p] /\ root'[p][i].event = e
      BY <1>3, <3>3
    <3>4. QED
      BY <3>1, <3>2, <3>3 DEF EventSame, InProgress
  <2>3. QED  BY <2>1, <2>2
<1>16. Lengths'
  BY <1>2, <1>3 DEF Control, Lengths
<1>17. QED
  BY <1>5, <1>6, <1>7, <1>8, <1>11, <1>12, <1>13, <1>14, <1>15, <1>16 DEF Control

\* A thread enters the call d, which begins with the first node of a queue that
\* no thread is at work on.
Begins(t, d) ==
  /\ pc[t].op = "idle" /\ pc' = [pc EXCEPT ![t] = d] /\ root' = root
  /\ d.op # "idle" /\ d.q \in Queues /\ d.i = 1 /\ d.at = "node" /\ d.rel = <<>>
  /\ \A u \in Threads : ~Uses(u, d.q)
  /\ \A e \in Range(d.events) : \A u \in Threads : ~Uses(u, queue'[e])
  /\ d.op # "exec" => d.cmd = NoCmd
  /\ d.op \notin {"release_event", "wait"} => d.events = <<>>
  /\ d.op = "exec" => /\ CommandStays(d.cmd, d.q) /\ d.cmd.kernel = None
                      /\ d.cmd.n = count + 1
                      /\ d.cmd.event # None => /\ st[d.cmd.event] = "none"
                                               /\ status'[d.cmd.event] = "queued"
  /\ \A e \in Events : held'[e] > 0 => held[e] > 0 \/ (d.op = "exec" /\ d.cmd.event = e)

LEMMA BeginControl ==
  ASSUME Control, TypeOK', NEW t \in Threads, NEW d \in Call, Begins(t, d),
         OlderStay, StatusStay, EventsOK', WaitOK(pc[t])',
         \A u \in Threads \ {t} : \A e \in Range(pc[u].events) : EventSame(e),
         count <= count', count' <= MaxCommands
  PROVE  Control'
<1>1. /\ count \in Nat /\ count' \in Nat /\ root \in [Queues -> Seq(Node)] /\ pc \in [Threads -> Call]
      /\ pc'[t] = d /\ \A u \in Threads : u # t => pc'[u] = pc[u]
  BY DEF TypeOK, Control, Begins
<1>2. pc[t] = NoCall /\ pc[t].q = None
  BY NoCallType DEF Control, CallsOK, CallOK, Begins
<1>3. \A u \in Threads : pc[u].q # d.q
  BY DEF Begins, Uses
<1>4. \A p \in Queues : \A i \in DOMAIN root[p] : i \in Nat \ {0}
  BY <1>1
<1>5. CallsOK'
  <2> SUFFICES ASSUME NEW u \in Threads PROVE CallOK(pc'[u], root)
    BY DEF CallsOK, CallOK, Begins
  <2>1. CASE u = t
    <3>1. Len(root[d.q]) \in Nat
      BY <1>1 DEF Begins
    <3>2. QED
      BY <1>1, <2>1, <3>1 DEF CallOK, Begins
  <2>2. CASE u # t
    BY <1>1, <2>2 DEF Control, CallsOK
  <2>3. QED  BY <2>1, <2>2
<1>6. Exclusive'
  <2>1. \A u \in Threads : u # t => \A p : Uses(u, p)' <=> Uses(u, p)
    BY <1>1, UsesKept
  <2>2. ASSUME NEW u \in Threads, u # t, NEW p \in Queues, Uses(t, p)' PROVE ~Uses(u, p)
    BY <1>1, <2>2 DEF Uses, Begins
  <2>3. QED
    BY <2>1, <2>2 DEF Control, Exclusive
<1>7. WaitsOK'
  <2> SUFFICES ASSUME NEW u \in Threads PROVE WaitOK(pc[u])'
    BY DEF WaitsOK
  <2>1. CASE u # t
    BY <1>1, <2>1, WaitKept
  <2>2. QED  BY <2>1
<1>8. NodesOK' /\ OwnOK'
  <2>1. /\ \A p \in Queues : \A i \in DOMAIN root[p] : CommandStays(root[p][i], p)
        /\ \A u \in Threads : pc[u].op = "exec" =>
              CommandStays(pc[u].cmd, pc[u].q) /\ pc[u].cmd.kernel = None
    BY <1>1, CommandsKept
  <2>2. \A u \in Threads : pc'[u].op = "exec" =>
              CommandStays(pc'[u].cmd, pc'[u].q) /\ pc'[u].cmd.kernel = None
    BY <1>1, <2>1 DEF Begins
  <2>3. QED
    BY <2>1, <2>2 DEF NodesOK, OwnOK, CommandOK, CommandStays, Begins
<1>9. Unique'
  <2>1. ASSUME d.op = "exec"
        PROVE  /\ \A p \in Queues : \A i \in DOMAIN root[p] : ~Same(d.cmd, root[p][i])
               /\ \A u \in Threads : pc[u].op = "exec" => ~Same(d.cmd, pc[u].cmd) /\ ~Same(pc[u].cmd, d.cmd)
    <3>1. d.cmd \in Node
      BY CallFields
    <3>2. QED
      BY <2>1, <3>1, NewCommand DEF Begins
  <2>2. \A u \in Threads : pc'[u].op = "exec" =>
          /\ \A p \in Queues : \A i \in DOMAIN root[p] : ~Same(pc'[u].cmd, root[p][i])
          /\ \A v \in Threads : pc'[v].op = "exec" /\ Same(pc'[u].cmd, pc'[v].cmd) => u = v
    BY <1>1, <2>1 DEF Control, Unique
  <2>3. QED
    BY <2>2 DEF Control, Unique, Same, Begins
<1>10. NodeStatus'
  <2>1. \A p \in Queues : \A i \in DOMAIN root[p] : root[p][i].event # None =>
              status'[root[p][i].event] = status[root[p][i].event]
    BY StatusKept
  <2> SUFFICES ASSUME NEW p \in Queues, NEW i \in DOMAIN root[p], root[p][i].event # None
               PROVE  LET e == root[p][i].event IN
                      /\ (\A u \in Threads : pc'[u].q = p => pc'[u].i < i) => status'[e] = "queued"
                      /\ \A u \in Threads : pc'[u].q = p =>
                           /\ i < pc'[u].i => status'[e] = "complete"
                           /\ i = pc'[u].i => StatusAt(pc'[u].at, status'[e], Device[p])
    BY DEF NodeStatus, StatusAt, Begins
  <2>2. CASE p = d.q
    <3>1. status'[root[p][i].event] = "queued"
      BY <1>3, <2>1, <2>2 DEF Control, NodeStatus
    <3>2. \A u \in Threads : pc'[u].q = p => u = t /\ pc'[u].i = 1 /\ pc'[u].at = "node"
      BY <1>1, <1>3, <2>2 DEF Begins
    <3>3. QED
      BY <1>4, <3>1, <3>2 DEF StatusAt
  <2>3. CASE p # d.q
    <3>1. \A u \in Threads : pc'[u].q = p <=> u # t /\ pc[u].q = p
      BY <1>1, <2>3
    <3>2. pc[t].q # p
      BY <1>2, HandlesAssumption DEF Objects
    <3>3. QED
      BY <1>1, <2>1, <3>1, <3>2 DEF Control, NodeStatus
  <2>4. QED  BY <2>2, <2>3
<1>11. OwnStatus'
  <2>1. \A u \in Threads : pc[u].op = "exec" /\ pc[u].cmd.event # None =>
              status'[pc[u].cmd.event] = status[pc[u].cmd.event]
    BY StatusKept
  <2> SUFFICES ASSUME NEW u \in Threads, pc'[u].op = "exec", pc'[u].cmd.event # None
               PROVE  LET e == pc'[u].cmd.event IN
                      IF pc'[u].i = 0 THEN StatusAt(pc'[u].at, status'[e], Device[pc'[u].q])
                                      ELSE status'[e] = "queued"
    BY DEF OwnStatus, StatusAt
  <2>2. CASE u = t
    BY <1>1, <2>2 DEF Begins
  <2>3. CASE u # t
    BY <1>1, <2>1, <2>3 DEF Control, OwnStatus
  <2>4. QED  BY <2>2, <2>3
<1>12. Tracked'
  <2> SUFFICES ASSUME NEW e \in Events, held'[e] > 0
               PROVE  \/ status'[e] = "complete"
                      \/ \E p \in Queues : \E i \in DOMAIN root[p] : root[p][i].event = e
                      \/ \E u \in Threads : pc'[u].op = "exec" /\ pc'[u].cmd.event = e
    BY DEF Tracked, InProgress, Begins
  <2>1. CASE d.op = "exec" /\ d.cmd.event = e
    BY <1>1, <2>1
  <2>2. CASE held[e] > 0
    <3>1. status'[e] = status[e]
      BY <2>2 DEF Control, EventsOK, StatusStay
    <3>2. status[e] = "complete" \/ InProgress(e)
      BY <2>2 DEF Control, Tracked
    <3>3. \A u \in Threads : pc[u].op = "exec" => u # t /\ pc'[u] = pc[u]
      BY <1>1 DEF Begins
    <3>4. QED
      BY <3>1, <3>2, <3>3 DEF InProgress
  <2>3. QED  BY <2>1, <2>2 DEF Begins
<1>13. Lengths'
  BY <1>1 DEF Control, Lengths, Begins
<1>14. QED
  BY <1>5, <1>6, <1>7, <1>8, <1>9, <1>10, <1>11, <1>12, <1>13 DEF Control
-----------------------------------------------------------------------------
(* Control: the steps of a thread in a call.                               *)

\* The thread is at a command, a node of the queue or its own.
Executing(t) == pc[t].op # "idle" /\ pc[t].i <= Len(root[pc[t].q])

LEMMA WorkingFacts ==
  ASSUME Control, NEW t \in Threads, pc[t].op # "idle"
  PROVE  /\ pc[t] \in Call /\ CallOK(pc[t], root) /\ pc[t].q \in Queues /\ pc[t].i \in Nat
         /\ root[pc[t].q] \in Seq(Node) /\ Uses(t, pc[t].q)
         /\ \A u \in Threads : pc[u].q = pc[t].q => u = t
         /\ \A u \in Threads : u # t => pc[u].q # pc[t].q
<1>1. pc[t] \in Call /\ CallOK(pc[t], root)
  BY DEF Control, TypeOK, CallsOK
<1>2. pc[t].q \in Queues /\ Uses(t, pc[t].q)
  BY <1>1 DEF CallOK, Uses
<1>3. \A u \in Threads : pc[u].q = pc[t].q => u = t
  BY <1>2 DEF Control, Exclusive, Uses
<1>4. QED
  BY <1>1, <1>2, <1>3, CallFields DEF Control, TypeOK

LEMMA CurrentFacts ==
  ASSUME Control, NEW t \in Threads, Executing(t)
  PROVE  /\ Current(t) \in Node /\ CommandOK(Current(t), pc[t].q)
         /\ Current(t).event # None => /\ Current(t).event \in Events
                                       /\ StatusAt(pc[t].at, status[Current(t).event], Device[pc[t].q])
         /\ \A p \in Queues : \A i \in DOMAIN root[p] :
              Same(root[p][i], Current(t)) => p = pc[t].q /\ i = pc[t].i
         /\ \A u \in Threads : pc[u].op = "exec" /\ Same(pc[u].cmd, Current(t)) => u = t /\ pc[t].i = 0
         /\ pc[t].i = 0 => pc[t].op = "exec" /\ Current(t) = pc[t].cmd /\ root[pc[t].q] = <<>>
         /\ pc[t].i # 0 => pc[t].i \in DOMAIN root[pc[t].q] /\ Current(t) = root[pc[t].q][pc[t].i]
<1> DEFINE q == pc[t].q
           c == Current(t)
<1>1. /\ pc[t] \in Call /\ CallOK(pc[t], root) /\ q \in Queues /\ pc[t].i \in Nat
      /\ root[q] \in Seq(Node)
  BY WorkingFacts DEF Executing
<1>2. CASE pc[t].i = 0
  <2>1. pc[t].op = "exec" /\ root[q] = <<>> /\ c = pc[t].cmd
    BY <1>1, <1>2 DEF CallOK, Current, Executing
  <2>2. c \in Node /\ CommandOK(c, q)
    BY <1>1, <2>1, CallFields DEF Control, OwnOK
  <2>3. c.event # None => StatusAt(pc[t].at, status[c.event], Device[q])
    BY <1>2, <2>1 DEF Control, OwnStatus
  <2>4. /\ \A p \in Queues : \A i \in DOMAIN root[p] : ~Same(root[p][i], c)
        /\ \A u \in Threads : pc[u].op = "exec" /\ Same(pc[u].cmd, c) => u = t
    BY <2>1 DEF Control, Unique, Same
  <2>5. QED
    BY <1>2, <2>1, <2>2, <2>3, <2>4, NodeFields
<1>3. CASE pc[t].i # 0
  <2>1. pc[t].i \in DOMAIN root[q] /\ c = root[q][pc[t].i]
    BY <1>1, <1>3 DEF Current, Executing
  <2>2. c \in Node /\ CommandOK(c, q)
    BY <1>1, <2>1 DEF Control, NodesOK
  <2>3. c.event # None => StatusAt(pc[t].at, status[c.event], Device[q])
    BY <1>1, <2>1 DEF Control, NodeStatus
  <2>4. /\ \A p \in Queues : \A i \in DOMAIN root[p] : Same(root[p][i], c) => p = q /\ i = pc[t].i
        /\ \A u \in Threads : pc[u].op = "exec" => ~Same(pc[u].cmd, c)
    BY <1>1, <2>1 DEF Control, Unique
  <2>5. QED
    BY <1>3, <2>1, <2>2, <2>3, <2>4, NodeFields
<1>4. QED
  BY <1>2, <1>3

\* The thread goes on in its call: the queues, and the life of the events, stay.
GoesOn(t, d) ==
  /\ pc[t].op # "idle" /\ pc' = [pc EXCEPT ![t] = d] /\ SameCall(pc[t], d)
  /\ root' = root /\ queue' = queue /\ count' = count
  /\ \A e \in Events : st'[e] = st[e] /\ held'[e] = held[e] /\ rc'[e] = rc[e]
  /\ CallOK(d, root)

\* The parts of the invariant that do not depend on how far a call has come.
LEMMA GoesOnControl ==
  ASSUME Control, TypeOK', NEW t \in Threads, NEW d \in Call, GoesOn(t, d),
         \A e \in Events : st[e] = "none" => status'[e] = status[e]
  PROVE  /\ CallsOK' /\ Exclusive' /\ EventsOK' /\ WaitsOK' /\ NodesOK' /\ OwnOK' /\ Unique' /\ Lengths'
         /\ pc'[t] = d /\ \A u \in Threads : u # t => pc'[u] = pc[u]
         /\ \A u \in Threads : SameCall(pc[u], pc'[u])
<1>1. /\ pc'[t] = d /\ \A u \in Threads : u # t => pc'[u] = pc[u]
      /\ \A u \in Threads : SameCall(pc[u], pc'[u])
  BY DEF Control, TypeOK, GoesOn, SameCall
<1>2. CallsOK'
  BY <1>1 DEF Control, CallsOK, CallOK, GoesOn
<1>3. Exclusive'
  BY <1>1 DEF Control, Exclusive, Uses, SameCall, GoesOn
<1>4. EventsOK'
  BY DEF Control, EventsOK, GoesOn
<1>5. WaitsOK'
  <2> SUFFICES ASSUME NEW u \in Threads PROVE WaitOK(pc[u])'
    BY DEF WaitsOK
  <2>1. WaitOK(pc[u]) /\ pc'[u].op = pc[u].op /\ pc'[u].q = pc[u].q /\ pc'[u].events = pc[u].events
    BY <1>1 DEF Control, WaitsOK, SameCall
  <2>2. pc[u].events \in Seq(Events)
    BY CallFields DEF Control, TypeOK
  <2>3. \A j \in DOMAIN pc[u].events : held'[pc[u].events[j]] = held[pc[u].events[j]]
    BY <2>2 DEF GoesOn
  <2>4. QED
    BY <2>1, <2>3 DEF WaitOK, GoesOn
<1>6. NodesOK' /\ OwnOK'
  <2>1. OlderStay /\ count' \in Nat /\ count <= count'
    BY DEF OlderStay, GoesOn, Control, TypeOK
  <2>2. /\ \A p \in Queues : \A i \in DOMAIN root[p] : CommandStays(root[p][i], p)
        /\ \A u \in Threads : pc[u].op = "exec" =>
              CommandStays(pc[u].cmd, pc[u].q) /\ pc[u].cmd.kernel = None
    BY <2>1, CommandsKept
  <2>3. \A u \in Threads : pc'[u].op = "exec" =>
              CommandStays(pc'[u].cmd, pc'[u].q) /\ pc'[u].cmd.kernel = None
    BY <1>1, <2>2 DEF SameCall
  <2>4. QED
    BY <2>2, <2>3 DEF NodesOK, OwnOK, CommandOK, CommandStays, GoesOn
<1>7. Unique'
  <2>1. \A u \in Threads : pc'[u].op = pc[u].op /\ pc'[u].cmd = pc[u].cmd
    BY <1>1 DEF SameCall
  <2>2. QED
    BY <2>1 DEF Control, Unique, Same, GoesOn
<1>8. Lengths'
  BY DEF Control, Lengths, GoesOn
<1>9. QED
  BY <1>1, <1>2, <1>3, <1>4, <1>5, <1>6, <1>7, <1>8

\* A step in the execution of a command, which may change the status of its event.
LEMMA ExecuteControl ==
  ASSUME Control, TypeOK', NEW t \in Threads, NEW d \in Call, Executing(t), GoesOn(t, d),
         d.i = pc[t].i, NEW s \in Stats, SetStatus(Current(t).event, s),
         Current(t).event # None => StatusAt(d.at, s, Device[pc[t].q])
  PROVE  Control'
<1> DEFINE q == pc[t].q
           ev == Current(t).event
<1>1. /\ q \in Queues /\ pc[t].i \in Nat /\ root[q] \in Seq(Node)
      /\ \A u \in Threads : pc[u].q = q => u = t
  BY WorkingFacts DEF Executing
<1>2. /\ ev # None => ev \in Events /\ st[ev] # "none"
      /\ \A p \in Queues : \A i \in DOMAIN root[p] :
              ev # None /\ root[p][i].event = ev => p = q /\ i = pc[t].i
      /\ \A u \in Threads : pc[u].op = "exec" /\ ev # None /\ pc[u].cmd.event = ev => u = t /\ pc[t].i = 0
      /\ pc[t].i = 0 => pc[t].op = "exec" /\ ev = pc[t].cmd.event
      /\ pc[t].i # 0 => pc[t].i \in DOMAIN root[q] /\ ev = root[q][pc[t].i].event
  BY CurrentFacts DEF Same, CommandOK
<1>3. /\ \A e \in Events : e # ev => status'[e] = status[e]
      /\ ev # None => status'[ev] = s
  BY <1>2 DEF SetStatus, Control, TypeOK
<1>4. \A e \in Events : st[e] = "none" => status'[e] = status[e]
  BY <1>2, <1>3, HandlesAssumption DEF Objects
<1>5. /\ CallsOK' /\ Exclusive' /\ EventsOK' /\ WaitsOK' /\ NodesOK' /\ OwnOK' /\ Unique' /\ Lengths'
      /\ pc'[t] = d /\ \A u \in Threads : u # t => pc'[u] = pc[u]
      /\ \A u \in Threads : SameCall(pc[u], pc'[u])
  BY <1>4, GoesOnControl
<1>6. \A u \in Threads : pc'[u].op = pc[u].op /\ pc'[u].cmd = pc[u].cmd /\ pc'[u].q = pc[u].q /\ pc'[u].i = pc[u].i
  BY <1>5 DEF SameCall
<1> HIDE DEF ev
<1>7. NodeStatus'
  <2> SUFFICES ASSUME NEW p \in Queues, NEW i \in DOMAIN root[p], root[p][i].event # None
               PROVE  LET e == root[p][i].event IN
                      /\ (\A u \in Threads : pc'[u].q = p => pc'[u].i < i) => status'[e] = "queued"
                      /\ \A u \in Threads : pc'[u].q = p =>
                           /\ i < pc'[u].i => status'[e] = "complete"
                           /\ i = pc'[u].i => StatusAt(pc'[u].at, status'[e], Device[p])
    BY DEF NodeStatus, StatusAt, GoesOn
  <2>1. root[p][i].event \in Events
    BY EventsMade
  <2>2. CASE root[p][i].event = ev
    <3>1. p = q /\ i = pc[t].i /\ status'[root[p][i].event] = s /\ i \in Nat
      BY <1>1, <1>2, <1>3, <2>2
    <3>2. \A u \in Threads : pc'[u].q = p => u = t /\ pc'[u].i = i /\ pc'[u].at = d.at
      BY <1>1, <1>5, <1>6, <3>1
    <3>3. pc'[t].q = p /\ pc'[t].i = i
      BY <1>6, <3>1
    <3>4. StatusAt(d.at, s, Device[p])
      BY <2>2, <3>1 DEF ev
    <3>5. QED
      BY <3>1, <3>2, <3>3, <3>4
  <2>3. CASE root[p][i].event # ev
    <3>1. status'[root[p][i].event] = status[root[p][i].event]
      BY <1>3, <2>1, <2>3
    <3>2. ASSUME NEW u \in Threads, pc'[u].q = p, i = pc'[u].i PROVE u # t
      <4>1. i # 0
        BY DEF Control, TypeOK
      <4>2. QED  BY <1>2, <1>6, <2>3, <3>2, <4>1
    <3>3. QED
      BY <1>5, <1>6, <3>1, <3>2 DEF Control, NodeStatus
  <2>4. QED  BY <2>2, <2>3
<1>8. OwnStatus'
  <2> SUFFICES ASSUME NEW u \in Threads, pc'[u].op = "exec", pc'[u].cmd.event # None
               PROVE  LET e == pc'[u].cmd.event IN
                      IF pc'[u].i = 0 THEN StatusAt(pc'[u].at, status'[e], Device[pc'[u].q])
                                      ELSE status'[e] = "queued"
    BY DEF OwnStatus, StatusAt
  <2>1. pc[u].op = "exec" /\ pc[u].cmd.event # None /\ pc[u].cmd.event \in Events
    BY <1>6, EventsMade
  <2>2. CASE pc[u].cmd.event = ev
    <3>1. u = t /\ pc[t].i = 0 /\ status'[pc[u].cmd.event] = s
      BY <1>2, <1>3, <2>1, <2>2
    <3>2. QED
      BY <1>5, <1>6, <2>1, <2>2, <3>1 DEF ev
  <2>3. CASE pc[u].cmd.event # ev
    <3>1. status'[pc[u].cmd.event] = status[pc[u].cmd.event]
      BY <1>3, <2>1, <2>3
    <3>2. u = t => pc[u].i # 0
      BY <1>2, <2>3
    <3>3. QED
      BY <1>5, <1>6, <2>1, <3>1, <3>2 DEF Control, OwnStatus
  <2>4. QED  BY <2>2, <2>3
<1>9. Tracked'
  <2> SUFFICES ASSUME NEW e \in Events, held'[e] > 0
               PROVE  \/ status'[e] = "complete"
                      \/ \E p \in Queues : \E i \in DOMAIN root[p] : root[p][i].event = e
                      \/ \E u \in Threads : pc'[u].op = "exec" /\ pc'[u].cmd.event = e
    BY DEF Tracked, InProgress, GoesOn
  <2>1. CASE e = ev
    <3>1. ev # None
      BY <2>1, HandlesAssumption DEF Objects
    <3>2. CASE pc[t].i = 0
      BY <1>2, <1>6, <2>1, <3>2
    <3>3. CASE pc[t].i # 0
      BY <1>1, <1>2, <2>1, <3>3
    <3>4. QED  BY <3>2, <3>3
  <2>2. CASE e # ev
    <3>1. held[e] > 0 /\ status'[e] = status[e]
      BY <1>3, <2>2 DEF GoesOn
    <3>2. QED
      BY <1>6, <3>1 DEF Control, Tracked, InProgress
  <2>3. QED  BY <2>1, <2>2
<1>10. QED
  BY <1>5, <1>7, <1>8, <1>9 DEF Control

\* A thread leaves a node behind.
LEMMA NextNodeControl ==
  ASSUME Control, TypeOK', NEW t \in Threads, NEW d \in Call, Executing(t), GoesOn(t, d),
         pc[t].i # 0, pc[t].at = "release", d.i = pc[t].i + 1, d.at = "node", status' = status
  PROVE  Control'
<1> DEFINE q == pc[t].q
<1>1. /\ q \in Queues /\ pc[t].i \in Nat /\ root[q] \in Seq(Node)
      /\ \A u \in Threads : pc[u].q = q => u = t
  BY WorkingFacts DEF Executing
<1>2. /\ CallsOK' /\ Exclusive' /\ EventsOK' /\ WaitsOK' /\ NodesOK' /\ OwnOK' /\ Unique' /\ Lengths'
      /\ pc'[t] = d /\ \A u \in Threads : u # t => pc'[u] = pc[u]
      /\ \A u \in Threads : SameCall(pc[u], pc'[u])
  BY GoesOnControl
<1>3. \A u \in Threads : pc'[u].op = pc[u].op /\ pc'[u].cmd = pc[u].cmd /\ pc'[u].q = pc[u].q
  BY <1>2 DEF SameCall
<1>4. NodeStatus'
  <2> SUFFICES ASSUME NEW p \in Queues, NEW i \in DOMAIN root[p], root[p][i].event # None
               PROVE  LET e == root[p][i].event IN
                      /\ (\A u \in Threads : pc'[u].q = p => pc'[u].i < i) => status[e] = "queued"
                      /\ \A u \in Threads : pc'[u].q = p =>
                           /\ i < pc'[u].i => status[e] = "complete"
                           /\ i = pc'[u].i => StatusAt(pc'[u].at, status[e], Device[p])
    BY DEF NodeStatus, StatusAt, GoesOn
  <2>1. i \in Nat
    BY DEF Control, TypeOK
  <2>2. LET e == root[p][i].event IN
        /\ (\A u \in Threads : pc[u].q = p => pc[u].i < i) => status[e] = "queued"
        /\ \A u \in Threads : pc[u].q = p =>
             /\ i < pc[u].i => status[e] = "complete"
             /\ i = pc[u].i => StatusAt(pc[u].at, status[e], Device[p])
    BY DEF Control, NodeStatus
  <2>3. CASE p = q
    <3>1. \A u \in Threads : pc'[u].q = p => u = t
      BY <1>1, <1>3, <2>3
    <3>2. i < pc[t].i + 1 => status[root[p][i].event] = "complete"
      BY <1>1, <2>1, <2>2, <2>3 DEF StatusAt
    <3>3. i > pc[t].i => status[root[p][i].event] = "queued"
      BY <1>1, <2>1, <2>2, <2>3
    <3>4. pc'[t].q = p /\ pc'[t].i = pc[t].i + 1 /\ pc'[t].at = "node"
      BY <1>2, <1>3, <2>3
    <3>5. QED
      BY <1>1, <2>1, <3>1, <3>2, <3>3, <3>4 DEF StatusAt
  <2>4. CASE p # q
    BY <1>2, <1>3, <2>2, <2>4
  <2>5. QED  BY <2>3, <2>4
<1>5. OwnStatus'
  <2> SUFFICES ASSUME NEW u \in Threads, pc'[u].op = "exec", pc'[u].cmd.event # None
               PROVE  LET e == pc'[u].cmd.event IN
                      IF pc'[u].i = 0 THEN StatusAt(pc'[u].at, status[e], Device[pc'[u].q])
                                      ELSE status[e] = "queued"
    BY DEF OwnStatus, StatusAt
  <2>1. CASE u = t
    BY <1>1, <1>2, <1>3, <2>1 DEF Control, OwnStatus
  <2>2. CASE u # t
    BY <1>2, <1>3, <2>2 DEF Control, OwnStatus
  <2>3. QED  BY <2>1, <2>2
<1>6. Tracked'
  BY <1>3 DEF Control, Tracked, InProgress, GoesOn
<1>7. QED
  BY <1>2, <1>4, <1>5, <1>6 DEF Control

\* The loop of clFinish has ended: every node of the queue has completed.
LEMMA EmptiedFacts ==
  ASSUME Control, NEW t \in Threads, Emptied(t), pc[t].op # "idle"
  PROVE  /\ pc[t].q \in Queues /\ pc[t].i # 0 /\ pc[t].i = Len(root[pc[t].q]) + 1
         /\ root' = [root EXCEPT ![pc[t].q] = <<>>]
         /\ root'[pc[t].q] = <<>> /\ \A p \in Queues : p # pc[t].q => root'[p] = root[p]
         /\ \A u \in Threads : pc[u].q = pc[t].q => u = t
         /\ \A i \in DOMAIN root[pc[t].q] :
              root[pc[t].q][i].event # None => status[root[pc[t].q][i].event] = "complete"
<1>1. /\ pc[t] \in Call /\ CallOK(pc[t], root) /\ pc[t].q \in Queues /\ pc[t].i \in Nat
      /\ root[pc[t].q] \in Seq(Node)
      /\ \A u \in Threads : pc[u].q = pc[t].q => u = t
  BY WorkingFacts
<1>2. pc[t].i # 0 /\ pc[t].i = Len(root[pc[t].q]) + 1
  BY <1>1 DEF CallOK, Emptied
<1>3. root' = [root EXCEPT ![pc[t].q] = <<>>]
  BY DEF Emptied
<1>4. root \in [Queues -> Seq(Node)]
  BY DEF Control, TypeOK
<1>5. \A i \in DOMAIN root[pc[t].q] : i < pc[t].i
  BY <1>1, <1>2
<1>6. QED
  BY <1>1, <1>2, <1>3, <1>4, <1>5 DEF Control, NodeStatus

\* The call's own command comes next.
LEMMA FinishExecControl ==
  ASSUME Control, TypeOK', NEW t \in Threads, NEW d \in Call, Emptied(t), pc[t].op = "exec",
         pc' = [pc EXCEPT ![t] = d], SameCall(pc[t], d), d.i = 0, d.at = "node", d.rel = <<>>,
         \A e \in Events : EventSame(e), count' = count
  PROVE  Control'
<1> DEFINE q == pc[t].q
<1>1. /\ q \in Queues /\ pc[t].i # 0 /\ pc[t].i = Len(root[q]) + 1
      /\ root'[q] = <<>> /\ \A p \in Queues : p # q => root'[p] = root[p]
      /\ \A u \in Threads : pc[u].q = q => u = t
      /\ \A i \in DOMAIN root[q] : root[q][i].event # None => status[root[q][i].event] = "complete"
  BY EmptiedFacts
<1>2. /\ pc'[t] = d /\ \A u \in Threads : u # t => pc'[u] = pc[u]
      /\ \A u \in Threads : SameCall(pc[u], pc'[u])
  BY DEF Control, TypeOK, SameCall
<1>3. \A u \in Threads : /\ pc'[u].op = pc[u].op /\ pc'[u].cmd = pc[u].cmd /\ pc'[u].q = pc[u].q
                         /\ pc'[u].events = pc[u].events
  BY <1>2 DEF SameCall
<1>4. OlderStay /\ StatusStay /\ count' \in Nat /\ count <= count'
  BY DEF OlderStay, StatusStay, EventSame, Control, TypeOK
<1>5. \A p \in Queues : \A i \in DOMAIN root'[p] : p # q /\ i \in DOMAIN root[p] /\ root'[p][i] = root[p][i]
  BY <1>1
<1>6. CallsOK'
  <2> SUFFICES ASSUME NEW u \in Threads PROVE CallOK(pc'[u], root')
    BY DEF CallsOK, CallOK
  <2>1. CallOK(pc[u], root)
    BY DEF Control, CallsOK
  <2>2. CASE u = t
    BY <1>1, <1>2, <1>3, <2>1, <2>2 DEF CallOK
  <2>3. CASE u # t
    <3>1. pc'[u] = pc[u] /\ pc[u].q # q
      BY <1>1, <1>2, <2>3
    <3>2. QED
      BY <1>1, <2>1, <3>1 DEF CallOK
  <2>4. QED  BY <2>2, <2>3
<1>7. Exclusive'
  <2>1. \A u \in Threads : \A p \in Queues : Uses(u, p)' <=> Uses(u, p)
    <3> SUFFICES ASSUME NEW u \in Threads, NEW p \in Queues PROVE Uses(u, p)' <=> Uses(u, p)
      OBVIOUS
    <3>1. \A e \in Range(pc[u].events) : queue'[e] = queue[e]
      BY <1>4, EventsMade DEF OlderStay
    <3>2. QED
      BY <1>3, <3>1 DEF Uses, Range
  <2>2. QED
    BY <2>1 DEF Control, Exclusive
<1>8. EventsOK'
  BY DEF Control, EventsOK, EventSame
<1>9. WaitsOK'
  <2> SUFFICES ASSUME NEW u \in Threads PROVE WaitOK(pc[u])'
    BY DEF WaitsOK
  <2>1. CASE u = t
    BY <1>3, <2>1 DEF WaitOK
  <2>2. CASE u # t
    BY <1>2, <2>2, WaitKept, EventsMade
  <2>3. QED  BY <2>1, <2>2
<1>10. NodesOK' /\ OwnOK'
  <2>1. /\ \A p \in Queues : \A i \in DOMAIN root[p] : CommandStays(root[p][i], p)
        /\ \A u \in Threads : pc[u].op = "exec" =>
              CommandStays(pc[u].cmd, pc[u].q) /\ pc[u].cmd.kernel = None
    BY <1>4, CommandsKept
  <2>2. \A u \in Threads : pc'[u].op = "exec" =>
              CommandStays(pc'[u].cmd, pc'[u].q) /\ pc'[u].cmd.kernel = None
    BY <1>3, <2>1
  <2>3. \A p \in Queues : \A i \in DOMAIN root'[p] : CommandStays(root'[p][i], p)
    BY <1>5, <2>1
  <2>4. QED
    BY <2>2, <2>3 DEF NodesOK, OwnOK, CommandOK, CommandStays
<1>11. Unique'
  <2>1. \A p, r \in Queues : \A i \in DOMAIN root'[p], j \in DOMAIN root'[r] :
          Same(root'[p][i], root'[r][j]) => p = r /\ i = j
    BY <1>5 DEF Control, Unique
  <2>2. \A u \in Threads : pc'[u].op = "exec" =>
          /\ \A p \in Queues : \A i \in DOMAIN root'[p] : ~Same(pc'[u].cmd, root'[p][i])
          /\ \A v \in Threads : pc'[v].op = "exec" /\ Same(pc'[u].cmd, pc'[v].cmd) => u = v
    BY <1>3, <1>5 DEF Control, Unique
  <2>3. QED
    BY <2>1, <2>2 DEF Unique, Same
<1>12. NodeStatus'
  <2>1. \A p \in Queues : \A i \in DOMAIN root[p] : root[p][i].event # None =>
              status'[root[p][i].event] = status[root[p][i].event]
    BY <1>4, StatusKept
  <2> SUFFICES ASSUME NEW p \in Queues, NEW i \in DOMAIN root'[p], root'[p][i].event # None
               PROVE  LET e == root'[p][i].event IN
                      /\ (\A u \in Threads : pc'[u].q = p => pc'[u].i < i) => status'[e] = "queued"
                      /\ \A u \in Threads : pc'[u].q = p =>
                           /\ i < pc'[u].i => status'[e] = "complete"
                           /\ i = pc'[u].i => StatusAt(pc'[u].at, status'[e], Device[p])
    BY DEF NodeStatus, StatusAt
  <2>2. p # q /\ i \in DOMAIN root[p] /\ root'[p][i] = root[p][i]
    BY <1>5
  <2>3. QED
    BY <1>2, <1>3, <2>1, <2>2 DEF Control, NodeStatus
<1>13. OwnStatus'
  <2>1. \A u \in Threads : pc[u].op = "exec" /\ pc[u].cmd.event # None =>
              status'[pc[u].cmd.event] = status[pc[u].cmd.event]
    BY <1>4, StatusKept
  <2> SUFFICES ASSUME NEW u \in Threads, pc'[u].op = "exec", pc'[u].cmd.event # None
               PROVE  LET e == pc'[u].cmd.event IN
                      IF pc'[u].i = 0 THEN StatusAt(pc'[u].at, status'[e], Device[pc'[u].q])
                                      ELSE status'[e] = "queued"
    BY DEF OwnStatus, StatusAt
  <2>2. CASE u = t
    <3>1. status[pc[t].cmd.event] = "queued"
      BY <1>1, <1>3, <2>2 DEF Control, OwnStatus
    <3>2. QED
      BY <1>2, <1>3, <2>1, <2>2, <3>1 DEF StatusAt
  <2>3. CASE u # t
    BY <1>2, <2>1, <2>3 DEF Control, OwnStatus
  <2>4. QED  BY <2>2, <2>3
<1>14. Tracked'
  <2> SUFFICES ASSUME NEW e \in Events, held'[e] > 0
               PROVE  \/ status'[e] = "complete"
                      \/ \E p \in Queues : \E i \in DOMAIN root'[p] : root'[p][i].event = e
                      \/ \E u \in Threads : pc'[u].op = "exec" /\ pc'[u].cmd.event = e
    BY DEF Tracked, InProgress
  <2>1. EventSame(e) /\ e # None
    BY HandlesAssumption DEF Objects
  <2>2. status[e] = "complete" \/ InProgress(e)
    BY <2>1 DEF Control, Tracked, EventSame
  <2>3. ASSUME NEW p \in Queues, NEW i \in DOMAIN root[p], root[p][i].event = e
        PROVE  status[e] = "complete" \/ (i \in DOMAIN root'[p] /\ root'[p][i].event = e)
    BY <1>1, <2>1, <2>3
  <2>4. QED
    BY <1>3, <2>1, <2>2, <2>3 DEF InProgress, EventSame
<1>15. Lengths'
  <2>1. Len(root'[q]) = 0
    BY <1>1
  <2>2. QED
    BY <1>1, <1>4, <2>1 DEF Control, Lengths
<1>16. QED
  BY <1>6, <1>7, <1>8, <1>9, <1>10, <1>11, <1>12, <1>13, <1>14, <1>15 DEF Control

\* A call ends, or goes on with the queue of the next event: the queue it was at
\* work on is empty, and its commands have completed.
Ends(t, d) ==
  /\ pc[t].op # "idle" /\ pc' = [pc EXCEPT ![t] = d]
  /\ root' = [root EXCEPT ![pc[t].q] = <<>>]
  /\ \A i \in DOMAIN root[pc[t].q] :
       root[pc[t].q][i].event # None => status[root[pc[t].q][i].event] = "complete"
  /\ pc[t].op = "exec" /\ pc[t].cmd.event # None => status[pc[t].cmd.event] = "complete"
  /\ \/ d = NoCall
     \/ d.op = "wait" /\ d.cmd = NoCmd /\ d.i = 1 /\ d.at = "node" /\ d.rel = <<>> /\ d.q \in Queues
  /\ \A p \in Queues : (d.q = p \/ \E e \in Range(d.events) : queue'[e] = p) => Uses(t, p)

LEMMA EndControl ==
  ASSUME Control, TypeOK', NEW t \in Threads, NEW d \in Call, Ends(t, d),
         OlderStay, StatusStay, EventsOK', WaitOK(pc[t])',
         \A u \in Threads \ {t} : \A e \in Range(pc[u].events) : EventSame(e),
         \A e \in Events : held'[e] = held[e], count' = count
  PROVE  Control'
<1> DEFINE q == pc[t].q
<1>1. /\ q \in Queues /\ root[q] \in Seq(Node)
      /\ \A u \in Threads : pc[u].q = q => u = t
  BY WorkingFacts DEF Ends
<1>2. /\ pc'[t] = d /\ \A u \in Threads : u # t => pc'[u] = pc[u]
      /\ root'[q] = <<>> /\ \A p \in Queues : p # q => root'[p] = root[p]
  BY <1>1 DEF Control, TypeOK, Ends
<1>3. count' \in Nat /\ count <= count'
  BY DEF Control, TypeOK
<1>4. d.op # "exec"
  BY NoCallType DEF Ends
<1>5. \A p \in Queues : \A i \in DOMAIN root'[p] : p # q /\ i \in DOMAIN root[p] /\ root'[p][i] = root[p][i]
  BY <1>2
<1>6. CallsOK'
  <2> SUFFICES ASSUME NEW u \in Threads PROVE CallOK(pc'[u], root')
    BY DEF CallsOK, CallOK
  <2>1. CASE u = t
    <3>1. d = NoCall => CallOK(d, root')
      BY NoCallType DEF CallOK
    <3>2. d.op = "wait" => CallOK(d, root')
      <4> SUFFICES ASSUME d.op = "wait" PROVE CallOK(d, root')
        OBVIOUS
      <4>1. d.cmd = NoCmd /\ d.i = 1 /\ d.at = "node" /\ d.rel = <<>> /\ d.q \in Queues
        BY NoCallType DEF Ends
      <4>2. Len(root'[d.q]) \in Nat
        BY <4>1 DEF TypeOK
      <4>3. QED
        BY <4>1, <4>2 DEF CallOK
    <3>3. QED
      BY <1>2, <2>1, <3>1, <3>2 DEF Ends
  <2>2. CASE u # t
    <3>1. pc'[u] = pc[u] /\ pc[u].q # q /\ CallOK(pc[u], root)
      BY <1>1, <1>2, <2>2 DEF Control, CallsOK
    <3>2. QED
      BY <1>2, <3>1 DEF CallOK
  <2>3. QED  BY <2>1, <2>2
<1>7. Exclusive'
  <2>1. \A u \in Threads : u # t => \A p \in Queues : Uses(u, p)' <=> Uses(u, p)
    BY <1>2, UsesKept
  <2>2. \A p \in Queues : Uses(t, p)' => Uses(t, p)
    BY <1>2 DEF Ends, Uses
  <2>3. QED
    BY <2>1, <2>2 DEF Control, Exclusive
<1>8. WaitsOK'
  <2> SUFFICES ASSUME NEW u \in Threads PROVE WaitOK(pc[u])'
    BY DEF WaitsOK
  <2>1. CASE u # t
    BY <1>2, <2>1, WaitKept
  <2>2. QED  BY <2>1
<1>9. NodesOK' /\ OwnOK'
  <2>1. /\ \A p \in Queues : \A i \in DOMAIN root[p] : CommandStays(root[p][i], p)
        /\ \A u \in Threads : pc[u].op = "exec" =>
              CommandStays(pc[u].cmd, pc[u].q) /\ pc[u].cmd.kernel = None
    BY <1>3, CommandsKept
  <2>2. \A u \in Threads : pc'[u].op = "exec" =>
              CommandStays(pc'[u].cmd, pc'[u].q) /\ pc'[u].cmd.kernel = None
    BY <1>2, <1>4, <2>1
  <2>3. \A p \in Queues : \A i \in DOMAIN root'[p] : CommandStays(root'[p][i], p)
    BY <1>5, <2>1
  <2>4. QED
    BY <2>2, <2>3 DEF NodesOK, OwnOK, CommandOK, CommandStays
<1>10. Unique'
  <2>1. \A p, r \in Queues : \A i \in DOMAIN root'[p], j \in DOMAIN root'[r] :
          Same(root'[p][i], root'[r][j]) => p = r /\ i = j
    BY <1>5 DEF Control, Unique
  <2>2. \A u \in Threads : pc'[u].op = "exec" =>
          /\ \A p \in Queues : \A i \in DOMAIN root'[p] : ~Same(pc'[u].cmd, root'[p][i])
          /\ \A v \in Threads : pc'[v].op = "exec" /\ Same(pc'[u].cmd, pc'[v].cmd) => u = v
    BY <1>2, <1>4, <1>5 DEF Control, Unique
  <2>3. QED
    BY <2>1, <2>2 DEF Unique, Same
<1>11. NodeStatus'
  <2>1. \A p \in Queues : \A i \in DOMAIN root[p] : root[p][i].event # None =>
              status'[root[p][i].event] = status[root[p][i].event]
    BY StatusKept
  <2> SUFFICES ASSUME NEW p \in Queues, NEW i \in DOMAIN root'[p], root'[p][i].event # None
               PROVE  LET e == root'[p][i].event IN
                      /\ (\A u \in Threads : pc'[u].q = p => pc'[u].i < i) => status'[e] = "queued"
                      /\ \A u \in Threads : pc'[u].q = p =>
                           /\ i < pc'[u].i => status'[e] = "complete"
                           /\ i = pc'[u].i => StatusAt(pc'[u].at, status'[e], Device[p])
    BY DEF NodeStatus, StatusAt
  <2>2. p # q /\ i \in DOMAIN root[p] /\ root'[p][i] = root[p][i] /\ i \in Nat \ {0}
    BY <1>5 DEF Control, TypeOK
  <2>3. status'[root'[p][i].event] = status[root[p][i].event]
    BY <2>1, <2>2
  <2>4. CASE d.q # p
    <3>1. \A u \in Threads : pc'[u].q = p <=> u # t /\ pc[u].q = p
      BY <1>2, <2>4
    <3>2. \A u \in Threads : pc[u].q = p => u # t
      BY <2>2
    <3>3. QED
      BY <1>2, <2>2, <2>3, <3>1, <3>2 DEF Control, NodeStatus
  <2>5. CASE d.q = p
    <3>1. d.i = 1 /\ d.at = "node"
      BY <2>5, NoCallType, HandlesAssumption DEF Ends, Objects
    <3>2. Uses(t, p)
      BY <2>5 DEF Ends
    <3>3. \A u \in Threads : pc[u].q # p
      BY <2>2, <3>2 DEF Control, Exclusive, Uses
    <3>4. status[root[p][i].event] = "queued"
      BY <2>2, <3>3 DEF Control, NodeStatus
    <3>5. \A u \in Threads : pc'[u].q = p => u = t
      BY <1>2, <3>3
    <3>6. QED
      BY <1>2, <2>2, <2>3, <3>1, <3>4, <3>5 DEF StatusAt
  <2>6. QED  BY <2>4, <2>5
<1>12. OwnStatus'
  <2>1. \A u \in Threads : pc[u].op = "exec" /\ pc[u].cmd.event # None =>
              status'[pc[u].cmd.event] = status[pc[u].cmd.event]
    BY StatusKept
  <2> SUFFICES ASSUME NEW u \in Threads, pc'[u].op = "exec", pc'[u].cmd.event # None
               PROVE  LET e == pc'[u].cmd.event IN
                      IF pc'[u].i = 0 THEN StatusAt(pc'[u].at, status'[e], Device[pc'[u].q])
                                      ELSE status'[e] = "queued"
    BY DEF OwnStatus, StatusAt
  <2>2. u # t /\ pc'[u] = pc[u]
    BY <1>2, <1>4
  <2>3. QED
    BY <2>1, <2>2 DEF Control, OwnStatus
<1>13. Tracked'
  <2> SUFFICES ASSUME NEW e \in Events, held[e] > 0
               PROVE  \/ status'[e] = "complete"
                      \/ \E p \in Queues : \E i \in DOMAIN root'[p] : root'[p][i].event = e
                      \/ \E u \in Threads : pc'[u].op = "exec" /\ pc'[u].cmd.event = e
    BY DEF Tracked, InProgress
  <2>1. e # None /\ status'[e] = status[e]
    BY HandlesAssumption DEF Objects, Control, EventsOK, StatusStay
  <2>2. status[e] = "complete" \/ InProgress(e)
    BY DEF Control, Tracked
  <2>3. ASSUME NEW p \in Queues, NEW i \in DOMAIN root[p], root[p][i].event = e
        PROVE  status[e] = "complete" \/ (i \in DOMAIN root'[p] /\ root'[p][i].event = e)
    BY <1>2, <2>1, <2>3 DEF Ends
  <2>4. ASSUME NEW u \in Threads, pc[u].op = "exec", pc[u].cmd.event = e
        PROVE  status[e] = "complete" \/ (pc'[u].op = "exec" /\ pc'[u].cmd.event = e)
    BY <1>2, <2>1, <2>4 DEF Ends
  <2>5. QED
    BY <2>1, <2>2, <2>3, <2>4 DEF InProgress
<1>14. Lengths'
  <2>1. Len(root'[q]) = 0
    BY <1>2
  <2>2. QED
    BY <1>2, <1>3, <2>1 DEF Control, Lengths
<1>15. QED
  BY <1>6, <1>7, <1>8, <1>9, <1>10, <1>11, <1>12, <1>13, <1>14 DEF Control

\* A step that changes no call, no queue and no status.
LEMMA StillControl ==
  ASSUME Control, TypeOK', UNCHANGED <<pc, root, queue, status, count>>,
         OlderStay, EventsOK', WaitsOK', \A e \in Events : held'[e] > 0 => held[e] > 0
  PROVE  Control'
<1>1. CallsOK'
  BY DEF Control, CallsOK, CallOK
<1>2. Exclusive'
  BY DEF Control, Exclusive, Uses
<1>3. count' \in Nat /\ count <= count'
  BY DEF Control, TypeOK
<1>4. NodesOK' /\ OwnOK'
  BY <1>3, CommandsKept DEF NodesOK, OwnOK, CommandOK, CommandStays
<1>5. Unique' /\ Lengths'
  BY DEF Control, Unique, Same, Lengths
<1>6. NodeStatus'
  BY DEF Control, NodeStatus, StatusAt
<1>7. OwnStatus'
  BY DEF Control, OwnStatus, StatusAt
<1>8. Tracked'
  BY DEF Control, Tracked, InProgress
<1>9. QED
  BY <1>1, <1>2, <1>4, <1>5, <1>6, <1>7, <1>8 DEF Control

\* A step that has nothing to do with events either.
LEMMA QuietControl ==
  ASSUME Control, TypeOK', UNCHANGED <<pc, root, queue, status, count>>,
         \A e \in Events : st'[e] = st[e] /\ held'[e] = held[e] /\ rc'[e] = rc[e]
  PROVE  Control'
<1>1. \A e \in Events : EventSame(e)
  BY DEF EventSame
<1>2. OlderStay
  BY DEF OlderStay
<1>3. EventsOK'
  BY DEF Control, EventsOK
<1>4. WaitsOK'
  BY <1>1, WaitKept, EventsMade DEF WaitsOK
<1>5. QED
  BY <1>2, <1>3, <1>4, StillControl
-----------------------------------------------------------------------------
(* Control: the actions.                                                   *)

LEMMA InitControl == Init => Control
<1> SUFFICES ASSUME Init PROVE Control
  OBVIOUS
<1>1. \A t \in Threads : /\ pc[t] = NoCall /\ pc[t].op = "idle" /\ pc[t].events = <<>>
                         /\ pc[t].q = None /\ pc[t].cmd = NoCmd /\ pc[t].rel = <<>> /\ pc[t].at = "none"
  BY NoCallType DEF Init
<1>2. \A q \in Queues : root[q] = <<>> /\ q # None
  BY HandlesAssumption DEF Init, Objects
<1>3. TypeOK
  <2>1. pc \in [Threads -> Call]
    BY NoCallType DEF Init
  <2>2. root \in [Queues -> Seq(Node)]
    BY DEF Init
  <2>3. /\ st \in [Objects -> {"none", "live", "freed"}] /\ rc \in [Objects -> Int]
        /\ held \in [Objects -> Nat]
    BY DEF Init
  <2>4. QED
    BY <2>1, <2>2, <2>3, BoundsAssumption DEF Init, TypeOK, Stats
<1>4. CallsOK /\ WaitsOK
  BY <1>1 DEF CallsOK, CallOK, WaitsOK, WaitOK
<1>5. Exclusive
  <2>1. \A t \in Threads : \A q \in Queues : ~Uses(t, q)
    BY <1>1, <1>2 DEF Uses, Range
  <2>2. QED  BY <2>1 DEF Exclusive
<1>6. EventsOK /\ Tracked
  <2>1. \A e \in Events : st[e] = "none" /\ status[e] = "none" /\ held[e] = 0 /\ rc[e] = 0
    BY HandlesAssumption DEF Init, Objects
  <2>2. QED  BY <2>1 DEF EventsOK, Tracked
<1>7. NodesOK /\ OwnOK /\ Unique /\ NodeStatus /\ OwnStatus
  BY <1>1, <1>2 DEF NodesOK, OwnOK, Unique, NodeStatus, OwnStatus
<1>8. Lengths
  BY <1>2, BoundsAssumption DEF Lengths, Init
<1>9. QED
  BY <1>3, <1>4, <1>5, <1>6, <1>7, <1>8 DEF Control

\* Handles of different kinds.
LEMMA Kinds ==
  /\ Queues \subseteq Objects /\ Bufs \subseteq Objects /\ Kernels \subseteq Objects /\ Events \subseteq Objects
  /\ \A q \in Queues : q \notin Bufs /\ q \notin Kernels /\ q \notin Events /\ q # None
  /\ \A b \in Bufs : b \notin Queues /\ b \notin Kernels /\ b \notin Events /\ b # None
  /\ \A k \in Kernels : k \notin Queues /\ k \notin Bufs /\ k \notin Events /\ k # None
  /\ \A e \in Events : e \notin Queues /\ e \notin Bufs /\ e \notin Kernels /\ e # None
BY HandlesAssumption DEF Objects

\* What a release of a buffer does to the counts.
LEMMA DropMemEffect ==
  ASSUME TypeOK, NEW b \in Bufs, DropMem(b)
  PROVE  /\ rc' \in [Objects -> Int] /\ st' \in [Objects -> {"none", "live", "freed"}]
         /\ maps' \in [Bufs -> Nat]
         /\ \A o \in Objects : o \notin Bufs => rc'[o] = rc[o] /\ st'[o] = st[o]
         /\ rc'[b] = rc[b] - 1
         /\ \A c \in Bufs : c # b =>
              /\ st'[c] = st[c] /\ maps'[c] = maps[c]
              /\ rc'[c] = IF rc[b] = 1 /\ parent[b] = c THEN rc[c] - 1 ELSE rc[c]
         /\ rc[b] = 1 => st'[b] = "freed" /\ maps'[b] = 0
         /\ rc[b] # 1 => st' = st /\ maps' = maps
<1>1. \A o \in Objects : rc'[o] = IF o = b THEN rc[b] - 1
                                  ELSE IF rc[b] = 1 /\ o = parent[b] THEN rc[o] - 1 ELSE rc[o]
  BY DEF DropMem
<1>2. rc' = [o \in Objects |-> rc'[o]] /\ rc \in [Objects -> Int] /\ b \in Objects
  BY Kinds DEF DropMem, TypeOK
<1>3. rc' \in [Objects -> Int]
  BY <1>1, <1>2
<1>4. parent[b] \in Bufs \cup {None}
  BY DEF TypeOK
<1>5. \A o \in Objects : o \notin Bufs => rc'[o] = rc[o] /\ st'[o] = st[o]
  BY <1>1, <1>4, HandlesAssumption DEF DropMem, TypeOK
<1>6. /\ st' \in [Objects -> {"none", "live", "freed"}] /\ maps' \in [Bufs -> Nat]
      /\ rc[b] = 1 => st'[b] = "freed" /\ maps'[b] = 0
      /\ rc[b] # 1 => st' = st /\ maps' = maps
      /\ \A c \in Bufs : c # b => st'[c] = st[c] /\ maps'[c] = maps[c]
  BY <1>2, Kinds DEF DropMem, TypeOK
<1>7. QED
  BY <1>1, <1>2, <1>3, <1>5, <1>6, Kinds

LEMMA CreateBufferControl ==
  ASSUME Control, NEW t \in Threads, NEW b \in Bufs, clCreateBuffer(t, b)
  PROVE  Control'
<1>1. TypeOK'
  BY Kinds, BoundsAssumption DEF Control, TypeOK, clCreateBuffer
<1>2. \A e \in Events : st'[e] = st[e] /\ held'[e] = held[e] /\ rc'[e] = rc[e]
  BY Kinds DEF Control, TypeOK, clCreateBuffer
<1>3. QED
  BY <1>1, <1>2, QuietControl DEF clCreateBuffer

LEMMA CreateSubBufferControl ==
  ASSUME Control, NEW t \in Threads, NEW b \in Bufs, NEW p \in Bufs, clCreateSubBuffer(t, b, p)
  PROVE  Control'
<1>1. TypeOK'
  BY SMTT(60), Kinds, BoundsAssumption DEF Control, TypeOK, clCreateSubBuffer
<1>2. \A e \in Events : st'[e] = st[e] /\ held'[e] = held[e] /\ rc'[e] = rc[e]
  BY Kinds DEF Control, TypeOK, clCreateSubBuffer
<1>3. QED
  BY <1>1, <1>2, QuietControl DEF clCreateSubBuffer

LEMMA ReleaseMemObjectControl ==
  ASSUME Control, NEW t \in Threads, NEW b \in Bufs, clReleaseMemObject(t, b)
  PROVE  Control'
<1>1. TypeOK /\ DropMem(b) /\ held[b] \in Nat /\ held[b] > 0
  BY Kinds DEF Control, TypeOK, clReleaseMemObject, Owns
<1>2. held' \in [Objects -> Nat] /\ \A o \in Objects : o # b => held'[o] = held[o]
  BY <1>1, Kinds DEF TypeOK, clReleaseMemObject
<1>3. TypeOK'
  BY <1>1, <1>2, DropMemEffect DEF TypeOK, clReleaseMemObject
<1>4. \A e \in Events : st'[e] = st[e] /\ held'[e] = held[e] /\ rc'[e] = rc[e]
  BY <1>1, <1>2, Kinds, DropMemEffect
<1>5. QED
  BY <1>3, <1>4, QuietControl DEF clReleaseMemObject

LEMMA SetKernelArgControl ==
  ASSUME Control, NEW t \in Threads, NEW k \in Kernels, NEW b \in Bufs \cup {None},
         clSetKernelArg(t, k, b)
  PROVE  Control'
<1>1. TypeOK'
  BY DEF Control, TypeOK, clSetKernelArg
<1>2. QED
  BY <1>1, QuietControl DEF clSetKernelArg

LEMMA ReleaseKernelControl ==
  ASSUME Control, NEW t \in Threads, NEW k \in Kernels, clReleaseKernel(t, k)
  PROVE  Control'
<1>1. held[k] \in Nat /\ held[k] > 0 /\ TypeOK
  BY Kinds DEF Control, TypeOK, clReleaseKernel, Owns
<1>2. TypeOK'
  BY <1>1, Kinds DEF TypeOK, clReleaseKernel
<1>3. \A e \in Events : st'[e] = st[e] /\ held'[e] = held[e] /\ rc'[e] = rc[e]
  BY <1>1, Kinds DEF TypeOK, clReleaseKernel
<1>4. QED
  BY <1>2, <1>3, QuietControl DEF clReleaseKernel

LEMMA RetainControl ==
  ASSUME Control, NEW t \in Threads, NEW o \in Objects, clRetain(t, o)
  PROVE  Control'
<1>1. TypeOK'
  BY DEF Control, TypeOK, clRetain
<1>2. \A e \in Events : /\ st'[e] = st[e]
                        /\ e # o => held'[e] = held[e] /\ rc'[e] = rc[e]
                        /\ e = o => held'[e] = held[e] + 1 /\ rc'[e] = rc[e] + 1 /\ held[e] = 1
  BY Kinds DEF Control, TypeOK, clRetain
<1>3. OlderStay
  BY <1>2 DEF OlderStay, clRetain
<1>4. EventsOK'
  <2>1. \A e \in Events : rc[e] \in Int /\ held[e] \in Nat
    BY Kinds DEF Control, TypeOK
  <2>2. QED
    BY <1>2, <2>1 DEF Control, EventsOK, clRetain
<1>5. \A e \in Events : (held'[e] > 0 <=> held[e] > 0) /\ (held'[e] = 0 <=> held[e] = 0)
  BY <1>2
<1>6. WaitsOK'
  <2>1. \A u \in Threads : pc[u].events \in Seq(Events)
    BY CallFields DEF Control, TypeOK
  <2>2. QED
    BY <1>2, <1>5, <2>1 DEF Control, WaitsOK, WaitOK, clRetain
<1>7. QED
  BY <1>1, <1>3, <1>4, <1>5, <1>6, StillControl DEF clRetain

LEMMA AppendNodeControl ==
  ASSUME Control, NEW t \in Threads, NEW q \in Queues, NEW type \in Types, NEW bufs \in Seq(Bufs),
         NEW k \in Kernels \cup {None}, NEW ev \in Events \cup {None}, NEW refs \in Seq(Counted),
         Len(bufs) <= 2, type = "map" => Len(bufs) = 1, AppendNode(t, q, type, bufs, k, ev, refs),
         maps' \in [Bufs -> Nat], mapped' \in [Bufs -> Nat]
  PROVE  Control'
<1> DEFINE c == Cmd(type, bufs, k, ev)
<1>1. /\ ~Busy(q) /\ count < MaxCommands /\ (ev # None => st[ev] = "none")
      /\ MakeEvent(q, ev, "queued") /\ rc' = Retained(q, ev, refs)
      /\ root' = [root EXCEPT ![q] = Append(@, c)] /\ count' = count + 1
      /\ UNCHANGED <<parent, lost, karg, pc>>
  BY DEF AppendNode, MayEnqueue
<1>2. count \in Nat /\ root \in [Queues -> Seq(Node)] /\ TypeOK
  BY DEF Control, TypeOK
<1>3. /\ c \in Node /\ c.n = count + 1 /\ c.type = type /\ c.bufs = bufs /\ c.event = ev
  BY <1>2 DEF Cmd, Node
<1> HIDE DEF c
<1>4. EventMade(q, ev, "queued", 1) /\ EventTypes
  BY <1>1, RetainedEvent, MakeEventEffect DEF Stats
<1>5. root' \in [Queues -> Seq(Node)]
  BY <1>1, <1>2, <1>3
<1>6. TypeOK'
  <2>1. parent' = parent /\ lost' = lost /\ karg' = karg /\ pc' = pc /\ count' \in Nat
    BY <1>1, <1>2
  <2>2. QED
    BY <1>2, <1>4, <1>5, <2>1 DEF TypeOK, EventTypes
<1>7. count' <= MaxCommands
  BY <1>1, <1>2, BoundsAssumption
<1>8. QED
  BY <1>1, <1>3, <1>4, <1>6, <1>7, AppendControl

LEMMA ExecuteDirectlyControl ==
  ASSUME Control, NEW t \in Threads, NEW q \in Queues, NEW type \in Types, NEW bufs \in Seq(Bufs),
         NEW ev \in Events \cup {None}, Len(bufs) <= 2, type = "map" => Len(bufs) = 1,
         ExecuteDirectly(t, q, type, bufs, ev), maps' \in [Bufs -> Nat], mapped' \in [Bufs -> Nat]
  PROVE  Control'
<1> DEFINE c == Cmd(type, bufs, None, ev)
           d == Finishing(q, "exec", c, <<>>)
<1>1. /\ Idle(t) /\ ~Busy(q) /\ count < MaxCommands /\ (ev # None => st[ev] = "none")
      /\ MakeEvent(q, ev, "queued") /\ rc' = Retained(q, ev, bufs)
      /\ pc' = [pc EXCEPT ![t] = d] /\ count' = count + 1
      /\ UNCHANGED <<parent, lost, karg, root>>
  BY DEF ExecuteDirectly, MayEnqueue
<1>2. count \in Nat /\ TypeOK
  BY DEF Control, TypeOK
<1>3. /\ c \in Node /\ c.n = count + 1 /\ c.type = type /\ c.bufs = bufs /\ c.event = ev /\ c.kernel = None
  BY <1>2 DEF Cmd, Node
<1> HIDE DEF c
<1>4. /\ d \in Call /\ d.op = "exec" /\ d.q = q /\ d.i = 1 /\ d.at = "node" /\ d.cmd = c
      /\ d.rel = <<>> /\ d.events = <<>>
  <2>1. <<>> \in Seq(Events) /\ q \in Queues \cup {None}
    OBVIOUS
  <2>2. QED
    BY <1>3, <2>1 DEF Finishing, Call
<1> HIDE DEF d
<1>5. bufs \in Seq(Counted)
  BY DEF Counted
<1>6. EventMade(q, ev, "queued", 1) /\ EventTypes
  BY <1>1, <1>5, RetainedEvent, MakeEventEffect DEF Stats
<1>7. pc' \in [Threads -> Call] /\ pc'[t] = d
  BY <1>1, <1>2, <1>4 DEF TypeOK
<1>8. TypeOK'
  <2>1. parent' = parent /\ lost' = lost /\ karg' = karg /\ root' = root /\ count' \in Nat
    BY <1>1, <1>2
  <2>2. QED
    BY <1>2, <1>6, <1>7, <2>1 DEF TypeOK, EventTypes
<1>9. OlderSame /\ OlderStay /\ StatusStay
  BY <1>6, OlderEvents
<1>10. EventsOK'
  BY <1>6, EventsOKKept
<1>11. WaitOK(pc[t])'
  BY <1>4, <1>7 DEF WaitOK
<1>12. \A u \in Threads \ {t} : \A e \in Range(pc[u].events) : EventSame(e)
  BY <1>9, EventsMade DEF OlderSame
<1>13. Begins(t, d)
  <2>1. \A u \in Threads : ~Uses(u, q)
    BY <1>1 DEF Busy, Uses
  <2>2. Range(d.events) = {}
    BY <1>4 DEF Range
  <2>3. CommandStays(c, q)
    BY <1>1, <1>2, <1>3, <1>6 DEF CommandStays, EventMade
  <2>4. \A e \in Events : held'[e] > 0 => held[e] > 0 \/ c.event = e
    BY <1>3, <1>6 DEF EventMade, EventSame
  <2>5. c.event # None => st[c.event] = "none" /\ status'[c.event] = "queued"
    BY <1>1, <1>3, <1>6 DEF EventMade
  <2>6. QED
    BY <1>1, <1>3, <1>4, <2>1, <2>2, <2>3, <2>4, <2>5 DEF Begins, Idle
<1>14. count <= count' /\ count' <= MaxCommands
  BY <1>1, <1>2, BoundsAssumption
<1>15. QED
  BY <1>4, <1>8, <1>9, <1>10, <1>11, <1>12, <1>13, <1>14, BeginControl

LEMMA UnmapControl ==
  ASSUME Control, NEW t \in Threads, NEW q \in Queues, NEW b \in Bufs, NEW ev \in Events \cup {None},
         clEnqueueUnmapMemObject(t, q, b, ev)
  PROVE  Control'
<1> DEFINE kept == Retained(q, ev, <<>>)
<1>1. /\ count < MaxCommands /\ (ev # None => st[ev] = "none")
      /\ MakeEvent(q, ev, "complete") /\ rc' = [kept EXCEPT ![b] = @ - 1]
      /\ count' = count + 1 /\ maps[b] > 0 /\ mapped[b] > 0
      /\ maps' = [maps EXCEPT ![b] = @ - 1] /\ mapped' = [mapped EXCEPT ![b] = @ - 1]
      /\ UNCHANGED <<parent, lost, karg, root, pc>>
  BY DEF clEnqueueUnmapMemObject, MayEnqueue
<1>2. count \in Nat /\ TypeOK
  BY DEF Control, TypeOK
<1>3. /\ kept \in [Objects -> Int]
      /\ \A e \in Events : kept[e] = IF e = ev THEN rc[e] + 1 ELSE rc[e]
  <2>1. <<>> \in Seq(Counted)
    OBVIOUS
  <2>2. QED  BY <2>1, RetainedEvent
<1> HIDE DEF kept
<1>4. /\ rc' \in [Objects -> Int]
      /\ \A e \in Events : rc'[e] = IF e = ev THEN rc[e] + 1 ELSE rc[e]
  BY <1>1, <1>3, Kinds
<1>5. EventMade(q, ev, "complete", 1) /\ EventTypes
  BY <1>1, <1>4, MakeEventEffect DEF Stats
<1>6. maps' \in [Bufs -> Nat] /\ mapped' \in [Bufs -> Nat]
  BY <1>1, <1>2 DEF TypeOK
<1>7. TypeOK'
  <2>1. /\ parent' = parent /\ lost' = lost /\ karg' = karg /\ root' = root /\ pc' = pc
        /\ count' \in Nat
    BY <1>1, <1>2
  <2>2. QED
    BY <1>2, <1>5, <1>6, <2>1 DEF TypeOK, EventTypes
<1>8. count <= count' /\ count' <= MaxCommands
  BY <1>1, <1>2, BoundsAssumption
<1>9. QED
  BY <1>1, <1>5, <1>7, <1>8, EventControl DEF Stats

LEMMA EventNotAllocatedControl ==
  ASSUME Control, NEW t \in Threads, NEW q \in Queues, NEW b \in Bufs, EventNotAllocated(t, q, b)
  PROVE  Control'
<1>1. TypeOK'
  BY SMTT(60), Kinds DEF Control, TypeOK, EventNotAllocated
<1>2. \A e \in Events : EventSame(e)
  BY Kinds DEF Control, TypeOK, EventNotAllocated, EventSame
<1>3. EventMade(q, None, "queued", 0)
  BY <1>2 DEF EventMade
<1>4. count <= count' /\ count' <= MaxCommands
  BY BoundsAssumption DEF EventNotAllocated, MayEnqueue, Control, TypeOK
<1>5. QED
  BY <1>1, <1>3, <1>4, EventControl DEF Stats, EventNotAllocated

LEMMA NodeNotAllocatedControl ==
  ASSUME Control, NEW t \in Threads, NEW q \in Queues, NEW type \in Queued, NEW b \in Bufs,
         NEW ev \in Events \cup {None}, NodeNotAllocated(t, q, type, b, ev)
  PROVE  Control'
<1> DEFINE refs == IF type = "map" THEN <<b>> ELSE <<>>
<1>1. /\ count < MaxCommands /\ (ev # None => st[ev] = "none")
      /\ st' = IF ev = None THEN st ELSE [st EXCEPT ![ev] = "live"]
      /\ queue' = IF ev = None THEN queue ELSE [queue EXCEPT ![ev] = q]
      /\ status' = IF ev = None THEN status ELSE [status EXCEPT ![ev] = "queued"]
      /\ rc' = Retained(q, ev, refs)
      /\ \/ maps' = (IF type = "map" THEN [maps EXCEPT ![b] = @ + 1] ELSE maps) /\ lost' = lost
         \/ lost' = [lost EXCEPT ![b] = @ + 1] /\ maps' = maps
      /\ count' = count + 1
      /\ UNCHANGED <<parent, karg, root, pc, held, mapped>>
  BY DEF NodeNotAllocated, MayEnqueue
<1>2. count \in Nat /\ TypeOK
  BY DEF Control, TypeOK
<1>3. /\ rc' \in [Objects -> Int]
      /\ \A e \in Events : rc'[e] = IF e = ev THEN rc[e] + 1 ELSE rc[e]
  <2>1. refs \in Seq(Counted)
    <3>1. <<b>> \in Seq(Counted) /\ <<>> \in Seq(Counted)
      BY DEF Counted
    <3>2. QED  BY <3>1
  <2>2. rc' = Retained(q, ev, refs)
    BY <1>1
  <2>3. QED  BY ZenonT(60), <1>2, <2>1, <2>2, RetainedEvent
<1>4. /\ maps' \in [Bufs -> Nat] /\ st' \in [Objects -> {"none", "live", "freed"}]
      /\ queue' \in [Events -> Queues \cup {None}] /\ status' \in [Events -> Stats]
      /\ lost' \in [Bufs -> Nat]
  <2>1. maps \in [Bufs -> Nat] /\ lost \in [Bufs -> Nat]
    BY <1>2 DEF TypeOK
  <2>2. [maps EXCEPT ![b] = @ + 1] \in [Bufs -> Nat] /\ [lost EXCEPT ![b] = @ + 1] \in [Bufs -> Nat]
    BY <2>1
  <2>3. maps' \in [Bufs -> Nat] /\ lost' \in [Bufs -> Nat]
    BY <1>1, <2>1, <2>2
  <2>4. st' \in [Objects -> {"none", "live", "freed"}]
        /\ queue' \in [Events -> Queues \cup {None}] /\ status' \in [Events -> Stats]
    BY <1>1, <1>2, Kinds DEF TypeOK, Stats
  <2>5. QED
    BY <2>3, <2>4
<1>5. TypeOK'
  <2>1. /\ parent' = parent /\ karg' = karg /\ root' = root /\ pc' = pc
        /\ held' = held /\ mapped' = mapped /\ count' \in Nat
    BY <1>1, <1>2
  <2>2. QED
    BY <1>2, <1>3, <1>4, <2>1 DEF TypeOK
<1>6. EventMade(q, ev, "queued", 0)
  <2>1. \A e \in Events : e # ev => EventSame(e)
    BY <1>1, <1>2, <1>3, Kinds DEF EventSame, TypeOK
  <2>2. ASSUME ev # None
        PROVE  /\ st[ev] = "none" /\ st'[ev] = "live" /\ held'[ev] = 0 /\ rc'[ev] = 1
               /\ queue'[ev] = q /\ status'[ev] = "queued"
    <3>1. ev \in Events /\ ev \in Objects /\ held[ev] = 0 /\ rc[ev] = 0
      BY <1>1, <2>2, Kinds DEF Control, EventsOK
    <3>2. /\ st' = [st EXCEPT ![ev] = "live"] /\ queue' = [queue EXCEPT ![ev] = q]
          /\ status' = [status EXCEPT ![ev] = "queued"] /\ held' = held
          /\ st[ev] = "none" /\ rc'[ev] = 1
      BY <1>1, <1>3, <2>2, <3>1
    <3>3. QED
      BY <1>2, <3>1, <3>2 DEF TypeOK
  <2>3. QED  BY <2>1, <2>2 DEF EventMade
<1>7. count <= count' /\ count' <= MaxCommands
  BY <1>1, <1>2, BoundsAssumption
<1>8. QED
  BY <1>1, <1>5, <1>6, <1>7, EventControl DEF Stats

\* The lists of buffers, and of references, of the commands.
LEMMA Lists ==
  /\ <<>> \in Seq(Bufs) /\ <<>> \in Seq(Counted) /\ Len(<<>>) <= 2
  /\ \A b \in Bufs : <<b>> \in Seq(Bufs) /\ <<b>> \in Seq(Counted) /\ Len(<<b>>) <= 2 /\ <<b>> # <<>>
  /\ \A b, d \in Bufs : <<b, d>> \in Seq(Bufs) /\ <<b, d>> \in Seq(Counted) /\ Len(<<b, d>>) <= 2
  /\ \A k \in Kernels, q \in Queues : <<>> \o <<k, q>> \in Seq(Counted)
  /\ \A b \in Bufs, k \in Kernels, q \in Queues : <<b>> \o <<k, q>> \in Seq(Counted)
BY DEF Counted

LEMMA EnqueueControl ==
  ASSUME Control, NEW t \in Threads, NEW q \in Queues, NEW ev \in Events \cup {None}, Enqueue(t, q, ev)
  PROVE  Control'
<1>1. /\ None \in Kernels \cup {None} /\ None \in Events \cup {None} /\ TypeOK
      /\ maps \in [Bufs -> Nat] /\ mapped \in [Bufs -> Nat]
  BY DEF Control, TypeOK
<1>2. /\ {"read", "write", "copy", "map", "ndrange", "marker", "fill", "read_rect",
          "write_rect", "copy_rect"} \subseteq Types
      /\ \A type \in {"read", "write", "copy", "ndrange", "marker", "fill", "read_rect",
                      "write_rect", "copy_rect"} : type # "map"
  BY DEF Types, Queued, Direct
<1>3. CASE clEnqueueMarker(t, q, ev)
  <2>1. AppendNode(t, q, "marker", <<>>, None, ev, <<>>) /\ UNCHANGED <<maps, mapped>>
    BY <1>3 DEF clEnqueueMarker
  <2>2. QED
    BY <1>1, <1>2, <2>1, Lists, AppendNodeControl
<1>4. ASSUME NEW k \in Kernels, clEnqueueNDRangeKernel(t, q, k, ev) PROVE Control'
  <2> DEFINE bufs == IF karg[k] = None THEN <<>> ELSE <<karg[k]>>
  <2>1. karg[k] \in Bufs \cup {None}
    BY DEF Control, TypeOK
  <2>2. bufs \in Seq(Bufs) /\ Len(bufs) <= 2 /\ bufs \o <<k, q>> \in Seq(Counted)
    BY <2>1, Lists
  <2>3. AppendNode(t, q, "ndrange", bufs, k, ev, bufs \o <<k, q>>) /\ UNCHANGED <<maps, mapped>>
    BY <1>4 DEF clEnqueueNDRangeKernel
  <2> HIDE DEF bufs
  <2>4. k \in Kernels \cup {None}
    OBVIOUS
  <2>5. QED
    BY <1>1, <1>2, <2>2, <2>3, <2>4, AppendNodeControl
<1>5. ASSUME NEW b \in Bufs, \/ clEnqueueReadBuffer(t, q, b, ev) \/ clEnqueueWriteBuffer(t, q, b, ev)
      PROVE  Control'
  <2>1. PICK type \in {"read", "write"} :
          /\ \/ AppendNode(t, q, type, <<b>>, None, ev, <<b>>)
             \/ ExecuteDirectly(t, q, type, <<b>>, ev)
          /\ UNCHANGED <<maps, mapped>>
    BY <1>5 DEF clEnqueueReadBuffer, clEnqueueWriteBuffer
  <2>2. type \in Types /\ type # "map"
    BY <1>2
  <2>3. CASE AppendNode(t, q, type, <<b>>, None, ev, <<b>>)
    BY <1>1, <2>1, <2>2, <2>3, Lists, AppendNodeControl
  <2>4. CASE ExecuteDirectly(t, q, type, <<b>>, ev)
    BY <1>1, <2>1, <2>2, <2>4, Lists, ExecuteDirectlyControl
  <2>5. QED  BY <2>1, <2>3, <2>4
<1>6. ASSUME NEW b \in Bufs, \/ clEnqueueFillBuffer(t, q, b, ev) \/ clEnqueueReadBufferRect(t, q, b, ev)
                             \/ ev = None /\ clEnqueueWriteBufferRect(t, q, b)
      PROVE  Control'
  <2>1. PICK type \in {"fill", "read_rect", "write_rect"} :
          ExecuteDirectly(t, q, type, <<b>>, ev) /\ UNCHANGED <<maps, mapped>>
    BY <1>6 DEF clEnqueueFillBuffer, clEnqueueReadBufferRect, clEnqueueWriteBufferRect
  <2>2. type \in Types /\ type # "map"
    BY <1>2
  <2>3. QED
    BY <1>1, <2>1, <2>2, Lists, ExecuteDirectlyControl
<1>7. ASSUME NEW b \in Bufs, clEnqueueMapBuffer(t, q, b, ev) PROVE Control'
  <2>1. maps' \in [Bufs -> Nat]
    BY <1>1, <1>7 DEF clEnqueueMapBuffer
  <2>2. CASE AppendNode(t, q, "map", <<b>>, None, ev, <<b>>) /\ mapped' = [mapped EXCEPT ![b] = @ + 1]
    <3>1. mapped' \in [Bufs -> Nat]
      BY <1>1, <2>2
    <3>2. QED
      BY <1>1, <1>2, <2>1, <2>2, <3>1, Lists, AppendNodeControl
  <2>3. CASE ExecuteDirectly(t, q, "map", <<b>>, ev) /\ UNCHANGED mapped
    BY <1>1, <1>2, <2>1, <2>3, Lists, ExecuteDirectlyControl
  <2>4. QED  BY <1>7, <2>2, <2>3 DEF clEnqueueMapBuffer
<1>8. ASSUME NEW b \in Bufs, NEW dst \in Bufs, clEnqueueCopyBuffer(t, q, b, dst, ev) PROVE Control'
  <2>1. AppendNode(t, q, "copy", <<b, dst>>, None, ev, <<b, dst>>) /\ UNCHANGED <<maps, mapped>>
    BY <1>8 DEF clEnqueueCopyBuffer
  <2>2. QED
    BY <1>1, <1>2, <2>1, Lists, AppendNodeControl
<1>9. ASSUME NEW b \in Bufs, NEW dst \in Bufs, clEnqueueCopyBufferRect(t, q, b, dst, ev) PROVE Control'
  <2>1. ExecuteDirectly(t, q, "copy_rect", <<b, dst>>, ev) /\ UNCHANGED <<maps, mapped>>
    BY <1>9 DEF clEnqueueCopyBufferRect
  <2>2. QED
    BY <1>1, <1>2, <2>1, Lists, ExecuteDirectlyControl
<1>10. QED
  BY <1>3, <1>4, <1>5, <1>6, <1>7, <1>8, <1>9, UnmapControl, EventNotAllocatedControl,
     NodeNotAllocatedControl DEF Enqueue

\* A call that begins with clFinish: the queue is not in use, and no event changes
\* but those of the call.
LEMMA EnterControl ==
  ASSUME Control, TypeOK', NEW t \in Threads, NEW q \in Queues,
         NEW op \in {"return", "release_queue", "release_event", "wait"}, NEW events \in Seq(Events),
         Enter(t, q, op, events), \A e \in Range(events) : queue[e] \in Queues /\ ~Busy(queue[e]),
         op \notin {"release_event", "wait"} => events = <<>>,
         UNCHANGED <<st, queue, status, root, count>>,
         \A e \in Events : e \notin Range(events) => EventSame(e),
         \A e \in Events : held'[e] > 0 => held[e] > 0, EventsOK', WaitOK(Finishing(q, op, NoCmd, events))'
  PROVE  Control'
<1> DEFINE d == Finishing(q, op, NoCmd, events)
<1>1. /\ d \in Call /\ d.op = op /\ d.q = q /\ d.i = 1 /\ d.at = "node" /\ d.cmd = NoCmd
      /\ d.rel = <<>> /\ d.events = events
  BY NoCallType DEF Finishing, Call
<1>2. /\ pc[t].op = "idle" /\ ~Busy(q) /\ pc' = [pc EXCEPT ![t] = d] /\ pc \in [Threads -> Call]
      /\ WaitOK(d)'
  BY DEF Enter, Idle, Control, TypeOK
<1> HIDE DEF d
<1>3. \A p \in Queues : ~Busy(p) => \A u \in Threads : ~Uses(u, p)
  BY DEF Busy, Uses
<1>4. OlderStay /\ StatusStay
  BY DEF OlderStay, StatusStay
<1>5. Begins(t, d)
  <2>1. \A e \in Range(events) : \A u \in Threads : ~Uses(u, queue'[e])
    BY <1>3
  <2>2. QED
    BY <1>1, <1>2, <1>3, <2>1 DEF Begins
<1>6. \A u \in Threads \ {t} : \A e \in Range(pc[u].events) : EventSame(e)
  <2> SUFFICES ASSUME NEW u \in Threads \ {t}, NEW e \in Range(pc[u].events) PROVE e \notin Range(events)
    BY EventsMade
  <2>1. Uses(u, queue[e])
    BY DEF Uses
  <2>2. QED
    BY <1>3, <2>1
<1>7. pc'[t] = d /\ WaitOK(pc[t])'
  BY <1>2
<1>8. count <= count' /\ count' <= MaxCommands
  BY DEF Control, TypeOK, Lengths
<1>9. QED
  BY <1>1, <1>4, <1>5, <1>6, <1>7, <1>8, BeginControl

LEMMA FinishControl ==
  ASSUME Control, NEW t \in Threads, NEW q \in Queues, clFinish(t, q)
  PROVE  Control'
<1> DEFINE d == Finishing(q, "return", NoCmd, <<>>)
<1>1. d \in Call /\ d.op = "return"
  BY NoCallType DEF Finishing, Call
<1>2. /\ Enter(t, q, "return", <<>>) /\ pc' = [pc EXCEPT ![t] = d]
      /\ UNCHANGED <<st, rc, parent, lost, maps, karg, queue, status, root, held, mapped, count>>
  BY DEF clFinish, Enter
<1> HIDE DEF d
<1>3. TypeOK'
  BY <1>1, <1>2 DEF Control, TypeOK
<1>4. <<>> \in Seq(Events) /\ Range(<<>>) = {}
  BY DEF Range
<1>5. \A e \in Events : EventSame(e)
  BY <1>2 DEF EventSame
<1>6. EventsOK'
  BY <1>2 DEF Control, EventsOK
<1>7. WaitOK(Finishing(q, "return", NoCmd, <<>>))'
  BY <1>1 DEF WaitOK, d
<1>8. QED
  BY <1>2, <1>3, <1>4, <1>5, <1>6, <1>7, EnterControl

LEMMA ReleaseCommandQueueControl ==
  ASSUME Control, NEW t \in Threads, NEW q \in Queues, clReleaseCommandQueue(t, q)
  PROVE  Control'
<1> DEFINE d == Finishing(q, "release_queue", NoCmd, <<>>)
<1>1. d \in Call /\ d.op = "release_queue"
  BY NoCallType DEF Finishing, Call
<1>2. /\ Enter(t, q, "release_queue", <<>>) /\ pc' = [pc EXCEPT ![t] = d] /\ held[q] > 0
      /\ held' = [held EXCEPT ![q] = @ - 1]
      /\ UNCHANGED <<st, rc, parent, lost, maps, karg, queue, status, root, mapped, count>>
  BY DEF clReleaseCommandQueue, Enter, Owns
<1> HIDE DEF d
<1>3. held' \in [Objects -> Nat] /\ \A e \in Events : held'[e] = held[e]
  BY <1>2, Kinds DEF Control, TypeOK
<1>4. TypeOK'
  BY <1>1, <1>2, <1>3 DEF Control, TypeOK
<1>5. <<>> \in Seq(Events) /\ Range(<<>>) = {}
  BY DEF Range
<1>6. \A e \in Events : EventSame(e)
  BY <1>2, <1>3 DEF EventSame
<1>7. EventsOK'
  BY <1>2, <1>3 DEF Control, EventsOK
<1>8. WaitOK(Finishing(q, "release_queue", NoCmd, <<>>))'
  BY <1>1 DEF WaitOK, d
<1>9. QED
  BY <1>2, <1>3, <1>4, <1>5, <1>6, <1>7, <1>8, EnterControl

LEMMA WaitForEventsControl ==
  ASSUME Control, NEW t \in Threads, NEW events \in Seq(Events), events # <<>>,
         \A j, k \in DOMAIN events : events[j] = events[k] => j = k, clWaitForEvents(t, events)
  PROVE  Control'
<1>1. \A j \in DOMAIN events : /\ events[j] \in Events /\ held[events[j]] > 0
                               /\ queue[events[j]] \in Queues /\ ~Busy(queue[events[j]])
  BY DEF clWaitForEvents, Owns, Control, EventsOK
<1>2. PICK q \in Queues : q = queue[events[1]]
  BY <1>1
<1> DEFINE d == Finishing(q, "wait", NoCmd, events)
<1>3. /\ Enter(t, q, "wait", events) /\ pc' = [pc EXCEPT ![t] = d]
      /\ UNCHANGED <<st, rc, parent, lost, maps, karg, queue, status, root, held, mapped, count>>
  BY <1>2 DEF clWaitForEvents, Enter
<1>4. d \in Call /\ d.op = "wait" /\ d.events = events /\ d.q = q
  BY <1>2, NoCallType DEF Finishing, Call
<1>5. WaitOK(d)'
  BY <1>1, <1>2, <1>3, <1>4 DEF WaitOK
<1> HIDE DEF d
<1>6. TypeOK'
  BY <1>3, <1>4 DEF Control, TypeOK
<1>7. \A e \in Range(events) : queue[e] \in Queues /\ ~Busy(queue[e])
  BY <1>1 DEF Range
<1>8. \A e \in Events : EventSame(e)
  BY <1>3 DEF EventSame
<1>9. EventsOK'
  BY <1>3 DEF Control, EventsOK
<1>10. WaitOK(Finishing(q, "wait", NoCmd, events))'
  BY <1>5 DEF d
<1>11. QED
  BY <1>3, <1>6, <1>7, <1>8, <1>9, <1>10, EnterControl

LEMMA ReleaseEventControl ==
  ASSUME Control, NEW t \in Threads, NEW e \in Events, clReleaseEvent(t, e)
  PROVE  Control'
<1>1. /\ Idle(t) /\ held[e] > 0 /\ ~InCall(e) /\ rc' = [rc EXCEPT ![e] = @ - 1]
      /\ held' = [held EXCEPT ![e] = @ - 1]
      /\ UNCHANGED <<parent, lost, maps, karg, queue, status, root, mapped, count>>
  BY DEF clReleaseEvent, Owns
<1>2. /\ TypeOK /\ st[e] = "live" /\ rc[e] = held[e] /\ queue[e] \in Queues /\ held[e] \in Nat
      /\ e \in Objects
  BY <1>1, Kinds DEF Control, TypeOK, EventsOK
<1>3. /\ rc' \in [Objects -> Int] /\ held' \in [Objects -> Nat]
      /\ rc'[e] = rc[e] - 1 /\ held'[e] = held[e] - 1
      /\ \A o \in Objects : o # e => rc'[o] = rc[o] /\ held'[o] = held[o]
  BY <1>1, <1>2 DEF TypeOK
<1>4. \A u \in Threads : e \notin Range(pc[u].events)
  BY <1>1 DEF InCall
<1>5. \A f \in Events : held'[f] > 0 => held[f] > 0
  BY <1>2, <1>3, Kinds
<1>6. ASSUME st' \in [Objects -> {"none", "live", "freed"}],
             \A o \in Objects : o # e => st'[o] = st[o], st'[e] # "none", rc[e] # 1 => st'[e] = "live"
      PROVE  EventsOK' /\ \A f \in Events : f # e => EventSame(f)
  <2>1. \A f \in Events : f # e => EventSame(f)
    BY <1>1, <1>3, <1>6, Kinds DEF EventSame
  <2>2. \A f \in Events : rc[f] \in Int /\ held[f] \in Nat
    BY <1>2, Kinds DEF TypeOK
  <2>3. QED
    BY <1>1, <1>2, <1>3, <1>6, <2>1, <2>2 DEF EventsOK, EventSame, Control
<1>7. CASE ~(rc[e] = 1 /\ ~IsGPU(queue[e]))
  <2>1. /\ pc' = pc /\ st' \in [Objects -> {"none", "live", "freed"}]
        /\ \A o \in Objects : o # e => st'[o] = st[o]
        /\ st'[e] # "none" /\ (rc[e] # 1 => st'[e] = "live")
    BY <1>2, <1>7 DEF clReleaseEvent, TypeOK
  <2>2. TypeOK'
    BY <1>1, <1>2, <1>3, <2>1 DEF TypeOK
  <2>3. EventsOK' /\ \A f \in Events : f # e => EventSame(f)
    BY <1>6, <2>1
  <2>4. OlderStay
    BY <1>1, <2>1, <2>3 DEF OlderStay, EventSame
  <2>5. WaitsOK'
    BY <1>4, <2>1, <2>3, WaitKept, EventsMade DEF WaitsOK
  <2>6. QED
    BY <1>1, <1>5, <2>1, <2>2, <2>3, <2>4, <2>5, StillControl
<1>8. CASE rc[e] = 1 /\ ~IsGPU(queue[e])
  <2>0. PICK q \in Queues : q = queue[e]
    BY <1>2
  <2> DEFINE d == Finishing(q, "release_event", NoCmd, <<e>>)
  <2>1. st' = st /\ Enter(t, q, "release_event", <<e>>) /\ pc' = [pc EXCEPT ![t] = d] /\ ~Busy(q)
    BY <1>8, <2>0 DEF clReleaseEvent, Enter
  <2>2. <<e>> \in Seq(Events) /\ Range(<<e>>) = {e}
    BY DEF Range
  <2>3. d \in Call /\ d.op = "release_event" /\ d.events = <<e>> /\ d.q = q
    BY <1>2, NoCallType DEF Finishing, Call
  <2>4. EventsOK' /\ \A f \in Events : f # e => EventSame(f)
    BY <1>2, <1>6, <2>1 DEF TypeOK
  <2>5. WaitOK(d)'
    BY <1>1, <1>2, <1>3, <1>8, <2>1, <2>3, <2>0 DEF WaitOK
  <2> HIDE DEF d
  <2>6. TypeOK'
    BY <1>1, <1>2, <1>3, <2>1, <2>3 DEF TypeOK
  <2>7. WaitOK(Finishing(q, "release_event", NoCmd, <<e>>))'
    BY <2>5 DEF d
  <2>8. QED
    BY <1>1, <1>5, <2>1, <2>2, <2>4, <2>6, <2>7, <2>0, EnterControl
<1>9. QED  BY <1>7, <1>8

\* A thread that is at some place in a call.
LEMMA PlaceFacts ==
  ASSUME Control, NEW t \in Threads, pc[t].at # "none"
  PROVE  /\ TypeOK /\ pc[t].op # "idle" /\ pc[t] \in Call /\ pc[t].q \in Queues /\ pc[t].i \in Nat
         /\ root[pc[t].q] \in Seq(Node) /\ CallOK(pc[t], root)
         /\ pc[t].at # "node" \/ pc[t].i <= Len(root[pc[t].q]) => Executing(t)
<1>1. pc[t] \in Call /\ CallOK(pc[t], root) /\ TypeOK
  BY DEF Control, CallsOK, TypeOK
<1>2. pc[t].op # "idle"
  BY <1>1, NoCallType DEF CallOK
<1>3. QED
  BY <1>1, <1>2, WorkingFacts DEF CallOK, Executing

LEMMA StepGoesOn ==
  ASSUME Control, NEW t \in Threads, pc[t].at # "none", NEW d \in Call, pc' = [pc EXCEPT ![t] = d],
         SameCall(pc[t], d), d.at # "none", d.i = 0 => pc[t].i = 0,
         d.at # "release" => d.rel = <<>>, Len(d.rel) <= 2, UNCHANGED <<root, queue, count>>,
         d.i <= Len(root[pc[t].q]) + 1, d.at # "node" => d.i <= Len(root[pc[t].q]),
         \A e \in Events : st'[e] = st[e] /\ held'[e] = held[e] /\ rc'[e] = rc[e]
  PROVE  GoesOn(t, d)
<1>1. pc[t].op # "idle" /\ CallOK(pc[t], root) /\ d.q = pc[t].q /\ d.op = pc[t].op
  BY PlaceFacts DEF SameCall
<1>2. CallOK(d, root)
  BY <1>1 DEF CallOK, SameCall
<1>3. QED
  BY <1>1, <1>2 DEF GoesOn

\* The step sets the status of the command's event and moves to another place.
LEMMA PlaceControl ==
  ASSUME Control, NEW t \in Threads, Executing(t), pc[t].at # "none", NEW a \in Places \ {"none", "node"},
         Goto(t, a), a # "release", pc[t].at # "release", NEW s \in Stats, SetStatus(Current(t).event, s),
         Current(t).event # None => StatusAt(a, s, Device[pc[t].q]),
         UNCHANGED <<st, rc, parent, lost, maps, karg, queue, root, held, mapped, count>>
  PROVE  Control'
<1> DEFINE d == [pc[t] EXCEPT !.at = a]
<1>1. /\ pc \in [Threads -> Call] /\ pc[t] \in Call /\ pc[t].i \in Nat /\ pc[t].q \in Queues
      /\ root[pc[t].q] \in Seq(Node) /\ pc[t].i <= Len(root[pc[t].q]) /\ CallOK(pc[t], root) /\ TypeOK
  BY PlaceFacts DEF Control, TypeOK, Executing
<1>2. pc' = [pc EXCEPT ![t] = d]
  BY <1>1, NestedUpdate DEF Goto
<1>3. d \in Call /\ d.at = a /\ d.i = pc[t].i /\ d.rel = pc[t].rel /\ SameCall(pc[t], d)
  <2>1. d = [pc[t] EXCEPT !.at = a]
    OBVIOUS
  <2> HIDE DEF d
  <2>2. QED  BY <1>1, <2>1, AtUpdate
<1> HIDE DEF d
<1>4. d.rel = <<>> /\ Len(d.rel) <= 2
  BY <1>1, <1>3 DEF CallOK
<1>5. GoesOn(t, d)
  <2>1. d.i <= Len(root[pc[t].q]) + 1 /\ d.i <= Len(root[pc[t].q]) /\ d.at # "none"
    BY <1>1, <1>3
  <2>2. \A e \in Events : st'[e] = st[e] /\ held'[e] = held[e] /\ rc'[e] = rc[e]
    OBVIOUS
  <2>3. QED
    BY <1>2, <1>3, <1>4, <2>1, <2>2, StepGoesOn
<1>6. Current(t).event \in Events \cup {None}
  BY CurrentFacts
<1>7. status' \in [Events -> Stats]
  BY <1>1, <1>6 DEF TypeOK, SetStatus
<1>8. TypeOK'
  BY <1>1, <1>2, <1>3, <1>7 DEF TypeOK
<1>9. QED
  BY <1>3, <1>5, <1>8, ExecuteControl

\* To set the status an event has already is to change nothing.
LEMMA SameStatus ==
  ASSUME TypeOK, NEW ev \in Events \cup {None}, NEW s, ev # None => status[ev] = s, status' = status
  PROVE  SetStatus(ev, s)
BY DEF SetStatus, TypeOK

LEMMA StartCommandControl ==
  ASSUME Control, NEW t \in Threads, StartCommand(t)
  PROVE  Control'
<1>1. AtCommand(t) /\ pc[t].at = "node"
  BY DEF StartCommand, AtCommand
<1>2. Executing(t) /\ TypeOK
  BY <1>1, PlaceFacts DEF AtCommand
<1>3. Current(t).event \in Events \cup {None} /\ (Current(t).event # None => status[Current(t).event] = "queued")
  BY <1>1, <1>2, CurrentFacts DEF StatusAt
<1>4. UNCHANGED <<st, rc, parent, lost, maps, karg, queue, root, held, mapped, count>>
  BY DEF StartCommand
<1>5. CASE Goto(t, "assert") /\ UNCHANGED status
  <2>1. SetStatus(Current(t).event, "queued")
    BY <1>2, <1>3, <1>5, SameStatus
  <2>2. "queued" \in Stats /\ "assert" \in Places \ {"none", "node"}
        /\ StatusAt("assert", "queued", Device[pc[t].q])
    BY DEF Stats, Places, StatusAt
  <2>3. QED
    BY <1>1, <1>2, <1>4, <1>5, <2>1, <2>2, PlaceControl
<1>6. CASE Goto(t, "device") /\ SetStatus(Current(t).event, "running")
  <2>1. "running" \in Stats /\ "device" \in Places \ {"none", "node"}
        /\ StatusAt("device", "running", Device[pc[t].q])
    BY DEF Stats, Places, StatusAt
  <2>2. QED
    BY <1>1, <1>2, <1>4, <1>6, <2>1, PlaceControl
<1>7. QED  BY <1>5, <1>6 DEF StartCommand

LEMMA DeviceDoneControl ==
  ASSUME Control, NEW t \in Threads, DeviceDone(t)
  PROVE  Control'
<1>1. pc[t].at = "device" /\ Goto(t, "assert")
  BY DEF DeviceDone
<1>2. Executing(t) /\ TypeOK
  BY <1>1, PlaceFacts
<1>3. Current(t).event \in Events \cup {None} /\ (Current(t).event # None => status[Current(t).event] = "running")
  BY <1>1, <1>2, CurrentFacts DEF StatusAt
<1>4. /\ UNCHANGED <<st, rc, parent, lost, maps, karg, queue, root, held, mapped, count>>
      /\ "assert" \in Places \ {"none", "node"} /\ "running" \in Stats /\ "complete" \in Stats
  BY DEF DeviceDone, Places, Stats
<1>5. CASE UNCHANGED status
  <2>1. SetStatus(Current(t).event, "running") /\ StatusAt("assert", "running", Device[pc[t].q])
    BY <1>2, <1>3, <1>5, SameStatus DEF StatusAt
  <2>2. QED
    BY <1>1, <1>2, <1>4, <2>1, PlaceControl
<1>6. CASE Device[pc[t].q] = "pthread" /\ SetStatus(Current(t).event, "complete")
  <2>1. StatusAt("assert", "complete", Device[pc[t].q])
    BY <1>6 DEF StatusAt
  <2>2. QED
    BY <1>1, <1>2, <1>4, <1>6, <2>1, PlaceControl
<1>7. QED  BY <1>5, <1>6 DEF DeviceDone

LEMMA AssertRunningControl ==
  ASSUME Control, NEW t \in Threads, AssertRunning(t)
  PROVE  Control'
<1>1. /\ pc[t].at = "assert" /\ Goto(t, "complete") /\ SetStatus(Current(t).event, "running")
      /\ UNCHANGED <<st, rc, parent, lost, maps, karg, queue, root, held, mapped, count>>
  BY DEF AssertRunning
<1>2. Executing(t)
  BY <1>1, PlaceFacts
<1>3. /\ "complete" \in Places \ {"none", "node"} /\ "running" \in Stats
      /\ StatusAt("complete", "running", Device[pc[t].q])
  BY DEF Places, Stats, StatusAt
<1>4. QED
  BY <1>1, <1>2, <1>3, PlaceControl

\* The buffers a command gives back.
LEMMA ReleasedBuffers ==
  ASSUME NEW c \in Node, NEW q, CommandOK(c, q)
  PROVE  Released(c) \in Seq(Bufs) /\ Len(Released(c)) <= 2
<1>1. c.bufs \in Seq(Bufs) /\ Len(c.bufs) <= 2
  BY NodeFields DEF CommandOK
<1>2. QED
  BY <1>1, Lists DEF Released

LEMMA MarkCompleteControl ==
  ASSUME Control, NEW t \in Threads, MarkComplete(t)
  PROVE  Control'
<1> DEFINE c == [pc[t] EXCEPT !.at = "release"]
           r == Released(Current(t))
           d == [c EXCEPT !.rel = r]
<1>1. /\ pc[t].at = "complete" /\ SetStatus(Current(t).event, "complete")
      /\ pc' = [pc EXCEPT ![t].at = "release", ![t].rel = r]
      /\ UNCHANGED <<st, rc, parent, lost, maps, karg, queue, root, held, mapped, count>>
  BY DEF MarkComplete
<1>2. /\ Executing(t) /\ TypeOK /\ pc \in [Threads -> Call] /\ pc[t] \in Call /\ pc[t].i \in Nat
      /\ pc[t].q \in Queues /\ root[pc[t].q] \in Seq(Node) /\ pc[t].i <= Len(root[pc[t].q])
  BY <1>1, PlaceFacts DEF Executing, TypeOK
<1>3. /\ r \in Seq(Bufs) /\ Len(r) <= 2
  BY <1>2, CurrentFacts, ReleasedBuffers
<1>4. pc' = [pc EXCEPT ![t] = d]
  BY <1>1, <1>2, NestedUpdate
<1>5. "release" \in Places /\ "complete" \in Stats
  BY DEF Places, Stats
<1>6. c \in Call /\ c.at = "release" /\ c.i = pc[t].i /\ SameCall(pc[t], c)
  <2>1. c = [pc[t] EXCEPT !.at = "release"]
    OBVIOUS
  <2> HIDE DEF c
  <2>2. QED  BY <1>2, <1>5, <2>1, AtUpdate
<1> HIDE DEF c, r
<1>7. d \in Call /\ d.at = "release" /\ d.i = pc[t].i /\ d.rel = r /\ SameCall(c, d)
  <2>1. d = [c EXCEPT !.rel = r]
    OBVIOUS
  <2> HIDE DEF d
  <2>2. QED  BY <1>3, <1>6, <2>1, RelUpdate
<1> HIDE DEF d
<1>8. SameCall(pc[t], d)
  BY <1>6, <1>7 DEF SameCall
<1>9. GoesOn(t, d)
  <2>1. /\ d.i <= Len(root[pc[t].q]) + 1 /\ d.i <= Len(root[pc[t].q]) /\ pc[t].at # "none"
        /\ d.at # "none" /\ d.at # "node" /\ Len(d.rel) <= 2
    BY <1>1, <1>2, <1>3, <1>7
  <2>2. \A e \in Events : st'[e] = st[e] /\ held'[e] = held[e] /\ rc'[e] = rc[e]
    BY <1>1
  <2>3. QED
    BY <1>1, <1>4, <1>7, <1>8, <2>1, <2>2, StepGoesOn
<1>10. Current(t).event \in Events \cup {None}
  BY <1>2, CurrentFacts
<1>11. status' \in [Events -> Stats]
  BY <1>1, <1>2, <1>5, <1>10 DEF TypeOK, SetStatus
<1>12. TypeOK'
  BY <1>1, <1>2, <1>4, <1>7, <1>11 DEF TypeOK
<1>13. StatusAt(d.at, "complete", Device[pc[t].q])
  BY <1>7 DEF StatusAt
<1>14. QED
  BY <1>1, <1>2, <1>5, <1>7, <1>9, <1>12, <1>13, ExecuteControl

LEMMA TailOf ==
  ASSUME NEW S, NEW s \in Seq(S), s # <<>>
  PROVE  /\ Head(s) \in S /\ Tail(s) \in Seq(S) /\ Len(Tail(s)) = Len(s) - 1 /\ Head(s) = s[1]
         /\ 1 \in DOMAIN s /\ \A i \in DOMAIN Tail(s) : i + 1 \in DOMAIN s /\ Tail(s)[i] = s[i + 1]
OBVIOUS

LEMMA ReleaseBufferControl ==
  ASSUME Control, NEW t \in Threads, ReleaseBuffer(t)
  PROVE  Control'
<1> DEFINE r == Tail(pc[t].rel)
           d == [pc[t] EXCEPT !.rel = r]
<1>1. /\ pc[t].at = "release" /\ pc[t].rel # <<>> /\ DropMem(Head(pc[t].rel))
      /\ pc' = [pc EXCEPT ![t].rel = r]
      /\ UNCHANGED <<parent, lost, karg, queue, status, root, held, mapped, count>>
  BY DEF ReleaseBuffer
<1>2. /\ Executing(t) /\ TypeOK /\ pc \in [Threads -> Call] /\ pc[t] \in Call /\ pc[t].i \in Nat
      /\ pc[t].q \in Queues /\ root[pc[t].q] \in Seq(Node) /\ pc[t].i <= Len(root[pc[t].q])
      /\ pc[t].rel \in Seq(Bufs) /\ Len(pc[t].rel) <= 2
  BY <1>1, PlaceFacts, CallFields DEF Executing, TypeOK, CallOK
<1>3. Head(pc[t].rel) \in Bufs /\ r \in Seq(Bufs) /\ Len(r) <= 2
  BY <1>1, <1>2, TailOf
<1>4. pc' = [pc EXCEPT ![t] = d]
  BY <1>1, <1>2, NestedUpdate
<1> HIDE DEF r
<1>5. d \in Call /\ d.at = "release" /\ d.i = pc[t].i /\ d.rel = r /\ SameCall(pc[t], d)
  <2>1. d = [pc[t] EXCEPT !.rel = r]
    OBVIOUS
  <2> HIDE DEF d
  <2>2. QED  BY <1>1, <1>2, <1>3, <2>1, RelUpdate
<1> HIDE DEF d
<1>6. /\ rc' \in [Objects -> Int] /\ st' \in [Objects -> {"none", "live", "freed"}]
      /\ maps' \in [Bufs -> Nat] /\ \A e \in Events : st'[e] = st[e] /\ rc'[e] = rc[e]
  BY <1>1, <1>2, <1>3, Kinds, DropMemEffect
<1>7. GoesOn(t, d)
  <2>1. /\ d.i <= Len(root[pc[t].q]) + 1 /\ d.i <= Len(root[pc[t].q]) /\ pc[t].at # "none"
        /\ d.at # "none" /\ d.at # "node" /\ Len(d.rel) <= 2
    BY <1>1, <1>2, <1>3, <1>5
  <2>2. \A e \in Events : st'[e] = st[e] /\ held'[e] = held[e] /\ rc'[e] = rc[e]
    BY <1>1, <1>6
  <2>3. QED
    BY <1>1, <1>4, <1>5, <2>1, <2>2, StepGoesOn
<1>8. TypeOK'
  BY <1>1, <1>2, <1>4, <1>5, <1>6 DEF TypeOK
<1>9. /\ Current(t).event \in Events \cup {None}
      /\ Current(t).event # None => status[Current(t).event] = "complete"
  BY <1>1, <1>2, CurrentFacts DEF StatusAt
<1>10. SetStatus(Current(t).event, "complete")
  BY <1>1, <1>2, <1>9, SameStatus
<1>11. StatusAt(d.at, "complete", Device[pc[t].q]) /\ "complete" \in Stats
  BY <1>5 DEF StatusAt, Stats
<1>12. QED
  BY <1>2, <1>5, <1>7, <1>8, <1>10, <1>11, ExecuteControl

\* The counts when a launch gives its kernel back.
LEMMA NextCommandEffect ==
  ASSUME Control, NEW t \in Threads, NextCommand(t)
  PROVE  /\ pc[t].at = "release" /\ pc[t].rel = <<>> /\ Executing(t)
         /\ rc' \in [Objects -> Int] /\ st' \in [Objects -> {"none", "live", "freed"}]
         /\ mapped' \in [Bufs -> Nat]
         /\ \A o \in Objects : o # Current(t).kernel => rc'[o] = rc[o] /\ st'[o] = st[o]
         /\ \A o \in Objects : o \notin Kernels => rc'[o] = rc[o] /\ st'[o] = st[o]
<1>1. pc[t].at = "release" /\ pc[t].rel = <<>>
  BY DEF NextCommand
<1>2. Executing(t) /\ TypeOK /\ pc[t] \in Call
  BY <1>1, PlaceFacts
<1>3. Current(t).kernel \in Kernels \cup {None}
  BY <1>2, CurrentFacts, NodeFields
<1>4. mapped' \in [Bufs -> Nat]
  <2>1. CASE mapped' = mapped
    BY <1>2, <2>1 DEF TypeOK
  <2>2. CASE /\ pc[t].i = 0 /\ pc[t].cmd.type = "map"
             /\ mapped' = [mapped EXCEPT ![pc[t].cmd.bufs[1]] = @ + 1]
    <3>1. pc[t].cmd \in Node /\ CommandOK(pc[t].cmd, pc[t].q)
      BY <1>2, <2>2, CurrentFacts
    <3>2. pc[t].cmd.bufs[1] \in Bufs
      BY <2>2, <3>1, NodeFields DEF CommandOK
    <3>3. QED
      BY <1>2, <2>2, <3>2 DEF TypeOK
  <2>3. QED  BY <2>1, <2>2 DEF NextCommand
<1>5. CASE rc' = rc /\ st' = st
  BY <1>4, <1>1, <1>2, <1>5 DEF TypeOK
<1>6. CASE /\ Current(t).kernel # None /\ rc' = [rc EXCEPT ![Current(t).kernel] = @ - 1]
           /\ st' = IF rc[Current(t).kernel] = 1 THEN [st EXCEPT ![Current(t).kernel] = "freed"] ELSE st
  <2> DEFINE k == Current(t).kernel
  <2>2. k \in Kernels /\ k \in Objects
    BY <1>3, <1>6, Kinds
  <2> HIDE DEF k
  <2>3. /\ rc' = [rc EXCEPT ![k] = @ - 1]
        /\ st' = IF rc[k] = 1 THEN [st EXCEPT ![k] = "freed"] ELSE st
    BY <1>6 DEF k
  <2>4. /\ rc' \in [Objects -> Int] /\ st' \in [Objects -> {"none", "live", "freed"}]
        /\ \A o \in Objects : o # k => rc'[o] = rc[o] /\ st'[o] = st[o]
    BY <1>2, <2>2, <2>3 DEF TypeOK
  <2>5. QED
    BY <1>4, <1>1, <1>2, <2>2, <2>4 DEF k
<1>7. QED
  BY <1>5, <1>6 DEF NextCommand

LEMMA NextCommandControl ==
  ASSUME Control, NEW t \in Threads, NextCommand(t)
  PROVE  Control'
<1>1. /\ pc[t].at = "release" /\ pc[t].rel = <<>> /\ Executing(t)
      /\ UNCHANGED <<parent, lost, maps, karg, queue, status, root, held, count>>
      /\ rc' \in [Objects -> Int] /\ st' \in [Objects -> {"none", "live", "freed"}]
      /\ mapped' \in [Bufs -> Nat]
      /\ \A e \in Events : st'[e] = st[e] /\ held'[e] = held[e] /\ rc'[e] = rc[e]
  BY NextCommandEffect, Kinds DEF NextCommand
<1>2. /\ TypeOK /\ pc \in [Threads -> Call] /\ pc[t] \in Call /\ pc[t].i \in Nat
      /\ pc[t].q \in Queues /\ root[pc[t].q] \in Seq(Node) /\ pc[t].i <= Len(root[pc[t].q])
      /\ pc[t].op # "idle"
  BY <1>1, PlaceFacts DEF Executing, TypeOK
<1>3. CASE pc[t].i # 0
  <2> DEFINE c == [pc[t] EXCEPT !.at = "node"]
             j == pc[t].i + 1
             d == [c EXCEPT !.i = j]
  <2>1. pc' = [pc EXCEPT ![t].at = "node", ![t].i = j]
    BY <1>3 DEF NextCommand
  <2>2. pc' = [pc EXCEPT ![t] = d]
    BY <1>2, <2>1, NestedUpdate
  <2>3. "node" \in Places /\ j \in Nat
    BY <1>2 DEF Places
  <2>4. c \in Call /\ c.at = "node" /\ c.rel = pc[t].rel /\ SameCall(pc[t], c)
    <3>1. c = [pc[t] EXCEPT !.at = "node"]
      OBVIOUS
    <3> HIDE DEF c
    <3>2. QED  BY <1>2, <2>3, <3>1, AtUpdate
  <2> HIDE DEF c, j
  <2>5. d \in Call /\ d.at = "node" /\ d.i = j /\ d.rel = c.rel /\ SameCall(c, d)
    <3>1. d = [c EXCEPT !.i = j]
      OBVIOUS
    <3> HIDE DEF d
    <3>2. QED  BY <2>3, <2>4, <3>1, IndexUpdate
  <2> HIDE DEF d
  <2>6. SameCall(pc[t], d) /\ d.rel = <<>> /\ Len(d.rel) <= 2
    BY <1>1, <2>4, <2>5 DEF SameCall
  <2>7. d.i <= Len(root[pc[t].q]) + 1 /\ d.i # 0 /\ d.i = pc[t].i + 1 /\ d.at # "none" /\ pc[t].at # "none"
    BY <1>1, <1>2, <2>5 DEF j
  <2>8. GoesOn(t, d)
    BY <1>1, <2>2, <2>5, <2>6, <2>7, StepGoesOn
  <2>9. TypeOK'
    BY <1>1, <1>2, <2>2, <2>5 DEF TypeOK
  <2>10. QED
    BY <1>1, <1>3, <2>5, <2>7, <2>8, <2>9, NextNodeControl
<1>4. CASE pc[t].i = 0
  <2>1. pc' = [pc EXCEPT ![t] = NoCall]
    BY <1>4 DEF NextCommand
  <2>2. /\ pc[t].op = "exec" /\ root[pc[t].q] = <<>>
        /\ pc[t].cmd.event # None => status[pc[t].cmd.event] = "complete"
    BY <1>1, <1>4, CurrentFacts DEF StatusAt
  <2>3. root' = [root EXCEPT ![pc[t].q] = <<>>]
    BY <1>1, <1>2, <2>2 DEF TypeOK
  <2>4. TypeOK'
    BY <1>1, <1>2, <2>1, NoCallType DEF TypeOK
  <2>5. Range(NoCall.events) = {} /\ \A p \in Queues : NoCall.q # p
    BY NoCallType, Kinds DEF Range
  <2>6. Ends(t, NoCall)
    BY <1>2, <2>1, <2>2, <2>3, <2>5 DEF Ends
  <2>7. \A e \in Events : EventSame(e)
    BY <1>1 DEF EventSame
  <2>8. OlderStay /\ StatusStay
    BY <2>7 DEF OlderStay, StatusStay, EventSame
  <2>9. EventsOK'
    BY <1>1 DEF Control, EventsOK
  <2>10. WaitOK(pc[t])'
    <3>1. pc'[t] = NoCall
      BY <1>2, <2>1
    <3>2. QED  BY <3>1, NoCallType DEF WaitOK
  <2>11. QED
    BY <1>1, <2>4, <2>6, <2>7, <2>8, <2>9, <2>10, EventsMade, NoCallType, EndControl
<1>5. QED  BY <1>3, <1>4

\* The queue has been executed, and the call returns.
LEMMA CallEndsControl ==
  ASSUME Control, NEW t \in Threads, pc[t].op \notin {"idle", "exec"}, Emptied(t),
         pc' = [pc EXCEPT ![t] = NoCall], rc' \in [Objects -> Int],
         st' \in [Objects -> {"none", "live", "freed"}], \A e \in Events : rc'[e] = rc[e],
         \A e \in Events : e \notin Range(pc[t].events) => st'[e] = st[e],
         \A e \in Events : e \in Range(pc[t].events) => st'[e] # "none" /\ (held[e] > 0 => st'[e] = st[e])
  PROVE  Control'
<1>1. /\ pc[t].q \in Queues /\ root' = [root EXCEPT ![pc[t].q] = <<>>]
      /\ \A i \in DOMAIN root[pc[t].q] :
              root[pc[t].q][i].event # None => status[root[pc[t].q][i].event] = "complete"
  BY EmptiedFacts
<1>2. UNCHANGED <<parent, lost, maps, karg, queue, status, held, mapped, count>> /\ TypeOK
  BY DEF Emptied, Control
<1>3. <<>> \in Seq(Node)
  OBVIOUS
<1>4. TypeOK'
  <2>1. root' \in [Queues -> Seq(Node)]
    BY <1>1, <1>2, <1>3 DEF TypeOK
  <2>2. pc' \in [Threads -> Call]
    BY <1>2, NoCallType DEF TypeOK
  <2>3. QED
    BY <1>2, <2>1, <2>2 DEF TypeOK
<1>5. Range(NoCall.events) = {} /\ \A p \in Queues : NoCall.q # p
  BY NoCallType, Kinds DEF Range
<1>6. Ends(t, NoCall)
  BY <1>1, <1>5 DEF Ends
<1>7. \A u \in Threads \ {t} : \A e \in Range(pc[u].events) : EventSame(e)
  <2> SUFFICES ASSUME NEW u \in Threads \ {t}, NEW e \in Range(pc[u].events),
                      e \in Range(pc[t].events)
               PROVE  FALSE
    BY <1>2, EventsMade DEF EventSame
  <2>1. e \in Events /\ queue[e] \in Queues
    BY EventsMade DEF Control, EventsOK
  <2>2. Uses(u, queue[e]) /\ Uses(t, queue[e])
    BY DEF Uses
  <2>3. QED
    BY <2>1, <2>2 DEF Control, Exclusive
<1>8. OlderStay /\ StatusStay
  BY <1>2 DEF OlderStay, StatusStay
<1>9. EventsOK'
  <2>1. \A e \in Events : /\ st'[e] = "none" <=> st[e] = "none"
                          /\ held[e] > 0 => st'[e] = st[e]
    BY EventsMade
  <2>2. QED
    BY <1>2, <2>1 DEF Control, EventsOK
<1>10. WaitOK(pc[t])'
  <2>1. pc'[t] = NoCall
    BY <1>2 DEF TypeOK
  <2>2. QED  BY <2>1, NoCallType DEF WaitOK
<1>11. QED
  BY <1>2, <1>4, <1>6, <1>7, <1>8, <1>9, <1>10, NoCallType, EndControl

LEMMA FinishReturnControl ==
  ASSUME Control, NEW t \in Threads, FinishReturn(t)
  PROVE  Control'
<1>1. pc[t].op \notin {"idle", "exec"} /\ Emptied(t) /\ pc' = [pc EXCEPT ![t] = NoCall] /\ UNCHANGED <<st, rc>>
  BY DEF FinishReturn
<1>2. rc \in [Objects -> Int] /\ st \in [Objects -> {"none", "live", "freed"}]
  BY DEF Control, TypeOK
<1>3. QED
  BY <1>1, <1>2, EventsMade, CallEndsControl

LEMMA FinishReleaseControl ==
  ASSUME Control, NEW t \in Threads, FinishRelease(t)
  PROVE  Control'
<1>1. /\ pc[t].op \in {"release_queue", "release_event"} /\ Emptied(t)
      /\ rc' = [rc EXCEPT ![pc[t].q] = @ - 1] /\ pc' = [pc EXCEPT ![t] = NoCall]
      /\ st' = [o \in Objects |-> IF o \in (IF rc[pc[t].q] = 1 THEN {pc[t].q} ELSE {}) \cup Range(pc[t].events)
                                  THEN "freed" ELSE st[o]]
  BY DEF FinishRelease
<1>2. pc[t].q \in Queues /\ TypeOK
  BY <1>1, EmptiedFacts DEF Control
<1>3. rc' \in [Objects -> Int] /\ \A e \in Events : rc'[e] = rc[e]
  BY <1>1, <1>2, Kinds DEF TypeOK
<1>4. /\ st' \in [Objects -> {"none", "live", "freed"}]
      /\ \A e \in Events : st'[e] = IF e \in Range(pc[t].events) THEN "freed" ELSE st[e]
  BY <1>1, <1>2, Kinds DEF TypeOK
<1>5. \A e \in Range(pc[t].events) : held[e] = 0
  <2>1. CASE pc[t].op = "release_queue"
    <3>1. pc[t].events = <<>>
      BY <2>1 DEF Control, CallsOK, CallOK
    <3>2. QED  BY <3>1 DEF Range
  <2>2. CASE pc[t].op = "release_event"
    <3>1. PICK e \in Events : pc[t].events = <<e>> /\ held[e] = 0
      BY <2>2 DEF Control, WaitsOK, WaitOK
    <3>2. QED  BY <3>1 DEF Range
  <2>3. QED  BY <1>1, <2>1, <2>2
<1>6. /\ \A e \in Events : e \notin Range(pc[t].events) => st'[e] = st[e]
      /\ \A e \in Events : e \in Range(pc[t].events) => st'[e] # "none" /\ (held[e] > 0 => st'[e] = st[e])
  BY <1>4, <1>5
<1>7. pc[t].op \notin {"idle", "exec"} /\ st' \in [Objects -> {"none", "live", "freed"}]
  BY <1>1, <1>4
<1>8. QED
  BY <1>1, <1>3, <1>6, <1>7, CallEndsControl

LEMMA FinishWaitControl ==
  ASSUME Control, NEW t \in Threads, FinishWait(t)
  PROVE  Control'
<1> DEFINE rest == Tail(pc[t].events)
<1>1. /\ pc[t].op = "wait" /\ Emptied(t) /\ UNCHANGED <<st, rc>>
      /\ pc' = [pc EXCEPT ![t] = IF rest = <<>> THEN NoCall ELSE Finishing(queue[rest[1]], "wait", NoCmd, rest)]
  BY DEF FinishWait
<1>2. /\ pc[t].events \in Seq(Events) /\ pc[t].events # <<>>
      /\ \A j \in DOMAIN pc[t].events : held[pc[t].events[j]] > 0
      /\ \A j, k \in DOMAIN pc[t].events : pc[t].events[j] = pc[t].events[k] => j = k
      /\ TypeOK
  BY <1>1, CallFields DEF Control, TypeOK, WaitsOK, WaitOK
<1>3. CASE rest = <<>>
  <2>1. rc \in [Objects -> Int] /\ st \in [Objects -> {"none", "live", "freed"}]
    BY DEF Control, TypeOK
  <2>2. QED
    BY <1>1, <1>3, <2>1, EventsMade, CallEndsControl
<1>4. CASE rest # <<>>
  <2>1. /\ rest \in Seq(Events) /\ 1 \in DOMAIN rest
        /\ \A i \in DOMAIN rest : i + 1 \in DOMAIN pc[t].events /\ rest[i] = pc[t].events[i + 1]
    BY <1>2, <1>4, TailOf
  <2> HIDE DEF rest
  <2>2. /\ \A j \in DOMAIN rest : held[rest[j]] > 0 /\ rest[j] \in Events /\ rest[j] \in Range(pc[t].events)
        /\ \A j, k \in DOMAIN rest : rest[j] = rest[k] => j = k
    <3>1. \A j \in DOMAIN rest : j \in Nat
      BY <2>1
    <3>2. QED
      BY <1>2, <2>1, <3>1 DEF Range
  <2>3. PICK q \in Queues : q = queue[rest[1]]
    BY <2>1, <2>2 DEF Control, EventsOK
  <2> DEFINE d == Finishing(q, "wait", NoCmd, rest)
  <2>4. pc' = [pc EXCEPT ![t] = d]
    BY <1>1, <1>4, <2>3
  <2>5. /\ d \in Call /\ d.op = "wait" /\ d.q = q /\ d.i = 1 /\ d.at = "node" /\ d.cmd = NoCmd
        /\ d.rel = <<>> /\ d.events = rest
    BY <2>1, NoCallType DEF Finishing, Call
  <2> HIDE DEF d
  <2>6. UNCHANGED <<parent, lost, maps, karg, queue, status, held, mapped, count>>
    BY <1>1 DEF Emptied
  <2>7. /\ pc[t].q \in Queues /\ root' = [root EXCEPT ![pc[t].q] = <<>>]
        /\ \A i \in DOMAIN root[pc[t].q] :
              root[pc[t].q][i].event # None => status[root[pc[t].q][i].event] = "complete"
    BY <1>1, EmptiedFacts
  <2>8. TypeOK'
    <3>1. root' \in [Queues -> Seq(Node)] /\ pc' \in [Threads -> Call]
      <4>1. <<>> \in Seq(Node)
        OBVIOUS
      <4>2. QED  BY <1>2, <2>4, <2>5, <2>7, <4>1 DEF TypeOK
    <3>2. QED
      BY <1>1, <1>2, <2>6, <3>1 DEF TypeOK
  <2>9. \A e \in Range(rest) : e \in Range(pc[t].events)
    BY <2>2 DEF Range
  <2>10. \A p \in Queues : (d.q = p \/ \E e \in Range(d.events) : queue'[e] = p) => Uses(t, p)
    BY <2>1, <2>2, <2>3, <2>5, <2>6, <2>9 DEF Uses
  <2>11. Ends(t, d)
    BY <1>1, <2>4, <2>5, <2>7, <2>10 DEF Ends
  <2>12. \A e \in Events : EventSame(e)
    BY <1>1, <2>6 DEF EventSame
  <2>13. OlderStay /\ StatusStay
    BY <2>12 DEF OlderStay, StatusStay, EventSame
  <2>14. EventsOK'
    BY <1>1, <2>6 DEF Control, EventsOK
  <2>15. WaitOK(pc[t])'
    <3>1. pc'[t] = d
      BY <1>2, <2>4 DEF TypeOK
    <3>2. QED
      BY <1>4, <2>2, <2>3, <2>5, <2>6, <3>1 DEF WaitOK
  <2>16. QED
    BY <2>5, <2>6, <2>8, <2>11, <2>12, <2>13, <2>14, <2>15, EventsMade, EndControl
<1>5. QED  BY <1>3, <1>4

LEMMA FinishExecStepControl ==
  ASSUME Control, NEW t \in Threads, FinishExec(t)
  PROVE  Control'
<1> DEFINE d == [pc[t] EXCEPT !.i = 0]
<1>1. /\ pc[t].op = "exec" /\ Emptied(t) /\ UNCHANGED <<st, rc>> /\ pc' = [pc EXCEPT ![t].i = 0]
      /\ UNCHANGED <<parent, lost, maps, karg, queue, status, held, mapped, count>>
      /\ pc[t].at = "node"
  BY DEF FinishExec, Emptied
<1>2. /\ TypeOK /\ pc \in [Threads -> Call] /\ pc[t] \in Call /\ pc[t].rel = <<>>
  BY <1>1, PlaceFacts DEF TypeOK, CallOK
<1>3. pc' = [pc EXCEPT ![t] = d]
  BY <1>1, <1>2, NestedUpdate
<1>4. d \in Call /\ d.at = "node" /\ d.i = 0 /\ d.rel = <<>> /\ SameCall(pc[t], d)
  <2>1. d = [pc[t] EXCEPT !.i = 0] /\ 0 \in Nat
    OBVIOUS
  <2> HIDE DEF d
  <2>2. QED  BY <1>1, <1>2, <2>1, IndexUpdate
<1> HIDE DEF d
<1>5. TypeOK'
  <2>1. root' \in [Queues -> Seq(Node)]
    <3>1. <<>> \in Seq(Node)
      OBVIOUS
    <3>2. QED  BY <1>1, <1>2, <3>1 DEF Emptied, TypeOK
  <2>2. QED
    BY <1>1, <1>2, <1>3, <1>4, <2>1 DEF TypeOK
<1>6. \A e \in Events : EventSame(e)
  BY <1>1 DEF EventSame
<1>7. QED
  BY <1>1, <1>3, <1>4, <1>5, <1>6, FinishExecControl

\* No step disturbs Control.
LEMMA NextControl == Control /\ [Next]_vars => Control'
<1> SUFFICES ASSUME Control, [Next]_vars PROVE Control'
  OBVIOUS
<1>1. CASE UNCHANGED vars
  <2>1. TypeOK'
    BY <1>1 DEF Control, TypeOK, vars
  <2>2. QED
    BY <1>1, <2>1, QuietControl DEF vars
<1>2. ASSUME NEW t \in Threads, Run(t) PROVE Control'
  BY <1>2, StartCommandControl, DeviceDoneControl, AssertRunningControl, MarkCompleteControl,
     ReleaseBufferControl, NextCommandControl, FinishReturnControl, FinishExecStepControl,
     FinishReleaseControl, FinishWaitControl DEF Run
<1>3. ASSUME NEW t \in Threads, Request(t) PROVE Control'
  <2>1. ASSUME NEW e \in Events, clWaitForEvents(t, <<e>>) PROVE Control'
    <3>1. /\ <<e>> \in Seq(Events) /\ <<e>> # <<>>
          /\ \A j, k \in DOMAIN <<e>> : <<e>>[j] = <<e>>[k] => j = k
      OBVIOUS
    <3>2. QED  BY <2>1, <3>1, WaitForEventsControl
  <2>2. ASSUME NEW e \in Events, NEW f \in Events, e # f, clWaitForEvents(t, <<e, f>>) PROVE Control'
    <3>1. /\ <<e, f>> \in Seq(Events) /\ <<e, f>> # <<>>
          /\ \A j, k \in DOMAIN <<e, f>> : <<e, f>>[j] = <<e, f>>[k] => j = k
      BY <2>2
    <3>2. QED  BY <2>2, <3>1, WaitForEventsControl
  <2>3. QED
    BY <1>3, <2>1, <2>2, CreateBufferControl, ReleaseMemObjectControl, CreateSubBufferControl,
       ReleaseKernelControl, SetKernelArgControl, RetainControl, FinishControl,
       ReleaseCommandQueueControl, EnqueueControl, ReleaseEventControl DEF Request, clFlush
<1>4. QED
  BY <1>1, <1>2, <1>3 DEF Next
-----------------------------------------------------------------------------
(* What Control says about events.                                         *)

LEMMA ControlInvariant == Spec => []Control
BY InitControl, NextControl, PTL DEF Spec

LEMMA ControlOrder == Control => EventsInOrder
<1> SUFFICES ASSUME Control, NEW q \in Queues, NEW i \in DOMAIN root[q],
                    root[q][i].event # None
             PROVE  IF Executed(q, i) THEN status[root[q][i].event] = "complete"
                    ELSE (\A t \in Threads : pc[t].q = q => i # pc[t].i)
                           => status[root[q][i].event] = "queued"
  BY DEF EventsInOrder
<1> DEFINE e == root[q][i].event
<1>1. /\ (\A t \in Threads : pc[t].q = q => pc[t].i < i) => status[e] = "queued"
      /\ \A t \in Threads : pc[t].q = q =>
           /\ i < pc[t].i => status[e] = "complete"
           /\ i = pc[t].i => StatusAt(pc[t].at, status[e], Device[q])
  BY DEF Control, NodeStatus
<1>2. i \in Nat /\ \A t \in Threads : pc[t].i \in Nat
  BY CallFields DEF Control, TypeOK
<1>3. CASE Executed(q, i)
  BY <1>1, <1>3 DEF Executed, StatusAt
<1>4. CASE ~Executed(q, i)
  BY <1>1, <1>2, <1>4 DEF Executed
<1>5. QED  BY <1>3, <1>4

\* Only the end of the loop of clFinish takes an event from a wait.
LEMMA WaitSteps ==
  ASSUME Control, Next, NEW t \in Threads, pc[t].op = "wait", pc'[t].events # pc[t].events
  PROVE  FinishWait(t)
<1>1. TypeOK /\ pc \in [Threads -> Call] /\ pc[t] \in Call
  BY DEF Control, TypeOK
<1>2. \A d : \A u \in Threads : u # t => [pc EXCEPT ![u] = d][t] = pc[t]
  BY <1>1
<1>3. ASSUME NEW u \in Threads, Request(u) PROVE FALSE
  <2>1. pc' # pc
    OBVIOUS
  <2>2. ASSUME NEW q, NEW ev, Enqueue(u, q, ev) PROVE pc[u].op = "idle" /\ \E d : pc' = [pc EXCEPT ![u] = d]
    <3>1. ASSUME NEW type, NEW bufs, ExecuteDirectly(u, q, type, bufs, ev)
          PROVE  pc[u].op = "idle" /\ \E d : pc' = [pc EXCEPT ![u] = d]
      BY <3>1 DEF ExecuteDirectly, MayEnqueue, Idle
    <3>2. ASSUME NEW type, NEW bufs, NEW k, NEW refs, AppendNode(u, q, type, bufs, k, ev, refs) PROVE FALSE
      BY <2>1, <3>2 DEF AppendNode
    <3>3. QED
      BY <2>1, <2>2, <3>1, <3>2 DEF Enqueue, clEnqueueMarker, clEnqueueNDRangeKernel, clEnqueueReadBuffer,
         clEnqueueWriteBuffer, clEnqueueFillBuffer, clEnqueueReadBufferRect, clEnqueueWriteBufferRect,
         clEnqueueMapBuffer, clEnqueueUnmapMemObject, EventNotAllocated, NodeNotAllocated,
         clEnqueueCopyBuffer, clEnqueueCopyBufferRect
  <2>3. ASSUME NEW q, NEW op, NEW events, Enter(u, q, op, events)
        PROVE  pc[u].op = "idle" /\ \E d : pc' = [pc EXCEPT ![u] = d]
    BY <2>3 DEF Enter, Idle
  <2>4. pc[u].op = "idle" /\ \E d : pc' = [pc EXCEPT ![u] = d]
    BY <1>3, <2>1, <2>2, <2>3 DEF Request, clCreateBuffer, clReleaseMemObject, clCreateSubBuffer,
       clReleaseKernel, clSetKernelArg, clRetain, clFinish, clFlush, clReleaseCommandQueue,
       clReleaseEvent, clWaitForEvents
  <2>5. u # t
    BY <2>4
  <2>6. QED  BY <1>2, <2>4, <2>5
<1>4. ASSUME NEW u \in Threads, Run(u) PROVE u = t /\ FinishWait(u)
  <2>1. ASSUME \/ StartCommand(u) \/ DeviceDone(u) \/ AssertRunning(u) \/ MarkComplete(u)
               \/ ReleaseBuffer(u) \/ NextCommand(u) \/ FinishExec(u)
        PROVE  FALSE
    <3>1. \A a, r, i : /\ [pc EXCEPT ![u].at = a][t].events = pc[t].events
                       /\ [pc EXCEPT ![u].rel = r][t].events = pc[t].events
                       /\ [pc EXCEPT ![u].i = i][t].events = pc[t].events
                       /\ [pc EXCEPT ![u].at = a, ![u].rel = r][t].events = pc[t].events
                       /\ [pc EXCEPT ![u].at = a, ![u].i = i][t].events = pc[t].events
      BY <1>1 DEF Call
    <3>2. NextCommand(u) /\ pc[u].i = 0 /\ pc' = [pc EXCEPT ![u] = NoCall]
      <4>1. ASSUME StartCommand(u) \/ DeviceDone(u) \/ AssertRunning(u)
            PROVE  FALSE
        <5>1. PICK a : pc' = [pc EXCEPT ![u].at = a]
          BY <4>1 DEF StartCommand, DeviceDone, AssertRunning, Goto
        <5>2. QED  BY <3>1, <5>1
      <4>2. ASSUME MarkComplete(u) PROVE FALSE
        BY <3>1, <4>2 DEF MarkComplete
      <4>3. ASSUME ReleaseBuffer(u) PROVE FALSE
        BY <3>1, <4>3 DEF ReleaseBuffer
      <4>4. ASSUME FinishExec(u) PROVE FALSE
        BY <3>1, <4>4 DEF FinishExec
      <4>5. ASSUME NextCommand(u), pc[u].i # 0 PROVE FALSE
        <5>1. pc' = [pc EXCEPT ![u].at = "node", ![u].i = pc[u].i + 1]
          BY <4>5 DEF NextCommand
        <5>2. QED  BY <3>1, <5>1
      <4>6. NextCommand(u) /\ pc[u].i = 0
        BY <2>1, <4>1, <4>2, <4>3, <4>4, <4>5
      <4>7. QED
        BY <4>6 DEF NextCommand
    <3>3. u = t
      BY <1>2, <3>2
    <3>4. pc[u].op = "exec"
      BY <3>2, NextCommandEffect, CurrentFacts
    <3>5. QED  BY <3>3, <3>4
  <2>2. ASSUME FinishReturn(u) \/ FinishRelease(u) PROVE FALSE
    BY <1>2, <2>2 DEF FinishReturn, FinishRelease
  <2>3. ASSUME FinishWait(u) PROVE u = t
    BY <1>2, <2>3 DEF FinishWait
  <2>4. QED
    BY <1>4, <2>1, <2>2, <2>3 DEF Run
<1>5. QED
  BY <1>3, <1>4 DEF Next

\* The event that a wait is through with has completed.
LEMMA WaitStep ==
  ASSUME Control, NEW t \in Threads, FinishWait(t),
         NEW e \in Range(pc[t].events) \ Range(pc'[t].events)
  PROVE  status[e] = "complete"
<1> DEFINE events == pc[t].events
           q == pc[t].q
<1>1. /\ pc[t].op = "wait" /\ Emptied(t) /\ pc \in [Threads -> Call]
      /\ pc' = [pc EXCEPT ![t] = IF Tail(events) = <<>> THEN NoCall
                                 ELSE Finishing(queue[Tail(events)[1]], "wait", NoCmd, Tail(events))]
  BY DEF FinishWait, Control, TypeOK
<1>2. /\ events \in Seq(Events) /\ events # <<>> /\ queue[events[1]] = q
      /\ \A j \in DOMAIN events : held[events[j]] > 0
  BY <1>1, CallFields DEF Control, TypeOK, WaitsOK, WaitOK
<1>3. Range(pc'[t].events) = Range(Tail(events))
  <2>1. CASE Tail(events) = <<>>
    BY <1>1, <2>1, NoCallType
  <2>2. CASE Tail(events) # <<>>
    BY <1>1, <2>2 DEF Finishing
  <2>3. QED  BY <2>1, <2>2
<1>4. e = events[1] /\ e \in Events /\ queue[e] = q /\ held[e] > 0
  <2>1. PICK j \in DOMAIN events : e = events[j]
    BY DEF Range
  <2>2. j # 1 => j - 1 \in DOMAIN Tail(events) /\ Tail(events)[j - 1] = e
    BY <1>2, <2>1
  <2>3. j = 1
    BY <1>3, <2>2 DEF Range
  <2>4. QED  BY <1>2, <2>1, <2>3
<1>5. /\ q \in Queues /\ \A u \in Threads : pc[u].q = q => u = t
      /\ \A i \in DOMAIN root[q] : root[q][i].event # None => status[root[q][i].event] = "complete"
  BY <1>1, EmptiedFacts
<1>6. e # None
  BY <1>4, Kinds
<1>7. status[e] = "complete" \/ InProgress(e)
  BY <1>4 DEF Control, Tracked
<1>8. ASSUME NEW p \in Queues, NEW i \in DOMAIN root[p], root[p][i].event = e
      PROVE  status[e] = "complete"
  <2>1. p = q
    BY <1>4, <1>6, <1>8 DEF Control, NodesOK, CommandOK
  <2>2. QED  BY <1>5, <1>6, <1>8, <2>1
<1>9. ASSUME NEW u \in Threads, pc[u].op = "exec", pc[u].cmd.event = e PROVE FALSE
  <2>1. pc[u].q = q
    BY <1>4, <1>6, <1>9 DEF Control, OwnOK, CommandOK
  <2>2. QED  BY <1>1, <1>5, <1>9, <2>1
<1>10. QED
  BY <1>7, <1>8, <1>9 DEF InProgress

\* A status falls back from complete in the assertion only.
LEMMA StatusStep ==
  ASSUME Control, Next, NEW e \in Events, status[e] = "complete", status'[e] # "complete"
  PROVE  \E t \in Threads : pc[t].at = "assert" /\ Current(t).event = e
<1>1. TypeOK /\ st[e] # "none" /\ status' # status
  BY DEF Control, EventsOK
<1>2. ASSUME NEW u \in Threads, Request(u) PROVE FALSE
  <2>1. ASSUME NEW q, NEW ev, Enqueue(u, q, ev) PROVE FALSE
    <3>1. ASSUME NEW s, MakeEvent(q, ev, s), ev # None => st[ev] = "none" PROVE FALSE
      BY <1>1, <3>1 DEF MakeEvent, TypeOK
    <3>2. ASSUME NEW type, NEW bufs, ExecuteDirectly(u, q, type, bufs, ev) PROVE FALSE
      BY <3>1, <3>2 DEF ExecuteDirectly, MayEnqueue
    <3>3. ASSUME NEW type, NEW bufs, NEW k, NEW refs, AppendNode(u, q, type, bufs, k, ev, refs) PROVE FALSE
      BY <3>1, <3>3 DEF AppendNode, MayEnqueue
    <3>4. ASSUME NEW b, clEnqueueUnmapMemObject(u, q, b, ev) PROVE FALSE
      BY <3>1, <3>4 DEF clEnqueueUnmapMemObject, MayEnqueue
    <3>5. ASSUME NEW type, NEW b, NodeNotAllocated(u, q, type, b, ev) PROVE FALSE
      BY <1>1, <3>5 DEF NodeNotAllocated, MayEnqueue, TypeOK
    <3>6. ASSUME NEW b, EventNotAllocated(u, q, b) PROVE FALSE
      BY <1>1, <3>6 DEF EventNotAllocated
    <3>7. QED
      BY <2>1, <3>2, <3>3, <3>4, <3>5, <3>6 DEF Enqueue, clEnqueueMarker, clEnqueueNDRangeKernel,
         clEnqueueReadBuffer, clEnqueueWriteBuffer, clEnqueueFillBuffer, clEnqueueReadBufferRect,
         clEnqueueWriteBufferRect, clEnqueueMapBuffer, clEnqueueCopyBuffer, clEnqueueCopyBufferRect
  <2>2. QED
    BY <1>1, <1>2, <2>1 DEF Request, clCreateBuffer, clReleaseMemObject, clCreateSubBuffer,
       clReleaseKernel, clSetKernelArg, clRetain, clFinish, clFlush, clReleaseCommandQueue,
       clReleaseEvent, clWaitForEvents
<1>3. ASSUME NEW u \in Threads, Run(u) PROVE pc[u].at = "assert" /\ Current(u).event = e
  <2>1. CASE StartCommand(u)
    <3>1. AtCommand(u) /\ pc[u].at = "node"
      BY <2>1 DEF StartCommand, AtCommand
    <3>2. Executing(u)
      BY <3>1, PlaceFacts DEF AtCommand
    <3>3. Current(u).event # None => Current(u).event \in Events /\ status[Current(u).event] = "queued"
      BY <3>1, <3>2, CurrentFacts DEF StatusAt
    <3>4. SetStatus(Current(u).event, "running")
      BY <1>1, <2>1 DEF StartCommand
    <3>5. QED
      BY <1>1, <3>3, <3>4 DEF SetStatus, TypeOK
  <2>2. CASE DeviceDone(u) \/ MarkComplete(u)
    <3>1. SetStatus(Current(u).event, "complete")
      BY <1>1, <2>2 DEF DeviceDone, MarkComplete
    <3>2. QED
      BY <1>1, <3>1 DEF SetStatus, TypeOK
  <2>3. CASE AssertRunning(u)
    <3>1. pc[u].at = "assert" /\ SetStatus(Current(u).event, "running")
      BY <2>3 DEF AssertRunning
    <3>2. QED
      BY <1>1, <3>1 DEF SetStatus, TypeOK
  <2>4. CASE ReleaseBuffer(u) \/ NextCommand(u)
    BY <1>1, <2>4 DEF ReleaseBuffer, NextCommand
  <2>5. CASE FinishReturn(u) \/ FinishExec(u) \/ FinishRelease(u) \/ FinishWait(u)
    BY <1>1, <2>5 DEF FinishReturn, FinishExec, FinishRelease, FinishWait, Emptied
  <2>6. QED
    BY <1>3, <2>1, <2>2, <2>3, <2>4, <2>5 DEF Run
<1>4. QED
  BY <1>2, <1>3 DEF Next

\* The status of an event tells the progress of clFinish: behind the node it is
\* at, events are complete, ahead of it they are queued.  For every number of
\* threads, queues and commands.
THEOREM EventOrder == Spec => []EventsInOrder
BY ControlInvariant, ControlOrder, PTL

\* clWaitForEvents, which finishes the queues of its events one after the other,
\* is through with an event only when its status is CL_COMPLETE.
THEOREM WaitsComplete == Spec => WaitedComplete
<1>1. ASSUME Control, [Next]_vars
      PROVE  [\A t \in Threads : pc[t].op = "wait" =>
                \A e \in Range(pc[t].events) \ Range(pc'[t].events) : status[e] = "complete"]_vars
  <2>1. CASE UNCHANGED vars
    BY <2>1
  <2>2. CASE Next
    BY <1>1, <2>2, WaitSteps, WaitStep
  <2>3. QED  BY <1>1, <2>1, <2>2
<1>2. QED
  BY <1>1, ControlInvariant, PTL DEF Spec, WaitedComplete

\* No command is executed twice: a completed event goes back to an earlier status
\* in one place only, the assignment in the assertion of
\* POCL_UPDATE_EVENT_COMPLETE.
THEOREM CompletesOnce == Spec => CompleteIsFinal
<1>1. ASSUME Control, [Next]_vars
      PROVE  [\A e \in Events : status[e] = "complete" /\ status'[e] # "complete"
                => \E t \in Threads : pc[t].at = "assert" /\ Current(t).event = e]_vars
  <2>1. CASE UNCHANGED vars
    BY <2>1
  <2>2. CASE Next
    BY <1>1, <2>2, StatusStep
  <2>3. QED  BY <1>1, <2>1, <2>2
<1>2. QED
  BY <1>1, ControlInvariant, PTL DEF Spec, CompleteIsFinal
-----------------------------------------------------------------------------
(* The queues implement InOrderQueue.                                      *)

\* An unmap takes effect at once, whatever is queued, and a call that fails for want
\* of memory uses up a number without a command: neither is a step of InOrderQueue.
AllQueued == "unmap" \notin Commands /\ ~HostFull

\* How many nodes the call c is through with.
Passed(c) == IF c.i = 0 THEN 0 ELSE IF c.at = "release" THEN c.i ELSE c.i - 1

\* The call c has still to execute its own command.
OwnLeft(c) == c.op = "exec" /\ ~(c.i = 0 /\ c.at = "release")

NumbersFrom(s, p) == [j \in 1..(Len(s) - p) |-> s[p + j].n]

OwnNumber(c) == IF OwnLeft(c) THEN <<c.cmd.n>> ELSE <<>>

\* The numbers still to be executed of a queue with the nodes s, when c is the call
\* at work on it.
View(s, c) == NumbersFrom(s, Passed(c)) \o OwnNumber(c)

\* c is the call at work on q, or there is none.
Worker(q, c) == \/ \E t \in Threads : pc[t].q = q /\ pc[t] = c
                \/ c = NoCall /\ \A t \in Threads : pc[t].q # q

LEMMA SameSequence ==
  ASSUME NEW S, NEW s \in Seq(S), NEW r \in Seq(S), Len(s) = Len(r),
         \A i \in 1..Len(s) : s[i] = r[i]
  PROVE  s = r
OBVIOUS

LEMMA Joined ==
  ASSUME NEW S, NEW a \in Seq(S), NEW b \in Seq(S)
  PROVE  /\ a \o b \in Seq(S) /\ Len(a \o b) = Len(a) + Len(b)
         /\ \A j \in 1..Len(a) : (a \o b)[j] = a[j]
         /\ \A j \in 1..Len(b) : (a \o b)[Len(a) + j] = b[j]
<1>1. a \o b \in Seq(S) /\ Len(a \o b) = Len(a) + Len(b)
  OBVIOUS
<1>2. \A j \in 1..Len(a) : (a \o b)[j] = a[j]
  OBVIOUS
<1>3. ASSUME NEW j \in 1..Len(b) PROVE (a \o b)[Len(a) + j] = b[j]
  <2>1. Len(a) \in Nat /\ Len(b) \in Nat
    OBVIOUS
  <2>2. Len(a) + j \in 1..(Len(a) + Len(b)) /\ ~(Len(a) + j <= Len(a)) /\ Len(a) + j - Len(a) = j
    BY <2>1
  <2> QED
    BY <2>1, <2>2
<1> QED
  BY <1>1, <1>2, <1>3

LEMMA NumbersType ==
  ASSUME NEW s \in Seq(Node), NEW p \in Nat, p <= Len(s)
  PROVE  /\ NumbersFrom(s, p) \in Seq(Nat) /\ Len(NumbersFrom(s, p)) = Len(s) - p
         /\ \A j \in 1..(Len(s) - p) : NumbersFrom(s, p)[j] = s[p + j].n
<1>1. Len(s) - p \in Nat /\ \A j \in 1..(Len(s) - p) : p + j \in 1..Len(s)
  OBVIOUS
<1>2. \A j \in 1..(Len(s) - p) : s[p + j].n \in Nat
  BY <1>1, NodeFields
<1> QED
  BY <1>1, <1>2 DEF NumbersFrom

\* What a view contains.
LEMMA ViewType ==
  ASSUME NEW s \in Seq(Node), NEW c \in Call, Passed(c) \in Nat, Passed(c) <= Len(s)
  PROVE  /\ View(s, c) \in Seq(Nat)
         /\ Len(View(s, c)) = Len(s) - Passed(c) + (IF OwnLeft(c) THEN 1 ELSE 0)
         /\ \A j \in 1..(Len(s) - Passed(c)) : View(s, c)[j] = s[Passed(c) + j].n
         /\ OwnLeft(c) => View(s, c)[Len(s) - Passed(c) + 1] = c.cmd.n
<1> DEFINE a == NumbersFrom(s, Passed(c))
           b == OwnNumber(c)
<1>1. /\ a \in Seq(Nat) /\ Len(a) = Len(s) - Passed(c)
      /\ \A j \in 1..(Len(s) - Passed(c)) : a[j] = s[Passed(c) + j].n
  BY NumbersType
<1>2. /\ b \in Seq(Nat) /\ Len(b) = (IF OwnLeft(c) THEN 1 ELSE 0)
      /\ OwnLeft(c) => b[1] = c.cmd.n
  <2>1. c.cmd.n \in Nat
    BY CallFields, NodeFields
  <2> QED
    BY <2>1 DEF OwnNumber
<1> HIDE DEF a, b
<1>3. /\ a \o b \in Seq(Nat) /\ Len(a \o b) = Len(a) + Len(b)
      /\ \A j \in 1..Len(a) : (a \o b)[j] = a[j]
      /\ \A j \in 1..Len(b) : (a \o b)[Len(a) + j] = b[j]
  <2>1. a \in Seq(Nat) /\ b \in Seq(Nat)
    BY <1>1, <1>2
  <2> QED
    BY <2>1, Joined
<1>4. View(s, c) = a \o b
  BY DEF View, a, b
<1>5. OwnLeft(c) => (a \o b)[Len(a) + 1] = c.cmd.n
  BY <1>2, <1>3
<1> QED
  BY <1>1, <1>2, <1>3, <1>4, <1>5

\* The nodes a call is through with are nodes of its queue.
LEMMA PassedRange ==
  ASSUME Control, NEW q \in Queues, NEW c, Worker(q, c)
  PROVE  /\ c \in Call /\ root[q] \in Seq(Node)
         /\ Passed(c) \in Nat /\ Passed(c) <= Len(root[q])
<1>1. root[q] \in Seq(Node) /\ Len(root[q]) \in Nat
  BY DEF Control, TypeOK
<1>2. ASSUME NEW t \in Threads, pc[t].q = q, pc[t] = c
      PROVE  c \in Call /\ Passed(c) \in Nat /\ Passed(c) <= Len(root[q])
  <2>1. pc[t].op # "idle"
    BY <1>2, NoCallType, HandlesAssumption DEF Control, CallsOK, CallOK, Objects
  <2>2. c \in Call /\ CallOK(c, root) /\ c.i \in Nat
    BY <1>2, <2>1, WorkingFacts
  <2> QED
    BY <1>1, <1>2, <2>1, <2>2 DEF CallOK, Passed
<1>3. ASSUME c = NoCall
      PROVE  c \in Call /\ Passed(c) \in Nat /\ Passed(c) <= Len(root[q])
  BY <1>1, <1>3, NoCallType DEF Passed
<1> QED
  BY <1>1, <1>2, <1>3 DEF Worker

\* How TodoBar is read off the call at work on a queue.
TodoViews == \A q \in Queues, c \in Call : Worker(q, c) => TodoBar[q] = View(root[q], c)

LEMMA BehindIs ==
  ASSUME Control, NEW q \in Queues, NEW c \in Call, Worker(q, c)
  PROVE  Behind(q) = Passed(c)
<1> DEFINE p == Passed(c)
<1>1. c \in Call /\ root[q] \in Seq(Node) /\ p \in Nat /\ p <= Len(root[q])
  BY PassedRange
<1>2. \A i \in DOMAIN root[q] : Executed(q, i) <=> i <= p
  <2> SUFFICES ASSUME NEW i \in DOMAIN root[q] PROVE Executed(q, i) <=> i <= p
    OBVIOUS
  <2>1. i \in Nat \ {0} /\ i <= Len(root[q])
    BY <1>1
  <2>2. ASSUME NEW t \in Threads, pc[t].q = q, pc[t] = c PROVE Executed(q, i) <=> i <= p
    <3>1. pc[t].op # "idle"
      BY <2>2, NoCallType, HandlesAssumption DEF Control, CallsOK, CallOK, Objects
    <3>2. c.i \in Nat /\ \A u \in Threads : pc[u].q = q => u = t
      BY <2>2, <3>1, WorkingFacts
    <3>3. Executed(q, i) <=> i < c.i \/ (i = c.i /\ c.at = "release")
      BY <2>2, <3>2 DEF Executed
    <3> QED
      BY <2>1, <3>2, <3>3 DEF Passed
  <2>3. ASSUME c = NoCall, \A t \in Threads : pc[t].q # q PROVE Executed(q, i) <=> i <= p
    BY <2>1, <2>3, NoCallType DEF Executed, Passed
  <2> QED
    BY <2>2, <2>3 DEF Worker
<1> HIDE DEF p
<1>3. {i \in DOMAIN root[q] : Executed(q, i)} = 1..p
  BY <1>1, <1>2
<1>4. Cardinality(1..p) = p
  BY <1>1, FS_Interval
<1> QED
  BY <1>3, <1>4 DEF Behind, p

LEMMA TodoIs == Control => TodoViews
<1> SUFFICES ASSUME Control, NEW q \in Queues, NEW c \in Call, Worker(q, c)
             PROVE  TodoBar[q] = View(root[q], c)
  BY DEF TodoViews
<1> DEFINE owner == {t \in Threads : pc[t].q = q /\ OwnPending(t)}
           own == IF owner = {} THEN <<>> ELSE <<pc[CHOOSE t \in owner : TRUE].cmd.n>>
<1>1. Behind(q) = Passed(c)
  BY BehindIs
<1>2. own = OwnNumber(c)
  <2>1. ASSUME NEW t \in Threads, pc[t].q = q, pc[t] = c PROVE own = OwnNumber(c)
    <3>1. pc[t].op # "idle"
      BY <2>1, NoCallType, HandlesAssumption DEF Control, CallsOK, CallOK, Objects
    <3>2. \A u \in Threads : pc[u].q = q => u = t
      BY <2>1, <3>1, WorkingFacts
    <3>3. OwnPending(t) <=> OwnLeft(c)
      BY <2>1 DEF OwnPending, OwnLeft
    <3>4. CASE OwnLeft(c)
      <4>1. owner = {t}
        BY <2>1, <3>2, <3>3, <3>4
      <4>2. (CHOOSE u \in owner : TRUE) = t
        BY <4>1
      <4> QED
        BY <2>1, <3>4, <4>1, <4>2 DEF OwnNumber
    <3>5. CASE ~OwnLeft(c)
      <4>1. owner = {}
        BY <2>1, <3>2, <3>3, <3>5
      <4> QED
        BY <3>5, <4>1 DEF OwnNumber
    <3> QED
      BY <3>4, <3>5
  <2>2. ASSUME c = NoCall, \A t \in Threads : pc[t].q # q PROVE own = OwnNumber(c)
    BY <2>2, NoCallType DEF OwnNumber, OwnLeft
  <2> QED
    BY <2>1, <2>2 DEF Worker
<1>3. TodoBar[q] = [j \in 1..(Len(root[q]) - Behind(q)) |-> root[q][Behind(q) + j].n] \o own
  BY DEF TodoBar
<1> HIDE DEF own, owner
<1> QED
  BY <1>1, <1>2, <1>3 DEF View, NumbersFrom

\* A queue has one call at work on it, or none.
LEMMA WorkerExists ==
  ASSUME Control, NEW q \in Queues
  PROVE  \E c \in Call : Worker(q, c)
<1>1. CASE \E t \in Threads : pc[t].q = q
  BY <1>1 DEF Worker, Control, TypeOK
<1>2. CASE \A t \in Threads : pc[t].q # q
  BY <1>2, NoCallType DEF Worker
<1> QED
  BY <1>1, <1>2

\* Where a number in TodoBar comes from: a node, or the command of a call.
LEMMA TodoOrigin ==
  ASSUME Control, NEW q \in Queues, NEW c \in Call, Worker(q, c), NEW j \in DOMAIN TodoBar[q]
  PROVE  \/ /\ Passed(c) + j \in DOMAIN root[q]
            /\ TodoBar[q][j] = root[q][Passed(c) + j].n
         \/ /\ j = Len(root[q]) - Passed(c) + 1
            /\ \E t \in Threads : /\ pc[t].q = q /\ pc[t].op = "exec"
                                  /\ TodoBar[q][j] = pc[t].cmd.n
<1> DEFINE s == root[q]
           p == Passed(c)
           v == View(s, c)
<1>1. s \in Seq(Node) /\ p \in Nat /\ p <= Len(s) /\ Len(s) \in Nat
  BY PassedRange
<1>2. TodoBar[q] = v
  BY TodoIs DEF TodoViews
<1>3. /\ v \in Seq(Nat)
      /\ Len(v) = Len(s) - p + (IF OwnLeft(c) THEN 1 ELSE 0)
      /\ \A k \in 1..(Len(s) - p) : v[k] = s[p + k].n
      /\ OwnLeft(c) => v[Len(s) - p + 1] = c.cmd.n
  BY <1>1, ViewType
<1> HIDE DEF s, p, v
<1>4. j \in 1..Len(v)
  BY <1>2, <1>3
<1>5. CASE j <= Len(s) - p
  <2>1. j \in 1..(Len(s) - p) /\ p + j \in DOMAIN s
    BY <1>1, <1>3, <1>4, <1>5
  <2> QED
    BY <1>2, <1>3, <2>1 DEF s, p
<1>6. CASE ~(j <= Len(s) - p)
  <2>1. OwnLeft(c) /\ j = Len(s) - p + 1
    BY <1>1, <1>3, <1>4, <1>6
  <2>2. c.op = "exec" /\ c # NoCall
    BY <2>1, NoCallType DEF OwnLeft
  <2>3. PICK t \in Threads : pc[t].q = q /\ pc[t] = c
    BY <2>2 DEF Worker
  <2> QED
    BY <1>2, <1>3, <2>1, <2>2, <2>3 DEF s, p
<1> QED
  BY <1>5, <1>6

TodoKnown ==
  \A q \in Queues : /\ TodoBar[q] \in Seq(Nat)
                    /\ \A i \in DOMAIN TodoBar[q] : TodoBar[q][i] \in 1..count

TodoDistinct ==
  \A q, p \in Queues : \A i \in DOMAIN TodoBar[q], j \in DOMAIN TodoBar[p] :
    TodoBar[q][i] = TodoBar[p][j] => q = p /\ i = j

LEMMA KnownNumbers == Control => TodoKnown
<1> SUFFICES ASSUME Control, NEW q \in Queues
             PROVE  /\ TodoBar[q] \in Seq(Nat)
                    /\ \A i \in DOMAIN TodoBar[q] : TodoBar[q][i] \in 1..count
  BY DEF TodoKnown
<1>1. PICK c \in Call : Worker(q, c)
  BY WorkerExists
<1>2. TodoBar[q] \in Seq(Nat)
  BY <1>1, PassedRange, TodoIs, ViewType DEF TodoViews
<1>3. ASSUME NEW i \in DOMAIN TodoBar[q] PROVE TodoBar[q][i] \in 1..count
  BY <1>1, TodoOrigin DEF Control, NodesOK, OwnOK, CommandOK
<1> QED
  BY <1>2, <1>3

LEMMA DistinctNumbers == Control => TodoDistinct
<1> SUFFICES ASSUME Control, NEW q \in Queues, NEW p \in Queues,
                    NEW i \in DOMAIN TodoBar[q], NEW j \in DOMAIN TodoBar[p],
                    TodoBar[q][i] = TodoBar[p][j]
             PROVE  q = p /\ i = j
  BY DEF TodoDistinct
<1>1. PICK c \in Call : Worker(q, c)
  BY WorkerExists
<1>2. PICK d \in Call : Worker(p, d)
  BY WorkerExists
<1>3. /\ Passed(c) \in Nat /\ Passed(d) \in Nat
      /\ TodoBar[q] \in Seq(Nat) /\ TodoBar[p] \in Seq(Nat)
  BY <1>1, <1>2, PassedRange, KnownNumbers DEF TodoKnown
<1>4. i \in Nat /\ j \in Nat
  BY <1>3
<1>5. q = p => c = d
  <2> SUFFICES ASSUME q = p PROVE c = d
    OBVIOUS
  <2>1. \A t, u \in Threads : pc[t].q = q /\ pc[u].q = q => t = u
    BY DEF Control, Exclusive, Uses
  <2> QED
    BY <1>1, <1>2, <2>1 DEF Worker
<1>6. CASE /\ Passed(c) + i \in DOMAIN root[q] /\ TodoBar[q][i] = root[q][Passed(c) + i].n
           /\ Passed(d) + j \in DOMAIN root[p] /\ TodoBar[p][j] = root[p][Passed(d) + j].n
  <2> DEFINE a == Passed(c) + i
             b == Passed(d) + j
  <2>0. a \in DOMAIN root[q] /\ b \in DOMAIN root[p] /\ root[q][a].n = root[p][b].n
    BY <1>6
  <2> HIDE DEF a, b
  <2>1. q = p /\ a = b
    BY <2>0 DEF Control, Unique, Same
  <2> USE DEF a, b
  <2> QED
    BY <1>3, <1>4, <1>5, <2>1
<1>7. ASSUME NEW r \in Queues, NEW k \in DOMAIN root[r], NEW t \in Threads,
             pc[t].op = "exec", pc[t].cmd.n = root[r][k].n
      PROVE  FALSE
  BY <1>7 DEF Control, Unique, Same
<1>8. ASSUME i = Len(root[q]) - Passed(c) + 1, j = Len(root[p]) - Passed(d) + 1,
             NEW t \in Threads, pc[t].q = q, pc[t].op = "exec", TodoBar[q][i] = pc[t].cmd.n,
             NEW u \in Threads, pc[u].q = p, pc[u].op = "exec", TodoBar[p][j] = pc[u].cmd.n
      PROVE  q = p /\ i = j
  <2>1. t = u
    BY <1>8 DEF Control, Unique, Same
  <2> QED
    BY <1>5, <1>8, <2>1
<1> QED
  BY <1>1, <1>2, <1>6, <1>7, <1>8, TodoOrigin

\* A step after which every queue has the same commands to execute.
Stutters == TodoBar' = TodoBar /\ DoneBar' = DoneBar

\* The step leaves every queue but q as it is.
OthersSame(q) == \A p \in Queues : p # q => TodoBar'[p] = TodoBar[p]

LEMMA TodoFunction ==
  TodoBar = [q \in Queues |-> TodoBar[q]] /\ TodoBar' = [q \in Queues |-> TodoBar'[q]]
<1> DEFINE F(q) == NumbersFrom(root[q], Behind(q)) \o
                     (LET owner == {t \in Threads : pc[t].q = q /\ OwnPending(t)}
                      IN  IF owner = {} THEN <<>> ELSE <<pc[CHOOSE t \in owner : TRUE].cmd.n>>)
<1>1. TodoBar = [q \in Queues |-> F(q)]
  BY DEF TodoBar, NumbersFrom
<1>2. TodoBar' = [q \in Queues |-> F(q)']
  BY DEF TodoBar, NumbersFrom
<1> HIDE DEF F
<1>3. TodoBar = [q \in Queues |-> TodoBar[q]]
  BY <1>1
<1>4. TodoBar' = [q \in Queues |-> TodoBar'[q]]
  BY <1>2
<1> QED
  BY <1>3, <1>4

LEMMA StutterStep ==
  ASSUME \A q \in Queues : TodoBar'[q] = TodoBar[q], count' = count
  PROVE  Stutters
<1>1. TodoBar = [q \in Queues |-> TodoBar[q]] /\ TodoBar' = [q \in Queues |-> TodoBar'[q]]
  BY TodoFunction
<1>2. TodoBar' = TodoBar
  BY <1>1, Zenon
<1> QED
  BY <1>2 DEF Stutters, DoneBar

\* A call hands a queue the next command.
LEMMA SubmitStep ==
  ASSUME Control, NEW q \in Queues, TodoBar'[q] = Append(TodoBar[q], count + 1),
         OthersSame(q), count' = count + 1, count' <= MaxCommands
  PROVE  count + 1 \in 1..MaxCommands /\ Abstract!Submit(q, count + 1)
<1>1. TodoKnown /\ count \in Nat
  BY KnownNumbers DEF Control, TypeOK
<1>2. TodoBar = [p \in Queues |-> TodoBar[p]] /\ TodoBar' = [p \in Queues |-> TodoBar'[p]]
  BY TodoFunction
<1>3. TodoBar' = [TodoBar EXCEPT ![q] = Append(@, count + 1)]
  <2> DEFINE f == [TodoBar EXCEPT ![q] = Append(@, count + 1)]
  <2>1. f = [p \in Queues |-> f[p]]
    BY <1>2
  <2>2. \A p \in Queues : f[p] = TodoBar'[p]
    BY <1>2 DEF OthersSame
  <2> HIDE DEF f
  <2>3. f = TodoBar'
    BY <1>2, <2>1, <2>2, Zenon
  <2> QED
    BY <2>3 DEF f
<1>4. count + 1 \notin DoneBar
  BY <1>1 DEF DoneBar
<1>5. \A p \in Queues : \A i \in DOMAIN TodoBar[p] : TodoBar[p][i] # count + 1
  BY <1>1 DEF TodoKnown
<1>6. ASSUME NEW n \in 1..count
      PROVE  (\A p \in Queues : \A i \in DOMAIN TodoBar'[p] : TodoBar'[p][i] # n)
               <=> (\A p \in Queues : \A i \in DOMAIN TodoBar[p] : TodoBar[p][i] # n)
  <2>1. (\A i \in DOMAIN TodoBar'[q] : TodoBar'[q][i] # n)
          <=> (\A i \in DOMAIN TodoBar[q] : TodoBar[q][i] # n)
    <3> DEFINE s == TodoBar[q]
    <3>1. s \in Seq(Nat) /\ TodoBar'[q] = Append(s, count + 1) /\ n # count + 1
      BY <1>1 DEF TodoKnown
    <3> HIDE DEF s
    <3>2. /\ DOMAIN Append(s, count + 1) = 1..(Len(s) + 1) /\ DOMAIN s = 1..Len(s)
          /\ Len(s) \in Nat /\ Append(s, count + 1)[Len(s) + 1] = count + 1
          /\ \A i \in 1..Len(s) : Append(s, count + 1)[i] = s[i]
      BY <1>1, <3>1
    <3> QED
      BY <3>1, <3>2 DEF s
  <2> QED
    BY <2>1 DEF OthersSame
<1>7. ~\A p \in Queues : \A i \in DOMAIN TodoBar'[p] : TodoBar'[p][i] # count + 1
  <2>1. TodoBar[q] \in Seq(Nat)
    BY <1>1 DEF TodoKnown
  <2>2. /\ Len(TodoBar[q]) + 1 \in DOMAIN TodoBar'[q]
        /\ TodoBar'[q][Len(TodoBar[q]) + 1] = count + 1
    BY <1>1, <2>1
  <2> QED
    BY <2>2
<1>8. DoneBar' = DoneBar
  <2>1. DoneBar' = {n \in 1..(count + 1) :
                      \A p \in Queues : \A i \in DOMAIN TodoBar'[p] : TodoBar'[p][i] # n}
    BY DEF DoneBar
  <2>2. \A n : n \in 1..(count + 1) <=> n \in 1..count \/ n = count + 1
    BY <1>1
  <2> QED
    BY <1>6, <1>7, <2>1, <2>2 DEF DoneBar
<1>9. count + 1 \in 1..MaxCommands
  BY <1>1, BoundsAssumption
<1> QED
  BY <1>3, <1>4, <1>5, <1>8, <1>9 DEF Abstract!Submit

\* The oldest command of a queue takes effect.
LEMMA CompleteStep ==
  ASSUME Control, NEW q \in Queues, TodoBar[q] # <<>>, TodoBar'[q] = Tail(TodoBar[q]),
         OthersSame(q), count' = count
  PROVE  Abstract!Complete(q)
<1> DEFINE s == TodoBar[q]
           h == Head(TodoBar[q])
<1>1. TodoKnown /\ TodoDistinct /\ count \in Nat
  BY KnownNumbers, DistinctNumbers DEF Control, TypeOK
<1>2. TodoBar = [p \in Queues |-> TodoBar[p]] /\ TodoBar' = [p \in Queues |-> TodoBar'[p]]
  BY TodoFunction
<1>3. TodoBar' = [TodoBar EXCEPT ![q] = Tail(@)]
  <2> DEFINE f == [TodoBar EXCEPT ![q] = Tail(@)]
  <2>1. f = [p \in Queues |-> f[p]]
    BY <1>2
  <2>2. \A p \in Queues : f[p] = TodoBar'[p]
    BY <1>2 DEF OthersSame
  <2> HIDE DEF f
  <2>3. f = TodoBar'
    BY <1>2, <2>1, <2>2, Zenon
  <2> QED
    BY <2>3 DEF f
<1>4. s \in Seq(Nat) /\ s # <<>>
  BY <1>1 DEF TodoKnown
<1>5. /\ 1 \in DOMAIN s /\ h = s[1] /\ DOMAIN s = 1..Len(s) /\ Len(s) \in Nat
      /\ DOMAIN Tail(s) = 1..(Len(s) - 1) /\ \A i \in DOMAIN Tail(s) : Tail(s)[i] = s[i + 1]
  <2> HIDE DEF s
  <2>1. s # <<>>
    BY <1>4
  <2> QED
    BY <1>4, <2>1 DEF h, s
<1>6. h \in 1..count
  BY <1>1, <1>5 DEF TodoKnown
<1>7. \A p \in Queues : \A i \in DOMAIN TodoBar[p] : TodoBar[p][i] = h => p = q /\ i = 1
  BY <1>1, <1>5 DEF TodoDistinct
<1>8. ASSUME NEW n \in 1..count
      PROVE  (\A p \in Queues : \A i \in DOMAIN TodoBar'[p] : TodoBar'[p][i] # n)
               <=> n = h \/ (\A p \in Queues : \A i \in DOMAIN TodoBar[p] : TodoBar[p][i] # n)
  <2>1. (\A i \in DOMAIN TodoBar'[q] : TodoBar'[q][i] # n)
          <=> (\A i \in DOMAIN TodoBar[q] : i # 1 => TodoBar[q][i] # n)
    <3> HIDE DEF s
    <3>1. \A i \in DOMAIN s : i # 1 => i - 1 \in DOMAIN Tail(s) /\ (i - 1) + 1 = i
      BY <1>5
    <3>2. \A i \in DOMAIN Tail(s) : i + 1 \in DOMAIN s /\ i + 1 # 1
      BY <1>5
    <3>3. (\A i \in DOMAIN Tail(s) : Tail(s)[i] # n) <=> (\A i \in DOMAIN s : i # 1 => s[i] # n)
      <4>1. ASSUME \A i \in DOMAIN Tail(s) : Tail(s)[i] # n, NEW i \in DOMAIN s, i # 1
            PROVE  s[i] # n
        <5>1. i - 1 \in DOMAIN Tail(s) /\ Tail(s)[i - 1] = s[i]
          BY <1>5, <3>1, <4>1
        <5> QED
          BY <4>1, <5>1
      <4>2. ASSUME \A i \in DOMAIN s : i # 1 => s[i] # n, NEW i \in DOMAIN Tail(s)
            PROVE  Tail(s)[i] # n
        BY <1>5, <3>2, <4>2
      <4> QED
        BY <4>1, <4>2
    <3> QED
      BY <3>3 DEF s
  <2> HIDE DEF s, h
  <2>2. s[1] = h /\ 1 \in DOMAIN TodoBar[q] /\ TodoBar[q][1] = h
    BY <1>5 DEF s
  <2>3. ASSUME n = h PROVE \A p \in Queues : \A i \in DOMAIN TodoBar'[p] : TodoBar'[p][i] # n
    BY <1>7, <2>1, <2>3 DEF OthersSame
  <2>4. ASSUME n # h
        PROVE  (\A i \in DOMAIN TodoBar'[q] : TodoBar'[q][i] # n)
                 <=> (\A i \in DOMAIN TodoBar[q] : TodoBar[q][i] # n)
    BY <2>1, <2>2, <2>4
  <2> QED
    BY <2>3, <2>4 DEF OthersSame
<1>9. DoneBar' = DoneBar \cup {h}
  <2> HIDE DEF s, h
  <2>1. DoneBar' = {n \in 1..count :
                      \A p \in Queues : \A i \in DOMAIN TodoBar'[p] : TodoBar'[p][i] # n}
    BY DEF DoneBar
  <2> QED
    BY <1>6, <1>8, <2>1 DEF DoneBar
<1> QED
  BY <1>3, <1>9 DEF Abstract!Complete, h

\* The views of one queue before and after a step.
LEMMA ViewStep ==
  ASSUME Control, Control', NEW q \in Queues, NEW c \in Call, NEW d \in Call,
         Worker(q, c), Worker(q, d)'
  PROVE  TodoBar[q] = View(root[q], c) /\ TodoBar'[q] = View(root'[q], d)
<1>1. TodoViews
  BY TodoIs
<1>2. TodoViews'
  BY TodoIs, PTL
<1> QED
  BY <1>1, <1>2 DEF TodoViews

\* A queue that the step of a thread does not touch.
LEMMA Untouched ==
  ASSUME Control, Control', NEW t \in Threads, NEW d \in Call, pc' = [pc EXCEPT ![t] = d],
         NEW q \in Queues, q # pc[t].q, q # d.q, root'[q] = root[q]
  PROVE  TodoBar'[q] = TodoBar[q]
<1>1. pc'[t] = d /\ \A u \in Threads : u # t => pc'[u] = pc[u]
  BY DEF Control, TypeOK
<1>2. PICK c \in Call : Worker(q, c)
  BY WorkerExists
<1>3. Worker(q, c)'
  BY <1>1, <1>2 DEF Worker
<1> QED
  BY <1>2, <1>3, ViewStep

LEMMA EmptyView ==
  ASSUME NEW s \in Seq(Node), NEW c \in Call, Passed(c) = Len(s)
  PROVE  View(s, c) = OwnNumber(c)
<1>1. NumbersFrom(s, Passed(c)) = <<>>
  BY DEF NumbersFrom
<1>2. OwnNumber(c) = <<>> \/ OwnNumber(c) = <<c.cmd.n>>
  BY DEF OwnNumber
<1> QED
  BY <1>1, <1>2 DEF View

\* The thread goes on in its call, and is through with the same commands.
LEMMA MoveStutters ==
  ASSUME Control, Control', NEW t \in Threads, pc[t].op # "idle", NEW d \in Call,
         pc' = [pc EXCEPT ![t] = d], SameCall(pc[t], d), Passed(d) = Passed(pc[t]),
         OwnLeft(d) <=> OwnLeft(pc[t]), UNCHANGED <<root, count>>
  PROVE  Stutters
<1> DEFINE q == pc[t].q
<1>1. q \in Queues /\ pc[t] \in Call /\ d.q = q /\ d.cmd = pc[t].cmd
  BY WorkingFacts DEF SameCall
<1>2. pc'[t] = d
  BY DEF Control, TypeOK
<1>3. Worker(q, pc[t]) /\ Worker(q, d)'
  BY <1>1, <1>2 DEF Worker
<1>4. View(root[q], pc[t]) = View(root'[q], d)
  BY <1>1 DEF View, OwnNumber
<1>5. TodoBar'[q] = TodoBar[q]
  BY <1>1, <1>3, <1>4, ViewStep
<1>6. ASSUME NEW p \in Queues, p # q PROVE TodoBar'[p] = TodoBar[p]
  BY <1>1, <1>6, Untouched
<1> QED
  BY <1>5, <1>6, StutterStep

\* The call is over, with nothing left to execute.
LEMMA EndStutters ==
  ASSUME Control, Control', NEW t \in Threads, pc[t].op # "idle",
         pc' = [pc EXCEPT ![t] = NoCall], root'[pc[t].q] = <<>>,
         \A p \in Queues : p # pc[t].q => root'[p] = root[p],
         Passed(pc[t]) = Len(root[pc[t].q]), ~OwnLeft(pc[t]), count' = count
  PROVE  Stutters
<1>0. PICK q \in Queues : q = pc[t].q
  BY WorkingFacts
<1>1. /\ q \in Queues /\ pc[t] \in Call /\ root[q] \in Seq(Node)
      /\ \A u \in Threads : u # t => pc[u].q # q
  BY <1>0, WorkingFacts
<1>2. pc'[t] = NoCall /\ \A u \in Threads : u # t => pc'[u] = pc[u]
  BY DEF Control, TypeOK
<1>3. NoCall \in Call /\ NoCall.q \notin Queues
  BY NoCallType, HandlesAssumption DEF Objects
<1>4. Worker(q, pc[t]) /\ Worker(q, NoCall)'
  BY <1>0, <1>1, <1>2, <1>3 DEF Worker
<1>5. View(root[q], pc[t]) = <<>>
  BY <1>0, <1>1, EmptyView DEF OwnNumber
<1>6. View(root'[q], NoCall) = <<>>
  <2>1. <<>> \in Seq(Node) /\ Passed(NoCall) = Len(<<>>) /\ ~OwnLeft(NoCall)
    BY NoCallType DEF Passed, OwnLeft
  <2> QED
    BY <1>0, <1>3, <2>1, EmptyView DEF OwnNumber
<1>7. TodoBar'[q] = TodoBar[q]
  BY <1>1, <1>3, <1>4, <1>5, <1>6, ViewStep
<1>8. ASSUME NEW p \in Queues, p # q PROVE TodoBar'[p] = TodoBar[p]
  BY <1>0, <1>3, <1>8, Untouched
<1> QED
  BY <1>7, <1>8, StutterStep

\* A call that begins on a queue no thread is at work on.
LEMMA BeginView ==
  ASSUME Control, Control', NEW t \in Threads, pc[t].q \notin Queues, NEW d \in Call,
         pc' = [pc EXCEPT ![t] = d], d.q \in Queues, d.i = 1, d.at = "node",
         \A u \in Threads : pc[u].q # d.q, root' = root
  PROVE  /\ TodoBar[d.q] = View(root[d.q], NoCall) /\ TodoBar'[d.q] = View(root[d.q], d)
         /\ Passed(d) = 0 /\ OthersSame(d.q)
<1>1. pc'[t] = d /\ NoCall \in Call
  BY NoCallType DEF Control, TypeOK
<1>2. Worker(d.q, NoCall) /\ Worker(d.q, d)'
  BY <1>1 DEF Worker
<1>3. Passed(d) = 0
  BY DEF Passed
<1>4. ASSUME NEW p \in Queues, p # d.q PROVE TodoBar'[p] = TodoBar[p]
  BY <1>4, Untouched
<1> QED
  BY <1>1, <1>2, <1>3, <1>4, ViewStep DEF OthersSame

LEMMA NoCallView == Passed(NoCall) = 0 /\ ~OwnLeft(NoCall)
BY NoCallType DEF Passed, OwnLeft

\* Nothing has been executed of a queue that no thread is at work on.
LEMMA NoCallNumbers ==
  ASSUME NEW s \in Seq(Node)
  PROVE  /\ View(s, NoCall) \in Seq(Nat) /\ Len(View(s, NoCall)) = Len(s)
         /\ \A j \in 1..Len(s) : View(s, NoCall)[j] = s[j].n
<1> DEFINE v == NumbersFrom(s, 0)
<1>1. View(s, NoCall) = v \o <<>>
  BY NoCallView DEF View, OwnNumber
<1>2. Len(s) \in Nat /\ 0 <= Len(s) /\ Len(s) - 0 = Len(s) /\ \A j \in 1..Len(s) : 0 + j = j
  OBVIOUS
<1>3. /\ v \in Seq(Nat) /\ Len(v) = Len(s) - 0
      /\ \A j \in 1..(Len(s) - 0) : v[j] = s[0 + j].n
  BY <1>2, NumbersType
<1> HIDE DEF v
<1>4. v \o <<>> = v
  BY <1>3
<1>5. \A j \in 1..Len(s) : v[j] = s[j].n
  BY <1>2, <1>3
<1> QED
  BY <1>1, <1>2, <1>3, <1>4, <1>5

LEMMA BeginStutters ==
  ASSUME Control, Control', NEW t \in Threads, pc[t].q \notin Queues, NEW d \in Call,
         pc' = [pc EXCEPT ![t] = d], d.q \in Queues, d.i = 1, d.at = "node", d.op # "exec",
         \A u \in Threads : pc[u].q # d.q, root' = root, count' = count
  PROVE  Stutters
<1>1. /\ TodoBar[d.q] = View(root[d.q], NoCall) /\ TodoBar'[d.q] = View(root[d.q], d)
      /\ Passed(d) = 0 /\ OthersSame(d.q)
  BY BeginView
<1>2. View(root[d.q], NoCall) = View(root[d.q], d)
  BY <1>1, NoCallView DEF View, OwnNumber, OwnLeft
<1> QED
  BY <1>1, <1>2, StutterStep DEF OthersSame

\* A blocking call hands the queue its command.
LEMMA ExecSubmits ==
  ASSUME Control, Control', NEW t \in Threads, pc[t].q \notin Queues, NEW d \in Call,
         pc' = [pc EXCEPT ![t] = d], d.q \in Queues, d.i = 1, d.at = "node", d.op = "exec",
         \A u \in Threads : pc[u].q # d.q, root' = root, d.cmd.n = count + 1,
         count' = count + 1, count' <= MaxCommands
  PROVE  \E n \in 1..MaxCommands : Abstract!Submit(d.q, n)
<1> DEFINE s == NumbersFrom(root[d.q], 0)
<1>1. /\ TodoBar[d.q] = View(root[d.q], NoCall) /\ TodoBar'[d.q] = View(root[d.q], d)
      /\ Passed(d) = 0 /\ OthersSame(d.q)
  BY BeginView
<1>2. s \in Seq(Nat) /\ count + 1 \in Nat
  BY NumbersType DEF Control, TypeOK
<1>3. View(root[d.q], NoCall) = s \o <<>> /\ View(root[d.q], d) = s \o <<count + 1>>
  BY <1>1, NoCallView DEF View, OwnNumber, OwnLeft
<1> HIDE DEF s
<1>4. s \o <<>> = s /\ s \o <<count + 1>> = Append(s, count + 1)
  BY <1>2
<1> QED
  BY <1>1, <1>3, <1>4, SubmitStep

\* A node is appended to a queue no thread is at work on.
LEMMA AppendSubmits ==
  ASSUME Control, Control', NEW q \in Queues, NEW c, c.n = count + 1,
         \A u \in Threads : pc[u].q # q, pc' = pc, root' = [root EXCEPT ![q] = Append(@, c)],
         count' = count + 1, count' <= MaxCommands
  PROVE  \E n \in 1..MaxCommands : Abstract!Submit(q, n)
<1> DEFINE s == root[q]
           r == root'[q]
<1>1. /\ root \in [Queues -> Seq(Node)] /\ s \in Seq(Node) /\ r \in Seq(Node) /\ r = Append(s, c)
      /\ \A p \in Queues : p # q => root'[p] = root[p]
      /\ count + 1 \in Nat
  BY DEF Control, TypeOK
<1>2. NoCall \in Call /\ Worker(q, NoCall) /\ Worker(q, NoCall)'
  BY NoCallType DEF Worker
<1>3. TodoBar[q] = View(s, NoCall) /\ TodoBar'[q] = View(r, NoCall)
  BY <1>2, ViewStep
<1> HIDE DEF s, r
<1>4. Len(r) = Len(s) + 1 /\ Len(s) \in Nat /\ r[Len(s) + 1] = c /\ \A i \in 1..Len(s) : r[i] = s[i]
  BY <1>1
<1>5. /\ View(s, NoCall) \in Seq(Nat) /\ Len(View(s, NoCall)) = Len(s)
      /\ \A j \in 1..Len(s) : View(s, NoCall)[j] = s[j].n
  BY <1>1, NoCallNumbers
<1>6. /\ View(r, NoCall) \in Seq(Nat) /\ Len(View(r, NoCall)) = Len(r)
      /\ \A j \in 1..Len(r) : View(r, NoCall)[j] = r[j].n
  BY <1>1, NoCallNumbers
<1>7. View(r, NoCall) = Append(View(s, NoCall), count + 1)
  <2> DEFINE v == View(s, NoCall)
             w == View(r, NoCall)
  <2> HIDE DEF v, w
  <2>1. /\ v \in Seq(Nat) /\ w \in Seq(Nat) /\ Len(v) = Len(s) /\ Len(w) = Len(s) + 1
        /\ w[Len(s) + 1] = count + 1 /\ \A j \in 1..Len(s) : w[j] = v[j]
    <3>1. /\ v \in Seq(Nat) /\ w \in Seq(Nat) /\ Len(v) = Len(s) /\ Len(w) = Len(s) + 1
      BY <1>4, <1>5, <1>6 DEF v, w
    <3>2. Len(s) + 1 \in 1..Len(r) /\ \A j \in 1..Len(s) : j \in 1..Len(r)
      BY <1>4
    <3>3. w[Len(s) + 1] = r[Len(s) + 1].n
      BY <1>6, <3>2 DEF w
    <3>4. \A j \in 1..Len(s) : w[j] = r[j].n /\ v[j] = s[j].n
      BY <1>5, <1>6, <3>2 DEF v, w
    <3> QED
      BY <1>4, <3>1, <3>3, <3>4
  <2>2. /\ Append(v, count + 1) \in Seq(Nat) /\ Len(Append(v, count + 1)) = Len(s) + 1
        /\ \A j \in 1..(Len(s) + 1) : Append(v, count + 1)[j] = w[j]
    BY <1>1, <1>4, <2>1
  <2>3. w = Append(v, count + 1)
    BY <2>1, <2>2, SameSequence
  <2> QED
    BY <2>3 DEF v, w
<1>8. ASSUME NEW p \in Queues, p # q PROVE TodoBar'[p] = TodoBar[p]
  <2>1. PICK d \in Call : Worker(p, d)
    BY WorkerExists
  <2>2. Worker(p, d)'
    BY <2>1 DEF Worker
  <2> QED
    BY <1>1, <1>8, <2>1, <2>2, ViewStep
<1> QED
  BY <1>3, <1>7, <1>8, SubmitStep DEF OthersSame
-----------------------------------------------------------------------------
(* InOrderQueue: what each action is a step of.                            *)

LEMMA QuietStutters ==
  ASSUME Control, Control', UNCHANGED <<root, pc, count>>
  PROVE  Stutters
<1>1. ASSUME NEW q \in Queues PROVE TodoBar'[q] = TodoBar[q]
  <2>1. PICK c \in Call : Worker(q, c)
    BY WorkerExists
  <2>2. Worker(q, c)'
    BY <2>1 DEF Worker
  <2> QED
    BY <2>1, <2>2, ViewStep
<1> QED
  BY <1>1, StutterStep

LEMMA IdleQueue ==
  ASSUME Control, NEW t \in Threads, Idle(t)
  PROVE  pc[t].q \notin Queues
BY NoCallType, HandlesAssumption DEF Control, CallsOK, CallOK, Idle, Objects

LEMMA EnterStutters ==
  ASSUME Control, Control', NEW t \in Threads, NEW q, NEW op, op \notin {"exec", "idle"},
         NEW events, Enter(t, q, op, events), UNCHANGED <<root, count>>
  PROVE  Stutters
<1> DEFINE d == Finishing(q, op, NoCmd, events)
<1>1. pc' = [pc EXCEPT ![t] = d] /\ Idle(t) /\ \A u \in Threads : pc[u].q # q
  BY DEF Enter, Busy
<1>2. d.op = op /\ d.q = q /\ d.i = 1 /\ d.at = "node"
  BY DEF Finishing
<1> HIDE DEF d
<1>3. pc'[t] = d /\ d \in Call /\ CallOK(d, root')
  BY <1>1 DEF Control, TypeOK, CallsOK
<1>4. q \in Queues
  BY <1>2, <1>3 DEF CallOK
<1> QED
  BY <1>1, <1>2, <1>3, <1>4, IdleQueue, BeginStutters

LEMMA ExecuteDirectlySubmits ==
  ASSUME Control, Control', NEW t \in Threads, NEW q \in Queues, NEW type, NEW bufs, NEW ev,
         ExecuteDirectly(t, q, type, bufs, ev)
  PROVE  \E n \in 1..MaxCommands : Abstract!Submit(q, n)
<1> DEFINE c == Cmd(type, bufs, None, ev)
           d == Finishing(q, "exec", c, <<>>)
<1>1. /\ pc' = [pc EXCEPT ![t] = d] /\ Idle(t) /\ \A u \in Threads : pc[u].q # q
      /\ root' = root /\ count' = count + 1 /\ count < MaxCommands
  BY DEF ExecuteDirectly, MayEnqueue, Busy
<1>2. c.n = count + 1
  BY DEF Cmd
<1>3. d.op = "exec" /\ d.q = q /\ d.i = 1 /\ d.at = "node" /\ d.cmd = c
  BY DEF Finishing
<1> HIDE DEF c, d
<1>4. pc'[t] = d /\ d \in Call /\ count' <= MaxCommands
  BY <1>1, BoundsAssumption DEF Control, TypeOK
<1> QED
  BY <1>1, <1>2, <1>3, <1>4, IdleQueue, ExecSubmits

LEMMA AppendNodeSubmits ==
  ASSUME Control, Control', NEW t \in Threads, NEW q \in Queues, NEW type, NEW bufs, NEW k,
         NEW ev, NEW refs, AppendNode(t, q, type, bufs, k, ev, refs)
  PROVE  \E n \in 1..MaxCommands : Abstract!Submit(q, n)
<1> DEFINE c == Cmd(type, bufs, k, ev)
<1>1. /\ root' = [root EXCEPT ![q] = Append(@, c)] /\ pc' = pc
      /\ \A u \in Threads : pc[u].q # q /\ count' = count + 1 /\ count < MaxCommands
  BY DEF AppendNode, MayEnqueue, Busy
<1>2. c.n = count + 1
  BY DEF Cmd
<1>3. count' = count + 1 /\ count' <= MaxCommands
  BY BoundsAssumption DEF AppendNode, MayEnqueue, Control, TypeOK
<1> HIDE DEF c
<1> QED
  BY <1>1, <1>2, <1>3, AppendSubmits

LEMMA EnqueueSubmits ==
  ASSUME AllQueued, Control, Control', NEW t \in Threads, NEW q \in Queues, NEW ev,
         Enqueue(t, q, ev)
  PROVE  \E n \in 1..MaxCommands : Abstract!Submit(q, n)
<1> DEFINE Goal == \E n \in 1..MaxCommands : Abstract!Submit(q, n)
<1>1. ASSUME NEW type, NEW bufs, NEW f, ExecuteDirectly(t, q, type, bufs, f) PROVE Goal
  BY <1>1, ExecuteDirectlySubmits
<1>2. ASSUME NEW type, NEW bufs, NEW k, NEW f, NEW refs, AppendNode(t, q, type, bufs, k, f, refs)
      PROVE  Goal
  BY <1>2, AppendNodeSubmits
<1>3. ASSUME NEW b, NEW type,
             \/ clEnqueueUnmapMemObject(t, q, b, ev)
             \/ EventNotAllocated(t, q, b)
             \/ NodeNotAllocated(t, q, type, b, ev)
      PROVE  FALSE
  BY <1>3 DEF clEnqueueUnmapMemObject, MayEnqueue, EventNotAllocated, NodeNotAllocated, AllQueued
<1> HIDE DEF Goal
<1>4. ASSUME NEW b, clEnqueueUnmapMemObject(t, q, b, ev) \/ EventNotAllocated(t, q, b) PROVE FALSE
  BY <1>3, <1>4
<1>5. Goal
  BY <1>1, <1>2, <1>3, <1>4
     DEF Enqueue, clEnqueueMarker, clEnqueueNDRangeKernel, clEnqueueReadBuffer,
         clEnqueueWriteBuffer, clEnqueueFillBuffer, clEnqueueReadBufferRect,
         clEnqueueWriteBufferRect, clEnqueueMapBuffer, clEnqueueCopyBuffer,
         clEnqueueCopyBufferRect
<1> QED
  BY <1>5 DEF Goal

\* The other calls of the client hand the queues no command.
LEMMA RequestStep ==
  ASSUME AllQueued, Control, Control', NEW t \in Threads, Request(t)
  PROVE  Stutters \/ \E q \in Queues : \E n \in 1..MaxCommands : Abstract!Submit(q, n)
<1>1. ASSUME NEW q \in Queues, NEW ev, Enqueue(t, q, ev)
      PROVE  \E n \in 1..MaxCommands : Abstract!Submit(q, n)
  BY <1>1, EnqueueSubmits
<1>2. ASSUME NEW q, clFinish(t, q) \/ clFlush(t, q) \/ clReleaseCommandQueue(t, q)
      PROVE  Stutters
  BY <1>2, EnterStutters DEF clFinish, clFlush, clReleaseCommandQueue
<1>3. ASSUME NEW events, clWaitForEvents(t, events) PROVE Stutters
  BY <1>3, EnterStutters DEF clWaitForEvents
<1>4. ASSUME NEW e, clReleaseEvent(t, e) PROVE Stutters
  <2>1. UNCHANGED <<root, count>> /\ (pc' = pc \/ Enter(t, queue[e], "release_event", <<e>>))
    BY <1>4 DEF clReleaseEvent
  <2> QED
    BY <2>1, QuietStutters, EnterStutters
<1>5. ASSUME NEW b, NEW p, NEW k, NEW o,
             \/ clCreateBuffer(t, b) \/ clReleaseMemObject(t, b) \/ clCreateSubBuffer(t, b, p)
             \/ clReleaseKernel(t, k) \/ clSetKernelArg(t, k, b) \/ clRetain(t, o)
      PROVE  Stutters
  <2>1. UNCHANGED <<root, pc, count>>
    BY <1>5 DEF clCreateBuffer, clReleaseMemObject, clCreateSubBuffer, clReleaseKernel,
                clSetKernelArg, clRetain
  <2> QED
    BY <2>1, QuietStutters
<1> QED
  BY <1>1, <1>2, <1>3, <1>4, <1>5 DEF Request

\* A thread in a call whose place changes, and not past its command.
LEMMA PlaceStutters ==
  ASSUME Control, Control', NEW t \in Threads, pc[t].at \in Places \ {"none", "release"},
         NEW a \in Places \ {"release"}, Goto(t, a), UNCHANGED <<root, count>>
  PROVE  Stutters
<1> DEFINE d == [pc[t] EXCEPT !.at = a]
<1>1. pc[t].op # "idle" /\ pc[t] \in Call /\ pc \in [Threads -> Call]
  BY PlaceFacts DEF TypeOK
<1>2. pc' = [pc EXCEPT ![t] = d]
  BY <1>1, NestedUpdate DEF Goto
<1>3. d \in Call /\ d.at = a /\ d.i = pc[t].i /\ SameCall(pc[t], d)
  <2>1. d = [pc[t] EXCEPT !.at = a]
    OBVIOUS
  <2> HIDE DEF d
  <2> QED
    BY <1>1, <2>1, AtUpdate
<1> HIDE DEF d
<1>4. Passed(d) = Passed(pc[t]) /\ (OwnLeft(d) <=> OwnLeft(pc[t]))
  BY <1>3 DEF Passed, OwnLeft, SameCall
<1> QED
  BY <1>1, <1>2, <1>3, <1>4, MoveStutters

LEMMA ReleaseBufferStutters ==
  ASSUME Control, Control', NEW t \in Threads, ReleaseBuffer(t)
  PROVE  Stutters
<1> DEFINE r == Tail(pc[t].rel)
           d == [pc[t] EXCEPT !.rel = r]
<1>1. /\ pc[t].at = "release" /\ pc[t].rel # <<>> /\ pc' = [pc EXCEPT ![t].rel = r]
      /\ UNCHANGED <<root, count>>
  BY DEF ReleaseBuffer
<1>2. pc[t].op # "idle" /\ pc[t] \in Call /\ pc \in [Threads -> Call] /\ pc[t].rel \in Seq(Bufs)
  BY <1>1, PlaceFacts, CallFields DEF TypeOK
<1>3. r \in Seq(Bufs)
  BY <1>1, <1>2, TailOf
<1>4. pc' = [pc EXCEPT ![t] = d]
  BY <1>1, <1>2, NestedUpdate
<1> HIDE DEF r
<1>5. d \in Call /\ d.at = pc[t].at /\ d.i = pc[t].i /\ SameCall(pc[t], d)
  <2>1. d = [pc[t] EXCEPT !.rel = r]
    OBVIOUS
  <2> HIDE DEF d
  <2> QED
    BY <1>2, <1>3, <2>1, RelUpdate
<1> HIDE DEF d
<1>6. Passed(d) = Passed(pc[t]) /\ (OwnLeft(d) <=> OwnLeft(pc[t]))
  BY <1>5 DEF Passed, OwnLeft, SameCall
<1> QED
  BY <1>1, <1>2, <1>4, <1>5, <1>6, MoveStutters

LEMMA NextCommandStutters ==
  ASSUME Control, Control', NEW t \in Threads, NextCommand(t)
  PROVE  Stutters
<1>1. pc[t].at = "release" /\ UNCHANGED <<root, count>> /\ Executing(t)
  BY NextCommandEffect DEF NextCommand
<1>2. /\ pc[t].op # "idle" /\ pc[t] \in Call /\ pc \in [Threads -> Call] /\ pc[t].i \in Nat
      /\ pc[t].q \in Queues
  BY <1>1, PlaceFacts DEF TypeOK
<1>3. CASE pc[t].i = 0
  <2>1. root[pc[t].q] = <<>>
    BY <1>1, <1>3, CurrentFacts
  <2>2. pc' = [pc EXCEPT ![t] = NoCall]
    BY <1>3 DEF NextCommand
  <2>3. Passed(pc[t]) = Len(root[pc[t].q]) /\ ~OwnLeft(pc[t])
    BY <1>1, <1>3, <2>1 DEF Passed, OwnLeft
  <2> QED
    BY <1>1, <1>2, <2>1, <2>2, <2>3, EndStutters
<1>4. CASE pc[t].i # 0
  <2> DEFINE i == pc[t].i + 1
             c == [pc[t] EXCEPT !.at = "node"]
             d == [c EXCEPT !.i = i]
  <2>1. pc' = [pc EXCEPT ![t].at = "node", ![t].i = i]
    BY <1>4 DEF NextCommand
  <2>2. pc' = [pc EXCEPT ![t] = d]
    BY <1>2, <2>1, NestedUpdate
  <2>3. c \in Call /\ c.at = "node" /\ SameCall(pc[t], c)
    <3>1. c = [pc[t] EXCEPT !.at = "node"] /\ "node" \in Places
      BY DEF Places
    <3> HIDE DEF c
    <3> QED
      BY <1>2, <3>1, AtUpdate
  <2>4. i \in Nat /\ i # 0 /\ i - 1 = pc[t].i
    BY <1>2
  <2> HIDE DEF c, i
  <2>5. d \in Call /\ d.at = "node" /\ d.i = i /\ SameCall(c, d)
    <3>1. d = [c EXCEPT !.i = i]
      OBVIOUS
    <3> HIDE DEF d
    <3> QED
      BY <2>3, <2>4, <3>1, IndexUpdate
  <2> HIDE DEF d
  <2>6. SameCall(pc[t], d)
    BY <2>3, <2>5 DEF SameCall
  <2>7. Passed(d) = Passed(pc[t]) /\ (OwnLeft(d) <=> OwnLeft(pc[t]))
    BY <1>1, <1>4, <2>4, <2>5, <2>6 DEF Passed, OwnLeft, SameCall
  <2> QED
    BY <1>1, <1>2, <2>2, <2>5, <2>6, <2>7, MoveStutters
<1> QED
  BY <1>3, <1>4

\* The loop of clFinish has ended: every node has been executed.
LEMMA AllPassed ==
  ASSUME Control, NEW t \in Threads, Emptied(t), pc[t].op # "idle"
  PROVE  Passed(pc[t]) = Len(root[pc[t].q])
<1>1. pc[t].i # 0 /\ pc[t].i = Len(root[pc[t].q]) + 1 /\ pc[t].at = "node"
  BY EmptiedFacts DEF Emptied
<1>2. Len(root[pc[t].q]) \in Nat
  BY WorkingFacts
<1> QED
  BY <1>1, <1>2 DEF Passed

LEMMA CallEndStutters ==
  ASSUME Control, Control', NEW t \in Threads, pc[t].op \notin {"idle", "exec"}, Emptied(t),
         pc' = [pc EXCEPT ![t] = NoCall]
  PROVE  Stutters
<1>1. root'[pc[t].q] = <<>> /\ \A p \in Queues : p # pc[t].q => root'[p] = root[p]
  BY EmptiedFacts
<1>2. count' = count
  BY DEF Emptied
<1>3. Passed(pc[t]) = Len(root[pc[t].q]) /\ ~OwnLeft(pc[t])
  BY AllPassed DEF OwnLeft
<1> QED
  BY <1>1, <1>2, <1>3, EndStutters

LEMMA FinishExecStutters ==
  ASSUME Control, Control', NEW t \in Threads, FinishExec(t)
  PROVE  Stutters
<1>0. PICK d : d = [pc[t] EXCEPT !.i = 0]
  OBVIOUS
<1>1. pc[t].op = "exec" /\ Emptied(t) /\ pc' = [pc EXCEPT ![t].i = 0] /\ pc[t].at = "node"
  BY DEF FinishExec, Emptied
<1>2. PICK q \in Queues : q = pc[t].q
  BY <1>1, WorkingFacts
<1>3. /\ pc[t] \in Call /\ pc \in [Threads -> Call] /\ root[q] \in Seq(Node)
  BY <1>1, <1>2, WorkingFacts DEF Control, TypeOK
<1>4. /\ root'[q] = <<>> /\ \A p \in Queues : p # q => root'[p] = root[p]
      /\ Passed(pc[t]) = Len(root[q]) /\ count' = count
  BY <1>1, <1>2, EmptiedFacts, AllPassed DEF Emptied
<1>5. pc' = [pc EXCEPT ![t] = d]
  BY <1>0, <1>1, <1>3, NestedUpdate
<1>6. d \in Call /\ d.at = "node" /\ d.i = 0 /\ SameCall(pc[t], d)
  <2>1. PICK z \in Nat : z = 0
    OBVIOUS
  <2>2. d = [pc[t] EXCEPT !.i = z]
    BY <1>0, <2>1
  <2>3. d \in Call /\ d.at = pc[t].at /\ d.i = z /\ SameCall(pc[t], d)
    BY <1>3, <2>2, IndexUpdate
  <2> QED
    BY <1>1, <2>1, <2>3
<1>7. pc'[t] = d /\ d.q = q
  BY <1>2, <1>3, <1>5, <1>6 DEF SameCall
<1>8. Worker(q, pc[t]) /\ Worker(q, d)'
  BY <1>2, <1>7 DEF Worker
<1>9. OwnNumber(d) = OwnNumber(pc[t])
  BY <1>1, <1>6 DEF OwnNumber, OwnLeft, SameCall
<1>10. View(root[q], pc[t]) = OwnNumber(pc[t])
  BY <1>3, <1>4, EmptyView
<1>11. View(root'[q], d) = OwnNumber(d)
  <2>1. <<>> \in Seq(Node) /\ Passed(d) = Len(<<>>)
    BY <1>6 DEF Passed
  <2> QED
    BY <1>4, <1>6, <2>1, EmptyView
<1>12. TodoBar'[q] = TodoBar[q]
  BY <1>3, <1>6, <1>8, <1>9, <1>10, <1>11, ViewStep
<1>13. ASSUME NEW p \in Queues, p # q PROVE TodoBar'[p] = TodoBar[p]
  BY <1>2, <1>4, <1>5, <1>6, <1>7, <1>13, Untouched
<1> QED
  BY <1>4, <1>12, <1>13, StutterStep

\* clWaitForEvents goes on with the queue of its next event, which may be the same.
LEMMA FinishWaitStutters ==
  ASSUME Control, Control', NEW t \in Threads, FinishWait(t)
  PROVE  Stutters
<1> DEFINE rest == Tail(pc[t].events)
<1>0. PICK d : d = Finishing(queue[rest[1]], "wait", NoCmd, rest)
  OBVIOUS
<1>1. /\ pc[t].op = "wait" /\ Emptied(t)
      /\ pc' = [pc EXCEPT ![t] = IF rest = <<>> THEN NoCall ELSE d]
  BY <1>0 DEF FinishWait
<1>2. CASE rest = <<>>
  BY <1>1, <1>2, CallEndStutters
<1>3. CASE rest # <<>>
  <2>1. pc' = [pc EXCEPT ![t] = d]
    BY <1>1, <1>3
  <2>2. d.op = "wait" /\ d.i = 1 /\ d.at = "node" /\ d.q = queue[rest[1]]
    BY <1>0 DEF Finishing
  <2>3. Uses(t, queue[rest[1]])
    <3>1. pc[t].events \in Seq(Events) /\ pc[t].events # <<>>
      BY <1>1, CallFields DEF Control, TypeOK, WaitsOK, WaitOK
    <3>2. rest \in Seq(Events) /\ 1 \in DOMAIN rest /\ rest[1] = pc[t].events[2]
          /\ 2 \in DOMAIN pc[t].events
      BY <1>3, <3>1
    <3> QED
      BY <3>2 DEF Uses, Range
  <2>4. PICK q \in Queues : q = pc[t].q
    BY <1>1, WorkingFacts
  <2>5. PICK p : p = d.q
    OBVIOUS
  <2> HIDE DEF rest
  <2>6. pc'[t] = d /\ d \in Call /\ \A u \in Threads : u # t => pc'[u] = pc[u]
    BY <2>1 DEF Control, TypeOK
  <2>7. p \in Queues
    BY <2>2, <2>5, <2>6 DEF Control, CallsOK, CallOK
  <2>8. /\ pc[t] \in Call /\ root[q] \in Seq(Node) /\ root[p] \in Seq(Node)
        /\ \A u \in Threads : u # t => pc[u].q # q
    BY <1>1, <2>4, <2>7, WorkingFacts DEF Control, TypeOK
  <2>9. \A u \in Threads : u # t => pc[u].q # p
    BY <2>2, <2>3, <2>5, <2>7 DEF Control, Exclusive, Uses
  <2>10. /\ root'[q] = <<>> /\ \A r \in Queues : r # q => root'[r] = root[r]
         /\ Passed(pc[t]) = Len(root[q]) /\ count' = count
    BY <1>1, <2>4, EmptiedFacts, AllPassed DEF Emptied
  <2>11. View(root[q], pc[t]) = <<>>
    BY <1>1, <2>8, <2>10, EmptyView DEF OwnNumber, OwnLeft
  <2>12. ~OwnLeft(d) /\ Passed(d) = 0 /\ NoCall \in Call
    BY <2>2, NoCallType DEF OwnLeft, Passed
  <2>13. <<>> \in Seq(Node) /\ Len(<<>>) = 0
    OBVIOUS
  <2>14. View(<<>>, d) = <<>> /\ View(<<>>, NoCall) = <<>>
    BY <2>6, <2>12, <2>13, NoCallView, EmptyView DEF OwnNumber
  <2>15. CASE p = q
    <3>1. Worker(q, pc[t]) /\ Worker(q, d)'
      BY <2>4, <2>5, <2>6, <2>15 DEF Worker
    <3>2. TodoBar'[q] = TodoBar[q]
      BY <2>6, <2>8, <2>10, <2>11, <2>14, <3>1, ViewStep
    <3>3. ASSUME NEW r \in Queues, r # q PROVE TodoBar'[r] = TodoBar[r]
      BY <2>1, <2>4, <2>5, <2>6, <2>10, <2>15, <3>3, Untouched
    <3> QED
      BY <2>10, <3>2, <3>3, StutterStep
  <2>16. CASE p # q
    <3>1. Worker(q, pc[t]) /\ Worker(q, NoCall)'
      BY <2>4, <2>5, <2>6, <2>8, <2>16 DEF Worker
    <3>2. TodoBar'[q] = TodoBar[q]
      BY <2>8, <2>10, <2>11, <2>12, <2>14, <3>1, ViewStep
    <3>3. Worker(p, NoCall) /\ Worker(p, d)'
      BY <2>4, <2>5, <2>6, <2>9, <2>16 DEF Worker
    <3>4. View(root[p], NoCall) = View(root'[p], d)
      BY <2>7, <2>10, <2>12, <2>16, NoCallView DEF View, OwnNumber
    <3>5. TodoBar'[p] = TodoBar[p]
      BY <2>6, <2>7, <2>12, <3>3, <3>4, ViewStep
    <3>6. ASSUME NEW r \in Queues, r # q, r # p PROVE TodoBar'[r] = TodoBar[r]
      BY <2>1, <2>4, <2>5, <2>6, <2>10, <3>6, Untouched
    <3> QED
      BY <2>10, <3>2, <3>5, <3>6, StutterStep
  <2> QED
    BY <2>15, <2>16
<1> QED
  BY <1>2, <1>3

\* A view that is one number further.
LEMMA NextView ==
  ASSUME NEW s \in Seq(Node), NEW c \in Call, NEW d \in Call, Passed(c) \in Nat,
         Passed(d) = Passed(c) + 1, Passed(d) <= Len(s), d.cmd = c.cmd,
         OwnLeft(d) <=> OwnLeft(c)
  PROVE  View(s, c) # <<>> /\ View(s, d) = Tail(View(s, c))
<1> DEFINE v == View(s, c)
           w == View(s, d)
           p == Passed(c)
           m == Len(s) - p
           o == IF OwnLeft(c) THEN 1 ELSE 0
<1>1. Len(s) \in Nat /\ p \in Nat /\ p + 1 <= Len(s) /\ o \in 0..1 /\ Passed(d) = p + 1
  OBVIOUS
<1>2. /\ v \in Seq(Nat) /\ Len(v) = m + o
      /\ \A j \in 1..m : v[j] = s[p + j].n
      /\ OwnLeft(c) => v[m + 1] = c.cmd.n
  BY <1>1, ViewType
<1>3. /\ w \in Seq(Nat) /\ Len(w) = (Len(s) - (p + 1)) + o
      /\ \A j \in 1..(Len(s) - (p + 1)) : w[j] = s[(p + 1) + j].n
      /\ OwnLeft(c) => w[(Len(s) - (p + 1)) + 1] = c.cmd.n
  <2>1. Passed(d) \in Nat /\ Passed(d) <= Len(s)
    BY <1>1
  <2>2. /\ w \in Seq(Nat) /\ Len(w) = Len(s) - Passed(d) + (IF OwnLeft(d) THEN 1 ELSE 0)
        /\ \A j \in 1..(Len(s) - Passed(d)) : w[j] = s[Passed(d) + j].n
        /\ OwnLeft(d) => w[Len(s) - Passed(d) + 1] = d.cmd.n
    BY <2>1, ViewType
  <2> HIDE DEF w, p
  <2> QED
    BY <1>1, <2>2
<1>4. m \in Nat \ {0} /\ Len(s) - (p + 1) = m - 1
  BY <1>1
<1> HIDE DEF v, w, p, m, o
<1>5. Len(v) \in Nat \ {0} /\ v # <<>> /\ Len(w) = Len(v) - 1
  BY <1>1, <1>2, <1>3, <1>4
<1>6. ASSUME NEW j \in 1..Len(w) PROVE w[j] = v[j + 1]
  <2>1. CASE j <= m - 1
    <3>1. j \in 1..(m - 1) /\ j + 1 \in 1..m /\ (p + 1) + j = p + (j + 1)
      BY <1>1, <1>4, <2>1
    <3>2. w[j] = s[(p + 1) + j].n
      BY <1>3, <1>4, <3>1
    <3>3. v[j + 1] = s[p + (j + 1)].n
      BY <1>2, <3>1
    <3> QED
      BY <3>1, <3>2, <3>3
  <2>2. CASE ~(j <= m - 1)
    <3>1. o = 1 /\ j = m /\ (m - 1) + 1 = m
      BY <1>1, <1>3, <1>4, <2>2
    <3>2. OwnLeft(c)
      BY <3>1 DEF o
    <3>3. w[m] = c.cmd.n
      BY <1>3, <1>4, <3>1, <3>2
    <3> QED
      BY <1>2, <3>1, <3>2, <3>3
  <2> QED
    BY <2>1, <2>2
<1>7. Tail(v) \in Seq(Nat) /\ Len(Tail(v)) = Len(v) - 1 /\ \A j \in 1..Len(Tail(v)) : Tail(v)[j] = v[j + 1]
  BY <1>2, <1>5
<1>8. w = Tail(v)
  <2>1. Len(w) = Len(Tail(v)) /\ \A j \in 1..Len(w) : w[j] = Tail(v)[j]
    BY <1>5, <1>6, <1>7
  <2> QED
    BY <1>3, <1>7, <2>1, SameSequence
<1> QED
  BY <1>5, <1>8 DEF v, w

\* When the event of a command is set to complete, the command is the oldest one.
LEMMA MarkCompleteCompletes ==
  ASSUME Control, Control', NEW t \in Threads, MarkComplete(t)
  PROVE  \E q \in Queues : Abstract!Complete(q)
<1>0. PICK c, r, d : /\ c = [pc[t] EXCEPT !.at = "release"] /\ r = Released(Current(t))
                     /\ d = [c EXCEPT !.rel = r]
  OBVIOUS
<1>1. /\ pc[t].at = "complete" /\ pc' = [pc EXCEPT ![t].at = "release", ![t].rel = r]
      /\ UNCHANGED <<root, count>>
  BY <1>0 DEF MarkComplete
<1>2. /\ Executing(t) /\ pc \in [Threads -> Call] /\ pc[t] \in Call /\ pc[t].i \in Nat
      /\ pc[t].q \in Queues /\ root[pc[t].q] \in Seq(Node) /\ pc[t].i <= Len(root[pc[t].q])
  BY <1>1, PlaceFacts DEF Executing, TypeOK
<1>3. r \in Seq(Bufs)
  BY <1>0, <1>2, CurrentFacts, ReleasedBuffers
<1>4. pc' = [pc EXCEPT ![t] = d]
  BY <1>0, <1>1, <1>2, NestedUpdate
<1>5. c \in Call /\ c.at = "release" /\ c.i = pc[t].i /\ SameCall(pc[t], c)
  <2>1. "release" \in Places
    BY DEF Places
  <2> QED
    BY <1>0, <1>2, <2>1, AtUpdate
<1>6. d \in Call /\ d.at = "release" /\ d.i = pc[t].i /\ SameCall(c, d)
  <2>1. d = [c EXCEPT !.rel = r]
    BY <1>0
  <2>2. d \in Call /\ d.at = c.at /\ d.i = c.i /\ SameCall(c, d)
    BY <1>3, <1>5, <2>1, RelUpdate
  <2> QED
    BY <1>5, <2>2
<1>7. PICK q \in Queues : q = pc[t].q
  BY <1>2
<1>8. pc'[t] = d /\ d.q = q /\ d.op = pc[t].op /\ d.cmd = pc[t].cmd
  BY <1>2, <1>4, <1>5, <1>6, <1>7 DEF SameCall
<1>9. Worker(q, pc[t]) /\ Worker(q, d)'
  BY <1>7, <1>8 DEF Worker
<1>10. TodoBar[q] = View(root[q], pc[t]) /\ TodoBar'[q] = View(root[q], d)
  BY <1>1, <1>2, <1>6, <1>9, ViewStep
<1>11. OthersSame(q)
  <2>1. ASSUME NEW p \in Queues, p # q PROVE TodoBar'[p] = TodoBar[p]
    BY <1>1, <1>4, <1>6, <1>7, <1>8, <2>1, Untouched
  <2> QED
    BY <2>1 DEF OthersSame
<1>12. View(root[q], pc[t]) # <<>> /\ View(root[q], d) = Tail(View(root[q], pc[t]))
  <2>1. CASE pc[t].i = 0
    <3>1. pc[t].op = "exec" /\ root[q] = <<>> /\ root[q] \in Seq(Node)
      BY <1>2, <1>7, <2>1, CurrentFacts
    <3>2. Passed(pc[t]) = Len(root[q]) /\ OwnLeft(pc[t])
      BY <1>1, <2>1, <3>1 DEF Passed, OwnLeft
    <3>3. Passed(d) = Len(root[q]) /\ ~OwnLeft(d)
      BY <1>6, <2>1, <3>1 DEF Passed, OwnLeft
    <3>4. View(root[q], pc[t]) = <<pc[t].cmd.n>> /\ View(root[q], d) = <<>>
      BY <1>2, <1>6, <3>1, <3>2, <3>3, EmptyView DEF OwnNumber
    <3> QED
      BY <3>4
  <2>2. CASE pc[t].i # 0
    <3>1. Passed(pc[t]) = pc[t].i - 1 /\ Passed(d) = pc[t].i
      BY <1>1, <1>6, <2>2 DEF Passed
    <3>2. /\ Passed(pc[t]) \in Nat /\ Passed(d) = Passed(pc[t]) + 1 /\ Passed(d) <= Len(root[q])
          /\ root[q] \in Seq(Node)
      BY <1>2, <1>7, <2>2, <3>1
    <3>3. OwnLeft(d) <=> OwnLeft(pc[t])
      BY <1>6, <1>8, <2>2 DEF OwnLeft
    <3> QED
      BY <1>2, <1>6, <1>8, <3>2, <3>3, NextView
  <2> QED
    BY <2>1, <2>2
<1> QED
  BY <1>1, <1>10, <1>11, <1>12, CompleteStep

LEMMA RunStep ==
  ASSUME Control, Control', NEW t \in Threads, Run(t)
  PROVE  Stutters \/ \E q \in Queues : Abstract!Complete(q)
<1>1. CASE StartCommand(t)
  <2>1. pc[t].at = "node" /\ (Goto(t, "assert") \/ Goto(t, "device")) /\ UNCHANGED <<root, count>>
    BY <1>1 DEF StartCommand, AtCommand
  <2> QED
    BY <2>1, PlaceStutters DEF Places
<1>2. CASE DeviceDone(t)
  <2>1. pc[t].at = "device" /\ Goto(t, "assert") /\ UNCHANGED <<root, count>>
    BY <1>2 DEF DeviceDone
  <2> QED
    BY <2>1, PlaceStutters DEF Places
<1>3. CASE AssertRunning(t)
  <2>1. pc[t].at = "assert" /\ Goto(t, "complete") /\ UNCHANGED <<root, count>>
    BY <1>3 DEF AssertRunning
  <2> QED
    BY <2>1, PlaceStutters DEF Places
<1>4. CASE FinishReturn(t) \/ FinishRelease(t)
  <2>1. /\ pc[t].op \in {"return", "release_queue", "release_event"} /\ Emptied(t)
        /\ pc' = [pc EXCEPT ![t] = NoCall]
    BY <1>4 DEF FinishReturn, FinishRelease
  <2> QED
    BY <2>1, CallEndStutters
<1> QED
  BY <1>1, <1>2, <1>3, <1>4, MarkCompleteCompletes, ReleaseBufferStutters, NextCommandStutters,
     FinishExecStutters, FinishWaitStutters DEF Run

\* Where no command is an unmap and malloc does not fail, the queues implement
\* InOrderQueue: the commands of one queue take effect one at a time and in the order
\* of the calls that enqueued them, whichever thread executes them, for any number of
\* threads, queues, devices and commands.
THEOREM QueuesInOrder == ASSUME AllQueued PROVE Spec => InOrder
<1>1. Init => Abstract!Init
  <2> SUFFICES ASSUME Init PROVE Abstract!Init
    OBVIOUS
  <2>1. Control
    BY InitControl
  <2>2. count = 0 /\ \A t \in Threads : pc[t] = NoCall
    BY DEF Init
  <2>3. NoCall.q \notin Queues /\ NoCall \in Call
    BY NoCallType, HandlesAssumption DEF Objects
  <2>4. ASSUME NEW q \in Queues PROVE TodoBar[q] = <<>>
    <3>1. root[q] = <<>> /\ <<>> \in Seq(Node) /\ Len(<<>>) = 0
      BY DEF Init
    <3>2. Worker(q, NoCall)
      BY <2>2, <2>3 DEF Worker
    <3>3. TodoBar[q] = View(root[q], NoCall)
      BY <2>1, <2>3, <3>2, TodoIs DEF TodoViews
    <3> QED
      BY <2>3, <3>1, <3>3, NoCallView, EmptyView DEF OwnNumber
  <2>5. TodoBar = [q \in Queues |-> <<>>]
    BY <2>4, TodoFunction
  <2>6. DoneBar = {}
    BY <2>2 DEF DoneBar
  <2> QED
    BY <2>5, <2>6 DEF Abstract!Init
<1>2. Control /\ [Next]_vars => [Abstract!Next]_<<TodoBar, DoneBar>>
  <2> SUFFICES ASSUME Control, [Next]_vars
               PROVE  Stutters \/ Abstract!Next
    BY DEF Stutters
  <2>1. Control'
    BY NextControl
  <2>2. CASE UNCHANGED vars
    BY <2>1, <2>2, QuietStutters DEF vars
  <2>3. ASSUME NEW t \in Threads, Request(t) PROVE Stutters \/ Abstract!Next
    BY <2>1, <2>3, RequestStep DEF Abstract!Next
  <2>4. ASSUME NEW t \in Threads, Run(t) PROVE Stutters \/ Abstract!Next
    BY <2>1, <2>4, RunStep DEF Abstract!Next
  <2> QED
    BY <2>2, <2>3, <2>4 DEF Next
<1> QED
  BY <1>1, <1>2, ControlInvariant, PTL DEF Spec, InOrder, Abstract!Spec
=============================================================================
