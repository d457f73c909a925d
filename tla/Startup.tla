-------------------------------- MODULE Startup --------------------------------
(***************************************************************************)
(* How a computation's threads find each other (communication/src:         *)
(* networking.rs, initialize.rs, lib.rs promise_futures, allocator/        *)
(* process.rs, zero_copy/initialize.rs, allocator.rs, allocator_process.rs *)
(* and the beginnings of send_loop and recv_loop).                         *)
(*                                                                         *)
(* Each process connects to those before it, accepts those after it, and   *)
(* starts a send and a receive thread for each and its workers.  What a    *)
(* thread drains it makes itself, and sends a handle through channels made *)
(* in advance; what others drain it waits for.  A worker is built when it  *)
(* has all of its handles.  From then on, messages are routed by indexes.  *)
(***************************************************************************)
EXTENDS Integers, Sequences, FiniteSets

CONSTANTS
  Shapes,  \* pairs of numbers <<processes, threads per process>>
  Configs  \* a subset of {"cluster", "process", "process_binary"}

\* Config: the kinds there are; a computation has a process, and a process a worker.
ShapesAssumption ==
  /\ Configs \subseteq {"cluster", "process", "process_binary"}
  /\ Shapes \subseteq (Nat \ {0}) \X (Nat \ {0})

VARIABLES
  config,    \* the configuration of this behaviour
  shape,     \* its processes and threads
  listening, \* processes that accept connections
  connected, \* [process -> Nat]: start_connections' connections so far
  backlog,   \* [process -> sequence of processes]: connections not accepted
  accepted,  \* [process -> set of processes]: those await_connections has
  step,      \* [thread -> Nat]: what a thread has done of its part
  mail       \* triples <<from, to, what>>: handles sent, of what `from' drains

vars == <<config, shape, listening, connected, backlog, accepted, step, mail>>

-----------------------------------------------------------------------------
(* Processes and threads *)

Proc == 0 .. shape[1] - 1
ThreadIndex == 0 .. shape[2] - 1

\* The other processes, in the order of their sockets.
Remotes(p) == [i \in 1 .. shape[1] - 1 |-> IF i - 1 < p THEN i - 1 ELSE i]

Worker == {<<"worker", p, t>> : p \in Proc, t \in ThreadIndex}
NetThread == {<<k, p, i>> : k \in {"send", "recv"}, p \in Proc, i \in 1 .. shape[1] - 1}
AnyThread == Worker \cup NetThread

\* What threads have in common: worker t of a process by its position, from one.
Local(p) == [t \in 1 .. shape[2] |-> <<"worker", p, t - 1>>]
Network(k, p) == [i \in 1 .. shape[1] - 1 |-> <<k, p, i>>]

\* promise_futures: senders[a][b] and recvers[b][a] are ends of one channel.
Sends(from, tos, what) == [k \in DOMAIN tos |-> [op |-> "send", to |-> tos[k], what |-> what]]
Recvs(froms, what) == [k \in DOMAIN froms |-> [op |-> "recv", from |-> froms[k], what |-> what]]

MutantBuzzers(w) == Recvs(Local(w[2]), "buzzer") \o Sends(w, Local(w[2]), "buzzer")

\* process.rs build: "Initialize buzzers; send first, then recv."
Buzzers(w) == Sends(w, Local(w[2]), "buzzer") \o Recvs(Local(w[2]), "buzzer")

\* allocator_process.rs build: a queue for each worker of the process, and theirs.
Queues(w) == Sends(w, Local(w[2]), "queue") \o Recvs(Local(w[2]), "queue")

\* allocator.rs build: queues for the receive threads and from the send threads, then
\* what the workers of a process do among themselves.
RemoteQueues(w) ==
  Sends(w, Network("recv", w[2]), "queue") \o Recvs(Network("send", w[2]), "queue") \o Buzzers(w)

\* GenericBuilder::build: of the allocator that the configuration has.
Build(w) ==
  CASE config = "process" -> Buzzers(w)
    [] config = "process_binary" -> Queues(w)
    [] config = "cluster" -> RemoteQueues(w)

\* How send_loop and recv_loop begin.
SendLoop(th) == Sends(th, Local(th[2]), "queue")
RecvLoop(th) == Recvs(Local(th[2]), "queue")

\* What each thread sends and waits for, in order.
Part(th) ==
  CASE th[1] = "send" -> SendLoop(th)
    [] th[1] = "recv" -> RecvLoop(th)
    [] th[1] = "worker" -> Build(th)

Done(th) == step[th] = Len(Part(th))

-----------------------------------------------------------------------------
(* Connections *)

\* await_connections begins by binding its listener.
Listen(p) ==
  /\ p \notin listening
  /\ listening' = listening \cup {p}
  /\ UNCHANGED <<config, shape, connected, backlog, accepted, step, mail>>

\* start_connections: one after the other, retried until someone listens.
Connect(p) ==
  /\ connected[p] < p
  /\ connected[p] \in listening
  /\ backlog' = [backlog EXCEPT ![connected[p]] = Append(@, p)]
  /\ connected' = [connected EXCEPT ![p] = @ + 1]
  /\ UNCHANGED <<config, shape, listening, accepted, step, mail>>

\* await_connections: whoever comes says who it is.
Accept(p) ==
  /\ backlog[p] # <<>>
  /\ accepted' = [accepted EXCEPT ![p] = @ \cup {Head(backlog[p])}]
  /\ backlog' = [backlog EXCEPT ![p] = Tail(@)]
  /\ UNCHANGED <<config, shape, listening, connected, step, mail>>

\* create_sockets has returned, and the threads are spawned.
Spawned(p) ==
  \/ config # "cluster"
  \/ /\ p \in listening
     /\ connected[p] = p
     /\ Cardinality(accepted[p]) = shape[1] - p - 1

-----------------------------------------------------------------------------
(* Threads *)

CanMove(th) ==
  /\ Spawned(th[2])
  /\ ~Done(th)
  /\ LET next == Part(th)[step[th] + 1]
     IN  next.op = "recv" => <<next.from, th, next.what>> \in mail

\* The next handle is sent, or the one that is next waited for was received.
Move(th) ==
  /\ CanMove(th)
  /\ LET next == Part(th)[step[th] + 1]
     IN  IF next.op = "send"
         THEN mail' = mail \cup {<<th, next.to, next.what>>}
         ELSE UNCHANGED mail
  /\ step' = [step EXCEPT ![th] = @ + 1]
  /\ UNCHANGED <<config, shape, listening, connected, backlog, accepted>>

-----------------------------------------------------------------------------
Init ==
  /\ config \in Configs
  /\ shape \in {s \in Shapes : config = "cluster" \/ s[1] = 1}
  /\ listening = {}
  /\ connected = [p \in Proc |-> 0]
  /\ backlog = [p \in Proc |-> <<>>]
  /\ accepted = [p \in Proc |-> {}]
  /\ step = [th \in AnyThread |-> 0]
  /\ mail = {}

Next ==
  \/ config = "cluster" /\ \E p \in Proc : Listen(p) \/ Connect(p) \/ Accept(p)
  \/ \E th \in AnyThread : Move(th)

Spec == Init /\ [][Next]_vars

-----------------------------------------------------------------------------
(* Routing, once the workers are built *)

Index(w) == w[2] * shape[2] + w[3]

\* Who drains what the k-th handle of a kind leads to that a thread waited for, if there
\* are so many.
Waits(th, what) == {i \in DOMAIN Part(th) : Part(th)[i].op = "recv" /\ Part(th)[i].what = what}

Received(th, what, k) ==
  LET kth(i) == Cardinality({j \in Waits(th, what) : j <= i}) = k
  IN  IF \E i \in Waits(th, what) : kth(i)
      THEN Part(th)[CHOOSE i \in Waits(th, what) : kth(i)].from
      ELSE <<>>

MutantSendIndex(w, target) == target \div shape[2]

\* TcpAllocator::allocate: where among its sends a worker has the one for a target.
SendIndex(w, target) ==
  LET process_id == target \div shape[2]
  IN  IF process_id > Index(w) \div shape[2] THEN process_id - 1 ELSE process_id

\* The thread whose queue or buzzer a message meets at last: the worker's own process by
\* position; another through the thread that drains the queue it was given, the process
\* at the other end of that thread's socket, and the queue that the receive thread there
\* has for the target, counted from its first worker.
Destination(w, target) ==
  IF config = "process_binary" THEN Received(w, "queue", target + 1)
  ELSE IF target \div shape[2] = Index(w) \div shape[2]
  THEN Received(w, "buzzer", (target % shape[2]) + 1)
  ELSE LET sender == Received(w, "queue", SendIndex(w, target) + 1)
           remote == Remotes(sender[2])[sender[3]]
           there  == CHOOSE i \in DOMAIN Remotes(remote) : Remotes(remote)[i] = sender[2]
       IN  IF sender = <<>> THEN <<>>
           ELSE Received(<<"recv", remote, there>>, "queue", target - shape[2] * remote + 1)

Built == \A th \in AnyThread : Done(th)

\* "target: index of worker receiving message": what a worker that has all its handles
\* pushes for a target is drained by that worker and by no other, in and between processes.
PushersReachTargets ==
  \A w \in Worker : Done(w) => \A v \in Worker : Destination(w, Index(v)) = v

\* The threads that wait for each other's handles never all wait: until everything is
\* built someone can move, whatever the order in which processes come up.
NobodyWaitsForever ==
  \/ Built
  \/ \E th \in AnyThread : CanMove(th)
  \/ /\ config = "cluster"
     /\ \E p \in Proc : \/ p \notin listening
                        \/ connected[p] < p /\ connected[p] \in listening
                        \/ backlog[p] # <<>>

=============================================================================
