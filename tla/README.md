# A TLA+ development of timely dataflow (with the FPGA wrapper)

This directory models the parts of the repository whose correctness depends on the order
in which things happen: how workers learn that nothing more can arrive at a time, how a
worker decides to run an operator or to sleep, how bytes and failures travel between
processes, when a dataflow is over, what operators may conclude from their frontiers, and
the sequential parts whose bookkeeping is subtle (change batches, the compilation of a
scope, the radix sorters).  The modules are checked with TLC on small
instances, and the safety results that matter most are proved with TLAPS for every value
of the constants.

All paths below are relative to the repository, with `src/` in front.  The file
`PROJECT.json` lists, definition by definition, the lines each one stands for.

- [The system](#the-system)
- [The modules and the code](#the-modules-and-the-code)
- [What the runs check](#what-the-runs-check)
- [Fairness](#fairness)
- [What is proved](#what-is-proved)
- [Disagreements with the code's own comments](#disagreements-with-the-codes-own-comments)
- [What is not modelled](#what-is-not-modelled)
- [Plan](#plan)
- [Running it](#running-it)

## The system

A timely computation is a set of *workers*, threads of one or several processes, each of
which holds its own copy of every dataflow graph.  Operators exchange records that carry
logical timestamps.  The progress-tracking protocol tells every operator, on every
worker, a *frontier*: the times that may still arrive at its inputs.  Everything a program
may conclude ("epoch 3 is over, print the result") rests on frontiers never being wrong
and on their eventually moving.

    user code        input handles, capabilities, notificators, probes, the sequencer
                         |  counts consumed / internal / produced          ^ frontiers
    operators        builder_raw .. generic/operator, fpga_wrapper         |
                         v                                                 |
    scope            Subgraph::schedule: collect counts, withhold or broadcast them,
                     receive those of others, propagate, hand out frontier changes
                         |  Progcaster           | Tracker          | MutableAntichain
                         v
    worker           step_or_park: events -> activations -> run or sleep
                         |
    channels         thread / process channels; zero-copy: MergeQueue, send and receive
                     threads, TCP streams

### Components

**Frontiers** (`timely/src/progress/frontier.rs`).  *State:* an append-only list of updates
to a multiset of times, a suffix of it not yet examined, a cached antichain.  *Operations:*
`update_dirty`, `update_iter`, `empty`, `clear`, `rebuild`.  *Hard:* the cache is rebuilt
only when a look at each dirty entry alone says that it may have changed.  *Correct when:*
after `update_iter` the cache is the minimal positive times, and the reported changes
always add up to it.

**Change batches** (`progress/change_batch.rs`).  Lists of `(time, delta)`, compacted now and
then.  *Correct when:* what is drained is, time by time, the sum of what was put in.

**Reachability** (`progress/reachability.rs`).  *State:* for every port, the counts of the
pointstamps there and of the times implied there, a worklist, the changes to hand out,
projections to the scope's outputs, a total.  *Operations:* `update_*`, `propagate_all`,
`is_global`, and the builder's `summarize_outputs` and `is_acyclic`.  *Hard:* propagation is
incremental and goes round cycles; retracted times must not keep themselves alive, and the
loop must end.  *Correct when:* the implications are those found by following every path.

**Scopes** (`progress/subgraph.rs`, `progress/broadcast.rs`, `progress/operate.rs`).  *State:*
the operators with their shared progress, `local_pointstamp`, `final_pointstamp`, the
tracker, the `Progcaster`, the count of incomplete children.  *Operations:* `build`,
`schedule` (receive, propagate, activate children, collect their counts, send).  *Hard:*
several workers, batches that arrive in different orders at different workers, records
that overtake the batches that announce them, updates withheld in demand mode.  *Correct
when:* no worker's frontier passes a time that may still appear; frontiers are never taken
back; they eventually pass what cannot appear; the scope is over exactly when nothing is
left.

**Worker and activations** (`worker.rs`, `scheduling/activate.rs`).  *State:* the paths
activated since the last step, those presented to this one, delayed ones, those sent by
other threads, the dataflows.  *Operations:* `step_or_park`, `activate`, `activate_after`,
`SyncActivator::activate`, `advance`, `for_extensions`, `dataflow`.  *Hard:* the tests that
precede a `park` are made one after the other while other threads act.  *Correct when:* a
worker never sleeps on work, and no request to run is forgotten.

**Channels between the threads of a process** (`communication/src/allocator/{thread,process,
counters,generic}.rs`, `buzzer.rs`).  *State:* queues of messages, queues of events, park
tokens.  *Hard:* pushing a message, announcing it and unparking its reader are three calls.

**Queues and network threads** (`communication/src/allocator/zero_copy/{bytes_exchange,tcp,
push_pull,allocator,allocator_process,bytes_slab}.rs`, `networking.rs`).  *State:* a
`MergeQueue` per worker and thread, its reference count and panic flag, the buffered
stream, partial messages.  *Hard:* wakeups are sent only when a queue becomes non-empty;
shutdown is detected from reference counts; panics travel as flags; a stream may end in
the middle of a message.  *Correct when:* messages arrive, in order, once; a clean shutdown
ends both threads and harms nobody; a failure reaches everyone.

**Allocators** (`zero_copy/{allocator,allocator_process,push_pull}.rs`, `canary.rs`).  *State:*
queues of messages by channel, the bound below which channels are known, the canaries of
dropped pullers.  *Operations:* `allocate`, `receive`, `push`, `pull`.  *Hard:* a message may
come before its channel is allocated or after its puller is gone.

**Shared byte buffers** (`bytes/src/lib.rs`, `bytes_slab.rs`).  *State:* slices of reference
counted allocations, owned by different threads; a slab with its stash.  *Operations:*
`extract_to`, `try_merge`, `try_regenerate`, `make_bytes`, `ensure_capacity`.  *Correct when:*
live slices are never written again, and a buffer is reused only when none is left.

**Start-up** (`initialize.rs`, `networking.rs`, `allocator/process.rs`, `execute.rs`).  Threads
connect, exchange handles through channels made in advance, and from then on route by
index.  *Correct when:* nobody waits for ever and every index leads to its worker.

**Capabilities, inputs, operator channels** (`dataflow/operators/{capability,input,
unordered_input}.rs`, `dataflow/channels/`).  They turn what user code does into the counts
the scope collects, and hold records back in buffers.  *Correct when:* a count is reported
no later than what it stands for can be observed, and closing an input releases everything.

**Notificators** (`generic/notificator.rs`).  *State:* requests pending and requests available,
each with a capability.  *Operations:* `notify_at`, `make_available`, `next`, `for_each`.
*Correct when:* a time is complete when it is notified, no request or capability is lost or
doubled.  Aggregations, `delay` and `reclock` are written with them.

**FPGA wrapper** (`fpga_wrapper.rs`, `fpga_wrapper_simulation.rs`).  One operator drives
several *ghost* operators whose work a device does: it writes input and frontiers to the
device and spreads the counts in its answer over the ghosts' shared progress.  Ghosts are
part of the tracked graph and are never scheduled; the wrapper is scheduled and is not
tracked.

**Sequencer and barrier** (`synchronization/`).  Elements pushed on any worker are stamped with
a reading of its timer, broadcast, sorted, and released when the frontier passes them.
*Correct when:* every worker is given the same sequence, but for elements that nothing tells apart.

**Capture and replay** (`operators/capture/`).  A stream with its progress is written as events,
and several such event streams are read back as one stream.  *Correct when:* the replayed
frontier never passes what a capture may still bring, and at the end everything is there.

**Radix sort** (`src/sort`).  Four sorters over lists of batches, with memory that is recycled and
written without bounds checks.  **Probes, feedback** and the other operators build on these
promises; **logging** writes streams that may be
replayed, and may feed channels; the **Kafka bridge** carries captured bytes.

### What is hard to test here

`PROJECT.json` lists the hazards line by line.  In short: steps of several threads between
a test and the `park` that follows it; batches and records in every order; updates held
back by everyone at once; a quick test of a cache; a count that drifts from the flags it
counts; the last message of a worker that leaves; a crash in the middle of a message;
propagation round a cycle; memory that is written while somebody still reads it; a message
for a channel that is not there yet, or no more; capabilities that are merged, cloned and
dropped; records that stay in a buffer when their epoch is closed; several captures that
begin at different moments; threads that build themselves from each other's handles.

## The modules and the code

| module | models | composed with |
| --- | --- | --- |
| `MutableAntichain` | `frontier.rs`: one antichain under any sequence of calls | |
| `Reachability` | `reachability.rs`: the `Tracker` of one scope | takes antichains by their specification, proved in `OperatorsProofs` |
| `ReachabilityProofs` | theorems about it, and those about `FpgaWrapper` as `MCReachability` runs it | `MCReachability` |
| `ProgressTracking` | one scope on several workers: `Subgraph::schedule`, `Progcaster`, operators, records | takes the tracker by its result, proved in `ReachabilityProofs` |
| `ProgressSpec` | what the protocol promises | implemented by `ProgressTracking` (`Promise`) |
| `ProgressTrackingProofs` | theorems about it, on lemmas about sums | `ProgressTracking` |
| `Completion` | the count of incomplete children and the end of a dataflow | |
| `CompletionProofs` | theorems about it | `MCComponents` |
| `Scheduling` | `step_or_park`, activations, channels inside a process | |
| `SchedulingProofs` | theorems about it | `Scheduling` |
| `Networking` | one direction between two processes | |
| `NetworkingProofs` | theorems about it | `Networking` |
| `FpgaWrapper` | the wrapper, its ghosts and the device, in one program | a third use of counts committed to a tracker, on one worker |
| `FpgaWrapperProofs` | theorems about ghosts and the probe | `FpgaWrapper` |
| `Streams` | an input, a session, the exchange and its receivers | its counts are what `ProgressTracking` carries |
| `Notifications` | notificators, capabilities and the operators built with them | told of frontiers as `ProgressSpec` promises |
| `Sequencing` | the sequencer | told of frontiers as `ProgressSpec` promises |
| `OperatorsProofs` | theorems about `MutableAntichain`, `Streams` and `Sequencing` | `MCOperators`, which has the three |
| `Capturing` | capture and replay, linked list or bytes | |
| `ZeroCopy` | slabs, slices, the queue and the channels of an allocator | what is cut and merged behind `Networking`'s messages |
| `Startup` | connections, handles, routing | makes the threads of `Networking` and `Scheduling` |
| `ComponentsProofs` | theorems about `Notifications`, `Startup`, `ChangeBatch`, `Logging` and `Capturing` | `MCComponents`, which has the five |
| `Logging` | the registry, loggers and `BatchLogger` | writes the events that `Capturing` replays |
| `ScopeBuilder` | `reorganize_edges` and the reachability builder | computes the summaries `Reachability` takes as constants |
| `ChangeBatch` | `change_batch.rs` | the batches every other module takes as functions |
| `RadixSort` | `src/sort` | |

The `MC...` modules define the graphs, orders and bounds of the instances.  Three of them
run several components: a variable `which` picks one at the start, and only that one moves.
`MCComponents` does so for `Notifications` and eight more whose promises are safety
properties, `MCOperators` for `MutableAntichain` and for `Streams` and `Sequencing`, which need
fairness, and `MCReachability` for the tracker and the wrapper that reports to one.  Such a
composition adds no interaction; what is checked is each component by itself.  The module that
is extended keeps the names of its properties, the others are instances.  The variables of an instance have a prefix (`zc_slab`
is `slab` of `ZeroCopy`).

The layers are joined by specification, not by inclusion.  `MutableAntichain` is modelled
down to its dirty suffix and proved to have, whenever it is read, the minimal positive
times as its frontier and to report the differences of that frontier; `Reachability` then
represents each antichain by its counts and uses just that.  `Reachability` is modelled
down to the worklist and proved to converge to what path-following gives;
`ProgressTracking` then represents a tracker by the counts committed to it, and is proved to
implement `ProgressSpec`.  So each module is small enough to be explored, and none assumes
what no other module shows; what `Reachability` assumes of the compiled summaries is what
`ScopeBuilder` is checked for, of scopes in which a wrapper feeds one port.

### MutableAntichain

`count` is the sum of the deltas in `updates` for each time, `listed` the times that occur
there, `dirty` the entries behind the clean prefix.  The order of entries is not kept: the
code only asks whether *some* dirty entry demands a rebuild (`DemandsRebuild`, lines
410-420).  `Rebuild` scans in the order `sort_by` makes, which is `Before`, any total order
that extends the partial order.  `reported` is a history: what a caller has that adds up
every change it was given, which is how every caller in the code uses them.

### Reachability

`Update` is `update_source`/`update_target`; `CommitChanges` is step 1 of `propagate_all`,
including the projection to the outputs; `Pop` is one iteration of its loop; `Return` its
end.  The heap is the net change per (time, location), because a pop drains and adds all
equal entries before acting, and an entry whose net is zero does nothing.  `pushed` and
`output_changes` are sums of everything handed out.

What the results should be is a definition by paths: `Hop` is one step along an edge or
across an operator, `LeadsTo` any number of them.  Four assumptions say what a scope is.
`less_equal` is a partial order (`LeqPartialOrder`); `results_in` goes to later times, keeps
their order, and overflows for the later of two times first (`SummaryAssumption`); no path
comes back to where it started (`AcyclicAssumption`), which is what `is_acyclic` looks for and
without which propagation would not end; and the compiled summaries yield the minimal times
of the paths to the output (`OutputAssumption`), which is *GraphCompiled* of `ScopeBuilder`.
Updates are never issued at the scope's output: `propagate_pointstamps` sends those of child
zero to the parent instead (subgraph.rs:558-577).  Times are finite in number, as machine
numbers are.

### ProgressTracking

One schedule call is `BeginSchedule` (receive the batches that have arrived, propagate),
then `ActivateChild` for operators in index order, then `EndSchedule` (send or withhold).
While an operator is active, it may `ReceiveRecord`, `SendRecord`, `Downgrade` and `Drop`
capabilities; an input handle does so between schedule calls and its operator reports the
changes when it is next active.  `cursor` makes a schedule call atomic only where the
code is: another worker may do anything between two of these steps.  Each pair of workers
has a queue of batches; `BeginSchedule` takes any number from each, so that different
workers see different interleavings.  Of its own batches a worker takes all: what it sent in
one step it has flushed (`release`) by the end of that step and receives at the start of the
next, before it schedules anything (worker.rs:177 and 257).  `MustSend` is the test of `send_progress` with
`is_global`, on the tracker's state at the end of the call.

`Held` and `Outstanding` look at the whole computation, which no worker can; the properties
compare what workers believe with that.

### Completion

The children of the root scope with their last answers, `incomplete_count` with the width
of a `usize` (scaled down: `UsizeModulus`), the operators shut down, and what the tracker
still holds (`drained`: the children it no longer has anything for).  A child may be
activated at any moment.  Which children may return `true` is a constant of the layout.

### Scheduling

One action per statement of `step_or_park` that touches shared state: `Receive`,
`Advance`, `DecideToPark`/`DecideToRun`, `AwaitEvents`, `Unparked`, and then
`BeginSchedule`, `RunOperator` and `EndSchedule` for the dataflow.  Another thread's
`ArcPusher::push` is three steps in the order of `PushOrder`; a `SyncActivator`'s call is
two.  `Thread::unpark` and `park` are the token.  Progress arrives in a channel read by the
scope itself, and moves any set of frontiers (`moved`).

### Networking

Two or more sending workers, their queues to the send thread, the `BufWriter`, the TCP
stream, the receive thread, the queues to the receiving workers.  A message is two units,
header and payload, so that a write, a read or a crash may cut it in two.  `extend` is two
steps, the second of which (`Ping`, `HandPing`) is the wakeup made after the lock is
released; `drop` of a handle is likewise two; a panic is a step before them that sets the
flag.  `is_complete` is `CheckLast` and `CheckEmpty`, because it looks at the reference
count and then takes the lock.  A send thread that panics (`SendPanic`) has one of two clones of
the socket, so the stream stays open; it ends with the other clone (`LastClone`), when the
receive thread of that process or the process itself ends.
What a read completes (`Completed`) and what of it is for one worker (`Stage`) are the
entries of a sequence at a set of positions (`At`), in their order.

### FpgaWrapper

One worker running the dataflow of `examples/hello.rs`: an input handle, the wrapper with
its chain of ghosts, an inspecting operator and a probe.  Children have the indices of the
code, ghosts before the wrapper, because the schedule goes through them in that order and
does not go back (`Revisited`).  The tracked edges are those of `reorganize_edges`
(`Follows`), the tracker is its counts with the frontier read off them (`Frontier`; all
summaries are the identity here), and `BeginSchedule` hands frontier changes of the ghosts
to the wrapper (`Notified`).  The wrapper's logic is one action per round:
`ExchangeMessage` for a turn of its `while` loop, `ExchangeNothing` for the request it makes
when there was no message, `WrapperReturns` for the end of the call together with
`extract_progress`, which turns `shared` into counts in the names of the ghosts (`Reported`)
and puts on the list the children that follow a ghost with a change in `produceds`: any but
zero, or a single one of zero, which the draining of a batch does not remove (`Drained`).  `stale` are the ghosts
whose own capabilities, which the tracker never heard of, have not been extracted.

The device is external.  What is assumed of it is what the code reads: a request with a
message is answered with what each ghost consumed and produced and whether a window was
opened; one without a message lets it emit the earliest window its frontier has passed;
each call takes the oldest answer, or none.  How many records a message has and what they
become is left out, as is the layout of the 32 words, except that the device reads the
front of the buffer it is passed (`first`).

### ChangeBatch

Two lists, `self` and `other`, each with its clean prefix, so that one may be drained into
the other.  Every public operation is an action or folded into one (`update` is an `Extend`
by one pair).  `Compact` sorts, consolidates and drops zeros, except where the code returns
early, as it does for a list of one change, also if that is zero; `Threshold` stands for the 32
of `maintain_bounds`.  A list adds up position by position
(`SumAt`); what `sort_by` does to pairs of different times is given by their ranks (`Sorted`).
`total` is a history.

### ScopeBuilder

A graph is data: its ports, its edges, the summaries inside its operators, and which nodes are
a wrapper and its ghosts.  `Reorganize` does what `reorganize_edges` does: of the edges into
the wrapper it keeps one source and of those out of it one target, the last it comes to
(`StartSources`, `EndTargets`; the order of the edges is that of building the graph and left
open), and child zero's port if there is none.  `RemovePort` and
`AllRemoved` are the worklist of `is_acyclic`; `Walk` is one iteration of the loop of
`summarize_outputs`, which goes back along one source of each port (`ReverseEdge`) and keeps an
antichain of summaries per port and output (`Inserted`).
What they are compared with, `DataHops` and `Along`, is defined over the edges that data take,
not those the reorganisation made.

### RadixSort

A buffer is its capacity and its items, a sorter the tails and batches of each byte value, the
staged lines of the write-combining variants, and the stash.  `Push`, `PushBatch`, `LsbPass`,
`MsbFinish`, `Ingest`, `SortAnd`, `Rebalance` and `Again` are the public calls and the turns of
their loops.  `reserve` is what the code does, taking whatever buffer the stash has on top;
users put buffers there, of the capacities in `BatchCapacities`, with `PushBatch` and `Rebalance`.
`Vec::push` makes a buffer grow (`Grown`), the unchecked writes do not.  The elements of earlier
sessions are only counted (`earlier`); what they leave is in the sorter.

### Notifications

One schedule of an operator is `Start`, `Pull` for each message, `Notify` for each notification
and `Report`, in the order in which each operator's closure has its parts (`Steps`).
`pending` and `available` count requests for each time, because only their times and number
matter; the `merged` ones take a capability with them (`Merged`).  The logic is that of
`state_machine`, `aggregate`, `delay` and `reclock`, and of a user who asks again while being
notified.  Upstream may send anything its frontier admits, also between the parts.

### Capturing

`Capture` is one schedule of `capture_into`, `Replay` one of `replay_core` over all its event
streams.  `stream` has the events that were written and that `next` has not returned.  The linked
list is read whole; a byte stream is cut anywhere, also inside an event, of which each has
`Parts` parts: `buff1` counts those the reader holds, and `Decodable` is how many events
`EventReader` can decode of them.

### ZeroCopy

Memory is a sequence of cells for each allocation, a slice is a place and a length in one,
and a reference count is the set of slices that are held (`Shared`).  The producer is either
a `SendEndpoint` (`Push`) or the receive thread (`Arrive`, `Read`); the consumer is a worker's
allocator.  Cells carry the number, channel and length of their message, so that a header
can be read where the code reads one, and memory that was written again shows.
`ensure_capacity` is whole: reclaiming, growing, and copying what is valid.

### Startup

Each thread's part is a sequence of sends and receives of handles (`Part`), in the order of the
code; a process makes connections to those before it and accepts the others.  `Destination`
follows a pushed message by the indexes of the code, from the pusher through the sockets to
whoever drains the last queue.

### Logging

`bound` is what the registry's map has under one name, `clones` counts the loggers that parts of
the program hold, and `buffer`, `time` and `stream` are what the clones of one logger share.
`Published` is `publish_batch`; `Buffered` is one round of `log_many`, `Filled` all of them; `Dropped` is the drop of a
logger, which flushes, and of the action with the last one.  `Rebind` is `insert` and `remove`:
the caller is handed what was bound, and keeps or drops it.

### Streams

One worker's input, a `Handle` with epochs or an unordered input with sessions and
capabilities, before a `Counter`, a `Tee` and an `Exchange` to the targets.  `path` is what the
pushers hold.  `Schedule` is the input's operator, which reports both counts at once.
`StepsAnytime` says whether the program may let its worker step between sending a full buffer
and ending the epoch; see [below](#disagreements-with-the-codes-own-comments) for what that
does.

### Sequencing

`Push` and `Drop` are the user's; `Sequence` is the source, which reads its timer, moves its
capability there and broadcasts what was pushed; `Sink` sorts and releases.  `Observe` moves a
worker's frontier to the least time outstanding, as `ProgressSpec` permits.  A timer shows
any reading of its set (`Reading`), not only later ones than it showed to others, and the sets of
two workers may overlap; nothing is sent at the largest reading, which stands for all later ones.  `sort_by` is stable: in `Sorted` a message goes
to the place that is the number of those that `Precedes` puts before it, itself included.

## What the runs check

Every property except the type invariants is listed with what it says; the definitions
carry the longer comment.  A property that joins several of a component's, such as
*GraphCompiled*, does so by name in the `MC` module.

| run | module, configuration | distinct states |
| --- | --- | --- |
| `components` | `MCComponents`, `Components.cfg` | 1,413,215 |
| `wrapper_fan_out` | `MCComponents`, `WrapperFanOut.cfg` | stops at a violation |
| `any_buffers` | `MCComponents`, `AnyBuffers.cfg` | stops at a violation |
| `completion_pipeline` | `MCComponents`, `CompletionPipeline.cfg` | stops at a violation |
| `reachability` | `MCReachability`, `Reachability.cfg` | 26,518 |
| `fpga_wrapper_ahead` | `MCReachability`, `FpgaWrapperAhead.cfg` | stops at a violation |
| `progress_tracking` | `MCProgressTracking`, `ProgressTracking.cfg` | 151,265 |
| `progress_liveness` | `MCProgressTracking`, `ProgressLiveness.cfg` | 55,223 |
| `scheduling` | `MCScheduling`, `Scheduling.cfg` | 106,668 |
| `networking` | `Networking`, `Networking.cfg` | 396,030 |
| `operators` | `MCOperators`, `Operators.cfg` | 190,988 |
| `streams_mid_epoch` | `MCOperators`, `StreamsMidEpoch.cfg` | stops at a violation |

**components.**  Nine components, one after the other.

- *Change batches.*  Two times, changes of -1, 0 and 1, `Threshold` = 2 for the 32 of the code and
  `MaxUpdates` = 4 entries in the two lists, so that compaction is put off, forced, and leaves a
  clean prefix that is and is not more than half.  *BatchAgrees*: nothing is lost, what is read
  is consolidated, and `is_empty` is right, for any list but one of a single change of zero.
- *The builder.*  Every way to connect an operator of two inputs, one of one input and two scope
  outputs, with loops that do and do not advance time, unfed inputs and unread outputs; two
  ways round from one input, the longer of which may be the smaller; and a wrapper with two
  ghosts before, behind and around an operator, which feeds one port (`WrapperFeeds`).
  Two-component summaries, so that antichains have more than one member.  *GraphCompiled*: the
  summaries are the minimal ones over paths of data, and only default cycles are reported.
- *Sorters.*  `Radix` = 2, keys of two bytes, a cache line of two elements and buffers of two
  lines.  Without write combining four elements in all sessions of one sorter and users' buffers
  of one and three elements; with it five and one and two lines.  Every list may be empty, one
  buffer, or several, lines are drained full and in part, and buffers of one session are used
  in the next.  *SortedStable*: sorted, stable, complete, and no unchecked write beyond a
  buffer, for users' buffers that can hold an element and, with write combining, are whole lines.
- *Notifications.*  Two messages, one more request by a user while notified, over the four
  times above: requests at equal and at incomparable times.  *NotificationsSound* (a
  notified time is complete, and one session never goes back), *RequestsKept* (capabilities
  counted through merging and notification, and no stashed record is stranded),
  *OutputJustified* (what a schedule reports as produced or held is covered by a capability
  or a message; a state machine folds in order).  The clock `reclock` follows ticks at times
  one after the other (`ClocksTick`).
- *Capture.*  Two captures, two messages, events in two parts.  *ReplayFaithful*:
  nothing comes later than a replay's frontier allows, and at the end everything is there.
- *Shared memory.*  Messages of two and three cells through buffers of two cells at first, so
  that buffers fill exactly, with a remainder, and have to grow; three messages for two
  channels; four allocations, more than a behaviour of three messages needs at once.
  *SlicesIntact*, *ChannelsRouted*.
- *Start-up.*  One process of three workers, two of one or two, three of one; over sockets and in both
  forms within a process.  Three processes are enough for a process to have another on
  each side.  `StartInTurn` lets a process begin when the one before it is done: handles do not
  leave a process, and its threads wait for nothing another process does but connect.  *PushersReachTargets*, *NobodyWaitsForever*.
- *Logging.*  Two destinations under one name, up to two clones of each outside the registry,
  two readings of the clock, three events, logged one or two at a time, through buffers of
  two: a buffer fills within one call, is left with a rest, and is empty when flushed.
  *LogsFaithful*: events are in the streams in the order of logging, none is lost, each is
  sent under a capability that is held and no later than the event, and a stream ends
  exactly when nobody can log to it any more.
- *Completion.*  Six children of the kinds for which `SubgraphBuilder::build` is written: input,
  three ghosts, the wrapper, and one that is notified (`hello.rs` has two of those, and one more
  multiplies the states without a new kind of answer).  *CountsIncomplete*: the count is the number
  of incomplete children, over every sequence of answers.  *DroppedOnlyWhenComplete*.
  `UsizeModulus` = 16 stands for the width of `usize`: large enough that wrapping is
  recognisable.

**wrapper_fan_out**, **any_buffers**, **completion_pipeline.**  What *GraphCompiled*, *SortedStable* and
*DroppedOnlyWhenComplete* leave out of the inputs and programs the code accepts: see
[below](#disagreements-with-the-codes-own-comments).

**reachability.**  *The tracker.*  An iterative scope: input, an operator, a feedback that adds one to the
inner coordinate, the way out.  Times are pairs of two values; a feedback beyond the
largest value yields no time, as `checked_add` does.  Updates are issued at five
pointstamps, which together reach every port and both sides of the cycle; at most
`MaxBuffered` = 2 of them between two propagations, each with a count between
-`MaxCount` and `MaxCount` = 1, negative ones included.
*TrackerCorrect* (the result is that of following paths; the counts behind it are exact at every
pop; what was handed out adds up to the frontiers; totals are right), *OutputsCorrect*, *IsGlobalExact*, *PropagationTerminates*.
*The wrapper.*  Three ghosts, as in the code; epochs 0 to `MaxEpoch` = 2, so that a window
is kept, emitted and followed by another; `MaxAhead` = 1, the loop of `hello.rs` that waits for
the probe before it sends again.  The device may drop a message or keep it, and may be late
at every call.
*GhostsStandIn* (counts known, sent, shared and pending add up to what the handle, the
queues and the device hold, whenever no answer is outstanding; the initial capabilities
that the ghosts keep are never reported), *ProbeSafe* (also with late answers),
*EpochsComplete*.  The first and last
except what happens after a late answer: from then on each answer is taken for a later
request, counts are reported at that request's time, and an epoch may stay open for ever.

**fpga_wrapper_ahead.**  The same with `MaxAhead` = 2: see
[below](#disagreements-with-the-codes-own-comments).

**progress_tracking.**  Two workers, an input feeding an operator that feeds itself; in
either mode of sending, the same on both workers, as `DEFAULT_PROGRESS_MODE` sets it for
processes started alike (the proofs and `progress_liveness` have every mix).  Times 0 and `MaxTime` = 1, one record
(`MaxRecords`), at most `MaxBacklog` = 1 batch on the way between two workers (a
constraint).  Workers are interchangeable, and the properties do not name them:
the run uses that symmetry.
*Consistent* (types; nothing lost, nothing counted twice, for every worker, at every
moment), *FrontiersSafe*, *ImplementsPromise*: every behaviour
maps to one of `ProgressSpec`, with `outstanding` the records and capabilities that exist
anywhere and `passed[w]` what w's frontiers exclude.  All three are also proved; the run is
where they, and the inductive invariant behind the proofs, were first tried.

**progress_liveness.**  The scope of `progress_tracking` with each worker in either mode,
one time, and no bound on the batches under way.  *FrontiersProgress*:
whatever can no longer happen is eventually passed by every worker's frontier, also when
every worker withholds updates.  One time is enough for every worker to withhold at once
and for the records to reach every port; more times add interleavings of independent
updates.  No symmetry is used here.

**scheduling.**  Two operators, the second feeding the first (against the index order, so
that a message may be for an operator already passed in this call); a peer thread that
pushes data and progress; a thread with a `SyncActivator`; an input handle; a timer; a log
action that may feed the channel while the worker is about to park.  `MaxQueue` = 1: a
second message in a channel changes nothing a worker looks at.
*SleepsOnlyWhenIdle*, *MessagesRead*, *ActivationsHonoured*.

**networking.**  Two senders, one of which may panic, one receiver, two messages in all, a
crash of the sending process at any moment.  Two messages let a queue be non-empty when
the second arrives, a read take one and a half, and the second message be under way when
the final header is written; two senders let one leave while the other is active.
*DeliveredIntact* (each message is in exactly one place and in order, also after a failure),
*SendSleepsOnlyWhenIdle*, *PanicsOnlyAfterFailure*, *EverythingDelivered*,
*ShutdownCompletes*, *FailuresCascade*.  The last claims something of a failed process only once the
stream has ended or all workers of that process have.  Before that, nobody need be told: when the
send thread panics, the queues it poisons have the send thread's own buzzer, so a worker that is
parked without a timeout does not find out, the main thread waits for it, and the process and its
connection stay as they are (zero_copy/initialize.rs:91, tcp.rs:187).  Two alternatives of `BadStream`, a stream that
continues after its final header, are never enabled, which is part of what
*PanicsOnlyAfterFailure* says.

**operators.**  *Antichains:* times are pairs from {0,1} x {0,1} with the product order, the smallest
order with incomparable times between a least and a greatest one.  Deltas are -1 and 1, repeated
or cancelling within a batch; a batch mentions at most two times (a longer one is the same as
some `update_dirty` calls and a shorter one).  `MaxCount` = 2, `MaxDebt` = 1 and `MaxDirty` = 2
bound the sums and the unexamined entries, by a condition on its steps (`Small`).
*FrontierIsMinimalPositive*, *ReportsSumToFrontier*.  *Streams:* two targets, epochs 0 and 1, three records, buffers of two: a buffer is
sent full and leaves a third record, batches come after single records, and one target has
a full buffer while the other has none.  *RecordsCovered* (no frontier passes a record that
waits anywhere), *InputsDrain* (a closed input leaves nothing).  *Sequencing:* two workers, two
elements, timers with one reading that both may show and one that only one of them does, and a later one;
one worker may drop its sequencer: elements that tie, and elements that do not.
*SameOrderButTies*: what one worker has been handed is all among what the other has, and two
elements are in the same order at both unless they tie, which takes timers that showed the same when
they were sent and equal numbers of earlier elements; each worker's own elements are in the order it
pushed them.  *ElementsSequenced* (every element is given to every worker that
listens, although a source runs only when something makes it).

**streams_mid_epoch.**  See [below](#disagreements-with-the-codes-own-comments).

`CHECK_DEADLOCK FALSE` appears where the program may really stop: user code may do nothing
more and every worker sleep, a dataflow is dropped, both network threads have ended, a
component's bounded behaviour is over.

Each property was also checked against a plausible mistake in the code (the `Mutant...`
definitions, named in `PROJECT.json`), and fails with it: signalling on a queue of length
one, announcing a message before it is pushed, sending only the negative updates,
forgetting the last flush, reusing a buffer whose slices are only on a worker's queues,
waiting for buzzers before handing out one's own, and so on.

## Fairness

- `Reachability`: `propagate_all` is a loop in one thread; once called it goes on.
- `ProgressTracking`: a worker that has batches to receive or work to do calls `schedule`
  again (weak fairness: it stays enabled until it happens), each batch that was sent is
  among those some later call receives (strong, because whether the next call takes it
  depends on when it arrives), a schedule call ends, and an input handle that closes an
  epoch has its operator activated (`close_epoch`).  Nothing obliges user code to receive,
  send, downgrade or drop anything.  That workers are scheduled again when something
  arrives is what `Scheduling` checks.
- `Scheduling`: the program goes on calling `step_or_park`; a thread that has begun to push
  or to activate makes its remaining calls; delayed activations fall due.  No thread is
  obliged to begin.
- `Networking`: every thread goes on running, and a handle that is being dropped or whose
  queue was extended is followed by its wakeup.  Workers need not send or leave.  A stream whose
  send thread panicked ends once all workers of the process have left: the main thread has
  then joined them and drops the `CommsGuard`, which joins the send threads and panics
  ("Send thread panic", zero_copy/initialize.rs:22), and with the process its sockets are closed.
- `FpgaWrapper`: the program steps its worker for as long as there is something to do, which
  is what its `while probe.less_than(..)` loop does.  It need not send or close, and the
  device need not answer in time.
- `Streams`: an operator that was activated is scheduled and receivers pull, for as long as
  workers step.  The program need not send or close.
- `Sequencing`: an activated source or sink is scheduled, messages arrive, and a frontier that
  may move is observed, which is *FrontiersProgress*.  Nobody need push or drop.
- The components of `MCComponents` have no liveness properties.

Several liveness properties have the form `[]<>(premise => conclusion)`: their premise, once
true, stays true (what is closed stays closed, a handle that left is gone, a failure is not
undone), so that this says what `premise ~> conclusion` does.

## What is proved

The theorems are in the `...Proofs` modules, one per component (`OperatorsProofs` has those of three, `ComponentsProofs` of five).  The assumptions they rest on are
the named `ASSUME`s of the components; TLC evaluates each of them on the instances.
Those of `Notifications`, `Startup`, `ChangeBatch`, `Logging`, `Capturing`, `Sequencing` and `Completion` are hypotheses of their theorems, and the `MC`
modules assume them of their instances.  Together `OperatorsProofs`, `ReachabilityProofs` and `ProgressTrackingProofs` go from the
counts of one antichain to the promise of the whole protocol.

**ProgressTrackingProofs** - for every finite set of workers, in any mix of modes, any graph,
any order of times and any number of records, under the assumptions of `ProgressTracking`:
`less_equal` is reflexive and transitive and `results_in` keeps it (`OrderAssumption`, what
`PartialOrder` and `PathSummary` ask of their implementations); and among any pointstamps
there is one that no other leads to (`AcyclicAssumption`: a cycle advances times, for which
`is_acyclic` looks when a scope is built, and times do not decrease for ever).  Workers and
inputs are finite in number (`GraphAssumption`); times and ports need not be.

- `NothingLost` (*Consistent*): for each worker, what its tracker knows, what is on its way to
  it and what anyone has yet to broadcast add up to what exists.
- `Safety` (*FrontiersSafe*): no worker's frontier passes what may still happen.
- `Refinement` (*ImplementsPromise*): every behaviour maps to one of `ProgressSpec`; no
  frontier is taken back.

That counts add up is inductive by itself and says nothing yet about one worker's frontier:
it has seen a part of the batches, and what it sees of a worker that sent a record and dropped
the capability might be the drop alone.  What excludes this is that `send_progress` sends
everything or nothing.  The invariant says so of every part of what a worker has yet to tell
(`Backed`): where the changes add something, they take away, in the same batch, something
that leads there, or their worker still holds a capability that does.  It holds of what an
input handle has gathered (`PendingBacked`), of `local_pointstamp` (`LocalBacked`), and of each
batch (`NetBacked`), where the capabilities meant are those held when it was sent: the ones
held now, with what the worker did since taken back (`After`).  From there the
argument has three steps.  All that a worker has yet to tell another is backed by what it holds
now, because a backing that a later batch takes away has a backing of its own, further back
(`StretchBacked`, `AfterBacked`).  Then, at all that leads to a time worker w's frontiers have
passed, nothing is held, on its way to w, or unsent (`PassedQuiet`): otherwise take such a
pointstamp that no other leads to (`AcyclicAssumption`).  An addition there that w has not seen
would be backed by something earlier of the same kind; so there is none, and since w's own
count is not positive, nothing is held there either.  A subtraction at one worker would need an
addition at another, as the counts add up.  *FrontiersSafe* is a corollary.  For the
refinement, the same is said of a part of what is on its way (`PassedStaysQuiet`): whichever
batches w takes, its counts there stay what they are, so that what is passed stays passed
(`PassedMonotone`); and operations open nothing that was closed (`OperationCloses`).

The module begins with what the sums need: a property of the empty set which adding an element keeps
holds of every finite set (`ElementInduction`, from the well-foundedness of the subsets of a
finite set, stated of a set of subsets instead of an operator); the sum of the community
modules is the value of any recurrence (`SumByAdds`); sums of sums, of a part, of a changed
value, of a sequence without its front.  Paths of any length, round cycles too, need no
recursion: `ReachedFrom` is the least set closed under `Step`.

**ReachabilityProofs** - for every scope, every partial order of times and every set of
summaries that meet the four assumptions of `Reachability`, and any updates:

- `TrackerIsCorrect` (*TrackerCorrect*): when `propagate_all` returns, the implied frontiers are
  what following every path from every positive pointstamp gives; and at every pop the counts
  behind them, what was pushed and the totals agree.
- `OutputsAreCorrect` (*OutputsCorrect*): one step along the compiled summaries gives the frontier
  that propagation would bring to the scope's output.
- `GlobalIsExact` (*IsGlobalExact*).

The inductive invariant (`IInv`) says nothing about paths, and holds in any graph.  What a
pointstamp is counted, with what waits for it on the worklist, is one for its own frontier and
one for each way an implied time is handed on to it (*ImplicationsAccounted*); a pop keeps this
because what a frontier gains less what it loses is the difference of its counts
(`CountMoves`, by the cardinality of disjoint sets).  It is what the frontiers *mean* at the end,
when nothing waits, that needs the paths.  What is counted then is what is in a frontier of
pointstamps or one hop from an implied time (`Settled`).  Nothing is missed, by induction along
a path: what comes before a pointstamp hops to what comes before the next (`HopMonotone`,
`NothingMissed`).  And nothing is left over (`NothingLeftOver`): of all that is counted with no
pointstamp leading to it, the one to which the fewest lead was handed on by an implied time to
which fewer lead, because there is no way back (`HopRank`).  Without `AcyclicAssumption` two implied
times could hold each other up.  Two sets that cover each other have the same minimal members
(`SameEarliest`), which gives the equality of frontiers, here and for the outputs, where the
covering goes once along paths and once along the compiled summaries (`Compiled`).  For
`is_global`, a count of one that is not dominated is the pointstamp's own, so that nothing else
leads there; and if something else did, it would be before it or be handed on to it (`GlobalMeans`).

`LeadsTo` is `Cardinality(Port) * Cardinality(Time)` rounds of a function on the naturals.  That
such a function is what its definition says is proved with functions on initial segments
(`RoundsExist`, `RoundsAgree`, `WithinRounds`), and that so many rounds are enough by counting: each
that finds anything finds one at least (`RoundsEnd`).  Induction along paths is then a statement
about a set of pairs (`PathInduction`).

**OperatorsProofs**, of `MutableAntichain` - for every set of times with a well-founded partial order, any
total order that extends it (`LeqPartialOrder`, `LeqWellFounded`, `OrdExtendsLeq`), every set
of deltas and every sequence of calls: `TypeCorrect`, `FrontierCorrect`
(*FrontierIsMinimalPositive*), `ReportsCorrect` (*ReportsSumToFrontier*).  The property alone
is not inductive, because between `update_dirty` calls the cache says nothing about it.  The
invariant says what the cache still means while entries are dirty: each member is positive
or has a dirty entry (`Supported`), each positive time is covered by a member or has a
dirty entry that raised it (`Covered`), members are incomparable, and the reports sum to
the cache.  The two key lemmas are that `rebuild`'s single scan finds the minimal times
(`ScanIsMinimal`) and that if no dirty entry demands a rebuild, the cache is still right;
there well-foundedness is needed, to have a minimal time below every positive one.

**OperatorsProofs**, of `Streams` - for any finite number of targets and of epochs, any number of
records and any capacity of the buffers of at least one (`StreamsAssumption`, in `MCOperators`),
both kinds of input, and a worker that steps whenever the program lets it or at any moment:
`InputsCovered` (*RecordsCovered*), as a theorem of `AnySpec`, which runs `Streams` as one of its parts.
The invariant (`SInv`) relates counts to records.  For every time, what is reported produced and
not consumed, with what the `Counter` has not had reported yet, is the *number* of records that
the exchange and the channels hold at that time (`Sound`); for this each record must be in one
place only, in no empty message, and in the exchange at its one current time (`GoodPath`).
Capabilities reported, with the changes not yet reported, are those that the handle and the session
hold (`CapsCounted`).  These two do not give the property: while a count is unreported the sum says
nothing about what a frontier sees.  So `Covers` adds that a time at which anything is held or
is produced and unreported has a reported capability no later than it.  It is kept because
`Schedule` reports both changes at once, because `advance_to`, `downgrade` and `delayed` only go from a
capability to a later time, and because whoever gives up the last capability for a time does it
after the records of that time were counted; it would fail for a report of capabilities alone.
The lemmas about the pushers (`FlushKeeps`, `PushKeeps`, `FlushedSound`, `CeasedSound`, `TakeHead`)
say where records go in each of them, with cardinalities of disjoint unions.

**OperatorsProofs**, of `Sequencing` - for any number of workers, elements and messages on their
way, whoever drops their sequencer, and whatever the timers show (`TimersAssumption` only bounds the
readings): `OneOrderButTies` (*SameOrderButTies*), as a theorem of `AnySpec`.  Where no two timers
showed the same, nothing ties and this is one order for all.  The property compares what workers have been handed and says nothing about
what they will be, so it is far from inductive.  The invariant (`QInv`) is that there are a
message for every element sent, the same for all workers (`Stamped`), and for each worker a time
it has passed, no later than its frontier, such that it has been handed exactly the elements
stamped before, in the order of their keys (`Handed`), and still has all the others, each once, on
their way, arrived or in its vector (`Pending`).  No capability and nothing on its way is before a
frontier (`Ahead`), so no element is ever stamped with a time that somebody has passed.  A worker whose
sequencer was dropped stays at the time it has passed.  Of two workers, the one that has passed less
was handed a part of what the other was, and two of those elements are in the order of their keys at
both.  Equal keys are equal times, which elements of two workers have if the timers showed the same when
they were sent (`shown`), and equal counters.  That the counter of an element is the number of those its worker pushed up to it is
an invariant of its own (`Numbered`), with what is still to be sent counted on from there
(`PushKeepsNumbers`, `NumberKept`).  That `sort_by` returns the same messages, none after one of a
later key, is a fact about counting (`SortedFacts`): the rank of a message is the number of those
that precede it, and different ranks in `1 .. n` take every value; `Precedes` is by position where
keys are equal, because the sort is stable.

**CompletionProofs** - for any number of children, any graph and any answers, *provided
there are exactly three ghosts*: `Invariance`, `CountCorrect` (*CountsIncomplete*),
`DropCorrect` (*DroppedOnlyWhenComplete*), as theorems of `MCComponents`' `AnySpec`.  The count is the cardinality of a set, and each
answer adds or removes at most one element; dropped dataflows are not scheduled again
(`StoppedOnceDropped`), without which a late answer could undo what was established when
the dataflow was dropped.

**SchedulingProofs** - for any operators, channels, peers, wakers and bounds: `TypeCorrect`
and `NeverSleepsOnWork` (*SleepsOnlyWhenIdle*).  The invariant follows each kind of work
through the loop: a message whose reader has not read it is announced, about to be, or its
reader is listed (`MessageKnown`); announcements and paths that came after the worker last
took them in have left a token or are held by a thread that still has to leave one
(`AnnouncedKnown`, `PathsKnown`); and what each program point has established
(`PointsKnown`).

**NetworkingProofs** - for any number of workers and messages, with panics and crashes:
`SenderNeverSleepsOnWork` (*SendSleepsOnlyWhenIdle*).  The invariant says of each queue,
at each point of `send_loop`, that what is in it (`QueuesKnown`) or that its producer has
left (`LeavingKnown`) will be seen in this round or has been signalled, and that nothing
is buffered from the flush to the park (`RoundKnown`).  It needs only the `Shape` of the
state, not the whole of *TypeOK*.  `ReceiverPanicsOnlyAfterFailure`
(*PanicsOnlyAfterFailure*) is about the stream, so its invariant `StreamInv` adds what every
queue, stash and buffer can hold (`OnlyMessages`: units of messages, never the last header),
what the send thread has already emptied at each point of its round (`Rounds`), and what the
stream is (`StreamKnown`): messages only until the send thread has ended it, from then on
messages and one last header with nothing behind it, until that is read.  A read takes any
stretch of it, so `StretchRead` says which stretches end in the last header, and
`RestPlain` that what a read leaves unextracted is still part of a message.
`EverythingArrivesIntact` (*DeliveredIntact*) is about all places at once.  Sequences are
looked at through the numbers of one pair's messages in them (`Numbers`) and whether these
rise (`Rising`), for which joining, cutting, extracting and filtering each have a lemma
(`ConcatNumbers`, `Cut`, `CompletedNumbers`, `PickedNumbers`, `RestNumbers`).  Its invariant
`LineInv` says, for each pair of workers, that the numbers rise in every place
(`AllRising`), that no number further from the receiver comes before one closer to it
(`Line`), and that those that may yet be delivered (`Kept`: with a panic of the receive thread
only those handed over, with a failure of the send thread not those still queued) are a
beginning of those pushed (`Closed`), and all of them if neither thread has failed.  A failure loses
an end of a place and all places behind it, so what is kept stays a beginning (`Flows`,
`StaysClosed`); this is what an invariant about what is *delivered* alone could not say.
That two rising sequences with the same numbers are equal, and one with a beginning of the
numbers a prefix (`BeginningIsPrefix`), gives the property.

**ComponentsProofs**, of `Notifications` - for any times with a partial order and a total one that
extends it (`OrderAssumption`) and a least time (`MinimumAssumption`), any number of records and
requests, and each of the operators:
`SoundNotifications` (*NotificationsSound*) and `KeptRequests` (*RequestsKept*), from
`EveryCapabilityCounted`, `NotifiedTimesComplete`, `NotificationsOrdered` and
`NothingHeldForever`, which prove their parts; and `JustifiedOutput` (*OutputJustified*).  The
invariant has one part for each.  `Counted` says that the capabilities believed in, with the
changes not yet reported, match the requests, time by time; every merge and move keeps the
sum.  `World` says that queued records are at times upstream covers, that
frontiers given to the operator are not ahead of what is upstream (`Behind`), and that what is
available or was notified is ready (`HandedOut`): readiness is kept when
frontiers move (`ReadyStays`), which needs only transitivity.  `Order` says what is true
between the parts of a schedule: no time that is still pending is ready by its frontiers, so
that only new requests join what is available, nothing is handed out before notifying
(`SessionBegins`), and nothing that is available is earlier than what was (`SessionOrdered`).
`Stash` ties each record held back to a
request that will release it.
For `JustifiedOutput`, `Justifying` says of everything in the output's buffer or pushed, and of
every capability not yet reported, that a capability reported before or a message consumed in
this schedule is no later; each way to give or to ask starts from one or the other
(`PullJustifying`, `NotifyJustifying`).  `Folding` says that of before the time of anything a state
machine has folded, nothing is queued, held back or can still be sent (`Passed`): it folds at once
only what nothing in its frontier is before, and the rest when notified.

**ComponentsProofs**, of `Startup` - for every number of processes and of workers in each, in each
configuration (`ShapesAssumption`), and whatever the order in which processes come up:

- `StartupProgress` (*NobodyWaitsForever*).  The invariant has two parts.  `Met`: a process is
  among those that another has accepted, or finds in its backlog, exactly when it has connected;
  so when nobody can listen, connect or accept, all have met (`AllMet`).  `Sent`: whatever a thread
  has come past the sending of was sent.  When no thread can move, all are done
  (`SomeoneMoves`): send threads wait for nobody, so every worker has what it wants of them, so
  every worker has sent all it sends, as its sends to the process's workers come before what it
  waits for from them (`process.rs`: "send first, then recv"), so nobody waits for a worker.
- `EveryTargetReached` (*PushersReachTargets*).  `WorkerPart` and `NetworkPart` give the position
  of every handle in what a thread sends and waits for, `ReceivedAt` the k-th of a kind, and
  `TargetReached` follows a target through them: its process by division, the send thread by
  an index that skips the own process, the process at the other end of that thread's socket,
  and the worker by what the receive thread there counts from its first one.

**ComponentsProofs**, of `ChangeBatch` - for any times in a strict total order (`OrdAssumption`), any
changes, zero included, and any `Threshold`: `BatchesAgree` (*BatchAgrees*).  A list of one single
change of zero is what the property leaves out; there `is_empty` does not do what its comment says.  The property
speaks of what compaction *would* give and is inductive only with what the fields mean
(`Listed`): the clean prefix is within the list and in order, whatever the rest.  A sum is any
computation that adds position by position (`SumByAdding`), so that each fact about sums needs such
a computation and no induction: of a list that was appended to (`SumAppended`), of a time that no
change or one change names (`SumNone`, `SumOne`).  `Compact` gives every time the sum it had,
as a list in order names it once, and `SortedTimes` says that sorting by ranks leaves the
changes and orders them.  That `is_empty` may answer by the length of the clean prefix alone is an
argument by pigeonholes (`PrefixOutnumbers`): if everything had cancelled, each change of the prefix
would need one in the rest at the same time, and all of these would be different.

**ComponentsProofs**, of `Logging` - for any destinations, any number of clones and events, any length
of a buffer, and a clock that can read 0 (`ClockAssumption`): `LogsAreFaithful` (*LogsFaithful*).  A log
is sound (`LogSound`) if a replay of its whole stream would be left with the one capability that
`BatchLogger` has in its field `time`, or with none if the log is closed; every event in the
buffer is at that time or later, as the clock does not go back; and each message of the stream was in time when
it was sent.  Publishing, a full buffer, and a drop each keep a log sound (`PublishedSound`,
`FilledSound`, `DroppedSound`).  That a log is closed exactly when nobody can write to it rests on
the registry having at most one logger under the name, so that `Rebind` hands out the
one it replaces.  `HeldAfter` and `Contents` are computed event by event; that a further event
leaves what they gave for those before (`StreamAppend`, `ContentsAppend`) goes through a function from
position to position (`Recurrence`), again by `CountUp`.

**ComponentsProofs**, of `Capturing` - for any number of captured streams, any messages, and an order
of times that is reflexive and transitive with a least time (`TimeAssumption`, of the times that
`MCComponents` gives it, whose first components are the same): `ReplaysFaithful` (*ReplayFaithful*).  For each stream there are
the frontiers that its unread events go through (`Past`): a progress event leads from one to the
next, a message is at one of its times or later, and the last one, with what `capture_into` has seen and not
written, leads to the frontier there is now.  What replay holds at a time is the number of
streams whose first such frontier has it, or will be, once `Start` has been reported
(`CapHeld`); before, it holds the one capability it was made with (`CapFirst`).
No event lies before the first frontier (`PastEarly`), and as
these counts are not negative, what one stream holds no other can take away (`TotalAtLeast`).
Messages are
faithful because the three parts, sent again, in the event stream and waiting at `capture_into`,
are the captured stream in this order (`CapOrder`), wherever the reader's bytes end (`Quotient`).

**FpgaWrapperProofs** and **ReachabilityProofs**, of `FpgaWrapper` - for any positive number of ghosts,
any bound on times and any answers: `GhostsNeverScheduled` (*GhostsNeverRun*); with it
`CountsStandForDevice`, which `DeviceCounted` states of the composition (*GhostsStandIn*); and, if the
program waits for each epoch as `examples/hello.rs` does (`Synchronous`), `ProbeBehindDevice`, which
`DeviceBehindProbe` states of the composition (*ProbeSafe*).  That a ghost
is never scheduled is not a rule of the scheduler: reporting for a ghost may well put ghosts
on the list.  The invariant says that a ghost is on the list only when the pass over the
children has come to the wrapper, which is behind all its ghosts; the pass does not revisit
(subgraph.rs:426), takes them off again, and nothing else activates a ghost.
The counts need `MessagesKnown`: a message is sent once and is waiting or was given to the
device, and as long as no answer is left behind, the windows and results there are belong to
messages that were given, each to one.  Without it a count could stand for two messages of one
time, as what is held is a set.  Each action then has a lemma that what is reported at a
pointstamp changes by what is held there.  For a call of the device this goes through
`ReportedMessage`: counts given to one ghost are taken at the next, so that between the first
and the last all cancel, whatever the number of ghosts.

*GhostsStandIn* is about devices that answer in time.  *ProbeSafe* also holds when answers are late,
and its invariant (`PInv`) cannot be about exact counts, because counts of a late answer are
booked when the next call reads it.  It says that there is one message at a time (`OneAtATime`),
which waits, is with the device and not heard of, is kept, has its window emitted or has its
result waiting (`Queued`, `Asked`, `Kept`, `Emitting`, `Resulting`); where on the graph such a
message is owed (`Owed`); that all counts, wherever they are on their way, add up to one for each pointstamp owed, an answer
that was not heard yet included (`CountsOwed`); that what the tracker knows, with or without the
batch under way, has for each of them a count on the way to it, at no later time (`Covers`); and
what the subgraph may have pending and the ghosts have left between calls (`PendingKnown`,
`SharedKnown`).  A program that runs ahead is excluded for
a reason: with two epochs under way and a late device, TLC finds *ProbeSafe* violated, since the
wrapper books a late answer's counts at the time of the message it takes next.

**Only model-checked.**  All liveness (*PropagationTerminates*, *FrontiersProgress*,
*MessagesRead*, *ActivationsHonoured*, *EverythingDelivered*, *ShutdownCompletes*,
*FailuresCascade*, *EpochsComplete*, *InputsDrain*, *ElementsSequenced*): TLAPS has no rules for
fairness and `ENABLED`.  What is computed by
filtering and folding sequences (*SortedStable*, *ChannelsRouted*, *SlicesIntact*), by the worklists of
*GraphCompiled*, or by recursive definitions: the library's induction theorems
take an operator as a parameter, which the installed provers cannot instantiate.  For sums
over finite sets, for rounds and for sums along a list there is a way round (`ElementInduction`,
`WithinRounds`, `CountUp`), which has not been taken for these.

## Disagreements with the code's own comments

**Completion.**  `SubgraphBuilder::build` (subgraph.rs:293) starts `incomplete_count` at `incomplete.len() - 4`,
with "TODO: fix this" above.  This is the number of children minus child zero and three: the
number of `true` flags exactly if three children are ghosts, as in the program this fork was
made for.  The comment at subgraph.rs:441 says "A subgraph is incomplete if any child is
incomplete, or there are outstanding messages."  The run `completion_pipeline` is a pipeline of
seven ordinary operators, three of which may ask to be rescheduled (`build_reschedule`):
the count starts at four, the first four answers of complete children bring it to zero,
and the worker may drop the dataflow while operators say they are incomplete.  The
theorems of `CompletionProofs` state the other half: with three ghosts this cannot happen.

**Two messages for the device.**  In the wrapper (fpga_wrapper.rs:326) the request buffer `input_vector` is made before the `while`
loop over the waiting messages and is not cleared in it.  Each turn appends a request behind
the earlier ones and passes the front of the vector to the device.  At line 339 the comment
says "I should call my fpga function here with vector as an input", where `vector` is the
message just taken.  The run `fpga_wrapper_ahead` lets the program send for two epochs
before it waits: both messages are at the wrapper when it is called, and the second turn
makes the device read the first message again (*MessagesReachDevice*).  In `hello.rs` the
program waits after each epoch, and the run `reachability` stays clear of this.

**An epoch that is closed and not flushed.**  `close_epoch` "closes the current epoch, flushing if
needed, shutting if needed, and updating the frontier" (input.rs:288).  What it pushes to flush
is a `None`, which `Counter::push` (counter.rs:24-27) hands on only while something is counted in
`produced`; the input's operator empties that whenever it is scheduled.  In the run
`streams_mid_epoch` the handle's buffer fills and is sent, the worker takes a step before the
epoch ends, and `close_epoch` finds an empty buffer and nothing counted: the records stay in
the exchange until something else is sent.  They stay counted, so no frontier passes them
(`InputsCovered` is proved for such programs too), but whoever waits for the epoch waits on.  Sending
in a loop and stepping after `advance_to`, as the examples do, avoids it; the run `operators`
(`StepsAnytime = FALSE`) is about such programs.

**A wrapper that feeds two operators.**  `reorganize_edges` (subgraph.rs:186-199) has one
`start_source` and one `end_target`, which every edge into and out of a wrapper overwrites, and
lets one edge lead to the first ghost and one from the last (lines 215-216).  "Specifically, for each
location whose node identifier is non-zero, we compile the summaries along which they can reach
each output" (reachability.rs:705-706) is then said of a graph that lacks an edge: in the run
`wrapper_fan_out` the wrapper feeds an operator and the scope's output, and *GraphCompiled* fails.
The edges are kept for sending messages, so records go where no frontier knows of them.  The
variables are shared by all wrappers of a scope as well, and a wrapper that feeds nothing gets an
edge to the scope's first output.  In `hello.rs` there is one wrapper, with one edge on each side.

**Buffers that users hand to the sorters.**  "The reserve call already ensured we have space. For
efficiency, use an unchecked push." (batched_vec.rs:31-32.)  `reserve` replaces a tail that is
full by whatever the stash has on top, and `Stash::give` and `rebalance` keep every buffer they are
given.  In the run `any_buffers` that is one of capacity zero, and `push` writes past it; with write
combining, one that ends within a cache line makes `push_all` panic (line 63).  The run
`components` has the buffers for which it is true (*SortedStable*).

Smaller observations, made while reading, of which no run has a counterexample:

- `FrontierNotificator::next` (notificator.rs:336-338) refers to `for_each` for an in-order guarantee;
  a closure that calls `notify_at` there has its request considered only when everything
  available before has been handed out, later times included.  Operators use `Notificator`,
  whose requests take part at once (*NotificationsSound*).
- A sequence "that is seen by all workers in the same order" (sequence.rs:47-48) is so but for ties.
  The sink sorts by time, worker and counter (line 188), but the worker in a received element is the
  one it was sent to (lines 143-148 and 183, where it is the routing key), and is the same for
  everything one sink receives.  Elements of two workers with equal times and counters keep the order
  of arrival, and each worker may be given its own first.  *SameOrderButTies* says just this, and
  the timers of the run `operators` may agree.
- `is_empty` is "True iff all keys have value zero" (change_batch.rs:177); `compact` returns at once
  from a list of one change (line 240), which may be zero, and `is_empty` then answers false.  The
  wrapper makes such batches from the device's counts (fpga_wrapper.rs:483-485 and 642-644).  They are
  drained, not asked whether they are empty, and what comes of it is that a follower of a ghost that
  produced nothing is put on the list of children to schedule (`Drained` in `FpgaWrapper`).
  *BatchAgrees* has this exception and no other.
- The sequencer's `CatchupActivator` keeps running its source until its time *reaches* the time
  to catch up with, while the comment says "exceeds".
- `fpga_wrapper_simulation.rs` makes an output vector of 23 elements and reads index 25 at its
  first call.

## What is not modelled

- *Other numbers of dataflows and scopes.*  `ProgressTracking` and `Scheduling` are about one
  scope.  A nested scope is an operator of its parent; what it reports as its own counts is
  checked in `Reachability` (*OutputsCorrect*), and what it declares in `ScopeBuilder`.
- *Failures on the receiving side* of a connection: a worker that panics while it receives.  And
  what becomes of the workers of the sending process when its send thread has panicked: they
  may leave or panic themselves, but are not made to.
- *The lock round the table of channel ends* in `allocator/process.rs`, taken as exclusive, and
  the joining of threads, options and host files at start-up.
- *CapabilitySet*, which holds several capabilities and keeps the minimal ones.
- *The FPGA wrapper on several workers*, and the meaning of its data.  Its simulated variant
  stops at its first call, see above.
  `propagate_pointstamps` prints the frontiers of children 1 to 6 (subgraph.rs:593), which
  presupposes a scope with at least seven children; the smaller scopes of the other modules
  stand for a part of such a scope.
- *The barrier*: an input handle and a probe, both modelled elsewhere.
- *Logging*: what events say, and actions other than a `BatchLogger`'s.  An action that logs
  to its own logger would borrow its buffer twice, and panic; one that activates an operator
  directly, without a message, is not modelled in `Scheduling`.  `insert_logger` with a logger
  the program made itself is left out.
- *The mutex of a `MergeQueue`* is exclusive: `extend`, `drain_into` are atomic up to the
  wakeup.  Memory is sequentially consistent: the code shares state between threads through
  locks, channels and park tokens only.
- *Other operators* (`map`, `filter`, `concat`, `partition`, `branch`, `enterleave`, `feedback`,
  `probe`, `flow_controlled`): stateless, or with state of their own only; what they do to
  progress is in the graphs of the other modules.
- *The Kafka bridge*: input and output around capture and replay.

## Plan

Written so far, in this order: `MutableAntichain` with its proofs, `ProgressTracking` and
`ProgressSpec`, `Reachability`, `Completion`, `Scheduling`, `Networking`, the proofs of
the last three, `FpgaWrapper`; then `ChangeBatch`, `ScopeBuilder`, `RadixSort`, `Notifications`,
`Capturing`, `ZeroCopy`, `Startup`, `Streams`, `Sequencing` and
`Logging`, the proofs about `Notifications` and ghosts, those about `ProgressTracking`
with its refinement of `ProgressSpec`, those about `Reachability`, those about `Streams`, and those about
the probe behind a device, the output of operators, `Startup` and `Sequencing`, and those of
*DeliveredIntact*, *BatchAgrees*, *LogsFaithful* and *ReplayFaithful*.

To be written: failures on the receiving side in `Networking`; loggers that activate in
`Scheduling`; several workers for the wrapper, composed with the broadcast of
`ProgressTracking`; `CapabilitySet` and the barrier.

To be proved: of *SlicesIntact*, the part about references, which needs no induction.

## Running it

In this directory, with TLC and TLAPS 1.4.5 installed:

    tlc -workers 2 -config Scheduling.cfg MCScheduling
    tlapm SchedulingProofs.tla

Module and configuration of each run are in the table above.  On two cores the runs take
between a few seconds and some two and a half minutes, the proof modules up to some twenty minutes.
