--------------------------- MODULE MCComponents ---------------------------
(***************************************************************************)
(* Notificators, and eight components more that need no fairness, each     *)
(* checked by itself: in a behaviour the component `which' runs and the    *)
(* others stay as they start.  The variables of the eight are those of     *)
(* their modules with a prefix.                                            *)
(***************************************************************************)
EXTENDS Notifications, FiniteSets, Sequences, SequencesExt, FiniteSetsExt

CONSTANTS
  Components,       \* those that may run
  Outer, Inner,     \* the two components of a time
  Delta,            \* the changes made to a batch
  Threshold,        \* stands for the 32 of maintain_bounds
  MaxTotal, MaxUpdates,
  MaxSummary,       \* the largest component of a path summary
  WrapperFeeds,     \* how many ports the device wrapper of a scope may feed
  Kinds, Radix, KeyBytes, Key, DefaultCapacity, Line, BatchCapacities, MaxElements,
  Instances, Medium, Parts, MaxCaptured,
  Producer, Channel, Lengths, InitShift, Allocations, MaxMessages,
  Configs, Shapes,
  Destinations, LogCapacity, MaxClock, MaxEvents, MaxClones,
  Children, Ghost, Wrapper, InputOperator, Notified, Rescheduling, Upstream(_),
  UsizeModulus

-----------------------------------------------------------------------------
(* Times: pairs with the product order of Product<usize, usize> and the *)
(* lexicographic Ord its derive gives it.                               *)

MCTime == Outer \X Inner

ProductLeq(s, t) == s[1] <= t[1] /\ s[2] <= t[2]

ProductBefore(s, t) == s[1] < t[1] \/ (s[1] = t[1] /\ s[2] < t[2])

Origin == <<0, 0>>

Antichains(T) == {A \in SUBSET T : \A s, t \in A : Leq(s, t) => s = t}

\* The frontiers an input of the operator may have.
MCAntichain == Antichains(Time)

\* Times of which one component is all that varies.
Chain == {t \in Time : t[1] = 0}

\* One more, one less, and the count of a device that did nothing.
MCDelta == {-1, 0, 1}

\* What users hand to the radix sorters: buffers of any size but zero to those that push
\* one element at a time, of one or two lines to those with write combining.
MCBatchCapacities ==
  [k \in Kinds |-> IF k \in {"lsb", "msb"} THEN {1, 3} ELSE {Line, 2 * Line}]

MCMaxElements == [k \in Kinds |-> IF k \in {"lsb", "msb"} THEN 4 ELSE 2 * Line + 1]

\* Any buffers, those that hold nothing and those that end within a line included.
AnyCapacities == [k \in Kinds |-> 0 .. 2 * Line]

\* Computations: processes and threads in each.
MCShapes == {<<1, 3>>, <<2, 1>>, <<2, 2>>, <<3, 1>>}

\* The FPGA program is input, filter, map, aggregate, wrapper (5), inspect and probe; one
\* operator behind the wrapper is enough.  The wrapper is outside the tracked graph, and
\* its ghosts feed what follows it.
FpgaUpstream(n) == IF n = 6 THEN {4} ELSE {n - 1} \cap 1 .. Children

\* Ordinary operators, one after the other.
PipelineUpstream(n) == {n - 1} \cap 1 .. Children

-----------------------------------------------------------------------------
(* Summaries and scopes *)

MCSummary == (0 .. MaxSummary) \X (0 .. MaxSummary)
PairFollowedBy(r, s) == {<<r[1] + s[1], r[2] + s[2]>>} \cap MCSummary

In(n, i) == <<n, "in", i>>
Out(n, i) == <<n, "out", i>>
Unfed == <<0, "none", 0>>

\* A scope of an operator with two inputs and one with one input, in which any output
\* may feed any input but for the first, with two outputs of its own: loops within
\* loops, unfed inputs and unread outputs.
Loops ==
  LET outputs == {Out(0, 0), Out(1, 0), Out(2, 0)}
      inputs  == {In(0, 0), In(0, 1), In(1, 0), In(1, 1), In(2, 0)}
      fed     == {f \in [inputs -> outputs \cup {Unfed}] :
                    f[In(1, 0)] = Out(0, 0) /\ f[In(1, 1)] # Out(0, 0)}
  IN  {[ports |-> outputs \cup inputs, wrapper |-> 0, ghosts |-> <<>>,
        edges |-> {<<f[q], q>> : q \in {i \in inputs : f[i] # Unfed}},
        inner |-> [x \in {<<In(1, 0), Out(1, 0)>>, <<In(1, 1), Out(1, 0)>>, <<In(2, 0), Out(2, 0)>>} |->
                     IF x[1] = In(2, 0) THEN s ELSE IF x[1] = In(1, 1) THEN t ELSE {<<0, 0>>}]] :
         f \in fed,
         s \in {{<<0, 0>>}, {<<0, 1>>}, {<<0, 2>>, <<1, 0>>}},
         t \in {{}, {<<0, 0>>}, {<<1, 0>>}}}

\* A device wrapper with two ghosts and an operator, before it, behind it, round it, or
\* beside what the wrapper also feeds.
Wrapped ==
  {g \in {[ports |-> UNION {{In(n, 0), Out(n, 0)} : n \in 0 .. 4}, wrapper |-> 3, ghosts |-> <<1, 2>>,
           edges |-> e,
           inner |-> [x \in {<<In(n, 0), Out(n, 0)>> : n \in {1, 2, 4}} |->
                        IF x[1][1] = 4 THEN s ELSE {<<0, 0>>}]] :
            e \in {{<<Out(0, 0), In(3, 0)>>, <<Out(3, 0), In(4, 0)>>, <<Out(4, 0), In(0, 0)>>},
                   {<<Out(0, 0), In(4, 0)>>, <<Out(4, 0), In(3, 0)>>, <<Out(3, 0), In(0, 0)>>},
                   {<<Out(4, 0), In(3, 0)>>, <<Out(3, 0), In(4, 0)>>},
                   {<<Out(0, 0), In(3, 0)>>, <<Out(3, 0), In(4, 0)>>, <<Out(3, 0), In(0, 0)>>},
                   {<<Out(4, 0), In(3, 0)>>, <<Out(3, 0), In(4, 0)>>, <<Out(3, 0), In(0, 0)>>}},
            s \in {{<<0, 0>>}, {<<0, 1>>}, {<<0, 1>>, <<1, 0>>}}} :
     Cardinality({e \in g.edges : e[1] = Out(3, 0)}) \in WrapperFeeds}

\* Two ways round from one input, the longer of which may be the smaller one.
Diamonds ==
  LET edges == {<<Out(0, 0), In(1, 0)>>, <<Out(1, 0), In(3, 0)>>, <<Out(1, 1), In(2, 0)>>,
                <<Out(2, 0), In(3, 1)>>, <<Out(3, 0), In(0, 0)>>}
  IN  {[ports |-> UNION {{e[1], e[2]} : e \in edges}, wrapper |-> 0, ghosts |-> <<>>,
        edges |-> edges,
        inner |-> [x \in {<<In(1, 0), Out(1, 0)>>, <<In(1, 0), Out(1, 1)>>, <<In(2, 0), Out(2, 0)>>,
                          <<In(3, 0), Out(3, 0)>>, <<In(3, 1), Out(3, 0)>>} |->
                     IF x[2] = Out(1, 0) THEN s ELSE IF x[2] = Out(2, 0) THEN t ELSE {<<0, 0>>}]] :
         s \in {{<<0, 0>>}, {<<1, 0>>}, {<<0, 2>>, <<1, 0>>}},
         t \in {{<<0, 0>>}, {<<0, 1>>}}}

-----------------------------------------------------------------------------
VARIABLES
  which,  \* the component that runs
  cb_batch, cb_total,
  sb_graph, sb_phase, sb_edges, sb_in_degree, sb_ready, sb_acyclic, sb_worklist,
  sb_results,
  rs_kind, rs_phase, rs_level, rs_sorter, rs_work, rs_target, rs_given, rs_earlier,
  ca_medium, ca_frontier, ca_changes, ca_queue, ca_sent, ca_captured, ca_stream,
  ca_buff1, ca_started, ca_held, ca_replayed,
  zc_producer, zc_memory, zc_slab, zc_pushed, zc_wire, zc_merge, zc_to_local,
  zc_current, zc_bound, zc_canaries, zc_open, zc_pulled,
  st_config, st_shape, st_listening, st_connected, st_backlog, st_accepted, st_step,
  st_mail,
  lg_clock, lg_made, lg_bound, lg_clones, lg_buffer, lg_time, lg_stream, lg_logged,
  co_incomplete, co_incomplete_count, co_fresh, co_operator, co_activations,
  co_temp_active, co_scheduling, co_drained, co_dropped

CB ==
  INSTANCE ChangeBatch WITH
    Time <- Chain, batch <- cb_batch, total <- cb_total
cb_vars == <<cb_batch, cb_total>>

\* What the theorems about ChangeBatch assume.
ASSUME BatchAssumption == CB!OrdAssumption /\ CB!DeltaAssumption

SB ==
  INSTANCE ScopeBuilder WITH
    Graphs <- Loops \cup Wrapped \cup Diamonds, Summary <- MCSummary,
    SummaryLeq <- ProductLeq, FollowedBy <- PairFollowedBy, Identity <- Origin,
    graph <- sb_graph, phase <- sb_phase, edges <- sb_edges, in_degree <- sb_in_degree,
    ready <- sb_ready, acyclic <- sb_acyclic, worklist <- sb_worklist,
    results <- sb_results
sb_vars == <<sb_graph, sb_phase, sb_edges, sb_in_degree, sb_ready, sb_acyclic,
             sb_worklist, sb_results>>

RS ==
  INSTANCE RadixSort WITH
    kind <- rs_kind, phase <- rs_phase, level <- rs_level, sorter <- rs_sorter,
    work <- rs_work, target <- rs_target, given <- rs_given, earlier <- rs_earlier
rs_vars == <<rs_kind, rs_phase, rs_level, rs_sorter, rs_work, rs_target, rs_given,
             rs_earlier>>

\* What the theorems about Notifications assume.
ASSUME NotificationsAssumption ==
  OrderAssumption /\ MinimumAssumption /\ BoundsAssumption /\ LogicAssumption

CA ==
  INSTANCE Capturing WITH
    Time <- Chain, Minimum <- Origin, Antichain <- Antichains(Chain),
    MaxMessages <- MaxCaptured, medium <- ca_medium, frontier <- ca_frontier,
    changes <- ca_changes, queue <- ca_queue, sent <- ca_sent, captured <- ca_captured,
    stream <- ca_stream, buff1 <- ca_buff1, started <- ca_started, held <- ca_held,
    replayed <- ca_replayed
ca_vars == <<ca_medium, ca_frontier, ca_changes, ca_queue, ca_sent, ca_captured,
             ca_stream, ca_buff1, ca_started, ca_held, ca_replayed>>

\* What the theorem about Capturing assumes.
ASSUME CapturingAssumption == CA!TimeAssumption /\ CA!SizeAssumption

ZC ==
  INSTANCE ZeroCopy WITH
    producer <- zc_producer, memory <- zc_memory, slab <- zc_slab, pushed <- zc_pushed,
    wire <- zc_wire, merge <- zc_merge, to_local <- zc_to_local, current <- zc_current,
    bound <- zc_bound, canaries <- zc_canaries, open <- zc_open, pulled <- zc_pulled
zc_vars == <<zc_producer, zc_memory, zc_slab, zc_pushed, zc_wire, zc_merge, zc_to_local,
             zc_current, zc_bound, zc_canaries, zc_open, zc_pulled>>

ST ==
  INSTANCE Startup WITH
    config <- st_config, shape <- st_shape, listening <- st_listening,
    connected <- st_connected, backlog <- st_backlog, accepted <- st_accepted,
    step <- st_step, mail <- st_mail
st_vars == <<st_config, st_shape, st_listening, st_connected, st_backlog, st_accepted,
             st_step, st_mail>>

\* What the theorems about Startup assume.
ASSUME StartupAssumption == ST!ShapesAssumption

LG ==
  INSTANCE Logging WITH
    Destination <- Destinations, Capacity <- LogCapacity, clock <- lg_clock,
    made <- lg_made, bound <- lg_bound, clones <- lg_clones, buffer <- lg_buffer,
    time <- lg_time, stream <- lg_stream, logged <- lg_logged
lg_vars == <<lg_clock, lg_made, lg_bound, lg_clones, lg_buffer, lg_time, lg_stream,
             lg_logged>>

\* What the theorem about Logging assumes.
ASSUME LogAssumption == LG!ClockAssumption

CO ==
  INSTANCE Completion WITH
    incomplete <- co_incomplete, incomplete_count <- co_incomplete_count,
    fresh <- co_fresh, operator <- co_operator, activations <- co_activations,
    temp_active <- co_temp_active, scheduling <- co_scheduling, drained <- co_drained,
    dropped <- co_dropped
co_vars == <<co_incomplete, co_incomplete_count, co_fresh, co_operator, co_activations,
             co_temp_active, co_scheduling, co_drained, co_dropped>>

\* What the theorems about Completion assume.
ASSUME CompletionAssumption == CO!LayoutAssumption

-----------------------------------------------------------------------------
\* A component that does not run starts in one of its initial states.
AnyInit ==
  /\ which \in Components
  /\ Init /\ (which = "notifications" \/ logic = "delay")
  /\ CB!Init
  /\ SB!Init /\ (which = "scope_builder" \/ sb_graph = CHOOSE g \in Diamonds : TRUE)
  /\ RS!Init /\ (which = "radix_sort" \/ rs_kind = "lsb")
  /\ CA!Init /\ (which = "capturing" \/ ca_medium = "link")
  /\ ZC!Init /\ (which = "zero_copy" \/ zc_producer = "socket")
  /\ ST!Init /\ (which = "startup" \/ st_config = "process")
  /\ LG!Init
  /\ CO!Init

AnyNext ==
  \/ /\ which = "notifications" /\ Next
     /\ UNCHANGED <<which, cb_vars, sb_vars, rs_vars,
                    ca_vars, zc_vars, st_vars, lg_vars, co_vars>>
  \/ /\ which = "change_batch" /\ CB!Next
     /\ UNCHANGED <<which, vars, sb_vars, rs_vars,
                    ca_vars, zc_vars, st_vars, lg_vars, co_vars>>
  \/ /\ which = "scope_builder" /\ SB!Next
     /\ UNCHANGED <<which, vars, cb_vars, rs_vars,
                    ca_vars, zc_vars, st_vars, lg_vars, co_vars>>
  \/ /\ which = "radix_sort" /\ RS!Next
     /\ UNCHANGED <<which, vars, cb_vars, sb_vars,
                    ca_vars, zc_vars, st_vars, lg_vars, co_vars>>
  \/ /\ which = "capturing" /\ CA!Next
     /\ UNCHANGED <<which, vars, cb_vars, sb_vars, rs_vars,
                    zc_vars, st_vars, lg_vars, co_vars>>
  \/ /\ which = "zero_copy" /\ ZC!Next
     /\ UNCHANGED <<which, vars, cb_vars, sb_vars, rs_vars,
                    ca_vars, st_vars, lg_vars, co_vars>>
  \/ /\ which = "startup" /\ ST!Next
     /\ UNCHANGED <<which, vars, cb_vars, sb_vars, rs_vars,
                    ca_vars, zc_vars, lg_vars, co_vars>>
  \/ /\ which = "logging" /\ LG!Next
     /\ UNCHANGED <<which, vars, cb_vars, sb_vars, rs_vars,
                    ca_vars, zc_vars, st_vars, co_vars>>
  \/ /\ which = "completion" /\ CO!Next
     /\ UNCHANGED <<which, vars, cb_vars, sb_vars, rs_vars,
                    ca_vars, zc_vars, st_vars, lg_vars>>

any_vars == <<which, vars, cb_vars, sb_vars, rs_vars, ca_vars, zc_vars, st_vars,
              lg_vars, co_vars>>

AnySpec == AnyInit /\ [][AnyNext]_any_vars

\* Clocks and data to be reclocked come at a chain of times.
ClocksTick ==
  logic = "reclock" =>
    \A i \in Input : \A k \in DOMAIN queue[i] : queue[i][k][1] \in Chain

\* Handles do not leave a process, so that processes may start one after the other.
StartInTurn ==
  \A p \in 1 .. st_shape[1] - 1 :
    (\E th \in DOMAIN st_step : th[2] = p /\ st_step[th] > 0)
      => \A th \in DOMAIN st_step : th[2] = p - 1 => ST!Done(th)

Bounded == ClocksTick /\ StartInTurn

-----------------------------------------------------------------------------
\* See ChangeBatch: change_batch.rs loses no change and cancels what it should.
BatchAgrees == which = "change_batch" => CB!BatchAgrees

\* See ScopeBuilder: summarize_outputs finds the minimal summaries of all paths of data,
\* reorganize_edges included, and is_acyclic the cycles of default summaries.  It holds of
\* scopes in which the wrapper feeds one port, and not of others: reorganize_edges keeps
\* one target.
GraphCompiled == which = "scope_builder" => SB!SummariesCorrect /\ SB!CyclesDetected

\* See RadixSort: the sorters sort, are stable, and have room for the unchecked writes of
\* batched_vec.rs.  It holds for buffers of MCBatchCapacities, and not for others.
SortedStable == which = "radix_sort" => RS!SortedStable /\ RS!RoomReserved

\* See RadixSort: "the reserve call already ensured we have space".  Given buffers of
\* AnyCapacities, it has not.
RoomReserved == which = "radix_sort" => RS!RoomReserved

\* See Capturing: replay holds back what may still come out of a capture, and one that has
\* ended is the captured stream.
ReplayFaithful == which = "capturing" => CA!ReplayNeverEarly /\ CA!ReplayComplete

\* See ZeroCopy: no slice that is held is written again.
SlicesIntact == which = "zero_copy" => ZC!SlicesIntact

\* See ZeroCopy: every message comes to its channel, once and in order.
ChannelsRouted == which = "zero_copy" => ZC!ChannelsRouted

\* See Startup: pushers lead to the workers they are for.
PushersReachTargets == which = "startup" => ST!PushersReachTargets

\* See Startup: the exchange of handles does not deadlock.
NobodyWaitsForever == which = "startup" => ST!NobodyWaitsForever

\* See Logging: streams of log events are in order, complete, in time, and end.
LogsFaithful == which = "logging" => LG!LogsFaithful

\* See Completion: the count follows every flip of a child's answer.  It takes three ghosts.
CountsIncomplete == which = "completion" => CO!CountsIncomplete

\* See Completion: nothing incomplete is dropped.  In a pipeline without ghosts it is.
DroppedOnlyWhenComplete == which = "completion" => CO!DroppedOnlyWhenComplete

=============================================================================
