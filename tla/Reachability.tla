----------------------------- MODULE Reachability -----------------------------
(***************************************************************************)
(* progress/reachability.rs: the Tracker, which keeps for every port of a  *)
(* scope the minimal times that the outstanding pointstamps could still    *)
(* lead to there.  Updates are buffered; propagate_all commits them and    *)
(* circulates the changes of frontiers through a worklist ordered by time  *)
(* and location until none is left.                                        *)
(*                                                                         *)
(* Both antichains of a port are MutableAntichains, represented here by    *)
(* their counts: module MutableAntichain shows that their frontier is the  *)
(* minimal positive times, and that the changes they report are the        *)
(* differences of that frontier.  The worklist is represented by the net   *)
(* change of each (time, location) in it, since popping one drains all the *)
(* equal ones.                                                             *)
(***************************************************************************)
EXTENDS Integers, FiniteSets

CONSTANTS
  Source, Target,     \* output and input ports of the scope's operators
  Edge,               \* pairs <<source, target>>
  Time,               \* the timestamps
  Leq(_, _),          \* PartialOrder::less_equal
  Before(_, _),       \* Ord on times: strictly less
  LocationRank(_),    \* Ord on locations, as a number
  Internal(_, _),     \* Internal(target, source): internal_summary[target][source]
  OutputSummary(_),   \* OutputSummary(port): its output_summaries for the scope output
  ResultsIn(_, _),    \* ResultsIn(summary, t): the set of at most one time
  ScopeInput,         \* the scope's inputs, sources of child zero
  ScopeOutput,        \* the scope's output, a target of child zero
  Updatable,          \* the pointstamps updates are issued at
  MaxCount,           \* bound on the magnitude of a pointstamp's count
  MaxBuffered         \* bound on the pointstamps updated between propagations

Port == Source \cup Target

Pointstamp == Port \X Time

Less(s, t) == Leq(s, t) /\ s # t

ASSUME PortsAssumption ==
  /\ Source \cap Target = {}
  /\ Edge \subseteq Source \X Target
  /\ ScopeOutput \in Target
  /\ ScopeInput \subseteq Source
  /\ Updatable \subseteq (Port \ {ScopeOutput}) \X Time
  /\ IsFiniteSet(Port) /\ IsFiniteSet(Time)

ASSUME OrderAssumption ==
  /\ \A s, t \in Time : Leq(s, t) /\ s # t => Before(s, t)
  /\ \A s, t \in Time : Before(s, t) => s # t /\ ~Before(t, s)
  /\ \A p, q \in Port : p # q => LocationRank(p) # LocationRank(q)

\* order.rs: less_equal is reflexive, antisymmetric and transitive.
ASSUME LeqPartialOrder ==
  /\ \A s, t \in Time : Leq(s, t) \in BOOLEAN
  /\ \A t \in Time : Leq(t, t)
  /\ \A s, t \in Time : Leq(s, t) /\ Leq(t, s) => s = t
  /\ \A r, s, t \in Time : Leq(r, s) /\ Leq(s, t) => Leq(r, t)

\* results_in takes a time to a later one, earlier times to earlier ones, and overflows
\* for the latest first.
ASSUME SummaryAssumption ==
  \A g \in Target, p \in Source :
    /\ IsFiniteSet(Internal(g, p))
    /\ \A s \in Internal(g, p), t, u \in Time :
         /\ ResultsIn(s, t) \subseteq Time
         /\ \A r \in ResultsIn(s, t) : Leq(t, r)
         /\ Leq(t, u) => \A r \in ResultsIn(s, u) : \E q \in ResultsIn(s, t) : Leq(q, r)

VARIABLES
  changes,         \* source_changes and target_changes, summed
  pointstamps,     \* counts of the pointstamps antichains
  implications,    \* counts of the implications antichains
  worklist,        \* net change waiting at each pointstamp
  pushed,          \* sum of all that was ever put in pushed_changes
  output_changes,  \* sum of all that was ever put in output_changes
  total_counts,
  propagating      \* inside propagate_all

vars == <<changes, pointstamps, implications, worklist, pushed, output_changes,
          total_counts, propagating>>

-----------------------------------------------------------------------------
Zero == [p \in Pointstamp |-> 0]

Plus(a, b) == [p \in Pointstamp |-> a[p] + b[p]]

Minimal(S) == {t \in S : \A s \in S : Leq(s, t) => s = t}

\* MutableAntichain::frontier of every port, as pointstamps.
Frontier(counts) ==
  UNION {{port} \X Minimal({t \in Time : counts[<<port, t>>] > 0}) : port \in Port}

\* What update_iter reports: the members the frontier gained and lost.
MutantFrontierChange(before, after) ==
  [p \in Pointstamp |-> IF p \in after \ before THEN 1 ELSE 0]

FrontierChange(before, after) ==
  [p \in Pointstamp |-> IF p \in after \ before THEN 1
                        ELSE IF p \in before \ after THEN -1 ELSE 0]

\* The ways a change at p is handed on to q: along an edge, or across an operator
\* by some of its summaries.
Hops(p, q) ==
  IF p[1] \in Source
  THEN {e \in Edge : e = <<p[1], q[1]>> /\ p[2] = q[2]}
  ELSE IF q[1] \in Source THEN {s \in Internal(p[1], q[1]) : q[2] \in ResultsIn(s, p[2])}
  ELSE {}

\* How often the members of S are handed on to q.
Backing(S, q) == Cardinality(UNION {{p} \X Hops(p, q) : p \in S})

\* The worklist entries that a change of the implied frontier at `port' pushes.
HandOn(before, after) ==
  [q \in Pointstamp |-> Backing(after \ before, q) - Backing(before \ after, q)]

\* The sum of the changes reported, by which total_counts moves.
CountChange(before, after) == Cardinality(after \ before) - Cardinality(before \ after)

MutantToOutput(S, t) ==
  Cardinality({p \in S : OutputSummary(p[1]) # {} /\ t = p[2]})

\* Step 1 of propagate_all also projects the changes to the scope output.
ToOutput(S, t) ==
  Cardinality(UNION {{p} \X {s \in OutputSummary(p[1]) : t \in ResultsIn(s, p[2])} : p \in S})

-----------------------------------------------------------------------------
(* Paths *)

Hop == {e \in Pointstamp \X Pointstamp : Hops(e[1], e[2]) # {}}

\* Every p with what it leads to in at most n hops.
Within[n \in Nat] ==
  IF n = 0 THEN {<<p, p>> : p \in Pointstamp}
  ELSE LET near == Within[n - 1]
       IN  near \cup {<<x[1][1], x[2][2]>> : x \in {y \in near \X Hop : y[1][2] = y[2][1]}}

\* In any number: each round adds one at least for some p, until none is new.
LeadsTo == Within[Cardinality(Port) * Cardinality(Time)]

\* Builder::build reports "Cycle detected without timestamp increment": a change that
\* came back to where it was would go round for ever.
ASSUME AcyclicAssumption == \A e \in Hop : <<e[2], e[1]>> \notin LeadsTo

\* The times at the scope's output that p leads to.
AtOutput(p) == {t \in Time : <<p, <<ScopeOutput, t>>>> \in LeadsTo}

\* What summarize_outputs compiles (module ScopeBuilder): the minimal times that all
\* paths to the scope's output result in, for what is not an input of the scope.
ASSUME OutputAssumption ==
  \A port \in Port :
    /\ IsFiniteSet(OutputSummary(port))
    /\ port \in ScopeInput => OutputSummary(port) = {}
    /\ \A s \in OutputSummary(port), t \in Time : ResultsIn(s, t) \subseteq Time
    /\ port \notin ScopeInput \cup {ScopeOutput} =>
         \A t \in Time :
           Minimal(UNION {ResultsIn(s, t) : s \in OutputSummary(port)})
             = Minimal(AtOutput(<<port, t>>))

-----------------------------------------------------------------------------
\* update_source, update_target.
Update(p, delta) ==
  /\ ~propagating
  /\ changes[p] + pointstamps[p] + delta \in -MaxCount .. MaxCount
  /\ Cardinality({q \in Pointstamp : changes[q] # 0} \cup {p}) <= MaxBuffered
  /\ changes' = [changes EXCEPT ![p] = @ + delta]
  /\ UNCHANGED <<pointstamps, implications, worklist, pushed, output_changes,
                 total_counts, propagating>>

\* Step 1: commit the buffered changes, and put those of the frontiers they cause
\* on the worklist.  (Without any, propagate_all does nothing.)
CommitChanges ==
  LET counts == Plus(pointstamps, changes)
      before == Frontier(pointstamps)
      after  == Frontier(counts)
  IN  /\ ~propagating
      /\ changes # Zero
      /\ pointstamps' = counts
      /\ changes' = Zero
      /\ worklist' = Plus(worklist, FrontierChange(before, after))
      /\ total_counts' = total_counts + CountChange(before, after)
      /\ output_changes' = [t \in Time |-> output_changes[t] + ToOutput(after \ before, t)
                                                             - ToOutput(before \ after, t)]
      /\ propagating' = TRUE
      /\ UNCHANGED <<implications, pushed>>

\* The order of the heap: by time, then by location.
Earlier(p, q) ==
  \/ Before(p[2], q[2])
  \/ p[2] = q[2] /\ LocationRank(p[1]) < LocationRank(q[1])

\* The entry popped next, among those that do not cancel.
Earliest(p) ==
  /\ worklist[p] # 0
  /\ \A q \in Pointstamp : worklist[q] # 0 => ~Earlier(q, p)

\* Step 2: pop an entry, apply it to the implications of its port, report the
\* changes of the frontier and hand them on.
Pop(p) ==
  LET counts == [implications EXCEPT ![p] = @ + worklist[p]]
      before == Frontier(implications)
      after  == Frontier(counts)
  IN  /\ propagating
      /\ Earliest(p)
      /\ implications' = counts
      /\ worklist' = Plus([worklist EXCEPT ![p] = 0], HandOn(before, after))
      /\ pushed' = Plus(pushed, FrontierChange(before, after))
      /\ UNCHANGED <<changes, pointstamps, output_changes, total_counts, propagating>>

MutantReturn ==
  /\ propagating
  /\ worklist = Zero
  /\ total_counts = 0
  /\ propagating' = FALSE
  /\ UNCHANGED <<changes, pointstamps, implications, worklist, pushed, output_changes,
                 total_counts>>

Return ==
  /\ propagating
  /\ worklist = Zero
  /\ propagating' = FALSE
  /\ UNCHANGED <<changes, pointstamps, implications, worklist, pushed, output_changes,
                 total_counts>>

-----------------------------------------------------------------------------
Init ==
  /\ changes = Zero
  /\ pointstamps = Zero
  /\ implications = Zero
  /\ worklist = Zero
  /\ pushed = Zero
  /\ output_changes = [t \in Time |-> 0]
  /\ total_counts = 0
  /\ propagating = FALSE

Next ==
  \/ \E p \in Updatable, delta \in {-1, 1} : Update(p, delta)
  \/ CommitChanges
  \/ \E p \in Pointstamp : Pop(p)
  \/ Return

\* propagate_all runs to its end once called.
Spec ==
  Init /\ [][Next]_vars /\ WF_vars(Return \/ \E p \in Pointstamp : Pop(p))

-----------------------------------------------------------------------------
(* is_global *)

MutantIsGlobal(p) ==
  LET dominated == \E q \in Frontier(implications) : q[1] = p[1] /\ Leq(q[2], p[2])
      redundant == implications[p] > 1
  IN  ~dominated /\ ~redundant

IsGlobal(p) ==
  LET dominated == \E q \in Frontier(implications) : q[1] = p[1] /\ Less(q[2], p[2])
      redundant == implications[p] > 1
  IN  ~dominated /\ ~redundant

-----------------------------------------------------------------------------
(* What the results should be, by following every path from every pointstamp *)

\* The minimal times at each port that the pointstamps in P lead to.
Implied(P) ==
  LET all == {e[2] : e \in {d \in LeadsTo : d[1] \in P}}
  IN  {p \in all : \A q \in all : q[1] = p[1] /\ Leq(q[2], p[2]) => q = p}

Positive == {p \in Pointstamp : pointstamps[p] > 0}

-----------------------------------------------------------------------------
TypeOK ==
  /\ \A f \in {changes, pointstamps, implications, worklist, pushed} :
       f \in [Pointstamp -> Int]
  /\ output_changes \in [Time -> Int]
  /\ total_counts \in Nat
  /\ propagating \in BOOLEAN

\* Incremental propagation, through cycles and with negative counts on the way, ends
\* with exactly the implications of the positive pointstamps: nothing that was
\* retracted survives by going round a loop, and nothing still possible is lost.
ImplicationsCorrect == ~propagating => Frontier(implications) = Implied(Positive)

\* At every pop, what a pointstamp is counted and what still waits for it add up to
\* one for its own frontier and one for each way an implied time is handed on to it.
\* is_global relies on this count.
ImplicationsAccounted ==
  LET own == Frontier(pointstamps)
      implied == Frontier(implications)
  IN  \A q \in Pointstamp :
        implications[q] + worklist[q] = (IF q \in own THEN 1 ELSE 0) + Backing(implied, q)

\* What Subgraph::propagate_pointstamps drains from pushed_changes into the frontiers
\* of the operators always adds up to the implications.
PushedIsFrontier == pushed = FrontierChange({}, Frontier(implications))

\* "It should always be exactly equal to the sum across all operators of the
\* frontier sizes of the target and source `pointstamps` member": tracking_anything
\* decides by it whether the dataflow may be dropped.
TotalCountsCorrect == total_counts = Cardinality(Frontier(pointstamps))

\* All that the tracker keeps of the frontiers agrees, with each other and with what
\* following every path would give.
TrackerCorrect ==
  TypeOK /\ ImplicationsCorrect /\ ImplicationsAccounted /\ PushedIsFrontier /\ TotalCountsCorrect

\* The internal capabilities reported to the parent scope, projected in one step
\* along the compiled output summaries, are those that propagation would bring to the
\* scope's output.
OutputsCorrect ==
  LET inside == {p \in Positive : p[1] \notin ScopeInput}
  IN  {ScopeOutput} \X Minimal({t \in Time : output_changes[t] > 0})
        = {q \in Implied(inside) : q[1] = ScopeOutput}

\* "This method returns true if the currently maintained pointstamp counts are such
\* that zeroing out outstanding updates at *this* pointstamp would change the
\* frontiers at this operator."
IsGlobalExact ==
  ~propagating =>
    LET at(P, port) == {q \in Implied(P) : q[1] = port}
    IN  \A p \in Positive :
          IsGlobal(p) <=> at(Positive, p[1]) # at(Positive \ {p}, p[1])

\* "The argument that this always terminates is subtle, and should be made."
PropagationTerminates == propagating ~> ~propagating

=============================================================================
