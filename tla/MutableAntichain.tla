--------------------------- MODULE MutableAntichain ---------------------------
(***************************************************************************)
(* progress/frontier.rs: MutableAntichain, the multiset of times from      *)
(* which every frontier of the system is read.  It keeps an append-only    *)
(* list of (time, delta) updates and a cached frontier, and it avoids      *)
(* rebuilding the cache when the pushed updates cannot have changed it.    *)
(*                                                                         *)
(* The list `updates' is represented by the sum of the deltas of each time *)
(* (`count') and the set of times it mentions (`listed'); its dirty suffix *)
(* is the set of the entries in it, because the code only asks whether     *)
(* some dirty entry demands a rebuild.                                     *)
(***************************************************************************)
EXTENDS Integers

CONSTANTS
  Time,         \* the timestamps
  Delta,        \* the changes a caller may push, a set of integers
  BatchTimes,   \* the sets of times one update_iter call may mention
  Leq(_, _),    \* PartialOrder::less_equal
  Before(_, _)  \* Ord: strictly less, the order sort_by uses

ASSUME InputsAssumption == Delta \subseteq Int /\ BatchTimes \subseteq SUBSET Time

\* order.rs: PartialOrder is reflexive, antisymmetric and transitive.
ASSUME LeqPartialOrder ==
  /\ \A s, t \in Time : Leq(s, t) \in BOOLEAN
  /\ \A t \in Time : Leq(t, t)
  /\ \A s, t \in Time : Leq(s, t) /\ Leq(t, s) => s = t
  /\ \A r, s, t \in Time : Leq(r, s) /\ Leq(s, t) => Leq(r, t)

\* Timestamps are built from unsigned integers and pairs of them, whose orders
\* have no infinite descent: every nonempty set of times has a minimal one.
ASSUME LeqWellFounded ==
  \A S \in SUBSET Time :
     S # {} => \E m \in S : \A s \in S : Leq(s, m) => s = m

\* "as the times are sorted, we don't need to worry that we might displace
\* frontier elements": sorting by Ord puts smaller times first.
ASSUME OrdExtendsLeq ==
  /\ \A s, t \in Time : Before(s, t) \in BOOLEAN
  /\ \A s, t \in Time : Leq(s, t) /\ s # t => Before(s, t)
  /\ \A s, t \in Time : ~(Before(s, t) /\ Before(t, s))

Less(s, t) == Leq(s, t) /\ s # t

VARIABLES
  count,     \* [Time -> Int]: the sum of the deltas in `updates'
  listed,    \* the times that occur in `updates'
  dirty,     \* the entries <<time, delta>> of the dirty suffix of `updates'
  frontier,  \* the cached frontier, as a set
  reported   \* [Time -> Int]: what a caller that adds up every change
             \* update_iter returned has accumulated

vars == <<count, listed, dirty, frontier, reported>>

-----------------------------------------------------------------------------
Positive == {t \in Time : count[t] > 0}

Indicator(S) == [t \in Time |-> IF t \in S THEN 1 ELSE 0]

\* The first update of the dirty suffix that is neither strictly beyond the
\* frontier nor a subtraction before it makes the code rebuild.
MutantDemandsRebuild(time, delta) ==
  LET beyond_frontier == \E f \in frontier : Leq(f, time)
      before_frontier == ~ \E f \in frontier : Leq(f, time)
  IN  ~(beyond_frontier \/ (delta < 0 /\ before_frontier))

DemandsRebuild(time, delta) ==
  LET beyond_frontier == \E f \in frontier : Less(f, time)
      before_frontier == ~ \E f \in frontier : Leq(f, time)
  IN  ~(beyond_frontier \/ (delta < 0 /\ before_frontier))

\* The scan of the sorted, consolidated updates: a strictly positive time joins
\* unless a time already scanned is less or equal.  (A positive time that was
\* itself left out is above one that joined, so the two readings agree.)
ScanFrontier(counts) ==
  LET positive == {t \in Time : counts[t] > 0}
  IN  {t \in positive : \A s \in positive : Before(s, t) => ~Leq(s, t)}

MutantRebuild(counts) ==
  /\ listed' = {t \in Time : counts[t] # 0}
  /\ frontier' = ScanFrontier(counts)
  /\ reported' = [t \in Time |-> reported[t] + Indicator(frontier')[t]
                                - Indicator(frontier \ frontier')[t]]

\* rebuild: drop what cancelled, retract the old frontier, announce the new one.
Rebuild(counts) ==
  /\ listed' = {t \in Time : counts[t] # 0}
  /\ frontier' = ScanFrontier(counts)
  /\ reported' = [t \in Time |-> reported[t] - Indicator(frontier)[t]
                                             + Indicator(frontier')[t]]

-----------------------------------------------------------------------------
\* update_dirty: push one update and leave it unexamined.
UpdateDirty(time, delta) ==
  /\ count' = [count EXCEPT ![time] = @ + delta]
  /\ listed' = listed \cup {time}
  /\ dirty' = dirty \cup {<<time, delta>>}
  /\ UNCHANGED <<frontier, reported>>

\* update_iter: push a batch (a map from some times to deltas), then examine the
\* whole dirty suffix, rebuild if some entry demands it, and report the changes.
UpdateIter(batch) ==
  LET counts  == [t \in Time |-> IF t \in DOMAIN batch
                                 THEN count[t] + batch[t] ELSE count[t]]
      suffix  == dirty \cup {<<t, batch[t]>> : t \in DOMAIN batch}
      rebuild_required == \E e \in suffix : DemandsRebuild(e[1], e[2])
  IN  /\ count' = counts
      /\ dirty' = {}
      /\ \/ rebuild_required /\ Rebuild(counts)
         \/ /\ ~rebuild_required
            /\ listed' = listed \cup DOMAIN batch
            /\ UNCHANGED <<frontier, reported>>

\* empty: every count becomes zero and every entry is dirty again, so that the
\* next update_iter reports the deletion.
Empty ==
  /\ count' = [t \in Time |-> 0]
  /\ dirty' = listed \X {0}
  /\ UNCHANGED <<listed, frontier, reported>>

\* clear: forget everything, unreported; whoever was following starts afresh.
Clear ==
  /\ count' = [t \in Time |-> 0]
  /\ listed' = {}
  /\ dirty' = {}
  /\ frontier' = {}
  /\ reported' = [t \in Time |-> 0]

-----------------------------------------------------------------------------
\* new, and new_bottom: empty, or the single time `bottom' with count one.
Init ==
  \E bottoms \in {{}} \cup {{t} : t \in Time} :
    /\ count = Indicator(bottoms)
    /\ listed = bottoms
    /\ dirty = {}
    /\ frontier = bottoms
    /\ reported = Indicator(bottoms)

Batch == UNION {[S -> Delta] : S \in BatchTimes}

Next ==
  \/ \E time \in Time, delta \in Delta : UpdateDirty(time, delta)
  \/ \E batch \in Batch : UpdateIter(batch)
  \/ Empty
  \/ Clear

Spec == Init /\ [][Next]_vars

-----------------------------------------------------------------------------
TypeOK ==
  /\ count \in [Time -> Int]
  /\ listed \subseteq Time
  /\ dirty \subseteq Time \X (Delta \cup {0})
  /\ frontier \subseteq Time
  /\ reported \in [Time -> Int]

Minimal(S) == {t \in S : \A s \in S : Leq(s, t) => s = t}

\* Whenever the antichain may be inspected (nothing is dirty), the cached
\* frontier is exactly the minimal times of strictly positive count, although
\* most calls of update_iter skip the rebuild on the evidence of the pushed
\* entries alone, counts may be negative, and pushes may have piled up.
FrontierIsMinimalPositive == dirty = {} => frontier = Minimal(Positive)

\* A caller that only ever adds up the changes update_iter returns (the tracker's
\* worklist, shared_progress.frontiers, Subgraph.output_capabilities) knows the
\* frontier: the reports sum to one for its members and to zero elsewhere, so a
\* skipped rebuild never swallows a change.
ReportsSumToFrontier ==
  dirty = {} => reported = Indicator(Minimal(Positive))

=============================================================================
