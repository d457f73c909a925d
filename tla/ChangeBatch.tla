------------------------------ MODULE ChangeBatch ------------------------------
(***************************************************************************)
(* progress/change_batch.rs: ChangeBatch, the list of (time, change) pairs *)
(* in which every component hands its progress to the next one.  It        *)
(* appends, and knows how long a prefix of the list is compact; it         *)
(* compacts only when the rest has grown as long as that prefix, or when   *)
(* somebody must see the contents.                                         *)
(***************************************************************************)
EXTENDS Integers, Sequences, FiniteSets

CONSTANTS
  Time,
  Before(_, _),  \* Ord: strictly less, the order compact sorts by
  Delta,         \* the changes a caller makes: zero too, where the count of a device is
                 \* handed on as it is (fpga_wrapper.rs:483-485, 642-644)
  Threshold,     \* maintain_bounds leaves this many alone: 32 in the code
  MaxTotal,      \* bound on what the changes of a time add up to
  MaxUpdates     \* bound on the length of the two lists together

\* Ord is a strict total order.
OrdAssumption ==
  /\ \A s, t \in Time : Before(s, t) => ~Before(t, s)
  /\ \A s, t \in Time : s = t \/ Before(s, t) \/ Before(t, s)
  /\ \A s, t, u \in Time : Before(s, t) /\ Before(t, u) => Before(s, u)
DeltaAssumption == Delta \subseteq Int

Batch == {"self", "other"}

VARIABLES
  batch,  \* [Batch -> [updates: Seq(Time \X Int), clean: Nat]]
  total   \* [Batch -> [Time -> Int]]: what the calls since the last drain add up to

vars == <<batch, total>>

New == [updates |-> <<>>, clean |-> 0]
Zero == [t \in Time |-> 0]

\* What a list of updates adds up to, for each time.
SumAt(updates, t) ==
  LET upTo[n \in 0 .. Len(updates)] ==
        IF n = 0 THEN 0
        ELSE upTo[n - 1] + (IF updates[n][1] = t THEN updates[n][2] ELSE 0)
  IN  upTo[Len(updates)]
Sum(updates) == [t \in Time |-> SumAt(updates, t)]

\* sort_by, of pairs of different times: the i-th has i that do not come after it.
NotAfter(us, v) == {u \in us : ~Before(v[1], u[1])}
Sorted(us) ==
  [i \in 1 .. Cardinality(us) |-> CHOOSE v \in us : Cardinality(NotAfter(us, v)) = i]

-----------------------------------------------------------------------------
MutantCompact(b) ==
  LET sum  == Sum(b.updates)
      kept == {<<t, sum[t]>> : t \in {s \in Time : sum[s] # 0}}
      list == IF b.clean < Len(b.updates) /\ Len(b.updates) > b.clean + 1
              THEN Sorted(kept) ELSE b.updates
  IN  [updates |-> list, clean |-> Len(list)]

\* compact: sorted by time, consolidated, and without what cancelled; but not if
\* nothing is dirty, nor a single update.
Compact(b) ==
  LET sum  == Sum(b.updates)
      kept == {<<t, sum[t]>> : t \in {s \in Time : sum[s] # 0}}
      list == IF b.clean < Len(b.updates) /\ Len(b.updates) > 1
              THEN Sorted(kept) ELSE b.updates
  IN  [updates |-> list, clean |-> Len(list)]

\* maintain_bounds, after an append.
Appended(b, updates) ==
  LET longer == [updates |-> b.updates \o updates, clean |-> b.clean]
  IN  IF Len(longer.updates) > Threshold /\ Len(longer.updates) \div 2 >= b.clean
      THEN Compact(longer) ELSE longer

\* is_empty need not compact if the prefix outnumbers what could cancel it.
KnownNonempty(b) == b.clean > Len(b.updates) \div 2

\* What is_empty returns.
AnswersEmpty(b) == ~KnownNonempty(b) /\ Compact(b).updates = <<>>

\* A single change of zero: compact leaves a list of one alone.
LoneZero(b) == Len(b.updates) = 1 /\ b.updates[1][2] = 0

-----------------------------------------------------------------------------
Bounded(sum) == \A t \in Time : sum[t] \in -MaxTotal .. MaxTotal

\* update and extend.
Extend(k, updates) ==
  /\ Len(batch["self"].updates) + Len(batch["other"].updates) + Len(updates) <= MaxUpdates
  /\ batch' = [batch EXCEPT ![k] = Appended(@, updates)]
  /\ total' = [total EXCEPT ![k] = [t \in Time |-> @[t] + Sum(updates)[t]]]
  /\ Bounded(total'[k])

\* iter; into_inner, of a batch that is not used again.
Iter(k) ==
  /\ batch' = [batch EXCEPT ![k] = Compact(@)]
  /\ UNCHANGED total

\* is_empty.
IsEmpty(k) ==
  /\ batch' = [batch EXCEPT ![k] = IF KnownNonempty(@) THEN @ ELSE Compact(@)]
  /\ UNCHANGED total

\* drain and clear.
Drain(k) ==
  /\ batch' = [batch EXCEPT ![k] = New]
  /\ total' = [total EXCEPT ![k] = Zero]

\* drain_into swaps if the other list is empty, whatever its clean says.
DrainInto ==
  /\ IF batch["other"].updates = <<>>
     THEN batch' = [self |-> batch["other"], other |-> batch["self"]]
     ELSE batch' = [self |-> New, other |-> Appended(batch["other"], batch["self"].updates)]
  /\ total' = [self |-> Zero,
               other |-> [t \in Time |-> total["self"][t] + total["other"][t]]]
  /\ Bounded(total'["other"])

-----------------------------------------------------------------------------
Init ==
  /\ batch = [k \in Batch |-> New]
  /\ total = [k \in Batch |-> Zero]

Next ==
  \/ \E k \in Batch, u \in Time \X Delta : Extend(k, <<u>>)
  \/ \E k \in Batch, u, v \in Time \X Delta : Extend(k, <<u, v>>)
  \/ \E k \in Batch : Iter(k) \/ IsEmpty(k) \/ Drain(k)
  \/ DrainInto

Spec == Init /\ [][Next]_vars

-----------------------------------------------------------------------------
\* However appends, swaps, drains and lazy compactions alternated, changes of zero among
\* them: nothing is lost, what a reader iterates over or drains names each time once, and
\* no change of zero unless the list is that one change.  is_empty tells, by the length of
\* the clean prefix or by compacting, whether everything has cancelled, with that same
\* list as the one exception.
BatchAgrees ==
  \A k \in Batch :
    LET b       == batch[k]
        compact == Compact(b).updates
    IN  /\ Sum(b.updates) = total[k]
        /\ \A i, j \in DOMAIN compact : i < j => Before(compact[i][1], compact[j][1])
        /\ ~LoneZero(b) => \A i \in DOMAIN compact : compact[i][2] # 0
        /\ AnswersEmpty(b) <=> total[k] = Zero /\ ~LoneZero(b)

=============================================================================
