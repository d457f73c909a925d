----------------------------- MODULE ProgressSpec -----------------------------
(***************************************************************************)
(* What progress tracking promises its users, as if one observer could see *)
(* the whole computation at once: the records and capabilities outstanding *)
(* anywhere, and for each worker the pointstamps its frontiers have        *)
(* passed.  Work replaces outstanding pointstamps by others they could     *)
(* result in; a worker may at any moment learn that pointstamps which      *)
(* nothing outstanding could still result in are passed, and what it has   *)
(* learned stays true and is never forgotten.                              *)
(***************************************************************************)
CONSTANTS
  Worker,
  Pointstamp,    \* places and times at which something may be outstanding
  CouldResultIn  \* pairs <<p, Q>>: something at p may lead to anything in Q

VARIABLES
  outstanding,   \* the pointstamps at which a record or a capability exists
  passed         \* passed[w]: what w's frontiers have passed

vars == <<outstanding, passed>>

\* What may still happen once P is what is outstanding.
Future(P) == UNION {c[2] : c \in {d \in CouldResultIn : d[1] \in P}}

Init ==
  /\ outstanding \in SUBSET Pointstamp
  /\ passed \in [Worker -> SUBSET (Pointstamp \ Future(outstanding))]

\* Records are sent, received and processed, capabilities created and given up;
\* nothing comes from nothing.
Work ==
  /\ outstanding' \in SUBSET Pointstamp
  /\ Future(outstanding') \subseteq Future(outstanding)
  /\ UNCHANGED passed

\* Worker w's frontiers move.
Observe(w) ==
  /\ passed' \in [Worker -> SUBSET Pointstamp]
  /\ \A v \in Worker \ {w} : passed'[v] = passed[v]
  /\ passed[w] \subseteq passed'[w]
  /\ passed'[w] \cap Future(outstanding) = {}
  /\ UNCHANGED outstanding

Next == Work \/ \E w \in Worker : Observe(w)

Spec == Init /\ [][Next]_vars

=============================================================================
