-------------------------- MODULE MCProgressTracking --------------------------
(***************************************************************************)
(* ProgressTracking on the smallest scope with a channel from an input     *)
(* handle and a loop: an input (1) and an operator (2) with one port fed   *)
(* by the handle and one fed by its own output, whose summary adds one to  *)
(* the time.  Beyond MaxTime that summary overflows (checked_add) and      *)
(* yields no time.                                                         *)
(***************************************************************************)
EXTENDS ProgressTracking, TLC

CONSTANTS
  MaxTime,    \* the largest time
  MaxBacklog  \* bound on the batches on their way between two workers

MCTime == 0 .. MaxTime

IntLeq(s, t) == s <= t

LoopNodeOf(p) == IF p = "input.out" THEN 1 ELSE 2

LoopSource == {"input.out", "op.out"}
LoopTarget == {"op.in", "op.loop"}
LoopEdge == {<<"input.out", "op.in">>, <<"op.out", "op.loop">>}

LoopReserving == {"input.out"}

LoopInternal(g, s, t) ==
  IF s # "op.out" THEN {}
  ELSE IF g = "op.in" THEN {t} ELSE {t + 1} \cap MCTime

\* The processes run in the same mode (ProgressLiveness.cfg mixes them) and no worker
\* is more than MaxBacklog batches behind another.
Bounded ==
  \A v, w \in Worker : eager[v] = eager[w] /\ Len(net[v][w]) <= MaxBacklog

\* Workers are interchangeable.
Symmetry == Permutations(Worker)

=============================================================================
