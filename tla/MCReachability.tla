---------------------------- MODULE MCReachability ----------------------------
(***************************************************************************)
(* Reachability on an iterative scope: the scope's input feeds an operator *)
(* a, whose output leaves the scope and also returns to a through a        *)
(* feedback operator f, which adds one to the inner component of the time. *)
(* Operators are numbered as iterate() makes them, f before a.             *)
(*                                                                         *)
(* And FpgaWrapper, which reports to the tracker in the names of others,   *)
(* on one worker.  Each is checked by itself: in a behaviour `which' runs  *)
(* and the other stays as it starts.  The variables of FpgaWrapper have    *)
(* the prefix fw_.                                                         *)
(***************************************************************************)
EXTENDS Reachability, Sequences

CONSTANTS
  Parts,         \* which may run: a subset of {"tracker", "fpga_wrapper"}
  Outer, Inner,  \* the two components of a time
  Ghosts, MaxEpoch, MaxAhead

MCTime == Outer \X Inner

ProductLeq(s, t) == s[1] <= t[1] /\ s[2] <= t[2]

ProductBefore(s, t) == s[1] < t[1] \/ (s[1] = t[1] /\ s[2] < t[2])

LoopSource == {"in", "f.out", "a.out"}
LoopTarget == {"out", "f.in", "a.in", "a.loop"}
LoopEdge == {<<"in", "a.in">>, <<"a.out", "f.in">>, <<"a.out", "out">>,
             <<"f.out", "a.loop">>}

LoopRank(port) ==
  CHOOSE i \in 1 .. 7 :
    <<"out", "in", "f.in", "f.out", "a.in", "a.loop", "a.out">>[i] = port

\* A summary is the number it adds to the inner component; beyond the largest time
\* the addition overflows and results in none.
LoopResultsIn(summary, t) == {<<t[1], t[2] + summary>>} \cap Time

LoopInternal(g, s) ==
  IF g \in {"a.in", "a.loop"} /\ s = "a.out" THEN {0}
  ELSE IF g = "f.in" /\ s = "f.out" THEN {1} ELSE {}

LoopOutputSummary(port) ==
  IF port \in {"in", "out"} THEN {} ELSE IF port = "f.in" THEN {1} ELSE {0}

LoopUpdatable ==
  {<<"in", <<0, 0>>>>, <<"in", <<1, 0>>>>, <<"a.loop", <<0, 1>>>>,
   <<"a.out", <<0, 0>>>>, <<"f.in", <<0, 0>>>>}

-----------------------------------------------------------------------------
VARIABLES
  which,  \* what runs
  fw_epoch, fw_pending, fw_queue, fw_outbox, fw_windows, fw_answers, fw_received,
  fw_known, fw_batch, fw_shared, fw_produceds, fw_stale, fw_activations, fw_temp_active,
  fw_cursor, fw_calling, fw_first, fw_probe

FW ==
  INSTANCE FpgaWrapper WITH
    MaxTime <- MaxEpoch, epoch <- fw_epoch, pending <- fw_pending, queue <- fw_queue,
    outbox <- fw_outbox, windows <- fw_windows, answers <- fw_answers,
    received <- fw_received, known <- fw_known, batch <- fw_batch, shared <- fw_shared,
    produceds <- fw_produceds, stale <- fw_stale, activations <- fw_activations,
    temp_active <- fw_temp_active, cursor <- fw_cursor, calling <- fw_calling,
    first <- fw_first, probe <- fw_probe
fw_vars == <<fw_epoch, fw_pending, fw_queue, fw_outbox, fw_windows, fw_answers,
             fw_received, fw_known, fw_batch, fw_shared, fw_produceds, fw_stale,
             fw_activations, fw_temp_active, fw_cursor, fw_calling, fw_first, fw_probe>>

-----------------------------------------------------------------------------
AnyInit ==
  /\ which \in Parts
  /\ Init
  /\ FW!Init /\ (which = "fpga_wrapper" \/ fw_answers = <<>>)

AnyNext ==
  \/ which = "tracker" /\ Next /\ UNCHANGED <<which, fw_vars>>
  \/ which = "fpga_wrapper" /\ FW!Next /\ UNCHANGED <<which, vars>>

\* propagate_all runs to its end once called; the program that uses the device steps its
\* worker for as long as there is something to do.
AnySpec ==
  /\ AnyInit /\ [][AnyNext]_<<which, vars, fw_vars>>
  /\ WF_vars(Return \/ \E p \in Pointstamp : Pop(p))
  /\ WF_fw_vars(which = "fpga_wrapper" /\ FW!Step)

-----------------------------------------------------------------------------
\* See FpgaWrapper: the counts reported for the ghosts are those of the device, and the
\* ghosts themselves never run.
GhostsStandIn == FW!GhostsStandIn

\* See FpgaWrapper: the probe passes nothing that the device still has.
ProbeSafe == FW!ProbeSafe

\* See FpgaWrapper: the probe passes every closed epoch.
EpochsComplete == FW!EpochsComplete

\* See FpgaWrapper: every message that is taken is given to the device.
MessagesReachDevice == FW!MessagesReachDevice

=============================================================================
