------------------------------ MODULE MCEMAStore ------------------------------
(* One zone, a window of three polls, ticks that arrive on time or coalesce  *)
(* into one, and counters that include the torn snapshots of the             *)
(* accumulator: more retransmits than segments.                              *)
EXTENDS EMAStore

MCDeltas == {[seg |-> 0, ret |-> 0], [seg |-> 2, ret |-> 0], [seg |-> 1, ret |-> 1],
             [seg |-> 2, ret |-> 1], [seg |-> 0, ret |-> 1]}

\* exp(-dt / EMAHalfLife) for a time unit of EMAHalfLife * ln 2.
MCUnit == 2^MaxTime
MCWeight == [dt \in 0..MaxTime |-> 2^(MaxTime - dt)]

ASSUME NothingIsRounded == Exact(2)
=============================================================================
