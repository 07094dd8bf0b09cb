------------------------------ MODULE MCPublish ------------------------------
(* What a poll publishes: the gauges, against scrapes, and the log.  publish *)
(* hands both the same snapshot and neither reads what the other keeps, so a *)
(* behaviour of the one is explored with the other at rest.                  *)
(*                                                                           *)
(* The gauges: one zone, whose three series no other zone shares, and three  *)
(* polls, two of which may begin during a scrape; a percent that flooring    *)
(* changes, and zero.  The log: one zone that is idle, has traffic without   *)
(* loss, a loss too small to show, a loss that shows, and a loss held while  *)
(* it is silent.                                                             *)
EXTENDS TickSummary, Exporter

MCZoneTicks ==
  {[seg |-> 0, loss |-> 0, ema |-> 0], [seg |-> 5, loss |-> 0, ema |-> 0], [seg |-> 9, loss |-> 0, ema |-> 3],
   [seg |-> 5, loss |-> 66, ema |-> 52], [seg |-> 0, loss |-> 66, ema |-> 52]}

LogStep == states = <<>> /\ scrapes = 0 /\ Next /\ UNCHANGED exportVars
GaugeStep == tick = 0 /\ ExportNext /\ UNCHANGED vars

PublishInit == Init /\ ExportInit

PublishSpec == PublishInit /\ [][LogStep \/ GaugeStep]_<<vars, exportVars>>
=============================================================================
