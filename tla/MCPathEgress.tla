----------------------------- MODULE MCPathEgress -----------------------------
(* One packet for each way through path_egress.                              *)
EXTENDS PathEgress

Zoned == [ip |-> "ether", fits |-> TRUE, tcp |-> TRUE, whole |-> TRUE, payload |-> TRUE,
          control |-> FALSE, srcZone |-> TRUE, dstZone |-> TRUE]

MCPackets == {Zoned,
              [Zoned EXCEPT !.ip = "none"],
              [Zoned EXCEPT !.ip = "raw", !.fits = FALSE],
              [Zoned EXCEPT !.tcp = FALSE],
              [Zoned EXCEPT !.whole = FALSE],
              [Zoned EXCEPT !.payload = FALSE],
              [Zoned EXCEPT !.ip = "raw", !.payload = FALSE, !.control = TRUE, !.srcZone = FALSE],
              [Zoned EXCEPT !.dstZone = FALSE]}
=============================================================================
