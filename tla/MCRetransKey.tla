----------------------------- MODULE MCRetransKey -----------------------------
(* Sequence numbers of 6 bits and blocks of 4 bytes; segments shorter than   *)
(* a block, of one block, and so long that two go round the sequence space. *)
(* The flow starts below, at and just before the end of the space.           *)
EXTENDS RetransKey
=============================================================================
