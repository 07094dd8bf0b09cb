--------------------------- MODULE MCBloomFilterRun ---------------------------
(* Two CPUs, one 2-bit word per bank, a key with both bits and packets that  *)
(* only age the filter; the interleavings are those of two keys in one word. *)
EXTENDS BloomFilterRun, TLC

CONSTANTS c1, c2, k1

MCCPUs == {c1, c2}
MCKeys == {k1}
MCBits == {0, 1}
MCHash == k1 :> (0 :> 0 @@ 1 :> 1)
MCSymmetry == Permutations(MCCPUs)
=============================================================================
