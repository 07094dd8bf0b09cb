---------------------------- MODULE MCBloomFilter ----------------------------
(* BloomFilter on two banks of two 2-bit words and three keys that share    *)
(* words and, pairwise, bits: k3 is covered by k1 and k2 together.          *)
EXTENDS BloomFilter, TLC

CONSTANTS k1, k2, k3

MCKeys == {k1, k2, k3}
MCBits == 0..3
MCHash == k1 :> (0 :> 0 @@ 1 :> 1 @@ 2 :> 1)
       @@ k2 :> (0 :> 2 @@ 1 :> 2 @@ 2 :> 1)
       @@ k3 :> (0 :> 0 @@ 1 :> 2 @@ 2 :> 0)
=============================================================================
