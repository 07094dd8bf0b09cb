------------------------------ MODULE RecentBits ------------------------------
(***************************************************************************)
(* What the retransmit detector of bpf/packet_loss.bpf.c promises to its   *)
(* caller: a set of recently seen bits in two ages.  A packet that arrives *)
(* more than BLOOM_EPOCH_NS after the epoch began starts a new epoch: the  *)
(* bits of the current epoch become the bits of the previous one and the   *)
(* older ones are forgotten at once.  A key has been seen if all of its    *)
(* bits are known in either age.                                           *)
(*                                                                         *)
(* The filter in the kernel never clears anything at the epoch boundary:   *)
(* it tags words with a generation.  BloomFilter shows that the tags       *)
(* implement this specification.                                           *)
(***************************************************************************)
EXTENDS Integers

CONSTANTS Keys,           \* (4-tuple, sequence) keys of the packets
          BitsOf(_),      \* the bits a key hashes to
          BLOOM_EPOCH_NS, \* length of an epoch
          MaxNow          \* bound on the clock

VARIABLES now,        \* bpf_ktime_get_ns()
          epochStart, \* when the current epoch began
          current,    \* bits set in the current epoch
          previous,   \* bits set in the one before
          is_retrans  \* verdict on the last packet

vars == <<now, epochStart, current, previous, is_retrans>>

Init ==
  /\ now \in 0..MaxNow
  /\ epochStart = 0
  /\ current = {}
  /\ previous = {}
  /\ is_retrans = FALSE

EpochOver == now - epochStart > BLOOM_EPOCH_NS

\* The two ages after the epoch check that every packet performs.
CurrentAfterRoll  == IF EpochOver THEN {} ELSE current
PreviousAfterRoll == IF EpochOver THEN current ELSE previous

\* A packet whose key is looked up and remembered.
Lookup(k) ==
  /\ is_retrans' = (BitsOf(k) \subseteq (CurrentAfterRoll \union PreviousAfterRoll))
  /\ current' = CurrentAfterRoll \union BitsOf(k)
  /\ previous' = PreviousAfterRoll
  /\ epochStart' = IF EpochOver THEN now ELSE epochStart
  /\ UNCHANGED now

\* A packet that only ages the set (FIN, RST or SYN-ACK without payload).
Age ==
  /\ is_retrans' = FALSE
  /\ current' = CurrentAfterRoll
  /\ previous' = PreviousAfterRoll
  /\ epochStart' = IF EpochOver THEN now ELSE epochStart
  /\ UNCHANGED now

Tick ==
  /\ now < MaxNow
  /\ now' = now + 1
  /\ UNCHANGED <<epochStart, current, previous, is_retrans>>

Next ==
  \/ \E k \in Keys : Lookup(k)
  \/ Age
  \/ Tick

Spec == Init /\ [][Next]_vars
=============================================================================
