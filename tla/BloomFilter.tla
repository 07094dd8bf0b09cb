------------------------------ MODULE BloomFilter ------------------------------
(***************************************************************************)
(* The retransmit detector of bpf/packet_loss.bpf.c as one CPU runs it: a  *)
(* Bloom filter of two banks of words.  A word carries the generation that *)
(* last wrote it, the bank of a generation is its parity, and a word whose *)
(* tag is not the generation asked for counts as empty, so that an epoch   *)
(* roll costs one increment and no clearing.                               *)
(*                                                                         *)
(* One packet is one step here: a TC program runs to completion and no     *)
(* other CPU touches the maps.  BloomFilterSMP has the loads and the       *)
(* atomic instructions of several CPUs interleaved.                        *)
(*                                                                         *)
(* The 64-bit generation is a natural number: at one roll per 1.5 s it     *)
(* does not wrap.  The one wrap the code does meet, prev_gen = 0 - 1 in    *)
(* the first generation, is the integer -1, which like 2^64-1 is odd and   *)
(* the tag of no word.                                                     *)
(***************************************************************************)
EXTENDS Integers

CONSTANTS Keys,            \* (4-tuple, sequence) keys of the packets
          Bits,            \* bit indices of one bank, 0..BLOOM_BITS-1
          WordBits,        \* bits per word, 64 in the code
          bloom_bit_index, \* the three hashes of a key, each a bit index
          BLOOM_EPOCH_NS,  \* length of an epoch
          MaxNow           \* bound on the clock

ASSUME BitsAssumption == Bits \subseteq Nat
ASSUME WordBitsAssumption == WordBits \in Nat \ {0}
ASSUME HashAssumption == bloom_bit_index \in [Keys -> [0..2 -> Bits]]
ASSUME EpochAssumption == BLOOM_EPOCH_NS \in Nat
ASSUME MaxNowAssumption == MaxNow \in Nat

VARIABLES now,        \* bpf_ktime_get_ns()
          gen,        \* bloom_epoch.gen
          start_ns,   \* bloom_epoch.start_ns
          bloom_bits, \* bloom_bits[bank][word] = [gen, bits]
          is_retrans, \* verdict on the last packet
          lastSeen,   \* history: when each key was last looked up
          gap         \* history: age of the last packet's previous lookup

vars == <<now, gen, start_ns, bloom_bits, is_retrans, lastSeen, gap>>

Never == -1

WordOf(bit) == bit \div WordBits
Words == {WordOf(b) : b \in Bits}
BloomWord == [gen : Nat, bits : SUBSET Bits]

-----------------------------------------------------------------------------

\* TRUE if the word that holds the bit is tagged g and has the bit.
bloom_test_bit_gen(bb, bit, g) ==
  /\ bb[g % 2][WordOf(bit)].gen = g
  /\ bit \in bb[g % 2][WordOf(bit)].bits

\* Mutant: the bit is set in the generation before.
SetBitInPreviousGen(bb, bit, g) ==
  [bb EXCEPT ![(g - 1) % 2][WordOf(bit)] = [gen |-> g - 1, bits |-> {bit}]]

\* A word of another generation is retagged and emptied before it is used.
bloom_set_bit_gen(bb, bit, g) ==
  [bb EXCEPT ![g % 2][WordOf(bit)] =
    [gen |-> g, bits |-> (IF @.gen # g THEN {} ELSE @.bits) \union {bit}]]

\* Mutant: the epoch ends one unit early.
EpochOverEarly == now > start_ns /\ now - start_ns >= BLOOM_EPOCH_NS

EpochOver == now > start_ns /\ now - start_ns > BLOOM_EPOCH_NS

\* bloom_epoch is an ARRAY map, so the lookup never misses.
bloom_maybe_roll_epoch ==
  IF EpochOver
  THEN [gen |-> gen + 1, start_ns |-> now]
  ELSE [gen |-> gen, start_ns |-> start_ns]

\* Mutant: only the current generation is tested.
SeenInCurrentGen(bb, k, g) ==
  \A i \in 0..2 : bloom_test_bit_gen(bb, bloom_bit_index[k][i], g)

\* All three tests, in either generation, come before the three sets.
Seen(bb, k, g) ==
  \A i \in 0..2 :
    \/ bloom_test_bit_gen(bb, bloom_bit_index[k][i], g)
    \/ bloom_test_bit_gen(bb, bloom_bit_index[k][i], g - 1)

Insert(bb, k, g) ==
  bloom_set_bit_gen(
    bloom_set_bit_gen(
      bloom_set_bit_gen(bb, bloom_bit_index[k][0], g),
      bloom_bit_index[k][1], g),
    bloom_bit_index[k][2], g)

-----------------------------------------------------------------------------

Init ==
  /\ now \in 0..MaxNow
  /\ gen = 0
  /\ start_ns = 0
  /\ bloom_bits = [bank \in {0, 1} |-> [w \in Words |-> [gen |-> 0, bits |-> {}]]]
  /\ is_retrans = FALSE
  /\ lastSeen = [k \in Keys |-> Never]
  /\ gap = Never

\* path_egress on a zoned packet with payload, or a SYN without ACK.
bloom_test_and_set(k) ==
  /\ gen' = bloom_maybe_roll_epoch.gen
  /\ start_ns' = bloom_maybe_roll_epoch.start_ns
  /\ is_retrans' = Seen(bloom_bits, k, gen')
  /\ bloom_bits' = Insert(bloom_bits, k, gen')
  /\ lastSeen' = [lastSeen EXCEPT ![k] = now]
  /\ gap' = IF lastSeen[k] = Never THEN Never ELSE now - lastSeen[k]
  /\ UNCHANGED now

\* path_egress on any other zoned packet: the epoch may roll all the same.
NoLookup ==
  /\ gen' = bloom_maybe_roll_epoch.gen
  /\ start_ns' = bloom_maybe_roll_epoch.start_ns
  /\ is_retrans' = FALSE
  /\ gap' = Never
  /\ UNCHANGED <<now, bloom_bits, lastSeen>>

\* The kernel's monotonic clock.
bpf_ktime_get_ns ==
  /\ now < MaxNow
  /\ now' = now + 1
  /\ UNCHANGED <<gen, start_ns, bloom_bits, is_retrans, lastSeen, gap>>

Next ==
  \/ \E k \in Keys : bloom_test_and_set(k)
  \/ NoLookup
  \/ bpf_ktime_get_ns

Spec == Init /\ [][Next]_vars

-----------------------------------------------------------------------------

\* Every variable of the filter has the type the maps give it.
TypeOK ==
  /\ now \in Nat
  /\ gen \in Nat
  /\ start_ns \in Nat
  /\ bloom_bits \in [{0, 1} -> [Words -> BloomWord]]
  /\ is_retrans \in BOOLEAN
  /\ lastSeen \in [Keys -> Nat \union {Never}]
  /\ gap \in Nat \union {Never}

\* No false negative inside the epoch length: a packet whose key was looked
\* up at most BLOOM_EPOCH_NS earlier is reported as a retransmit, however
\* many rolls and other keys came between (the two banks exist for this).
MissOnlyAfterEpoch ==
  gap # Never /\ gap <= BLOOM_EPOCH_NS => is_retrans

\* The bits a lookup in generation g finds set.
BitsAt(bb, g) == {b \in Bits : bloom_test_bit_gen(bb, b, g)}

KeyBits(k) == {bloom_bit_index[k][i] : i \in 0..2}

\* No word carries a generation that has not begun: the first lookup after a
\* roll finds the bank it reuses empty.
TagsUpTo(bb, g) == \A bank \in {0, 1} : \A w \in Words : bb[bank][w].gen <= g

\* Where the bits of a key are, by the time of its last lookup: in the
\* current generation if it came after the epoch began, in the previous one
\* if it came at most an epoch length before that.
KeyRemembered(k) ==
  lastSeen[k] # Never =>
    /\ lastSeen[k] <= now
    /\ lastSeen[k] <= start_ns + BLOOM_EPOCH_NS
    /\ lastSeen[k] >= start_ns => KeyBits(k) \subseteq BitsAt(bloom_bits, gen)
    /\ lastSeen[k] < start_ns /\ lastSeen[k] >= start_ns - BLOOM_EPOCH_NS =>
         KeyBits(k) \subseteq BitsAt(bloom_bits, gen - 1)

\* The inductive invariant behind MissOnlyAfterEpoch: tags never run ahead of
\* the epoch, the epoch never ahead of the clock, and every recent key is
\* still in one of the two generations that are tested.
FilterInv ==
  /\ TagsUpTo(bloom_bits, gen)
  /\ start_ns <= now
  /\ \A k \in Keys : KeyRemembered(k)
  /\ MissOnlyAfterEpoch

-----------------------------------------------------------------------------

Abs == INSTANCE RecentBits WITH
  BitsOf <- KeyBits,
  epochStart <- start_ns,
  current <- BitsAt(bloom_bits, gen),
  previous <- BitsAt(bloom_bits, gen - 1)

\* The lazily tagged words implement two sets of bits that are aged at the
\* epoch boundary: no bit survives its second roll and none is lost earlier.
ImplementsRecentBits == Abs!Spec
=============================================================================
