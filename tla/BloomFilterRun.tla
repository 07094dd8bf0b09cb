---------------------------- MODULE BloomFilterRun ----------------------------
(***************************************************************************)
(* BloomFilterSMP seen from outside, between packets: settled is what the   *)
(* maps held, and what the last packet was told, when no CPU was handling   *)
(* one.  As long as packets come one after the other, on whichever CPU, and *)
(* the clock stands still while one is handled, the loads,                  *)
(* compare-and-swaps, clears and ORs of a packet amount to one step of      *)
(* RecentBits.  From the first overlap on settled stays as it is.           *)
(***************************************************************************)
EXTENDS BloomFilterSMP

VARIABLES apart,  \* history: no two packets have overlapped so far
          settled \* history: shared maps and verdict when all CPUs are idle

Busy == {c \in CPUs : cpu[c].pc # "idle"}

\* path_egress hands the result of the three tests to the event it submits
Verdict == \E c \in CPUs : cpu[c].pc = "or" /\ AllSeen(c)

RunInit ==
  /\ Init
  /\ apart = TRUE
  /\ settled = [gen |-> gen, start_ns |-> start_ns, bloom_bits |-> bloom_bits,
                is_retrans |-> FALSE]

Settle ==
  /\ apart' = (apart /\ (\A c, d \in Busy' : c = d) /\ (now' # now => Busy = {}))
  /\ settled' =
       IF apart' /\ Busy # {} /\ Busy' = {}
       THEN [gen |-> gen', start_ns |-> start_ns', bloom_bits |-> bloom_bits',
             is_retrans |-> Verdict]
       ELSE settled

RunNext == Next /\ Settle

RunSpec == RunInit /\ [][RunNext]_<<vars, apart, settled>>

\* The bits that a lookup in generation g would find set.
SettledBits(g) ==
  {b \in Bits : /\ settled.bloom_bits[Bank(g)][WordOf(b)].gen = g
                /\ b \in settled.bloom_bits[Bank(g)][WordOf(b)].bits}

KeyBits(k) == {bloom_bit_index[k][h] : h \in Hashes}

Abs == INSTANCE RecentBits WITH
  BitsOf <- KeyBits,
  epochStart <- settled.start_ns,
  current <- SettledBits(settled.gen),
  previous <- SettledBits(settled.gen - 1),
  is_retrans <- settled.is_retrans

\* A sequence of separate map accesses that no other packet comes between is
\* one lookup or one ageing of the two-age set: the order test, test, test,
\* set, set, set of bloom_test_and_set and the retag-clear-OR order of
\* bloom_set_bit_gen leave nothing of a packet half done and let no packet see
\* its own bits.
PacketIsAtomic == Abs!Spec

-----------------------------------------------------------------------------
(* Why it holds: the inductive invariant of BloomFilterSMPProofs *)

\* The epoch as the packet in progress has to leave it.
Over == EpochOver(now, settled.start_ns)
GenAfter == IF Over THEN settled.gen + 1 ELSE settled.gen
StartAfter == IF Over THEN now ELSE settled.start_ns

\* A bit of the key was known before the packet came.
Known(k, h) ==
  bloom_bit_index[k][h] \in SettledBits(GenAfter) \union SettledBits(GenAfter - 1)

SettledInv ==
  /\ settled \in [gen : Nat, start_ns : Nat, is_retrans : BOOLEAN,
                  bloom_bits : [{0, 1} -> [Words -> [gen : Nat, bits : SUBSET Bits]]]]
  /\ \A bank \in {0, 1}, w \in Words : settled.bloom_bits[bank][w].gen <= settled.gen

\* A bit counts in the generation of the packet, once the word is cleared.
Live(c, b) ==
  /\ Word(b, gen).gen = gen /\ b \in Word(b, gen).bits
  /\ ~(cpu[c].pc = "clear" /\ WordOf(b) = WordOf(Bit(c)))

\* Up to the lookup: the epoch as it was, half rolled, or rolled.
RollPart(c) ==
  /\ cpu[c].now = now
  /\ cpu[c].pc \in {"start", "roll"} => gen = settled.gen /\ start_ns = settled.start_ns
  /\ cpu[c].pc = "roll" => Over /\ cpu[c].start_ns = start_ns
  /\ cpu[c].pc = "rolled" => Over /\ gen = settled.gen /\ start_ns = now
  /\ cpu[c].pc \in {"gen"} \union TestPhase \union SetPhase => gen = GenAfter /\ start_ns = StartAfter
  /\ cpu[c].pc \in TestPhase \union SetPhase => cpu[c].gen = gen
  /\ cpu[c].pc \notin SetPhase => bloom_bits = settled.bloom_bits
  /\ cpu[c].pc \notin TestPhase \union SetPhase => cpu[c].seen = {}

\* The tests so far have told which bits were known.
TestPart(c) ==
  cpu[c].pc \in TestPhase =>
    /\ cpu[c].seen = {h \in 0..cpu[c].hash - 1 : Known(cpu[c].key, h)}
    /\ cpu[c].asked # gen => Bit(c) \notin SettledBits(gen)
    /\ cpu[c].pc = "testBits" => Word(Bit(c), cpu[c].asked).gen = cpu[c].asked

\* The bits of the key that were set so far have come, and nothing else has
\* changed in either generation.
SetPart(c) ==
  cpu[c].pc \in SetPhase =>
    /\ cpu[c].seen = {h \in Hashes : Known(cpu[c].key, h)}
    /\ bloom_bits[Bank(gen - 1)] = settled.bloom_bits[Bank(gen - 1)]
    /\ \A b \in Bits : Live(c, b) <=> \/ b \in SettledBits(gen)
                                      \/ \E h \in 0..cpu[c].hash - 1 : b = bloom_bit_index[cpu[c].key][h]

ApartInv ==
  apart =>
    /\ \A c, d \in Busy : c = d
    /\ Busy = {} => /\ gen = settled.gen /\ start_ns = settled.start_ns
                    /\ bloom_bits = settled.bloom_bits
    /\ \A c \in Busy : RollPart(c) /\ TestPart(c) /\ SetPart(c)

RunInv == SettledInv /\ ApartInv
=============================================================================
