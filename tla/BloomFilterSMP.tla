---------------------------- MODULE BloomFilterSMP ----------------------------
(***************************************************************************)
(* The retransmit detector of bpf/packet_loss.bpf.c on several CPUs.  Every *)
(* load, store and atomic instruction on the shared maps bloom_epoch and    *)
(* bloom_bits is a step of its own, and the steps of different CPUs         *)
(* interleave.  The plain loads are those of the compiled object            *)
(* internal/bpf/packetloss_bpfel.o: start_ns and a word's gen are loaded    *)
(* once, the loaded value serves the comparison and the compare-and-swap.   *)
(* The one plain store, w->bits = 0, is followed by an atomic OR of the     *)
(* same CPU; it is taken to be visible at once.                             *)
(*                                                                         *)
(* A TC program runs to completion in far less than half an epoch.  MaxRun  *)
(* bounds how far the clock advances while a packet is being handled.       *)
(***************************************************************************)
EXTENDS Integers

CONSTANTS CPUs,
          Keys,            \* (4-tuple, sequence) keys of the packets
          NoKey,           \* a packet without payload that is no SYN
          Bits,            \* bit indices of one bank
          WordBits,        \* bits per word
          BLOOM_HASHES,    \* number of hashes of a key
          bloom_bit_index, \* the hashes of a key, each a bit index
          BLOOM_EPOCH_NS,  \* length of an epoch
          Boot,            \* the clock when the program is loaded
          MaxRun,          \* bound on the running time of one packet
          MaxNow,          \* bound on the clock
          MaxPackets       \* bound on the number of packets

ASSUME SMPAssumption ==
  /\ NoKey \notin Keys
  /\ Bits \subseteq Nat /\ WordBits \in Nat \ {0} /\ BLOOM_HASHES \in Nat \ {0}
  /\ bloom_bit_index \in [Keys -> [0..BLOOM_HASHES-1 -> Bits]]
  /\ BLOOM_EPOCH_NS \in Nat /\ MaxRun \in Nat /\ 2 * MaxRun <= BLOOM_EPOCH_NS
  /\ MaxNow \in Nat /\ Boot \in 0..MaxNow /\ MaxPackets \in Nat

VARIABLES now,        \* bpf_ktime_get_ns()
          gen,        \* bloom_epoch.gen
          start_ns,   \* bloom_epoch.start_ns
          bloom_bits, \* bloom_bits[bank][word] = [gen, bits]
          cpu,        \* registers of the packet each CPU is handling
          packets,    \* number of packets so far
          inserted,   \* history: last completed insertion of each key
          fresh,      \* history: <<g, bit>> that were OR-ed in generation g
          wiped       \* history: those a later w->bits = 0 of g took away

shared == <<gen, start_ns, bloom_bits>>
history == <<inserted, fresh, wiped>>
vars == <<now, shared, cpu, packets, history>>

Hashes == 0..BLOOM_HASHES-1
Never == -1
NoInsertion == [at |-> Never, gen |-> 0]

WordOf(bit) == bit \div WordBits
Words == {WordOf(b) : b \in Bits}

\* Mutant: one bank for all generations.
OneBank(g) == 0

Bank(g) == g % 2

\* The word of a bit in the bank of generation g.
Word(bit, g) == bloom_bits[Bank(g)][WordOf(bit)]

Idle == [pc |-> "idle", key |-> NoKey, now |-> 0, start_ns |-> 0, gen |-> 0,
         hash |-> 0, asked |-> 0, old |-> 0, seen |-> {}, prior |-> NoInsertion]

Bit(c) == bloom_bit_index[cpu[c].key][cpu[c].hash]

Init ==
  /\ now = Boot
  /\ gen = 0
  /\ start_ns = 0
  /\ bloom_bits = [bank \in {0, 1} |-> [w \in Words |-> [gen |-> 0, bits |-> {}]]]
  /\ cpu = [c \in CPUs |-> Idle]
  /\ packets = 0
  /\ inserted = [k \in Keys |-> NoInsertion]
  /\ fresh = {}
  /\ wiped = {}

-----------------------------------------------------------------------------
(* path_egress from the clock on; the packet has both zones *)

path_egress(c, k) ==
  /\ cpu[c].pc = "idle"
  /\ packets < MaxPackets
  /\ packets' = packets + 1
  /\ cpu' = [cpu EXCEPT ![c] = [Idle EXCEPT
       !.pc = "start", !.key = k, !.now = now,
       !.prior = IF k = NoKey THEN NoInsertion ELSE inserted[k]]]
  /\ UNCHANGED <<now, shared, history>>

\* After the epoch check: the lookup, or the end of a packet without one.
Looked(r) == IF r.key = NoKey THEN Idle ELSE [r EXCEPT !.pc = "gen", !.start_ns = 0]

\* unsigned subtraction, guarded against a start_ns later than this packet
EpochOver(t, s) == t > s /\ t - s > BLOOM_EPOCH_NS

\* bloom_maybe_roll_epoch: load of start_ns and the comparison
LoadStart(c) ==
  /\ cpu[c].pc = "start"
  /\ cpu' = [cpu EXCEPT ![c] =
       IF EpochOver(@.now, start_ns)
       THEN [@ EXCEPT !.pc = "roll", !.start_ns = start_ns]
       ELSE Looked(@)]
  /\ UNCHANGED <<now, shared, packets, history>>

\* Mutant: epoch->start_ns is read again for the compare-and-swap, as the
\* C source, which does not mark the read volatile, would let a compiler do.
ReloadedStart(c) == start_ns

\* The value that the compare-and-swap on start_ns expects.
RollExpects(c) == cpu[c].start_ns

NewStart(c) == cpu[c].now

CasStart(c) ==
  /\ cpu[c].pc = "roll"
  /\ IF start_ns = RollExpects(c)
     THEN /\ start_ns' = NewStart(c)
          /\ cpu' = [cpu EXCEPT ![c].pc = "rolled"]
     ELSE /\ cpu' = [cpu EXCEPT ![c] = Looked(@)]
          /\ UNCHANGED start_ns
  /\ UNCHANGED <<now, packets, gen, bloom_bits, history>>

\* Mutant: a roll skips a generation.
SkippedGen == gen + 2

NextGen == gen + 1

AddGen(c) ==
  /\ cpu[c].pc = "rolled"
  /\ gen' = NextGen
  /\ cpu' = [cpu EXCEPT ![c] = Looked(@)]
  /\ UNCHANGED <<now, packets, start_ns, bloom_bits, history>>

-----------------------------------------------------------------------------
(* bloom_test_and_set: each bit in the current, then the previous generation *)

LoadGen(c) ==
  /\ cpu[c].pc = "gen"
  /\ cpu' = [cpu EXCEPT ![c].pc = "testTag", ![c].gen = gen, ![c].asked = gen]
  /\ UNCHANGED <<now, shared, packets, history>>

\* Mutant: the previous generation is not tested.
AfterTestOfCurrentGen(r, hit) ==
  LET seen == IF hit THEN r.seen \union {r.hash} ELSE r.seen
  IN  IF r.hash < BLOOM_HASHES - 1
      THEN [r EXCEPT !.pc = "testTag", !.hash = @ + 1, !.seen = seen]
      ELSE [r EXCEPT !.pc = "setTag", !.asked = 0, !.hash = 0, !.seen = seen]

\* What a CPU does after one bloom_test_bit_gen returned hit: the previous
\* generation if the current one failed, else the next hash, else the sets.
AfterTest(r, hit) ==
  LET seen == IF hit THEN r.seen \union {r.hash} ELSE r.seen
  IN  IF ~hit /\ r.asked = r.gen
      THEN [r EXCEPT !.pc = "testTag", !.asked = r.gen - 1]
      ELSE IF r.hash < BLOOM_HASHES - 1
      THEN [r EXCEPT !.pc = "testTag", !.asked = r.gen, !.hash = @ + 1, !.seen = seen]
      ELSE [r EXCEPT !.pc = "setTag", !.asked = 0, !.hash = 0, !.seen = seen]

\* bloom_test_bit_gen: the load of w->gen ...
TestTag(c) ==
  /\ cpu[c].pc = "testTag"
  /\ cpu' = [cpu EXCEPT ![c] =
       IF Word(Bit(c), @.asked).gen = @.asked
       THEN [@ EXCEPT !.pc = "testBits"]
       ELSE AfterTest(@, FALSE)]
  /\ UNCHANGED <<now, shared, packets, history>>

\* ... and, if the tag was right, that of w->bits.
TestBits(c) ==
  /\ cpu[c].pc = "testBits"
  /\ cpu' = [cpu EXCEPT ![c] = AfterTest(@, Bit(c) \in Word(Bit(c), @.asked).bits)]
  /\ UNCHANGED <<now, shared, packets, history>>

-----------------------------------------------------------------------------
(* bloom_set_bit_gen: load of w->gen, compare-and-swap, clear, atomic OR *)

LoadTag(c) ==
  /\ cpu[c].pc = "setTag"
  /\ cpu' = [cpu EXCEPT
       ![c].old = Word(Bit(c), cpu[c].gen).gen,
       ![c].pc = IF Word(Bit(c), cpu[c].gen).gen # cpu[c].gen THEN "cas" ELSE "or"]
  /\ UNCHANGED <<now, shared, packets, history>>

\* Mutant: the CPU that wins the swap does not clear the word.
NeverClear(found, g) == "or"

\* The compare-and-swap returns the tag it found: any tag but the CPU's own
\* generation makes the CPU clear the word, whether it won the swap or not.
AfterCas(found, g) == IF found # g THEN "clear" ELSE "or"

CasTag(c) ==
  LET g == cpu[c].gen
      found == Word(Bit(c), g).gen
  IN  /\ cpu[c].pc = "cas"
      /\ bloom_bits' = IF found = cpu[c].old
                       THEN [bloom_bits EXCEPT ![Bank(g)][WordOf(Bit(c))].gen = g]
                       ELSE bloom_bits
      /\ cpu' = [cpu EXCEPT ![c].pc = AfterCas(found, g)]
      /\ UNCHANGED <<now, packets, gen, start_ns, history>>

Clear(c) ==
  LET g == cpu[c].gen
  IN  /\ cpu[c].pc = "clear"
      /\ bloom_bits' = [bloom_bits EXCEPT ![Bank(g)][WordOf(Bit(c))].bits = {}]
      /\ wiped' = wiped \union (fresh \intersect ({g} \X Word(Bit(c), g).bits))
      /\ cpu' = [cpu EXCEPT ![c].pc = "or"]
      /\ UNCHANGED <<now, packets, gen, start_ns, inserted, fresh>>

\* The last OR ends the packet.
OrBit(c) ==
  LET g == cpu[c].gen
      last == cpu[c].hash = BLOOM_HASHES - 1
  IN  /\ cpu[c].pc = "or"
      /\ bloom_bits' = [bloom_bits EXCEPT ![Bank(g)][WordOf(Bit(c))].bits = @ \union {Bit(c)}]
      /\ fresh' = fresh \union {<<g, Bit(c)>>}
      /\ inserted' = IF last THEN [inserted EXCEPT ![cpu[c].key] = [at |-> cpu[c].now, gen |-> g]]
                             ELSE inserted
      /\ cpu' = [cpu EXCEPT ![c] = IF last THEN Idle
                                   ELSE [@ EXCEPT !.pc = "setTag", !.old = 0, !.hash = cpu[c].hash + 1]]
      /\ UNCHANGED <<now, packets, gen, start_ns, wiped>>

-----------------------------------------------------------------------------

bpf_ktime_get_ns ==
  /\ now < MaxNow
  /\ \A c \in CPUs : cpu[c].pc # "idle" => now - cpu[c].now < MaxRun
  /\ now' = now + 1
  /\ UNCHANGED <<shared, cpu, packets, history>>

Step(c) ==
  \/ \E k \in Keys \union {NoKey} : path_egress(c, k)
  \/ LoadStart(c) \/ CasStart(c) \/ AddGen(c)
  \/ LoadGen(c) \/ TestTag(c) \/ TestBits(c)
  \/ LoadTag(c) \/ CasTag(c) \/ Clear(c) \/ OrBit(c)

Next == bpf_ktime_get_ns \/ \E c \in CPUs : Step(c)

Spec == Init /\ [][Next]_vars

-----------------------------------------------------------------------------

TestPhase == {"testTag", "testBits"}
SetPhase == {"setTag", "cas", "clear", "or"}

\* The registers of a packet.
Register ==
  [pc : {"idle", "start", "roll", "rolled", "gen"} \union TestPhase \union SetPhase,
   key : Keys \union {NoKey}, now : Nat, start_ns : Nat, gen : Nat, hash : Hashes,
   asked : Int, old : Nat, seen : SUBSET Hashes, prior : [at : Int, gen : Nat]]

\* Every variable has the type of the map or register it stands for, only a
\* packet with a key gets as far as the lookup, and the clock bounds all times.
TypeOK ==
  /\ now \in Nat
  /\ gen \in Nat
  /\ start_ns \in Nat /\ start_ns <= now
  /\ bloom_bits \in [{0, 1} -> [Words -> [gen : Nat, bits : SUBSET Bits]]]
  /\ cpu \in [CPUs -> Register]
  /\ \A c \in CPUs : /\ cpu[c].pc \in {"gen"} \union TestPhase \union SetPhase => cpu[c].key \in Keys
                     /\ cpu[c].now <= now
  /\ packets \in Nat
  /\ inserted \in [Keys -> [at : Int, gen : Nat]]
  /\ fresh \subseteq Nat \X Bits
  /\ wiped \subseteq fresh

\* Two CPUs that find the epoch over at the same moment roll it once: two
\* rolls are always more than BLOOM_EPOCH_NS apart, and start_ns never moves
\* back to the clock reading of a slower CPU.
RollSpacing == [][start_ns' # start_ns => start_ns' - start_ns > BLOOM_EPOCH_NS]_vars

\* A CPU that still works in an ended generation never retags a word that
\* belongs to a later one: it uses the other bank.
TagsNeverRegress ==
  [][\A bank \in {0, 1} : \A w \in Words :
       bloom_bits'[bank][w].gen >= bloom_bits[bank][w].gen]_vars

AllSeen(c) == cpu[c].seen = Hashes

\* A packet whose key was completely inserted before it arrived, within the
\* epoch length less the running time of two packets, is a retransmit to
\* every CPU unless the w->bits = 0 of another CPU in the same generation took
\* away one of the key's bits after it was set.  Rolls, in whatever order
\* the CPUs perform them, never cause a miss inside that window.
MissOnlyIfWiped ==
  \A c \in CPUs :
    LET p == cpu[c].prior
    IN  /\ cpu[c].pc \in SetPhase
        /\ p # NoInsertion
        /\ cpu[c].now - p.at <= BLOOM_EPOCH_NS - 2 * MaxRun
        /\ ~AllSeen(c)
        => \E h \in Hashes : <<p.gen, bloom_bit_index[cpu[c].key][h]>> \in wiped

\* A bit that a CPU finds set was set in the generation it asked for, unless
\* the word changed its tag after the CPU read it or another CPU has retagged
\* the word and not cleared it yet: those are the only two windows in which
\* bits of an older or a later generation count.
HitsAreFresh ==
  [][\A c \in CPUs :
       (TestBits(c) /\ Bit(c) \in Word(Bit(c), cpu[c].asked).bits) =>
         \/ <<cpu[c].asked, Bit(c)>> \in fresh
         \/ Word(Bit(c), cpu[c].asked).gen # cpu[c].asked
         \/ \E d \in CPUs \ {c} :
              /\ cpu[d].pc = "clear"
              /\ cpu[d].gen = cpu[c].asked
              /\ WordOf(Bit(d)) = WordOf(Bit(c))]_vars
-----------------------------------------------------------------------------
(* Why these hold: the inductive invariant of BloomFilterSMPProofs *)

Rolling == \E c \in CPUs : cpu[c].pc = "rolled"

\* What the clock knows of a packet that arrived at time t and read generation
\* g.  The roll that ended g began at most MaxRun before t, and the next one
\* more than an epoch later.
Dated(t, g) ==
  /\ t <= now /\ g <= gen
  /\ g < gen => t <= start_ns + MaxRun
  /\ g < gen - 1 \/ (g < gen /\ Rolling) => start_ns > t + BLOOM_EPOCH_NS - MaxRun

\* No packet takes longer than MaxRun; at most one CPU is between the
\* compare-and-swap of start_ns and the increment of gen; every generation
\* that a packet has in hand, and that of every insertion, is dated.
EpochInv ==
  /\ \A c \in CPUs :
       /\ cpu[c].pc # "idle" => now - cpu[c].now <= MaxRun
       /\ cpu[c].pc = "roll" => cpu[c].now - cpu[c].start_ns > BLOOM_EPOCH_NS
       /\ cpu[c].pc = "rolled" => cpu[c].now = start_ns
       /\ cpu[c].pc \in TestPhase \union SetPhase => Dated(cpu[c].now, cpu[c].gen)
       /\ cpu[c].prior # NoInsertion => Dated(cpu[c].prior.at, cpu[c].prior.gen)
  /\ \A c, d \in CPUs : cpu[c].pc = "rolled" /\ cpu[d].pc = "rolled" => c = d
  /\ \A k \in Keys : inserted[k] # NoInsertion => Dated(inserted[k].at, inserted[k].gen)

\* A bank holds the tags of its own generations, none from the future; a CPU
\* that swaps a tag finds the one it loaded or its own, and one that writes
\* bits finds its own.
TagInv ==
  /\ \A bank \in {0, 1} : \A w \in Words :
       LET word == bloom_bits[bank][w]
       IN  /\ word.gen <= gen
           /\ Bank(word.gen) = bank \/ (word.gen = 0 /\ word.bits = {})
  /\ \A c \in CPUs :
       LET tag == Word(Bit(c), cpu[c].gen).gen
       IN  /\ cpu[c].pc = "cas" => cpu[c].old # cpu[c].gen /\ tag \in {cpu[c].old, cpu[c].gen}
           /\ cpu[c].pc \in {"clear", "or"} => tag = cpu[c].gen

\* A bit under a tag was set in that generation, unless the CPU that wrote the
\* tag has not cleared the word yet; a bit that was set and not wiped is there
\* as long as the tag is.
BitsInv ==
  /\ \A bank \in {0, 1} : \A b \in Bits :
       LET word == bloom_bits[bank][WordOf(b)]
       IN  b \in word.bits =>
             \/ <<word.gen, b>> \in fresh
             \/ \E d \in CPUs : cpu[d].pc = "clear" /\ cpu[d].gen = word.gen /\ WordOf(Bit(d)) = WordOf(b)
  /\ \A g \in Nat, b \in Bits :
       <<g, b>> \in fresh =>
         /\ Word(b, g).gen >= g
         /\ Word(b, g).gen = g /\ <<g, b>> \notin wiped => b \in Word(b, g).bits

\* The key of the packet was inserted before, recently enough for this packet.
Expected(c) ==
  /\ cpu[c].prior # NoInsertion
  /\ cpu[c].now - cpu[c].prior.at <= BLOOM_EPOCH_NS - 2 * MaxRun

BitWiped(c, h) == <<cpu[c].prior.gen, bloom_bit_index[cpu[c].key][h]>> \in wiped

\* All bits of an insertion were set, and those that a CPU has passed while it
\* inserts; a packet that expects its key has found every bit it has tested,
\* in one generation or the other, or it was wiped.
LookupInv ==
  /\ \A k \in Keys : inserted[k] # NoInsertion =>
       \A h \in Hashes : <<inserted[k].gen, bloom_bit_index[k][h]>> \in fresh
  /\ \A c \in CPUs :
       /\ cpu[c].prior # NoInsertion =>
            /\ cpu[c].key \in Keys
            /\ \A h \in Hashes : <<cpu[c].prior.gen, bloom_bit_index[cpu[c].key][h]>> \in fresh
       /\ cpu[c].pc \notin TestPhase \union SetPhase => cpu[c].hash = 0
       /\ cpu[c].pc \in TestPhase =>
            /\ cpu[c].prior.gen <= cpu[c].gen
            /\ cpu[c].asked \in {cpu[c].gen, cpu[c].gen - 1}
            /\ Expected(c) =>
                 /\ \A h \in 0..cpu[c].hash - 1 : h \in cpu[c].seen \/ BitWiped(c, h)
                 /\ cpu[c].asked # cpu[c].gen /\ cpu[c].prior.gen = cpu[c].gen => BitWiped(c, cpu[c].hash)
       /\ cpu[c].pc \in SetPhase =>
            /\ \A h \in 0..cpu[c].hash - 1 : <<cpu[c].gen, bloom_bit_index[cpu[c].key][h]>> \in fresh
            /\ Expected(c) => \A h \in Hashes : h \in cpu[c].seen \/ BitWiped(c, h)

SMPInv == EpochInv /\ TagInv /\ BitsInv /\ LookupInv
=============================================================================
