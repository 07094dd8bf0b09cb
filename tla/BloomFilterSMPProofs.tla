------------------------- MODULE BloomFilterSMPProofs -------------------------
(***************************************************************************)
(* Theorems about BloomFilterSMP, for any number of CPUs, any keys, bits,  *)
(* hashes and word size, any epoch length and any bound on the running     *)
(* time of a packet of at most half an epoch; and about BloomFilterRun,    *)
(* that packets which do not overlap refine RecentBits.                    *)
(***************************************************************************)
EXTENDS BloomFilterRun, TLAPS

\* A generation has the tags of the same parity, and only those, as neighbours.
LEMMA BankParity ==
  ASSUME NEW g \in Int
  PROVE  /\ Bank(g) \in {0, 1}
         /\ Bank(g - 1) # Bank(g)
         /\ Bank(g + 1) # Bank(g)
<1>1. g % 2 \in {0, 1} /\ (g - 1) % 2 # g % 2 /\ (g + 1) % 2 # g % 2  OBVIOUS
<1> QED  BY <1>1 DEF Bank

LEMMA WordsOfBits ==
  ASSUME NEW b \in Bits
  PROVE  WordOf(b) \in Words
BY DEF Words

\* The bit that a CPU in the lookup works on.
LEMMA BitInBits ==
  ASSUME TypeOK, NEW c \in CPUs,
         cpu[c].pc \in {"gen"} \union TestPhase \union SetPhase
  PROVE  Bit(c) \in Bits /\ WordOf(Bit(c)) \in Words
<1>1. cpu[c].key \in Keys /\ cpu[c].hash \in Hashes
  BY DEF TypeOK, Register
<1>2. Bit(c) \in Bits  BY <1>1, SMPAssumption DEF Bit, Hashes
<1> QED  BY <1>2, WordsOfBits

\* Idle registers and those after the epoch check are well formed.
LEMMA IdleType == Idle \in Register
BY SMPAssumption DEF Idle, Register, Hashes, NoInsertion, Never

LEMMA LookedType ==
  ASSUME NEW r \in Register
  PROVE  /\ Looked(r) \in Register
         /\ Looked(r).pc \in {"idle", "gen"}
         /\ Looked(r).pc = "gen" => /\ Looked(r).key \in Keys
                                    /\ Looked(r).key = r.key
                                    /\ Looked(r).prior = r.prior
                                    /\ Looked(r).now = r.now
         /\ Looked(r).pc = "idle" => Looked(r) = Idle
<1>1. CASE r.key = NoKey
  BY <1>1, IdleType DEF Looked, Idle
<1>2. CASE r.key # NoKey
  BY <1>2 DEF Looked, Register
<1> QED  BY <1>1, <1>2

\* What bloom_test_bit_gen leads to.
LEMMA AfterTestType ==
  ASSUME NEW r \in Register, NEW hit \in BOOLEAN
  PROVE  LET a == AfterTest(r, hit)
         IN  /\ a \in Register
             /\ a.pc \in {"testTag", "setTag"}
             /\ a.key = r.key /\ a.prior = r.prior /\ a.now = r.now /\ a.gen = r.gen
             /\ a.seen = IF hit THEN r.seen \union {r.hash} ELSE r.seen
             /\ a.pc = "testTag" =>
                  \/ ~hit /\ r.asked = r.gen /\ a.asked = r.gen - 1 /\ a.hash = r.hash
                  \/ (hit \/ r.asked # r.gen) /\ a.asked = r.gen /\ a.hash = r.hash + 1
             /\ a.pc = "setTag" =>
                  /\ hit \/ r.asked # r.gen
                  /\ r.hash = BLOOM_HASHES - 1
                  /\ a.hash = 0
<1> DEFINE seen == IF hit THEN r.seen \union {r.hash} ELSE r.seen
<1>0. seen \in SUBSET Hashes /\ r.hash \in Hashes  BY DEF Register
<1>1. CASE ~hit /\ r.asked = r.gen
  <2>1. AfterTest(r, hit) = [r EXCEPT !.pc = "testTag", !.asked = r.gen - 1]
    BY <1>1 DEF AfterTest
  <2>2. r.gen - 1 \in Int /\ "testTag" \in TestPhase  BY DEF Register, TestPhase
  <2>3. AfterTest(r, hit) \in Register  BY <2>1, <2>2 DEF Register
  <2> QED  BY <1>1, <2>1, <2>3 DEF Register
<1>2. CASE (hit \/ r.asked # r.gen) /\ r.hash < BLOOM_HASHES - 1
  <2>1. AfterTest(r, hit) =
          [r EXCEPT !.pc = "testTag", !.asked = r.gen, !.hash = @ + 1, !.seen = seen]
    BY <1>2 DEF AfterTest
  <2>2. /\ r.hash + 1 \in Hashes /\ r.gen \in Int
        /\ "testTag" \in TestPhase
    BY <1>0, <1>2, SMPAssumption DEF Hashes, TestPhase, Register
  <2> HIDE DEF seen
  <2>3. /\ AfterTest(r, hit) \in Register
        /\ AfterTest(r, hit).seen = seen
    BY <1>0, <2>1, <2>2 DEF Register
  <2> QED  BY <1>2, <2>1, <2>3 DEF Register, seen
<1>3. CASE (hit \/ r.asked # r.gen) /\ ~(r.hash < BLOOM_HASHES - 1)
  <2>1. AfterTest(r, hit) =
          [r EXCEPT !.pc = "setTag", !.asked = 0, !.hash = 0, !.seen = seen]
    BY <1>3 DEF AfterTest
  <2>2. 0 \in Hashes /\ r.hash = BLOOM_HASHES - 1 /\ "setTag" \in SetPhase
    BY <1>0, <1>3, SMPAssumption DEF Hashes, SetPhase
  <2> HIDE DEF seen
  <2>3. AfterTest(r, hit) \in Register
    <3> DEFINE r1 == [r EXCEPT !.asked = 0]
               r2 == [r1 EXCEPT !.hash = 0]
    <3>1. r1 \in Register  BY DEF Register
    <3>2. AfterTest(r, hit) = [r2 EXCEPT !.pc = "setTag", !.seen = seen]
      BY <2>1 DEF Register
    <3> HIDE DEF r1
    <3>3. r2 \in Register  BY <2>2, <3>1 DEF Register
    <3> HIDE DEF r2
    <3> QED  BY <1>0, <2>2, <3>2, <3>3 DEF Register
  <2>4. AfterTest(r, hit).seen = seen  BY <2>1 DEF Register
  <2> QED  BY <2>4, <1>3, <2>1, <2>2, <2>3 DEF Register, seen
<1> QED  BY <1>1, <1>2, <1>3

-----------------------------------------------------------------------------
(* Type correctness *)

LEMMA InitType == Init => TypeOK
<1> SUFFICES ASSUME Init PROVE TypeOK  OBVIOUS
<1>1. cpu = [c \in CPUs |-> Idle]  BY DEF Init
<1>2. \A c \in CPUs : cpu[c] = Idle  BY <1>1
<1>3. cpu \in [CPUs -> Register]  BY <1>1, IdleType
<1>4. \A c \in CPUs : cpu[c].pc = "idle" /\ cpu[c].now = 0
  <2>1. Idle.pc = "idle" /\ Idle.now = 0  BY DEF Idle
  <2> QED  BY <1>2, <2>1
<1>5. now \in Nat /\ gen \in Nat /\ start_ns \in Nat /\ start_ns <= now /\ packets \in Nat
  BY SMPAssumption DEF Init
<1>6. bloom_bits \in [{0, 1} -> [Words -> [gen : Nat, bits : SUBSET Bits]]]  BY DEF Init
<1>7. inserted \in [Keys -> [at : Int, gen : Nat]]  BY DEF Init, NoInsertion, Never
<1>8. fresh \subseteq Nat \X Bits /\ wiped \subseteq fresh  BY DEF Init
<1> QED  BY <1>3, <1>4, <1>5, <1>6, <1>7, <1>8 DEF TypeOK, TestPhase, SetPhase

\* Only a packet with a key gets as far as the lookup.
KeyOK(r) == r.pc \in {"gen"} \union TestPhase \union SetPhase => r.key \in Keys

\* The part of the type invariant that speaks of the registers.
RegistersOK ==
  /\ cpu \in [CPUs -> Register]
  /\ \A c \in CPUs : /\ cpu[c].pc \in {"gen"} \union TestPhase \union SetPhase => cpu[c].key \in Keys
                     /\ cpu[c].now <= now

\* A step of one CPU whose registers stay well formed.
LEMMA RegistersStep ==
  ASSUME TypeOK, NEW c \in CPUs, NEW r \in Register,
         cpu' = [cpu EXCEPT ![c] = r], now' = now,
         KeyOK(r), r.now <= now
  PROVE  RegistersOK'
BY DEF TypeOK, RegistersOK, KeyOK

LEMMA LookedOK ==
  ASSUME TypeOK, NEW r \in Register, r.now <= now
  PROVE  Looked(r) \in Register /\ Looked(r).now <= now /\ KeyOK(Looked(r))
<1>1. Idle.now = 0 /\ now \in Nat  BY DEF Idle, TypeOK
<1>2. Looked(r).now <= now  BY <1>1, LookedType
<1>3. KeyOK(Looked(r))  BY LookedType DEF KeyOK, TestPhase, SetPhase
<1> QED  BY <1>2, <1>3, LookedType

LEMMA TypeStep == TypeOK /\ [Next]_vars => TypeOK'
<1> SUFFICES ASSUME TypeOK, [Next]_vars PROVE TypeOK'  OBVIOUS
<1> USE DEF TypeOK, shared, history
<1>1. CASE UNCHANGED vars  BY <1>1 DEF vars
<1>2. CASE bpf_ktime_get_ns
  <2>1. \A c \in CPUs : cpu[c].now \in Nat  BY DEF Register
  <2>2. \A c \in CPUs : cpu[c].now <= now + 1  BY <2>1
  <2>3. start_ns <= now + 1  OBVIOUS
  <2> QED  BY <1>2, <2>2, <2>3 DEF bpf_ktime_get_ns
<1>3. ASSUME NEW c \in CPUs, Step(c) PROVE TypeOK'
  <2> DEFINE r == cpu[c]
  <2>0. r \in Register /\ r.now <= now /\ now' = now
    BY <1>3 DEF Step, path_egress, LoadStart, CasStart, AddGen, LoadGen, TestTag, TestBits,
                LoadTag, CasTag, Clear, OrBit
  <2> SUFFICES TypeOK'  OBVIOUS
  <2>1. ASSUME NEW k \in Keys \union {NoKey}, path_egress(c, k) PROVE TypeOK'
    <3> DEFINE q == [Idle EXCEPT !.pc = "start", !.key = k, !.now = now,
                       !.prior = IF k = NoKey THEN NoInsertion ELSE inserted[k]]
    <3>1. (IF k = NoKey THEN NoInsertion ELSE inserted[k]) \in [at : Int, gen : Nat]
      BY DEF NoInsertion, Never
    <3>2. q \in Register /\ q.now = now /\ KeyOK(q)
      BY <3>1, IdleType DEF Register, Idle, KeyOK, TestPhase, SetPhase
    <3>3. cpu' = [cpu EXCEPT ![c] = q] /\ now <= now  BY <2>1 DEF path_egress
    <3> HIDE DEF q
    <3>4. RegistersOK'  BY <2>0, <3>2, <3>3, RegistersStep
    <3> QED  BY <2>1, <3>4 DEF path_egress, RegistersOK
  <2>2. CASE LoadStart(c)
    <3> DEFINE q == IF EpochOver(r.now, start_ns)
                    THEN [r EXCEPT !.pc = "roll", !.start_ns = start_ns] ELSE Looked(r)
    <3>1. q \in Register /\ q.now <= now /\ KeyOK(q)
      <4>1. CASE EpochOver(r.now, start_ns)
        BY <2>0, <4>1 DEF Register, KeyOK, TestPhase, SetPhase
      <4>2. CASE ~EpochOver(r.now, start_ns)  BY <2>0, <4>2, LookedOK
      <4> QED  BY <4>1, <4>2
    <3>2. cpu' = [cpu EXCEPT ![c] = q]  BY <2>2 DEF LoadStart
    <3> HIDE DEF q
    <3>3. RegistersOK'  BY <2>0, <3>1, <3>2, RegistersStep
    <3> QED  BY <2>2, <3>3 DEF LoadStart, RegistersOK
  <2>3. CASE CasStart(c)
    <3> DEFINE q == IF start_ns = RollExpects(c) THEN [r EXCEPT !.pc = "rolled"] ELSE Looked(r)
    <3>1. q \in Register /\ q.now <= now /\ KeyOK(q)
      <4>1. CASE start_ns = RollExpects(c)
        BY <2>0, <4>1 DEF Register, KeyOK, TestPhase, SetPhase
      <4>2. CASE start_ns # RollExpects(c)  BY <2>0, <4>2, LookedOK
      <4> QED  BY <4>1, <4>2
    <3>2. cpu' = [cpu EXCEPT ![c] = q]  BY <2>3 DEF CasStart
    <3> HIDE DEF q
    <3>3. RegistersOK'  BY <2>0, <3>1, <3>2, RegistersStep
    <3>4. start_ns' \in Nat /\ start_ns' <= now
      BY <2>0, <2>3 DEF CasStart, NewStart, Register
    <3> QED  BY <2>3, <3>3, <3>4 DEF CasStart, RegistersOK
  <2>4. CASE AddGen(c)
    <3>1. Looked(r) \in Register /\ Looked(r).now <= now /\ KeyOK(Looked(r))
      BY <2>0, LookedOK
    <3>2. cpu' = [cpu EXCEPT ![c] = Looked(r)]  BY <2>4 DEF AddGen
    <3>3. RegistersOK'  BY <2>0, <3>1, <3>2, RegistersStep
    <3> QED  BY <2>4, <3>3 DEF AddGen, NextGen, RegistersOK
  <2>5. CASE LoadGen(c)
    <3> DEFINE q == [r EXCEPT !.pc = "testTag", !.gen = gen, !.asked = gen]
    <3>1. "testTag" \in TestPhase /\ r.key \in Keys  BY <2>5 DEF LoadGen, TestPhase
    <3>2. q \in Register /\ q.now <= now /\ q.key \in Keys
      <4> DEFINE r1 == [r EXCEPT !.gen = gen]
      <4>1. r1 \in Register /\ r1.now = r.now /\ r1.key = r.key  BY <2>0 DEF Register
      <4>2. q = [r1 EXCEPT !.pc = "testTag", !.asked = gen]  BY <2>0 DEF Register
      <4>3. gen \in Int  OBVIOUS
      <4> HIDE DEF r1, q
      <4> QED  BY <2>0, <3>1, <4>1, <4>2, <4>3 DEF Register
    <3>3. cpu' = [cpu EXCEPT ![c] = q]  BY <2>5 DEF LoadGen
    <3> HIDE DEF q
    <3>4. RegistersOK'  BY <2>0, <3>2, <3>3, RegistersStep DEF KeyOK
    <3> QED  BY <2>5, <3>4 DEF LoadGen, RegistersOK
  <2>6. CASE TestTag(c)
    <3> DEFINE q == IF Word(Bit(c), r.asked).gen = r.asked
                    THEN [r EXCEPT !.pc = "testBits"] ELSE AfterTest(r, FALSE)
    <3>1. "testBits" \in TestPhase /\ r.key \in Keys  BY <2>6 DEF TestTag, TestPhase
    <3>2. q \in Register /\ q.now <= now /\ q.key \in Keys
      BY <2>0, <3>1, AfterTestType DEF Register
    <3>3. cpu' = [cpu EXCEPT ![c] = q]  BY <2>6 DEF TestTag
    <3> HIDE DEF q
    <3>4. RegistersOK'  BY <2>0, <3>2, <3>3, RegistersStep DEF KeyOK
    <3> QED  BY <2>6, <3>4 DEF TestTag, RegistersOK
  <2>7. CASE TestBits(c)
    <3> DEFINE hit == Bit(c) \in Word(Bit(c), r.asked).bits
               q == AfterTest(r, hit)
    <3>1. r.key \in Keys  BY <2>7 DEF TestBits, TestPhase
    <3>2. hit \in BOOLEAN  OBVIOUS
    <3>3. cpu' = [cpu EXCEPT ![c] = q]  BY <2>7 DEF TestBits
    <3> HIDE DEF hit
    <3>4. q \in Register /\ q.now <= now /\ q.key \in Keys
      BY <2>0, <3>1, <3>2, AfterTestType
    <3> HIDE DEF q
    <3>5. RegistersOK'  BY <2>0, <3>3, <3>4, RegistersStep DEF KeyOK
    <3> QED  BY <2>7, <3>5 DEF TestBits, RegistersOK
  <2>8. CASE LoadTag(c)
    <3> DEFINE tag == Word(Bit(c), r.gen).gen
               next == IF tag # r.gen THEN "cas" ELSE "or"
               q == [r EXCEPT !.old = tag, !.pc = next]
    <3>1. r.key \in Keys /\ next \in SetPhase  BY <2>8 DEF LoadTag, SetPhase
    <3>2. tag \in Nat
      BY <2>0, <2>8, BitInBits, BankParity DEF LoadTag, SetPhase, Word, Register
    <3>3. cpu' = [cpu EXCEPT ![c] = q]  BY <2>8 DEF LoadTag
    <3> HIDE DEF tag, next
    <3>4. q \in Register /\ q.now <= now /\ q.key \in Keys
      BY <2>0, <3>1, <3>2 DEF Register
    <3> HIDE DEF q
    <3>5. RegistersOK'  BY <2>0, <3>3, <3>4, RegistersStep DEF KeyOK
    <3> QED  BY <2>8, <3>5 DEF LoadTag, RegistersOK
  <2>9. CASE CasTag(c)
    <3> DEFINE found == Word(Bit(c), r.gen).gen
               q == [r EXCEPT !.pc = AfterCas(found, r.gen)]
    <3>1. r.key \in Keys /\ AfterCas(found, r.gen) \in SetPhase
      BY <2>9 DEF CasTag, SetPhase, AfterCas
    <3>2. q \in Register /\ q.now <= now /\ q.key \in Keys  BY <2>0, <3>1 DEF Register
    <3>3. cpu' = [cpu EXCEPT ![c] = q]  BY <2>9 DEF CasTag
    <3> HIDE DEF q
    <3>4. RegistersOK'  BY <2>0, <3>2, <3>3, RegistersStep DEF KeyOK
    <3>5. bloom_bits' \in [{0, 1} -> [Words -> [gen : Nat, bits : SUBSET Bits]]]
      <4>1. WordOf(Bit(c)) \in Words /\ Bank(r.gen) \in {0, 1} /\ r.gen \in Nat
        BY <2>0, <2>9, BitInBits, BankParity DEF CasTag, SetPhase, Register
      <4>2. CASE found = r.old  BY <2>9, <4>1, <4>2 DEF CasTag
      <4>3. CASE found # r.old  BY <2>9, <4>3 DEF CasTag
      <4> QED  BY <4>2, <4>3
    <3> QED  BY <2>9, <3>4, <3>5 DEF CasTag, RegistersOK
  <2>10. CASE Clear(c)
    <3> DEFINE q == [r EXCEPT !.pc = "or"]
    <3>1. r.key \in Keys /\ "or" \in SetPhase  BY <2>10 DEF Clear, SetPhase
    <3>2. q \in Register /\ q.now <= now /\ q.key \in Keys  BY <2>0, <3>1 DEF Register
    <3>3. cpu' = [cpu EXCEPT ![c] = q]  BY <2>10 DEF Clear
    <3> HIDE DEF q
    <3>4. RegistersOK'  BY <2>0, <3>2, <3>3, RegistersStep DEF KeyOK
    <3>5. bloom_bits' \in [{0, 1} -> [Words -> [gen : Nat, bits : SUBSET Bits]]]
      <4>1. WordOf(Bit(c)) \in Words /\ Bank(r.gen) \in {0, 1}
        BY <2>0, <2>10, BitInBits, BankParity DEF Clear, SetPhase, Register
      <4> QED  BY <2>10, <4>1 DEF Clear
    <3>6. wiped' \subseteq fresh  BY <2>10 DEF Clear
    <3> QED  BY <2>10, <3>4, <3>5, <3>6 DEF Clear, RegistersOK
  <2>11. CASE OrBit(c)
    <3> DEFINE last == r.hash = BLOOM_HASHES - 1
               q == IF last THEN Idle
                    ELSE [r EXCEPT !.pc = "setTag", !.old = 0, !.hash = r.hash + 1]
    <3>1. /\ r.key \in Keys /\ "setTag" \in SetPhase /\ r.gen \in Nat
          /\ ~last => r.hash + 1 \in Hashes
      <4>1. r.key \in Keys /\ "setTag" \in SetPhase  BY <2>11 DEF OrBit, SetPhase
      <4>2. r.gen \in Nat /\ r.hash \in Hashes  BY <2>0 DEF Register
      <4>3. ~last => r.hash + 1 \in Hashes  BY <4>2, SMPAssumption DEF Hashes
      <4> QED  BY <4>1, <4>2, <4>3
    <3>2. q \in Register
      <4>1. CASE last  BY <4>1, IdleType
      <4>2. CASE ~last
        <5> DEFINE r1 == [r EXCEPT !.old = 0]
        <5>1. q = [r1 EXCEPT !.pc = "setTag", !.hash = r.hash + 1]
          BY <4>2, <2>0 DEF Register
        <5>2. r1 \in Register  BY <2>0 DEF Register
        <5> HIDE DEF r1, q
        <5> QED  BY <3>1, <4>2, <5>1, <5>2 DEF Register
      <4> QED  BY <4>1, <4>2
    <3>3. q.now <= now /\ KeyOK(q)
      <4>1. CASE last  BY <4>1, <2>0 DEF Idle, KeyOK, TestPhase, SetPhase
      <4>2. CASE ~last  BY <4>2, <2>0, <3>1 DEF Register, KeyOK
      <4> QED  BY <4>1, <4>2
    <3>4. cpu' = [cpu EXCEPT ![c] = q]
      <4>1. CASE last  BY <2>11, <4>1 DEF OrBit
      <4>2. CASE ~last  BY <2>11, <4>2 DEF OrBit
      <4> QED  BY <4>1, <4>2
    <3> HIDE DEF q
    <3>5. RegistersOK'  BY <2>0, <3>2, <3>3, <3>4, RegistersStep
    <3>6. WordOf(Bit(c)) \in Words /\ Bit(c) \in Bits /\ Bank(r.gen) \in {0, 1}
      BY <2>0, <2>11, BitInBits, BankParity DEF OrBit, SetPhase, Register
    <3>7. bloom_bits' \in [{0, 1} -> [Words -> [gen : Nat, bits : SUBSET Bits]]]
      BY <2>11, <3>6 DEF OrBit
    <3>8. inserted' \in [Keys -> [at : Int, gen : Nat]]
      BY <2>0, <2>11, <3>1 DEF OrBit, Register
    <3>9. fresh' \subseteq Nat \X Bits /\ wiped' \subseteq fresh'
      BY <2>11, <3>1, <3>6 DEF OrBit
    <3> QED  BY <2>11, <3>5, <3>7, <3>8, <3>9 DEF OrBit, RegistersOK
  <2> QED  BY <1>3, <2>1, <2>2, <2>3, <2>4, <2>5, <2>6, <2>7, <2>8, <2>9, <2>10, <2>11 DEF Step
<1> QED  BY <1>1, <1>2, <1>3 DEF Next

-----------------------------------------------------------------------------
(* What each step does to the registers of its CPU *)

\* What a packet keeps from its arrival to its end ...
Kept(r, q) == q.key = r.key /\ q.now = r.now /\ q.prior = r.prior

\* ... and what the steps on one bit keep.
KeptBit(r, q) == Kept(r, q) /\ q.gen = r.gen /\ q.hash = r.hash /\ q.seen = r.seen

\* The epoch check is over: the packet ends or goes on to its lookup.
PastRoll(r, q) ==
  \/ q = Idle
  \/ q.pc = "gen" /\ Kept(r, q) /\ q.hash = r.hash /\ q.key \in Keys

LEMMA LookedPastRoll ==
  ASSUME NEW r \in Register
  PROVE  PastRoll(r, Looked(r))
<1>1. CASE r.key = NoKey  BY <1>1 DEF Looked, PastRoll
<1>2. CASE r.key # NoKey
  BY <1>2 DEF Looked, PastRoll, Kept, Register
<1> QED  BY <1>1, <1>2

\* The registers of the other CPUs, and the clock, stand still.
LEMMA OthersStand ==
  ASSUME TypeOK, NEW c \in CPUs, Step(c)
  PROVE  now' = now /\ \A d \in CPUs : d # c => cpu'[d] = cpu[d]
BY DEF TypeOK, Step, path_egress, LoadStart, CasStart, AddGen, LoadGen, TestTag, TestBits,
       LoadTag, CasTag, Clear, OrBit

LEMMA ArriveEffect ==
  ASSUME TypeOK, NEW c \in CPUs, NEW k \in Keys \union {NoKey}, path_egress(c, k)
  PROVE  /\ cpu'[c].pc = "start" /\ cpu'[c].key = k /\ cpu'[c].now = now /\ cpu'[c].hash = 0
         /\ \/ cpu'[c].prior = NoInsertion
            \/ k \in Keys /\ cpu'[c].prior = inserted[k]
<1> DEFINE p == IF k = NoKey THEN NoInsertion ELSE inserted[k]
<1>1. cpu'[c] = [Idle EXCEPT !.pc = "start", !.key = k, !.now = now, !.prior = p]
  BY DEF TypeOK, path_egress
<1>2. cpu'[c].pc = "start" /\ cpu'[c].key = k  BY <1>1 DEF Idle
<1>3. cpu'[c].now = now  BY <1>1 DEF Idle
<1>4. cpu'[c].hash = 0  BY <1>1 DEF Idle
<1>5. cpu'[c].prior = p  BY <1>1 DEF Idle
<1> QED  BY <1>2, <1>3, <1>4, <1>5

LEMMA LoadStartEffect ==
  ASSUME TypeOK, NEW c \in CPUs, LoadStart(c)
  PROVE  \/ PastRoll(cpu[c], cpu'[c])
         \/ /\ Kept(cpu[c], cpu'[c]) /\ cpu'[c].hash = cpu[c].hash
            /\ cpu'[c].pc = "roll" /\ cpu'[c].start_ns = start_ns
            /\ cpu[c].now - start_ns > BLOOM_EPOCH_NS
<1> DEFINE r == cpu[c]
<1>1. r \in Register  BY DEF TypeOK
<1>2. CASE EpochOver(r.now, start_ns)
  <2>1. cpu'[c] = [r EXCEPT !.pc = "roll", !.start_ns = start_ns]
    BY <1>2 DEF TypeOK, LoadStart
  <2> QED  BY <1>1, <1>2, <2>1 DEF EpochOver, Kept, Register
<1>3. CASE ~EpochOver(r.now, start_ns)
  <2>1. cpu'[c] = Looked(r)  BY <1>3 DEF TypeOK, LoadStart
  <2> QED  BY <1>1, <2>1, LookedPastRoll
<1> QED  BY <1>2, <1>3

LEMMA CasStartEffect ==
  ASSUME TypeOK, NEW c \in CPUs, CasStart(c)
  PROVE  \/ start_ns' = start_ns /\ PastRoll(cpu[c], cpu'[c])
         \/ /\ start_ns = cpu[c].start_ns /\ start_ns' = cpu[c].now
            /\ Kept(cpu[c], cpu'[c]) /\ cpu'[c].hash = cpu[c].hash /\ cpu'[c].pc = "rolled"
<1> DEFINE r == cpu[c]
<1>1. r \in Register  BY DEF TypeOK
<1>2. CASE start_ns = RollExpects(c)
  <2>1. cpu'[c] = [r EXCEPT !.pc = "rolled"]
    BY <1>2 DEF TypeOK, CasStart
  <2>2. start_ns = r.start_ns /\ start_ns' = r.now
    BY <1>2 DEF CasStart, RollExpects, NewStart
  <2> QED  BY <1>1, <1>2, <2>1, <2>2 DEF Kept, Register
<1>3. CASE start_ns # RollExpects(c)
  <2>1. cpu'[c] = Looked(r) /\ start_ns' = start_ns  BY <1>3 DEF TypeOK, CasStart
  <2> QED  BY <1>1, <2>1, LookedPastRoll
<1> QED  BY <1>2, <1>3

LEMMA AddGenEffect ==
  ASSUME TypeOK, NEW c \in CPUs, AddGen(c)
  PROVE  PastRoll(cpu[c], cpu'[c]) /\ gen' = gen + 1
<1>1. cpu[c] \in Register /\ cpu'[c] = Looked(cpu[c])  BY DEF TypeOK, AddGen
<1> QED  BY <1>1, LookedPastRoll DEF AddGen, NextGen

LEMMA LoadGenEffect ==
  ASSUME TypeOK, NEW c \in CPUs, LoadGen(c)
  PROVE  /\ Kept(cpu[c], cpu'[c]) /\ cpu'[c].hash = cpu[c].hash
         /\ cpu'[c].pc = "testTag" /\ cpu'[c].gen = gen /\ cpu'[c].asked = gen
BY DEF TypeOK, LoadGen, Kept, Register

\* Either the word has the tag asked for, or the test has failed.
LEMMA TestTagEffect ==
  ASSUME TypeOK, NEW c \in CPUs, TestTag(c)
  PROVE  \/ /\ Word(Bit(c), cpu[c].asked).gen = cpu[c].asked
            /\ KeptBit(cpu[c], cpu'[c])
            /\ cpu'[c].asked = cpu[c].asked /\ cpu'[c].pc = "testBits"
         \/ /\ Word(Bit(c), cpu[c].asked).gen # cpu[c].asked
            /\ cpu'[c] = AfterTest(cpu[c], FALSE)
BY DEF TypeOK, TestTag, Kept, KeptBit, Register

LEMMA TestBitsEffect ==
  ASSUME TypeOK, NEW c \in CPUs, TestBits(c)
  PROVE  cpu'[c] = AfterTest(cpu[c], Bit(c) \in Word(Bit(c), cpu[c].asked).bits)
BY DEF TypeOK, TestBits

LEMMA LoadTagEffect ==
  ASSUME TypeOK, NEW c \in CPUs, LoadTag(c)
  PROVE  LET tag == Word(Bit(c), cpu[c].gen).gen
         IN  /\ KeptBit(cpu[c], cpu'[c]) /\ cpu'[c].old = tag
             /\ cpu'[c].pc = IF tag # cpu[c].gen THEN "cas" ELSE "or"
<1> DEFINE tag == Word(Bit(c), cpu[c].gen).gen
           next == IF tag # cpu[c].gen THEN "cas" ELSE "or"
<1>1. cpu'[c] = [cpu[c] EXCEPT !.old = tag, !.pc = next] /\ cpu[c] \in Register
  BY DEF TypeOK, LoadTag
<1> HIDE DEF tag, next
<1>2. KeptBit(cpu[c], cpu'[c]) /\ cpu'[c].old = tag /\ cpu'[c].pc = next
  BY <1>1 DEF Kept, KeptBit, Register
<1> QED  BY <1>2 DEF tag, next

LEMMA CasTagEffect ==
  ASSUME TypeOK, NEW c \in CPUs, CasTag(c)
  PROVE  /\ KeptBit(cpu[c], cpu'[c])
         /\ cpu'[c].pc = AfterCas(Word(Bit(c), cpu[c].gen).gen, cpu[c].gen)
BY DEF TypeOK, CasTag, Kept, KeptBit, Register

LEMMA ClearEffect ==
  ASSUME TypeOK, NEW c \in CPUs, Clear(c)
  PROVE  KeptBit(cpu[c], cpu'[c]) /\ cpu'[c].pc = "or"
BY DEF TypeOK, Clear, Kept, KeptBit, Register

LEMMA OrBitEffect ==
  ASSUME TypeOK, NEW c \in CPUs, OrBit(c)
  PROVE  \/ cpu[c].hash = BLOOM_HASHES - 1 /\ cpu'[c] = Idle
         \/ /\ cpu[c].hash < BLOOM_HASHES - 1
            /\ Kept(cpu[c], cpu'[c]) /\ cpu'[c].gen = cpu[c].gen /\ cpu'[c].seen = cpu[c].seen
            /\ cpu'[c].hash = cpu[c].hash + 1 /\ cpu'[c].pc = "setTag"
<1>1. CASE cpu[c].hash = BLOOM_HASHES - 1
  BY <1>1 DEF TypeOK, OrBit
<1>2. CASE cpu[c].hash # BLOOM_HASHES - 1
  <2>1. cpu'[c] = [cpu[c] EXCEPT !.pc = "setTag", !.old = 0, !.hash = cpu[c].hash + 1]
    BY <1>2 DEF TypeOK, OrBit
  <2>2. cpu[c] \in Register /\ cpu[c].hash \in Hashes  BY DEF TypeOK, Register
  <2>3. cpu[c].hash < BLOOM_HASHES - 1  BY <1>2, <2>2, SMPAssumption DEF Hashes
  <2> QED  BY <2>1, <2>2, <2>3 DEF Kept, Register
<1> QED  BY <1>1, <1>2

-----------------------------------------------------------------------------
(* Rolls and the clock *)

\* The times a packet and the epoch carry are integers.
LEMMA Times ==
  ASSUME TypeOK, NEW c \in CPUs
  PROVE  /\ cpu[c] \in Register
         /\ cpu[c].now \in Nat /\ cpu[c].start_ns \in Nat /\ cpu[c].gen \in Nat
         /\ cpu[c].prior.at \in Int /\ cpu[c].prior.gen \in Nat
         /\ cpu[c].now <= now /\ cpu[c].hash \in Nat
         /\ now \in Nat /\ gen \in Nat /\ start_ns \in Nat /\ start_ns <= now
         /\ MaxRun \in Nat /\ BLOOM_EPOCH_NS \in Nat /\ 2 * MaxRun <= BLOOM_EPOCH_NS
<1>1. cpu[c] \in Register /\ cpu[c].hash \in Hashes  BY DEF TypeOK, Register
<1>2. cpu[c].hash \in Nat  BY <1>1, SMPAssumption DEF Hashes
<1> QED  BY <1>1, <1>2, SMPAssumption DEF TypeOK, Register

\* A CPU that wins the swap of start_ns is the only one between the swap and
\* the increment: another winner would have set start_ns less than a packet's
\* running time ago.
LEMMA RollsOneAtATime ==
  ASSUME TypeOK, EpochInv, NEW c \in CPUs, CasStart(c), start_ns' # start_ns
  PROVE  /\ ~Rolling
         /\ start_ns' = cpu[c].now
         /\ cpu[c].now - start_ns > BLOOM_EPOCH_NS
<1>0. PastRoll(cpu[c], cpu'[c]) \/ cpu'[c].pc = "rolled"  BY CasStartEffect
<1>1. start_ns' = cpu[c].now /\ start_ns = cpu[c].start_ns  BY CasStartEffect
<1>2. cpu[c].now - start_ns > BLOOM_EPOCH_NS  BY <1>1 DEF EpochInv, CasStart
<1>3. ASSUME NEW d \in CPUs, cpu[d].pc = "rolled" PROVE FALSE
  <2>1. now - cpu[d].now <= MaxRun /\ cpu[d].now = start_ns  BY <1>3 DEF EpochInv
  <2> QED  BY <1>2, <2>1, Times
<1> QED  BY <1>1, <1>2, <1>3 DEF Rolling

\* Only the winner of the swap is about to increment gen.
LEMMA RollingStep ==
  ASSUME TypeOK, NEW c \in CPUs, Step(c)
  PROVE  \/ cpu'[c].pc # "rolled"
         \/ CasStart(c) /\ start_ns = cpu[c].start_ns /\ start_ns' = cpu[c].now
<1> USE DEF Idle
<1>1. ASSUME NEW k \in Keys \union {NoKey}, path_egress(c, k) PROVE cpu'[c].pc # "rolled"
  BY <1>1, ArriveEffect
<1>2. CASE LoadStart(c)  BY <1>2, LoadStartEffect DEF PastRoll
<1>3. CASE CasStart(c)  BY <1>3, CasStartEffect DEF PastRoll
<1>4. CASE AddGen(c)  BY <1>4, AddGenEffect DEF PastRoll
<1>5. CASE LoadGen(c)  BY <1>5, LoadGenEffect
<1>6. CASE TestTag(c)  BY <1>6, TestTagEffect, AfterTestType, Times
<1>7. CASE TestBits(c)
  <2>1. (Bit(c) \in Word(Bit(c), cpu[c].asked).bits) \in BOOLEAN  OBVIOUS
  <2> QED  BY <1>7, <2>1, TestBitsEffect, AfterTestType, Times
<1>8. CASE LoadTag(c)  BY <1>8, LoadTagEffect
<1>9. CASE CasTag(c)  BY <1>9, CasTagEffect DEF AfterCas
<1>10. CASE Clear(c)  BY <1>10, ClearEffect
<1>11. CASE OrBit(c)  BY <1>11, OrBitEffect
<1> QED  BY <1>1, <1>2, <1>3, <1>4, <1>5, <1>6, <1>7, <1>8, <1>9, <1>10, <1>11 DEF Step

\* What was dated stays dated: a roll that begins is more than an epoch later
\* than the last, and gen follows start_ns within a packet's running time.
LEMMA DatedStep ==
  ASSUME TypeOK, EpochInv, [Next]_vars, NEW t \in Int, NEW g \in Nat, Dated(t, g)
  PROVE  Dated(t, g)'
<1>0. /\ now \in Nat /\ gen \in Nat /\ start_ns \in Nat /\ start_ns <= now
      /\ MaxRun \in Nat /\ BLOOM_EPOCH_NS \in Nat /\ 2 * MaxRun <= BLOOM_EPOCH_NS
  BY SMPAssumption DEF TypeOK
<1>1. CASE UNCHANGED vars  BY <1>1 DEF vars, shared, Dated, Rolling
<1>2. CASE bpf_ktime_get_ns
  BY <1>0, <1>2 DEF bpf_ktime_get_ns, shared, Dated, Rolling
<1>3. ASSUME NEW c \in CPUs, Step(c) PROVE Dated(t, g)'
  <2>1. now' = now /\ \A d \in CPUs : d # c => cpu'[d] = cpu[d]  BY <1>3, OthersStand
  <2>2. CASE CasStart(c) /\ start_ns' # start_ns
    <3>1. /\ start_ns' = cpu[c].now /\ cpu[c].now - start_ns > BLOOM_EPOCH_NS
          /\ cpu[c].now \in Nat
      BY <2>2, RollsOneAtATime, Times
    <3>2. gen' = gen  BY <2>2 DEF CasStart
    <3>3. g < gen => t <= start_ns + MaxRun  BY DEF Dated
    <3>4. g < gen => start_ns' > t + BLOOM_EPOCH_NS - MaxRun  BY <1>0, <3>1, <3>3
    <3>5. g < gen => t <= start_ns' + MaxRun  BY <1>0, <3>1, <3>3
    <3> QED  BY <1>0, <2>1, <3>2, <3>4, <3>5 DEF Dated
  <2>3. CASE AddGen(c)
    <3>1. gen' = gen + 1 /\ start_ns' = start_ns  BY <2>3, AddGenEffect DEF AddGen
    <3>2. now <= start_ns + MaxRun  BY <2>3, Times DEF EpochInv, AddGen
    <3>3. Rolling  BY <2>3 DEF AddGen, Rolling
    <3>4. t <= now /\ g <= gen /\ (g < gen => start_ns > t + BLOOM_EPOCH_NS - MaxRun)
      BY <3>3 DEF Dated
    <3>5. ~Rolling'
      <4>1. \A d \in CPUs : d # c => cpu[d].pc # "rolled"  BY <2>3 DEF EpochInv, AddGen
      <4>2. cpu'[c].pc # "rolled"  BY <2>3, AddGenEffect DEF PastRoll, Idle
      <4> QED  BY <2>1, <4>1, <4>2 DEF Rolling
    <3>6. t <= start_ns + MaxRun  BY <1>0, <3>2, <3>4
    <3> QED  BY <1>0, <2>1, <3>1, <3>4, <3>5, <3>6 DEF Dated
  <2>4. CASE ~AddGen(c) /\ start_ns' = start_ns
    <3>1. gen' = gen
      BY <1>3, <2>4 DEF Step, path_egress, LoadStart, CasStart, LoadGen, TestTag, TestBits,
                        LoadTag, CasTag, Clear, OrBit, shared
    <3>2. cpu'[c].pc # "rolled" \/ (CasStart(c) /\ start_ns = cpu[c].start_ns /\ start_ns' = cpu[c].now)
      BY <1>3, RollingStep
    <3>3. ~(CasStart(c) /\ start_ns = cpu[c].start_ns /\ start_ns' = cpu[c].now)
      <4> SUFFICES ASSUME CasStart(c), start_ns = cpu[c].start_ns, start_ns' = cpu[c].now
                   PROVE  FALSE
        OBVIOUS
      <4>1. cpu[c].now - start_ns > BLOOM_EPOCH_NS  BY DEF EpochInv, CasStart
      <4> QED  BY <2>4, <4>1, Times
    <3>4. Rolling' => Rolling  BY <2>1, <3>2, <3>3 DEF Rolling
    <3> QED  BY <2>1, <2>4, <3>1, <3>4 DEF Dated
  <2>5. start_ns' = start_ns \/ CasStart(c)
    BY <1>3 DEF Step, path_egress, LoadStart, AddGen, LoadGen, TestTag, TestBits,
                LoadTag, CasTag, Clear, OrBit, shared
  <2>6. CasStart(c) => ~AddGen(c)  BY DEF CasStart, AddGen
  <2> QED  BY <2>2, <2>3, <2>4, <2>5, <2>6
<1> QED  BY <1>1, <1>2, <1>3 DEF Next

\* What EpochInv says of one CPU.
EpochOf(c) ==
  /\ cpu[c].pc # "idle" => now - cpu[c].now <= MaxRun
  /\ cpu[c].pc = "roll" => cpu[c].now - cpu[c].start_ns > BLOOM_EPOCH_NS
  /\ cpu[c].pc = "rolled" => cpu[c].now = start_ns
  /\ cpu[c].pc \in TestPhase \union SetPhase => Dated(cpu[c].now, cpu[c].gen)
  /\ cpu[c].prior # NoInsertion => Dated(cpu[c].prior.at, cpu[c].prior.gen)

\* The same of the state that a step leads to.
DatedNext(t, g) ==
  /\ t <= now' /\ g <= gen'
  /\ g < gen' => t <= start_ns' + MaxRun
  /\ g < gen' - 1 \/ (g < gen' /\ Rolling') => start_ns' > t + BLOOM_EPOCH_NS - MaxRun

EpochNext(r) ==
  /\ r.pc # "idle" => now' - r.now <= MaxRun
  /\ r.pc = "roll" => r.now - r.start_ns > BLOOM_EPOCH_NS
  /\ r.pc = "rolled" => r.now = start_ns'
  /\ r.pc \in TestPhase \union SetPhase => DatedNext(r.now, r.gen)
  /\ r.prior # NoInsertion => DatedNext(r.prior.at, r.prior.gen)

LEMMA EpochNextOf ==
  ASSUME NEW c \in CPUs, EpochNext(cpu'[c])
  PROVE  EpochOf(c)'
BY DEF EpochNext, EpochOf, Dated, DatedNext

LEMMA IdleEpoch ==
  ASSUME NEW c \in CPUs, cpu[c] = Idle
  PROVE  EpochOf(c)
<1>1. Idle.pc = "idle" /\ Idle.prior = NoInsertion  BY DEF Idle
<1> QED  BY <1>1 DEF EpochOf, TestPhase, SetPhase

LEMMA EpochInit == Init => EpochInv
<1> SUFFICES ASSUME Init PROVE EpochInv  OBVIOUS
<1>1. \A c \in CPUs : cpu[c] = Idle  BY DEF Init
<1>2. \A c \in CPUs : EpochOf(c)  BY <1>1, IdleEpoch
<1>3. \A c \in CPUs : cpu[c].pc # "rolled"
  <2>1. Idle.pc = "idle"  BY DEF Idle
  <2> QED  BY <1>1, <2>1
<1>4. \A k \in Keys : inserted[k] = NoInsertion  BY DEF Init
<1> QED  BY <1>2, <1>3, <1>4 DEF EpochInv, EpochOf

\* Only an insertion, in the generation that the packet read, dates a key.
LEMMA InsertedStep ==
  ASSUME TypeOK, [Next]_vars, NEW k \in Keys
  PROVE  \/ inserted'[k] = inserted[k]
         \/ \E c \in CPUs : /\ OrBit(c) /\ cpu[c].hash = BLOOM_HASHES - 1 /\ cpu[c].key = k
                            /\ inserted'[k] = [at |-> cpu[c].now, gen |-> cpu[c].gen]
<1>1. CASE UNCHANGED vars \/ bpf_ktime_get_ns
  BY <1>1 DEF vars, history, bpf_ktime_get_ns
<1>2. ASSUME NEW c \in CPUs, Step(c), ~OrBit(c) PROVE inserted' = inserted
  BY <1>2 DEF Step, path_egress, LoadStart, CasStart, AddGen, LoadGen, TestTag, TestBits,
              LoadTag, CasTag, Clear, history
<1>3. ASSUME NEW c \in CPUs, OrBit(c)
      PROVE  \/ inserted'[k] = inserted[k]
             \/ /\ cpu[c].hash = BLOOM_HASHES - 1 /\ cpu[c].key = k
                /\ inserted'[k] = [at |-> cpu[c].now, gen |-> cpu[c].gen]
  <2>1. CASE cpu[c].hash = BLOOM_HASHES - 1
    <3>1. inserted' = [inserted EXCEPT ![cpu[c].key] = [at |-> cpu[c].now, gen |-> cpu[c].gen]]
      BY <1>3, <2>1 DEF OrBit
    <3> QED  BY <2>1, <3>1 DEF TypeOK
  <2>2. CASE cpu[c].hash # BLOOM_HASHES - 1  BY <1>3, <2>2 DEF OrBit
  <2> QED  BY <2>1, <2>2
<1> QED  BY <1>1, <1>2, <1>3 DEF Next

LEMMA EpochStep == TypeOK /\ TypeOK' /\ EpochInv /\ [Next]_vars => EpochInv'
<1> SUFFICES ASSUME TypeOK, TypeOK', EpochInv, [Next]_vars PROVE EpochInv'  OBVIOUS
<1>0. \A c \in CPUs : EpochOf(c)  BY DEF EpochInv, EpochOf
<1>1. \A k \in Keys : inserted'[k] # NoInsertion => Dated(inserted[k].at, inserted[k].gen)'
  <2> TAKE k \in Keys
  <2>0. inserted[k].at \in Int /\ inserted[k].gen \in Nat  BY DEF TypeOK
  <2>1. CASE inserted'[k] = inserted[k]
    <3>1. CASE inserted[k] = NoInsertion  BY <2>1, <3>1
    <3>2. CASE inserted[k] # NoInsertion
      <4>1. Dated(inserted[k].at, inserted[k].gen)  BY <3>2 DEF EpochInv
      <4> DEFINE t == inserted[k].at
                 g == inserted[k].gen
      <4>2. \A u \in Int, v \in Nat : Dated(u, v) => Dated(u, v)'  BY DatedStep
      <4> QED  BY <2>0, <2>1, <4>1, <4>2 DEF Dated
    <3> QED  BY <3>1, <3>2
  <2>2. ASSUME NEW c \in CPUs, OrBit(c),
               inserted'[k] = [at |-> cpu[c].now, gen |-> cpu[c].gen]
        PROVE  Dated(inserted[k].at, inserted[k].gen)'
    <3>1. Dated(cpu[c].now, cpu[c].gen)  BY <2>2 DEF EpochInv, OrBit, SetPhase
    <3>2. \A u \in Int, v \in Nat : Dated(u, v) => Dated(u, v)'  BY DatedStep
    <3>3. inserted'[k].at = cpu[c].now /\ inserted'[k].gen = cpu[c].gen  BY <2>2
    <3> QED  BY <3>1, <3>2, <3>3, Times DEF Dated
  <2> QED  BY <2>1, <2>2, InsertedStep
<1>2. CASE UNCHANGED vars
  BY <1>2 DEF vars, shared, history, EpochInv, Dated, Rolling
<1>3. CASE bpf_ktime_get_ns
  <2>1. cpu' = cpu /\ start_ns' = start_ns /\ now' = now + 1
    BY <1>3 DEF bpf_ktime_get_ns, shared
  <2>2. \A u \in Int, v \in Nat : Dated(u, v) => Dated(u, v)'  BY DatedStep
  <2>3. ASSUME NEW c \in CPUs PROVE EpochOf(c)'
    <3>1. EpochOf(c)  BY <1>0
    <3>2. cpu[c].pc # "idle" => (now + 1) - cpu[c].now <= MaxRun
      BY <1>3, Times DEF bpf_ktime_get_ns
    <3>3. cpu[c].pc \in TestPhase \union SetPhase => Dated(cpu[c].now, cpu[c].gen)'
      BY <2>1, <2>2, <3>1, Times DEF EpochOf, Dated
    <3>4. cpu[c].prior # NoInsertion => Dated(cpu[c].prior.at, cpu[c].prior.gen)'
      BY <2>1, <2>2, <3>1, Times DEF EpochOf, Dated
    <3> QED  BY <2>1, <3>1, <3>2, <3>3, <3>4 DEF EpochOf
  <2> QED  BY <1>1, <2>1, <2>3 DEF EpochInv, EpochOf
<1>4. ASSUME NEW c \in CPUs, Step(c) PROVE EpochInv'
  <2>1. now' = now /\ \A d \in CPUs : d # c => cpu'[d] = cpu[d]  BY <1>4, OthersStand
  <2>2. \A u \in Int, v \in Nat : Dated(u, v) => Dated(u, v)'  BY DatedStep
  <2>3. cpu'[c].pc = "rolled" => CasStart(c) /\ start_ns = cpu[c].start_ns /\ start_ns' = cpu[c].now
    BY <1>4, RollingStep
  <2>4. start_ns' = start_ns \/ CasStart(c)
    BY <1>4 DEF Step, path_egress, LoadStart, AddGen, LoadGen, TestTag, TestBits,
                LoadTag, CasTag, Clear, OrBit, shared
  <2>5. ASSUME NEW d \in CPUs, d # c PROVE EpochOf(d)'
    <3>1. EpochOf(d) /\ cpu'[d] = cpu[d]  BY <1>0, <2>1, <2>5
    <3>2. cpu[d].pc = "rolled" => start_ns' = start_ns
      BY <2>4, RollsOneAtATime DEF Rolling
    <3>3. cpu[d].pc \in TestPhase \union SetPhase => Dated(cpu[d].now, cpu[d].gen)'
      BY <2>2, <3>1, Times DEF EpochOf, Dated
    <3>4. cpu[d].prior # NoInsertion => Dated(cpu[d].prior.at, cpu[d].prior.gen)'
      BY <2>2, <3>1, Times DEF EpochOf, Dated
    <3> QED  BY <2>1, <3>1, <3>2, <3>3, <3>4 DEF EpochOf
  <2>6. EpochOf(c)'
    <3> DEFINE r == cpu[c]
               q == cpu'[c]
    <3>0. EpochOf(c)  BY <1>0
    <3>a. \A u \in Int, v \in Nat : Dated(u, v) => DatedNext(u, v)
      BY <2>2 DEF Dated, DatedNext
    <3>1. r.prior # NoInsertion => /\ Dated(r.prior.at, r.prior.gen)
                                   /\ DatedNext(r.prior.at, r.prior.gen)
      BY <3>a, <3>0, Times DEF EpochOf
    <3>2. ASSUME PastRoll(r, q), r.pc # "idle" PROVE EpochNext(q)
      <4>1. CASE q = Idle
        <5>1. q.pc = "idle" /\ q.prior = NoInsertion  BY <4>1 DEF Idle
        <5> QED  BY <5>1 DEF EpochNext, TestPhase, SetPhase
      <4>2. CASE q.pc = "gen" /\ Kept(r, q)
        <5>1. q.prior = r.prior /\ q.now = r.now /\ q.pc = "gen"  BY <4>2 DEF Kept
        <5>2. now - r.now <= MaxRun  BY <3>0, <3>2 DEF EpochOf
        <5>3. q.prior # NoInsertion => DatedNext(q.prior.at, q.prior.gen)
          BY <3>1, <5>1
        <5> QED  BY <2>1, <5>1, <5>2, <5>3 DEF EpochNext, TestPhase, SetPhase
      <4> QED  BY <3>2, <4>1, <4>2 DEF PastRoll
    <3>3. ASSUME Kept(r, q), r.pc # "idle", q.pc \in {"roll", "rolled"},
                 q.pc = "roll" => r.now - q.start_ns > BLOOM_EPOCH_NS
          PROVE  EpochNext(q)
      <4>1. q.prior = r.prior /\ q.now = r.now  BY <3>3 DEF Kept
      <4>2. now - r.now <= MaxRun  BY <3>0, <3>3 DEF EpochOf
      <4>3. q.prior # NoInsertion => DatedNext(q.prior.at, q.prior.gen)
        BY <3>1, <4>1
      <4> QED  BY <2>1, <2>3, <3>3, <4>1, <4>2, <4>3 DEF EpochNext, TestPhase, SetPhase
    <3>4. ASSUME Kept(r, q), q.gen = r.gen, r.pc \in TestPhase \union SetPhase,
                 q.pc \in TestPhase \union SetPhase
          PROVE  EpochNext(q)
      <4>1. q.prior = r.prior /\ q.now = r.now  BY <3>4 DEF Kept
      <4>2. now - r.now <= MaxRun  BY <3>0, <3>4 DEF EpochOf, TestPhase, SetPhase
      <4>3. q.prior # NoInsertion => DatedNext(q.prior.at, q.prior.gen)
        BY <3>1, <4>1
      <4>4. DatedNext(q.now, q.gen)
        BY <3>a, <3>0, <3>4, <4>1, Times DEF EpochOf
      <4> QED  BY <2>1, <3>4, <4>1, <4>2, <4>3, <4>4 DEF EpochNext, TestPhase, SetPhase
    <3>5. ASSUME NEW k \in Keys \union {NoKey}, path_egress(c, k) PROVE EpochNext(q)
      <4>1. q.pc = "start" /\ q.now = now  BY <3>5, ArriveEffect
      <4>2. q.prior # NoInsertion => DatedNext(q.prior.at, q.prior.gen)
        <5>1. (k \in Keys /\ q.prior = inserted[k]) \/ q.prior = NoInsertion
          BY <3>5, ArriveEffect
        <5>2. inserted' = inserted  BY <3>5 DEF path_egress, history
        <5> QED  BY <1>1, <5>1, <5>2 DEF Dated, DatedNext
      <4> QED  BY <2>1, <4>1, <4>2, Times DEF EpochNext, TestPhase, SetPhase
    <3>6. ASSUME LoadStart(c) PROVE EpochNext(q)
      BY <3>2, <3>3, <3>6, LoadStartEffect DEF LoadStart
    <3>7. ASSUME CasStart(c) PROVE EpochNext(q)
      BY <3>2, <3>3, <3>7, CasStartEffect DEF CasStart
    <3>8. ASSUME AddGen(c) PROVE EpochNext(q)
      BY <3>2, <3>8, AddGenEffect DEF AddGen
    <3>9. ASSUME LoadGen(c) PROVE EpochNext(q)
      <4>1. /\ q.prior = r.prior /\ q.now = r.now /\ q.pc = "testTag" /\ q.gen = gen
            /\ gen' = gen /\ r.pc = "gen"
        BY <3>9, LoadGenEffect DEF Kept, LoadGen, shared
      <4>2. now - r.now <= MaxRun  BY <3>0, <4>1 DEF EpochOf
      <4>3. q.prior # NoInsertion => DatedNext(q.prior.at, q.prior.gen)
        BY <3>1, <4>1
      <4>4. DatedNext(q.now, q.gen)  BY <2>1, <4>1, Times DEF DatedNext
      <4> QED  BY <2>1, <4>1, <4>2, <4>3, <4>4 DEF EpochNext, TestPhase, SetPhase
    <3>10. ASSUME NEW hit \in BOOLEAN, q = AfterTest(r, hit), r.pc \in TestPhase
           PROVE  EpochNext(q)
      <4>1. Kept(r, q) /\ q.gen = r.gen /\ q.pc \in {"testTag", "setTag"}
        <5>1. r \in Register  BY Times
        <5> HIDE DEF r, q
        <5> QED  BY <3>10, <5>1, AfterTestType DEF Kept
      <4> QED  BY <3>4, <3>10, <4>1 DEF TestPhase, SetPhase
    <3>11. ASSUME TestTag(c) PROVE EpochNext(q)
      BY <3>4, <3>10, <3>11, TestTagEffect DEF TestTag, KeptBit, TestPhase
    <3>12. ASSUME TestBits(c) PROVE EpochNext(q)
      <4>1. (Bit(c) \in Word(Bit(c), cpu[c].asked).bits) \in BOOLEAN  OBVIOUS
      <4> QED  BY <3>10, <3>12, <4>1, TestBitsEffect DEF TestBits, TestPhase
    <3>13. ASSUME LoadTag(c) PROVE EpochNext(q)
      BY <3>4, <3>13, LoadTagEffect DEF LoadTag, KeptBit, SetPhase
    <3>14. ASSUME CasTag(c) PROVE EpochNext(q)
      BY <3>4, <3>14, CasTagEffect DEF CasTag, KeptBit, SetPhase, AfterCas
    <3>15. ASSUME Clear(c) PROVE EpochNext(q)
      BY <3>4, <3>15, ClearEffect DEF Clear, KeptBit, SetPhase
    <3>16. ASSUME OrBit(c) PROVE EpochNext(q)
      <4>1. CASE q = Idle
        <5>1. q.pc = "idle" /\ q.prior = NoInsertion  BY <4>1 DEF Idle
        <5> QED  BY <5>1 DEF EpochNext, TestPhase, SetPhase
      <4>2. CASE q # Idle
        BY <3>4, <3>16, <4>2, OrBitEffect DEF OrBit, SetPhase
      <4> QED  BY <4>1, <4>2
    <3>17. EpochNext(q)
      BY <1>4, <3>5, <3>6, <3>7, <3>8, <3>9, <3>11, <3>12, <3>13, <3>14, <3>15, <3>16 DEF Step
    <3> QED  BY <3>17, EpochNextOf
  <2>7. \A d, e \in CPUs : cpu'[d].pc = "rolled" /\ cpu'[e].pc = "rolled" => d = e
    <3>1. \A d, e \in CPUs : cpu[d].pc = "rolled" /\ cpu[e].pc = "rolled" => d = e
      BY DEF EpochInv
    <3>2. ASSUME cpu'[c].pc = "rolled" PROVE \A d \in CPUs : cpu[d].pc # "rolled"
      <4>1. CasStart(c) /\ start_ns = cpu[c].start_ns /\ start_ns' = cpu[c].now
        BY <2>3, <3>2
      <4>2. cpu[c].now - start_ns > BLOOM_EPOCH_NS  BY <4>1 DEF EpochInv, CasStart
      <4>3. start_ns' # start_ns  BY <4>1, <4>2, Times
      <4> QED  BY <4>1, <4>3, RollsOneAtATime DEF Rolling
    <3> QED  BY <2>1, <3>1, <3>2
  <2> QED  BY <1>1, <2>5, <2>6, <2>7 DEF EpochInv, EpochOf
<1> QED  BY <1>2, <1>3, <1>4 DEF Next

-----------------------------------------------------------------------------
(* The tags of the words *)

\* The four things that can happen to a word: nothing, a swapped tag, a clear,
\* one more bit; the last three only to the word that the CPU works on.
Works(c, bank, w) == bank = Bank(cpu[c].gen) /\ w = WordOf(Bit(c))

LEMMA WordStep ==
  ASSUME TypeOK, [Next]_vars, NEW bank \in {0, 1}, NEW w \in Words
  PROVE  LET word == bloom_bits[bank][w]
             next == bloom_bits'[bank][w]
         IN  \/ next = word
             \/ \E c \in CPUs : /\ CasTag(c) /\ Works(c, bank, w) /\ word.gen = cpu[c].old
                                /\ next.gen = cpu[c].gen /\ next.bits = word.bits
             \/ \E c \in CPUs : /\ Clear(c) /\ Works(c, bank, w)
                                /\ next.gen = word.gen /\ next.bits = {}
             \/ \E c \in CPUs : /\ OrBit(c) /\ Works(c, bank, w)
                                /\ next.gen = word.gen /\ next.bits = word.bits \union {Bit(c)}
<1> DEFINE word == bloom_bits[bank][w]
           next == bloom_bits'[bank][w]
<1>1. CASE UNCHANGED vars \/ bpf_ktime_get_ns
  BY <1>1 DEF vars, shared, bpf_ktime_get_ns
<1>2. ASSUME NEW c \in CPUs, Step(c), ~CasTag(c), ~Clear(c), ~OrBit(c)
      PROVE  next = word
  BY <1>2 DEF Step, path_egress, LoadStart, CasStart, AddGen, LoadGen, TestTag, TestBits,
              LoadTag, shared
<1>3. ASSUME NEW c \in CPUs, CasTag(c)
      PROVE  \/ next = word
             \/ /\ Works(c, bank, w) /\ word.gen = cpu[c].old
                /\ next.gen = cpu[c].gen /\ next.bits = word.bits
  <2>1. CASE Word(Bit(c), cpu[c].gen).gen # cpu[c].old  BY <1>3, <2>1 DEF CasTag
  <2>2. CASE Word(Bit(c), cpu[c].gen).gen = cpu[c].old
    <3>1. bloom_bits' = [bloom_bits EXCEPT ![Bank(cpu[c].gen)][WordOf(Bit(c))].gen = cpu[c].gen]
      BY <1>3, <2>2 DEF CasTag
    <3> QED  BY <2>2, <3>1 DEF TypeOK, Word, Works
  <2> QED  BY <2>1, <2>2
<1>4. ASSUME NEW c \in CPUs, Clear(c)
      PROVE  \/ next = word
             \/ Works(c, bank, w) /\ next.gen = word.gen /\ next.bits = {}
  <2>1. bloom_bits' = [bloom_bits EXCEPT ![Bank(cpu[c].gen)][WordOf(Bit(c))].bits = {}]
    BY <1>4 DEF Clear
  <2> QED  BY <2>1 DEF TypeOK, Works
<1>5. ASSUME NEW c \in CPUs, OrBit(c)
      PROVE  \/ next = word
             \/ Works(c, bank, w) /\ next.gen = word.gen /\ next.bits = word.bits \union {Bit(c)}
  <2>1. bloom_bits' = [bloom_bits EXCEPT ![Bank(cpu[c].gen)][WordOf(Bit(c))].bits =
                         bloom_bits[Bank(cpu[c].gen)][WordOf(Bit(c))].bits \union {Bit(c)}]
    BY <1>5 DEF OrBit
  <2> QED  BY <2>1 DEF TypeOK, Works
<1> HIDE DEF word, next
<1>6. \/ next = word
      \/ \E c \in CPUs : /\ CasTag(c) /\ Works(c, bank, w) /\ word.gen = cpu[c].old
                         /\ next.gen = cpu[c].gen /\ next.bits = word.bits
      \/ \E c \in CPUs : /\ Clear(c) /\ Works(c, bank, w)
                         /\ next.gen = word.gen /\ next.bits = {}
      \/ \E c \in CPUs : /\ OrBit(c) /\ Works(c, bank, w)
                         /\ next.gen = word.gen /\ next.bits = word.bits \union {Bit(c)}
  <2>1. CASE UNCHANGED vars \/ bpf_ktime_get_ns  BY <1>1, <2>1 DEF word, next
  <2>2. ASSUME NEW c \in CPUs, Step(c)
        PROVE  \/ next = word
               \/ /\ CasTag(c) /\ Works(c, bank, w) /\ word.gen = cpu[c].old
                  /\ next.gen = cpu[c].gen /\ next.bits = word.bits
               \/ Clear(c) /\ Works(c, bank, w) /\ next.gen = word.gen /\ next.bits = {}
               \/ /\ OrBit(c) /\ Works(c, bank, w)
                  /\ next.gen = word.gen /\ next.bits = word.bits \union {Bit(c)}
    BY <1>2, <1>3, <1>4, <1>5, <2>2
  <2> QED  BY <2>1, <2>2 DEF Next
<1> QED  BY <1>6 DEF word, next

\* A packet under way has read the current generation or the one before: the
\* roll that ends the next one is more than an epoch away.
LEMMA ActiveGen ==
  ASSUME TypeOK, EpochInv, NEW c \in CPUs, cpu[c].pc \in TestPhase \union SetPhase
  PROVE  cpu[c].gen \in {gen - 1, gen}
<1>1. now - cpu[c].now <= MaxRun /\ Dated(cpu[c].now, cpu[c].gen)
  BY DEF EpochInv, TestPhase, SetPhase
<1>2. cpu[c].gen <= gen  BY <1>1 DEF Dated
<1>3. cpu[c].gen < gen - 1 => start_ns > cpu[c].now + BLOOM_EPOCH_NS - MaxRun
  BY <1>1 DEF Dated
<1> QED  BY <1>1, <1>2, <1>3, Times

\* Two neighbouring generations in one bank are the same generation.
LEMMA SameBank ==
  ASSUME NEW a \in Int, NEW b \in Int, b \in {a - 1, a, a + 1}, Bank(a) = Bank(b)
  PROVE  a = b
BY BankParity

\* The words of the bank that an active CPU uses have no later tag.
LEMMA TagsBehind ==
  ASSUME TypeOK, EpochInv, TagInv, NEW c \in CPUs, cpu[c].pc \in TestPhase \union SetPhase,
         NEW w \in Words
  PROVE  bloom_bits[Bank(cpu[c].gen)][w].gen <= cpu[c].gen
<1> DEFINE t == bloom_bits[Bank(cpu[c].gen)][w].gen
<1>1. Bank(cpu[c].gen) \in {0, 1}  BY BankParity, Times
<1>2. t \in Nat  BY <1>1 DEF TypeOK
<1>3. t <= gen /\ (Bank(t) = Bank(cpu[c].gen) \/ t = 0)  BY <1>1 DEF TagInv
<1>4. cpu[c].gen \in {gen - 1, gen}  BY ActiveGen
<1>5. t = gen /\ Bank(t) = Bank(cpu[c].gen) => t = cpu[c].gen
  BY <1>2, <1>4, SameBank, Times
<1> HIDE DEF t
<1>6. t <= cpu[c].gen  BY <1>2, <1>3, <1>4, <1>5, Times
<1> QED  BY <1>6 DEF t

\* The same word, for two CPUs that write, is the same generation.
LEMMA WritersAgree ==
  ASSUME TypeOK, EpochInv, NEW c \in CPUs, NEW d \in CPUs,
         cpu[c].pc \in SetPhase, cpu[d].pc \in SetPhase, Bank(cpu[c].gen) = Bank(cpu[d].gen)
  PROVE  cpu[c].gen = cpu[d].gen
<1>1. cpu[c].gen \in {gen - 1, gen} /\ cpu[d].gen \in {gen - 1, gen}  BY ActiveGen
<1> QED  BY <1>1, SameBank, Times

\* What TagInv says of one word and of one CPU.
TagOfWord(bank, w) ==
  /\ bloom_bits[bank][w].gen <= gen
  /\ Bank(bloom_bits[bank][w].gen) = bank \/ (bloom_bits[bank][w].gen = 0 /\ bloom_bits[bank][w].bits = {})

TagOfCPU(c) ==
  /\ cpu[c].pc = "cas" => /\ cpu[c].old # cpu[c].gen
                          /\ Word(Bit(c), cpu[c].gen).gen \in {cpu[c].old, cpu[c].gen}
  /\ cpu[c].pc \in {"clear", "or"} => Word(Bit(c), cpu[c].gen).gen = cpu[c].gen

LEMMA TagParts ==
  TagInv <=> /\ \A bank \in {0, 1} : \A w \in Words : TagOfWord(bank, w)
             /\ \A c \in CPUs : TagOfCPU(c)
BY DEF TagInv, TagOfWord, TagOfCPU

LEMMA TagInit == Init => TagInv
<1> SUFFICES ASSUME Init PROVE TagInv  OBVIOUS
<1>1. \A c \in CPUs : cpu[c].pc = "idle"
  <2>1. Idle.pc = "idle"  BY DEF Idle
  <2> QED  BY <2>1 DEF Init
<1>2. \A c \in CPUs : TagOfCPU(c)  BY <1>1 DEF TagOfCPU
<1>3. \A bank \in {0, 1} : \A w \in Words : TagOfWord(bank, w)
  BY DEF Init, TagOfWord
<1> QED  BY <1>2, <1>3, TagParts

\* Tags never move back.
LEMMA TagsMoveOn ==
  ASSUME TypeOK, EpochInv, TagInv, [Next]_vars, NEW bank \in {0, 1}, NEW w \in Words
  PROVE  bloom_bits'[bank][w].gen >= bloom_bits[bank][w].gen
<1>1. bloom_bits[bank][w].gen \in Nat  BY DEF TypeOK
<1>2. ASSUME NEW c \in CPUs, CasTag(c), Works(c, bank, w)
      PROVE  bloom_bits[bank][w].gen <= cpu[c].gen
  BY <1>2, TagsBehind DEF Works, CasTag, SetPhase
<1> QED  BY <1>1, <1>2, WordStep, Times

LEMMA TagStep == TypeOK /\ TypeOK' /\ EpochInv /\ TagInv /\ [Next]_vars => TagInv'
<1> SUFFICES ASSUME TypeOK, TypeOK', EpochInv, TagInv, [Next]_vars PROVE TagInv'  OBVIOUS
<1>1. ASSUME NEW bank \in {0, 1}, NEW w \in Words PROVE TagOfWord(bank, w)'
  <2>0. bloom_bits[bank][w].gen \in Nat /\ gen \in Nat /\ TagOfWord(bank, w)
    BY TagParts DEF TypeOK
  <2>1. gen' \in Nat /\ gen' >= gen
    <3>1. \A c \in CPUs : Step(c) => gen' = gen \/ AddGen(c)
      BY DEF Step, path_egress, LoadStart, CasStart, LoadGen, TestTag, TestBits,
             LoadTag, CasTag, Clear, OrBit, shared
    <3>2. gen' = gen \/ gen' = gen + 1
      BY <3>1, AddGenEffect DEF Next, vars, shared, bpf_ktime_get_ns
    <3> QED  BY <2>0, <3>2
  <2>2. CASE bloom_bits'[bank][w] = bloom_bits[bank][w]
    BY <2>0, <2>1, <2>2 DEF TagOfWord
  <2>3. ASSUME NEW c \in CPUs, CasTag(c), Works(c, bank, w),
               bloom_bits'[bank][w].gen = cpu[c].gen
        PROVE  TagOfWord(bank, w)'
    <3>1. cpu[c].gen <= gen  BY <2>3, ActiveGen, Times DEF CasTag, SetPhase
    <3> QED  BY <2>0, <2>1, <2>3, <3>1, Times DEF TagOfWord, Works, Bank
  <2>4. ASSUME NEW c \in CPUs, Clear(c), bloom_bits'[bank][w].gen = bloom_bits[bank][w].gen,
               bloom_bits'[bank][w].bits = {}
        PROVE  TagOfWord(bank, w)'
    BY <2>0, <2>1, <2>4 DEF TagOfWord, Bank
  <2>5. ASSUME NEW c \in CPUs, OrBit(c), Works(c, bank, w),
               bloom_bits'[bank][w].gen = bloom_bits[bank][w].gen
        PROVE  TagOfWord(bank, w)'
    <3>1. bloom_bits[bank][w].gen = cpu[c].gen
      BY <2>5, TagParts DEF TagOfCPU, OrBit, Works, Word
    <3> QED  BY <2>0, <2>1, <2>5, <3>1 DEF TagOfWord, Works, Bank
  <2> QED  BY <2>2, <2>3, <2>4, <2>5, WordStep
\* A CPU that keeps its bit, generation and phase finds the tag it relies on.
<1>2. ASSUME NEW d \in CPUs, cpu'[d] = cpu[d] PROVE TagOfCPU(d)'
  <2>1. CASE cpu[d].pc \notin {"cas", "clear", "or"}  BY <1>2, <2>1 DEF TagOfCPU
  <2>2. CASE cpu[d].pc \in {"cas", "clear", "or"}
    <3> DEFINE bank == Bank(cpu[d].gen)
               w == WordOf(Bit(d))
    <3>1. bank \in {0, 1} /\ w \in Words /\ cpu[d].pc \in SetPhase
      BY <2>2, BitInBits, BankParity, Times DEF SetPhase
    <3>2. TagOfCPU(d)  BY TagParts
    <3>3. \/ bloom_bits'[bank][w].gen = bloom_bits[bank][w].gen
          \/ bloom_bits'[bank][w].gen = cpu[d].gen
      <4>1. ASSUME NEW c \in CPUs, CasTag(c), Works(c, bank, w) PROVE cpu[c].gen = cpu[d].gen
        BY <3>1, <4>1, WritersAgree DEF Works, CasTag, SetPhase
      <4> QED  BY <3>1, <4>1, WordStep
    <3>4. Bit(d)' = Bit(d)  BY <1>2 DEF Bit
    <3> QED  BY <1>2, <2>2, <3>2, <3>3, <3>4 DEF TagOfCPU, Word
  <2> QED  BY <2>1, <2>2
<1>3. CASE UNCHANGED vars \/ bpf_ktime_get_ns
  <2>1. cpu' = cpu  BY <1>3 DEF vars, bpf_ktime_get_ns
  <2>2. \A d \in CPUs : TagOfCPU(d)'  BY <1>2, <2>1
  <2> QED  BY <1>1, <2>2 DEF TagInv, TagOfWord, TagOfCPU
<1>4. ASSUME NEW c \in CPUs, Step(c) PROVE TagOfCPU(c)'
  <2>1. CASE cpu'[c].pc \notin {"cas", "clear", "or"}  BY <2>1 DEF TagOfCPU
  <2>2. CASE LoadTag(c)
    <3>1. bloom_bits' = bloom_bits  BY <2>2 DEF LoadTag, shared
    <3>2. Bit(c)' = Bit(c) /\ cpu'[c].gen = cpu[c].gen
      BY <2>2, LoadTagEffect DEF KeptBit, Kept, Bit
    <3> DEFINE tag == Word(Bit(c), cpu[c].gen).gen
    <3>3. cpu'[c].old = tag /\ cpu'[c].pc = (IF tag # cpu[c].gen THEN "cas" ELSE "or")
      BY <2>2, LoadTagEffect
    <3>4. (Word(Bit(c), cpu[c].gen).gen)' = tag  BY <3>1, <3>2 DEF Word
    <3> QED  BY <3>2, <3>3, <3>4 DEF TagOfCPU
  <2>3. CASE CasTag(c)
    <3> DEFINE g == cpu[c].gen
               found == Word(Bit(c), g).gen
    <3>1. TagOfCPU(c) /\ cpu[c].pc = "cas"  BY <2>3, TagParts DEF CasTag
    <3>2. cpu[c].old # g /\ found \in {cpu[c].old, g}  BY <3>1 DEF TagOfCPU
    <3>3. Bit(c)' = Bit(c) /\ cpu'[c].gen = g  BY <2>3, CasTagEffect DEF KeptBit, Kept, Bit
    <3>4. Bank(g) \in {0, 1} /\ WordOf(Bit(c)) \in Words
      BY <3>1, BitInBits, BankParity, Times DEF SetPhase
    <3>5. bloom_bits'[Bank(g)][WordOf(Bit(c))].gen = g
      <4>1. CASE found = cpu[c].old
        <5>1. bloom_bits' = [bloom_bits EXCEPT ![Bank(g)][WordOf(Bit(c))].gen = g]
          BY <2>3, <4>1 DEF CasTag
        <5> QED  BY <3>4, <5>1 DEF TypeOK
      <4>2. CASE found # cpu[c].old
        <5>1. bloom_bits' = bloom_bits  BY <2>3, <4>2 DEF CasTag
        <5> QED  BY <3>2, <4>2, <5>1 DEF Word
      <4> QED  BY <4>1, <4>2
    <3>6. cpu'[c].pc \in {"clear", "or"}  BY <2>3, CasTagEffect DEF AfterCas
    <3> QED  BY <3>3, <3>5, <3>6 DEF TagOfCPU, Word
  <2>4. CASE Clear(c)
    <3> DEFINE g == cpu[c].gen
    <3>1. TagOfCPU(c) /\ cpu[c].pc = "clear"  BY <2>4, TagParts DEF Clear
    <3>2. Bit(c)' = Bit(c) /\ cpu'[c].gen = g /\ cpu'[c].pc = "or"
      BY <2>4, ClearEffect DEF KeptBit, Kept, Bit
    <3>3. Bank(g) \in {0, 1} /\ WordOf(Bit(c)) \in Words
      BY <3>1, BitInBits, BankParity, Times DEF SetPhase
    <3>4. bloom_bits' = [bloom_bits EXCEPT ![Bank(g)][WordOf(Bit(c))].bits = {}]
      BY <2>4 DEF Clear
    <3>5. bloom_bits'[Bank(g)][WordOf(Bit(c))].gen = g
      BY <3>1, <3>3, <3>4 DEF TypeOK, TagOfCPU, Word
    <3> QED  BY <3>2, <3>5 DEF TagOfCPU, Word
  <2>5. cpu'[c].pc \in {"cas", "clear", "or"} => LoadTag(c) \/ CasTag(c) \/ Clear(c)
    <3> USE DEF Idle
    <3>1. ASSUME NEW k \in Keys \union {NoKey}, path_egress(c, k) PROVE cpu'[c].pc = "start"
      BY <3>1, ArriveEffect
    <3>2. LoadStart(c) => cpu'[c].pc \notin {"cas", "clear", "or"}
      BY LoadStartEffect DEF PastRoll
    <3>3. CasStart(c) => cpu'[c].pc \notin {"cas", "clear", "or"}
      BY CasStartEffect DEF PastRoll
    <3>4. AddGen(c) => cpu'[c].pc \notin {"cas", "clear", "or"}
      BY AddGenEffect DEF PastRoll
    <3>5. LoadGen(c) => cpu'[c].pc = "testTag"  BY LoadGenEffect
    <3>6. TestTag(c) => cpu'[c].pc \notin {"cas", "clear", "or"}
      BY TestTagEffect, AfterTestType, Times
    <3>7. TestBits(c) => cpu'[c].pc \notin {"cas", "clear", "or"}
      <4>1. (Bit(c) \in Word(Bit(c), cpu[c].asked).bits) \in BOOLEAN  OBVIOUS
      <4> QED  BY <4>1, TestBitsEffect, AfterTestType, Times
    <3>8. OrBit(c) => cpu'[c].pc \notin {"cas", "clear", "or"}  BY OrBitEffect
    <3> QED  BY <1>4, <3>1, <3>2, <3>3, <3>4, <3>5, <3>6, <3>7, <3>8 DEF Step
  <2> QED  BY <2>1, <2>2, <2>3, <2>4, <2>5
<1>5. ASSUME NEW c \in CPUs, Step(c) PROVE TagInv'
  <2>1. \A d \in CPUs : d # c => cpu'[d] = cpu[d]  BY <1>5, OthersStand
  <2>2. \A d \in CPUs : TagOfCPU(d)'  BY <1>2, <1>4, <1>5, <2>1
  <2> QED  BY <1>1, <2>2 DEF TagInv, TagOfWord, TagOfCPU
<1> QED  BY <1>3, <1>5 DEF Next

-----------------------------------------------------------------------------
(* The bits under the tags *)

\* The two writes of bits, on the word that the CPU works on.
LEMMA ClearWord ==
  ASSUME TypeOK, NEW c \in CPUs, Clear(c)
  PROVE  bloom_bits'[Bank(cpu[c].gen)][WordOf(Bit(c))].bits = {}
<1>1. Bank(cpu[c].gen) \in {0, 1} /\ WordOf(Bit(c)) \in Words
  BY BitInBits, BankParity, Times DEF Clear, SetPhase
<1>2. bloom_bits' = [bloom_bits EXCEPT ![Bank(cpu[c].gen)][WordOf(Bit(c))].bits = {}]
  BY DEF Clear
<1> QED  BY <1>1, <1>2 DEF TypeOK

LEMMA OrWord ==
  ASSUME TypeOK, NEW c \in CPUs, OrBit(c)
  PROVE  /\ Bit(c) \in bloom_bits'[Bank(cpu[c].gen)][WordOf(Bit(c))].bits
         /\ bloom_bits'[Bank(cpu[c].gen)][WordOf(Bit(c))].gen =
              bloom_bits[Bank(cpu[c].gen)][WordOf(Bit(c))].gen
<1>1. Bank(cpu[c].gen) \in {0, 1} /\ WordOf(Bit(c)) \in Words
  BY BitInBits, BankParity, Times DEF OrBit, SetPhase
<1>2. bloom_bits' = [bloom_bits EXCEPT ![Bank(cpu[c].gen)][WordOf(Bit(c))].bits =
                       bloom_bits[Bank(cpu[c].gen)][WordOf(Bit(c))].bits \union {Bit(c)}]
  BY DEF OrBit
<1> QED  BY <1>1, <1>2 DEF TypeOK

\* Only an OR makes a bit fresh, only a clear makes one wiped.
LEMMA HistoryStep ==
  ASSUME TypeOK, [Next]_vars
  PROVE  /\ \/ fresh' = fresh
            \/ \E c \in CPUs : OrBit(c) /\ fresh' = fresh \union {<<cpu[c].gen, Bit(c)>>}
         /\ wiped \subseteq wiped'
<1>1. CASE UNCHANGED vars \/ bpf_ktime_get_ns
  BY <1>1 DEF vars, history, bpf_ktime_get_ns
<1>2. ASSUME NEW c \in CPUs, Step(c), ~Clear(c), ~OrBit(c)
      PROVE  fresh' = fresh /\ wiped' = wiped
  BY <1>2 DEF Step, path_egress, LoadStart, CasStart, AddGen, LoadGen, TestTag, TestBits,
              LoadTag, CasTag, history
<1>3. ASSUME NEW c \in CPUs, Clear(c) PROVE fresh' = fresh /\ wiped \subseteq wiped'
  BY <1>3 DEF Clear
<1>4. ASSUME NEW c \in CPUs, OrBit(c)
      PROVE  fresh' = fresh \union {<<cpu[c].gen, Bit(c)>>} /\ wiped' = wiped
  BY <1>4 DEF OrBit
<1> QED  BY <1>1, <1>2, <1>3, <1>4 DEF Next

\* A CPU that is about to clear a word does so in its next step.
LEMMA ClearNext ==
  ASSUME TypeOK, [Next]_vars, NEW d \in CPUs, cpu[d].pc = "clear"
  PROVE  cpu'[d] = cpu[d] \/ Clear(d)
<1>1. CASE UNCHANGED vars \/ bpf_ktime_get_ns  BY <1>1 DEF vars, bpf_ktime_get_ns
<1>2. ASSUME NEW c \in CPUs, Step(c) PROVE cpu'[d] = cpu[d] \/ Clear(d)
  <2>1. d # c => cpu'[d] = cpu[d]  BY <1>2, OthersStand
  <2>2. d = c => Clear(d)
    BY <1>2 DEF Step, path_egress, LoadStart, CasStart, AddGen, LoadGen, TestTag, TestBits,
                LoadTag, CasTag, OrBit
  <2> QED  BY <2>1, <2>2
<1> QED  BY <1>1, <1>2 DEF Next

\* What BitsInv says of one bit of a bank, and of one bit that was set.
Clearing(b, g) ==
  \E d \in CPUs : cpu[d].pc = "clear" /\ cpu[d].gen = g /\ WordOf(Bit(d)) = WordOf(b)

BitExplained(bank, b) ==
  b \in bloom_bits[bank][WordOf(b)].bits =>
    \/ <<bloom_bits[bank][WordOf(b)].gen, b>> \in fresh
    \/ Clearing(b, bloom_bits[bank][WordOf(b)].gen)

FreshKept(g, b) ==
  <<g, b>> \in fresh =>
    /\ Word(b, g).gen >= g
    /\ Word(b, g).gen = g /\ <<g, b>> \notin wiped => b \in Word(b, g).bits

LEMMA BitsInit == Init => BitsInv
BY DEF Init, BitsInv, Words

LEMMA BitsStep ==
  TypeOK /\ TypeOK' /\ EpochInv /\ TagInv /\ BitsInv /\ [Next]_vars => BitsInv'
<1> SUFFICES ASSUME TypeOK, TypeOK', EpochInv, TagInv, BitsInv, [Next]_vars PROVE BitsInv'
  OBVIOUS
<1>0. /\ \A bank \in {0, 1} : \A b \in Bits : BitExplained(bank, b)
      /\ \A g \in Nat : \A b \in Bits : FreshKept(g, b)
  BY DEF BitsInv, BitExplained, Clearing, FreshKept
<1>1. fresh \subseteq fresh' /\ wiped \subseteq wiped'  BY HistoryStep
<1>2. ASSUME NEW bank \in {0, 1}, NEW b \in Bits PROVE BitExplained(bank, b)'
  <2> DEFINE word == bloom_bits[bank][WordOf(b)]
             next == bloom_bits'[bank][WordOf(b)]
  <2>0. WordOf(b) \in Words  BY WordsOfBits
  <2> SUFFICES ASSUME b \in next.bits
               PROVE  <<next.gen, b>> \in fresh' \/ Clearing(b, bloom_bits[bank][WordOf(b)].gen)'
    BY DEF BitExplained
  <2>1. ASSUME b \in word.bits, next.gen = word.gen
        PROVE  <<next.gen, b>> \in fresh' \/ Clearing(b, bloom_bits[bank][WordOf(b)].gen)'
    <3>1. CASE <<word.gen, b>> \in fresh  BY <1>1, <2>1, <3>1
    <3>2. CASE Clearing(b, word.gen)
      <4>1. PICK d \in CPUs : /\ cpu[d].pc = "clear" /\ cpu[d].gen = word.gen
                              /\ WordOf(Bit(d)) = WordOf(b)
        BY <3>2 DEF Clearing
      <4>2. Bank(word.gen) = bank  BY <2>0, <2>1 DEF TagInv
      <4>3. ~Clear(d)  BY <4>1, <4>2, ClearWord
      <4>4. cpu'[d] = cpu[d]  BY <4>1, <4>3, ClearNext
      <4>5. Bit(d)' = Bit(d)  BY <4>4 DEF Bit
      <4> QED  BY <2>1, <4>1, <4>4, <4>5 DEF Clearing
    <3> QED  BY <1>0, <2>1, <3>1, <3>2 DEF BitExplained
  <2>2. ASSUME NEW c \in CPUs, CasTag(c), Works(c, bank, WordOf(b)),
               word.gen = cpu[c].old, next.gen = cpu[c].gen
        PROVE  Clearing(b, bloom_bits[bank][WordOf(b)].gen)'
    <3>1. cpu[c].old # cpu[c].gen  BY <2>2, TagParts DEF TagOfCPU, CasTag
    <3>2. Word(Bit(c), cpu[c].gen).gen = cpu[c].old  BY <2>2 DEF Works, Word
    <3>3. cpu'[c].pc = "clear" /\ cpu'[c].gen = cpu[c].gen /\ Bit(c)' = Bit(c)
      BY <2>2, <3>1, <3>2, CasTagEffect DEF AfterCas, KeptBit, Kept, Bit
    <3> QED  BY <2>2, <3>3 DEF Clearing, Works
  <2>3. ASSUME NEW c \in CPUs, OrBit(c), Works(c, bank, WordOf(b)), b = Bit(c),
               next.gen = word.gen
        PROVE  <<next.gen, b>> \in fresh'
    <3>1. word.gen = cpu[c].gen  BY <2>3, TagParts DEF TagOfCPU, OrBit, Works, Word
    <3>2. fresh' = fresh \union {<<cpu[c].gen, Bit(c)>>}  BY <2>3 DEF OrBit
    <3> QED  BY <2>3, <3>1, <3>2
  <2>4. \/ next = word
        \/ \E c \in CPUs : /\ CasTag(c) /\ Works(c, bank, WordOf(b)) /\ word.gen = cpu[c].old
                           /\ next.gen = cpu[c].gen /\ next.bits = word.bits
        \/ next.bits = {}
        \/ \E c \in CPUs : /\ OrBit(c) /\ Works(c, bank, WordOf(b))
                           /\ next.gen = word.gen /\ next.bits = word.bits \union {Bit(c)}
    BY <2>0, WordStep
  <2> QED  BY <2>1, <2>2, <2>3, <2>4
<1>3. ASSUME NEW g \in Nat, NEW b \in Bits PROVE FreshKept(g, b)'
  <2> DEFINE bank == Bank(g)
             word == bloom_bits[bank][WordOf(b)]
             next == bloom_bits'[bank][WordOf(b)]
  <2>0. WordOf(b) \in Words /\ bank \in {0, 1}  BY WordsOfBits, BankParity
  <2>1. word.gen \in Nat /\ next.gen \in Nat /\ next.gen >= word.gen
    BY <2>0, TagsMoveOn DEF TypeOK
  <2>2. CASE <<g, b>> \in fresh
    <3>1. word.gen >= g /\ (word.gen = g /\ <<g, b>> \notin wiped => b \in word.bits)
      BY <1>0, <2>2 DEF FreshKept, Word
    <3>2. next.gen >= g  BY <2>1, <3>1
    <3>3. ASSUME next.gen = g, <<g, b>> \notin wiped' PROVE b \in next.bits
      <4>1. word.gen = g  BY <2>1, <3>1, <3>3
      <4>2. b \in word.bits  BY <1>1, <3>1, <3>3, <4>1
      <4>3. ASSUME NEW c \in CPUs, CasTag(c), word.gen = cpu[c].old, next.gen = cpu[c].gen
            PROVE  FALSE
        BY <3>3, <4>1, <4>3, TagParts DEF TagOfCPU, CasTag
      <4>4. ASSUME NEW c \in CPUs, Clear(c), Works(c, bank, WordOf(b)) PROVE FALSE
        <5>1. cpu[c].gen = g /\ Word(Bit(c), cpu[c].gen) = word
          BY <4>1, <4>4, TagParts DEF TagOfCPU, Clear, Works, Word
        <5>2. wiped' = wiped \union (fresh \intersect ({g} \X word.bits))
          BY <4>4, <5>1 DEF Clear
        <5> QED  BY <2>2, <3>3, <4>2, <5>2
      <4>5. next = word \/ \E c \in CPUs : next.bits = word.bits \union {Bit(c)}
        BY <2>0, <4>3, <4>4, WordStep
      <4> QED  BY <4>2, <4>5
    <3> QED  BY <3>2, <3>3 DEF FreshKept, Word
  <2>3. CASE <<g, b>> \notin fresh /\ <<g, b>> \in fresh'
    <3>1. PICK c \in CPUs : OrBit(c) /\ fresh' = fresh \union {<<cpu[c].gen, Bit(c)>>}
      BY <2>3, HistoryStep
    <3>2. g = cpu[c].gen /\ b = Bit(c)  BY <2>3, <3>1
    <3>3. word.gen = g  BY <3>1, <3>2, TagParts DEF TagOfCPU, OrBit, Word
    <3>4. next.gen = g /\ b \in next.bits  BY <3>1, <3>2, <3>3, OrWord
    <3> QED  BY <3>4 DEF FreshKept, Word
  <2> QED  BY <2>2, <2>3 DEF FreshKept
<1> QED  BY <1>2, <1>3 DEF BitsInv, BitExplained, Clearing, FreshKept

-----------------------------------------------------------------------------
(* What a lookup finds *)

\* LookupInv of one packet with registers r, when F are the bits that were set
\* and W those that were wiped.
Due(r) == r.prior # NoInsertion /\ r.now - r.prior.at <= BLOOM_EPOCH_NS - 2 * MaxRun

Lost(r, h, W) == <<r.prior.gen, bloom_bit_index[r.key][h]>> \in W

PriorSet(r, F) ==
  r.prior # NoInsertion =>
    /\ r.key \in Keys
    /\ \A h \in Hashes : <<r.prior.gen, bloom_bit_index[r.key][h]>> \in F

Tested(r, W) ==
  r.pc \in TestPhase =>
    /\ r.prior.gen <= r.gen
    /\ r.asked \in {r.gen, r.gen - 1}
    /\ Due(r) => /\ \A h \in 0..r.hash - 1 : h \in r.seen \/ Lost(r, h, W)
                 /\ r.asked # r.gen /\ r.prior.gen = r.gen => Lost(r, r.hash, W)

Setting(r, F, W) ==
  r.pc \in SetPhase =>
    /\ \A h \in 0..r.hash - 1 : <<r.gen, bloom_bit_index[r.key][h]>> \in F
    /\ Due(r) => \A h \in Hashes : h \in r.seen \/ Lost(r, h, W)

LookupOf(r, F, W) ==
  /\ PriorSet(r, F)
  /\ r.pc \notin TestPhase \union SetPhase => r.hash = 0
  /\ Tested(r, W)
  /\ Setting(r, F, W)

InsertedSet(k) ==
  inserted[k] # NoInsertion =>
    \A h \in Hashes : <<inserted[k].gen, bloom_bit_index[k][h]>> \in fresh

LEMMA LookupParts ==
  LookupInv <=> /\ \A k \in Keys : InsertedSet(k)
                /\ \A c \in CPUs : LookupOf(cpu[c], fresh, wiped)
BY DEF LookupInv, InsertedSet, LookupOf, PriorSet, Tested, Setting, Due, Lost, Expected, BitWiped

LEMMA LookupPartsNext ==
  ASSUME \A k \in Keys : InsertedSet(k)', \A c \in CPUs : LookupOf(cpu'[c], fresh', wiped')
  PROVE  LookupInv'
BY DEF LookupInv, InsertedSet, LookupOf, PriorSet, Tested, Setting, Due, Lost, Expected, BitWiped

\* More bits set and more bits wiped do no harm.
LEMMA LookupGrows ==
  ASSUME NEW r, NEW F, NEW W, NEW F2, NEW W2, F \subseteq F2, W \subseteq W2,
         LookupOf(r, F, W)
  PROVE  LookupOf(r, F2, W2)
<1>1. PriorSet(r, F2)  BY DEF LookupOf, PriorSet
<1>2. Tested(r, W2)  BY DEF LookupOf, Tested, Lost
<1>3. Setting(r, F2, W2)  BY DEF LookupOf, Setting, Lost
<1> QED  BY <1>1, <1>2, <1>3 DEF LookupOf

\* Before and after the lookup only the packet's prior insertion counts.
LEMMA LookupOutside ==
  ASSUME NEW r, NEW F, NEW W, r.pc \in {"idle", "start", "roll", "rolled", "gen"},
         r.hash = 0, PriorSet(r, F)
  PROVE  LookupOf(r, F, W)
BY DEF LookupOf, Tested, Setting, TestPhase, SetPhase

LEMMA LookupIdle ==
  ASSUME NEW F, NEW W
  PROVE  LookupOf(Idle, F, W)
<1>1. Idle.pc = "idle" /\ Idle.hash = 0 /\ Idle.prior = NoInsertion  BY DEF Idle
<1> QED  BY <1>1, LookupOutside DEF PriorSet

LEMMA LookupInit == Init => LookupInv
<1> SUFFICES ASSUME Init PROVE LookupInv  OBVIOUS
<1>1. \A c \in CPUs : LookupOf(cpu[c], fresh, wiped)  BY LookupIdle DEF Init
<1>2. \A k \in Keys : InsertedSet(k)  BY DEF Init, InsertedSet
<1> QED  BY <1>1, <1>2, LookupParts

\* A packet whose key is due meets its bit, under the tag of the generation it
\* was set in, unless the bit was wiped; and it asks for that generation.
LEMMA FoundOrLost ==
  ASSUME TypeOK, EpochInv, TagInv, BitsInv, LookupInv,
         NEW c \in CPUs, cpu[c].pc \in TestPhase, Due(cpu[c])
  PROVE  LET p == cpu[c].prior
         IN  /\ p.gen \in {cpu[c].gen, cpu[c].gen - 1}
             /\ Word(Bit(c), p.gen).gen = p.gen
             /\ Bit(c) \in Word(Bit(c), p.gen).bits \/ Lost(cpu[c], cpu[c].hash, wiped)
<1> DEFINE p == cpu[c].prior
           b == Bit(c)
           word == Word(b, p.gen)
<1>0. b \in Bits /\ WordOf(b) \in Words /\ Bank(p.gen) \in {0, 1} /\ p.gen \in Nat
  BY BitInBits, BankParity, Times
<1>1. p # NoInsertion /\ cpu[c].now - p.at <= BLOOM_EPOCH_NS - 2 * MaxRun  BY DEF Due
<1>2. LookupOf(cpu[c], fresh, wiped)  BY LookupParts
<1>3. <<p.gen, b>> \in fresh /\ p.gen <= cpu[c].gen
  <2>1. cpu[c].hash \in Hashes  BY DEF TypeOK, Register
  <2>2. <<p.gen, b>> \in fresh  BY <1>1, <1>2, <2>1 DEF LookupOf, PriorSet, Bit
  <2> QED  BY <1>2, <2>2 DEF LookupOf, Tested
<1>4. cpu[c].gen \in {gen - 1, gen}  BY ActiveGen
<1>5. p.gen >= gen - 1
  <2>1. Dated(p.at, p.gen)  BY <1>1 DEF EpochInv
  <2>2. now - cpu[c].now <= MaxRun  BY DEF EpochInv, TestPhase
  <2>3. p.gen < gen - 1 => start_ns > p.at + BLOOM_EPOCH_NS - MaxRun  BY <2>1 DEF Dated
  <2> QED  BY <1>1, <2>2, <2>3, Times
<1>6. p.gen \in {cpu[c].gen, cpu[c].gen - 1}  BY <1>0, <1>3, <1>4, <1>5, Times
<1>7. /\ word.gen >= p.gen
      /\ word.gen = p.gen /\ <<p.gen, b>> \notin wiped => b \in word.bits
  BY <1>0, <1>3 DEF BitsInv
<1>8. word.gen \in Nat /\ word.gen <= gen /\ (Bank(word.gen) = Bank(p.gen) \/ word.gen = 0)
  BY <1>0 DEF TypeOK, TagInv, Word
<1>9. word.gen = p.gen
  <2>1. word.gen \in {p.gen, p.gen + 1}  BY <1>0, <1>5, <1>7, <1>8, Times
  <2>2. Bank(word.gen) = Bank(p.gen) => word.gen = p.gen  BY <1>0, <1>8, <2>1, SameBank
  <2> QED  BY <1>0, <1>7, <1>8, <2>2
<1>10. Lost(cpu[c], cpu[c].hash, wiped) <=> <<p.gen, b>> \in wiped  BY DEF Lost, Bit
<1> QED  BY <1>6, <1>7, <1>9, <1>10

\* One more test: a bit that is due and was not found has been asked for in
\* the generation where it was set, and was wiped.
LEMMA LookupTest ==
  ASSUME NEW r \in Register, NEW F, NEW W, NEW hit \in BOOLEAN,
         LookupOf(r, F, W), r.pc \in TestPhase,
         Due(r) => r.prior.gen \in {r.gen, r.gen - 1},
         Due(r) /\ ~hit /\ r.asked = r.prior.gen => Lost(r, r.hash, W)
  PROVE  LookupOf(AfterTest(r, hit), F, W)
<1> DEFINE a == AfterTest(r, hit)
<1>1. /\ a \in Register /\ a.pc \in {"testTag", "setTag"}
      /\ a.key = r.key /\ a.prior = r.prior /\ a.now = r.now /\ a.gen = r.gen
      /\ a.seen = IF hit THEN r.seen \union {r.hash} ELSE r.seen
  BY AfterTestType
<1>2. a.pc = "testTag" =>
        \/ ~hit /\ r.asked = r.gen /\ a.asked = r.gen - 1 /\ a.hash = r.hash
        \/ (hit \/ r.asked # r.gen) /\ a.asked = r.gen /\ a.hash = r.hash + 1
  BY AfterTestType
<1>3. a.pc = "setTag" => (hit \/ r.asked # r.gen) /\ r.hash = BLOOM_HASHES - 1 /\ a.hash = 0
  BY AfterTestType
<1> HIDE DEF a
<1>4. r.hash \in Nat /\ r.gen \in Nat
  BY SMPAssumption DEF Register, Hashes
<1>5. /\ PriorSet(r, F) /\ r.prior.gen <= r.gen /\ r.asked \in {r.gen, r.gen - 1}
      /\ Due(r) => /\ \A h \in 0..r.hash - 1 : h \in r.seen \/ Lost(r, h, W)
                   /\ r.asked # r.gen /\ r.prior.gen = r.gen => Lost(r, r.hash, W)
  BY DEF LookupOf, Tested
<1>6. PriorSet(a, F) /\ (Due(a) <=> Due(r))  BY <1>1, <1>5 DEF PriorSet, Due
<1>7. \A h : Lost(a, h, W) <=> Lost(r, h, W)  BY <1>1 DEF Lost
<1>8. \A h \in 0..r.hash - 1 : Due(r) => h \in a.seen \/ Lost(a, h, W)
  BY <1>1, <1>5, <1>7
<1>9. (hit \/ r.asked # r.gen) /\ Due(r) => r.hash \in a.seen \/ Lost(a, r.hash, W)
  <2>1. CASE hit  BY <1>1, <2>1
  <2>2. CASE ~hit  BY <1>4, <1>5, <1>7, <2>2
  <2> QED  BY <2>1, <2>2
<1>10. Tested(a, W)
  <2> SUFFICES ASSUME a.pc = "testTag" PROVE Tested(a, W)
    BY <1>1 DEF Tested, TestPhase
  <2>1. CASE ~hit /\ r.asked = r.gen /\ a.asked = r.gen - 1 /\ a.hash = r.hash
    <3>1. Due(r) /\ r.prior.gen = r.gen => Lost(a, a.hash, W)  BY <1>7, <2>1
    <3> QED  BY <1>1, <1>5, <1>6, <1>8, <2>1, <3>1 DEF Tested
  <2>2. CASE (hit \/ r.asked # r.gen) /\ a.asked = r.gen /\ a.hash = r.hash + 1
    <3>1. \A h \in 0..a.hash - 1 : h \in 0..r.hash - 1 \/ h = r.hash  BY <1>4, <2>2
    <3> QED  BY <1>1, <1>5, <1>6, <1>8, <1>9, <2>2, <3>1 DEF Tested
  <2> QED  BY <1>2, <2>1, <2>2
<1>11. Setting(a, F, W)
  <2> SUFFICES ASSUME a.pc = "setTag" PROVE Setting(a, F, W)
    BY <1>1 DEF Setting, SetPhase
  <2>1. \A h \in Hashes : h \in 0..r.hash - 1 \/ h = r.hash
    BY <1>3, <1>4, SMPAssumption DEF Hashes
  <2>2. a.hash = 0 /\ 0..a.hash - 1 = {}  BY <1>3
  <2> QED  BY <1>3, <1>6, <1>8, <1>9, <2>1, <2>2 DEF Setting
<1> QED  BY <1>1, <1>6, <1>10, <1>11 DEF LookupOf, TestPhase, SetPhase, a

LEMMA LookupStep ==
  TypeOK /\ EpochInv /\ TagInv /\ BitsInv /\ LookupInv /\ [Next]_vars => LookupInv'
<1> SUFFICES ASSUME TypeOK, EpochInv, TagInv, BitsInv, LookupInv, [Next]_vars PROVE LookupInv'
  OBVIOUS
<1>1. fresh \subseteq fresh' /\ wiped \subseteq wiped'  BY HistoryStep
<1>2. \A c \in CPUs : LookupOf(cpu[c], fresh, wiped)  BY LookupParts
<1>3. \A c \in CPUs : LookupOf(cpu[c], fresh', wiped')  BY <1>1, <1>2, LookupGrows
<1>4. ASSUME NEW k \in Keys PROVE InsertedSet(k)'
  <2>1. InsertedSet(k)  BY LookupParts
  <2>2. CASE inserted'[k] = inserted[k]  BY <1>1, <2>1, <2>2 DEF InsertedSet
  <2>3. ASSUME NEW c \in CPUs, OrBit(c), cpu[c].hash = BLOOM_HASHES - 1, cpu[c].key = k,
               inserted'[k] = [at |-> cpu[c].now, gen |-> cpu[c].gen]
        PROVE  InsertedSet(k)'
    <3>1. \A h \in 0..cpu[c].hash - 1 : <<cpu[c].gen, bloom_bit_index[k][h]>> \in fresh
      BY <1>2, <2>3 DEF LookupOf, Setting, OrBit, SetPhase
    <3>2. fresh' = fresh \union {<<cpu[c].gen, bloom_bit_index[k][cpu[c].hash]>>}
      BY <2>3 DEF OrBit, Bit
    <3>3. \A h \in Hashes : h \in 0..cpu[c].hash - 1 \/ h = cpu[c].hash
      BY <2>3, SMPAssumption DEF Hashes
    <3>4. inserted'[k].gen = cpu[c].gen  BY <2>3
    <3> QED  BY <3>1, <3>2, <3>3, <3>4 DEF InsertedSet
  <2> QED  BY <2>2, <2>3, InsertedStep
<1>5. CASE UNCHANGED vars \/ bpf_ktime_get_ns
  <2>1. cpu' = cpu  BY <1>5 DEF vars, bpf_ktime_get_ns
  <2> QED  BY <1>3, <1>4, <2>1, LookupPartsNext
<1>6. ASSUME NEW c \in CPUs, Step(c) PROVE LookupOf(cpu'[c], fresh', wiped')
  <2> DEFINE r == cpu[c]
             q == cpu'[c]
  <2>0. r \in Register /\ LookupOf(r, fresh', wiped')  BY <1>3, Times
  <2>a. r.pc \notin TestPhase \union SetPhase => r.hash = 0  BY <2>0 DEF LookupOf
  <2>1. ASSUME PastRoll(r, q), r.hash = 0 PROVE LookupOf(q, fresh', wiped')
    <3>1. CASE q = Idle  BY <3>1, LookupIdle
    <3>2. CASE q.pc = "gen" /\ Kept(r, q) /\ q.hash = r.hash
      <4>1. PriorSet(q, fresh')  BY <2>0, <3>2 DEF LookupOf, PriorSet, Kept
      <4> QED  BY <2>1, <3>2, <4>1, LookupOutside
    <3> QED  BY <2>1, <3>1, <3>2 DEF PastRoll
  <2>2. ASSUME Kept(r, q), q.hash = r.hash, r.hash = 0, q.pc \in {"roll", "rolled"}
        PROVE  LookupOf(q, fresh', wiped')
    <3>1. PriorSet(q, fresh')  BY <2>0, <2>2 DEF LookupOf, PriorSet, Kept
    <3> QED  BY <2>2, <3>1, LookupOutside
  <2>3. ASSUME KeptBit(r, q), r.pc \in SetPhase, q.pc \in SetPhase
        PROVE  LookupOf(q, fresh', wiped')
    <3>1. PriorSet(q, fresh')  BY <2>0, <2>3 DEF LookupOf, PriorSet, KeptBit, Kept
    <3>2. Setting(q, fresh', wiped')
      BY <2>0, <2>3 DEF LookupOf, Setting, Due, Lost, KeptBit, Kept
    <3> QED  BY <2>3, <3>1, <3>2 DEF LookupOf, Tested, TestPhase, SetPhase
  <2>4. ASSUME NEW hit \in BOOLEAN, q = AfterTest(r, hit), r.pc \in TestPhase,
               Due(r) /\ ~hit /\ r.asked = r.prior.gen => Lost(r, r.hash, wiped)
        PROVE  LookupOf(q, fresh', wiped')
    <3>1. Due(r) => r.prior.gen \in {r.gen, r.gen - 1}  BY <2>4, FoundOrLost
    <3>2. Due(r) /\ ~hit /\ r.asked = r.prior.gen => Lost(r, r.hash, wiped')
      BY <1>1, <2>4 DEF Lost
    <3> HIDE DEF r, q
    <3> QED  BY <2>0, <2>4, <3>1, <3>2, LookupTest
  <2>5. ASSUME NEW k \in Keys \union {NoKey}, path_egress(c, k)
        PROVE  LookupOf(q, fresh', wiped')
    <3>1. /\ q.pc = "start" /\ q.key = k /\ q.hash = 0
          /\ q.prior = NoInsertion \/ (k \in Keys /\ q.prior = inserted[k])
      BY <2>5, ArriveEffect
    <3>2. k \in Keys => InsertedSet(k)  BY LookupParts
    <3>3. PriorSet(q, fresh')  BY <1>1, <3>1, <3>2 DEF PriorSet, InsertedSet
    <3> QED  BY <3>1, <3>3, LookupOutside
  <2>6. CASE LoadStart(c)
    <3>1. r.hash = 0  BY <2>a, <2>6 DEF LoadStart, TestPhase, SetPhase
    <3> QED  BY <2>1, <2>2, <2>6, <3>1, LoadStartEffect
  <2>7. CASE CasStart(c)
    <3>1. r.hash = 0  BY <2>a, <2>7 DEF CasStart, TestPhase, SetPhase
    <3> QED  BY <2>1, <2>2, <2>7, <3>1, CasStartEffect
  <2>8. CASE AddGen(c)
    <3>1. r.hash = 0  BY <2>a, <2>8 DEF AddGen, TestPhase, SetPhase
    <3> QED  BY <2>1, <2>8, <3>1, AddGenEffect
  <2>9. CASE LoadGen(c)
    <3>1. /\ Kept(r, q) /\ q.hash = r.hash /\ q.pc = "testTag" /\ q.gen = gen /\ q.asked = gen
      BY <2>9, LoadGenEffect
    <3>2. r.hash = 0  BY <2>a, <2>9 DEF LoadGen, TestPhase, SetPhase
    <3>3. PriorSet(q, fresh')  BY <2>0, <3>1 DEF LookupOf, PriorSet, Kept
    <3>4. r.prior.gen <= gen
      <4>1. CASE r.prior = NoInsertion  BY <4>1, Times DEF NoInsertion
      <4>2. CASE r.prior # NoInsertion  BY <4>2 DEF EpochInv, Dated
      <4> QED  BY <4>1, <4>2
    <3>5. 0..q.hash - 1 = {}  BY <3>1, <3>2
    <3>6. Tested(q, wiped')  BY <3>1, <3>4, <3>5 DEF Tested, Kept
    <3> QED  BY <3>1, <3>3, <3>6 DEF LookupOf, Setting, TestPhase, SetPhase
  <2>10. CASE TestTag(c)
    <3>0. r.pc \in TestPhase  BY <2>10 DEF TestTag, TestPhase
    <3>1. CASE Word(Bit(c), r.asked).gen = r.asked
      <4>1. KeptBit(r, q) /\ q.asked = r.asked /\ q.pc = "testBits"
        BY <2>10, <3>1, TestTagEffect
      <4>2. PriorSet(q, fresh')  BY <2>0, <4>1 DEF LookupOf, PriorSet, KeptBit, Kept
      <4>3. Tested(q, wiped')
        BY <2>0, <3>0, <4>1 DEF LookupOf, Tested, Due, Lost, KeptBit, Kept
      <4> QED  BY <4>1, <4>2, <4>3 DEF LookupOf, Setting, TestPhase, SetPhase
    <3>2. CASE Word(Bit(c), r.asked).gen # r.asked
      <4>1. q = AfterTest(r, FALSE)  BY <2>10, <3>2, TestTagEffect
      <4>2. Due(r) => r.asked # r.prior.gen  BY <3>0, <3>2, FoundOrLost
      <4> QED  BY <2>4, <3>0, <4>1, <4>2
    <3> QED  BY <3>1, <3>2
  <2>11. CASE TestBits(c)
    <3> DEFINE hit == Bit(c) \in Word(Bit(c), r.asked).bits
    <3>0. r.pc \in TestPhase  BY <2>11 DEF TestBits, TestPhase
    <3>1. hit \in BOOLEAN /\ q = AfterTest(r, hit)  BY <2>11, TestBitsEffect
    <3>2. Due(r) /\ ~hit /\ r.asked = r.prior.gen => Lost(r, r.hash, wiped)
      BY <3>0, FoundOrLost
    <3> HIDE DEF hit
    <3> QED  BY <2>4, <3>0, <3>1, <3>2
  <2>12. CASE LoadTag(c)
    BY <2>3, <2>12, LoadTagEffect DEF LoadTag, SetPhase
  <2>13. CASE CasTag(c)
    BY <2>3, <2>13, CasTagEffect DEF CasTag, SetPhase, AfterCas
  <2>14. CASE Clear(c)
    BY <2>3, <2>14, ClearEffect DEF Clear, SetPhase
  <2>15. CASE OrBit(c)
    <3>1. CASE q = Idle  BY <3>1, LookupIdle
    <3>2. CASE q # Idle
      <4>1. /\ Kept(r, q) /\ q.gen = r.gen /\ q.seen = r.seen
            /\ q.hash = r.hash + 1 /\ q.pc = "setTag"
        BY <2>15, <3>2, OrBitEffect
      <4>2. PriorSet(q, fresh')  BY <2>0, <4>1 DEF LookupOf, PriorSet, Kept
      <4>3. fresh' = fresh \union {<<r.gen, bloom_bit_index[r.key][r.hash]>>}
        BY <2>15 DEF OrBit, Bit
      <4>4. r.pc \in SetPhase  BY <2>15 DEF OrBit, SetPhase
      <4>5. \A h \in 0..q.hash - 1 : h \in 0..r.hash - 1 \/ h = r.hash  BY <4>1, Times
      <4>6. Setting(q, fresh', wiped')
        BY <2>0, <4>1, <4>3, <4>4, <4>5 DEF LookupOf, Setting, Due, Lost, Kept
      <4> QED  BY <4>1, <4>2, <4>6 DEF LookupOf, Tested, TestPhase, SetPhase
    <3> QED  BY <3>1, <3>2
  <2> QED
    BY <1>6, <2>5, <2>6, <2>7, <2>8, <2>9, <2>10, <2>11, <2>12, <2>13, <2>14, <2>15 DEF Step
<1>7. ASSUME NEW c \in CPUs, Step(c) PROVE LookupInv'
  <2>1. \A d \in CPUs : d # c => cpu'[d] = cpu[d]  BY <1>7, OthersStand
  <2>2. \A d \in CPUs : LookupOf(cpu'[d], fresh', wiped')  BY <1>3, <1>6, <1>7, <2>1
  <2> QED  BY <1>4, <2>2, LookupPartsNext
<1> QED  BY <1>5, <1>7 DEF Next

-----------------------------------------------------------------------------
(* The theorems *)

\* Every register and map of the detector keeps its type, and only a packet
\* with a key reaches the lookup, on any number of CPUs.
THEOREM SMPTypeCorrect == Spec => []TypeOK
<1>1. Init => TypeOK  BY InitType
<1>2. TypeOK /\ [Next]_vars => TypeOK'  BY TypeStep
<1> QED  BY <1>1, <1>2, PTL DEF Spec

\* The inductive invariant: rolls are dated by the clock, tags keep to their
\* bank, bits to their tag, and a lookup finds what is due.
THEOREM SMPInvariant == Spec => [](TypeOK /\ SMPInv)
<1>1. Init => TypeOK /\ SMPInv
  BY InitType, EpochInit, TagInit, BitsInit, LookupInit DEF SMPInv
<1>2. TypeOK /\ SMPInv /\ [Next]_vars => (TypeOK /\ SMPInv)'
  BY TypeStep, EpochStep, TagStep, BitsStep, LookupStep DEF SMPInv
<1> QED  BY <1>1, <1>2, PTL DEF Spec

\* Two rolls are always more than BLOOM_EPOCH_NS apart, whichever CPUs race
\* for them in bloom_maybe_roll_epoch, and start_ns never moves back.
THEOREM RollsAreSpaced == Spec => RollSpacing
<1>1. TypeOK /\ SMPInv /\ [Next]_vars =>
        [start_ns' # start_ns => start_ns' - start_ns > BLOOM_EPOCH_NS]_vars
  <2> SUFFICES ASSUME TypeOK, EpochInv, [Next]_vars, start_ns' # start_ns
               PROVE  start_ns' - start_ns > BLOOM_EPOCH_NS
    BY DEF SMPInv
  <2>1. PICK c \in CPUs : CasStart(c)
    BY DEF Next, vars, bpf_ktime_get_ns, Step, path_egress, LoadStart, AddGen, LoadGen,
           TestTag, TestBits, LoadTag, CasTag, Clear, OrBit, shared
  <2> QED  BY <2>1, RollsOneAtATime
<1> QED  BY <1>1, SMPInvariant, PTL DEF Spec, RollSpacing

\* A CPU that still works in an ended generation never retags a word of a
\* later one, in bloom_set_bit_gen's compare-and-swap or by any other step.
THEOREM NoTagRegresses == Spec => TagsNeverRegress
<1>1. TypeOK /\ SMPInv /\ [Next]_vars =>
        [\A bank \in {0, 1} : \A w \in Words :
           bloom_bits'[bank][w].gen >= bloom_bits[bank][w].gen]_vars
  BY TagsMoveOn DEF SMPInv
<1> QED  BY <1>1, SMPInvariant, PTL DEF Spec, TagsNeverRegress

\* A retransmit that arrives in time is missed only if another CPU's
\* w->bits = 0 wiped a bit of its key in the generation it was inserted in.
THEOREM OnlyWipesCauseMisses == Spec => []MissOnlyIfWiped
<1>1. TypeOK /\ SMPInv => MissOnlyIfWiped
  <2> SUFFICES ASSUME TypeOK, SMPInv, NEW c \in CPUs, cpu[c].pc \in SetPhase,
                      Due(cpu[c]), ~AllSeen(c)
               PROVE  \E h \in Hashes :
                        <<cpu[c].prior.gen, bloom_bit_index[cpu[c].key][h]>> \in wiped
    BY DEF MissOnlyIfWiped, Due
  <2>1. \A h \in Hashes : h \in cpu[c].seen \/ Lost(cpu[c], h, wiped)
    BY LookupParts DEF SMPInv, LookupOf, Setting
  <2>2. cpu[c].seen \subseteq Hashes  BY DEF TypeOK, Register
  <2>3. PICK h \in Hashes : h \notin cpu[c].seen  BY <2>2 DEF AllSeen
  <2> QED  BY <2>1, <2>3 DEF Lost
<1> QED  BY <1>1, SMPInvariant, PTL

\* A bit that bloom_test_bit_gen finds was set in the generation asked for,
\* but for the two windows around a retag.
THEOREM OnlyFreshHits == Spec => HitsAreFresh
<1> DEFINE Fresh(c) ==
      (TestBits(c) /\ Bit(c) \in Word(Bit(c), cpu[c].asked).bits) =>
        \/ <<cpu[c].asked, Bit(c)>> \in fresh
        \/ Word(Bit(c), cpu[c].asked).gen # cpu[c].asked
        \/ \E d \in CPUs \ {c} : /\ cpu[d].pc = "clear"
                                 /\ cpu[d].gen = cpu[c].asked
                                 /\ WordOf(Bit(d)) = WordOf(Bit(c))
<1>1. TypeOK /\ SMPInv /\ [Next]_vars => [\A c \in CPUs : Fresh(c)]_vars
  <2> SUFFICES ASSUME TypeOK, SMPInv, NEW c \in CPUs PROVE Fresh(c)
    OBVIOUS
  <2> SUFFICES ASSUME cpu[c].pc = "testBits",
                      Bit(c) \in Word(Bit(c), cpu[c].asked).bits,
                      Word(Bit(c), cpu[c].asked).gen = cpu[c].asked,
                      <<cpu[c].asked, Bit(c)>> \notin fresh
               PROVE  \E d \in CPUs \ {c} : /\ cpu[d].pc = "clear"
                                            /\ cpu[d].gen = cpu[c].asked
                                            /\ WordOf(Bit(d)) = WordOf(Bit(c))
    BY DEF TestBits
  <2>1. Bit(c) \in Bits  BY BitInBits DEF TestPhase
  <2>2. Bank(cpu[c].asked) \in {0, 1}  BY BankParity DEF TypeOK, Register
  <2>3. PICK d \in CPUs : /\ cpu[d].pc = "clear" /\ cpu[d].gen = cpu[c].asked
                          /\ WordOf(Bit(d)) = WordOf(Bit(c))
    BY <2>1, <2>2 DEF SMPInv, BitsInv, Word
  <2> QED  BY <2>3
<1> QED  BY <1>1, SMPInvariant, PTL DEF Spec, HitsAreFresh

-----------------------------------------------------------------------------
(* Packets that do not overlap *)

\* What the end of the epoch check means to RecentBits.
LEMMA AfterRoll ==
  ASSUME TypeOK, SettledInv
  PROVE  /\ Over <=> Abs!EpochOver
         /\ GenAfter \in Nat /\ StartAfter \in Nat
         /\ settled.gen <= GenAfter
         /\ SettledBits(GenAfter) = Abs!CurrentAfterRoll
         /\ SettledBits(GenAfter - 1) = Abs!PreviousAfterRoll
         /\ StartAfter = IF Abs!EpochOver THEN now ELSE settled.start_ns
<1>1. settled.gen \in Nat /\ settled.start_ns \in Nat /\ now \in Nat /\ BLOOM_EPOCH_NS \in Nat
  BY SMPAssumption DEF SettledInv, TypeOK
<1>2. Over <=> Abs!EpochOver  BY <1>1 DEF Over, EpochOver, Abs!EpochOver
<1>3. SettledBits(settled.gen + 1) = {}
  <2>1. Bank(settled.gen + 1) \in {0, 1}  BY <1>1, BankParity
  <2>2. \A b \in Bits : settled.bloom_bits[Bank(settled.gen + 1)][WordOf(b)].gen <= settled.gen
    BY <2>1, WordsOfBits DEF SettledInv
  <2>3. \A b \in Bits : settled.bloom_bits[Bank(settled.gen + 1)][WordOf(b)].gen # settled.gen + 1
    BY <1>1, <2>2
  <2> QED  BY <2>3 DEF SettledBits
<1>4. CASE Over
  <2>1. GenAfter = settled.gen + 1 /\ StartAfter = now /\ GenAfter - 1 = settled.gen
    BY <1>1, <1>4 DEF GenAfter, StartAfter
  <2> QED  BY <1>1, <1>2, <1>3, <1>4, <2>1 DEF Abs!CurrentAfterRoll, Abs!PreviousAfterRoll
<1>5. CASE ~Over
  <2>1. GenAfter = settled.gen /\ StartAfter = settled.start_ns
    BY <1>5 DEF GenAfter, StartAfter
  <2> QED  BY <1>1, <1>2, <1>5, <2>1 DEF Abs!CurrentAfterRoll, Abs!PreviousAfterRoll
<1> QED  BY <1>4, <1>5

\* As long as nothing settles, a packet has the same thing before it.
LEMMA NotSettled ==
  ASSUME now' = now, settled' = settled
  PROVE  /\ Over' = Over /\ GenAfter' = GenAfter /\ StartAfter' = StartAfter
         /\ \A g : SettledBits(g)' = SettledBits(g)
         /\ \A k, h : Known(k, h)' = Known(k, h)
<1>1. Over' = Over  BY DEF Over, EpochOver
<1>2. GenAfter' = GenAfter /\ StartAfter' = StartAfter  BY <1>1 DEF GenAfter, StartAfter
<1>3. \A g : SettledBits(g)' = SettledBits(g)  BY DEF SettledBits
<1>4. \A k, h : Known(k, h)' = Known(k, h)  BY <1>2, <1>3 DEF Known
<1> QED  BY <1>1, <1>2, <1>3, <1>4

\* The CPU that takes a step is the only one in the filter.
LEMMA OneCPU ==
  ASSUME TypeOK, ApartInv, NEW c \in CPUs, Step(c), Settle, apart'
  PROVE  /\ apart /\ now' = now
         /\ Busy \subseteq {c} /\ Busy' \subseteq {c}
         /\ settled' = IF cpu[c].pc # "idle" /\ cpu'[c].pc = "idle"
                       THEN [gen |-> gen', start_ns |-> start_ns', bloom_bits |-> bloom_bits',
                             is_retrans |-> Verdict]
                       ELSE settled
<1>1. apart /\ (\A a, b \in Busy' : a = b)  BY DEF Settle
<1>2. \A a, b \in Busy : a = b  BY <1>1 DEF ApartInv
<1>3. now' = now /\ \A d \in CPUs : d # c => cpu'[d] = cpu[d]  BY OthersStand
<1>4. c \in Busy \/ c \in Busy'
  <2>1. CASE \E k \in Keys \union {NoKey} : path_egress(c, k)
    BY <2>1, ArriveEffect DEF Busy
  <2>2. CASE ~\E k \in Keys \union {NoKey} : path_egress(c, k)
    BY <2>2 DEF Busy, Step, LoadStart, CasStart, AddGen, LoadGen, TestTag, TestBits,
                LoadTag, CasTag, Clear, OrBit
  <2> QED  BY <2>1, <2>2
<1>5. Busy \subseteq {c} /\ Busy' \subseteq {c}
  <2>1. \A d \in CPUs \ {c} : d \in Busy <=> d \in Busy'  BY <1>3 DEF Busy
  <2>2. Busy \subseteq CPUs /\ Busy' \subseteq CPUs  BY DEF Busy
  <2> QED  BY <1>1, <1>2, <1>4, <2>1, <2>2
<1>6. (Busy # {}) <=> cpu[c].pc # "idle"  BY <1>5 DEF Busy
<1>7. (Busy' = {}) <=> cpu'[c].pc = "idle"  BY <1>5 DEF Busy
<1> QED  BY <1>1, <1>3, <1>5, <1>6, <1>7 DEF Settle

\* A packet that is not finished.
PartsOf(c) == RollPart(c) /\ TestPart(c) /\ SetPart(c)

LEMMA GoesOn ==
  ASSUME NEW c \in CPUs, Busy' \subseteq {c}, cpu'[c].pc # "idle", PartsOf(c)'
  PROVE  ApartInv'
<1>1. c \in Busy' /\ \A d \in Busy' : d = c  BY DEF Busy
<1> QED  BY <1>1 DEF ApartInv, PartsOf

LEMMA ArriveParts ==
  ASSUME TypeOK, ApartInv, NEW c \in CPUs, NEW k \in Keys \union {NoKey}, path_egress(c, k),
         apart, Busy \subseteq {c}, now' = now, settled' = settled
  PROVE  PartsOf(c)' /\ cpu'[c].pc # "idle"
<1>1. Busy = {}  BY DEF Busy, path_egress
<1>2. /\ gen' = gen /\ start_ns' = start_ns /\ bloom_bits' = bloom_bits
      /\ gen = settled.gen /\ start_ns = settled.start_ns /\ bloom_bits = settled.bloom_bits
  BY <1>1 DEF ApartInv, path_egress, shared
<1>3. cpu'[c].pc = "start" /\ cpu'[c].now = now /\ cpu'[c].seen = {}
  <2> DEFINE p == IF k = NoKey THEN NoInsertion ELSE inserted[k]
  <2>1. cpu'[c] = [Idle EXCEPT !.pc = "start", !.key = k, !.now = now, !.prior = p]
    BY DEF TypeOK, path_egress
  <2> HIDE DEF p
  <2> QED  BY <2>1, ArriveEffect DEF Idle
<1> QED  BY <1>2, <1>3 DEF PartsOf, RollPart, TestPart, SetPart, TestPhase, SetPhase

\* Looked leaves a packet without a key idle and the others before the lookup.
LEMMA LookedFacts ==
  ASSUME NEW r \in Register
  PROVE  \/ r.key = NoKey /\ Looked(r) = Idle
         \/ /\ r.key # NoKey /\ Looked(r).pc = "gen"
            /\ Looked(r).now = r.now /\ Looked(r).seen = r.seen
BY DEF Looked, Register

\* The roll of the epoch, up to the lookup or the end of the packet.
LEMMA RollParts ==
  ASSUME TypeOK, SettledInv, NEW c \in CPUs, PartsOf(c), now' = now,
         LoadStart(c) \/ CasStart(c) \/ AddGen(c)
  PROVE  /\ bloom_bits' = bloom_bits /\ bloom_bits = settled.bloom_bits
         /\ cpu'[c].pc # "idle" /\ settled' = settled => PartsOf(c)'
         /\ cpu'[c].pc = "idle" => gen' = GenAfter /\ start_ns' = StartAfter
<1> DEFINE r == cpu[c]
<1>0. /\ r \in Register /\ r.now = now /\ r.pc \in {"start", "roll", "rolled"}
      /\ r.seen = {} /\ bloom_bits = settled.bloom_bits /\ bloom_bits' = bloom_bits
  BY DEF TypeOK, PartsOf, RollPart, TestPhase, SetPhase, LoadStart, CasStart, AddGen, shared
<1>1. \/ /\ cpu'[c] = Looked(r) /\ gen' = GenAfter /\ start_ns' = StartAfter
      \/ /\ cpu'[c] = [r EXCEPT !.pc = "roll", !.start_ns = start_ns]
         /\ Over /\ UNCHANGED <<gen, start_ns>> /\ gen = settled.gen /\ start_ns = settled.start_ns
      \/ /\ cpu'[c] = [r EXCEPT !.pc = "rolled"]
         /\ Over /\ gen' = gen /\ gen = settled.gen /\ start_ns' = now
  <2>1. CASE LoadStart(c)
    <3>1. gen = settled.gen /\ start_ns = settled.start_ns /\ UNCHANGED <<gen, start_ns>>
      BY <2>1 DEF PartsOf, RollPart, LoadStart, shared
    <3>2. EpochOver(r.now, start_ns) <=> Over  BY <1>0, <3>1 DEF Over
    <3>3. CASE Over
      BY <2>1, <3>1, <3>2, <3>3 DEF TypeOK, LoadStart
    <3>4. CASE ~Over
      BY <2>1, <3>1, <3>2, <3>4 DEF TypeOK, LoadStart, GenAfter, StartAfter
    <3> QED  BY <3>3, <3>4
  <2>2. CASE CasStart(c)
    <3>1. gen = settled.gen /\ Over /\ start_ns = RollExpects(c) /\ gen' = gen
      BY <2>2 DEF PartsOf, RollPart, CasStart, RollExpects
    <3>2. start_ns' = now  BY <1>0, <2>2, <3>1 DEF CasStart, NewStart
    <3>3. cpu'[c] = [r EXCEPT !.pc = "rolled"]
      BY <2>2, <3>1 DEF TypeOK, CasStart
    <3> QED  BY <3>1, <3>2, <3>3
  <2>3. CASE AddGen(c)
    <3>1. gen = settled.gen /\ Over /\ start_ns = now /\ gen' = gen + 1 /\ start_ns' = start_ns
      BY <2>3 DEF PartsOf, RollPart, AddGen, NextGen
    <3>2. cpu'[c] = Looked(r)  BY <2>3 DEF TypeOK, AddGen
    <3> QED  BY <3>1, <3>2 DEF GenAfter, StartAfter
  <2> QED  BY <2>1, <2>2, <2>3
<1>2. \/ /\ cpu'[c] = Idle /\ gen' = GenAfter /\ start_ns' = StartAfter
      \/ /\ cpu'[c].pc = "gen" /\ cpu'[c].now = now /\ cpu'[c].seen = {}
         /\ gen' = GenAfter /\ start_ns' = StartAfter
      \/ /\ cpu'[c].pc = "roll" /\ cpu'[c].now = now /\ cpu'[c].seen = {} /\ cpu'[c].start_ns = start_ns
         /\ Over /\ UNCHANGED <<gen, start_ns>> /\ gen = settled.gen /\ start_ns = settled.start_ns
      \/ /\ cpu'[c].pc = "rolled" /\ cpu'[c].now = now /\ cpu'[c].seen = {}
         /\ Over /\ gen' = gen /\ gen = settled.gen /\ start_ns' = now
  <2>1. CASE cpu'[c] = Looked(r) /\ gen' = GenAfter /\ start_ns' = StartAfter
    BY <1>0, <2>1, LookedFacts
  <2>2. CASE /\ cpu'[c] = [r EXCEPT !.pc = "roll", !.start_ns = start_ns]
             /\ Over /\ UNCHANGED <<gen, start_ns>> /\ gen = settled.gen /\ start_ns = settled.start_ns
    BY <1>0, <2>2 DEF Register
  <2>3. CASE /\ cpu'[c] = [r EXCEPT !.pc = "rolled"]
             /\ Over /\ gen' = gen /\ gen = settled.gen /\ start_ns' = now
    BY <1>0, <2>3 DEF Register
  <2> QED  BY <1>1, <2>1, <2>2, <2>3
<1>3. ASSUME cpu'[c].pc # "idle", settled' = settled PROVE PartsOf(c)'
  <2>1. Idle.pc = "idle"  BY DEF Idle
  <2>2. Over' = Over /\ GenAfter' = GenAfter /\ StartAfter' = StartAfter
    BY <1>3, NotSettled
  <2> HIDE DEF r
  <2>3. RollPart(c)'
    BY <1>0, <1>2, <1>3, <2>1, <2>2 DEF RollPart, TestPhase, SetPhase
  <2>4. cpu'[c].pc \in {"gen", "roll", "rolled"}  BY <1>2, <1>3, <2>1
  <2> QED  BY <2>3, <2>4 DEF PartsOf, TestPart, SetPart, TestPhase, SetPhase
<1>4. cpu'[c].pc = "idle" => gen' = GenAfter /\ start_ns' = StartAfter
  BY <1>2
<1> QED  BY <1>0, <1>3, <1>4

LEMMA LoadGenParts ==
  ASSUME TypeOK, SettledInv, LookupInv, NEW c \in CPUs, PartsOf(c), LoadGen(c),
         now' = now, settled' = settled
  PROVE  PartsOf(c)' /\ cpu'[c].pc # "idle"
<1>1. /\ cpu[c].pc = "gen" /\ gen' = gen /\ start_ns' = start_ns /\ bloom_bits' = bloom_bits
      /\ gen = GenAfter /\ start_ns = StartAfter /\ bloom_bits = settled.bloom_bits
      /\ cpu[c].now = now /\ cpu[c].seen = {}
  BY DEF PartsOf, RollPart, LoadGen, TestPhase, SetPhase, shared
<1>2. cpu[c].hash = 0  BY <1>1 DEF LookupInv, TestPhase, SetPhase
<1>3. /\ cpu'[c].pc = "testTag" /\ cpu'[c].gen = gen /\ cpu'[c].asked = gen
      /\ cpu'[c].now = now /\ cpu'[c].hash = 0 /\ cpu'[c].seen = {}
  <2>1. cpu'[c].seen = cpu[c].seen  BY DEF TypeOK, LoadGen, Register
  <2> QED  BY <1>1, <1>2, <2>1, LoadGenEffect DEF Kept
<1>4. GenAfter' = GenAfter /\ StartAfter' = StartAfter  BY NotSettled
<1>5. RollPart(c)'  BY <1>1, <1>3, <1>4 DEF RollPart, TestPhase, SetPhase
<1>6. TestPart(c)'
  <2>1. 0..cpu'[c].hash - 1 = {}  BY <1>3
  <2> QED  BY <1>1, <1>3, <2>1 DEF TestPart
<1>7. SetPart(c)'  BY <1>3 DEF SetPart, SetPhase
<1> QED  BY <1>3, <1>5, <1>6, <1>7 DEF PartsOf

\* The answer to a test is what the settled maps say.
LEMMA TestedParts ==
  ASSUME TypeOK, SettledInv, LookupInv, NEW c \in CPUs, PartsOf(c), cpu[c].pc \in TestPhase,
         NEW hit \in BOOLEAN, hit <=> Bit(c) \in SettledBits(cpu[c].asked),
         cpu'[c] = AfterTest(cpu[c], hit),
         now' = now, settled' = settled, UNCHANGED shared
  PROVE  PartsOf(c)' /\ cpu'[c].pc # "idle"
<1> DEFINE r == cpu[c]
           q == cpu'[c]
           bit(h) == bloom_bit_index[r.key][h]
<1>1. /\ r \in Register /\ r.gen = gen /\ gen = GenAfter /\ start_ns = StartAfter /\ r.now = now
      /\ bloom_bits = settled.bloom_bits /\ gen \in Nat
      /\ r.seen = {h \in 0..r.hash - 1 : Known(r.key, h)}
      /\ r.asked # gen => bit(r.hash) \notin SettledBits(gen)
  BY DEF TypeOK, PartsOf, RollPart, TestPart, TestPhase, SetPhase, Bit
<1>2. r.asked \in {gen, gen - 1}  BY <1>1 DEF LookupInv
<1>3. r.hash \in 0..BLOOM_HASHES - 1 /\ BLOOM_HASHES \in Nat
  BY <1>1, SMPAssumption DEF Register, Hashes
<1>4. gen' = gen /\ start_ns' = start_ns /\ bloom_bits' = bloom_bits  BY DEF shared
<1>5. /\ GenAfter' = GenAfter /\ StartAfter' = StartAfter
      /\ \A g : SettledBits(g)' = SettledBits(g)
      /\ \A k, h : Known(k, h)' = Known(k, h)
  BY NotSettled
<1>6. /\ q.pc \in {"testTag", "setTag"}
      /\ q.key = r.key /\ q.now = r.now /\ q.gen = r.gen
      /\ q.seen = IF hit THEN r.seen \union {r.hash} ELSE r.seen
      /\ q.pc = "testTag" =>
           \/ ~hit /\ r.asked = r.gen /\ q.asked = r.gen - 1 /\ q.hash = r.hash
           \/ (hit \/ r.asked # r.gen) /\ q.asked = r.gen /\ q.hash = r.hash + 1
      /\ q.pc = "setTag" => (hit \/ r.asked # r.gen) /\ r.hash = BLOOM_HASHES - 1 /\ q.hash = 0
  <2>1. r \in Register /\ q = AfterTest(r, hit)  BY <1>1
  <2> HIDE DEF r, q
  <2> QED  BY <2>1, AfterTestType
<1>7. Bit(c) = bit(r.hash)  BY DEF Bit
<1>8. ASSUME hit \/ r.asked # r.gen
      PROVE  q.seen = {h \in 0..r.hash : Known(r.key, h)}
  <2>1. Known(r.key, r.hash) <=> hit
    BY <1>1, <1>2, <1>7, <1>8 DEF Known
  <2>2. 0..r.hash = (0..r.hash - 1) \union {r.hash}  BY <1>3
  <2> HIDE DEF r, q
  <2> QED  BY <1>1, <1>6, <2>1, <2>2
<1> HIDE DEF r, q
<1>9. RollPart(c)'
  BY <1>1, <1>4, <1>5, <1>6 DEF RollPart, TestPhase, SetPhase, r, q
<1>10. TestPart(c)'
  <2> SUFFICES ASSUME q.pc = "testTag" PROVE TestPart(c)'
    BY <1>6 DEF TestPart, TestPhase, q
  <2>1. CASE ~hit /\ r.asked = r.gen /\ q.asked = r.gen - 1 /\ q.hash = r.hash
    <3>1. Bit(c)' = Bit(c)  BY <1>6, <2>1 DEF Bit, r, q
    <3>2. Bit(c) \notin SettledBits(gen)  BY <1>1, <2>1 DEF r
    <3>3. q.seen = {h \in 0..q.hash - 1 : Known(q.key, h)}  BY <1>1, <1>6, <2>1
    <3> QED  BY <1>4, <1>5, <3>1, <3>2, <3>3 DEF TestPart, q
  <2>2. CASE (hit \/ r.asked # r.gen) /\ q.asked = r.gen /\ q.hash = r.hash + 1
    <3>1. q.hash - 1 = r.hash  BY <1>3, <2>2
    <3>2. q.seen = {h \in 0..q.hash - 1 : Known(q.key, h)}  BY <1>6, <1>8, <2>2, <3>1
    <3> QED  BY <1>1, <1>4, <1>5, <2>2, <3>2 DEF TestPart, q
  <2> QED  BY <1>6, <2>1, <2>2
<1>11. SetPart(c)'
  <2> SUFFICES ASSUME q.pc = "setTag" PROVE SetPart(c)'
    BY <1>6 DEF SetPart, SetPhase, q
  <2>1. q.seen = {h \in Hashes : Known(q.key, h)}  BY <1>6, <1>8 DEF Hashes
  <2>2. \A b \in Bits : Live(c, b)' <=> b \in SettledBits(gen)
    BY <1>1, <1>4 DEF Live, Word, SettledBits, q
  <2>3. 0..q.hash - 1 = {}  BY <1>6
  <2> QED  BY <1>1, <1>4, <1>5, <2>1, <2>2, <2>3 DEF SetPart, q
<1> QED  BY <1>6, <1>9, <1>10, <1>11 DEF PartsOf, q

LEMMA TestParts ==
  ASSUME TypeOK, SettledInv, LookupInv, NEW c \in CPUs, PartsOf(c), TestTag(c) \/ TestBits(c),
         now' = now, settled' = settled
  PROVE  PartsOf(c)' /\ cpu'[c].pc # "idle"
<1> DEFINE r == cpu[c]
<1>1. r \in Register /\ r.pc \in TestPhase /\ bloom_bits = settled.bloom_bits /\ UNCHANGED shared
  BY DEF TypeOK, PartsOf, RollPart, TestPhase, SetPhase, TestTag, TestBits
<1>2. Bit(c) \in Bits  BY <1>1, BitInBits
<1>3. Bit(c) \in SettledBits(r.asked) <=>
        Word(Bit(c), r.asked).gen = r.asked /\ Bit(c) \in Word(Bit(c), r.asked).bits
  BY <1>1, <1>2 DEF SettledBits, Word
<1>4. CASE TestTag(c) /\ Word(Bit(c), r.asked).gen # r.asked
  BY <1>1, <1>3, <1>4, TestTagEffect, TestedParts
<1>5. CASE TestTag(c) /\ Word(Bit(c), r.asked).gen = r.asked
  <2>1. KeptBit(r, cpu'[c]) /\ cpu'[c].asked = r.asked /\ cpu'[c].pc = "testBits" /\ r.pc = "testTag"
    BY <1>5, TestTagEffect DEF TestTag
  <2>2. gen' = gen /\ start_ns' = start_ns /\ bloom_bits' = bloom_bits  BY <1>1 DEF shared
  <2>3. /\ GenAfter' = GenAfter /\ StartAfter' = StartAfter
        /\ \A g : SettledBits(g)' = SettledBits(g)
        /\ \A k, h : Known(k, h)' = Known(k, h)
    BY NotSettled
  <2>4. Bit(c)' = Bit(c)  BY <2>1 DEF Bit, KeptBit, Kept
  <2>5. RollPart(c)'
    BY <2>1, <2>2, <2>3 DEF PartsOf, RollPart, KeptBit, Kept, TestPhase, SetPhase
  <2>6. Word(Bit(c), r.asked)' = Word(Bit(c), r.asked)  BY <2>1, <2>2, <2>4 DEF Word
  <2>7. TestPart(c)'
    BY <1>5, <2>1, <2>2, <2>3, <2>4, <2>6 DEF PartsOf, TestPart, KeptBit, Kept, TestPhase
  <2> QED  BY <2>1, <2>5, <2>7 DEF PartsOf, SetPart, SetPhase
<1>6. CASE TestBits(c)
  <2>1. Word(Bit(c), r.asked).gen = r.asked
    BY <1>6 DEF PartsOf, TestPart, TestPhase, TestBits
  <2> DEFINE hit == Bit(c) \in Word(Bit(c), r.asked).bits
  <2>2. cpu'[c] = AfterTest(r, hit)  BY <1>6, TestBitsEffect
  <2>3. hit \in BOOLEAN /\ (hit <=> Bit(c) \in SettledBits(r.asked))  BY <1>3, <2>1
  <2> HIDE DEF hit
  <2> QED  BY <1>1, <2>2, <2>3, TestedParts
<1> QED  BY <1>4, <1>5, <1>6

\* The sets touch one word of the packet's own generation.
LEMMA SetWords ==
  ASSUME TypeOK, NEW c \in CPUs, cpu[c].pc \in SetPhase, cpu[c].gen = gen,
         LoadTag(c) \/ CasTag(c) \/ Clear(c) \/ OrBit(c)
  PROVE  /\ gen' = gen /\ start_ns' = start_ns
         /\ bloom_bits'[Bank(gen - 1)] = bloom_bits[Bank(gen - 1)]
         /\ \A w \in Words :
              LET word == bloom_bits[Bank(gen)][w]
                  next == bloom_bits'[Bank(gen)][w]
              IN  IF w # WordOf(Bit(c)) \/ LoadTag(c) \/ (CasTag(c) /\ word.gen # cpu[c].old)
                  THEN next = word
                  ELSE \/ CasTag(c) /\ next.gen = gen /\ next.bits = word.bits
                       \/ Clear(c) /\ next.gen = word.gen /\ next.bits = {}
                       \/ OrBit(c) /\ next.gen = word.gen /\ next.bits = word.bits \union {Bit(c)}
<1> DEFINE g == cpu[c].gen
           v == WordOf(Bit(c))
<1>0. gen \in Nat /\ Bank(g) \in {0, 1} /\ Bank(gen - 1) \in {0, 1} /\ Bank(gen - 1) # Bank(g)
      /\ v \in Words
  BY BankParity, BitInBits DEF TypeOK
<1>1. gen' = gen /\ start_ns' = start_ns  BY DEF LoadTag, CasTag, Clear, OrBit, shared
<1>2. \/ bloom_bits' = bloom_bits /\ (LoadTag(c) \/ (CasTag(c) /\ bloom_bits[Bank(g)][v].gen # cpu[c].old))
      \/ CasTag(c) /\ bloom_bits' = [bloom_bits EXCEPT ![Bank(g)][v].gen = g]
      \/ Clear(c) /\ bloom_bits' = [bloom_bits EXCEPT ![Bank(g)][v].bits = {}]
      \/ OrBit(c) /\ bloom_bits' = [bloom_bits EXCEPT ![Bank(g)][v].bits = @ \union {Bit(c)}]
  <2>1. CASE LoadTag(c)
    <3>1. bloom_bits' = bloom_bits  BY <2>1 DEF LoadTag, shared
    <3> QED  BY <2>1, <3>1
  <2>2. CASE CasTag(c)  BY <2>2, Zenon DEF CasTag, Word
  <2>3. CASE Clear(c)  BY <2>3 DEF Clear
  <2>4. CASE OrBit(c)  BY <2>4 DEF OrBit
  <2> QED  BY <2>1, <2>2, <2>3, <2>4
<1>3. bloom_bits'[Bank(gen - 1)] = bloom_bits[Bank(gen - 1)]
  <2> HIDE DEF v
  <2> QED  BY <1>0, <1>2 DEF TypeOK
<1>4. ASSUME NEW w \in Words
      PROVE  LET word == bloom_bits[Bank(gen)][w]
                 next == bloom_bits'[Bank(gen)][w]
             IN  IF w # WordOf(Bit(c)) \/ LoadTag(c) \/ (CasTag(c) /\ word.gen # cpu[c].old)
                 THEN next = word
                 ELSE \/ CasTag(c) /\ next.gen = gen /\ next.bits = word.bits
                      \/ Clear(c) /\ next.gen = word.gen /\ next.bits = {}
                      \/ OrBit(c) /\ next.gen = word.gen /\ next.bits = word.bits \union {Bit(c)}
  <2> DEFINE word == bloom_bits[Bank(gen)][w]
             next == bloom_bits'[Bank(gen)][w]
  <2>1. bloom_bits \in [{0, 1} -> [Words -> [gen : Nat, bits : SUBSET Bits]]]  BY DEF TypeOK
  <2>2. ~(LoadTag(c) /\ (CasTag(c) \/ Clear(c) \/ OrBit(c)))
        /\ ~(CasTag(c) /\ (Clear(c) \/ OrBit(c)))
    BY DEF LoadTag, CasTag, Clear, OrBit
  <2>3. CASE bloom_bits' = bloom_bits /\ (LoadTag(c) \/ (CasTag(c) /\ bloom_bits[Bank(g)][v].gen # cpu[c].old))
    BY <2>3
  <2>4. CASE CasTag(c) /\ bloom_bits' = [bloom_bits EXCEPT ![Bank(g)][v].gen = g]
    <3>1. CASE w = v
      <4>1. next = [word EXCEPT !.gen = gen]  BY <1>0, <2>1, <2>4, <3>1
      <4>2. next.gen = gen /\ next.bits = word.bits  BY <1>0, <2>1, <4>1
      <4> QED  BY <1>0, <2>2, <2>4, <3>1, <4>2 DEF CasTag, Word
    <3>2. CASE w # v
      <4>1. next = word  BY <1>0, <2>1, <2>4, <3>2
      <4> QED  BY <3>2, <4>1
    <3> QED  BY <3>1, <3>2
  <2>5. CASE Clear(c) /\ bloom_bits' = [bloom_bits EXCEPT ![Bank(g)][v].bits = {}]
    <3>1. w # v => next = word  BY <1>0, <2>1, <2>5
    <3>2. w = v => next.gen = word.gen /\ next.bits = {}  BY <1>0, <2>1, <2>5
    <3> QED  BY <2>2, <2>5, <3>1, <3>2
  <2>6. CASE OrBit(c) /\ bloom_bits' = [bloom_bits EXCEPT ![Bank(g)][v].bits = @ \union {Bit(c)}]
    <3>1. w # v => next = word  BY <1>0, <2>1, <2>6
    <3>2. w = v => next.gen = word.gen /\ next.bits = word.bits \union {Bit(c)}
      BY <1>0, <2>1, <2>6
    <3> QED  BY <2>2, <2>6, <3>1, <3>2
  <2> QED  BY <1>2, <2>3, <2>4, <2>5, <2>6
<1> QED  BY <1>1, <1>3, <1>4

\* Retag and clear change no live bit; the OR adds the packet's own.
LEMMA LiveStep ==
  ASSUME TypeOK, TagInv, NEW c \in CPUs, cpu[c].pc \in SetPhase, cpu[c].gen = gen,
         LoadTag(c) \/ CasTag(c) \/ Clear(c) \/ OrBit(c), NEW b \in Bits
  PROVE  Live(c, b)' <=> Live(c, b) \/ (OrBit(c) /\ b = Bit(c))
<1> DEFINE w == WordOf(b)
           word == bloom_bits[Bank(gen)][w]
           next == bloom_bits'[Bank(gen)][w]
           v == WordOf(Bit(c))
<1>1. gen' = gen /\ w \in Words /\ v \in Words /\ gen \in Nat /\ Bank(gen) \in {0, 1}
  BY SetWords, WordsOfBits, BitInBits, BankParity DEF TypeOK
<1>2. Live(c, b) <=> word.gen = gen /\ b \in word.bits /\ ~(cpu[c].pc = "clear" /\ w = v)
  BY DEF Live, Word
<1>3. Live(c, b)' <=> next.gen = gen /\ b \in next.bits /\ ~(cpu'[c].pc = "clear" /\ w = v')
  BY <1>1 DEF Live, Word
<1>4. Bit(c) = b => w = v  OBVIOUS
<1>5. cpu[c].pc \in {"clear", "or"} => bloom_bits[Bank(gen)][v].gen = gen
  BY DEF TagInv, Word
<1>6. cpu[c].pc = "cas" => cpu[c].old # gen /\ bloom_bits[Bank(gen)][v].gen \in {cpu[c].old, gen}
  BY DEF TagInv, Word
<1>7. CASE LoadTag(c)
  <2>1. next = word /\ cpu[c].pc = "setTag"  BY <1>1, <1>7, SetWords DEF LoadTag
  <2>2. cpu'[c].pc # "clear"  BY <1>7, LoadTagEffect
  <2> QED  BY <1>2, <1>3, <1>7, <2>1, <2>2 DEF OrBit
<1>8. CASE CasTag(c)
  <2>1. cpu[c].pc = "cas" /\ v' = v /\ ~OrBit(c)
    BY <1>8, CasTagEffect DEF CasTag, OrBit, Bit, KeptBit, Kept
  <2>2. cpu'[c].pc = "clear" <=> bloom_bits[Bank(gen)][v].gen # gen
    BY <1>8, CasTagEffect DEF AfterCas, Word
  <2>3. CASE w # v  BY <1>1, <1>2, <1>3, <1>8, <2>1, <2>3, SetWords
  <2>4. CASE w = v /\ word.gen # cpu[c].old
    <3>1. next = word  BY <1>1, <1>8, <2>4, SetWords
    <3> QED  BY <1>2, <1>3, <1>6, <2>1, <2>2, <2>4, <3>1
  <2>5. CASE w = v /\ word.gen = cpu[c].old
    BY <1>2, <1>3, <1>6, <2>1, <2>2, <2>5
  <2> QED  BY <2>3, <2>4, <2>5
<1>9. CASE Clear(c)
  <2>1. cpu[c].pc = "clear" /\ cpu'[c].pc = "or" /\ ~OrBit(c) /\ ~CasTag(c) /\ ~LoadTag(c)
    BY <1>9, ClearEffect DEF Clear, OrBit, CasTag, LoadTag
  <2>2. IF w # v THEN next = word ELSE next.bits = {}
    BY <1>1, <1>9, <2>1, SetWords
  <2> QED  BY <1>2, <1>3, <2>1, <2>2
<1>10. CASE OrBit(c)
  <2>1. cpu[c].pc = "or" /\ ~Clear(c) /\ ~CasTag(c) /\ ~LoadTag(c)
    BY <1>10 DEF Clear, OrBit, CasTag, LoadTag
  <2>2. cpu'[c].pc # "clear"  BY <1>10, OrBitEffect DEF Idle
  <2>3. IF w # v THEN next = word ELSE next.gen = word.gen /\ next.bits = word.bits \union {Bit(c)}
    BY <1>1, <1>10, <2>1, SetWords
  <2> QED  BY <1>2, <1>3, <1>4, <1>5, <1>10, <2>1, <2>2, <2>3
<1> QED  BY <1>7, <1>8, <1>9, <1>10

\* What the sets of a packet have done after one more step, whether it was the last or not.
LEMMA SetParts ==
  ASSUME TypeOK, SettledInv, TagInv, NEW c \in CPUs, PartsOf(c), now' = now,
         LoadTag(c) \/ CasTag(c) \/ Clear(c) \/ OrBit(c)
  PROVE  /\ gen' = GenAfter /\ start_ns' = StartAfter /\ GenAfter = gen
         /\ bloom_bits'[Bank(gen - 1)] = settled.bloom_bits[Bank(gen - 1)]
         /\ cpu[c].seen = {h \in Hashes : Known(cpu[c].key, h)}
         /\ cpu'[c].pc # "idle" /\ settled' = settled => PartsOf(c)'
         /\ cpu'[c].pc = "idle" =>
              /\ cpu[c].pc = "or"
              /\ \A b \in Bits : Live(c, b)' <=> \/ b \in SettledBits(gen)
                                                 \/ \E h \in Hashes : b = bloom_bit_index[cpu[c].key][h]
<1> DEFINE r == cpu[c]
           q == cpu'[c]
<1>0. r.pc \in SetPhase  BY DEF LoadTag, CasTag, Clear, OrBit, SetPhase
<1>1. /\ gen = GenAfter /\ start_ns = StartAfter /\ r.gen = gen /\ r.now = now
      /\ r.seen = {h \in Hashes : Known(r.key, h)}
      /\ bloom_bits[Bank(gen - 1)] = settled.bloom_bits[Bank(gen - 1)]
      /\ \A b \in Bits : Live(c, b) <=> \/ b \in SettledBits(gen)
                                        \/ \E h \in 0..r.hash - 1 : b = bloom_bit_index[r.key][h]
  BY <1>0 DEF PartsOf, RollPart, SetPart
<1>2. r \in Register /\ r.hash \in 0..BLOOM_HASHES - 1 /\ BLOOM_HASHES \in Nat
  BY SMPAssumption DEF TypeOK, Register, Hashes
<1>3. /\ gen' = gen /\ start_ns' = start_ns
      /\ bloom_bits'[Bank(gen - 1)] = bloom_bits[Bank(gen - 1)]
  BY <1>0, <1>1, SetWords
<1>4. \A b \in Bits : Live(c, b)' <=> Live(c, b) \/ (OrBit(c) /\ b = Bit(c))
  BY <1>0, <1>1, LiveStep
<1>5. \/ /\ ~OrBit(c) /\ KeptBit(r, q) /\ q.pc \in SetPhase
      \/ OrBit(c) /\ r.hash = BLOOM_HASHES - 1 /\ q = Idle
      \/ /\ OrBit(c) /\ Kept(r, q) /\ q.gen = r.gen /\ q.seen = r.seen
         /\ q.hash = r.hash + 1 /\ q.pc = "setTag"
  <2>1. CASE LoadTag(c)  BY <2>1, LoadTagEffect DEF LoadTag, OrBit, SetPhase
  <2>2. CASE CasTag(c)  BY <2>2, CasTagEffect DEF CasTag, OrBit, AfterCas, SetPhase
  <2>3. CASE Clear(c)  BY <2>3, ClearEffect DEF Clear, OrBit, SetPhase
  <2>4. CASE OrBit(c)  BY <2>4, OrBitEffect
  <2> QED  BY <2>1, <2>2, <2>3, <2>4
<1>6. Bit(c) = bloom_bit_index[r.key][r.hash]  BY DEF Bit
<1> DEFINE n == IF OrBit(c) THEN r.hash + 1 ELSE r.hash
<1>7. \A b \in Bits : Live(c, b)' <=> \/ b \in SettledBits(gen)
                                      \/ \E h \in 0..n - 1 : b = bloom_bit_index[r.key][h]
  <2>1. CASE OrBit(c)
    <3>1. 0..n - 1 = (0..r.hash - 1) \union {r.hash}  BY <1>2, <2>1
    <3> HIDE DEF r, n
    <3> QED  BY <1>1, <1>4, <1>6, <2>1, <3>1
  <2>2. CASE ~OrBit(c)
    <3>1. n = r.hash  BY <2>2
    <3> HIDE DEF r, n
    <3> QED  BY <1>1, <1>4, <2>2, <3>1
  <2> QED  BY <2>1, <2>2
<1>8. ASSUME q.pc # "idle", settled' = settled PROVE PartsOf(c)'
  <2>1. /\ q.pc \in SetPhase /\ q.key = r.key /\ q.now = r.now /\ q.gen = r.gen
        /\ q.seen = r.seen /\ q.hash = n
    <3>1. Idle.pc = "idle" /\ "setTag" \in SetPhase  BY DEF Idle, SetPhase
    <3> HIDE DEF r, q
    <3> QED  BY <1>5, <1>8, <3>1 DEF Kept, KeptBit
  <2>2. /\ GenAfter' = GenAfter /\ StartAfter' = StartAfter
        /\ \A g : SettledBits(g)' = SettledBits(g)
        /\ \A k, h : Known(k, h)' = Known(k, h)
    BY <1>8, NotSettled
  <2> HIDE DEF r, q, n
  <2>3. q.pc \notin {"idle", "start", "roll", "rolled", "gen"} \union TestPhase
    BY <2>1 DEF SetPhase, TestPhase
  <2>4. RollPart(c)'
    BY <1>1, <1>3, <2>1, <2>2, <2>3 DEF RollPart, q
  <2>5. SetPart(c)'
    <3>1. q.seen = {h \in Hashes : Known(q.key, h)}  BY <1>1, <2>1
    <3>2. (bloom_bits[Bank(gen - 1)] = settled.bloom_bits[Bank(gen - 1)])'
      BY <1>1, <1>3, <1>8
    <3>3. \A b \in Bits : Live(c, b)' <=> \/ b \in SettledBits(gen)
                                          \/ \E h \in 0..q.hash - 1 : b = bloom_bit_index[q.key][h]
      BY <1>7, <2>1
    <3> QED  BY <1>3, <2>2, <3>1, <3>2, <3>3 DEF SetPart, q
  <2> QED  BY <2>3, <2>4, <2>5 DEF PartsOf, TestPart, q
<1>9. ASSUME q.pc = "idle"
      PROVE  /\ r.pc = "or"
             /\ \A b \in Bits : Live(c, b)' <=> \/ b \in SettledBits(gen)
                                                \/ \E h \in Hashes : b = bloom_bit_index[r.key][h]
  <2>1. OrBit(c) /\ r.hash = BLOOM_HASHES - 1
    BY <1>5, <1>9 DEF SetPhase
  <2>2. 0..n - 1 = Hashes  BY <1>2, <2>1 DEF Hashes
  <2> HIDE DEF n
  <2> QED  BY <1>7, <2>1, <2>2 DEF OrBit
<1> QED  BY <1>1, <1>3, <1>8, <1>9

\* When the last CPU leaves the filter the maps are settled again.
LEMMA SettlesAgain ==
  ASSUME TypeOK', TagInv', Busy' = {}, NEW v \in BOOLEAN,
         settled' = [gen |-> gen', start_ns |-> start_ns', bloom_bits |-> bloom_bits',
                     is_retrans |-> v]
  PROVE  RunInv'
<1>1. /\ settled'.gen = gen' /\ settled'.start_ns = start_ns' /\ settled'.bloom_bits = bloom_bits'
  OBVIOUS
<1>2. SettledInv'  BY <1>1 DEF SettledInv, TypeOK, TagInv
<1>3. ApartInv'  BY <1>1 DEF ApartInv
<1> QED  BY <1>2, <1>3 DEF RunInv

\* A packet that ends without a lookup has aged the two sets.
LEMMA EndsWithoutLookup ==
  ASSUME TypeOK, SettledInv, now' = now,
         settled' = [gen |-> GenAfter, start_ns |-> StartAfter,
                     bloom_bits |-> settled.bloom_bits, is_retrans |-> FALSE]
  PROVE  Abs!Age
<1>1. /\ settled'.gen = GenAfter /\ settled'.start_ns = StartAfter
      /\ settled'.bloom_bits = settled.bloom_bits /\ settled'.is_retrans = FALSE
  OBVIOUS
<1>2. SettledBits(settled.gen)' = SettledBits(GenAfter)  BY <1>1 DEF SettledBits
<1>3. SettledBits(settled.gen - 1)' = SettledBits(GenAfter - 1)  BY <1>1 DEF SettledBits
<1> QED  BY <1>1, <1>2, <1>3, AfterRoll DEF Abs!Age

\* A packet with a key has looked it up and added its bits.
LEMMA EndsWithLookup ==
  ASSUME TypeOK, SettledInv, now' = now, NEW c \in CPUs, NEW k \in Keys, NEW v \in BOOLEAN,
         gen' = GenAfter, GenAfter = gen, start_ns' = StartAfter, cpu'[c].pc = "idle",
         bloom_bits'[Bank(gen - 1)] = settled.bloom_bits[Bank(gen - 1)],
         \A b \in Bits : Live(c, b)' <=> \/ b \in SettledBits(gen)
                                         \/ \E h \in Hashes : b = bloom_bit_index[k][h],
         v <=> \A h \in Hashes : Known(k, h),
         settled' = [gen |-> gen', start_ns |-> start_ns', bloom_bits |-> bloom_bits',
                     is_retrans |-> v]
  PROVE  Abs!Lookup(k)
<1>1. /\ settled'.gen = gen /\ settled'.start_ns = StartAfter /\ gen' = gen
      /\ settled'.bloom_bits = bloom_bits' /\ settled'.is_retrans = v
  OBVIOUS
<1>2. \A h \in Hashes : bloom_bit_index[k][h] \in Bits
  BY SMPAssumption DEF Hashes
<1>3. SettledBits(settled.gen)' = SettledBits(GenAfter) \union KeyBits(k)
  <2>1. \A b \in Bits : b \in SettledBits(settled.gen)' <=> Live(c, b)'
    BY <1>1 DEF SettledBits, Live, Word
  <2>2. \A b \in Bits : b \in KeyBits(k) <=> \E h \in Hashes : b = bloom_bit_index[k][h]
    BY DEF KeyBits
  <2>3. SettledBits(settled.gen)' \subseteq Bits /\ SettledBits(GenAfter) \subseteq Bits
        /\ KeyBits(k) \subseteq Bits
    BY <1>2 DEF SettledBits, KeyBits
  <2> QED  BY <2>1, <2>2, <2>3
<1>4. SettledBits(settled.gen - 1)' = SettledBits(GenAfter - 1)  BY <1>1 DEF SettledBits
<1>5. v <=> KeyBits(k) \subseteq (SettledBits(GenAfter) \union SettledBits(GenAfter - 1))
  BY DEF Known, KeyBits
<1>6. v = (KeyBits(k) \subseteq (Abs!CurrentAfterRoll \union Abs!PreviousAfterRoll))
  BY <1>5, AfterRoll
<1> QED  BY <1>1, <1>3, <1>4, <1>6, AfterRoll DEF Abs!Lookup

\* Nothing is different outside while a packet is under way, and one step of
\* RecentBits has been taken when it ends.
LEMMA ApartStep ==
  ASSUME TypeOK, TypeOK', SMPInv, SMPInv', RunInv, NEW c \in CPUs, Step(c), Settle, apart'
  PROVE  RunInv' /\ [Abs!Next]_(Abs!vars)
<1>0. ApartInv /\ SettledInv /\ TagInv /\ LookupInv /\ TagInv'  BY DEF RunInv, SMPInv
<1>1. /\ apart /\ now' = now /\ Busy \subseteq {c} /\ Busy' \subseteq {c}
      /\ settled' = IF cpu[c].pc # "idle" /\ cpu'[c].pc = "idle"
                    THEN [gen |-> gen', start_ns |-> start_ns', bloom_bits |-> bloom_bits',
                          is_retrans |-> Verdict]
                    ELSE settled
  BY <1>0, OneCPU
<1>2. cpu[c].pc # "idle" => PartsOf(c)
  BY <1>0, <1>1 DEF ApartInv, Busy, PartsOf
<1>3. ASSUME settled' = settled, PartsOf(c)', cpu'[c].pc # "idle"
      PROVE  RunInv' /\ [Abs!Next]_(Abs!vars)
  <2>1. ApartInv'  BY <1>1, <1>3, GoesOn
  <2>2. SettledInv'  BY <1>0, <1>3 DEF SettledInv
  <2>3. UNCHANGED Abs!vars  BY <1>1, <1>3 DEF Abs!vars, SettledBits
  <2> QED  BY <2>1, <2>2, <2>3 DEF RunInv
<1>4. ASSUME NEW k \in Keys \union {NoKey}, path_egress(c, k)
      PROVE  RunInv' /\ [Abs!Next]_(Abs!vars)
  <2>1. settled' = settled  BY <1>1, <1>4 DEF path_egress
  <2> QED  BY <1>0, <1>1, <1>3, <1>4, <2>1, ArriveParts
<1>5. CASE cpu[c].pc # "idle" /\ cpu'[c].pc # "idle"
  <2>1. settled' = settled /\ PartsOf(c)  BY <1>1, <1>2, <1>5
  <2>2. ~\E k \in Keys \union {NoKey} : path_egress(c, k)  BY <1>5 DEF path_egress
  <2>3. PartsOf(c)'
    <3>1. CASE LoadStart(c) \/ CasStart(c) \/ AddGen(c)  BY <1>0, <1>1, <1>5, <2>1, <3>1, RollParts
    <3>2. CASE LoadGen(c)  BY <1>0, <1>1, <2>1, <3>2, LoadGenParts
    <3>3. CASE TestTag(c) \/ TestBits(c)  BY <1>0, <1>1, <2>1, <3>3, TestParts
    <3>4. CASE LoadTag(c) \/ CasTag(c) \/ Clear(c) \/ OrBit(c)
      BY <1>0, <1>1, <1>5, <2>1, <3>4, SetParts
    <3> QED  BY <2>2, <3>1, <3>2, <3>3, <3>4 DEF Step
  <2> QED  BY <1>3, <1>5, <2>1, <2>3
<1>6. CASE cpu[c].pc # "idle" /\ cpu'[c].pc = "idle"
  <2> DEFINE end(v) == [gen |-> gen', start_ns |-> start_ns', bloom_bits |-> bloom_bits',
                        is_retrans |-> v]
  <2>1. PartsOf(c) /\ settled' = end(Verdict) /\ Verdict \in BOOLEAN /\ Busy' = {}
    BY <1>1, <1>2, <1>6 DEF Busy, Verdict
  <2>2. RunInv'  BY <1>0, <2>1, SettlesAgain
  <2>3. ~\E k \in Keys \union {NoKey} : path_egress(c, k)  BY <1>6 DEF path_egress
  <2>4. \A d \in CPUs : d # c => cpu[d].pc = "idle"  BY <1>1 DEF Busy
  <2>5. CASE LoadStart(c) \/ CasStart(c) \/ AddGen(c)
    <3>1. Verdict = FALSE
      <4>1. cpu[c].pc # "or"  BY <2>5 DEF LoadStart, CasStart, AddGen
      <4> QED  BY <2>4, <4>1 DEF Verdict
    <3>2. gen' = GenAfter /\ start_ns' = StartAfter /\ bloom_bits' = settled.bloom_bits
      BY <1>0, <1>1, <1>6, <2>1, <2>5, RollParts
    <3>3. Abs!Age  BY <1>0, <1>1, <2>1, <3>1, <3>2, EndsWithoutLookup
    <3> QED  BY <2>2, <3>3 DEF Abs!Next
  <2>6. CASE LoadTag(c) \/ CasTag(c) \/ Clear(c) \/ OrBit(c)
    <3> DEFINE k == cpu[c].key
    <3>1. /\ gen' = GenAfter /\ start_ns' = StartAfter /\ GenAfter = gen
          /\ bloom_bits'[Bank(gen - 1)] = settled.bloom_bits[Bank(gen - 1)]
          /\ cpu[c].seen = {h \in Hashes : Known(k, h)}
          /\ cpu[c].pc = "or"
          /\ \A b \in Bits : Live(c, b)' <=> \/ b \in SettledBits(gen)
                                             \/ \E h \in Hashes : b = bloom_bit_index[k][h]
      BY <1>0, <1>1, <1>6, <2>1, <2>6, SetParts
    <3>2. k \in Keys  BY <3>1 DEF TypeOK, SetPhase
    <3>3. Verdict <=> \A h \in Hashes : Known(k, h)
      <4>1. Verdict <=> AllSeen(c)  BY <2>4, <3>1 DEF Verdict
      <4> QED  BY <3>1, <4>1 DEF AllSeen
    <3> HIDE DEF k
    <3>4. Abs!Lookup(k)
      BY <1>0, <1>1, <1>6, <2>1, <3>1, <3>2, <3>3, EndsWithLookup
    <3> QED  BY <2>2, <3>2, <3>4 DEF Abs!Next
  <2>7. CASE LoadGen(c) \/ TestTag(c) \/ TestBits(c)
    <3>1. cpu'[c].pc # "idle"
      <4>1. CASE LoadGen(c)  BY <4>1, LoadGenEffect
      <4>2. CASE TestTag(c)  BY <4>2, TestTagEffect, AfterTestType, Times
      <4>3. CASE TestBits(c)
        <5>1. (Bit(c) \in Word(Bit(c), cpu[c].asked).bits) \in BOOLEAN  OBVIOUS
        <5> QED  BY <4>3, <5>1, TestBitsEffect, AfterTestType, Times
      <4> QED  BY <2>7, <4>1, <4>2, <4>3
    <3> QED  BY <1>6, <3>1
  <2> QED  BY <2>3, <2>5, <2>6, <2>7 DEF Step
<1>7. CASE cpu[c].pc = "idle"
  BY <1>4, <1>7 DEF Step, LoadStart, CasStart, AddGen, LoadGen, TestTag, TestBits,
                    LoadTag, CasTag, Clear, OrBit
<1> QED  BY <1>5, <1>6, <1>7

LEMMA RunStep ==
  ASSUME TypeOK, TypeOK', SMPInv, SMPInv', RunInv, [RunNext]_<<vars, apart, settled>>
  PROVE  RunInv' /\ [Abs!Next]_(Abs!vars)
<1>0. SettledInv /\ ApartInv  BY DEF RunInv
<1>1. CASE UNCHANGED <<vars, apart, settled>>
  <2>1. /\ now' = now /\ gen' = gen /\ start_ns' = start_ns /\ bloom_bits' = bloom_bits
        /\ cpu' = cpu /\ apart' = apart /\ settled' = settled
    BY <1>1 DEF vars, shared
  <2>2. SettledInv'  BY <1>0, <2>1 DEF SettledInv
  <2>3. ApartInv'
    <3>1. Busy' = Busy /\ (\A c \in CPUs : Bit(c)' = Bit(c))  BY <2>1 DEF Busy, Bit
    <3>2. /\ Over' = Over /\ GenAfter' = GenAfter /\ StartAfter' = StartAfter
          /\ \A g : SettledBits(g)' = SettledBits(g)
          /\ \A k, h : Known(k, h)' = Known(k, h)
      BY <2>1, NotSettled
    <3>3. \A c \in CPUs : RollPart(c) => RollPart(c)'  BY <2>1, <3>2 DEF RollPart
    <3>4. \A c \in CPUs : TestPart(c) => TestPart(c)'  BY <2>1, <3>1, <3>2 DEF TestPart, Word
    <3>5. \A c \in CPUs, b \in Bits : Live(c, b)' <=> Live(c, b)  BY <2>1, <3>1 DEF Live, Word
    <3>6. \A c \in CPUs : SetPart(c) => SetPart(c)'  BY <2>1, <3>2, <3>5 DEF SetPart
    <3> QED  BY <1>0, <2>1, <3>1, <3>3, <3>4, <3>6 DEF ApartInv, Busy
  <2>4. UNCHANGED Abs!vars  BY <2>1 DEF Abs!vars, SettledBits
  <2> QED  BY <2>2, <2>3, <2>4 DEF RunInv
<1>2. CASE bpf_ktime_get_ns /\ Settle
  <2>1. /\ now < MaxNow /\ now' = now + 1 /\ cpu' = cpu
        /\ gen' = gen /\ start_ns' = start_ns /\ bloom_bits' = bloom_bits
    BY <1>2 DEF bpf_ktime_get_ns, shared
  <2>2. Busy' = Busy /\ now' # now  BY <2>1 DEF Busy, TypeOK
  <2>3. settled' = settled /\ (apart' => apart /\ Busy = {})  BY <1>2, <2>2 DEF Settle
  <2>4. SettledInv'  BY <1>0, <2>3 DEF SettledInv
  <2>5. ApartInv'  BY <1>0, <2>1, <2>2, <2>3 DEF ApartInv
  <2>6. Abs!Tick  BY <2>1, <2>3 DEF Abs!Tick, SettledBits
  <2> QED  BY <2>4, <2>5, <2>6 DEF RunInv, Abs!Next
<1>3. ASSUME NEW c \in CPUs, Step(c), Settle, ~apart'
      PROVE  RunInv' /\ [Abs!Next]_(Abs!vars)
  <2>1. settled' = settled /\ now' = now  BY <1>3, OthersStand DEF Settle
  <2>2. SettledInv' /\ ApartInv'  BY <1>0, <1>3, <2>1 DEF SettledInv, ApartInv
  <2>3. UNCHANGED Abs!vars  BY <2>1 DEF Abs!vars, SettledBits
  <2> QED  BY <2>2, <2>3 DEF RunInv
<1>4. ASSUME NEW c \in CPUs, Step(c), Settle, apart'
      PROVE  RunInv' /\ [Abs!Next]_(Abs!vars)
  BY <1>4, ApartStep
<1> QED  BY <1>1, <1>2, <1>3, <1>4 DEF RunNext, Next

LEMMA RunStart == RunInit => RunInv /\ Abs!Init
<1> SUFFICES ASSUME RunInit PROVE RunInv /\ Abs!Init  OBVIOUS
<1>1. /\ now = Boot /\ gen = 0 /\ start_ns = 0 /\ cpu = [c \in CPUs |-> Idle]
      /\ bloom_bits = [bank \in {0, 1} |-> [w \in Words |-> [gen |-> 0, bits |-> {}]]]
      /\ settled.gen = gen /\ settled.start_ns = start_ns /\ settled.bloom_bits = bloom_bits
      /\ settled.is_retrans = FALSE
  BY DEF RunInit, Init
<1>2. settled \in [gen : Nat, start_ns : Nat, is_retrans : BOOLEAN,
                   bloom_bits : [{0, 1} -> [Words -> [gen : Nat, bits : SUBSET Bits]]]]
  <2>1. bloom_bits \in [{0, 1} -> [Words -> [gen : Nat, bits : SUBSET Bits]]]  BY <1>1
  <2> QED  BY <1>1, <2>1 DEF RunInit
<1>3. SettledInv  BY <1>1, <1>2 DEF SettledInv
<1>4. Busy = {}  BY <1>1 DEF Busy, Idle
<1>5. ApartInv  BY <1>1, <1>4 DEF ApartInv
<1>6. \A g \in Int : SettledBits(g) = {}
  <2> SUFFICES ASSUME NEW g \in Int, NEW b \in Bits PROVE b \notin SettledBits(g)
    BY DEF SettledBits
  <2>1. bloom_bits[Bank(g)][WordOf(b)] = [gen |-> 0, bits |-> {}]
    BY <1>1, BankParity, WordsOfBits
  <2> QED  BY <1>1, <2>1 DEF SettledBits
<1>7. Abs!Init  BY <1>1, <1>6, SMPAssumption DEF Abs!Init
<1> QED  BY <1>3, <1>5, <1>7 DEF RunInv

\* The same for packets that do not overlap: between two accesses of one, the
\* maps are the settled ones with what the packet has done so far.
THEOREM RunInvariant == RunSpec => [](TypeOK /\ SMPInv /\ RunInv)
<1>1. RunSpec => Spec
  <2>1. RunInit => Init  BY DEF RunInit
  <2>2. [RunNext]_<<vars, apart, settled>> => [Next]_vars  BY DEF RunNext
  <2> QED  BY <2>1, <2>2, PTL DEF RunSpec, Spec
<1>2. RunInit => RunInv  BY RunStart
<1>3. /\ TypeOK /\ SMPInv /\ RunInv /\ TypeOK' /\ SMPInv'
      /\ [RunNext]_<<vars, apart, settled>>
      => RunInv'
  BY RunStep
<1> QED  BY <1>1, <1>2, <1>3, SMPInvariant, PTL DEF RunSpec

\* bloom_maybe_roll_epoch and bloom_test_and_set, access by access, are one
\* step of the two-age set for packets that follow one another: nothing of a
\* packet stays half done, and none finds the bits it is setting itself.
THEOREM PacketsAreAtomic == RunSpec => PacketIsAtomic
<1>1. RunInit => Abs!Init  BY RunStart
<1>2. /\ TypeOK /\ SMPInv /\ RunInv /\ TypeOK' /\ SMPInv'
      /\ [RunNext]_<<vars, apart, settled>>
      => [Abs!Next]_(Abs!vars)
  BY RunStep
<1> QED  BY <1>1, <1>2, RunInvariant, PTL DEF RunSpec, PacketIsAtomic, Abs!Spec
=============================================================================
