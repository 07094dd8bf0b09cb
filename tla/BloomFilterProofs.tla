--------------------------- MODULE BloomFilterProofs ---------------------------
(***************************************************************************)
(* Theorems about BloomFilter, for any keys, bits, hashes, word size and   *)
(* epoch length.                                                           *)
(***************************************************************************)
EXTENDS BloomFilter, TLAPS

\* The words are well formed after bloom_set_bit_gen.
LEMMA SetBitType ==
  ASSUME NEW bb \in [{0, 1} -> [Words -> BloomWord]],
         NEW bit \in Bits, NEW g \in Nat
  PROVE  bloom_set_bit_gen(bb, bit, g) \in [{0, 1} -> [Words -> BloomWord]]
<1>1. g % 2 \in {0, 1}  OBVIOUS
<1>2. WordOf(bit) \in Words  BY DEF Words
<1>3. QED  BY <1>1, <1>2 DEF bloom_set_bit_gen, BloomWord

\* bloom_set_bit_gen adds the bit, and nothing else, to its generation.
LEMMA SetBitCurrent ==
  ASSUME NEW bb \in [{0, 1} -> [Words -> BloomWord]],
         NEW bit \in Bits, NEW g \in Nat
  PROVE  BitsAt(bloom_set_bit_gen(bb, bit, g), g) = BitsAt(bb, g) \union {bit}
<1>1. g % 2 \in {0, 1}  OBVIOUS
<1>2. \A b \in Bits : WordOf(b) \in Words  BY DEF Words
<1>3. QED
  BY <1>1, <1>2 DEF BitsAt, bloom_test_bit_gen, bloom_set_bit_gen, BloomWord

\* bloom_set_bit_gen leaves the generation before as it was: it is in the
\* other bank.
LEMMA SetBitPrevious ==
  ASSUME NEW bb \in [{0, 1} -> [Words -> BloomWord]],
         NEW bit \in Bits, NEW g \in Nat
  PROVE  BitsAt(bloom_set_bit_gen(bb, bit, g), g - 1) = BitsAt(bb, g - 1)
<1>1. g % 2 \in {0, 1} /\ (g - 1) % 2 \in {0, 1} /\ (g - 1) % 2 # g % 2
  OBVIOUS
<1>2. \A b \in Bits : WordOf(b) \in Words  BY DEF Words
<1>3. QED
  BY <1>1, <1>2 DEF BitsAt, bloom_test_bit_gen, bloom_set_bit_gen, BloomWord

\* bloom_set_bit_gen writes no tag of a generation that has not begun.
LEMMA SetBitTags ==
  ASSUME NEW bb \in [{0, 1} -> [Words -> BloomWord]],
         NEW bit \in Bits, NEW g \in Nat, TagsUpTo(bb, g)
  PROVE  TagsUpTo(bloom_set_bit_gen(bb, bit, g), g)
<1>1. g % 2 \in {0, 1}  OBVIOUS
<1>2. WordOf(bit) \in Words  BY DEF Words
<1>3. QED
  BY <1>1, <1>2 DEF TagsUpTo, bloom_set_bit_gen, BloomWord

(***************************************************************************)
(* The three sets of bloom_test_and_set add exactly the bits of the key to *)
(* the current generation.                                                 *)
(***************************************************************************)
LEMMA InsertEffect ==
  ASSUME NEW bb \in [{0, 1} -> [Words -> BloomWord]],
         NEW k \in Keys, NEW g \in Nat, TagsUpTo(bb, g)
  PROVE  /\ Insert(bb, k, g) \in [{0, 1} -> [Words -> BloomWord]]
         /\ BitsAt(Insert(bb, k, g), g) = BitsAt(bb, g) \union KeyBits(k)
         /\ BitsAt(Insert(bb, k, g), g - 1) = BitsAt(bb, g - 1)
         /\ TagsUpTo(Insert(bb, k, g), g)
<1> DEFINE b0 == bloom_bit_index[k][0]
           b1 == bloom_bit_index[k][1]
           b2 == bloom_bit_index[k][2]
           bb1 == bloom_set_bit_gen(bb, b0, g)
           bb2 == bloom_set_bit_gen(bb1, b1, g)
           bb3 == bloom_set_bit_gen(bb2, b2, g)
<1>1. b0 \in Bits /\ b1 \in Bits /\ b2 \in Bits  BY HashAssumption
<1>2. KeyBits(k) = {b0, b1, b2}  BY DEF KeyBits
<1>3. Insert(bb, k, g) = bb3  BY DEF Insert
<1> HIDE DEF b0, b1, b2
<1>4. /\ bb1 \in [{0, 1} -> [Words -> BloomWord]]
      /\ BitsAt(bb1, g) = BitsAt(bb, g) \union {b0}
      /\ BitsAt(bb1, g - 1) = BitsAt(bb, g - 1)
      /\ TagsUpTo(bb1, g)
  BY <1>1, SetBitType, SetBitCurrent, SetBitPrevious, SetBitTags
<1> HIDE DEF bb1
<1>5. /\ bb2 \in [{0, 1} -> [Words -> BloomWord]]
      /\ BitsAt(bb2, g) = BitsAt(bb1, g) \union {b1}
      /\ BitsAt(bb2, g - 1) = BitsAt(bb1, g - 1)
      /\ TagsUpTo(bb2, g)
  BY <1>1, <1>4, SetBitType, SetBitCurrent, SetBitPrevious, SetBitTags
<1> HIDE DEF bb2
<1>6. /\ bb3 \in [{0, 1} -> [Words -> BloomWord]]
      /\ BitsAt(bb3, g) = BitsAt(bb2, g) \union {b2}
      /\ BitsAt(bb3, g - 1) = BitsAt(bb2, g - 1)
      /\ TagsUpTo(bb3, g)
  BY <1>1, <1>5, SetBitType, SetBitCurrent, SetBitPrevious, SetBitTags
<1> HIDE DEF bb3
<1>7. QED  BY <1>2, <1>3, <1>4, <1>5, <1>6

(***************************************************************************)
(* The verdict is membership of all the key's bits in the two generations. *)
(***************************************************************************)
LEMMA SeenMeaning ==
  ASSUME NEW bb, NEW k \in Keys, NEW g
  PROVE  Seen(bb, k, g) <=> KeyBits(k) \subseteq (BitsAt(bb, g) \union BitsAt(bb, g - 1))
<1>1. \A i \in 0..2 : bloom_bit_index[k][i] \in Bits  BY HashAssumption
<1>2. QED  BY <1>1 DEF Seen, KeyBits, BitsAt

(***************************************************************************)
(* In a generation that no word is tagged with, every bit reads as unset.  *)
(***************************************************************************)
LEMMA FutureGenerationEmpty ==
  ASSUME NEW bb \in [{0, 1} -> [Words -> BloomWord]], NEW g \in Nat, TagsUpTo(bb, g)
  PROVE  BitsAt(bb, g + 1) = {}
<1>1. (g + 1) % 2 \in {0, 1}  OBVIOUS
<1>2. \A b \in Bits : WordOf(b) \in Words  BY DEF Words
<1>3. QED
  BY <1>1, <1>2 DEF BitsAt, bloom_test_bit_gen, TagsUpTo, BloomWord

(***************************************************************************)
(* bloom_maybe_roll_epoch as the two ages see it.                          *)
(***************************************************************************)
LEMMA RollEffect ==
  ASSUME TypeOK, TagsUpTo(bloom_bits, gen), start_ns <= now,
         NEW g, g = bloom_maybe_roll_epoch.gen,
         NEW s, s = bloom_maybe_roll_epoch.start_ns
  PROVE  /\ g \in Nat
         /\ s \in Nat
         /\ s <= now
         /\ TagsUpTo(bloom_bits, g)
         /\ EpochOver <=> Abs!EpochOver
         /\ s = IF EpochOver THEN now ELSE start_ns
         /\ BitsAt(bloom_bits, g) = Abs!CurrentAfterRoll
         /\ BitsAt(bloom_bits, g - 1) = Abs!PreviousAfterRoll
<1>1. EpochOver <=> Abs!EpochOver
  BY EpochAssumption DEF EpochOver, Abs!EpochOver, TypeOK
<1>2. CASE EpochOver
  <2>1. g = gen + 1 /\ s = now  BY <1>2 DEF bloom_maybe_roll_epoch
  <2>2. BitsAt(bloom_bits, g) = {}
    BY <2>1, FutureGenerationEmpty DEF TypeOK
  <2>3. g - 1 = gen  BY <2>1 DEF TypeOK
  <2>4. TagsUpTo(bloom_bits, g)
    BY <2>1 DEF TagsUpTo, TypeOK, BloomWord
  <2>5. QED
    BY <1>1, <1>2, <2>1, <2>2, <2>3, <2>4
    DEF Abs!CurrentAfterRoll, Abs!PreviousAfterRoll, TypeOK
<1>3. CASE ~EpochOver
  <2>1. g = gen /\ s = start_ns  BY <1>3 DEF bloom_maybe_roll_epoch
  <2>2. QED
    BY <1>1, <1>3, <2>1 DEF Abs!CurrentAfterRoll, Abs!PreviousAfterRoll, TypeOK
<1>4. QED  BY <1>2, <1>3

-----------------------------------------------------------------------------

(***************************************************************************)
(* What one lookup does to the two ages, the clock and the history: the    *)
(* step shared by the invariance and the refinement proofs.                *)
(***************************************************************************)
LEMMA LookupEffect ==
  ASSUME TypeOK, FilterInv, NEW k \in Keys, bloom_test_and_set(k)
  PROVE  /\ gen' \in Nat /\ start_ns' \in Nat /\ start_ns' <= now'
         /\ bloom_bits' \in [{0, 1} -> [Words -> BloomWord]]
         /\ TagsUpTo(bloom_bits, gen)'
         /\ start_ns' = IF EpochOver THEN now ELSE start_ns
         /\ BitsAt(bloom_bits, gen)' = Abs!CurrentAfterRoll \union KeyBits(k)
         /\ BitsAt(bloom_bits, gen - 1)' = Abs!PreviousAfterRoll
         /\ is_retrans' = (KeyBits(k) \subseteq
                            (Abs!CurrentAfterRoll \union Abs!PreviousAfterRoll))
<1>1. /\ gen' \in Nat /\ start_ns' \in Nat /\ start_ns' <= now
      /\ TagsUpTo(bloom_bits, gen')
      /\ start_ns' = IF EpochOver THEN now ELSE start_ns
      /\ BitsAt(bloom_bits, gen') = Abs!CurrentAfterRoll
      /\ BitsAt(bloom_bits, gen' - 1) = Abs!PreviousAfterRoll
  BY RollEffect DEF bloom_test_and_set, FilterInv
<1>2. bloom_bits' = Insert(bloom_bits, k, gen')  BY DEF bloom_test_and_set
<1>3. /\ bloom_bits' \in [{0, 1} -> [Words -> BloomWord]]
      /\ BitsAt(bloom_bits', gen') = BitsAt(bloom_bits, gen') \union KeyBits(k)
      /\ BitsAt(bloom_bits', gen' - 1) = BitsAt(bloom_bits, gen' - 1)
      /\ TagsUpTo(bloom_bits', gen')
  BY <1>1, <1>2, InsertEffect DEF TypeOK
<1>4. is_retrans' = (KeyBits(k) \subseteq
                     (Abs!CurrentAfterRoll \union Abs!PreviousAfterRoll))
  <2>1. is_retrans' = Seen(bloom_bits, k, gen')  BY DEF bloom_test_and_set
  <2>2. Seen(bloom_bits, k, gen') \in BOOLEAN  BY DEF Seen
  <2>3. QED  BY <1>1, <2>1, <2>2, SeenMeaning
<1>5. now' = now  BY DEF bloom_test_and_set
<1>6. /\ BitsAt(bloom_bits, gen)' = BitsAt(bloom_bits', gen')
      /\ BitsAt(bloom_bits, gen - 1)' = BitsAt(bloom_bits', gen' - 1)
      /\ TagsUpTo(bloom_bits, gen)' = TagsUpTo(bloom_bits', gen')
  BY DEF BitsAt, TagsUpTo
<1>7. QED  BY <1>1, <1>3, <1>4, <1>5, <1>6

(***************************************************************************)
(* The same for a packet that is not looked up.                            *)
(***************************************************************************)
LEMMA NoLookupEffect ==
  ASSUME TypeOK, FilterInv, NoLookup
  PROVE  /\ gen' \in Nat /\ start_ns' \in Nat /\ start_ns' <= now'
         /\ TagsUpTo(bloom_bits, gen)'
         /\ start_ns' = IF EpochOver THEN now ELSE start_ns
         /\ BitsAt(bloom_bits, gen)' = Abs!CurrentAfterRoll
         /\ BitsAt(bloom_bits, gen - 1)' = Abs!PreviousAfterRoll
<1>1. /\ gen' \in Nat /\ start_ns' \in Nat /\ start_ns' <= now
      /\ TagsUpTo(bloom_bits, gen')
      /\ start_ns' = IF EpochOver THEN now ELSE start_ns
      /\ BitsAt(bloom_bits, gen') = Abs!CurrentAfterRoll
      /\ BitsAt(bloom_bits, gen' - 1) = Abs!PreviousAfterRoll
  BY RollEffect DEF NoLookup, FilterInv
<1>2. now' = now /\ bloom_bits' = bloom_bits  BY DEF NoLookup
<1>3. QED  BY <1>1, <1>2 DEF BitsAt, TagsUpTo

(***************************************************************************)
(* A key that stays remembered across an epoch check: the recent bits move *)
(* with the epoch, and a lookup is recent enough to survive exactly while  *)
(* it is at most BLOOM_EPOCH_NS old.                                       *)
(***************************************************************************)
LEMMA RememberedAfterRoll ==
  ASSUME TypeOK, FilterInv, NEW k \in Keys, lastSeen[k] # Never,
         NEW s, s = IF EpochOver THEN now ELSE start_ns
  PROVE  /\ lastSeen[k] \in Nat
         /\ lastSeen[k] <= s + BLOOM_EPOCH_NS
         /\ lastSeen[k] >= s => KeyBits(k) \subseteq Abs!CurrentAfterRoll
         /\ lastSeen[k] < s /\ lastSeen[k] >= s - BLOOM_EPOCH_NS =>
              KeyBits(k) \subseteq Abs!PreviousAfterRoll
<1>1. lastSeen[k] \in Nat /\ now \in Nat /\ start_ns \in Nat  BY DEF TypeOK, Never
<1>2. KeyRemembered(k)  BY DEF FilterInv
<1>3. EpochOver <=> Abs!EpochOver
  BY EpochAssumption, <1>1 DEF EpochOver, Abs!EpochOver
<1>4. CASE EpochOver
  <2>1. s = now /\ now - start_ns > BLOOM_EPOCH_NS  BY <1>4 DEF EpochOver
  <2>2. lastSeen[k] <= now /\ lastSeen[k] <= start_ns + BLOOM_EPOCH_NS
    BY <1>2 DEF KeyRemembered
  <2>3. lastSeen[k] < s  BY <1>1, <2>1, <2>2, EpochAssumption
  <2>4. lastSeen[k] >= s - BLOOM_EPOCH_NS => lastSeen[k] >= start_ns
    BY <1>1, <2>1, EpochAssumption
  <2>5. lastSeen[k] >= start_ns => KeyBits(k) \subseteq BitsAt(bloom_bits, gen)
    BY <1>2 DEF KeyRemembered
  <2>6. Abs!PreviousAfterRoll = BitsAt(bloom_bits, gen)
    BY <1>3, <1>4 DEF Abs!PreviousAfterRoll
  <2>7. QED  BY <1>1, <2>1, <2>2, <2>3, <2>4, <2>5, <2>6, EpochAssumption
<1>5. CASE ~EpochOver
  <2>1. s = start_ns  BY <1>5
  <2>2. /\ Abs!CurrentAfterRoll = BitsAt(bloom_bits, gen)
        /\ Abs!PreviousAfterRoll = BitsAt(bloom_bits, gen - 1)
    BY <1>3, <1>5 DEF Abs!CurrentAfterRoll, Abs!PreviousAfterRoll
  <2>3. QED  BY <1>1, <1>2, <2>1, <2>2 DEF KeyRemembered
<1>6. QED  BY <1>4, <1>5

\* The maps as the kernel creates them satisfy the invariant.
LEMMA InitInv == Init => TypeOK /\ FilterInv
<1> SUFFICES ASSUME Init PROVE TypeOK /\ FilterInv  OBVIOUS
<1>1. TypeOK
  <2>1. bloom_bits \in [{0, 1} -> [Words -> BloomWord]]
    BY DEF Init, BloomWord
  <2>2. lastSeen \in [Keys -> Nat \union {Never}] /\ gap \in Nat \union {Never}
    BY DEF Init
  <2>3. now \in Nat /\ gen \in Nat /\ start_ns \in Nat
    BY MaxNowAssumption DEF Init
  <2>4. is_retrans \in BOOLEAN  BY DEF Init
  <2>5. QED  BY <2>1, <2>2, <2>3, <2>4 DEF TypeOK
<1>2. TagsUpTo(bloom_bits, gen)  BY DEF Init, TagsUpTo
<1>3. start_ns <= now  BY MaxNowAssumption DEF Init
<1>4. \A k \in Keys : KeyRemembered(k)  BY DEF Init, KeyRemembered
<1>5. MissOnlyAfterEpoch  BY DEF Init, MissOnlyAfterEpoch
<1>6. QED  BY <1>1, <1>2, <1>3, <1>4, <1>5 DEF FilterInv

\* Every packet and every tick of the clock preserves the invariant.
LEMMA NextInv == TypeOK /\ FilterInv /\ [Next]_vars => (TypeOK /\ FilterInv)'
<1> SUFFICES ASSUME TypeOK, FilterInv, [Next]_vars
             PROVE  (TypeOK /\ FilterInv)'
  OBVIOUS
<1>1. ASSUME NEW k \in Keys, bloom_test_and_set(k)
      PROVE  (TypeOK /\ FilterInv)'
  <2>1. /\ gen' \in Nat /\ start_ns' \in Nat /\ start_ns' <= now'
        /\ bloom_bits' \in [{0, 1} -> [Words -> BloomWord]]
        /\ TagsUpTo(bloom_bits, gen)'
        /\ start_ns' = IF EpochOver THEN now ELSE start_ns
        /\ BitsAt(bloom_bits, gen)' = Abs!CurrentAfterRoll \union KeyBits(k)
        /\ BitsAt(bloom_bits, gen - 1)' = Abs!PreviousAfterRoll
        /\ is_retrans' = (KeyBits(k) \subseteq
                           (Abs!CurrentAfterRoll \union Abs!PreviousAfterRoll))
    BY <1>1, LookupEffect
  <2>2. /\ now' = now
        /\ lastSeen' = [lastSeen EXCEPT ![k] = now]
        /\ gap' = IF lastSeen[k] = Never THEN Never ELSE now - lastSeen[k]
    BY <1>1 DEF bloom_test_and_set
  <2>3. lastSeen[k] # Never => lastSeen[k] \in Nat /\ lastSeen[k] <= now
    BY DEF TypeOK, FilterInv, KeyRemembered
  <2>4. TypeOK'
    BY <2>1, <2>2, <2>3 DEF TypeOK, Never
  <2>5. ASSUME NEW j \in Keys PROVE KeyRemembered(j)'
    <3>1. CASE j = k
      <4>1. lastSeen'[j] = now  BY <2>2, <3>1 DEF TypeOK
      <4>2. lastSeen'[j] >= start_ns' /\ lastSeen'[j] <= start_ns' + BLOOM_EPOCH_NS
        BY <2>1, <2>2, <4>1, EpochAssumption DEF TypeOK, EpochOver, FilterInv
      <4>3. KeyBits(j) \subseteq BitsAt(bloom_bits, gen)'  BY <2>1, <3>1
      <4>4. QED
        BY <2>1, <2>2, <2>4, <4>1, <4>2, <4>3, EpochAssumption
        DEF KeyRemembered, TypeOK, KeyBits
    <3>2. CASE j # k
      <4>1. lastSeen'[j] = lastSeen[j]  BY <2>2, <3>2 DEF TypeOK
      <4>2. CASE lastSeen[j] = Never  BY <4>1, <4>2 DEF KeyRemembered
      <4>3. CASE lastSeen[j] # Never
        <5>1. /\ lastSeen[j] \in Nat
              /\ lastSeen[j] <= start_ns' + BLOOM_EPOCH_NS
              /\ lastSeen[j] >= start_ns' => KeyBits(j) \subseteq Abs!CurrentAfterRoll
              /\ lastSeen[j] < start_ns' /\ lastSeen[j] >= start_ns' - BLOOM_EPOCH_NS =>
                   KeyBits(j) \subseteq Abs!PreviousAfterRoll
          BY <2>1, <4>3, RememberedAfterRoll
        <5>2. lastSeen[j] <= now  BY <4>3 DEF FilterInv, KeyRemembered
        <5>3. QED
          BY <2>1, <2>2, <4>1, <5>1, <5>2 DEF KeyRemembered, KeyBits
      <4>4. QED  BY <4>2, <4>3
    <3>3. QED  BY <3>1, <3>2
  <2>6. MissOnlyAfterEpoch'
    <3> SUFFICES ASSUME gap' # Never, gap' <= BLOOM_EPOCH_NS PROVE is_retrans'
      BY DEF MissOnlyAfterEpoch
    <3>1. lastSeen[k] # Never /\ gap' = now - lastSeen[k]  BY <2>2
    <3>2. /\ lastSeen[k] \in Nat
          /\ lastSeen[k] >= start_ns' => KeyBits(k) \subseteq Abs!CurrentAfterRoll
          /\ lastSeen[k] < start_ns' /\ lastSeen[k] >= start_ns' - BLOOM_EPOCH_NS =>
               KeyBits(k) \subseteq Abs!PreviousAfterRoll
      BY <2>1, <3>1, RememberedAfterRoll
    <3>3. lastSeen[k] >= start_ns' \/ (lastSeen[k] < start_ns' /\ lastSeen[k] >= start_ns' - BLOOM_EPOCH_NS)
      BY <2>1, <2>2, <3>1, <3>2, EpochAssumption DEF TypeOK
    <3>4. KeyBits(k) \subseteq (Abs!CurrentAfterRoll \union Abs!PreviousAfterRoll)
      BY <3>2, <3>3
    <3>5. QED  BY <2>1, <3>4
  <2>7. QED  BY <2>1, <2>4, <2>5, <2>6 DEF FilterInv
<1>2. CASE NoLookup
  <2>1. /\ gen' \in Nat /\ start_ns' \in Nat /\ start_ns' <= now'
        /\ TagsUpTo(bloom_bits, gen)'
        /\ start_ns' = IF EpochOver THEN now ELSE start_ns
        /\ BitsAt(bloom_bits, gen)' = Abs!CurrentAfterRoll
        /\ BitsAt(bloom_bits, gen - 1)' = Abs!PreviousAfterRoll
    BY <1>2, NoLookupEffect
  <2>2. now' = now /\ lastSeen' = lastSeen /\ bloom_bits' = bloom_bits
        /\ gap' = Never /\ is_retrans' = FALSE
    BY <1>2 DEF NoLookup
  <2>3. TypeOK'  BY <2>1, <2>2 DEF TypeOK, Never
  <2>4. ASSUME NEW j \in Keys PROVE KeyRemembered(j)'
    <3>1. CASE lastSeen[j] = Never  BY <2>2, <3>1 DEF KeyRemembered
    <3>2. CASE lastSeen[j] # Never
      <4>1. /\ lastSeen[j] <= start_ns' + BLOOM_EPOCH_NS
            /\ lastSeen[j] >= start_ns' => KeyBits(j) \subseteq Abs!CurrentAfterRoll
            /\ lastSeen[j] < start_ns' /\ lastSeen[j] >= start_ns' - BLOOM_EPOCH_NS =>
                 KeyBits(j) \subseteq Abs!PreviousAfterRoll
        BY <2>1, <3>2, RememberedAfterRoll
      <4>2. lastSeen[j] <= now  BY <3>2 DEF FilterInv, KeyRemembered
      <4>3. QED  BY <2>1, <2>2, <4>1, <4>2 DEF KeyRemembered, KeyBits
    <3>3. QED  BY <3>1, <3>2
  <2>5. MissOnlyAfterEpoch'  BY <2>2 DEF MissOnlyAfterEpoch
  <2>6. QED  BY <2>1, <2>3, <2>4, <2>5 DEF FilterInv
<1>3. CASE bpf_ktime_get_ns
  <2>1. /\ now' = now + 1
        /\ UNCHANGED <<gen, start_ns, bloom_bits, is_retrans, lastSeen, gap>>
    BY <1>3 DEF bpf_ktime_get_ns
  <2>2. TypeOK'  BY <2>1 DEF TypeOK
  <2>3. ASSUME NEW j \in Keys PROVE KeyRemembered(j)'
    <3>1. KeyRemembered(j)  BY DEF FilterInv
    <3>2. lastSeen[j] # Never => lastSeen[j] \in Nat  BY DEF TypeOK
    <3>3. QED
      BY <2>1, <3>1, <3>2 DEF KeyRemembered, KeyBits, BitsAt, bloom_test_bit_gen, TypeOK
  <2>4. QED
    BY <2>1, <2>2, <2>3 DEF FilterInv, MissOnlyAfterEpoch, TagsUpTo, TypeOK
<1>4. CASE UNCHANGED vars
  BY <1>4 DEF vars, TypeOK, FilterInv, TagsUpTo, KeyRemembered, KeyBits,
              BitsAt, bloom_test_bit_gen, MissOnlyAfterEpoch
<1>5. QED  BY <1>1, <1>2, <1>3, <1>4 DEF Next

(***************************************************************************)
(* Every state of the filter is well typed and satisfies the inductive     *)
(* invariant.                                                              *)
(***************************************************************************)
THEOREM FilterInvariance == Spec => [](TypeOK /\ FilterInv)
BY InitInv, NextInv, PTL DEF Spec

(***************************************************************************)
(* Every variable keeps the type of the BPF map it stands for.             *)
(***************************************************************************)
THEOREM TypeCorrect == Spec => []TypeOK
BY FilterInvariance, PTL

(***************************************************************************)
(* bloom_test_and_set never misses a key looked up at most one epoch       *)
(* length before, whatever the hashes, the word size and the traffic.      *)
(***************************************************************************)
THEOREM NoMissWithinEpoch == Spec => []MissOnlyAfterEpoch
<1>1. FilterInv => MissOnlyAfterEpoch  BY DEF FilterInv
<1>2. QED  BY <1>1, FilterInvariance, PTL

(***************************************************************************)
(* The generation-tagged words implement the two-age set of RecentBits.    *)
(***************************************************************************)
THEOREM FilterRefinement == Spec => ImplementsRecentBits
<1>1. Init => Abs!Init
  <2> SUFFICES ASSUME Init PROVE Abs!Init  OBVIOUS
  <2>1. /\ gen = 0
        /\ gen % 2 \in {0, 1}
        /\ (gen - 1) % 2 \in {0, 1}
        /\ gen - 1 # 0
    <3>1. \A g \in Nat : g % 2 \in {0, 1} /\ (g - 1) % 2 \in {0, 1}  OBVIOUS
    <3>2. gen \in Nat  BY InitInv DEF TypeOK
    <3>3. gen % 2 \in {0, 1} /\ (gen - 1) % 2 \in {0, 1}  BY <3>1, <3>2
    <3>4. gen = 0  BY DEF Init
    <3>5. gen - 1 # 0  BY <3>4
    <3>6. QED  BY <3>3, <3>4, <3>5
  <2>2. BitsAt(bloom_bits, gen) = {}
    BY <2>1 DEF Init, BitsAt, bloom_test_bit_gen, Words
  <2>3. BitsAt(bloom_bits, gen - 1) = {}
    BY <2>1 DEF Init, BitsAt, bloom_test_bit_gen, Words
  <2>4. QED  BY <2>2, <2>3 DEF Init, Abs!Init
<1>2. TypeOK /\ FilterInv /\ [Next]_vars => [Abs!Next]_(Abs!vars)
  <2> SUFFICES ASSUME TypeOK, FilterInv, [Next]_vars
               PROVE  [Abs!Next]_(Abs!vars)
    OBVIOUS
  <2>1. ASSUME NEW k \in Keys, bloom_test_and_set(k) PROVE Abs!Next
    <3>1. Abs!EpochOver <=> EpochOver
      BY EpochAssumption DEF EpochOver, Abs!EpochOver, TypeOK
    <3>2. Abs!Lookup(k)
      BY <2>1, <3>1, LookupEffect DEF Abs!Lookup, bloom_test_and_set
    <3>3. QED  BY <3>2 DEF Abs!Next
  <2>2. CASE NoLookup
    <3>1. Abs!EpochOver <=> EpochOver
      BY EpochAssumption DEF EpochOver, Abs!EpochOver, TypeOK
    <3>2. Abs!Age
      BY <2>2, <3>1, NoLookupEffect DEF Abs!Age, NoLookup
    <3>3. QED  BY <3>2 DEF Abs!Next
  <2>3. CASE bpf_ktime_get_ns
    <3>1. Abs!Tick
      BY <2>3 DEF Abs!Tick, bpf_ktime_get_ns, BitsAt, bloom_test_bit_gen
    <3>2. QED  BY <3>1 DEF Abs!Next
  <2>4. CASE UNCHANGED vars
    BY <2>4 DEF vars, Abs!vars, BitsAt, bloom_test_bit_gen
  <2>5. QED  BY <2>1, <2>2, <2>3, <2>4 DEF Next
<1>3. QED
  BY <1>1, <1>2, FilterInvariance, PTL DEF Spec, ImplementsRecentBits, Abs!Spec

=============================================================================
