--------------------------- MODULE RetransKeyProofs ---------------------------
(***************************************************************************)
(* Proofs about RetransKey: a repeated segment is flagged, and new data of  *)
(* full segments is not, for every initial sequence number, byte order,     *)
(* width of sequence numbers, block, and length of an epoch.                *)
(*                                                                         *)
(* And about ZoneConfig, the tables that name a packet's zone: an event has *)
(* the zone of the longest configured subnet, for any configurations,       *)
(* widths of addresses and identifiers, and capacity of the tables.         *)
(***************************************************************************)
EXTENDS RetransKey, ZoneConfig, FiniteSetTheorems, WellFoundedInduction, TLAPS

-----------------------------------------------------------------------------
(* The key *)

\* Two swaps of the halves of a sequence number cancel.
LEMMA SwabTwice ==
  ASSUME NEW x \in Seqs
  PROVE  Swab(x) \in Seqs /\ Swab(Swab(x)) = x
<1> DEFINE hi == x \div Half
           lo == x % Half
<1>1. Half \in Nat \ {0} /\ x \in Nat /\ x < Half * Half
  BY KeyAssumption DEF Seqs, SeqSpace
<1>2. x = Half * hi + lo /\ lo \in 0..Half - 1 /\ hi \in Nat
  BY <1>1
<1>3. hi < Half
  BY <1>1
<1> HIDE DEF hi, lo
<1>4. (lo * Half + hi) % Half = hi /\ (lo * Half + hi) \div Half = lo
  BY <1>1, <1>2, <1>3
<1>5. Swab(x) = lo * Half + hi
  BY Zenon DEF Swab, hi, lo
<1>6. Swab(Swab(x)) = hi * Half + lo
  BY <1>4, <1>5, Zenon DEF Swab
<1>7. lo * Half + hi \in 0..Half * Half - 1
  <2>1. lo * Half <= (Half - 1) * Half
    BY <1>1, <1>2
  <2> QED  BY <2>1, <1>1, <1>2, <1>3
<1>8. hi * Half + lo = x
  BY <1>1, <1>2
<1> QED  BY <1>5, <1>6, <1>7, <1>8, Zenon DEF Seqs, SeqSpace

\* The sequence number at a position.
SeqAt(pos) == (isn + pos) % SeqSpace

LEMMA SpaceFacts ==
  /\ SeqSpace \in Nat \ {0} /\ Half \in Nat \ {0} /\ Block \in Nat \ {0} /\ SeqSpace % Block = 0
  /\ BLOOM_EPOCH_NS \in Nat /\ MaxNow \in Nat /\ MaxPackets \in Nat
<1>1. SeqSpace \in Nat \ {0}
  BY KeyAssumption DEF SeqSpace
<1> QED  BY <1>1, KeyAssumption, Zenon DEF SeqSpace

\* Whatever the byte order, the key is that of the sequence number.
LEMMA SeqKey ==
  ASSUME NEW pos \in Nat, NEW len \in Nat, isn \in Seqs
  PROVE  /\ SeqAt(pos) \in Seqs
         /\ seq_key(pos, len) = IF len > 0 THEN SeqAt(pos) \div Block ELSE SeqAt(pos)
         /\ seq_key(pos, len) \in Seqs
<1>1. isn + pos \in Nat
  BY SpaceFacts DEF Seqs
<1>2. SeqAt(pos) \in Seqs
  BY <1>1, SpaceFacts DEF Seqs, SeqAt
<1>3. bpf_ntohl(LoadedSeq(pos)) = SeqAt(pos)
  BY <1>2, SwabTwice, KeyAssumption, Zenon DEF bpf_ntohl, LoadedSeq, SeqAt
<1>4. seq_key(pos, len) = IF len > 0 THEN SeqAt(pos) \div Block ELSE SeqAt(pos)
  BY <1>3, Zenon DEF seq_key
<1>5. SeqAt(pos) \div Block \in Seqs
  BY <1>2, SpaceFacts DEF Seqs
<1> QED  BY <1>2, <1>4, <1>5, Zenon

\* Less than a block lies between sequence numbers with one key.
LEMMA SameBlock ==
  ASSUME NEW a \in Nat, NEW b \in Nat, a \div Block = b \div Block
  PROVE  a - b < Block /\ b - a < Block
<1>1. a = Block * (a \div Block) + (a % Block) /\ a % Block \in 0..Block - 1
  BY SpaceFacts
<1>2. b = Block * (b \div Block) + (b % Block) /\ b % Block \in 0..Block - 1
  BY SpaceFacts
<1> QED  BY <1>1, <1>2, SpaceFacts

\* Two positions at least a block apart, and a block short of the whole
\* sequence space, have different keys.
LEMMA KeysApart ==
  ASSUME isn \in Seqs, NEW p \in Nat, NEW q \in Nat,
         q - p >= Block, q <= SeqSpace - Block
  PROVE  SeqAt(p) \div Block # SeqAt(q) \div Block
<1> SUFFICES ASSUME SeqAt(p) \div Block = SeqAt(q) \div Block PROVE FALSE
  OBVIOUS
<1>1. /\ isn \in Nat /\ isn < SeqSpace /\ isn + p \in Nat /\ isn + q \in Nat
      /\ isn + p < 2 * SeqSpace /\ isn + q < 2 * SeqSpace
  BY SpaceFacts DEF Seqs
<1>2. SeqAt(p) = isn + p \/ SeqAt(p) = (isn + p) - SeqSpace
  BY <1>1, SpaceFacts DEF SeqAt
<1>3. SeqAt(q) = isn + q \/ SeqAt(q) = (isn + q) - SeqSpace
  BY <1>1, SpaceFacts DEF SeqAt
<1>4. SeqAt(p) \in Nat /\ SeqAt(q) \in Nat
  BY <1>1, SpaceFacts DEF SeqAt
<1>5. SeqAt(p) - SeqAt(q) < Block /\ SeqAt(q) - SeqAt(p) < Block
  BY <1>4, SameBlock
<1> QED  BY <1>1, <1>2, <1>3, <1>4, <1>5, SpaceFacts

\* No data segment has a key beyond the number of blocks.
LEMMA DataKeyBound ==
  ASSUME NEW a \in Seqs
  PROVE  a \div Block < SeqSpace \div Block
<1>1. SeqSpace = Block * (SeqSpace \div Block) /\ SeqSpace \div Block \in Nat
  BY SpaceFacts
<1>2. a \in Nat /\ a < Block * (SeqSpace \div Block)
  BY <1>1, SpaceFacts DEF Seqs
<1> HIDE DEF SeqSpace
<1> QED  BY <1>1, <1>2, SpaceFacts

-----------------------------------------------------------------------------
(* Ageing *)

\* epochStart after the epoch check.
StartAfterRoll == IF Filter!EpochOver THEN now ELSE epochStart

\* The epoch check keeps what AgeInv says of a segment.
LEMMA AgeAfterRoll ==
  ASSUME TypeOK, NEW s \in sent, AgeOf(s)
  PROVE  /\ StartAfterRoll \in 0..now
         /\ now - StartAfterRoll <= BLOOM_EPOCH_NS
         /\ s.at - StartAfterRoll <= BLOOM_EPOCH_NS
         /\ s.at >= StartAfterRoll => seq_key(s.pos, s.len) \in Filter!CurrentAfterRoll
         /\ now - s.at <= BLOOM_EPOCH_NS
              => seq_key(s.pos, s.len) \in Filter!CurrentAfterRoll \union Filter!PreviousAfterRoll
<1> DEFINE k == seq_key(s.pos, s.len)
<1>1. now \in Nat /\ epochStart \in 0..now /\ s.at \in 0..now
  BY SpaceFacts DEF TypeOK
<1>2. /\ s.at - epochStart <= BLOOM_EPOCH_NS
      /\ s.at >= epochStart => k \in current
      /\ now - s.at <= BLOOM_EPOCH_NS => k \in current \union previous
  BY Zenon DEF AgeOf
<1> HIDE DEF k
<1> USE DEF StartAfterRoll, Filter!EpochOver, Filter!CurrentAfterRoll, Filter!PreviousAfterRoll
<1>3. CASE Filter!EpochOver
  <2>1. now - epochStart > BLOOM_EPOCH_NS
    BY <1>3
  <2>2. StartAfterRoll = now /\ Filter!PreviousAfterRoll = current
    BY <1>3, Zenon
  <2>3. s.at < now /\ (now - s.at <= BLOOM_EPOCH_NS => s.at >= epochStart)
    BY <2>1, <1>1, <1>2, SpaceFacts, SMT
  <2> QED  BY <2>2, <2>3, <1>1, <1>2, SpaceFacts, SMT DEF k
<1>4. CASE ~Filter!EpochOver
  <2>1. now - epochStart <= BLOOM_EPOCH_NS
    BY <1>4, <1>1, SpaceFacts
  <2>2. /\ StartAfterRoll = epochStart /\ Filter!PreviousAfterRoll = previous
        /\ Filter!CurrentAfterRoll = current
    BY <1>4, Zenon
  <2> QED  BY <2>1, <2>2, <1>1, <1>2, Zenon DEF k
<1> QED  BY <1>3, <1>4

\* The epoch check learns nothing.
LEMMA RollLearnsNothing ==
  /\ Filter!CurrentAfterRoll \subseteq current
  /\ Filter!PreviousAfterRoll \subseteq current \union previous
  BY DEF Filter!CurrentAfterRoll, Filter!PreviousAfterRoll

LEMMA StartTyped ==
  ASSUME TypeOK
  PROVE  StartAfterRoll \in 0..now /\ now - StartAfterRoll <= BLOOM_EPOCH_NS /\ now \in Nat
<1>1. now \in Nat /\ epochStart \in 0..now
  BY SpaceFacts DEF TypeOK
<1>2. CASE Filter!EpochOver
  BY <1>1, <1>2, SpaceFacts DEF StartAfterRoll
<1>3. CASE ~Filter!EpochOver
  BY <1>1, <1>3, SpaceFacts DEF StartAfterRoll, Filter!EpochOver
<1> QED  BY <1>2, <1>3

\* Of the segments that started here there is a last one.
LEMMA LastSeen ==
  ASSUME TypeOK, NEW pos, NEW len, SeenBefore(pos, len) # {}
  PROVE  \E s \in SeenBefore(pos, len) : \A t \in SeenBefore(pos, len) : t.at <= s.at
<1> DEFINE S == SeenBefore(pos, len)
           A == {now - s.at : s \in S}
<1>1. now \in Nat /\ \A s \in S : s.at \in 0..now
  BY SpaceFacts DEF TypeOK, SeenBefore
<1>2. A \subseteq Nat /\ A # {}
  BY <1>1
<1>3. PICK a \in A : \A b \in A : ~(<<b, a>> \in OpToRel(<, Nat))
  BY <1>2, NatLessThanWellFounded, WFMin
<1>4. PICK s \in S : a = now - s.at
  BY <1>3
<1>5. ASSUME NEW t \in S PROVE t.at <= s.at
  <2>1. now - t.at \in A /\ now - t.at \in Nat /\ a \in Nat
    BY <1>2, <1>3
  <2>2. ~(now - t.at < a)
    BY <2>1, <1>3 DEF OpToRel
  <2> QED  BY <2>1, <2>2, <1>1, <1>4
<1> QED  BY <1>5

-----------------------------------------------------------------------------
(* The invariant *)

LEMMA KeyInit == Init => KeyInv
<1> SUFFICES ASSUME Init PROVE KeyInv
  OBVIOUS
<1> USE DEF Init, Filter!Init
<1>1. TypeOK
  <2>1. now \in 0..MaxNow /\ epochStart \in 0..now /\ nxt \in Nat /\ packets \in 0..MaxPackets
    BY SpaceFacts
  <2>2. isn \in Seqs
    BY KeyAssumption DEF Seqs, SeqSpace
  <2>3. last \in [pos : Nat, len : Nat, new : BOOLEAN, before : {Never} \union 0..now]
    BY DEF NoPacket
  <2> QED  BY <2>1, <2>2, <2>3 DEF TypeOK
<1>2. SentInv /\ AgeInv /\ KnownInv
  BY DEF SentInv, AgeInv, KnownInv
<1>3. RepeatIsFlagged /\ FullSegmentsNotFlagged
  BY DEF RepeatIsFlagged, FullSegmentsNotFlagged, NoPacket
<1> QED  BY <1>1, <1>2, <1>3 DEF KeyInv

\* The key of a segment does not change.
LEMMA KeyFixed ==
  ASSUME isn' = isn, NEW pos, NEW len
  PROVE  seq_key(pos, len)' = seq_key(pos, len)
  BY Zenon DEF seq_key, bpf_ntohl, LoadedSeq, Swab

\* A data segment that starts at nxt has none of the keys of full segments
\* before it, nor that of the SYN.
LEMMA NewKeyIsNew ==
  ASSUME KeyInv, nxt <= SeqSpace - Block, isn >= SeqSpace \div Block,
         NEW len \in Nat \ {0}, NEW s \in sent, s.len = 0 \/ s.len >= Block
  PROVE  seq_key(nxt, len) # seq_key(s.pos, s.len)
<1>1. isn \in Seqs /\ nxt \in Nat /\ s.pos \in Nat /\ s.len \in Nat
  BY DEF KeyInv, TypeOK
<1>2. End(s.pos, s.len) <= nxt /\ (s.len = 0 => s.pos = 0)
  BY DEF KeyInv, SentInv
<1>3. seq_key(nxt, len) = SeqAt(nxt) \div Block /\ SeqAt(nxt) \in Seqs
  BY <1>1, SeqKey
<1>4. CASE s.len = 0
  <2>1. seq_key(s.pos, s.len) = SeqAt(0)
    BY <1>1, <1>2, <1>4, SeqKey
  <2>2. SeqAt(0) = isn
    BY <1>1, SpaceFacts DEF SeqAt, Seqs
  <2>3. SeqAt(nxt) \div Block < SeqSpace \div Block
    BY <1>3, DataKeyBound
  <2>4. SeqAt(nxt) \div Block \in Nat /\ SeqSpace \div Block \in Nat /\ isn \in Nat
    BY <1>1, <1>3, SpaceFacts DEF Seqs
  <2> QED  BY <2>1, <2>2, <2>3, <2>4, <1>3
<1>5. CASE s.len # 0
  <2>1. nxt - s.pos >= Block
    BY <1>1, <1>2, <1>5, SpaceFacts DEF End
  <2>2. SeqAt(s.pos) \div Block # SeqAt(nxt) \div Block
    BY <2>1, <1>1, KeysApart
  <2>3. seq_key(s.pos, s.len) = SeqAt(s.pos) \div Block
    BY <1>1, <1>5, SeqKey
  <2> QED  BY <2>2, <2>3, <1>3, Zenon
<1> QED  BY <1>4, <1>5

\* A segment, of whatever kind, keeps the invariant.
LEMMA SegmentStep ==
  ASSUME KeyInv, NEW pos \in Nat, NEW len \in Nat, Segment(pos, len),
         len = 0 => pos = 0, pos = nxt => nxt = 0 \/ len # 0
  PROVE  KeyInv'
<1> DEFINE k == seq_key(pos, len)
           C == Filter!CurrentAfterRoll
           P == Filter!PreviousAfterRoll
           e == StartAfterRoll
           S == SeenBefore(pos, len)
           new == [pos |-> pos, len |-> len, at |-> now]
           last0 == (CHOOSE s \in S : \A t \in S : t.at <= s.at)
<1>1. /\ is_retrans' = ({k} \subseteq C \union P)
      /\ current' = C \union {k} /\ previous' = P /\ epochStart' = e /\ now' = now
      /\ isn' = isn
  BY Zenon DEF Segment, Filter!Lookup, OwnBit, StartAfterRoll
<1>2. /\ packets' = packets + 1 /\ packets < MaxPackets
      /\ nxt' = IF End(pos, len) > nxt THEN End(pos, len) ELSE nxt
      /\ sent' = (sent \ {[pos |-> pos, len |-> len, at |-> t] : t \in 0..MaxNow}) \union {new}
      /\ last' = [pos |-> pos, len |-> len, new |-> pos = nxt,
                  before |-> IF S = {} THEN Never ELSE last0.at]
  BY Zenon DEF Segment, Counted
<1>3. /\ TypeOK /\ now \in 0..MaxNow /\ now \in Nat /\ nxt \in Nat /\ isn \in Seqs
      /\ current \subseteq Seqs /\ previous \subseteq Seqs /\ packets \in 0..MaxPackets
      /\ sent \subseteq [pos : Nat, len : Nat, at : 0..now]
  BY SpaceFacts DEF KeyInv, TypeOK
<1>4. k \in Seqs
  BY <1>3, SeqKey
<1>5. C \subseteq current /\ P \subseteq current \union previous
  BY RollLearnsNothing, Zenon
<1>6. e \in 0..now /\ now - e <= BLOOM_EPOCH_NS
  BY <1>3, StartTyped
<1>7. \A s \in sent :
        /\ s.at - e <= BLOOM_EPOCH_NS
        /\ s.at >= e => seq_key(s.pos, s.len) \in C
        /\ now - s.at <= BLOOM_EPOCH_NS => seq_key(s.pos, s.len) \in C \union P
  BY <1>3, AgeAfterRoll, Zenon DEF KeyInv, AgeInv
<1>8. S # {} => last0 \in S
  BY <1>3, LastSeen, Zenon
<1>9. S # {} => last0 \in sent /\ last0.at \in 0..now /\ seq_key(last0.pos, last0.len) = k
  <2> SUFFICES ASSUME S # {} PROVE last0 \in sent /\ last0.at \in 0..now /\ seq_key(last0.pos, last0.len) = k
    OBVIOUS
  <2> HIDE DEF last0
  <2>1. last0 \in sent /\ last0.pos = pos /\ (last0.len > 0) = (len > 0)
    BY <1>8, Zenon DEF SeenBefore
  <2>2. seq_key(last0.pos, last0.len) = k
    BY <2>1, Zenon DEF seq_key
  <2> QED  BY <2>1, <2>2, <1>3
<1>10. End(pos, len) \in Nat /\ End(pos, len) > pos /\ nxt' \in Nat /\ nxt' >= nxt /\ nxt' >= End(pos, len)
  BY <1>2, <1>3 DEF End
<1>11. new \in sent' /\ new \in [pos : Nat, len : Nat, at : 0..now] /\ sent' \subseteq sent \union {new}
  BY <1>2, <1>3
<1> HIDE DEF C, P, e, S, last0, k
<1>12. TypeOK'
  <2>1. now' \in 0..MaxNow /\ epochStart' \in 0..now' /\ packets' \in 0..MaxPackets /\ nxt' \in Nat
    BY <1>1, <1>2, <1>3, <1>6, <1>10, SpaceFacts
  <2>2. is_retrans' \in BOOLEAN /\ isn' \in Seqs
    BY <1>1, <1>3, Zenon
  <2>3. current' \subseteq Seqs /\ previous' \subseteq Seqs
    BY <1>1, <1>3, <1>4, <1>5
  <2>4. sent' \subseteq [pos : Nat, len : Nat, at : 0..now']
    BY <1>1, <1>3, <1>11
  <2>5. (IF S = {} THEN Never ELSE last0.at) \in {Never} \union 0..now
    BY <1>9, Zenon
  <2>6. last' \in [pos : Nat, len : Nat, new : BOOLEAN, before : {Never} \union 0..now']
    BY <2>5, <1>1, <1>2
  <2> QED  BY <2>1, <2>2, <2>3, <2>4, <2>6, Zenon DEF TypeOK
<1>13. SentInv'
  <2>1. ASSUME NEW s \in sent PROVE End(s.pos, s.len) <= nxt' /\ (s.len = 0 => s.pos = 0)
    <3>1. s.pos \in Nat /\ s.len \in Nat /\ End(s.pos, s.len) <= nxt /\ (s.len = 0 => s.pos = 0)
      BY <1>3 DEF KeyInv, SentInv
    <3>2. End(s.pos, s.len) \in Nat
      BY <3>1 DEF End
    <3> QED  BY <3>1, <3>2, <1>3, <1>10
  <2>2. End(new.pos, new.len) <= nxt' /\ (new.len = 0 => new.pos = 0)
    BY <1>10
  <2> HIDE DEF new
  <2>3. \A s \in sent' : End(s.pos, s.len) <= nxt' /\ (s.len = 0 => s.pos = 0)
    BY <2>1, <2>2, <1>11, Zenon
  <2> QED  BY <2>3, Zenon DEF SentInv, End
<1>14. AgeInv'
  <2>1. ASSUME NEW s \in sent PROVE AgeOf(s)'
    <3>1. seq_key(s.pos, s.len)' = seq_key(s.pos, s.len)
      BY <1>1, KeyFixed
    <3> QED  BY <3>1, <1>1, <1>7 DEF AgeOf
  <2>2. ASSUME NEW s \in sent', s.pos = pos, s.len = len, s.at = now PROVE AgeOf(s)'
    <3>1. seq_key(s.pos, s.len)' = k
      BY <2>2, <1>1, KeyFixed DEF k
    <3>2. k \in current'
      BY <1>1
    <3> QED  BY <2>2, <3>1, <3>2, <1>1, <1>6 DEF AgeOf
  <2> SUFFICES ASSUME NEW s \in sent' PROVE AgeOf(s)'
    BY DEF AgeInv
  <2>3. CASE s \in sent
    BY <2>1, <2>3
  <2>4. CASE s = new
    BY <2>2, <2>4
  <2> QED  BY <2>3, <2>4, <1>11
<1>15. KnownInv'
  <2>1. \A x \in current' \union previous' : x = k \/ x \in current \union previous
    BY <1>1, <1>5
  <2>2. \E s \in sent' : k = seq_key(s.pos, s.len)
    BY <1>11 DEF k
  \* A segment that is replaced has the key of its successor.
  <2>3. ASSUME NEW s \in sent PROVE \E t \in sent' : seq_key(t.pos, t.len) = seq_key(s.pos, s.len)
    <3>1. CASE s.pos = pos /\ s.len = len
      BY <2>2, <3>1, Zenon DEF k
    <3>2. CASE ~(s.pos = pos /\ s.len = len)
      <4>1. s \notin {[pos |-> pos, len |-> len, at |-> t] : t \in 0..MaxNow}
        BY <3>2
      <4> QED  BY <4>1, <1>2, Zenon
    <3> QED  BY <3>1, <3>2
  <2>4. \A x \in current' \union previous' : \E s \in sent' : x = seq_key(s.pos, s.len)
    <3> SUFFICES ASSUME NEW x \in current' \union previous', x # k
                 PROVE  \E s \in sent' : x = seq_key(s.pos, s.len)
      BY <2>2, Zenon
    <3>1. PICK s \in sent : x = seq_key(s.pos, s.len)
      BY <2>1, Zenon DEF KeyInv, KnownInv
    <3>2. PICK t \in sent' : seq_key(t.pos, t.len) = seq_key(s.pos, s.len)
      BY <2>3
    <3> QED  BY <3>1, <3>2, Zenon
  <2>5. \A s : seq_key(s.pos, s.len)' = seq_key(s.pos, s.len)
    BY <1>1, KeyFixed, Zenon
  <2>6. SUFFICES ASSUME NEW x \in current' \union previous'
                 PROVE  \E s \in sent' : x = seq_key(s.pos, s.len)'
    BY Zenon DEF KnownInv, seq_key, bpf_ntohl, LoadedSeq, Swab
  <2> QED  BY <2>4, <2>5, <2>6, Zenon
<1>16. RepeatIsFlagged'
  <2> SUFFICES ASSUME last'.before # Never, now' - last'.before <= BLOOM_EPOCH_NS PROVE is_retrans'
    BY Zenon DEF RepeatIsFlagged
  <2>1. last'.before = IF S = {} THEN Never ELSE last0.at
    BY <1>2
  <2>2. S # {} /\ last'.before = last0.at
    BY <2>1, Zenon
  <2>3. k \in C \union P
    BY <2>2, <1>1, <1>7, <1>9, Zenon
  <2> QED  BY <2>3, <1>1
<1>17. FullSegmentsNotFlagged'
  <2> SUFFICES ASSUME \A s \in sent' : s.len = 0 \/ s.len >= Block,
                      nxt' <= SeqSpace - Block, isn' >= SeqSpace \div Block, last'.new, is_retrans'
               PROVE  FALSE
    BY Zenon DEF FullSegmentsNotFlagged, SeqSpace
  <2>1. pos = nxt
    BY <1>2
  <2>2. k \in current \union previous
    BY <1>1, <1>5
  <2>3. PICK s \in sent : k = seq_key(s.pos, s.len)
    BY <2>2, Zenon DEF KeyInv, KnownInv
  <2>4. s.pos \in Nat /\ s.len \in Nat /\ End(s.pos, s.len) <= nxt /\ (s.len = 0 => s.pos = 0)
    BY <1>3 DEF KeyInv, SentInv
  \* What ends at nxt does not start there, so it is still in sent.
  <2>5. s.pos # pos
    BY <2>1, <2>4, <1>3 DEF End
  <2>6. s \in sent'
    <3>1. s \notin {[pos |-> pos, len |-> len, at |-> t] : t \in 0..MaxNow}
      BY <2>5
    <3> QED  BY <3>1, <1>2, Zenon
  <2>7. len # 0 /\ len \in Nat \ {0}
    BY <2>1, <2>4, <2>5, <1>3 DEF End
  <2>8. nxt <= SeqSpace - Block
    BY <1>3, <1>10, SpaceFacts
  <2> QED  BY <2>1, <2>3, <2>6, <2>7, <2>8, <1>1, NewKeyIsNew DEF k
<1> QED  BY <1>12, <1>13, <1>14, <1>15, <1>16, <1>17, Zenon DEF KeyInv

\* A packet that only ages the set keeps the invariant: it has no verdict.
LEMMA ControlStep ==
  ASSUME KeyInv, Control
  PROVE  KeyInv'
<1> DEFINE C == Filter!CurrentAfterRoll
           P == Filter!PreviousAfterRoll
           e == StartAfterRoll
<1>1. /\ is_retrans' = FALSE /\ current' = C /\ previous' = P /\ epochStart' = e /\ now' = now
      /\ packets' = packets + 1 /\ packets < MaxPackets /\ last' = NoPacket
      /\ isn' = isn /\ nxt' = nxt /\ sent' = sent
  BY Zenon DEF Control, Counted, Filter!Age, StartAfterRoll
<1>2. TypeOK /\ SentInv /\ AgeInv /\ KnownInv
  BY DEF KeyInv
<1>3. C \subseteq current /\ P \subseteq current \union previous
  BY RollLearnsNothing, Zenon
<1>4. e \in 0..now /\ now \in Nat
  BY <1>2, StartTyped
<1>5. \A s \in sent :
        /\ s.at - e <= BLOOM_EPOCH_NS
        /\ s.at >= e => seq_key(s.pos, s.len) \in C
        /\ now - s.at <= BLOOM_EPOCH_NS => seq_key(s.pos, s.len) \in C \union P
  BY <1>2, AgeAfterRoll, Zenon DEF AgeInv
<1> HIDE DEF C, P, e
<1>6. TypeOK'
  <2>1. last' \in [pos : Nat, len : Nat, new : BOOLEAN, before : {Never} \union 0..now']
    BY <1>1 DEF NoPacket
  <2>2. packets' \in 0..MaxPackets
    BY <1>1, <1>2, SpaceFacts DEF TypeOK
  <2>3. current' \subseteq Seqs /\ previous' \subseteq Seqs
    BY <1>1, <1>2, <1>3 DEF TypeOK
  <2> QED  BY <2>1, <2>2, <2>3, <1>1, <1>2, <1>4, Zenon DEF TypeOK
<1>7. SentInv'
  BY <1>1, <1>2, Zenon DEF SentInv, End
<1>8. AgeInv'
  <2> SUFFICES ASSUME NEW s \in sent PROVE AgeOf(s)'
    BY <1>1 DEF AgeInv
  <2>1. seq_key(s.pos, s.len)' = seq_key(s.pos, s.len)
    BY <1>1, KeyFixed
  <2> QED  BY <2>1, <1>1, <1>5 DEF AgeOf
<1>9. KnownInv'
  <2>1. \A x \in current' \union previous' : x \in current \union previous
    BY <1>1, <1>3
  <2> QED  BY <2>1, <1>1, <1>2, Zenon DEF KnownInv, seq_key, bpf_ntohl, LoadedSeq, Swab
<1>10. RepeatIsFlagged' /\ FullSegmentsNotFlagged'
  BY <1>1 DEF RepeatIsFlagged, FullSegmentsNotFlagged, NoPacket
<1> QED  BY <1>6, <1>7, <1>8, <1>9, <1>10, Zenon DEF KeyInv

\* Time makes segments older and changes nothing else.
LEMMA TickStep ==
  ASSUME KeyInv, Tick
  PROVE  KeyInv'
<1>1. /\ now < MaxNow /\ now' = now + 1
      /\ UNCHANGED <<epochStart, current, previous, is_retrans>> /\ UNCHANGED flow
  BY Zenon DEF Tick, Filter!Tick
<1>2. TypeOK /\ SentInv /\ AgeInv /\ KnownInv
  BY DEF KeyInv
<1>3. now \in Nat /\ now' \in Nat /\ 0..now \subseteq 0..now' /\ now' \in 0..MaxNow
  BY <1>1, <1>2, SpaceFacts DEF TypeOK
<1>4. TypeOK'
  <2>1. sent' \subseteq [pos : Nat, len : Nat, at : 0..now']
    BY <1>1, <1>2, <1>3 DEF TypeOK, flow
  <2>2. last' \in [pos : Nat, len : Nat, new : BOOLEAN, before : {Never} \union 0..now']
    BY <1>1, <1>2, <1>3 DEF TypeOK, flow
  <2> QED  BY <2>1, <2>2, <1>1, <1>2, <1>3 DEF TypeOK, flow
<1>5. SentInv'
  BY <1>1, <1>2, Zenon DEF SentInv, End, flow
<1>6. AgeInv'
  <2> SUFFICES ASSUME NEW s \in sent PROVE AgeOf(s)'
    BY <1>1 DEF AgeInv, flow
  <2>1. seq_key(s.pos, s.len)' = seq_key(s.pos, s.len)
    BY <1>1, KeyFixed DEF flow
  <2>2. AgeOf(s) /\ s.at \in Nat
    BY <1>2 DEF AgeInv, TypeOK
  <2> QED  BY <2>1, <2>2, <1>1, <1>3, SpaceFacts DEF AgeOf
<1>7. KnownInv'
  BY <1>1, <1>2, Zenon DEF KnownInv, seq_key, bpf_ntohl, LoadedSeq, Swab, flow
<1>8. RepeatIsFlagged'
  <2>1. last.before # Never => last.before \in Nat
    BY <1>2 DEF TypeOK
  <2> QED  BY <2>1, <1>1, <1>3, SpaceFacts DEF KeyInv, RepeatIsFlagged, flow
<1>9. FullSegmentsNotFlagged'
  BY <1>1, Zenon DEF KeyInv, FullSegmentsNotFlagged, flow, SeqSpace
<1> QED  BY <1>4, <1>5, <1>6, <1>7, <1>8, <1>9, Zenon DEF KeyInv

LEMMA KeyStep == KeyInv /\ [Next]_vars => KeyInv'
<1> SUFFICES ASSUME KeyInv, [Next]_vars PROVE KeyInv'
  OBVIOUS
<1>1. /\ Lens \subseteq Nat \ {0} /\ nxt \in Nat
      /\ \A s \in sent : s.pos \in Nat /\ s.len \in Nat
  BY KeyAssumption DEF KeyInv, TypeOK
<1>2. ASSUME NEW len \in Lens \union {0}, SendSyn(len) PROVE KeyInv'
  <2>1. len \in Nat /\ 0 \in Nat /\ Segment(0, len)
    BY <1>1, <1>2 DEF SendSyn
  <2>2. 0 = nxt => nxt = 0 \/ len # 0
    OBVIOUS
  <2> QED  BY <2>1, <2>2, SegmentStep
<1>3. ASSUME NEW len \in Lens, SendNew(len) PROVE KeyInv'
  <2>1. len \in Nat /\ len # 0 /\ Segment(nxt, len)
    BY <1>1, <1>3 DEF SendNew
  <2> QED  BY <2>1, <1>1, SegmentStep
<1>4. ASSUME NEW pos \in Edges, NEW len \in Lens, Resend(pos, len) PROVE KeyInv'
  <2>1. len \in Nat /\ len # 0 /\ Segment(pos, len)
    BY <1>1, <1>4 DEF Resend
  <2>2. pos \in Nat
    BY <1>1 DEF Edges, End
  <2> QED  BY <2>1, <2>2, SegmentStep
<1>5. CASE Control
  BY <1>5, ControlStep
<1>6. CASE Tick
  BY <1>6, TickStep
<1>7. CASE UNCHANGED vars
  <2> USE <1>7 DEF vars, recent, flow
  <2>1. TypeOK' /\ SentInv'
    BY Zenon DEF KeyInv, TypeOK, SentInv, End
  <2>2. AgeInv'
    BY Zenon DEF KeyInv, AgeInv, AgeOf, seq_key, bpf_ntohl, LoadedSeq, Swab
  <2>3. KnownInv'
    <3>1. KnownInv /\ current' = current /\ previous' = previous /\ sent' = sent /\ isn' = isn
      BY Zenon DEF KeyInv
    <3> HIDE <1>7
    <3> QED  BY <3>1, Zenon DEF KnownInv, seq_key, bpf_ntohl, LoadedSeq, Swab
  <2>4. RepeatIsFlagged' /\ FullSegmentsNotFlagged'
    BY Zenon DEF KeyInv, RepeatIsFlagged, FullSegmentsNotFlagged
  <2> QED  BY <2>1, <2>2, <2>3, <2>4, Zenon DEF KeyInv
<1> QED  BY <1>2, <1>3, <1>4, <1>5, <1>6, <1>7, Zenon DEF Next

-----------------------------------------------------------------------------

\* Every variable keeps its type, no key is wider than a sequence number, and
\* the ageing set knows the keys of the segments sent within an epoch, and no
\* others.
THEOREM KeyInvariant == Spec => []KeyInv
  BY KeyInit, KeyStep, PTL DEF Spec

\* path_egress flags a segment that starts where another started at most an
\* epoch ago, whatever its length, the byte order and the wrap-around.
THEOREM RepeatsAreFlagged == Spec => []RepeatIsFlagged
<1>1. KeyInv => RepeatIsFlagged
  BY DEF KeyInv
<1> QED  BY <1>1, KeyInvariant, PTL

\* The key of path_egress, seq >> 4, does not take new data for a retransmit
\* as long as segments are no shorter than a block, the flow has not gone
\* round the sequence space and its initial number is no data segment's key.
THEOREM FullSegmentsPass == Spec => []FullSegmentsNotFlagged
<1>1. KeyInv => FullSegmentsNotFlagged
  BY DEF KeyInv
<1> QED  BY <1>1, KeyInvariant, PTL

-----------------------------------------------------------------------------
(* ZoneConfig: from the configuration to the zone of a packet *)

\* Natural induction, with the property as a set.
LEMMA NatSetInduction ==
  ASSUME NEW S, S \subseteq Nat, 0 \in S, \A n \in S : n + 1 \in S
  PROVE  S = Nat
<1> SUFFICES ASSUME Nat \ S # {} PROVE FALSE
  OBVIOUS
<1>1. IsWellFoundedOn(OpToRel(<, Nat), Nat)
  BY NatLessThanWellFounded
<1>2. PICK x \in Nat \ S : \A y \in Nat \ S : ~(<<y, x>> \in OpToRel(<, Nat))
  BY <1>1, WFMin, Zenon
<1>3. x - 1 \in Nat \ S
  <2>1. x \in Nat /\ x \notin S
    OBVIOUS
  <2>2. x # 0
    BY <2>1
  <2>3. x - 1 \in Nat /\ (x - 1) + 1 = x
    BY <2>1, <2>2
  <2> QED  BY <2>1, <2>3
<1>4. <<x - 1, x>> \in OpToRel(<, Nat)
  <2>1. x - 1 < x /\ x \in Nat /\ x - 1 \in Nat
    BY <1>3
  <2> QED  BY <2>1, Zenon DEF OpToRel
<1> QED  BY <1>2, <1>3, <1>4, Zenon

\* A set of naturals with an upper bound has a greatest element.
LEMMA Greatest ==
  ASSUME NEW S, S \subseteq Nat, S # {}, NEW b \in Nat, \A n \in S : n <= b
  PROVE  \E m \in S : \A n \in S : n <= m
<1> SUFFICES ASSUME \A m \in S : \E n \in S : ~(n <= m) PROVE FALSE
  OBVIOUS
<1> DEFINE G == {n \in Nat : \E m \in S : n <= m}
<1>1. 0 \in G
  <2>1. PICK m \in S : TRUE
    OBVIOUS
  <2> QED  BY <2>1
<1>2. \A n \in G : n + 1 \in G
  <2> SUFFICES ASSUME NEW n \in G PROVE \E m \in S : n + 1 <= m
    OBVIOUS
  <2>1. PICK m \in S : n <= m
    OBVIOUS
  <2>2. PICK k \in S : ~(k <= m)
    OBVIOUS
  <2>3. n \in Nat /\ m \in Nat /\ k \in Nat
    OBVIOUS
  <2> QED  BY <2>1, <2>2, <2>3
<1>3. G \subseteq Nat
  OBVIOUS
<1> HIDE DEF G
<1>4. G = Nat
  BY <1>1, <1>2, <1>3, NatSetInduction, Zenon
<1>5. b + 1 \in G
  BY <1>4
<1> QED  BY <1>5 DEF G

\* The first k sequences of s, flattened one after the other.
Flat(s, f, k) == f = [i \in 1..k |-> IF i = 1 THEN s[i] ELSE f[i - 1] \o s[i]]

LEMMA FlatExists ==
  ASSUME NEW s
  PROVE  \A k \in Nat : \E f : Flat(s, f, k)
<1> DEFINE G == {k \in Nat : \E f : Flat(s, f, k)}
<1>1. 0 \in G
  <2>1. Flat(s, <<>>, 0)
    <3>1. 1..0 = {}
      OBVIOUS
    <3>2. [i \in 1..0 |-> IF i = 1 THEN s[i] ELSE <<>>[i - 1] \o s[i]] = <<>>
      OBVIOUS
    <3> QED  BY <3>2 DEF Flat
  <2> QED  BY <2>1
<1>2. \A k \in G : k + 1 \in G
  <2> SUFFICES ASSUME NEW k \in G PROVE \E g : Flat(s, g, k + 1)
    OBVIOUS
  <2>1. k \in Nat
    OBVIOUS
  <2>2. PICK f : Flat(s, f, k)
    OBVIOUS
  <2>3. \A i \in 1..k : f[i] = IF i = 1 THEN s[i] ELSE f[i - 1] \o s[i]
    BY <2>2 DEF Flat
  <2> DEFINE g == [i \in 1..k + 1 |-> IF i = 1 THEN s[i] ELSE IF i = k + 1 THEN f[k] \o s[i] ELSE f[i]]
  <2>4. \A i \in 1..k : g[i] = f[i]
    BY <2>1, <2>3
  <2>5. ASSUME NEW i \in 1..k + 1 PROVE g[i] = IF i = 1 THEN s[i] ELSE g[i - 1] \o s[i]
    <3>1. CASE i = 1
      BY <3>1
    <3>2. CASE i # 1 /\ i = k + 1
      <4>1. i - 1 = k /\ k \in 1..k
        BY <2>1, <3>2
      <4>2. g[i] = f[k] \o s[i] /\ g[k] = f[k]
        BY <2>4, <3>2, <4>1
      <4> QED  BY <3>2, <4>1, <4>2
    <3>3. CASE i # 1 /\ i # k + 1
      <4>1. i \in 1..k /\ i - 1 \in 1..k
        BY <2>1, <3>3
      <4>2. g[i] = f[i] /\ g[i - 1] = f[i - 1] /\ f[i] = f[i - 1] \o s[i]
        BY <2>3, <2>4, <3>3, <4>1
      <4> QED  BY <3>3, <4>2
    <3> QED  BY <3>1, <3>2, <3>3
  <2>6. DOMAIN g = 1..k + 1 /\ g = [i \in 1..k + 1 |-> g[i]]
    OBVIOUS
  <2> HIDE DEF g
  <2>7. Flat(s, g, k + 1)
    <3>1. [i \in 1..k + 1 |-> g[i]] = [i \in 1..k + 1 |-> IF i = 1 THEN s[i] ELSE g[i - 1] \o s[i]]
      BY <2>5
    <3> QED  BY <2>6, <3>1 DEF Flat
  <2> QED  BY <2>7
<1> HIDE DEF G
<1>3. G \subseteq Nat
  BY DEF G
<1>4. G = Nat
  BY <1>1, <1>2, <1>3, NatSetInduction, Zenon
<1> QED  BY <1>4 DEF G

\* What FlattenSeq computes: all elements of the sequences, and no others.
LEMMA Flattened ==
  ASSUME NEW S, NEW s \in Seq(Seq(S))
  PROVE  /\ FlattenSeq(s) \in Seq(S)
         /\ ToSet(FlattenSeq(s)) = UNION {ToSet(s[i]) : i \in DOMAIN s}
<1>1. PICK n \in Nat : n = Len(s)
  OBVIOUS
<1>2. DOMAIN s = 1..n /\ \A i \in 1..n : s[i] \in Seq(S)
  BY <1>1
<1>3. CASE n = 0
  <2>1. FlattenSeq(s) = s
    BY <1>1, <1>3 DEF FlattenSeq
  <2>2. DOMAIN s = {} /\ s = [i \in 1..0 |-> s[i]]
    BY <1>2, <1>3
  <2>3. FlattenSeq(s) \in Seq(S)
    <3>1. [i \in 1..0 |-> s[i]] \in Seq(S)
      OBVIOUS
    <3> QED  BY <2>1, <2>2, <3>1
  <2>4. ToSet(s) = {} /\ UNION {ToSet(s[i]) : i \in DOMAIN s} = {}
    BY <2>2 DEF ToSet
  <2> QED  BY <2>1, <2>3, <2>4
<1>4. CASE n # 0
  <2> DEFINE f == CHOOSE g : Flat(s, g, n)
  <2>1. FlattenSeq(s) = f[n]
    BY <1>1, <1>4 DEF FlattenSeq, Flat
  <2>2. Flat(s, f, n)
    <3>1. \E g : Flat(s, g, n)
      BY <1>1, FlatExists
    <3> QED  BY <3>1
  <2> HIDE DEF f
  <2>3. \A i \in 1..n : f[i] = IF i = 1 THEN s[i] ELSE f[i - 1] \o s[i]
    BY <2>2 DEF Flat
  <2> DEFINE Ok(k) == f[k] \in Seq(S) /\ ToSet(f[k]) = UNION {ToSet(s[i]) : i \in 1..k}
             G == {k \in Nat : k + 1 <= n => Ok(k + 1)}
  <2>4. 0 \in G
    <3>1. 1 \in 1..n /\ f[1] = s[1] /\ 1..1 = {1}
      BY <1>1, <1>4, <2>3
    <3> QED  BY <1>2, <3>1
  <2> HIDE DEF Ok
  <2>5. \A k \in G : k + 1 \in G
    <3> SUFFICES ASSUME NEW k \in Nat, k + 1 <= n => Ok(k + 1), k + 1 + 1 <= n
                 PROVE  Ok(k + 1 + 1)
      OBVIOUS
    <3>1. k \in Nat /\ k + 1 \in 1..n /\ k + 1 + 1 \in 1..n /\ k + 1 + 1 # 1 /\ (k + 1 + 1) - 1 = k + 1
      BY <1>1
    <3>2. Ok(k + 1)
      BY <1>1, <3>1
    <3>3. f[k + 1 + 1] = f[k + 1] \o s[k + 1 + 1]
      BY <2>3, <3>1
    <3>4. \A x, y \in Seq(S) : x \o y \in Seq(S) /\ ToSet(x \o y) = ToSet(x) \union ToSet(y)
      <4> SUFFICES ASSUME NEW x \in Seq(S), NEW y \in Seq(S)
                   PROVE  x \o y \in Seq(S) /\ ToSet(x \o y) = ToSet(x) \union ToSet(y)
        OBVIOUS
      <4>1. /\ x \o y \in Seq(S) /\ Len(x \o y) = Len(x) + Len(y) /\ Len(x) \in Nat /\ Len(y) \in Nat
            /\ \A i \in 1..Len(x) : (x \o y)[i] = x[i]
            /\ \A i \in 1..Len(y) : (x \o y)[Len(x) + i] = y[i]
        OBVIOUS
      <4>2. DOMAIN (x \o y) = 1..Len(x) + Len(y) /\ DOMAIN x = 1..Len(x) /\ DOMAIN y = 1..Len(y)
        OBVIOUS
      <4>3. \A i \in 1..Len(x) + Len(y) : i \in 1..Len(x) \/ \E j \in 1..Len(y) : i = Len(x) + j
        <5> SUFFICES ASSUME NEW i \in 1..Len(x) + Len(y), i \notin 1..Len(x)
                     PROVE  \E j \in 1..Len(y) : i = Len(x) + j
          OBVIOUS
        <5>1. i - Len(x) \in 1..Len(y) /\ i = Len(x) + (i - Len(x))
          BY <4>1
        <5> QED  BY <5>1
      <4>4. \A j \in 1..Len(y) : Len(x) + j \in 1..Len(x) + Len(y)
        BY <4>1
      <4>5. \A i \in 1..Len(x) : i \in 1..Len(x) + Len(y)
        BY <4>1
      <4>6. ToSet(x \o y) \subseteq ToSet(x) \union ToSet(y)
        <5> SUFFICES ASSUME NEW i \in 1..Len(x) + Len(y)
                     PROVE  (x \o y)[i] \in ToSet(x) \union ToSet(y)
          BY <4>2 DEF ToSet
        <5>1. CASE i \in 1..Len(x)
          BY <4>1, <4>2, <5>1 DEF ToSet
        <5>2. CASE \E j \in 1..Len(y) : i = Len(x) + j
          BY <4>1, <4>2, <5>2 DEF ToSet
        <5> QED  BY <4>3, <5>1, <5>2
      <4>7. ToSet(x) \subseteq ToSet(x \o y)
        BY <4>1, <4>2, <4>5 DEF ToSet
      <4>8. ToSet(y) \subseteq ToSet(x \o y)
        BY <4>1, <4>2, <4>4 DEF ToSet
      <4> QED  BY <4>1, <4>6, <4>7, <4>8
    <3>5. 1..k + 1 + 1 = 1..k + 1 \union {k + 1 + 1}
      BY <3>1
    <3>6. s[k + 1 + 1] \in Seq(S)
      BY <1>2, <3>1
    <3>7. f[k + 1 + 1] \in Seq(S) /\ ToSet(f[k + 1 + 1]) = ToSet(f[k + 1]) \union ToSet(s[k + 1 + 1])
      BY <3>2, <3>3, <3>4, <3>6 DEF Ok
    <3> QED  BY <3>2, <3>5, <3>7 DEF Ok
  <2>6. G \subseteq Nat
    OBVIOUS
  <2> HIDE DEF G
  <2>7. G = Nat
    BY <2>4, <2>5, <2>6, NatSetInduction, Zenon
  <2>8. n - 1 \in G /\ (n - 1) + 1 = n
    BY <1>1, <1>4, <2>7
  <2>9. Ok(n)
    BY <1>1, <2>8 DEF G
  <2> QED  BY <1>2, <2>1, <2>9 DEF Ok
<1> QED  BY <1>3, <1>4

\* A list of the elements of a finite set, in any order.
LEMMA ListOfSet ==
  ASSUME NEW S, IsFiniteSet(S), NEW s \in SetToSeqs(S)
  PROVE  s \in Seq(S) /\ DOMAIN s = 1..Cardinality(S) /\ ToSet(s) = S
<1>0. PICK n \in Nat : n = Cardinality(S)
  BY FS_CardinalityType
<1>1. s \in [1..n -> S] /\ \A i, j \in 1..n : i # j => s[i] # s[j]
  BY <1>0 DEF SetToSeqs
<1>2. s \in Seq(S) /\ DOMAIN s = 1..n
  BY <1>1
<1>3. ToSet(s) \subseteq S
  BY <1>1, <1>2 DEF ToSet
<1>4. ASSUME NEW x \in S, x \notin ToSet(s) PROVE FALSE
  <2>1. s \in [1..n -> S \ {x}]
    BY <1>1, <1>2, <1>4 DEF ToSet
  <2>2. IsFiniteSet(S \ {x}) /\ Cardinality(S \ {x}) = n - 1
    BY <1>0, FS_RemoveElement
  <2>3. IsFiniteSet(1..n) /\ Cardinality(1..n) = n
    BY FS_Interval, SMT
  <2>4. Cardinality(S \ {x}) < Cardinality(1..n)
    BY <2>2, <2>3
  <2>5. \E i, j \in 1..n : i # j /\ s[i] = s[j]
    BY <2>1, <2>2, <2>3, <2>4, FS_PigeonHole
  <2> QED  BY <1>1, <2>5
<1> QED  BY <1>0, <1>2, <1>3, <1>4

\* The place of a number in a set, counted from 1.
Rank(S, n) == Cardinality({k \in S : k <= n})

LEMMA Ranks ==
  ASSUME NEW S, IsFiniteSet(S), S \subseteq Nat
  PROVE  /\ \A n \in S : Rank(S, n) \in 1..Cardinality(S)
         /\ \A n, m \in S : n < m => Rank(S, n) < Rank(S, m)
<1>1. ASSUME NEW n \in S
      PROVE  IsFiniteSet({k \in S : k <= n}) /\ Rank(S, n) \in Nat /\ Rank(S, n) <= Cardinality(S)
  <2>1. {k \in S : k <= n} \subseteq S
    OBVIOUS
  <2> QED  BY <2>1, FS_Subset, FS_CardinalityType DEF Rank
<1>2. ASSUME NEW n \in S PROVE Rank(S, n) # 0
  <2>1. n \in {k \in S : k <= n}
    OBVIOUS
  <2>2. {k \in S : k <= n} # {}
    BY <2>1
  <2> QED  BY <1>1, <2>2, FS_EmptySet DEF Rank
<1>3. ASSUME NEW n \in S, NEW m \in S, n < m PROVE Rank(S, n) < Rank(S, m)
  <2>1. n \in Nat /\ m \in Nat
    OBVIOUS
  <2>2. \A k \in S : k \in Nat
    OBVIOUS
  <2>3. {k \in S : k <= n} \subseteq {k \in S : k <= m}
    <3>1. \A k \in Nat : k <= n => k <= m
      BY <1>3, <2>1
    <3> QED  BY <2>2, <3>1
  <2>4. m \in {k \in S : k <= m} /\ m \notin {k \in S : k <= n}
    BY <1>3, <2>1
  <2>5. {k \in S : k <= n} # {k \in S : k <= m}
    BY <2>4
  <2>6. Rank(S, n) <= Rank(S, m) /\ (Rank(S, n) = Rank(S, m) => FALSE)
    BY <1>1, <2>3, <2>5, FS_Subset DEF Rank
  <2>7. Rank(S, n) \in Nat /\ Rank(S, m) \in Nat
    BY <1>1
  <2> QED  BY <2>6, <2>7
<1>4. Cardinality(S) \in Nat
  BY FS_CardinalityType
<1>5. ASSUME NEW n \in S PROVE Rank(S, n) \in 1..Cardinality(S)
  <2>1. Rank(S, n) \in Nat /\ Rank(S, n) <= Cardinality(S) /\ Rank(S, n) # 0
    BY <1>1, <1>2
  <2> QED  BY <1>4, <2>1
<1> QED  BY <1>3, <1>5

\* There is a sorted list of any finite set of names.
LEMMA SortedListExists ==
  ASSUME NEW S, IsFiniteSet(S), S \subseteq Nat
  PROVE  \E s \in SetToSeqs(S) : \A i, j \in DOMAIN s : i < j => s[i] < s[j]
<1>0. PICK c \in Nat : c = Cardinality(S)
  BY FS_CardinalityType
<1>1. /\ \A n \in S : Rank(S, n) \in 1..c
      /\ \A n, m \in S : n < m => Rank(S, n) < Rank(S, m)
  BY <1>0, Ranks
<1>2. \A n, m \in S : Rank(S, n) = Rank(S, m) => n = m
  <2> SUFFICES ASSUME NEW n \in S, NEW m \in S, Rank(S, n) = Rank(S, m), n # m PROVE FALSE
    OBVIOUS
  <2>1. n \in Nat /\ m \in Nat /\ Rank(S, n) \in Nat
    BY <1>1
  <2>2. n < m \/ m < n
    BY <2>1
  <2> QED  BY <1>1, <2>1, <2>2
<1>3. ASSUME NEW i \in 1..c PROVE \E n \in S : Rank(S, n) = i
  <2> SUFFICES ASSUME \A n \in S : Rank(S, n) # i PROVE FALSE
    OBVIOUS
  <2> DEFINE r == [n \in S |-> Rank(S, n)]
  <2>1. r \in [S -> 1..c \ {i}]
    BY <1>1
  <2>2. IsFiniteSet(1..c) /\ Cardinality(1..c) = c
    BY FS_Interval, SMT
  <2>3. IsFiniteSet(1..c \ {i}) /\ Cardinality(1..c \ {i}) = c - 1
    BY <2>2, FS_RemoveElement
  <2>4. Cardinality(1..c \ {i}) < Cardinality(S)
    BY <1>0, <2>3
  <2>5. \E n, m \in S : n # m /\ r[n] = r[m]
    <3> HIDE DEF r
    <3> QED  BY <2>1, <2>3, <2>4, FS_PigeonHole
  <2> QED  BY <1>2, <2>5
<1> DEFINE s == [i \in 1..c |-> CHOOSE n \in S : Rank(S, n) = i]
<1>4. \A i \in 1..c : s[i] \in S /\ Rank(S, s[i]) = i
  BY <1>3
<1>5. s \in [1..c -> S] /\ DOMAIN s = 1..c
  BY <1>4
<1> HIDE DEF s
<1>6. \A i, j \in 1..c : i # j => s[i] # s[j]
  BY <1>4
<1>7. s \in SetToSeqs(S)
  BY <1>0, <1>5, <1>6 DEF SetToSeqs
<1>8. ASSUME NEW i \in 1..c, NEW j \in 1..c, i < j PROVE s[i] < s[j]
  <2>1. s[i] \in S /\ s[j] \in S /\ Rank(S, s[i]) = i /\ Rank(S, s[j]) = j
    BY <1>4
  <2>2. s[i] \in Nat /\ s[j] \in Nat
    BY <2>1
  <2>3. i \in Nat /\ j \in Nat
    OBVIOUS
  <2>4. ~(s[j] < s[i])
    <3>1. s[j] < s[i] => j < i
      BY <1>1, <2>1
    <3> QED  BY <1>8, <2>3, <3>1
  <2>5. s[i] # s[j]
    BY <1>8, <2>1, <2>3
  <2> QED  BY <2>2, <2>4, <2>5
<1> QED  BY <1>5, <1>7, <1>8

-----------------------------------------------------------------------------
(* Identifiers *)

\* What an operator may write in the configuration file.
LEMMA ConfigFacts ==
  ASSUME cfg \in Configs
  PROVE  /\ IsFiniteSet(Names) /\ Names \subseteq Nat
         /\ IsFiniteSet(Remote) /\ Remote \subseteq Names /\ Remote \subseteq Nat
         /\ cfg.little \in BOOLEAN
         /\ \A n \in Names : cfg.zones[n] \in Seq(Subnet)
<1>1. /\ IsFiniteSet(Names) /\ Names \subseteq Nat /\ cfg.little \in BOOLEAN
      /\ \A n \in Names : cfg.zones[n] \in Seq(Subnet)
  BY ZoneAssumption DEF Names
<1>2. Remote \subseteq Names
  BY DEF Remote
<1> QED  BY <1>1, <1>2, FS_Subset

\* Every zone has its own identifier, and a uint8 is wide enough for all.
LEMMA IdsDiffer ==
  ASSUME cfg \in Configs, Validate
  PROVE  \A n, m \in Names : ZoneID(n) = ZoneID(m) => n = m
<1>1. IsFiniteSet(Names) /\ Names \subseteq Nat
  BY ConfigFacts
<1>2. PICK c \in Nat : c = Cardinality(Names)
  BY <1>1, FS_CardinalityType
<1>3. IdValues \in Nat \ {0} /\ c <= IdValues - 1
  BY <1>2, ZoneAssumption DEF Validate, MaxZones
<1>4. /\ \A n \in Names : Rank(Names, n) \in 1..c
      /\ \A n, m \in Names : n < m => Rank(Names, n) < Rank(Names, m)
  BY <1>1, <1>2, Ranks
<1>5. ASSUME NEW n \in Names PROVE ZoneID(n) = Rank(Names, n)
  <2>1. ZoneID(n) = Rank(Names, n) % IdValues
    BY DEF ZoneID, Rank
  <2>2. Rank(Names, n) \in Nat /\ Rank(Names, n) < IdValues
    BY <1>3, <1>4
  <2>3. \A x \in Nat : x < IdValues => x % IdValues = x
    BY <1>3
  <2> QED  BY <2>1, <2>2, <2>3
<1> SUFFICES ASSUME NEW n \in Names, NEW m \in Names, ZoneID(n) = ZoneID(m), n # m PROVE FALSE
  OBVIOUS
<1>6. Rank(Names, n) = Rank(Names, m) /\ Rank(Names, n) \in Nat
  BY <1>4, <1>5
<1>7. n \in Nat /\ m \in Nat
  BY <1>1
<1>8. n < m \/ m < n
  BY <1>7
<1> QED  BY <1>4, <1>6, <1>8

\* The reader counts an event with a zone's identifier for that zone.
LEMMA CountedForItsZone ==
  ASSUME cfg \in Configs, Validate, NEW n \in Remote
  PROVE  CountedUnder(ZoneID(n)) = n
<1>1. IsFiniteSet(Remote) /\ Remote \subseteq Nat /\ Remote \subseteq Names
  BY ConfigFacts
<1>2. PICK names : names = SortedNames
  OBVIOUS
<1>3. names \in SetToSeqs(Remote)
  BY <1>1, <1>2, SortedListExists DEF SortedNames
<1>4. ToSet(names) = Remote
  BY <1>1, <1>3, ListOfSet
<1>5. RemoteZones = [i \in DOMAIN names |-> [name |-> names[i], id |-> ZoneID(names[i])]]
  BY <1>2 DEF RemoteZones
<1>6. PICK zs : zs = RemoteZones
  OBVIOUS
<1>7. /\ DOMAIN zs = DOMAIN names
      /\ \A i \in DOMAIN names : zs[i].name = names[i] /\ zs[i].id = ZoneID(names[i]) /\ names[i] \in Remote
  BY <1>4, <1>5, <1>6 DEF ToSet
<1>8. PICK i \in DOMAIN names : names[i] = n
  BY <1>4 DEF ToSet
<1>9. i \in zoneByID(ZoneID(n))
  BY <1>6, <1>7, <1>8 DEF zoneByID
<1>10. \A j \in zoneByID(ZoneID(n)) : zs[j].name = n
  <2> SUFFICES ASSUME NEW j \in zoneByID(ZoneID(n)) PROVE zs[j].name = n
    OBVIOUS
  <2>1. j \in DOMAIN names /\ zs[j].id = ZoneID(n)
    BY <1>6, <1>7 DEF zoneByID
  <2>2. ZoneID(names[j]) = ZoneID(n) /\ names[j] \in Names /\ n \in Names
    BY <1>1, <1>7, <2>1
  <2>3. names[j] = n
    BY <2>2, IdsDiffer
  <2> QED  BY <1>7, <2>1, <2>3
<1> QED  BY <1>6, <1>9, <1>10 DEF CountedUnder

-----------------------------------------------------------------------------
(* Keys and tables *)

\* The key of an address has in memory the bytes the packets have, whatever
\* the host's byte order.
LEMMA SameBytes ==
  ASSUME cfg.little \in BOOLEAN, NEW a \in Addr
  PROVE  InMemory(Uint(a, cfg.little)) = a
<1>1. AddrBytes \in Nat /\ a \in [1..AddrBytes -> Byte]
  BY ZoneAssumption DEF Addr
<1>2. a \in Seq(Byte) /\ Len(a) = AddrBytes
  BY <1>1
<1>3. Reverse(a) \in [1..AddrBytes -> Byte] /\ \A i \in 1..AddrBytes : Reverse(a)[i] = a[(AddrBytes - i) + 1]
  <2>1. Reverse(a) = [i \in 1..AddrBytes |-> a[(AddrBytes - i) + 1]]
    BY <1>2 DEF Reverse
  <2>2. \A i \in 1..AddrBytes : (AddrBytes - i) + 1 \in 1..AddrBytes
    BY <1>1
  <2> QED  BY <1>1, <2>1, <2>2
<1>4. Len(Reverse(a)) = AddrBytes
  BY <1>1, <1>3
<1>5. Reverse(Reverse(a)) = [i \in 1..AddrBytes |-> Reverse(a)[(AddrBytes - i) + 1]]
  BY <1>4 DEF Reverse
<1>6. \A i \in 1..AddrBytes : Reverse(a)[(AddrBytes - i) + 1] = a[i]
  <2> SUFFICES ASSUME NEW i \in 1..AddrBytes PROVE Reverse(a)[(AddrBytes - i) + 1] = a[i]
    OBVIOUS
  <2>1. (AddrBytes - i) + 1 \in 1..AddrBytes /\ (AddrBytes - ((AddrBytes - i) + 1)) + 1 = i
    BY <1>1
  <2> QED  BY <1>3, <2>1
<1>7. Reverse(Reverse(a)) = a
  BY <1>1, <1>5, <1>6
<1> QED  BY <1>7 DEF InMemory, Uint

\* A stored prefix has the length of its subnet and matches the addresses that
\* the subnet covers.
LEMMA KeyMatches ==
  ASSUME cfg \in Configs, NEW e, e.prefix \in Subnet, Parses(e.prefix), ~TooLong(e)
  PROVE  /\ Len(KeyOf(e)) = KeyLength(e.prefix) /\ KeyLength(e.prefix) \in 0..AddrBits
         /\ \A a : (\A i \in DOMAIN KeyOf(e) : KeyOf(e)[i] = Bit(a, i)) <=> KeyCovers(e.prefix, a)
<1>1. PICK s \in Subnet : s = e.prefix
  OBVIOUS
<1>2. /\ s.kind \in {"v4", "v6", "mapped"} /\ s.addr \in Addr /\ s.len \in Nat
      /\ s.kind = "v4" => s.len <= AddrBits
      /\ s.kind = "mapped" => s.len > AddrBits
  BY <1>1 DEF Subnet, Parses
<1>3. AddrBits \in Nat
  BY ZoneAssumption DEF AddrBits
<1>4. CASE s.kind = "v6"
  <2>1. lpmKeyFromNet(s) = [len |-> 0, addr |-> Zero]
    BY <1>4 DEF lpmKeyFromNet
  <2>2. KeyOf(e) = [i \in 1..0 |-> Bit(InMemory(Zero), i)]
    BY <1>1, <2>1 DEF KeyOf, Bits
  <2>3. Len(KeyOf(e)) = 0 /\ DOMAIN KeyOf(e) = 1..0
    BY <2>2
  <2>4. KeyLength(s) = 0
    BY <1>4 DEF KeyLength
  <2>5. \A a : KeyCovers(s, a)
    BY <1>4, <2>4 DEF KeyCovers
  <2>6. 1..0 = {} /\ 0 \in 0..AddrBits
    BY <1>3
  <2> QED  BY <1>1, <2>3, <2>4, <2>5, <2>6
<1>5. CASE s.kind = "v4"
  <2>1. lpmKeyFromNet(s) = [len |-> s.len, addr |-> Uint(s.addr, cfg.little)]
    BY <1>5 DEF lpmKeyFromNet
  <2>2. InMemory(Uint(s.addr, cfg.little)) = s.addr
    BY <1>2, SameBytes, ConfigFacts
  <2>3. KeyOf(e) = [i \in 1..s.len |-> Bit(s.addr, i)]
    BY <1>1, <2>1, <2>2 DEF KeyOf, Bits
  <2>4. Len(KeyOf(e)) = s.len /\ DOMAIN KeyOf(e) = 1..s.len /\ KeyLength(s) = s.len
    BY <1>2, <1>5, <2>3 DEF KeyLength
  <2>5. \A a : KeyCovers(s, a) <=> \A i \in 1..s.len : Bit(s.addr, i) = Bit(a, i)
    BY <1>5, <2>4 DEF KeyCovers
  <2>6. s.len \in 0..AddrBits
    BY <1>2, <1>3, <1>5
  <2> QED  BY <1>1, <2>3, <2>4, <2>5, <2>6
<1>6. CASE s.kind = "mapped"
  <2>1. lpmKeyFromNet(s).len = s.len
    BY <1>6 DEF lpmKeyFromNet
  <2> QED  BY <1>1, <1>2, <1>3, <1>6, <2>1 DEF TooLong
<1> QED  BY <1>2, <1>4, <1>5, <1>6

\* The entries of some zones are their identifiers and subnets.
LEMMA EntryOf ==
  ASSUME cfg \in Configs, NEW zones, zones \subseteq Names
  PROVE  /\ \A e \in Entries(zones) :
              \E n \in zones : e.zone = ZoneID(n) /\ e.prefix \in ToSet(cfg.zones[n])
         /\ \A n \in zones : \A s \in ToSet(cfg.zones[n]) :
              \E e \in Entries(zones) : e.zone = ZoneID(n) /\ e.prefix = s
         /\ \A n \in Names : ToSet(cfg.zones[n]) \subseteq Subnet
<1>1. \A n \in Names : cfg.zones[n] \in Seq(Subnet)
  BY ConfigFacts
<1>2. \A n \in Names : ToSet(cfg.zones[n]) \subseteq Subnet
  BY <1>1 DEF ToSet
<1>3. ASSUME NEW n \in zones
      PROVE  /\ \A e \in ToSet(EntriesOf(n)) : e.zone = ZoneID(n) /\ e.prefix \in ToSet(cfg.zones[n])
             /\ \A s \in ToSet(cfg.zones[n]) :
                  \E e \in ToSet(EntriesOf(n)) : e.zone = ZoneID(n) /\ e.prefix = s
  <2>1. /\ DOMAIN EntriesOf(n) = DOMAIN cfg.zones[n]
        /\ \A i \in DOMAIN cfg.zones[n] :
             EntriesOf(n)[i].zone = ZoneID(n) /\ EntriesOf(n)[i].prefix = cfg.zones[n][i]
    BY DEF EntriesOf
  <2> QED  BY <2>1 DEF ToSet
<1>4. \A n \in zones : ToSet(EntriesOf(n)) \subseteq Entries(zones)
  BY DEF Entries
<1>5. ASSUME NEW e \in Entries(zones)
      PROVE  \E n \in zones : e.zone = ZoneID(n) /\ e.prefix \in ToSet(cfg.zones[n])
  <2>1. PICK n \in zones : e \in ToSet(EntriesOf(n))
    BY DEF Entries
  <2> QED  BY <1>3, <2>1
<1>6. ASSUME NEW n \in zones, NEW s \in ToSet(cfg.zones[n])
      PROVE  \E e \in Entries(zones) : e.zone = ZoneID(n) /\ e.prefix = s
  BY <1>3, <1>4
<1> QED  BY <1>2, <1>5, <1>6

\* The identifier is that of a zone with the longest subnet around a.
IsClosest(id, zones, a) ==
  \E n \in zones : \E s \in ToSet(cfg.zones[n]) :
    /\ id = ZoneID(n) /\ KeyCovers(s, a)
    /\ \A m \in zones : \A t \in ToSet(cfg.zones[m]) : KeyCovers(t, a) => KeyLength(s) >= KeyLength(t)

\* What the kernel finds in a table that holds all entries: the identifier of
\* a zone with the longest subnet around the address, if there is any.
LEMMA LookupFinds ==
  ASSUME cfg \in Configs, Validate, NEW zones, zones \subseteq Names,
         NEW table, FillInv(table, <<>>, zones), NEW a
  PROVE  /\ \A id \in Lookup(table, a) : IsClosest(id, zones, a)
         /\ (\E n \in zones : CoveredBy(n, a)) => Lookup(table, a) # {}
<1>1. /\ \A e \in Entries(zones) : ~TooLong(e) /\ KeyOf(e) \in DOMAIN table
      /\ \A k \in DOMAIN table :
           \E e \in Entries(zones) : ~TooLong(e) /\ k = KeyOf(e) /\ table[k] = e.zone
  <2>1. ToSet(<<>>) = {}
    BY DEF ToSet
  <2> QED  BY <2>1 DEF FillInv
<1>2. \A n \in Names : \A s \in ToSet(cfg.zones[n]) : s \in Subnet /\ Parses(s)
  BY EntryOf DEF Validate
<1>3. \A e \in Entries(zones) :
        \E n \in zones : e.zone = ZoneID(n) /\ e.prefix \in ToSet(cfg.zones[n])
  BY EntryOf
<1>4. \A n \in zones : \A s \in ToSet(cfg.zones[n]) :
        \E e \in Entries(zones) : e.zone = ZoneID(n) /\ e.prefix = s
  BY EntryOf
<1>5. ASSUME NEW e \in Entries(zones)
      PROVE  /\ Len(KeyOf(e)) = KeyLength(e.prefix) /\ KeyLength(e.prefix) \in 0..AddrBits
             /\ KeyOf(e) \in Matches(table, a) <=> KeyCovers(e.prefix, a)
  <2>1. e.prefix \in Subnet /\ Parses(e.prefix) /\ ~TooLong(e) /\ KeyOf(e) \in DOMAIN table
    BY <1>1, <1>2, <1>3
  <2>2. /\ Len(KeyOf(e)) = KeyLength(e.prefix) /\ KeyLength(e.prefix) \in 0..AddrBits
        /\ (\A i \in DOMAIN KeyOf(e) : KeyOf(e)[i] = Bit(a, i)) <=> KeyCovers(e.prefix, a)
    BY <2>1, KeyMatches
  <2> QED  BY <2>1, <2>2 DEF Matches
<1>6. ASSUME NEW id \in Lookup(table, a)
      PROVE  IsClosest(id, zones, a)
  <2>1. PICK k \in Matches(table, a) : id = table[k] /\ \A m \in Matches(table, a) : Len(k) >= Len(m)
    BY DEF Lookup
  <2>2. PICK e \in Entries(zones) : k = KeyOf(e) /\ table[k] = e.zone
    BY <1>1 DEF Matches
  <2>3. PICK n \in zones : e.zone = ZoneID(n) /\ e.prefix \in ToSet(cfg.zones[n])
    BY <1>3
  <2>4. KeyCovers(e.prefix, a) /\ Len(k) = KeyLength(e.prefix)
    BY <1>5, <2>1, <2>2
  <2>5. ASSUME NEW m \in zones, NEW t \in ToSet(cfg.zones[m]), KeyCovers(t, a)
        PROVE  KeyLength(e.prefix) >= KeyLength(t)
    <3>1. PICK f \in Entries(zones) : f.prefix = t
      BY <1>4
    <3>2. KeyOf(f) \in Matches(table, a) /\ Len(KeyOf(f)) = KeyLength(t)
      BY <1>5, <2>5, <3>1
    <3> QED  BY <2>1, <2>4, <3>2
  <2> QED  BY <2>1, <2>2, <2>3, <2>4, <2>5 DEF IsClosest
<1>7. ASSUME NEW n \in zones, CoveredBy(n, a) PROVE Lookup(table, a) # {}
  <2>1. PICK s \in ToSet(cfg.zones[n]) : KeyCovers(s, a)
    BY <1>7 DEF CoveredBy, Covers, KeyCovers, KeyLength
  <2>2. PICK e \in Entries(zones) : e.prefix = s
    BY <1>4
  <2>3. KeyOf(e) \in Matches(table, a)
    BY <1>5, <2>1, <2>2
  <2> DEFINE lens == {Len(k) : k \in Matches(table, a)}
  <2>4. \A k \in Matches(table, a) : Len(k) \in 0..AddrBits
    BY <1>1, <1>5 DEF Matches
  <2>5. AddrBits \in Nat
    BY ZoneAssumption DEF AddrBits
  <2>6. lens \subseteq Nat /\ lens # {} /\ \A l \in lens : l <= AddrBits
    <3>1. \A l \in lens : l \in 0..AddrBits
      BY <2>4
    <3>2. Len(KeyOf(e)) \in lens
      BY <2>3
    <3> HIDE DEF lens
    <3> QED  BY <2>5, <3>1, <3>2
  <2> HIDE DEF lens
  <2>7. PICK m \in lens : \A l \in lens : l <= m
    BY <2>5, <2>6, Greatest
  <2>8. PICK k \in Matches(table, a) : m = Len(k)
    BY DEF lens
  <2>9. \A l \in Matches(table, a) : Len(k) >= Len(l)
    <3> SUFFICES ASSUME NEW l \in Matches(table, a) PROVE Len(k) >= Len(l)
      OBVIOUS
    <3>1. Len(l) \in lens /\ Len(l) \in Nat /\ m \in Nat
      BY <2>6 DEF lens
    <3> QED  BY <2>7, <2>8, <3>1
  <2> QED  BY <2>8, <2>9 DEF Lookup
<1> QED  BY <1>6, <1>7

\* A Put that succeeds moves an entry from the list to the table.
LEMMA PutFills ==
  ASSUME NEW zones, NEW table, NEW list, list # <<>>, FillInv(table, list, zones),
         MayStore(table, Head(list))
  PROVE  FillInv(Stored(table, Head(list)), Tail(list), zones)
<1>1. list \in Seq(Entries(zones))
  BY DEF FillInv
<1>2. PICK h \in Entries(zones) : h = Head(list)
  BY <1>1
<1>3. Tail(list) \in Seq(Entries(zones))
  BY <1>1
<1>4. ToSet(list) \subseteq {h} \union ToSet(Tail(list))
  <2>1. /\ Len(list) \in Nat \ {0} /\ DOMAIN list = 1..Len(list) /\ h = list[1]
        /\ DOMAIN Tail(list) = 1..Len(list) - 1
        /\ \A i \in 1..Len(list) - 1 : Tail(list)[i] = list[i + 1]
    BY <1>1, <1>2
  <2>2. \A i \in 1..Len(list) : i = 1 \/ (i - 1 \in 1..Len(list) - 1 /\ (i - 1) + 1 = i)
    BY <2>1
  <2>3. ASSUME NEW i \in 1..Len(list) PROVE list[i] = h \/ list[i] \in ToSet(Tail(list))
    <3>1. CASE i = 1
      BY <2>1, <3>1
    <3>2. CASE i - 1 \in 1..Len(list) - 1 /\ (i - 1) + 1 = i
      <4>1. Tail(list)[i - 1] = list[i]
        BY <2>1, <3>2
      <4> QED  BY <2>1, <3>2, <4>1 DEF ToSet
    <3> QED  BY <2>2, <3>1, <3>2
  <2> QED  BY <2>1, <2>3 DEF ToSet
<1>5. PICK t : t = Stored(table, h)
  OBVIOUS
<1>6. /\ DOMAIN t = DOMAIN table \union {KeyOf(h)}
      /\ t[KeyOf(h)] = h.zone
      /\ \A k \in DOMAIN table : k # KeyOf(h) => t[k] = table[k]
  BY <1>5 DEF Stored
<1>7. ~TooLong(h)
  BY <1>2 DEF MayStore
<1>8. ASSUME NEW e \in Entries(zones)
      PROVE  e \in ToSet(Tail(list)) \/ (~TooLong(e) /\ KeyOf(e) \in DOMAIN t)
  BY <1>4, <1>6, <1>7 DEF FillInv
<1>9. ASSUME NEW k \in DOMAIN t
      PROVE  \E e \in Entries(zones) : ~TooLong(e) /\ k = KeyOf(e) /\ t[k] = e.zone
  <2>1. CASE k = KeyOf(h)
    BY <1>2, <1>6, <1>7, <2>1
  <2>2. CASE k # KeyOf(h)
    <3>1. k \in DOMAIN table /\ t[k] = table[k]
      BY <1>6, <2>2
    <3> QED  BY <3>1 DEF FillInv
  <2> QED  BY <2>1, <2>2
<1> QED  BY <1>2, <1>3, <1>5, <1>8, <1>9 DEF FillInv

\* A table never holds more than its capacity.
LEMMA PutFits ==
  ASSUME NEW table, IsFiniteSet(DOMAIN table), Cardinality(DOMAIN table) <= MAX_ZONE_ENTRIES,
         NEW e, MayStore(table, e), MAX_ZONE_ENTRIES \in Nat
  PROVE  /\ IsFiniteSet(DOMAIN Stored(table, e))
         /\ Cardinality(DOMAIN Stored(table, e)) <= MAX_ZONE_ENTRIES
<1>1. DOMAIN Stored(table, e) = DOMAIN table \union {KeyOf(e)}
  BY DEF Stored
<1>2. Cardinality(DOMAIN table) \in Nat
  BY FS_CardinalityType
<1>3. CASE KeyOf(e) \in DOMAIN table
  <2>1. DOMAIN table \union {KeyOf(e)} = DOMAIN table
    BY <1>3
  <2> QED  BY <1>1, <2>1
<1>4. CASE KeyOf(e) \notin DOMAIN table
  <2>1. /\ IsFiniteSet(DOMAIN table \union {KeyOf(e)})
        /\ Cardinality(DOMAIN table \union {KeyOf(e)}) = Cardinality(DOMAIN table) + 1
    BY <1>4, FS_AddElement
  <2>2. Cardinality(DOMAIN table) # MAX_ZONE_ENTRIES
    BY <1>4 DEF MayStore, Full
  <2> QED  BY <1>1, <1>2, <2>1, <2>2
<1> QED  BY <1>3, <1>4

\* Both lists hold the entries of their zones, in whatever order the range
\* loop of ZoneLPMEntries meets the zones.
LEMMA ListsComplete ==
  ASSUME cfg \in Configs, Validate
  PROVE  /\ \A list \in ZoneLPMEntries : FillInv(<<>>, list, Remote)
         /\ FillInv(<<>>, SourceZoneLPMEntries, {cfg.source})
<1>1. /\ IsFiniteSet(Remote) /\ Remote \subseteq Names /\ cfg.source \in Names
      /\ \A n \in Names : cfg.zones[n] \in Seq(Subnet)
  BY ConfigFacts DEF Validate
<1>2. DOMAIN <<>> = {}
  OBVIOUS
<1>3. \A S, list : list \in Seq(Entries(S)) /\ ToSet(list) = Entries(S) => FillInv(<<>>, list, S)
  BY <1>2 DEF FillInv
<1>4. ASSUME NEW n \in Names, NEW S, n \in S PROVE EntriesOf(n) \in Seq(Entries(S))
  <2>1. PICK l \in Nat : DOMAIN cfg.zones[n] = 1..l
    BY <1>1
  <2>2. /\ EntriesOf(n) = [i \in 1..l |-> EntriesOf(n)[i]] /\ DOMAIN EntriesOf(n) = 1..l
    BY <2>1 DEF EntriesOf
  <2>3. \A i \in 1..l : EntriesOf(n)[i] \in Entries(S)
    BY <1>4, <2>2 DEF Entries, ToSet
  <2>4. EntriesOf(n) \in [1..l -> Entries(S)]
    BY <2>2, <2>3
  <2> QED  BY <2>4
<1>5. FillInv(<<>>, SourceZoneLPMEntries, {cfg.source})
  <2>1. EntriesOf(cfg.source) \in Seq(Entries({cfg.source}))
    BY <1>1, <1>4
  <2>2. ToSet(EntriesOf(cfg.source)) = Entries({cfg.source})
    BY DEF Entries
  <2> QED  BY <1>3, <2>1, <2>2 DEF SourceZoneLPMEntries
<1>6. ASSUME NEW list \in ZoneLPMEntries PROVE FillInv(<<>>, list, Remote)
  <2>1. PICK order \in SetToSeqs(Remote) :
          list = FlattenSeq([i \in DOMAIN order |-> EntriesOf(order[i])])
    BY DEF ZoneLPMEntries
  <2>2. PICK c \in Nat : c = Cardinality(Remote)
    BY <1>1, FS_CardinalityType
  <2>3. order \in Seq(Remote) /\ DOMAIN order = 1..c /\ ToSet(order) = Remote
    BY <1>1, <2>2, ListOfSet
  <2>4. PICK lists : lists = [i \in 1..c |-> EntriesOf(order[i])]
    OBVIOUS
  <2>5. \A i \in 1..c : order[i] \in Remote
    BY <2>3 DEF ToSet
  <2>6. \A i \in 1..c : EntriesOf(order[i]) \in Seq(Entries(Remote))
    BY <1>1, <1>4, <2>5
  <2>7. lists \in Seq(Seq(Entries(Remote))) /\ DOMAIN lists = 1..c
    BY <2>4, <2>6
  <2>8. list = FlattenSeq(lists)
    BY <2>1, <2>3, <2>4
  <2>9. list \in Seq(Entries(Remote)) /\ ToSet(list) = UNION {ToSet(lists[i]) : i \in 1..c}
    BY <2>7, <2>8, Flattened
  <2>10. UNION {ToSet(lists[i]) : i \in 1..c} = UNION {ToSet(EntriesOf(n)) : n \in Remote}
    <3>1. \A n \in Remote : \E i \in 1..c : order[i] = n
      BY <2>3 DEF ToSet
    <3>2. \A i \in 1..c : lists[i] = EntriesOf(order[i])
      BY <2>4
    <3> QED  BY <2>5, <3>1, <3>2
  <2> QED  BY <1>3, <2>9, <2>10 DEF Entries
<1> QED  BY <1>5, <1>6

-----------------------------------------------------------------------------
(* The steps of main, and packets *)

\* The configuration is read once; what is computed from it stays.
LEMMA SameConfig ==
  ASSUME cfg' = cfg
  PROVE  /\ Names' = Names /\ Remote' = Remote /\ Validate' = Validate
         /\ \A S : Entries(S)' = Entries(S)
         /\ \A e : TooLong(e)' = TooLong(e) /\ KeyOf(e)' = KeyOf(e)
         /\ \A t, l, S : FillInv(t, l, S)' = FillInv(t, l, S)
         /\ \A n, a : CoveredBy(n, a)' = CoveredBy(n, a)
         /\ \A a : Owners(a)' = Owners(a) /\ Claimed(a)' = Claimed(a)
         /\ \A S : IPv4Only(S)' = IPv4Only(S)
<1>1. Names' = Names
  BY DEF Names
<1>2. Remote' = Remote
  BY <1>1 DEF Remote
<1>3. Validate' = Validate
  BY <1>1, <1>2 DEF Validate
<1>4. \A S : Entries(S)' = Entries(S)
  <2>1. \A n : ZoneID(n)' = ZoneID(n)
    BY <1>1 DEF ZoneID
  <2>2. \A n : EntriesOf(n)' = EntriesOf(n)
    BY <2>1 DEF EntriesOf
  <2> QED  BY <2>2 DEF Entries
<1>5. \A e : TooLong(e)' = TooLong(e) /\ KeyOf(e)' = KeyOf(e)
  <2>1. \A s : lpmKeyFromNet(s)' = lpmKeyFromNet(s)
    BY DEF lpmKeyFromNet
  <2>2. \A k : Bits(k)' = Bits(k)
    BY DEF Bits, InMemory
  <2> QED  BY <2>1, <2>2 DEF TooLong, KeyOf
<1>6. \A t, l, S : FillInv(t, l, S)' = FillInv(t, l, S)
  BY <1>4, <1>5 DEF FillInv
<1>7. \A n, a : CoveredBy(n, a)' = CoveredBy(n, a)
  BY DEF CoveredBy
<1>8. \A a : Owners(a)' = Owners(a) /\ Claimed(a)' = Claimed(a)
  BY <1>2 DEF Owners, Claimed, Around
<1>9. \A S : IPv4Only(S)' = IPv4Only(S)
  BY DEF IPv4Only
<1> QED  BY <1>1, <1>2, <1>3, <1>4, <1>5, <1>6, <1>7, <1>8, <1>9

LEMMA ZoneInit == ConfigInit => ZoneInv
<1> SUFFICES ASSUME ConfigInit PROVE ZoneInv
  OBVIOUS
<1>1. /\ cfg \in Configs /\ pc = "config" /\ zone_lpm = <<>> /\ src_zone_lpm = <<>> /\ packet = NothingCounted
  BY DEF ConfigInit
<1>2. IsFiniteSet(DOMAIN <<>>) /\ Cardinality(DOMAIN <<>>) = 0
  <2>1. DOMAIN <<>> = {}
    OBVIOUS
  <2> QED  BY <2>1, FS_EmptySet
<1>3. ConfigTypeOK
  BY <1>1, <1>2, ZoneAssumption DEF ConfigTypeOK
<1> QED  BY <1>1, <1>3 DEF ZoneInv, LoadInv, EveryEventHasItsZone, LongestSubnetWins

\* Until the program runs there is no packet to count.
LEMMA LoadStep ==
  ASSUME ZoneInv, cfg' = cfg, packet' = packet, pc # "running", ConfigTypeOK',
         pc' = "config" => zone_lpm' = <<>> /\ src_zone_lpm' = <<>>,
         pc' \in {"load", "running"} =>
           /\ Validate
           /\ FillInv(zone_lpm', dstEntries', Remote)
           /\ FillInv(src_zone_lpm', srcEntries', {cfg.source}),
         pc' = "running" => dstEntries' = <<>> /\ srcEntries' = <<>>
  PROVE  ZoneInv'
<1>1. packet' = NothingCounted
  BY DEF ZoneInv, LoadInv
<1>2. Validate' = Validate /\ Remote' = Remote
  BY SameConfig
<1>3. \A t, l, S : FillInv(t, l, S)' = FillInv(t, l, S)
  BY SameConfig
<1>4. NothingCounted' = NothingCounted
  BY DEF NothingCounted, NoZone
<1>5. PICK t1, l1, t2, l2, r, c : /\ t1 = zone_lpm' /\ l1 = dstEntries' /\ t2 = src_zone_lpm' /\ l2 = srcEntries'
                                  /\ r = Remote /\ c = {cfg.source}
  OBVIOUS
<1>6. pc' \in {"load", "running"} =>
        FillInv(zone_lpm, dstEntries, Remote)' /\ FillInv(src_zone_lpm, srcEntries, {cfg.source})'
  <2>1. FillInv(t1, l1, r)' = FillInv(zone_lpm, dstEntries, Remote)'
    BY <1>2, <1>5 DEF FillInv
  <2>2. FillInv(t2, l2, c)' = FillInv(src_zone_lpm, srcEntries, {cfg.source})'
    BY <1>5 DEF FillInv
  <2> QED  BY <1>3, <1>5, <2>1, <2>2
<1>7. LoadInv'
  BY <1>1, <1>2, <1>4, <1>6 DEF LoadInv
<1>8. EveryEventHasItsZone' /\ LongestSubnetWins'
  BY <1>1, <1>4 DEF EveryEventHasItsZone, LongestSubnetWins
<1> QED  BY <1>7, <1>8 DEF ZoneInv

LEMMA LoadConfigKeeps == ZoneInv /\ LoadConfig => ZoneInv'
<1> SUFFICES ASSUME ZoneInv, LoadConfig PROVE ZoneInv'
  OBVIOUS
<1>1. /\ pc = "config" /\ cfg' = cfg /\ packet' = packet /\ zone_lpm' = zone_lpm /\ src_zone_lpm' = src_zone_lpm
      /\ cfg \in Configs /\ zone_lpm = <<>> /\ src_zone_lpm = <<>>
  BY DEF LoadConfig, tables, ZoneInv, ConfigTypeOK, LoadInv
<1>2. pc' \in {"load", "failed"}
  BY DEF LoadConfig
<1>3. ConfigTypeOK'
  BY <1>1, <1>2 DEF ZoneInv, ConfigTypeOK
<1>4. CASE Validate
  <2>1. pc' = "load" /\ dstEntries' \in ZoneLPMEntries /\ srcEntries' = SourceZoneLPMEntries
    BY <1>4 DEF LoadConfig
  <2>2. FillInv(<<>>, dstEntries', Remote) /\ FillInv(<<>>, srcEntries', {cfg.source})
    BY <1>1, <1>4, <2>1, ListsComplete
  <2> QED  BY <1>1, <1>3, <1>4, <2>1, <2>2, LoadStep
<1>5. CASE ~Validate
  <2>1. pc' = "failed"
    BY <1>5 DEF LoadConfig
  <2> QED  BY <1>1, <1>3, <2>1, LoadStep
<1> QED  BY <1>4, <1>5

LEMMA PutZoneKeeps == ZoneInv /\ PutZone => ZoneInv'
<1> SUFFICES ASSUME ZoneInv, PutZone PROVE ZoneInv'
  OBVIOUS
<1>1. /\ pc = "load" /\ dstEntries # <<>> /\ dstEntries' = Tail(dstEntries)
      /\ cfg' = cfg /\ srcEntries' = srcEntries /\ src_zone_lpm' = src_zone_lpm /\ packet' = packet
  BY DEF PutZone
<1>2. /\ Validate /\ FillInv(zone_lpm, dstEntries, Remote)
      /\ FillInv(src_zone_lpm, srcEntries, {cfg.source})
  BY <1>1 DEF ZoneInv, LoadInv
<1>3. /\ IsFiniteSet(DOMAIN zone_lpm) /\ Cardinality(DOMAIN zone_lpm) <= MAX_ZONE_ENTRIES
      /\ MAX_ZONE_ENTRIES \in Nat
  BY ZoneAssumption DEF ZoneInv, ConfigTypeOK
<1>4. CASE /\ MayStore(zone_lpm, Head(dstEntries)) /\ pc' = pc
           /\ zone_lpm' = Stored(zone_lpm, Head(dstEntries))
  <2>1. FillInv(zone_lpm', dstEntries', Remote)
    BY <1>1, <1>2, <1>4, PutFills
  <2>2. IsFiniteSet(DOMAIN zone_lpm') /\ Cardinality(DOMAIN zone_lpm') <= MAX_ZONE_ENTRIES
    BY <1>3, <1>4, PutFits
  <2>3. ConfigTypeOK'
    BY <1>1, <1>4, <2>2 DEF ZoneInv, ConfigTypeOK
  <2> QED  BY <1>1, <1>2, <1>4, <2>1, <2>3, LoadStep
<1>5. CASE pc' = "failed" /\ zone_lpm' = zone_lpm
  <2>1. ConfigTypeOK'
    BY <1>1, <1>5 DEF ZoneInv, ConfigTypeOK
  <2> QED  BY <1>1, <1>5, <2>1, LoadStep
<1> QED  BY <1>4, <1>5 DEF PutZone, Fail

LEMMA PutSrcZoneKeeps == ZoneInv /\ PutSrcZone => ZoneInv'
<1> SUFFICES ASSUME ZoneInv, PutSrcZone PROVE ZoneInv'
  OBVIOUS
<1>1. /\ pc = "load" /\ srcEntries # <<>> /\ srcEntries' = Tail(srcEntries)
      /\ cfg' = cfg /\ dstEntries' = dstEntries /\ zone_lpm' = zone_lpm /\ packet' = packet
  BY DEF PutSrcZone
<1>2. /\ Validate /\ FillInv(zone_lpm, dstEntries, Remote)
      /\ FillInv(src_zone_lpm, srcEntries, {cfg.source})
  BY <1>1 DEF ZoneInv, LoadInv
<1>3. /\ IsFiniteSet(DOMAIN src_zone_lpm) /\ Cardinality(DOMAIN src_zone_lpm) <= MAX_ZONE_ENTRIES
      /\ MAX_ZONE_ENTRIES \in Nat
  BY ZoneAssumption DEF ZoneInv, ConfigTypeOK
<1>4. CASE /\ MayStore(src_zone_lpm, Head(srcEntries)) /\ pc' = pc
           /\ src_zone_lpm' = Stored(src_zone_lpm, Head(srcEntries))
  <2>1. FillInv(src_zone_lpm', srcEntries', {cfg.source})
    BY <1>1, <1>2, <1>4, PutFills
  <2>2. IsFiniteSet(DOMAIN src_zone_lpm') /\ Cardinality(DOMAIN src_zone_lpm') <= MAX_ZONE_ENTRIES
    BY <1>3, <1>4, PutFits
  <2>3. ConfigTypeOK'
    BY <1>1, <1>4, <2>2 DEF ZoneInv, ConfigTypeOK
  <2> QED  BY <1>1, <1>2, <1>4, <2>1, <2>3, LoadStep
<1>5. CASE pc' = "failed" /\ src_zone_lpm' = src_zone_lpm
  <2>1. ConfigTypeOK'
    BY <1>1, <1>5 DEF ZoneInv, ConfigTypeOK
  <2> QED  BY <1>1, <1>5, <2>1, LoadStep
<1> QED  BY <1>4, <1>5 DEF PutSrcZone, Fail

LEMMA AttachKeeps == ZoneInv /\ Attach => ZoneInv'
<1> SUFFICES ASSUME ZoneInv, Attach PROVE ZoneInv'
  OBVIOUS
<1>1. /\ pc = "load" /\ pc' = "running" /\ dstEntries = <<>> /\ srcEntries = <<>> /\ cfg' = cfg
      /\ dstEntries' = dstEntries /\ srcEntries' = srcEntries
      /\ zone_lpm' = zone_lpm /\ src_zone_lpm' = src_zone_lpm /\ packet' = packet
  BY DEF Attach, loading, tables
<1>2. /\ Validate /\ FillInv(zone_lpm, dstEntries, Remote)
      /\ FillInv(src_zone_lpm, srcEntries, {cfg.source})
  BY <1>1 DEF ZoneInv, LoadInv
<1>3. ConfigTypeOK'
  BY <1>1 DEF ZoneInv, ConfigTypeOK
<1> QED  BY <1>1, <1>2, <1>3, LoadStep

\* What a program that runs has in its tables.
LEMMA TablesComplete ==
  ASSUME ZoneInv, pc = "running"
  PROVE  /\ cfg \in Configs /\ Validate
         /\ FillInv(zone_lpm, <<>>, Remote) /\ FillInv(src_zone_lpm, <<>>, {cfg.source})
         /\ Remote \subseteq Names /\ cfg.source \in Names
BY DEF ZoneInv, ConfigTypeOK, LoadInv, Remote, Validate

LEMMA PacketKeeps ==
  ASSUME ZoneInv, NEW s \in Addr, NEW d \in Addr, path_egress(s, d)
  PROVE  ZoneInv'
<1>1. /\ pc = "running" /\ Lookup(src_zone_lpm, s) # {} /\ cfg' = cfg /\ pc' = pc
      /\ dstEntries' = dstEntries /\ srcEntries' = srcEntries
      /\ zone_lpm' = zone_lpm /\ src_zone_lpm' = src_zone_lpm
  BY DEF path_egress, loading, tables
<1>2. PICK id \in Lookup(zone_lpm, d) :
        packet' = [saddr |-> s, daddr |-> d, zone |-> CountedUnder(id)]
  BY DEF path_egress
<1>3. /\ cfg \in Configs /\ Validate
      /\ FillInv(zone_lpm, <<>>, Remote) /\ FillInv(src_zone_lpm, <<>>, {cfg.source})
      /\ Remote \subseteq Names /\ cfg.source \in Names
  BY <1>1, TablesComplete
<1>A. IsClosest(id, Remote, d)
  BY <1>3, LookupFinds
<1>B. PICK n \in Remote : \E sub \in ToSet(cfg.zones[n]) :
        /\ id = ZoneID(n) /\ KeyCovers(sub, d)
        /\ \A m \in Remote : \A t \in ToSet(cfg.zones[m]) :
             KeyCovers(t, d) => KeyLength(sub) >= KeyLength(t)
  BY <1>A DEF IsClosest
<1>4. PICK sub \in ToSet(cfg.zones[n]) :
        /\ id = ZoneID(n) /\ KeyCovers(sub, d)
        /\ \A m \in Remote : \A t \in ToSet(cfg.zones[m]) :
             KeyCovers(t, d) => KeyLength(sub) >= KeyLength(t)
  BY <1>B
<1>5. CountedUnder(id) = n
  BY <1>3, <1>4, CountedForItsZone
<1>6. ASSUME IPv4Only(Remote) \/ Claimed(d) PROVE n \in Owners(d)
  <2>1. ASSUME NEW r \in Around(d)
        PROVE  KeyLength(sub) >= r[2].len /\ r[2].kind = "v4"
    <3>1. PICK m \in Remote : r \in {m} \X ToSet(cfg.zones[m]) /\ Covers(r[2], d)
      BY DEF Around
    <3>2. r[2] \in ToSet(cfg.zones[m])
      BY <3>1
    <3>3. KeyCovers(r[2], d) /\ KeyLength(r[2]) = r[2].len /\ r[2].kind = "v4"
      BY <3>1 DEF Covers, KeyCovers, KeyLength
    <3> QED  BY <1>4, <3>2, <3>3
  <2>2. sub.kind # "v6"
    <3> SUFFICES ASSUME sub.kind = "v6" PROVE FALSE
      OBVIOUS
    <3>1. ~IPv4Only(Remote)
      BY DEF IPv4Only
    <3>2. PICK r \in Around(d) : r[2].len > 0
      BY <1>6, <3>1 DEF Claimed
    <3>3. r[2].len \in Nat
      <4>1. PICK m \in Remote : r \in {m} \X ToSet(cfg.zones[m])
        BY DEF Around
      <4>2. r[2] \in Subnet
        BY <1>3, <4>1, EntryOf
      <4> QED  BY <4>2 DEF Subnet
    <3> QED  BY <2>1, <3>2, <3>3 DEF KeyLength
  <2>3. Covers(sub, d) /\ KeyLength(sub) = sub.len
    BY <1>4, <2>2 DEF Covers, KeyCovers, KeyLength
  <2>4. <<n, sub>>[1] = n /\ <<n, sub>>[2] = sub
    OBVIOUS
  <2>5. <<n, sub>> \in Around(d)
    BY <2>3 DEF Around
  <2>6. <<n, sub>> \in {q \in Around(d) : \A r \in Around(d) : q[2].len >= r[2].len}
    BY <2>1, <2>3, <2>4, <2>5
  <2> QED  BY <2>4, <2>6 DEF Owners
<1>7. ASSUME IPv4Only({cfg.source}) PROVE CoveredBy(cfg.source, s)
  <2>1. {cfg.source} \subseteq Names
    BY <1>3
  <2>2. PICK i \in Lookup(src_zone_lpm, s) : TRUE
    BY <1>1
  <2>A. IsClosest(i, {cfg.source}, s)
    BY <1>3, <2>1, <2>2, LookupFinds
  <2>3. \E m \in {cfg.source} : \E t \in ToSet(cfg.zones[m]) : KeyCovers(t, s)
    BY <2>A DEF IsClosest
  <2>4. PICK t \in ToSet(cfg.zones[cfg.source]) : KeyCovers(t, s) /\ t.kind # "v6"
    BY <1>7, <2>3 DEF IPv4Only
  <2> QED  BY <2>4 DEF CoveredBy, Covers, KeyCovers, KeyLength
<1>8. packet'.saddr = s /\ packet'.daddr = d /\ packet'.zone = n
  BY <1>2, <1>5
<1>9. Remote' = Remote /\ Validate' = Validate
  BY <1>1, SameConfig
<1>10. /\ \A a : Owners(a)' = Owners(a) /\ Claimed(a)' = Claimed(a)
       /\ \A m, a : CoveredBy(m, a)' = CoveredBy(m, a)
       /\ \A S : IPv4Only(S)' = IPv4Only(S)
  BY <1>1, SameConfig
<1>11. EveryEventHasItsZone'
  BY <1>8, <1>9 DEF EveryEventHasItsZone
<1>12. LongestSubnetWins'
  <2>1. PICK c : c = cfg.source
    OBVIOUS
  <2>2. CoveredBy(c, s)' = CoveredBy(cfg.source, packet.saddr)'
    BY <1>1, <1>8, <2>1 DEF CoveredBy
  <2>3. IPv4Only({c})' = IPv4Only({cfg.source})'
    BY <1>1, <2>1 DEF IPv4Only
  <2>4. IPv4Only({cfg.source})' => CoveredBy(cfg.source, packet.saddr)'
    BY <1>7, <1>10, <2>1, <2>2, <2>3
  <2>5. Owners(d)' = Owners(packet.daddr)' /\ Claimed(d)' = Claimed(packet.daddr)'
    BY <1>8 DEF Owners, Claimed, Around
  <2>6. IPv4Only(Remote)' = IPv4Only(Remote)
    BY <1>1, <1>9 DEF IPv4Only
  <2>7. IPv4Only(Remote)' \/ Claimed(packet.daddr)' => packet'.zone \in Owners(packet.daddr)'
    BY <1>6, <1>8, <1>10, <2>5, <2>6
  <2> QED  BY <2>4, <2>7 DEF LongestSubnetWins
<1>13. ConfigTypeOK'
  BY <1>1 DEF ZoneInv, ConfigTypeOK
<1>14. LoadInv'
  <2>1. \A t, l, S : FillInv(t, l, S)' = FillInv(t, l, S)
    BY <1>1, SameConfig
  <2>2. FillInv(zone_lpm, dstEntries, Remote)' = FillInv(zone_lpm, dstEntries, Remote)
    BY <1>1, <1>9, SameConfig DEF FillInv
  <2>3. FillInv(src_zone_lpm, srcEntries, {cfg.source})' = FillInv(src_zone_lpm, srcEntries, {cfg.source})
    <3>1. PICK t, l, c : t = src_zone_lpm /\ l = srcEntries /\ c = {cfg.source}
      OBVIOUS
    <3>2. FillInv(t, l, c)' = FillInv(src_zone_lpm, srcEntries, {cfg.source})'
      BY <1>1, <3>1 DEF FillInv
    <3> QED  BY <1>1, <3>1, <3>2, SameConfig
  <2> QED  BY <1>1, <1>9, <2>2, <2>3 DEF ZoneInv, LoadInv
<1> QED  BY <1>11, <1>12, <1>13, <1>14 DEF ZoneInv

LEMMA ZoneStep == ZoneInv /\ [ConfigNext]_configVars => ZoneInv'
<1> SUFFICES ASSUME ZoneInv, [ConfigNext]_configVars PROVE ZoneInv'
  OBVIOUS
<1>1. CASE LoadConfig \/ PutZone \/ PutSrcZone \/ Attach
  BY <1>1, LoadConfigKeeps, PutZoneKeeps, PutSrcZoneKeeps, AttachKeeps
<1>2. CASE \E s, d \in Addr : path_egress(s, d)
  BY <1>2, PacketKeeps
<1>3. CASE UNCHANGED configVars
  <2>1. /\ cfg' = cfg /\ pc' = pc /\ packet' = packet /\ dstEntries' = dstEntries /\ srcEntries' = srcEntries
        /\ zone_lpm' = zone_lpm /\ src_zone_lpm' = src_zone_lpm
    BY <1>3 DEF configVars, loading, tables
  <2>2. Remote' = Remote /\ Validate' = Validate
    BY <2>1, SameConfig
  <2>3. FillInv(zone_lpm, dstEntries, Remote)' = FillInv(zone_lpm, dstEntries, Remote)
    BY <2>1, <2>2, SameConfig DEF FillInv
  <2>4. FillInv(src_zone_lpm, srcEntries, {cfg.source})' = FillInv(src_zone_lpm, srcEntries, {cfg.source})
    <3>1. PICK t, l, c : t = src_zone_lpm /\ l = srcEntries /\ c = {cfg.source}
      OBVIOUS
    <3>2. FillInv(t, l, c)' = FillInv(src_zone_lpm, srcEntries, {cfg.source})'
      BY <2>1, <3>1 DEF FillInv
    <3> QED  BY <2>1, <3>1, <3>2, SameConfig
  <2>5. LoadInv'
    BY <2>1, <2>2, <2>3, <2>4 DEF ZoneInv, LoadInv, NothingCounted, NoZone
  <2>6. ConfigTypeOK'
    BY <2>1 DEF ZoneInv, ConfigTypeOK
  <2>7. EveryEventHasItsZone' /\ LongestSubnetWins'
    <3>1. Owners(packet.daddr)' = Owners(packet.daddr) /\ Claimed(packet.daddr)' = Claimed(packet.daddr)
      BY <2>1, <2>2 DEF Owners, Claimed, Around
    <3>2. CoveredBy(cfg.source, packet.saddr)' = CoveredBy(cfg.source, packet.saddr)
      BY <2>1 DEF CoveredBy
    <3>3. IPv4Only({cfg.source})' = IPv4Only({cfg.source}) /\ IPv4Only(Remote)' = IPv4Only(Remote)
      BY <2>1, <2>2 DEF IPv4Only
    <3> QED  BY <2>1, <2>2, <3>1, <3>2, <3>3
             DEF ZoneInv, EveryEventHasItsZone, LongestSubnetWins, NothingCounted, NoZone
  <2> QED  BY <2>5, <2>6, <2>7 DEF ZoneInv
<1> QED  BY <1>1, <1>2, <1>3 DEF ConfigNext

\* Validate, the two lists, Load and the packets keep ZoneInv, for any
\* configurations, any width of addresses and identifiers and any capacity
\* of the prefix tables.
THEOREM ZoneInvariant == ConfigSpec => []ZoneInv
<1>1. ConfigInit => ZoneInv
  BY ZoneInit
<1>2. ZoneInv /\ [ConfigNext]_configVars => ZoneInv'
  BY ZoneStep
<1> QED  BY <1>1, <1>2, PTL DEF ConfigSpec

\* Every event is counted for a remote zone: the identifiers of
\* assignZoneIDs, which count the source zone too, and the places of
\* buildZoneIndex never disagree (EveryEventHasItsZone).
THEOREM EventsHaveTheirZone == ConfigSpec => []EveryEventHasItsZone
<1>1. ZoneInv => EveryEventHasItsZone
  BY DEF ZoneInv
<1> QED  BY <1>1, ZoneInvariant, PTL

\* Among IPv4 zones packets of the source zone are counted for the zone with
\* the longest subnet around their destination, on hosts of either byte order
\* and whatever order the entries were stored in (LongestSubnetWins).
THEOREM LongestSubnetIsCounted == ConfigSpec => []LongestSubnetWins
<1>1. ZoneInv => LongestSubnetWins
  BY DEF ZoneInv
<1> QED  BY <1>1, ZoneInvariant, PTL

\* Load has stored every subnet of a program that runs, or the program would
\* not run (NothingSilentlyUnzoned).
THEOREM NoSubnetIsLost == ConfigSpec => []NothingSilentlyUnzoned
<1>1. ZoneInv => NothingSilentlyUnzoned
  <2> SUFFICES ASSUME ZoneInv, pc = "running", NEW a \in Addr
               PROVE  /\ Owners(a) # {} => Lookup(zone_lpm, a) # {}
                      /\ CoveredBy(cfg.source, a) => Lookup(src_zone_lpm, a) # {}
    BY DEF NothingSilentlyUnzoned
  <2>1. /\ cfg \in Configs /\ Validate
        /\ FillInv(zone_lpm, <<>>, Remote) /\ FillInv(src_zone_lpm, <<>>, {cfg.source})
        /\ Remote \subseteq Names /\ cfg.source \in Names
    BY TablesComplete
  <2>2. ASSUME Owners(a) # {} PROVE \E n \in Remote : CoveredBy(n, a)
    <3>1. PICK p \in Around(a) : TRUE
      BY <2>2 DEF Owners
    <3>2. PICK n \in Remote : p \in {n} \X ToSet(cfg.zones[n]) /\ Covers(p[2], a)
      BY <3>1 DEF Around
    <3>3. p[2] \in ToSet(cfg.zones[n])
      BY <3>2
    <3> QED  BY <3>2, <3>3 DEF CoveredBy
  <2>3. (\E n \in Remote : CoveredBy(n, a)) => Lookup(zone_lpm, a) # {}
    BY <2>1, LookupFinds
  <2>4. CoveredBy(cfg.source, a) => Lookup(src_zone_lpm, a) # {}
    <3>1. {cfg.source} \subseteq Names /\ cfg.source \in {cfg.source}
      BY <2>1
    <3>2. (\E n \in {cfg.source} : CoveredBy(n, a)) => Lookup(src_zone_lpm, a) # {}
      BY <2>1, <3>1, LookupFinds
    <3> QED  BY <3>1, <3>2
  <2> QED  BY <2>2, <2>3, <2>4
<1> QED  BY <1>1, ZoneInvariant, PTL
=============================================================================
