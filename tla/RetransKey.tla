------------------------------ MODULE RetransKey ------------------------------
(***************************************************************************)
(* Which packets of one TCP flow path_egress (bpf/packet_loss.bpf.c) takes  *)
(* for retransmits: the key it derives from the sequence number, looked up  *)
(* in the ageing set of RecentBits.  Every key has a bit of its own here:   *)
(* what is flagged wrongly is so because of the key, not because of the     *)
(* Bloom filter's hash collisions.                                          *)
(*                                                                         *)
(* Positions in the stream are natural numbers; position 0 is the SYN and   *)
(* the first byte of data is at position 1.  Sequence numbers have two      *)
(* halves and wrap around.  A retransmission may cut the stream into other  *)
(* segments than the first transmission did.                                *)
(***************************************************************************)
EXTENDS Integers

CONSTANTS Half,           \* values of half a sequence number (2^16)
          Block,          \* sequence numbers to one key of a data segment (2^4)
          LittleEndian,   \* byte order of the host
          ISNs,           \* initial sequence numbers
          Lens,           \* payload lengths
          BLOOM_EPOCH_NS, \* length of an epoch
          MaxNow,         \* bound on the clock
          MaxPackets      \* bound on the number of packets

ASSUME KeyAssumption ==
  /\ Half \in Nat \ {0} /\ Block \in Nat \ {0} /\ (Half * Half) % Block = 0
  /\ LittleEndian \in BOOLEAN
  /\ ISNs \subseteq 0..Half * Half - 1 /\ Lens \subseteq Nat \ {0}
  /\ BLOOM_EPOCH_NS \in Nat /\ MaxNow \in Nat /\ MaxPackets \in Nat

VARIABLES now, epochStart, current, previous, is_retrans, \* see RecentBits
          isn,     \* initial sequence number of the flow
          nxt,     \* position of the next byte never sent
          sent,    \* history: segments seen, with the time of the last one
          last,    \* history: the last packet, and when its like was seen before
          packets  \* number of packets so far

recent == <<now, epochStart, current, previous, is_retrans>>
flow == <<isn, nxt, sent, last, packets>>
vars == <<recent, flow>>

SeqSpace == Half * Half
Seqs == 0..SeqSpace - 1
OwnBit(k) == {k}
Filter == INSTANCE RecentBits WITH Keys <- Seqs, BitsOf <- OwnBit

Never == -1
NoPacket == [pos |-> 0, len |-> 0, new |-> FALSE, before |-> Never]

-----------------------------------------------------------------------------
(* The key *)

\* ___bpf_swab32 on the two halves.
Swab(x) == (x % Half) * Half + x \div Half

\* tcph->seq as the load instruction returns it: the wire has the most
\* significant byte first.
LoadedSeq(pos) ==
  LET seq == (isn + pos) % SeqSpace
  IN  IF LittleEndian THEN Swab(seq) ELSE seq

\* Mutant: the sequence number is used as it was loaded.
NotSwapped(x) == x

bpf_ntohl(x) == IF LittleEndian THEN Swab(x) ELSE x

\* Mutant: the key is taken from the end of the segment.
KeyOfEnd(pos, len) ==
  IF len > 0 THEN bpf_ntohl(LoadedSeq(pos + len)) \div Block ELSE bpf_ntohl(LoadedSeq(pos))

\* A segment with payload drops the low bits; a SYN without payload does not.
seq_key(pos, len) ==
  IF len > 0 THEN bpf_ntohl(LoadedSeq(pos)) \div Block ELSE bpf_ntohl(LoadedSeq(pos))

-----------------------------------------------------------------------------

\* The exporter may meet the flow at its SYN or in the middle.
Init ==
  /\ Filter!Init
  /\ isn \in ISNs
  /\ nxt \in {0, 1}
  /\ sent = {} /\ last = NoPacket /\ packets = 0

\* The SYN itself takes a position before its payload.
End(pos, len) == IF pos = 0 THEN len + 1 ELSE pos + len

\* The last time a segment that starts here, with payload or without, was seen.
SeenBefore(pos, len) == {s \in sent : s.pos = pos /\ (s.len > 0) = (len > 0)}

Counted == packets < MaxPackets /\ packets' = packets + 1

Segment(pos, len) ==
  /\ Counted
  /\ Filter!Lookup(seq_key(pos, len))
  /\ last' = [pos |-> pos, len |-> len, new |-> pos = nxt,
              before |-> IF SeenBefore(pos, len) = {} THEN Never
                         ELSE (CHOOSE s \in SeenBefore(pos, len) :
                                 \A t \in SeenBefore(pos, len) : t.at <= s.at).at]
  /\ sent' = (sent \ {[pos |-> pos, len |-> len, at |-> t] : t \in 0..MaxNow})
               \union {[pos |-> pos, len |-> len, at |-> now]}
  /\ nxt' = IF End(pos, len) > nxt THEN End(pos, len) ELSE nxt
  /\ UNCHANGED isn

\* A SYN without ACK, the first or a repeated one, with payload (TCP Fast
\* Open) or without.
SendSyn(len) == (nxt = 0 \/ \E s \in sent : s.pos = 0) /\ Segment(0, len)

SendNew(len) == nxt > 0 /\ Segment(nxt, len)

\* A retransmission starts where some segment started or ended.
Edges == {s.pos : s \in sent} \union {End(s.pos, s.len) : s \in sent}

Resend(pos, len) == pos \in Edges \ {0} /\ End(pos, len) <= nxt /\ Segment(pos, len)

\* FIN, RST or SYN-ACK without payload: it ages the set and is not looked up.
Control ==
  /\ Counted
  /\ Filter!Age
  /\ last' = NoPacket
  /\ UNCHANGED <<isn, nxt, sent>>

Tick == Filter!Tick /\ UNCHANGED flow

Next ==
  \/ \E len \in Lens \union {0} : SendSyn(len)
  \/ \E len \in Lens : SendNew(len)
  \/ \E pos \in Edges, len \in Lens : Resend(pos, len)
  \/ Control
  \/ Tick

Spec == Init /\ [][Next]_vars

-----------------------------------------------------------------------------

\* Every variable has its type and no key is wider than a sequence number.
TypeOK ==
  /\ now \in 0..MaxNow /\ epochStart \in 0..now /\ is_retrans \in BOOLEAN
  /\ current \subseteq Seqs /\ previous \subseteq Seqs
  /\ nxt \in Nat /\ isn \in Seqs /\ packets \in 0..MaxPackets
  /\ sent \subseteq [pos : Nat, len : Nat, at : 0..now]
  /\ last \in [pos : Nat, len : Nat, new : BOOLEAN, before : {Never} \union 0..now]

\* A segment that starts where one started at most an epoch ago is flagged,
\* also when it has another length, when the sequence number has wrapped, and
\* when it is a repeated SYN.
RepeatIsFlagged ==
  last.before # Never /\ now - last.before <= BLOOM_EPOCH_NS => is_retrans

\* A flow that sends no segment shorter than a block, that has not gone round
\* the sequence space, and whose initial sequence number is not among the
\* keys of data segments, never has new data flagged.
FullSegmentsNotFlagged ==
  /\ \A s \in sent : s.len = 0 \/ s.len >= Block
  /\ nxt <= SeqSpace - Block
  /\ isn >= SeqSpace \div Block
  => ~(last.new /\ is_retrans)

-----------------------------------------------------------------------------
(* What RetransKeyProofs needs besides *)

\* Nothing was sent beyond nxt, and only a SYN goes without payload.
SentInv == \A s \in sent : End(s.pos, s.len) <= nxt /\ (s.len = 0 => s.pos = 0)

\* The bit of a segment is of the current epoch if the segment is, and is
\* known for an epoch after it.  No packet arrives after the end of an epoch
\* without beginning the next.
AgeOf(s) ==
  LET k == seq_key(s.pos, s.len)
  IN  /\ s.at - epochStart <= BLOOM_EPOCH_NS
      /\ s.at >= epochStart => k \in current
      /\ now - s.at <= BLOOM_EPOCH_NS => k \in current \union previous

AgeInv == \A s \in sent : AgeOf(s)

\* Only the keys of segments sent are known.
KnownInv == \A k \in current \union previous : \E s \in sent : k = seq_key(s.pos, s.len)

KeyInv ==
  TypeOK /\ SentInv /\ AgeInv /\ KnownInv /\ RepeatIsFlagged /\ FullSegmentsNotFlagged
=============================================================================
