------------------------------ MODULE PathEgress ------------------------------
(***************************************************************************)
(* The exits of path_egress in bpf/packet_loss.bpf.c and the debug counters *)
(* that record them, together with the reading of those counters in every   *)
(* poll (ReadDebugCounters in internal/bpf/load.go, publish in main.go).    *)
(* A counter is a per-CPU array map of its own.  The poll reads one map     *)
(* after the other, CPU by CPU, while packets go on being counted.          *)
(*                                                                         *)
(* A CPU handles one packet at a time.  What path_egress does with a packet *)
(* that has both zones is the subject of BloomFilter and StatsPipeline.     *)
(***************************************************************************)
EXTENDS Integers, Sequences

CONSTANTS NCPUs,
          Packets,    \* packets that may leave the host
          MaxPackets, \* bound on the number of packets
          MaxPolls    \* bound on the number of polls

\* ip: where parse_ipv4 finds an IPv4 header, behind an Ethernet header, at
\* the start (WireGuard) or nowhere; fits: the header ends inside the linear
\* data; whole: neither the TCP header nor tot_len is too short; control:
\* SYN, FIN or RST; srcZone, dstZone: the prefix table has the address.
Packet == [ip : {"ether", "raw", "none"}, fits : BOOLEAN, tcp : BOOLEAN, whole : BOOLEAN,
           payload : BOOLEAN, control : BOOLEAN, srcZone : BOOLEAN, dstZone : BOOLEAN]

ASSUME EgressAssumption ==
  /\ NCPUs \in Nat \ {0} /\ Packets \subseteq Packet
  /\ MaxPackets \in Nat /\ MaxPolls \in Nat

CPUs == 1..NCPUs

VARIABLES cpu,     \* what each CPU is about to count, and for which packet
          debug,   \* the counter maps, debug[map][cpu]
          packets, \* number of packets so far
          poll,    \* the poll: program counter, map, CPU and sums read
          prev,    \* prevTCP and prevZoned of main
          tc,      \* TCP and Zoned of the last tickCounters
          polls,   \* number of polls so far
          before   \* history: prev before the last publication

kernel == <<cpu, debug, packets>>
user == <<poll, prev, tc, polls, before>>
vars == <<kernel, user>>

Drops == {"not_ipv4", "not_tcp", "tcp_short", "tcp_pure_ack"}
Exits == {"no_src_zone", "no_dst_zone", "tcp_zoned"}
Counters == {"seen", "tcp_payload"} \union Drops \union Exits

-----------------------------------------------------------------------------
(* The exits of path_egress *)

parse_ipv4(p) == p.ip \in {"ether", "raw"} /\ p.fits

PureAck(p) == ~p.payload /\ ~p.control

\* What is counted after debug_seen: a drop, or that the packet is measured.
FirstCount(p) ==
  CASE ~parse_ipv4(p) -> "not_ipv4"
    [] parse_ipv4(p) /\ ~p.tcp -> "not_tcp"
    [] parse_ipv4(p) /\ p.tcp /\ ~p.whole -> "tcp_short"
    [] parse_ipv4(p) /\ p.tcp /\ p.whole /\ PureAck(p) -> "tcp_pure_ack"
    [] OTHER -> "tcp_payload"

\* What is counted after the zone lookups.
SecondCount(p) ==
  IF ~p.srcZone THEN "no_src_zone" ELSE IF ~p.dstZone THEN "no_dst_zone" ELSE "tcp_zoned"

\* Mutant: a packet that is too short is dropped without being counted.
NextCountNoShort(m, p) ==
  CASE m = "seen" -> IF FirstCount(p) = "tcp_short" THEN "none" ELSE FirstCount(p)
    [] m = "tcp_payload" -> SecondCount(p)
    [] OTHER -> "none"

\* Mutant: a measured packet is counted after its zones were looked up.
NextCountZonesFirst(m, p) ==
  CASE m = "seen" -> IF FirstCount(p) = "tcp_payload" THEN SecondCount(p) ELSE FirstCount(p)
    [] m \in Exits -> "tcp_payload"
    [] OTHER -> "none"

\* The counter that follows m on the way of packet p, if any.
NextCount(m, p) ==
  CASE m = "seen" -> FirstCount(p)
    [] m = "tcp_payload" -> SecondCount(p)
    [] OTHER -> "none"

NoPacket == [ip |-> "none", fits |-> FALSE, tcp |-> FALSE, whole |-> FALSE, payload |-> FALSE,
             control |-> FALSE, srcZone |-> FALSE, dstZone |-> FALSE]
Idle == [next |-> "none", packet |-> NoPacket]

path_egress(c, p) ==
  /\ cpu[c].next = "none"
  /\ packets < MaxPackets
  /\ packets' = packets + 1
  /\ cpu' = [cpu EXCEPT ![c] = [next |-> "seen", packet |-> p]]
  /\ UNCHANGED <<debug, user>>

debug_inc(c) ==
  LET m == cpu[c].next
      after == NextCount(m, cpu[c].packet)
  IN  /\ m # "none"
      /\ debug' = [debug EXCEPT ![m][c] = @ + 1]
      /\ cpu' = [cpu EXCEPT ![c] = IF after = "none" THEN Idle ELSE [@ EXCEPT !.next = after]]
      /\ UNCHANGED <<packets, user>>

-----------------------------------------------------------------------------
(* ReadDebugCounters *)

\* Mutant: the packets seen are read last.
SeenReadLast ==
  <<"not_ipv4", "not_tcp", "tcp_short", "tcp_pure_ack", "tcp_payload",
    "no_src_zone", "no_dst_zone", "tcp_zoned", "seen">>

\* The maps in the order in which they are read.
ReadOrder ==
  <<"seen", "not_ipv4", "not_tcp", "tcp_short", "tcp_pure_ack", "tcp_payload",
    "no_src_zone", "no_dst_zone", "tcp_zoned">>

ZeroOut == [m \in Counters |-> 0]
Waiting == [pc |-> "wait", map |-> 1, cpu |-> 1, out |-> ZeroOut]

StartReading ==
  /\ poll.pc = "wait"
  /\ polls < MaxPolls
  /\ polls' = polls + 1
  /\ poll' = [Waiting EXCEPT !.pc = "read"]
  /\ UNCHANGED <<kernel, prev, tc, before>>

NextSlot(r) ==
  IF r.cpu < NCPUs THEN [r EXCEPT !.cpu = @ + 1]
  ELSE IF r.map < Len(ReadOrder) THEN [r EXCEPT !.cpu = 1, !.map = @ + 1]
  ELSE [r EXCEPT !.pc = "publish", !.map = 1, !.cpu = 1]

\* sumPerCPU: the lookup copies the slots one by one; their sum is returned.
ReadSlot ==
  /\ poll.pc = "read"
  /\ LET m == ReadOrder[poll.map]
     IN  poll' = NextSlot([poll EXCEPT !.out[m] = @ + debug[m][poll.cpu]])
  /\ UNCHANGED <<kernel, prev, tc, polls, before>>

\* Mutant: the counters are used although the reading failed.
FailedUsed == [poll EXCEPT !.pc = "publish"]

FailedDropped == Waiting

\* A lookup fails: publish leaves prevTCP, prevZoned alone and the summary of
\* this tick has no packets.
ReadFails ==
  /\ poll.pc = "read"
  /\ poll' = FailedDropped
  /\ tc' = [TCP |-> 0, Zoned |-> 0]
  /\ UNCHANGED <<kernel, prev, polls, before>>

\* publish: what is new since the last successful reading.  The subtraction
\* is unsigned in the code; DeltasNeverWrap shows that it is never negative.
Publish ==
  /\ poll.pc = "publish"
  /\ tc' = [TCP |-> poll.out["tcp_payload"] - prev.TCP, Zoned |-> poll.out["tcp_zoned"] - prev.Zoned]
  /\ prev' = [TCP |-> poll.out["tcp_payload"], Zoned |-> poll.out["tcp_zoned"]]
  /\ before' = prev
  /\ poll' = Waiting
  /\ UNCHANGED <<kernel, polls>>

-----------------------------------------------------------------------------

Init ==
  /\ cpu = [c \in CPUs |-> Idle]
  /\ debug = [m \in Counters |-> [c \in CPUs |-> 0]]
  /\ packets = 0
  /\ poll = Waiting
  /\ prev = [TCP |-> 0, Zoned |-> 0]
  /\ tc = [TCP |-> 0, Zoned |-> 0]
  /\ polls = 0
  /\ before = [TCP |-> 0, Zoned |-> 0]

Next ==
  \/ \E c \in CPUs : (\E p \in Packets : path_egress(c, p)) \/ debug_inc(c)
  \/ StartReading \/ ReadSlot \/ ReadFails \/ Publish

Spec == Init /\ [][Next]_vars

-----------------------------------------------------------------------------

\* Every variable has the type of the map, register or field it stands for.
TypeOK ==
  /\ cpu \in [CPUs -> [next : Counters \union {"none"}, packet : Packets \union {NoPacket}]]
  /\ debug \in [Counters -> [CPUs -> Nat]]
  /\ packets \in Nat
  /\ poll \in [pc : {"wait", "read", "publish"}, map : 1..9, cpu : CPUs, out : [Counters -> Nat]]
  /\ prev \in [TCP : Nat, Zoned : Nat]
  /\ tc \in [TCP : Int, Zoned : Int]
  /\ polls \in Nat
  /\ before \in [TCP : Nat, Zoned : Nat]

\* 1 if the CPU is about to count one of the counters in S.
Due(c, S) == IF cpu[c].next \in S THEN 1 ELSE 0

\* Every packet that was seen is counted in exactly one exit, every measured
\* one in exactly one zone outcome; on each CPU the counters differ by at most
\* the packet in hand.
CountedOnce ==
  \A c \in CPUs :
    /\ debug["seen"][c] =
         debug["not_ipv4"][c] + debug["not_tcp"][c] + debug["tcp_short"][c]
           + debug["tcp_pure_ack"][c] + debug["tcp_payload"][c] + Due(c, Drops \union {"tcp_payload"})
    /\ debug["tcp_payload"][c] =
         debug["no_src_zone"][c] + debug["no_dst_zone"][c] + debug["tcp_zoned"][c] + Due(c, Exits)

\* A reading is taken while packets are counted, yet it accounts for every
\* packet it has seen but one per CPU: the inclusive counters are read before
\* the ones they split into.  The drop reasons that publish logs for a zone
\* without segments therefore explain the packets that were seen.
ReadingExplains ==
  poll.pc = "publish" =>
    LET out == poll.out
    IN  /\ out["seen"] <= out["not_ipv4"] + out["not_tcp"] + out["tcp_short"]
                            + out["tcp_pure_ack"] + out["tcp_payload"] + NCPUs
        /\ out["tcp_payload"] <= out["no_src_zone"] + out["no_dst_zone"] + out["tcp_zoned"] + NCPUs

\* The differences between two readings never wrap around, although readings
\* may fail in between.
DeltasNeverWrap == tc.TCP >= 0 /\ tc.Zoned >= 0

\* The zoned packets of a reading are all among the measured packets of the
\* next one: a reading that shows more zoned than measured packets is made
\* good one poll later.
SkewLastsOnePoll == before.Zoned <= prev.TCP
=============================================================================
