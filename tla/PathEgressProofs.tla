--------------------------- MODULE PathEgressProofs ---------------------------
(***************************************************************************)
(* Theorems about the classifier and its readers (PathEgress), for any      *)
(* number of CPUs and any packets.                                          *)
(***************************************************************************)
EXTENDS PathEgress, FiniteSetTheorems, WellFoundedInduction, TLAPS

(***************************************************************************)
(* After debug_seen a packet is dropped or measured, and a measured one    *)
(* leaves by one of the three zone exits.                                  *)
(***************************************************************************)
LEMMA NextCountMeaning ==
  ASSUME NEW p \in Packet
  PROVE  /\ NextCount("seen", p) \in Drops \union {"tcp_payload"}
         /\ NextCount("tcp_payload", p) \in Exits
         /\ \A m \in Drops \union Exits : NextCount(m, p) = "none"
<1>1. FirstCount(p) \in Drops \union {"tcp_payload"}  BY DEF FirstCount, Drops
<1>2. SecondCount(p) \in Exits  BY DEF SecondCount, Exits
<1>3. QED  BY <1>1, <1>2 DEF NextCount, Drops, Exits

\* The initial state is well typed and nothing has been counted.
LEMMA InitInv == Init => TypeOK /\ CountedOnce
<1>1. Init => TypeOK
  BY EgressAssumption DEF Init, TypeOK, CPUs, Idle, Waiting, ZeroOut, Counters
<1>2. Init => CountedOnce
  BY DEF Init, CountedOnce, Due, Idle, Counters, Drops, Exits
<1>3. QED  BY <1>1, <1>2

\* The maps a reading visits are counters, and the next slot exists.
LEMMA NextSlotType ==
  ASSUME NEW r \in [pc : {"wait", "read", "publish"}, map : 1..9, cpu : CPUs, out : [Counters -> Nat]]
  PROVE  NextSlot(r) \in [pc : {"wait", "read", "publish"}, map : 1..9, cpu : CPUs, out : [Counters -> Nat]]
<1> DEFINE T == [pc : {"wait", "read", "publish"}, map : 1..9, cpu : CPUs, out : [Counters -> Nat]]
<1>1. Len(ReadOrder) = 9  BY DEF ReadOrder
<1>2. r.cpu \in Nat /\ r.map \in 1..9 /\ 1 \in CPUs  BY EgressAssumption DEF CPUs
<1>3. CASE r.cpu < NCPUs
  <2>1. r.cpu + 1 \in CPUs  BY <1>2, <1>3, EgressAssumption DEF CPUs
  <2>2. [r EXCEPT !.cpu = r.cpu + 1] \in T  BY <2>1
  <2>3. QED  BY <1>3, <2>2 DEF NextSlot
<1>4. CASE ~(r.cpu < NCPUs) /\ r.map < 9
  <2>1. r.map + 1 \in 1..9  BY <1>2, <1>4
  <2>2. [r EXCEPT !.cpu = 1, !.map = r.map + 1] \in T  BY <1>2, <2>1
  <2>3. QED  BY <1>1, <1>4, <2>2 DEF NextSlot
<1>5. CASE ~(r.cpu < NCPUs) /\ ~(r.map < 9)
  <2>1. 1 \in 1..9  OBVIOUS
  <2>2. [r EXCEPT !.pc = "publish", !.map = 1, !.cpu = 1] \in T  BY <1>2, <2>1, Zenon
  <2>3. QED  BY <1>1, <1>5, <2>2 DEF NextSlot
<1>6. QED  BY <1>3, <1>4, <1>5

\* A poll that waits, or begins to read, has its type.
LEMMA WaitingType ==
  /\ Waiting \in [pc : {"wait", "read", "publish"}, map : 1..9, cpu : CPUs, out : [Counters -> Nat]]
  /\ [Waiting EXCEPT !.pc = "read"]
       \in [pc : {"wait", "read", "publish"}, map : 1..9, cpu : CPUs, out : [Counters -> Nat]]
<1>1. 1 \in CPUs /\ 1 \in 1..9  BY EgressAssumption DEF CPUs
<1>2. ZeroOut \in [Counters -> Nat]  BY DEF ZeroOut
<1>3. QED  BY <1>1, <1>2 DEF Waiting

\* Every step keeps the types.
LEMMA TypeStep == TypeOK /\ [Next]_vars => TypeOK'
<1> SUFFICES ASSUME TypeOK, [Next]_vars  PROVE TypeOK'  OBVIOUS
<1> USE DEF TypeOK
<1>0. Packets \subseteq Packet /\ NoPacket \in Packet  BY EgressAssumption DEF NoPacket, Packet
<1>1. ASSUME NEW c \in CPUs, NEW p \in Packets, path_egress(c, p)  PROVE TypeOK'
  BY <1>1 DEF path_egress, user, Counters
<1>2. ASSUME NEW c \in CPUs, debug_inc(c)  PROVE TypeOK'
  <2>1. cpu[c].next \in Counters /\ cpu[c].packet \in Packet
    BY <1>2, <1>0 DEF debug_inc
  <2>2. NextCount(cpu[c].next, cpu[c].packet) \in Counters \union {"none"}
    BY <2>1, NextCountMeaning DEF Counters
  <2>3. cpu' \in [CPUs -> [next : Counters \union {"none"}, packet : Packets \union {NoPacket}]]
    BY <1>2, <2>2 DEF debug_inc, Idle
  <2>4. debug' \in [Counters -> [CPUs -> Nat]]
    BY <1>2, <2>1 DEF debug_inc
  <2>5. QED  BY <1>2, <2>3, <2>4 DEF debug_inc, user
<1>3. CASE StartReading
  <2>1. poll' \in [pc : {"wait", "read", "publish"}, map : 1..9, cpu : CPUs, out : [Counters -> Nat]]
    BY <1>3, WaitingType, Zenon DEF StartReading
  <2>2. polls' \in Nat  BY <1>3 DEF StartReading
  <2>3. QED  BY <1>3, <2>1, <2>2 DEF StartReading, kernel
<1>4. CASE ReadSlot
  <2> DEFINE m == ReadOrder[poll.map]
  <2>1. m \in Counters
    BY DEF ReadOrder, Counters, Drops, Exits
  <2>2. debug[m][poll.cpu] \in Nat  BY <2>1
  <2>3. [poll EXCEPT !.out[m] = @ + debug[m][poll.cpu]]
          \in [pc : {"wait", "read", "publish"}, map : 1..9, cpu : CPUs, out : [Counters -> Nat]]
    <3>1. [poll.out EXCEPT ![m] = @ + debug[m][poll.cpu]] \in [Counters -> Nat]
      BY <2>1, <2>2
    <3>2. QED  BY <3>1
  <2>4. poll' \in [pc : {"wait", "read", "publish"}, map : 1..9, cpu : CPUs, out : [Counters -> Nat]]
    BY <1>4, <2>3, NextSlotType DEF ReadSlot
  <2>5. QED  BY <1>4, <2>4 DEF ReadSlot, kernel
<1>5. CASE ReadFails
  BY <1>5, WaitingType DEF ReadFails, FailedDropped, kernel
<1>6. CASE Publish
  <2>1. "tcp_payload" \in Counters /\ "tcp_zoned" \in Counters  BY DEF Counters, Exits
  <2>2. poll.out["tcp_payload"] \in Nat /\ poll.out["tcp_zoned"] \in Nat  BY <2>1
  <2>3. tc' \in [TCP : Int, Zoned : Int]  BY <1>6, <2>2 DEF Publish
  <2>4. prev' \in [TCP : Nat, Zoned : Nat]  BY <1>6, <2>2 DEF Publish
  <2>5. QED  BY <1>6, <2>3, <2>4, WaitingType DEF Publish, kernel
<1>7. CASE UNCHANGED vars
  BY <1>7 DEF vars, kernel, user
<1>8. QED  BY <1>1, <1>2, <1>3, <1>4, <1>5, <1>6, <1>7 DEF Next

\* Every step keeps the balance: an increment moves the packet in hand from
\* one side to the other.
LEMMA CountedStep == TypeOK /\ CountedOnce /\ [Next]_vars => CountedOnce'
<1> SUFFICES ASSUME TypeOK, CountedOnce, [Next]_vars  PROVE CountedOnce'  OBVIOUS
<1>0. Packets \subseteq Packet /\ NoPacket \in Packet  BY EgressAssumption DEF NoPacket, Packet
<1>1. ASSUME NEW c \in CPUs, NEW p \in Packets, path_egress(c, p)  PROVE CountedOnce'
  BY <1>1 DEF path_egress, CountedOnce, Due, TypeOK, Drops, Exits
<1>2. ASSUME NEW c \in CPUs, debug_inc(c)  PROVE CountedOnce'
  <2> DEFINE m == cpu[c].next
             after == NextCount(m, cpu[c].packet)
  <2>1. m \in Counters /\ cpu[c].packet \in Packet
    BY <1>2, <1>0 DEF debug_inc, TypeOK
  <2>2. /\ debug' = [debug EXCEPT ![m][c] = @ + 1]
        /\ cpu'[c].next = after
        /\ \A d \in CPUs \ {c} : cpu'[d] = cpu[d]
    BY <1>2 DEF debug_inc, Idle, TypeOK
  <2>3. \A n \in Counters, d \in CPUs :
          debug'[n][d] = IF n = m /\ d = c THEN debug[n][d] + 1 ELSE debug[n][d]
    BY <2>1, <2>2 DEF TypeOK
  <2>4. \A n \in Counters, d \in CPUs : debug[n][d] \in Nat  BY DEF TypeOK
  <2>5. /\ m = "seen" => after \in Drops \union {"tcp_payload"}
        /\ m = "tcp_payload" => after \in Exits
        /\ m \in Drops \union Exits => after = "none"
    BY <2>1, NextCountMeaning
  <2>6. SUFFICES ASSUME NEW d \in CPUs
        PROVE  /\ debug'["seen"][d] =
                    debug'["not_ipv4"][d] + debug'["not_tcp"][d] + debug'["tcp_short"][d]
                      + debug'["tcp_pure_ack"][d] + debug'["tcp_payload"][d]
                      + Due(d, Drops \union {"tcp_payload"})'
               /\ debug'["tcp_payload"][d] =
                    debug'["no_src_zone"][d] + debug'["no_dst_zone"][d]
                      + debug'["tcp_zoned"][d] + Due(d, Exits)'
    BY DEF CountedOnce
  <2>7. /\ debug["seen"][d] =
             debug["not_ipv4"][d] + debug["not_tcp"][d] + debug["tcp_short"][d]
               + debug["tcp_pure_ack"][d] + debug["tcp_payload"][d] + Due(d, Drops \union {"tcp_payload"})
        /\ debug["tcp_payload"][d] =
             debug["no_src_zone"][d] + debug["no_dst_zone"][d] + debug["tcp_zoned"][d] + Due(d, Exits)
    BY DEF CountedOnce
  <2>8. CASE d # c
    BY <2>2, <2>3, <2>7, <2>8 DEF Due, Counters, Drops, Exits
  <2>9. CASE d = c /\ m = "seen"
    BY <2>2, <2>3, <2>4, <2>5, <2>7, <2>9 DEF Due, Counters, Drops, Exits
  <2>10. CASE d = c /\ m = "tcp_payload"
    BY <2>2, <2>3, <2>4, <2>5, <2>7, <2>10 DEF Due, Counters, Drops, Exits
  <2>11. CASE d = c /\ m \in Drops \union Exits
    BY <2>2, <2>3, <2>4, <2>5, <2>7, <2>11 DEF Due, Counters, Drops, Exits
  <2>12. QED  BY <2>1, <2>8, <2>9, <2>10, <2>11 DEF Counters
<1>3. ASSUME UNCHANGED kernel  PROVE CountedOnce'
  BY <1>3 DEF kernel, CountedOnce, Due
<1>4. QED
  BY <1>1, <1>2, <1>3 DEF Next, StartReading, ReadSlot, ReadFails, Publish, vars

\* Every packet is counted in exactly one exit of path_egress, on every CPU
\* and at every moment: an early return neither forgets debug_inc nor falls
\* through to a second one.
THEOREM EveryPacketCountedOnce == Spec => [](TypeOK /\ CountedOnce)
<1>1. Init => TypeOK /\ CountedOnce  BY InitInv
<1>2. TypeOK /\ CountedOnce /\ [Next]_vars => (TypeOK /\ CountedOnce)'  BY TypeStep, CountedStep
<1>3. QED  BY <1>1, <1>2, PTL DEF Spec

-----------------------------------------------------------------------------
(* Sums over the CPUs *)

\* S holds the partial sums of f.
IsSum(S, f) == S[0] = 0 /\ \A c \in CPUs : S[c] = S[c - 1] + f[c]

LEMMA LeastElement ==
  ASSUME NEW S \in SUBSET Nat, S # {}
  PROVE  \E h \in S : \A g \in S : h <= g
<1> DEFINE R == OpToRel(<, Nat)
<1>1. PICK h \in S : \A g \in S : ~(<<g, h>> \in R)
  <2>1. IsWellFoundedOn(R, Nat)  BY NatLessThanWellFounded
  <2> HIDE DEF R
  <2> QED  BY <2>1, WFMin
<1>2. \A g \in S : g < h => <<g, h>> \in R  BY DEF OpToRel
<1> HIDE DEF R
<1>3. \A g \in S : ~(g < h)  BY <1>1, <1>2
<1> QED  BY <1>3

\* What is smaller on every CPU has the smaller sum.  (There is no least
\* number of CPUs up to which it has not.)
LEMMA SumOrder ==
  ASSUME NEW f \in [CPUs -> Nat], NEW g \in [CPUs -> Nat],
         NEW F \in [0..NCPUs -> Nat], NEW G \in [0..NCPUs -> Nat],
         IsSum(F, f), IsSum(G, g), \A c \in CPUs : f[c] <= g[c]
  PROVE  F[NCPUs] <= G[NCPUs]
<1> DEFINE Bad == {k \in 0..NCPUs : ~(F[k] <= G[k])}
<1>0. NCPUs \in Nat /\ CPUs = 1..NCPUs  BY EgressAssumption DEF CPUs
<1>1. ASSUME Bad # {} PROVE FALSE
  <2>0. Bad \in SUBSET Nat  BY <1>0
  <2>1. PICK k \in Bad : \A j \in Bad : k <= j
    <3> HIDE DEF Bad
    <3> QED  BY <1>1, <2>0, LeastElement
  <2>2. k \in 0..NCPUs /\ ~(F[k] <= G[k])  OBVIOUS
  <2>3. k # 0  BY <2>2 DEF IsSum
  <2>4. k - 1 \in 0..NCPUs /\ k - 1 \notin Bad /\ k \in CPUs  BY <1>0, <2>1, <2>2, <2>3
  <2>5. F[k - 1] <= G[k - 1]  BY <2>4
  <2>6. /\ F[k] = F[k - 1] + f[k] /\ G[k] = G[k - 1] + g[k] /\ f[k] <= g[k]
        /\ f[k] \in Nat /\ g[k] \in Nat /\ F[k - 1] \in Nat /\ G[k - 1] \in Nat
    BY <2>4 DEF IsSum
  <2> HIDE DEF Bad
  <2>7. F[k] <= G[k]  BY <2>5, <2>6
  <2> QED  BY <2>2, <2>7
<1>2. NCPUs \in 0..NCPUs  BY <1>0
<1> QED  BY <1>1, <1>2

-----------------------------------------------------------------------------
(* What a reading has read *)

Maps == 1..9

\* Slot c of map k has been read in the reading that is under way.
Done(k, c) ==
  \/ poll.pc = "publish"
  \/ poll.pc = "read" /\ (k < poll.map \/ (k = poll.map /\ c < poll.cpu))

\* What the reading has found in a slot, or would find now.
Now(R, k, c) == IF Done(k, c) THEN R[k][c] ELSE debug[ReadOrder[k]][c]

\* R holds the slots read and P their partial sums.  No slot has gone down
\* since, and what was read of an inclusive counter is explained, but for one
\* packet on each CPU, by what is read of the others afterwards.
SlotsOf(R, P) ==
  /\ \A k \in Maps : P[k][0] = 0
  /\ \A k \in Maps, c \in CPUs : Done(k, c) =>
       P[k][c] = P[k][c - 1] + R[k][c] /\ R[k][c] <= debug[ReadOrder[k]][c]
  /\ poll.pc = "publish" => \A k \in Maps : poll.out[ReadOrder[k]] = P[k][NCPUs]
  /\ poll.pc = "read" => \A k \in Maps :
       poll.out[ReadOrder[k]] = IF k < poll.map THEN P[k][NCPUs]
                                ELSE IF k = poll.map THEN P[k][poll.cpu - 1] ELSE 0
  /\ \A c \in CPUs : Done(1, c) =>
       R[1][c] <= Now(R, 2, c) + Now(R, 3, c) + Now(R, 4, c) + Now(R, 5, c) + Now(R, 6, c) + 1
  /\ \A c \in CPUs : Done(6, c) =>
       R[6][c] <= Now(R, 7, c) + Now(R, 8, c) + Now(R, 9, c) + 1

\* T and Z are the slots of tcp_payload and tcp_zoned that the last successful
\* reading found, ST and SZ their partial sums; R is the reading under way.
PrevOf(R, T, Z, ST, SZ) ==
  /\ IsSum(ST, T) /\ ST[NCPUs] = prev.TCP
  /\ IsSum(SZ, Z) /\ SZ[NCPUs] = prev.Zoned
  /\ \A c \in CPUs : T[c] <= Now(R, 6, c) /\ Z[c] <= Now(R, 6, c) /\ Z[c] <= Now(R, 9, c)

Slots == [Maps -> [CPUs -> Nat]]
Sums == [Maps -> [0..NCPUs -> Nat]]

ReadInv ==
  \E R \in Slots, P \in Sums, T, Z \in [CPUs -> Nat], ST, SZ \in [0..NCPUs -> Nat] :
    SlotsOf(R, P) /\ PrevOf(R, T, Z, ST, SZ)

LEMMA OrderType ==
  /\ \A k \in Maps : ReadOrder[k] \in Counters
  /\ \A j, k \in Maps : ReadOrder[j] = ReadOrder[k] => j = k
  /\ Len(ReadOrder) = 9 /\ NCPUs \in Nat \ {0} /\ CPUs = 1..NCPUs
<1>1. \A k \in Maps : ReadOrder[k] \in Counters  BY DEF Maps, ReadOrder, Counters, Drops, Exits
<1>2. \A j, k \in Maps : ReadOrder[j] = ReadOrder[k] => j = k  BY DEF Maps, ReadOrder
<1>3. Len(ReadOrder) = 9  BY DEF ReadOrder
<1> QED  BY <1>1, <1>2, <1>3, EgressAssumption DEF CPUs

LEMMA OrderNames ==
  /\ ReadOrder[1] = "seen" /\ ReadOrder[2] = "not_ipv4" /\ ReadOrder[3] = "not_tcp"
  /\ ReadOrder[4] = "tcp_short" /\ ReadOrder[5] = "tcp_pure_ack" /\ ReadOrder[6] = "tcp_payload"
  /\ ReadOrder[7] = "no_src_zone" /\ ReadOrder[8] = "no_dst_zone" /\ ReadOrder[9] = "tcp_zoned"
BY DEF ReadOrder

\* A packet changes no slot but to raise it.
LEMMA KernelReads ==
  ASSUME TypeOK, NEW R \in Slots, NEW P \in Sums, NEW T \in [CPUs -> Nat], NEW Z \in [CPUs -> Nat],
         NEW ST, NEW SZ, SlotsOf(R, P), PrevOf(R, T, Z, ST, SZ),
         poll' = poll, prev' = prev, debug' \in [Counters -> [CPUs -> Nat]],
         \A m \in Counters, c \in CPUs : debug[m][c] <= debug'[m][c]
  PROVE  SlotsOf(R, P)' /\ PrevOf(R, T, Z, ST, SZ)'
<1>1. \A k, c : Done(k, c)' <=> Done(k, c)  BY DEF Done
<1>2. \A k \in Maps, c \in CPUs : /\ debug[ReadOrder[k]][c] \in Nat /\ debug'[ReadOrder[k]][c] \in Nat
                                  /\ debug[ReadOrder[k]][c] <= debug'[ReadOrder[k]][c]
  <2>1. \A m \in Counters, c \in CPUs : debug[m][c] \in Nat /\ debug'[m][c] \in Nat  BY DEF TypeOK
  <2> QED  BY <2>1, OrderType
<1>3. \A k \in Maps, c \in CPUs : /\ Now(R, k, c) \in Nat /\ Now(R, k, c)' \in Nat
                                  /\ Now(R, k, c) <= Now(R, k, c)'
  BY <1>1, <1>2 DEF Now, Slots
<1>4. \A c \in CPUs : T[c] \in Nat /\ Z[c] \in Nat /\ \A k \in Maps : R[k][c] \in Nat  BY DEF Slots
<1>5. 1 \in Maps /\ 2 \in Maps /\ 3 \in Maps /\ 4 \in Maps /\ 5 \in Maps /\ 6 \in Maps
      /\ 7 \in Maps /\ 8 \in Maps /\ 9 \in Maps
  BY DEF Maps
<1>6. \A k \in Maps, c \in CPUs : Done(k, c)' =>
        P[k][c] = P[k][c - 1] + R[k][c] /\ R[k][c] <= debug'[ReadOrder[k]][c]
  BY <1>1, <1>2, <1>4 DEF SlotsOf
<1>7. \A c \in CPUs : Done(1, c)' =>
       R[1][c] <= Now(R, 2, c)' + Now(R, 3, c)' + Now(R, 4, c)' + Now(R, 5, c)' + Now(R, 6, c)' + 1
  BY <1>1, <1>3, <1>4, <1>5 DEF SlotsOf
<1>8. \A c \in CPUs : Done(6, c)' => R[6][c] <= Now(R, 7, c)' + Now(R, 8, c)' + Now(R, 9, c)' + 1
  BY <1>1, <1>3, <1>4, <1>5 DEF SlotsOf
<1>9. SlotsOf(R, P)'  BY <1>6, <1>7, <1>8 DEF SlotsOf
<1>10. PrevOf(R, T, Z, ST, SZ)'  BY <1>3, <1>4, <1>5 DEF PrevOf
<1> QED  BY <1>9, <1>10

LEMMA KernelStep ==
  ASSUME TypeOK, NEW c \in CPUs, (\E p \in Packets : path_egress(c, p)) \/ debug_inc(c)
  PROVE  /\ poll' = poll /\ prev' = prev /\ before' = before /\ tc' = tc
         /\ \A m \in Counters, d \in CPUs : debug[m][d] <= debug'[m][d]
<1>0. \A m \in Counters, d \in CPUs : debug[m][d] \in Nat  BY DEF TypeOK
<1>1. CASE \E p \in Packets : path_egress(c, p)  BY <1>0, <1>1 DEF path_egress, user
<1>2. CASE debug_inc(c)
  <2>1. cpu[c].next \in Counters /\ debug' = [debug EXCEPT ![cpu[c].next][c] = debug[cpu[c].next][c] + 1]
    BY <1>2 DEF debug_inc, TypeOK
  <2>2. \A m \in Counters, d \in CPUs :
          debug'[m][d] = debug[m][d] \/ debug'[m][d] = debug[m][d] + 1
    BY <2>1 DEF TypeOK
  <2> QED  BY <1>0, <1>2, <2>2 DEF debug_inc, user
<1> QED  BY <1>1, <1>2

\* A reading that starts has read nothing.
LEMMA StartReads ==
  ASSUME TypeOK, NEW R \in Slots, NEW P \in Sums, NEW T, NEW Z, NEW ST, NEW SZ,
         SlotsOf(R, P), PrevOf(R, T, Z, ST, SZ), StartReading
  PROVE  SlotsOf(R, P)' /\ PrevOf(R, T, Z, ST, SZ)'
<1>1. /\ poll'.pc = "read" /\ poll'.map = 1 /\ poll'.cpu = 1 /\ poll'.out = ZeroOut
      /\ debug' = debug /\ prev' = prev /\ poll.pc = "wait"
  BY DEF StartReading, Waiting, kernel
<1>2. \A k \in Maps, c \in CPUs : ~Done(k, c) /\ ~Done(k, c)'
  BY <1>1, OrderType DEF Done, Maps
<1>3. \A k \in Maps, c \in CPUs : Now(R, k, c)' = Now(R, k, c)  BY <1>1, <1>2 DEF Now
<1>4. 1 \in Maps /\ 6 \in Maps /\ 9 \in Maps  BY DEF Maps
<1>5. \A k \in Maps : poll'.out[ReadOrder[k]] = 0 /\ ~(k < 1)  BY <1>1, OrderType DEF ZeroOut, Maps
<1>6. SlotsOf(R, P)'  BY <1>1, <1>2, <1>4, <1>5 DEF SlotsOf
<1>7. PrevOf(R, T, Z, ST, SZ)'  BY <1>1, <1>3, <1>4 DEF PrevOf
<1> QED  BY <1>6, <1>7

\* Where the reading goes on, and that no slot is read before its turn.
LEMMA NextSlotEffect ==
  ASSUME TypeOK, ReadSlot
  PROVE  LET r == poll
             q == poll'
             m == ReadOrder[r.map]
         IN  /\ r.map \in Maps /\ r.cpu \in CPUs /\ m \in Counters /\ q.map \in Maps /\ q.cpu \in CPUs
             /\ q.out = [r.out EXCEPT ![m] = r.out[m] + debug[m][r.cpu]]
             /\ \/ r.cpu < NCPUs /\ q.pc = "read" /\ q.map = r.map /\ q.cpu = r.cpu + 1
                \/ r.cpu = NCPUs /\ r.map < 9 /\ q.pc = "read" /\ q.map = r.map + 1 /\ q.cpu = 1
                \/ r.cpu = NCPUs /\ r.map = 9 /\ q.pc = "publish"
<1> DEFINE r == poll
           m == ReadOrder[r.map]
           o == [r.out EXCEPT ![m] = r.out[m] + debug[m][r.cpu]]
           r1 == [r EXCEPT !.out = o]
           PollType == [pc : {"wait", "read", "publish"}, map : Maps, cpu : CPUs, out : [Counters -> Nat]]
<1>0. r.pc = "read" /\ r \in PollType  BY DEF ReadSlot, TypeOK, Maps
<1>1. r.map \in Maps /\ r.cpu \in CPUs /\ m \in Counters  BY <1>0, OrderType
<1>2. poll' = NextSlot([r EXCEPT !.out[m] = @ + debug[m][r.cpu]])  BY DEF ReadSlot
<1>3. poll' = NextSlot(r1)  BY <1>0, <1>2
<1>4. o \in [Counters -> Nat]
  <2>1. debug[m][r.cpu] \in Nat /\ r.out[m] \in Nat  BY <1>0, <1>1 DEF TypeOK
  <2> QED  BY <1>0, <1>1, <2>1
<1> HIDE DEF o
<1>5. r1 \in PollType /\ r1.pc = "read" /\ r1.map = r.map /\ r1.cpu = r.cpu /\ r1.out = o
  BY <1>0, <1>4
<1>6. poll' \in PollType  BY <1>3, <1>5, NextSlotType DEF Maps
<1> HIDE DEF r1
<1>7. r.cpu < NCPUs \/ r.cpu = NCPUs  BY <1>1, OrderType
<1>8. CASE r.cpu < NCPUs
  <2>1. poll' = [r1 EXCEPT !.cpu = r1.cpu + 1]  BY <1>3, <1>5, <1>8 DEF NextSlot
  <2> QED  BY <1>1, <1>5, <1>6, <1>8, <2>1 DEF o
<1>9. CASE r.cpu = NCPUs /\ r.map < 9
  <2>1. poll' = [r1 EXCEPT !.cpu = 1, !.map = r1.map + 1]
    BY <1>3, <1>5, <1>9, OrderType DEF NextSlot
  <2> QED  BY <1>1, <1>5, <1>6, <1>9, <2>1 DEF o
<1>10. CASE r.cpu = NCPUs /\ ~(r.map < 9)
  <2>1. poll' = [r1 EXCEPT !.pc = "publish", !.map = 1, !.cpu = 1]
    BY <1>3, <1>5, <1>10, OrderType DEF NextSlot
  <2>2. r.map = 9  BY <1>1, <1>10 DEF Maps
  <2>3. poll'.pc = "publish" /\ poll'.out = r1.out  BY <1>5, <2>1, Zenon
  <2> QED  BY <1>1, <1>5, <1>6, <1>10, <2>2, <2>3 DEF o
<1> QED  BY <1>7, <1>8, <1>9, <1>10

LEMMA ReadDone ==
  ASSUME TypeOK, ReadSlot, NEW k \in Maps, NEW c \in CPUs
  PROVE  /\ Done(k, c)' <=> Done(k, c) \/ (k = poll.map /\ c = poll.cpu)
         /\ ~Done(poll.map, poll.cpu)
<1>1. poll.pc = "read"  BY DEF ReadSlot
<1>2. k \in 1..9 /\ c \in 1..NCPUs /\ NCPUs \in Nat /\ poll.map \in 1..9 /\ poll.cpu \in 1..NCPUs
  BY OrderType, NextSlotEffect DEF Maps
<1>3. \/ poll.cpu < NCPUs /\ poll'.pc = "read" /\ poll'.map = poll.map /\ poll'.cpu = poll.cpu + 1
      \/ poll.cpu = NCPUs /\ poll.map < 9 /\ poll'.pc = "read" /\ poll'.map = poll.map + 1 /\ poll'.cpu = 1
      \/ poll.cpu = NCPUs /\ poll.map = 9 /\ poll'.pc = "publish"
  BY NextSlotEffect
<1>4. ~Done(poll.map, poll.cpu)  BY <1>1, <1>2 DEF Done
<1>5. Done(k, c) <=> k < poll.map \/ (k = poll.map /\ c < poll.cpu)  BY <1>1 DEF Done
<1>6. Done(k, c)' <=> \/ poll'.pc = "publish"
                      \/ poll'.pc = "read" /\ (k < poll'.map \/ (k = poll'.map /\ c < poll'.cpu))
  BY DEF Done
<1> QED  BY <1>2, <1>3, <1>4, <1>5, <1>6

\* A slot is recorded as it is read: what has been found, or would be found,
\* in each slot stays as it is.
LEMMA SlotReads ==
  ASSUME TypeOK, CountedOnce, NEW R \in Slots, NEW P \in Sums, NEW T, NEW Z, NEW ST, NEW SZ,
         SlotsOf(R, P), PrevOf(R, T, Z, ST, SZ), ReadSlot
  PROVE  \E Q \in Slots, S \in Sums : SlotsOf(Q, S)' /\ PrevOf(Q, T, Z, ST, SZ)'
<1> DEFINE i == poll.map
           d == poll.cpu
           v == debug[ReadOrder[i]][d]
           s == P[i][d - 1] + v
<1>0. /\ i \in Maps /\ d \in CPUs /\ d \in 0..NCPUs /\ d - 1 \in 0..NCPUs /\ d \in Nat \ {0}
      /\ CPUs = 1..NCPUs /\ NCPUs \in Nat /\ poll.pc = "read" /\ debug' = debug /\ prev' = prev
  <2>1. i \in Maps /\ d \in CPUs /\ CPUs = 1..NCPUs /\ NCPUs \in Nat  BY NextSlotEffect, OrderType
  <2>2. poll.pc = "read" /\ debug' = debug /\ prev' = prev  BY DEF ReadSlot, kernel
  <2> HIDE DEF i, d
  <2> QED  BY <2>1, <2>2
<1>1. v \in Nat /\ s \in Nat
  <2>1. ReadOrder[i] \in Counters /\ P[i][d - 1] \in Nat  BY <1>0, OrderType DEF Sums
  <2>2. debug[ReadOrder[i]][d] \in Nat  BY <1>0, <2>1 DEF TypeOK
  <2> QED  BY <2>1, <2>2
<1> HIDE DEF v, s
<1>2. PICK Q \in Slots : \A k \in Maps, c \in CPUs : Q[k][c] = IF k = i /\ c = d THEN v ELSE R[k][c]
  <2> DEFINE row == [R[i] EXCEPT ![d] = v]
  <2>1. row \in [CPUs -> Nat] /\ \A c \in CPUs : row[c] = IF c = d THEN v ELSE R[i][c]
    BY <1>0, <1>1 DEF Slots
  <2> HIDE DEF row
  <2> DEFINE new == [R EXCEPT ![i] = row]
  <2>2. new \in Slots /\ \A k \in Maps : new[k] = IF k = i THEN row ELSE R[k]
    BY <1>0, <2>1 DEF Slots
  <2> HIDE DEF new
  <2>3. \A k \in Maps, c \in CPUs : new[k][c] = IF k = i /\ c = d THEN v ELSE R[k][c]
    BY <2>1, <2>2
  <2> QED  BY <2>2, <2>3
<1>3. PICK S \in Sums : \A k \in Maps, c \in 0..NCPUs : S[k][c] = IF k = i /\ c = d THEN s ELSE P[k][c]
  <2> DEFINE row == [P[i] EXCEPT ![d] = s]
  <2>1. row \in [0..NCPUs -> Nat] /\ \A c \in 0..NCPUs : row[c] = IF c = d THEN s ELSE P[i][c]
    BY <1>0, <1>1 DEF Sums
  <2> HIDE DEF row
  <2> DEFINE new == [P EXCEPT ![i] = row]
  <2>2. new \in Sums /\ \A k \in Maps : new[k] = IF k = i THEN row ELSE P[k]
    BY <1>0, <2>1 DEF Sums
  <2> HIDE DEF new
  <2>3. \A k \in Maps, c \in 0..NCPUs : new[k][c] = IF k = i /\ c = d THEN s ELSE P[k][c]
    BY <2>1, <2>2
  <2> QED  BY <2>2, <2>3
<1>4. \A k \in Maps, c \in CPUs : /\ Done(k, c)' <=> Done(k, c) \/ (k = i /\ c = d)
                                  /\ ~Done(i, d)
                                  /\ Done(k, c) <=> (k < i \/ (k = i /\ c < d))
  BY <1>0, ReadDone DEF Done
<1>5. \A k \in Maps, c \in CPUs : Now(Q, k, c)' = Now(R, k, c)
  <2> SUFFICES ASSUME NEW k \in Maps, NEW c \in CPUs PROVE Now(Q, k, c)' = Now(R, k, c)  OBVIOUS
  <2>1. CASE k = i /\ c = d
    <3>1. Now(Q, k, c)' = v  BY <1>2, <1>4, <2>1 DEF Now
    <3>2. Now(R, k, c) = v  BY <1>4, <2>1 DEF Now, v
    <3> QED  BY <3>1, <3>2
  <2>2. CASE ~(k = i /\ c = d)
    <3>1. Q[k][c] = R[k][c] /\ (Done(k, c)' <=> Done(k, c))  BY <1>2, <1>4, <2>2
    <3> QED  BY <1>0, <3>1 DEF Now
  <2> QED  BY <2>1, <2>2
<1>6. \A k \in Maps : S[k][0] = 0
  <2>1. 0 \in 0..NCPUs /\ 0 # d  BY <1>0
  <2> QED  BY <1>3, <2>1 DEF SlotsOf
<1>7. ASSUME NEW k \in Maps, NEW c \in CPUs, Done(k, c)'
      PROVE  S[k][c] = S[k][c - 1] + Q[k][c] /\ Q[k][c] <= debug'[ReadOrder[k]][c]
  <2>0. c \in 0..NCPUs /\ c - 1 \in 0..NCPUs /\ c \in Nat /\ c # c - 1  BY <1>0
  <2>1. CASE k = i /\ c = d
    <3>1. S[k][c] = s /\ S[k][c - 1] = P[i][d - 1] /\ Q[k][c] = v
      BY <1>2, <1>3, <2>0, <2>1
    <3> QED  BY <1>0, <1>1, <2>1, <3>1 DEF s, v
  <2>2. CASE ~(k = i /\ c = d)
    <3>1. Done(k, c)  BY <1>4, <1>7, <2>2
    <3>2. ~(k = i /\ c - 1 = d)  BY <1>0, <1>4, <2>0, <3>1
    <3>3. S[k][c] = P[k][c] /\ S[k][c - 1] = P[k][c - 1] /\ Q[k][c] = R[k][c]
      BY <1>2, <1>3, <2>0, <2>2, <3>2
    <3> QED  BY <1>0, <3>1, <3>3 DEF SlotsOf
  <2> QED  BY <2>1, <2>2
<1>8. \A k \in Maps : poll'.out[ReadOrder[k]] = IF k < i THEN S[k][NCPUs] ELSE IF k = i THEN S[k][d] ELSE 0
  <2> SUFFICES ASSUME NEW k \in Maps
               PROVE  poll'.out[ReadOrder[k]] = IF k < i THEN S[k][NCPUs] ELSE IF k = i THEN S[k][d] ELSE 0
    OBVIOUS
  <2>1. poll'.out[ReadOrder[k]] = IF k = i THEN poll.out[ReadOrder[k]] + v ELSE poll.out[ReadOrder[k]]
    <3>1. poll'.out = [poll.out EXCEPT ![ReadOrder[i]] = poll.out[ReadOrder[i]] + v]
      BY NextSlotEffect DEF v
    <3>2. ReadOrder[k] \in Counters /\ (ReadOrder[k] = ReadOrder[i] <=> k = i) /\ poll.out \in [Counters -> Nat]
      BY <1>0, OrderType DEF TypeOK
    <3> QED  BY <3>1, <3>2
  <2>2. poll.out[ReadOrder[k]] = IF k < i THEN P[k][NCPUs] ELSE IF k = i THEN P[k][d - 1] ELSE 0
    BY <1>0 DEF SlotsOf
  <2>3. NCPUs \in 0..NCPUs /\ k \in Nat /\ i \in Nat  BY <1>0 DEF Maps
  <2>4. k # i => S[k][NCPUs] = P[k][NCPUs]  BY <1>3, <2>3
  <2>5. S[i][d] = s  BY <1>0, <1>3
  <2> QED  BY <2>1, <2>2, <2>3, <2>4, <2>5 DEF s
<1>9. /\ poll'.pc = "publish" => \A k \in Maps : poll'.out[ReadOrder[k]] = S[k][NCPUs]
      /\ poll'.pc = "read" => \A k \in Maps :
           poll'.out[ReadOrder[k]] = IF k < poll'.map THEN S[k][NCPUs]
                                     ELSE IF k = poll'.map THEN S[k][poll'.cpu - 1] ELSE 0
  <2>0. i \in 1..9 /\ \A k \in Maps : k \in 1..9  BY <1>0 DEF Maps
  <2>1. CASE d < NCPUs /\ poll'.pc = "read" /\ poll'.map = i /\ poll'.cpu = d + 1
    <3>1. poll'.cpu - 1 = d  BY <1>0, <2>1
    <3> QED  BY <1>8, <2>1, <3>1
  <2>2. CASE d = NCPUs /\ i < 9 /\ poll'.pc = "read" /\ poll'.map = i + 1 /\ poll'.cpu = 1
    <3>1. poll'.cpu - 1 = 0  BY <2>2
    <3>2. \A k \in Maps : (k < i + 1 <=> k < i \/ k = i) /\ ~(k = i + 1 /\ (k < i \/ k = i))
      BY <2>0
    <3> QED  BY <1>6, <1>8, <2>2, <3>1, <3>2
  <2>3. CASE d = NCPUs /\ i = 9 /\ poll'.pc = "publish"
    <3>1. \A k \in Maps : k < i \/ k = i  BY <2>0, <2>3
    <3> QED  BY <1>8, <2>3, <3>1
  <2> QED  BY <2>1, <2>2, <2>3, NextSlotEffect
<1>10. \A k \in Maps, c \in CPUs : Done(k, c) => Q[k][c] = R[k][c]  BY <1>2, <1>4
<1>11. 1 \in Maps /\ 2 \in Maps /\ 3 \in Maps /\ 4 \in Maps /\ 5 \in Maps /\ 6 \in Maps
       /\ 7 \in Maps /\ 8 \in Maps /\ 9 \in Maps
  BY DEF Maps
<1>12. ASSUME NEW c \in CPUs, Done(1, c)'
       PROVE  Q[1][c] <= Now(R, 2, c) + Now(R, 3, c) + Now(R, 4, c) + Now(R, 5, c) + Now(R, 6, c) + 1
  <2>1. CASE Done(1, c)  BY <1>10, <1>11, <2>1 DEF SlotsOf
  <2>2. CASE i = 1 /\ c = d
    <3>1. Q[1][c] = debug["seen"][c]  BY <1>2, <1>11, <2>2, OrderNames DEF v
    <3>2. ~Done(2, c) /\ ~Done(3, c) /\ ~Done(4, c) /\ ~Done(5, c) /\ ~Done(6, c)
      BY <1>4, <1>11, <2>2
    <3>3. /\ Now(R, 2, c) = debug["not_ipv4"][c] /\ Now(R, 3, c) = debug["not_tcp"][c]
          /\ Now(R, 4, c) = debug["tcp_short"][c] /\ Now(R, 5, c) = debug["tcp_pure_ack"][c]
          /\ Now(R, 6, c) = debug["tcp_payload"][c]
      BY <3>2, OrderNames DEF Now
    <3>4. \A m \in Counters : debug[m][c] \in Nat  BY DEF TypeOK
    <3> QED  BY <3>1, <3>3, <3>4 DEF CountedOnce, Due, Counters, Drops, Exits
  <2> QED  BY <1>4, <1>11, <1>12, <2>1, <2>2
<1>13. ASSUME NEW c \in CPUs, Done(6, c)'
       PROVE  Q[6][c] <= Now(R, 7, c) + Now(R, 8, c) + Now(R, 9, c) + 1
  <2>1. CASE Done(6, c)  BY <1>10, <1>11, <2>1 DEF SlotsOf
  <2>2. CASE i = 6 /\ c = d
    <3>1. Q[6][c] = debug["tcp_payload"][c]  BY <1>2, <1>11, <2>2, OrderNames DEF v
    <3>2. ~Done(7, c) /\ ~Done(8, c) /\ ~Done(9, c)  BY <1>4, <1>11, <2>2
    <3>3. /\ Now(R, 7, c) = debug["no_src_zone"][c] /\ Now(R, 8, c) = debug["no_dst_zone"][c]
          /\ Now(R, 9, c) = debug["tcp_zoned"][c]
      BY <3>2, OrderNames DEF Now
    <3>4. \A m \in Counters : debug[m][c] \in Nat  BY DEF TypeOK
    <3> QED  BY <3>1, <3>3, <3>4 DEF CountedOnce, Due, Counters, Drops, Exits
  <2> QED  BY <1>4, <1>11, <1>13, <2>1, <2>2
<1>14. SlotsOf(Q, S)'
  BY <1>5, <1>6, <1>7, <1>9, <1>11, <1>12, <1>13 DEF SlotsOf
<1>15. PrevOf(Q, T, Z, ST, SZ)'  BY <1>0, <1>5, <1>11 DEF PrevOf
<1> QED  BY <1>2, <1>3, <1>14, <1>15

LEMMA FailReads ==
  ASSUME TypeOK, NEW R \in Slots, NEW P \in Sums, NEW T \in [CPUs -> Nat], NEW Z \in [CPUs -> Nat],
         NEW ST, NEW SZ, SlotsOf(R, P), PrevOf(R, T, Z, ST, SZ), ReadFails
  PROVE  SlotsOf(R, P)' /\ PrevOf(R, T, Z, ST, SZ)'
<1>1. poll'.pc = "wait" /\ debug' = debug /\ prev' = prev
  BY DEF ReadFails, FailedDropped, Waiting, kernel
<1>2. \A k, c : ~Done(k, c)'  BY <1>1 DEF Done
<1>3. ASSUME NEW k \in Maps, NEW c \in CPUs
      PROVE  Now(R, k, c) \in Nat /\ Now(R, k, c)' \in Nat /\ Now(R, k, c) <= Now(R, k, c)'
  <2>0. \A m \in Counters : debug[m][c] \in Nat  BY DEF TypeOK
  <2>1. debug[ReadOrder[k]][c] \in Nat /\ R[k][c] \in Nat
    <3>1. ReadOrder[k] \in Counters  BY OrderType
    <3>2. R[k][c] \in Nat  BY DEF Slots
    <3> QED  BY <2>0, <3>1, <3>2
  <2>2. Now(R, k, c)' = debug[ReadOrder[k]][c]  BY <1>1, <1>2 DEF Now
  <2>3. (Now(R, k, c) = R[k][c] /\ R[k][c] <= debug[ReadOrder[k]][c]) \/ Now(R, k, c) = debug[ReadOrder[k]][c]
    BY DEF SlotsOf, Now
  <2> QED  BY <2>1, <2>2, <2>3
<1>4. 6 \in Maps /\ 9 \in Maps  BY DEF Maps
<1>5. \A c \in CPUs : T[c] \in Nat /\ Z[c] \in Nat  OBVIOUS
<1>6. SlotsOf(R, P)'  BY <1>1, <1>2 DEF SlotsOf
<1>7. PrevOf(R, T, Z, ST, SZ)'  BY <1>1, <1>3, <1>4, <1>5 DEF PrevOf
<1> QED  BY <1>6, <1>7

\* At the end of a reading every row of P is the sum of the slots read.
LEMMA ReadingSums ==
  ASSUME NEW R \in Slots, NEW P \in Sums, SlotsOf(R, P), poll.pc = "publish", NEW k \in Maps
  PROVE  /\ IsSum(P[k], R[k]) /\ poll.out[ReadOrder[k]] = P[k][NCPUs]
         /\ R[k] \in [CPUs -> Nat] /\ P[k] \in [0..NCPUs -> Nat]
         /\ \A c \in CPUs : R[k][c] <= debug[ReadOrder[k]][c] /\ Now(R, k, c) = R[k][c]
<1>1. \A c \in CPUs : Done(k, c)  BY DEF Done
<1> QED  BY <1>1 DEF SlotsOf, IsSum, Slots, Sums, Now

\* A published reading becomes the previous one.  Its counters are not below
\* those of the reading before, CPU by CPU.
LEMMA PublishReads ==
  ASSUME TypeOK, CountedOnce, NEW R \in Slots, NEW P \in Sums, NEW T \in [CPUs -> Nat],
         NEW Z \in [CPUs -> Nat], NEW ST \in [0..NCPUs -> Nat], NEW SZ \in [0..NCPUs -> Nat],
         SlotsOf(R, P), PrevOf(R, T, Z, ST, SZ), Publish
  PROVE  /\ SlotsOf(R, P)' /\ PrevOf(R, R[6], R[9], P[6], P[9])'
         /\ prev.TCP <= poll.out["tcp_payload"] /\ prev.Zoned <= poll.out["tcp_zoned"]
         /\ prev.Zoned <= poll.out["tcp_payload"]
<1>0. poll.pc = "publish" /\ 6 \in Maps /\ 9 \in Maps /\ ReadOrder[6] = "tcp_payload" /\ ReadOrder[9] = "tcp_zoned"
  BY OrderNames DEF Publish, Maps
<1>1. /\ IsSum(P[6], R[6]) /\ IsSum(P[9], R[9])
      /\ poll.out["tcp_payload"] = P[6][NCPUs] /\ poll.out["tcp_zoned"] = P[9][NCPUs]
      /\ R[6] \in [CPUs -> Nat] /\ P[6] \in [0..NCPUs -> Nat]
      /\ R[9] \in [CPUs -> Nat] /\ P[9] \in [0..NCPUs -> Nat]
  BY <1>0, ReadingSums
<1>2. \A c \in CPUs : T[c] <= R[6][c] /\ Z[c] <= R[6][c] /\ Z[c] <= R[9][c]
  BY <1>0, ReadingSums DEF PrevOf
<1>3. prev.TCP <= poll.out["tcp_payload"]
  <2>1. ST[NCPUs] <= P[6][NCPUs]  BY <1>1, <1>2, SumOrder DEF PrevOf
  <2> QED  BY <1>1, <2>1 DEF PrevOf
<1>4. prev.Zoned <= poll.out["tcp_payload"]
  <2>1. SZ[NCPUs] <= P[6][NCPUs]  BY <1>1, <1>2, SumOrder DEF PrevOf
  <2> QED  BY <1>1, <2>1 DEF PrevOf
<1>5. prev.Zoned <= poll.out["tcp_zoned"]
  <2>1. SZ[NCPUs] <= P[9][NCPUs]  BY <1>1, <1>2, SumOrder DEF PrevOf
  <2> QED  BY <1>1, <2>1 DEF PrevOf
<1>6. /\ poll'.pc = "wait" /\ debug' = debug
      /\ prev'.TCP = poll.out["tcp_payload"] /\ prev'.Zoned = poll.out["tcp_zoned"]
  BY DEF Publish, Waiting, kernel
<1>7. \A k, c : ~Done(k, c)'  BY <1>6 DEF Done
<1>8. SlotsOf(R, P)'  BY <1>6, <1>7 DEF SlotsOf
<1>9. ASSUME NEW c \in CPUs
      PROVE  R[6][c] <= Now(R, 6, c)' /\ R[9][c] <= Now(R, 6, c)' /\ R[9][c] <= Now(R, 9, c)'
  <2>1. Now(R, 6, c)' = debug["tcp_payload"][c] /\ Now(R, 9, c)' = debug["tcp_zoned"][c]
    BY <1>0, <1>6, <1>7 DEF Now
  <2>2. R[6][c] <= debug["tcp_payload"][c] /\ R[9][c] <= debug["tcp_zoned"][c]
    BY <1>0, ReadingSums
  <2>3. debug["tcp_zoned"][c] <= debug["tcp_payload"][c]
    <3>1. \A m \in Counters : debug[m][c] \in Nat  BY DEF TypeOK
    <3> QED  BY <3>1 DEF CountedOnce, Due, Counters, Exits
  <2>4. /\ debug["tcp_payload"][c] \in Nat /\ debug["tcp_zoned"][c] \in Nat
        /\ R[6][c] \in Nat /\ R[9][c] \in Nat
    <3>1. \A m \in Counters : debug[m][c] \in Nat  BY DEF TypeOK
    <3> QED  BY <1>1, <3>1 DEF Counters, Exits
  <2> QED  BY <2>1, <2>2, <2>3, <2>4
<1>10. PrevOf(R, R[6], R[9], P[6], P[9])'  BY <1>1, <1>6, <1>9 DEF PrevOf
<1> QED  BY <1>3, <1>4, <1>5, <1>8, <1>10

LEMMA ReadInit == Init => ReadInv
<1> SUFFICES ASSUME Init PROVE ReadInv  OBVIOUS
<1> DEFINE R == [k \in Maps |-> [c \in CPUs |-> 0]]
           P == [k \in Maps |-> [c \in 0..NCPUs |-> 0]]
           T == [c \in CPUs |-> 0]
           ST == [c \in 0..NCPUs |-> 0]
<1>0. NCPUs \in Nat /\ CPUs = 1..NCPUs /\ 6 \in Maps /\ 9 \in Maps  BY OrderType DEF Maps
<1>1. R \in Slots /\ P \in Sums /\ T \in [CPUs -> Nat] /\ ST \in [0..NCPUs -> Nat]
  BY DEF Slots, Sums
<1>2. poll.pc = "wait" /\ prev.TCP = 0 /\ prev.Zoned = 0  BY DEF Init, Waiting
<1>3. \A k, c : ~Done(k, c)  BY <1>2 DEF Done
<1>4. IsSum(ST, T) /\ ST[NCPUs] = 0
  <2>1. \A c \in CPUs : c \in 0..NCPUs /\ c - 1 \in 0..NCPUs  BY <1>0
  <2> QED  BY <1>0, <2>1 DEF IsSum
<1>5. \A k \in Maps : P[k][0] = 0  BY <1>0
<1>6. \A c \in CPUs : T[c] = 0 /\ Now(R, 6, c) = 0 /\ Now(R, 9, c) = 0
  BY <1>0, <1>3, OrderType DEF Now, Init
<1> HIDE DEF R, P, T, ST, Init
<1>7. SlotsOf(R, P)  BY <1>2, <1>3, <1>5 DEF SlotsOf
<1>8. PrevOf(R, T, T, ST, ST)  BY <1>2, <1>4, <1>6 DEF PrevOf
<1> QED  BY <1>1, <1>7, <1>8 DEF ReadInv

Published == DeltasNeverWrap /\ SkewLastsOnePoll

LEMMA ReadStep ==
  TypeOK /\ CountedOnce /\ ReadInv /\ Published /\ [Next]_vars => ReadInv' /\ Published'
<1> SUFFICES ASSUME TypeOK, CountedOnce, ReadInv, Published, [Next]_vars PROVE ReadInv' /\ Published'
  OBVIOUS
<1>0. PICK R \in Slots, P \in Sums, T \in [CPUs -> Nat], Z \in [CPUs -> Nat],
           ST \in [0..NCPUs -> Nat], SZ \in [0..NCPUs -> Nat] :
             SlotsOf(R, P) /\ PrevOf(R, T, Z, ST, SZ)
  BY DEF ReadInv
<1>1. ASSUME NEW c \in CPUs, (\E p \in Packets : path_egress(c, p)) \/ debug_inc(c)
      PROVE  ReadInv' /\ Published'
  <2>1. /\ poll' = poll /\ prev' = prev /\ before' = before /\ tc' = tc
        /\ \A m \in Counters, d \in CPUs : debug[m][d] <= debug'[m][d]
    BY <1>1, KernelStep
  <2>2. TypeOK'  BY TypeStep
  <2>3. SlotsOf(R, P)' /\ PrevOf(R, T, Z, ST, SZ)'  BY <1>0, <2>1, <2>2, KernelReads DEF TypeOK
  <2>4. Published'  BY <2>1 DEF Published, DeltasNeverWrap, SkewLastsOnePoll
  <2> QED  BY <2>3, <2>4 DEF ReadInv
<1>2. CASE StartReading
  <2>1. SlotsOf(R, P)' /\ PrevOf(R, T, Z, ST, SZ)'  BY <1>0, <1>2, StartReads
  <2>2. Published'  BY <1>2 DEF StartReading, Published, DeltasNeverWrap, SkewLastsOnePoll
  <2> QED  BY <2>1, <2>2 DEF ReadInv
<1>3. CASE ReadSlot
  <2>1. \E Q \in Slots, S \in Sums : SlotsOf(Q, S)' /\ PrevOf(Q, T, Z, ST, SZ)'
    BY <1>0, <1>3, SlotReads
  <2>2. Published'  BY <1>3 DEF ReadSlot, Published, DeltasNeverWrap, SkewLastsOnePoll
  <2> QED  BY <2>1, <2>2 DEF ReadInv
<1>4. CASE ReadFails
  <2>1. SlotsOf(R, P)' /\ PrevOf(R, T, Z, ST, SZ)'  BY <1>0, <1>4, FailReads
  <2>2. Published'  BY <1>4 DEF ReadFails, Published, DeltasNeverWrap, SkewLastsOnePoll
  <2> QED  BY <2>1, <2>2 DEF ReadInv
<1>5. CASE Publish
  <2>1. /\ SlotsOf(R, P)' /\ PrevOf(R, R[6], R[9], P[6], P[9])'
        /\ prev.TCP <= poll.out["tcp_payload"] /\ prev.Zoned <= poll.out["tcp_zoned"]
        /\ prev.Zoned <= poll.out["tcp_payload"]
    BY <1>0, <1>5, PublishReads
  <2>2. /\ R[6] \in [CPUs -> Nat] /\ R[9] \in [CPUs -> Nat]
        /\ P[6] \in [0..NCPUs -> Nat] /\ P[9] \in [0..NCPUs -> Nat]
    BY DEF Slots, Sums, Maps
  <2>3. ReadInv'  BY <2>1, <2>2 DEF ReadInv
  <2>4. /\ poll.out["tcp_payload"] \in Nat /\ poll.out["tcp_zoned"] \in Nat
        /\ prev.TCP \in Nat /\ prev.Zoned \in Nat
    BY DEF TypeOK, Counters, Exits
  <2>5. Published'
    BY <1>5, <2>1, <2>4 DEF Publish, Published, DeltasNeverWrap, SkewLastsOnePoll
  <2> QED  BY <2>3, <2>5
<1>6. CASE UNCHANGED vars
  <2>1. SlotsOf(R, P)' /\ PrevOf(R, T, Z, ST, SZ)'
    BY <1>0, <1>6 DEF vars, kernel, user, SlotsOf, PrevOf, Now, Done
  <2>2. Published'  BY <1>6 DEF vars, user, Published, DeltasNeverWrap, SkewLastsOnePoll
  <2> QED  BY <2>1, <2>2 DEF ReadInv
<1> QED  BY <1>1, <1>2, <1>3, <1>4, <1>5, <1>6 DEF Next

\* What every reading has read, and that the deltas and the skew stay within
\* their bounds, in every reachable state.
LEMMA ReadInvariant == Spec => [](TypeOK /\ ReadInv /\ Published)
<1>1. Init => Published  BY DEF Init, Published, DeltasNeverWrap, SkewLastsOnePoll
<1>2. TypeOK /\ CountedOnce /\ ReadInv /\ Published /\ [Next]_vars => ReadInv' /\ Published'
  BY ReadStep
<1> QED  BY <1>1, <1>2, ReadInit, EveryPacketCountedOnce, PTL DEF Spec

\* The uint64 differences of publish (main.go) never wrap around: a counter
\* that a reading finds is not below what the last successful one found, on
\* any number of CPUs, however packets and failed readings interleave.
THEOREM DeltasAreCounts == Spec => []DeltasNeverWrap
<1>1. Published => DeltasNeverWrap  BY DEF Published
<1> QED  BY <1>1, ReadInvariant, PTL

\* A reading that shows more zoned than measured packets is made good by the
\* next one, which reads debug_tcp_payload later than the zoned counter was
\* read.
THEOREM SkewIsMadeGood == Spec => []SkewLastsOnePoll
<1>1. Published => SkewLastsOnePoll  BY DEF Published
<1> QED  BY <1>1, ReadInvariant, PTL

\* A finished reading explains what it has seen: the sum over the CPUs of what
\* SlotsOf says of each.
LEMMA FinishedReading ==
  ASSUME TypeOK, ReadInv, poll.pc = "publish"
  PROVE  ReadingExplains
<1>0. PICK R \in Slots, P \in Sums : SlotsOf(R, P)  BY DEF ReadInv
<1>1. NCPUs \in Nat /\ NCPUs \in 0..NCPUs /\ \A c \in CPUs : c \in 0..NCPUs /\ c - 1 \in 0..NCPUs
  BY OrderType
<1>2. \A k \in Maps : /\ IsSum(P[k], R[k]) /\ poll.out[ReadOrder[k]] = P[k][NCPUs]
                      /\ R[k] \in [CPUs -> Nat] /\ P[k] \in [0..NCPUs -> Nat]
                      /\ \A c \in CPUs : Now(R, k, c) = R[k][c]
  BY <1>0, ReadingSums
<1>3. 1 \in Maps /\ 2 \in Maps /\ 3 \in Maps /\ 4 \in Maps /\ 5 \in Maps /\ 6 \in Maps
      /\ 7 \in Maps /\ 8 \in Maps /\ 9 \in Maps
  BY DEF Maps
<1>4. \A k \in Maps : /\ \A c \in CPUs : R[k][c] \in Nat /\ P[k][c] = P[k][c - 1] + R[k][c]
                      /\ \A c \in 0..NCPUs : P[k][c] \in Nat
                      /\ P[k][0] = 0
  BY <1>2 DEF IsSum
<1>5. \A c \in CPUs : /\ R[1][c] <= R[2][c] + R[3][c] + R[4][c] + R[5][c] + R[6][c] + 1
                      /\ R[6][c] <= R[7][c] + R[8][c] + R[9][c] + 1
  <2>1. \A k, c : Done(k, c)  BY DEF Done
  <2> QED  BY <1>0, <1>2, <1>3, <2>1 DEF SlotsOf
<1>6. P[1][NCPUs] <= P[2][NCPUs] + P[3][NCPUs] + P[4][NCPUs] + P[5][NCPUs] + P[6][NCPUs] + NCPUs
  <2> DEFINE g == [c \in CPUs |-> R[2][c] + R[3][c] + R[4][c] + R[5][c] + R[6][c] + 1]
             G == [c \in 0..NCPUs |-> P[2][c] + P[3][c] + P[4][c] + P[5][c] + P[6][c] + c]
  <2>1. g \in [CPUs -> Nat] /\ \A c \in CPUs : R[1][c] <= g[c]  BY <1>3, <1>4, <1>5
  <2>2. G \in [0..NCPUs -> Nat]  BY <1>1, <1>3, <1>4
  <2>3. G[0] = 0  BY <1>1, <1>3, <1>4
  <2>4. ASSUME NEW c \in CPUs PROVE G[c] = G[c - 1] + g[c]
    <3>1. /\ G[c] = P[2][c] + P[3][c] + P[4][c] + P[5][c] + P[6][c] + c
          /\ G[c - 1] = P[2][c - 1] + P[3][c - 1] + P[4][c - 1] + P[5][c - 1] + P[6][c - 1] + (c - 1)
          /\ g[c] = R[2][c] + R[3][c] + R[4][c] + R[5][c] + R[6][c] + 1
      BY <1>1
    <3>2. \A k \in Maps : R[k][c] \in Nat /\ P[k][c - 1] \in Nat /\ P[k][c] = P[k][c - 1] + R[k][c]
      BY <1>1, <1>4
    <3> HIDE DEF g, G
    <3> QED  BY <1>1, <1>3, <3>1, <3>2
  <2>5. G[NCPUs] = P[2][NCPUs] + P[3][NCPUs] + P[4][NCPUs] + P[5][NCPUs] + P[6][NCPUs] + NCPUs
    BY <1>1
  <2> HIDE DEF g, G
  <2>6. IsSum(G, g)  BY <2>3, <2>4 DEF IsSum
  <2>7. P[1][NCPUs] <= G[NCPUs]
    <3>1. R[1] \in [CPUs -> Nat] /\ P[1] \in [0..NCPUs -> Nat] /\ IsSum(P[1], R[1])  BY <1>2, <1>3
    <3> QED  BY <2>1, <2>2, <2>6, <3>1, SumOrder
  <2> QED  BY <2>5, <2>7
<1>7. P[6][NCPUs] <= P[7][NCPUs] + P[8][NCPUs] + P[9][NCPUs] + NCPUs
  <2> DEFINE g == [c \in CPUs |-> R[7][c] + R[8][c] + R[9][c] + 1]
             G == [c \in 0..NCPUs |-> P[7][c] + P[8][c] + P[9][c] + c]
  <2>1. g \in [CPUs -> Nat] /\ \A c \in CPUs : R[6][c] <= g[c]  BY <1>3, <1>4, <1>5
  <2>2. G \in [0..NCPUs -> Nat]  BY <1>1, <1>3, <1>4
  <2>3. G[0] = 0  BY <1>1, <1>3, <1>4
  <2>4. ASSUME NEW c \in CPUs PROVE G[c] = G[c - 1] + g[c]
    <3>1. /\ G[c] = P[7][c] + P[8][c] + P[9][c] + c
          /\ G[c - 1] = P[7][c - 1] + P[8][c - 1] + P[9][c - 1] + (c - 1)
          /\ g[c] = R[7][c] + R[8][c] + R[9][c] + 1
      BY <1>1
    <3>2. \A k \in Maps : R[k][c] \in Nat /\ P[k][c - 1] \in Nat /\ P[k][c] = P[k][c - 1] + R[k][c]
      BY <1>1, <1>4
    <3> HIDE DEF g, G
    <3> QED  BY <1>1, <1>3, <3>1, <3>2
  <2>5. G[NCPUs] = P[7][NCPUs] + P[8][NCPUs] + P[9][NCPUs] + NCPUs  BY <1>1
  <2> HIDE DEF g, G
  <2>6. IsSum(G, g)  BY <2>3, <2>4 DEF IsSum
  <2>7. P[6][NCPUs] <= G[NCPUs]
    <3>1. R[6] \in [CPUs -> Nat] /\ P[6] \in [0..NCPUs -> Nat] /\ IsSum(P[6], R[6])  BY <1>2, <1>3
    <3> QED  BY <2>1, <2>2, <2>6, <3>1, SumOrder
  <2> QED  BY <2>5, <2>7
<1>8. /\ poll.out["seen"] = P[1][NCPUs] /\ poll.out["not_ipv4"] = P[2][NCPUs]
      /\ poll.out["not_tcp"] = P[3][NCPUs] /\ poll.out["tcp_short"] = P[4][NCPUs]
      /\ poll.out["tcp_pure_ack"] = P[5][NCPUs] /\ poll.out["tcp_payload"] = P[6][NCPUs]
      /\ poll.out["no_src_zone"] = P[7][NCPUs] /\ poll.out["no_dst_zone"] = P[8][NCPUs]
      /\ poll.out["tcp_zoned"] = P[9][NCPUs]
  BY <1>2, <1>3, OrderNames
<1> QED  BY <1>6, <1>7, <1>8 DEF ReadingExplains

\* The drop reasons that publish logs account for every packet seen but one
\* for each CPU, because ReadDebugCounters reads the inclusive counters first:
\* on any number of CPUs and with packets arriving between any two slots.
THEOREM ReadingsExplain == Spec => []ReadingExplains
<1>1. TypeOK /\ ReadInv => ReadingExplains
  BY FinishedReading DEF ReadingExplains
<1> QED  BY <1>1, ReadInvariant, PTL
=============================================================================
