------------------------- MODULE StatsPipelineProofs -------------------------
(***************************************************************************)
(* Proofs about StatsPipeline for any number of CPUs, zones and ring slots: *)
(* events are counted once however record and snapshotAndReset interleave,  *)
(* and a torn snapshot is made good by the next poll.                       *)
(*                                                                         *)
(* PipelineInv is inductive together with TypeOK.  Only six actions touch   *)
(* the numbers it is about: ReadInto, RecordSeg, RecordRet, SwapSegs,       *)
(* SwapRets and Publish; the others leave them alone (FrameInv).            *)
(***************************************************************************)
EXTENDS StatsPipeline, SequenceTheorems, TLAPS

(***************************************************************************)
(* Adding two tables of counters adds each entry.                           *)
(***************************************************************************)
LEMMA AddEffect ==
  ASSUME NEW a \in [Zones -> Pair], NEW b \in [Zones -> Pair]
  PROVE  /\ Add(a, b) \in [Zones -> Pair]
         /\ \A z \in Zones : /\ Add(a, b)[z].seg = a[z].seg + b[z].seg
                             /\ Add(a, b)[z].ret = a[z].ret + b[z].ret
BY DEF Add, Pair

(***************************************************************************)
(* The initial state satisfies the invariant.                               *)
(***************************************************************************)
LEMMA InitInv == Init => TypeOK /\ PipelineInv
<1> SUFFICES ASSUME Init PROVE TypeOK /\ PipelineInv  OBVIOUS
<1>1. 1 \in Zones  BY PipelineAssumption DEF Zones
<1>2. ZeroCounters \in [Zones -> Pair]  BY DEF ZeroCounters, Zero, Pair
<1>3. TypeOK
  <2>1. ring \in Seq(Slot)  BY DEF Init
  <2>2. QED  BY <1>1, <1>2, <2>1 DEF Init, TypeOK
<1>4. PipelineInv
  <2>1. \A z \in Zones :
          /\ total[z].seg = 0 /\ total[z].ret = 0
          /\ taken[z].seg = 0 /\ taken[z].ret = 0
          /\ before[z].ret = 0
          /\ counters[z].seg = 0 /\ counters[z].ret = 0
          /\ segs[z] = 0 /\ rets[z] = 0
    BY DEF Init, ZeroCounters, Zero
  <2>2. \A z \in Zones : InHand(z).seg = 0 /\ InHand(z).ret = 0  BY DEF Init, InHand
  <2>3. QED
    BY <2>1, <2>2 DEF PipelineInv, Conservation, RetransHasSegment, LeadLastsOnePoll
<1>5. QED  BY <1>3, <1>4

(***************************************************************************)
(* The type invariant is preserved by every step.                           *)
(***************************************************************************)
LEMMA TypeStep == TypeOK /\ [Next]_vars => TypeOK'
<1> SUFFICES ASSUME TypeOK, [Next]_vars PROVE TypeOK'  OBVIOUS
<1> USE DEF kernel, acc, signals, history
<1>1. ASSUME NEW c \in CPUs, NEW rec \in Record, bpf_ringbuf_reserve(c, rec) PROVE TypeOK'
  <2>1. [owner |-> c, zone |-> rec.zone, retrans |-> rec.retrans] \in Slot  BY DEF Record, Slot
  <2>2. ring \in Seq(Slot) /\ lost \in Nat  BY DEF TypeOK
  <2>3. ring' \in Seq(Slot) /\ lost' \in Nat
    <3>1. CASE Len(ring) < RingCap
      BY <1>1, <2>1, <2>2, <3>1, AppendProperties DEF bpf_ringbuf_reserve
    <3>2. CASE ~(Len(ring) < RingCap)  BY <1>1, <2>2, <3>2 DEF bpf_ringbuf_reserve
    <3>3. QED  BY <3>1, <3>2
  <2>4. QED  BY <1>1, <2>3 DEF bpf_ringbuf_reserve, TypeOK
<1>2. ASSUME NEW c \in CPUs, bpf_ringbuf_submit(c) PROVE TypeOK'
  <2>1. PICK i \in Reserved(c) : ring' = [ring EXCEPT ![i].owner = NoCPU]
    BY <1>2 DEF bpf_ringbuf_submit
  <2>2. i \in DOMAIN ring /\ ring \in Seq(Slot)  BY DEF Reserved, TypeOK
  <2>3. ring[i] \in Slot  BY <2>2, ElementOfSeq, LenProperties
  <2>4. [ring[i] EXCEPT !.owner = NoCPU] \in Slot  BY <2>3 DEF Slot
  <2>5. i \in 1..Len(ring)  BY <2>2, LenProperties
  <2>6. ring' \in Seq(Slot)  BY <2>1, <2>2, <2>4, <2>5, ExceptSeq
  <2>7. QED  BY <1>2, <2>6 DEF bpf_ringbuf_submit, TypeOK
<1>3. CASE ReadInto
  <2>1. ring \in Seq(Slot) /\ ring # <<>>  BY <1>3 DEF ReadInto, Readable, TypeOK
  <2>2. Head(ring) \in Slot /\ Tail(ring) \in Seq(Slot)  BY <2>1, HeadTailProperties
  <2>3. Count(Head(ring)) \in [Zones -> Pair]  BY DEF Count, Pair
  <2>4. taken' \in [Zones -> Pair]  BY <1>3, <2>3, AddEffect DEF ReadInto, TypeOK
  <2>5. reader'.rec \in Record /\ reader' = [pc |-> "process", rec |-> reader'.rec]
    BY <1>3, <2>2 DEF ReadInto, Record, Slot
  <2>6. QED  BY <1>3, <2>2, <2>4, <2>5 DEF ReadInto, TypeOK
<1>4. CASE DeadlineExceeded  BY <1>4 DEF DeadlineExceeded, BlockAgain, TypeOK
<1>5. CASE ReaderReturns  BY <1>5 DEF ReaderReturns, TypeOK
<1>6. CASE ReadError  BY <1>6 DEF ReadError, TypeOK
<1>7. CASE RecordSeg
  <2>1. reader.pc = "process" /\ reader.rec \in Record  BY <1>7 DEF RecordSeg, TypeOK
  <2>2. segs' \in [Zones -> Nat]  BY <1>7, <2>1 DEF RecordSeg, OneMore, TypeOK, Record
  <2>3. \/ reader' = [pc |-> "drain", rec |-> NoRecord]
        \/ reader' = [reader EXCEPT !.pc = "retrans"] /\ reader.rec.retrans
    BY <1>7, Zenon DEF RecordSeg, AfterSeg
  <2>4. /\ reader' \in [pc : {"read", "process", "retrans", "drain", "returned"},
                         rec : Record \union {NoRecord}]
        /\ reader'.pc \in {"process", "retrans"} => reader'.rec \in Record
        /\ reader'.pc = "retrans" => reader'.rec.retrans
    <3>1. CASE reader' = [pc |-> "drain", rec |-> NoRecord]  BY <3>1
    <3>2. CASE reader' = [reader EXCEPT !.pc = "retrans"] /\ reader.rec.retrans
      <4>1. reader'.pc = "retrans" /\ reader'.rec = reader.rec
            /\ reader' = [pc |-> "retrans", rec |-> reader.rec]
        BY <3>2 DEF TypeOK
      <4>2. QED  BY <2>1, <3>2, <4>1
    <3>3. QED  BY <2>3, <3>1, <3>2
  <2>5. QED  BY <1>7, <2>2, <2>4 DEF RecordSeg, TypeOK
<1>8. CASE RecordRet  BY <1>8 DEF RecordRet, TypeOK, Record
<1>9. CASE SwapSegs  BY <1>9 DEF SwapSegs, Reset, TypeOK, Pair
<1>10. CASE SwapRets
  <2>1. main'.zone \in Zones  BY <1>10, PipelineAssumption DEF SwapRets, Reset, AfterRets, TypeOK, Zones
  <2>2. main' \in [pc : {"segs", "rets", "publish", "select", "shutdown", "exited"}, zone : Zones]
    BY <1>10, <2>1 DEF SwapRets, Reset, AfterRets
  <2>3. QED  BY <1>10, <2>2 DEF SwapRets, Reset, AfterRets, TypeOK, Pair
<1>11. CASE Publish
  <2>1. ZeroCounters \in [Zones -> Pair]  BY DEF ZeroCounters, Zero, Pair
  <2>2. Add(total, counters) \in [Zones -> Pair]  BY AddEffect DEF TypeOK
  <2>3. QED  BY <1>11, <2>1, <2>2 DEF Publish, NewCounters, TypeOK
<1>12. CASE SelectTick
  <2>1. 1 \in Zones  BY PipelineAssumption DEF Zones
  <2>2. QED  BY <1>12, <2>1 DEF SelectTick, TypeOK
<1>13. CASE SelectDone  BY <1>13 DEF SelectDone, DoneReady, TypeOK
<1>14. CASE Exit  BY <1>14 DEF Exit, TypeOK
<1>15. CASE Tick  BY <1>15 DEF Tick, TypeOK
<1>16. CASE Signal  BY <1>16 DEF Signal, TypeOK
<1>17. CASE UNCHANGED vars  BY <1>17 DEF vars, TypeOK
<1>18. QED
  BY <1>1, <1>2, <1>3, <1>4, <1>5, <1>6, <1>7, <1>8, <1>9, <1>10, <1>11, <1>12, <1>13,
     <1>14, <1>15, <1>16, <1>17 DEF Next, Reader, Poll

(***************************************************************************)
(* A step that leaves every number of the invariant, and the progress of    *)
(* the poll, as they were preserves it.                                     *)
(***************************************************************************)
LEMMA FrameInv ==
  ASSUME PipelineInv,
         UNCHANGED <<segs, rets, counters, taken, total, before>>,
         \A z \in Zones : InHand(z)' = InHand(z),
         SegsSwapped' = SegsSwapped, RetsSwapped' = RetsSwapped
  PROVE  PipelineInv'
BY DEF PipelineInv, Conservation, RetransHasSegment, LeadLastsOnePoll

(***************************************************************************)
(* The numbers of a well-typed state are natural numbers.                   *)
(***************************************************************************)
LEMMA Numbers ==
  ASSUME TypeOK, NEW z \in Zones
  PROVE  /\ segs[z] \in Nat /\ rets[z] \in Nat
         /\ counters[z].seg \in Nat /\ counters[z].ret \in Nat
         /\ total[z].seg \in Nat /\ total[z].ret \in Nat
         /\ taken[z].seg \in Nat /\ taken[z].ret \in Nat
         /\ before[z].seg \in Nat /\ before[z].ret \in Nat
         /\ InHand(z).seg \in Nat /\ InHand(z).ret \in Nat
<1>1. InHand(z).seg \in Nat /\ InHand(z).ret \in Nat  BY DEF InHand
<1>2. QED  BY <1>1 DEF TypeOK, Pair

(***************************************************************************)
(* PipelineInv is preserved by every step of a well-typed state.            *)
(***************************************************************************)
LEMMA PipelineStep == TypeOK /\ PipelineInv /\ [Next]_vars => PipelineInv'
<1> SUFFICES ASSUME TypeOK, PipelineInv, [Next]_vars PROVE PipelineInv'  OBVIOUS
<1> USE DEF kernel, acc, signals, history
<1>0. \A z \in Zones : z \in Int /\ z >= 1 /\ z <= NZones  BY PipelineAssumption DEF Zones
<1>1. ASSUME NEW c \in CPUs, NEW rec \in Record, bpf_ringbuf_reserve(c, rec) PROVE PipelineInv'
  BY <1>1, FrameInv DEF bpf_ringbuf_reserve, InHand, SegsSwapped, RetsSwapped
<1>2. ASSUME NEW c \in CPUs, bpf_ringbuf_submit(c) PROVE PipelineInv'
  BY <1>2, FrameInv DEF bpf_ringbuf_submit, InHand, SegsSwapped, RetsSwapped
<1>3. CASE ReadInto
  <2>1. ring \in Seq(Slot) /\ ring # <<>>  BY <1>3 DEF ReadInto, Readable, TypeOK
  <2>2. Head(ring) \in Slot  BY <2>1, HeadTailProperties
  <2>3. UNCHANGED <<segs, rets, counters, total, before, main>>  BY <1>3 DEF ReadInto
  <2>4. SegsSwapped' = SegsSwapped /\ RetsSwapped' = RetsSwapped
    BY <2>3 DEF SegsSwapped, RetsSwapped
  <2>5. ASSUME NEW z \in Zones
        PROVE  /\ taken'[z].seg = taken[z].seg + InHand(z)'.seg /\ InHand(z).seg = 0
               /\ taken'[z].ret = taken[z].ret + InHand(z)'.ret /\ InHand(z).ret = 0
               /\ InHand(z)'.seg \in Nat /\ InHand(z)'.ret \in Nat
               /\ InHand(z)'.ret <= InHand(z)'.seg
    <3>1. Count(Head(ring)) \in [Zones -> Pair]  BY DEF Count, Pair
    <3>2. /\ taken'[z].seg = taken[z].seg + Count(Head(ring))[z].seg
          /\ taken'[z].ret = taken[z].ret + Count(Head(ring))[z].ret
      <4>1. taken' = Add(taken, Count(Head(ring)))  BY <1>3 DEF ReadInto
      <4>2. taken \in [Zones -> Pair]  BY DEF TypeOK
      <4>3. QED  BY <3>1, <4>1, <4>2, AddEffect
    <3>3. reader' = [pc |-> "process", rec |-> [zone |-> Head(ring).zone, retrans |-> Head(ring).retrans]]
      BY <1>3 DEF ReadInto
    <3>4. InHand(z)'.seg = Count(Head(ring))[z].seg  BY <3>3 DEF InHand, Count
    <3>5. InHand(z)'.ret = Count(Head(ring))[z].ret  BY <3>3 DEF InHand, Count
    <3>6. InHand(z).seg = 0 /\ InHand(z).ret = 0  BY <1>3 DEF ReadInto, InHand
    <3>7. /\ InHand(z)'.seg \in Nat /\ InHand(z)'.ret \in Nat
          /\ InHand(z)'.ret <= InHand(z)'.seg
      BY <3>3 DEF InHand
    <3>8. QED  BY <3>2, <3>4, <3>5, <3>6, <3>7
  <2>6. Conservation'
    BY <2>3, <2>5, Numbers DEF PipelineInv, Conservation
  <2>7. ASSUME NEW z \in Zones PROVE taken'[z].ret <= taken'[z].seg
    BY <2>5, Numbers DEF PipelineInv
  <2>8. QED
    BY <2>3, <2>4, <2>6, <2>7 DEF PipelineInv, RetransHasSegment, LeadLastsOnePoll
<1>4. CASE DeadlineExceeded
  BY <1>4, FrameInv DEF DeadlineExceeded, BlockAgain, TypeOK, InHand, SegsSwapped, RetsSwapped
<1>5. CASE ReaderReturns
  BY <1>5, FrameInv DEF ReaderReturns, TypeOK, InHand, SegsSwapped, RetsSwapped
<1>6. CASE ReadError
  BY <1>6, FrameInv DEF ReadError, TypeOK, InHand, SegsSwapped, RetsSwapped
<1>7. CASE SelectTick
  BY <1>7, <1>0, FrameInv DEF SelectTick, TypeOK, InHand, SegsSwapped, RetsSwapped
<1>8. CASE SelectDone
  BY <1>8, FrameInv DEF SelectDone, DoneReady, TypeOK, InHand, SegsSwapped, RetsSwapped
<1>9. CASE Exit
  BY <1>9, FrameInv DEF Exit, TypeOK, InHand, SegsSwapped, RetsSwapped
<1>10. CASE Tick
  BY <1>10, FrameInv DEF Tick, InHand, SegsSwapped, RetsSwapped
<1>11. CASE Signal
  BY <1>11, FrameInv DEF Signal, InHand, SegsSwapped, RetsSwapped
<1>12. CASE UNCHANGED vars
  BY <1>12, FrameInv DEF vars, InHand, SegsSwapped, RetsSwapped
<1>13. CASE RecordSeg
  <2>1. reader.pc = "process" /\ reader.rec \in Record  BY <1>13 DEF RecordSeg, TypeOK
  <2>2. UNCHANGED <<rets, counters, taken, total, before, main>>  BY <1>13 DEF RecordSeg
  <2>3. SegsSwapped' = SegsSwapped /\ RetsSwapped' = RetsSwapped
    BY <2>2 DEF SegsSwapped, RetsSwapped
  <2>4. ASSUME NEW z \in Zones
        PROVE  /\ segs'[z] = segs[z] + InHand(z).seg
               /\ InHand(z)'.seg = 0
               /\ InHand(z)'.ret = InHand(z).ret
    <3>1. segs' = [segs EXCEPT ![reader.rec.zone] = @ + 1]  BY <1>13 DEF RecordSeg, OneMore
    <3>2. segs \in [Zones -> Nat]  BY DEF TypeOK
    <3>3. segs'[z] = segs[z] + InHand(z).seg  BY <2>1, <3>1, <3>2 DEF InHand
    <3>4. CASE reader.rec.retrans
      <4>1. reader'.pc = "retrans" /\ reader'.rec = reader.rec
        BY <1>13, <3>4 DEF RecordSeg, AfterSeg, TypeOK
      <4>2. QED  BY <2>1, <3>3, <4>1 DEF InHand
    <3>5. CASE ~reader.rec.retrans
      <4>1. reader'.pc = "drain"  BY <1>13, <3>5 DEF RecordSeg, AfterSeg
      <4>2. InHand(z)'.seg = 0 /\ InHand(z)'.ret = 0  BY <4>1 DEF InHand
      <4>3. InHand(z).ret = 0  BY <3>5 DEF InHand
      <4>4. QED  BY <3>3, <4>2, <4>3
    <3>6. QED  BY <3>4, <3>5
  <2>5. Conservation'
    BY <2>2, <2>4, Numbers DEF PipelineInv, Conservation
  <2>6. RetransHasSegment'
    BY <2>2, <2>4, Numbers DEF PipelineInv, RetransHasSegment
  <2>7. QED  BY <2>2, <2>3, <2>5, <2>6 DEF PipelineInv, LeadLastsOnePoll
<1>14. CASE RecordRet
  <2>1. reader.pc = "retrans" /\ reader.rec \in Record  BY <1>14 DEF RecordRet, TypeOK
  <2>2. UNCHANGED <<segs, counters, taken, total, before, main>>  BY <1>14 DEF RecordRet
  <2>3. SegsSwapped' = SegsSwapped /\ RetsSwapped' = RetsSwapped
    BY <2>2 DEF SegsSwapped, RetsSwapped
  <2>4. ASSUME NEW z \in Zones
        PROVE  /\ rets'[z] = rets[z] + InHand(z).ret
               /\ InHand(z)'.ret = 0
               /\ InHand(z)'.seg = 0 /\ InHand(z).seg = 0
    <3>1. rets' = [rets EXCEPT ![reader.rec.zone] = @ + 1]  BY <1>14 DEF RecordRet
    <3>2. rets \in [Zones -> Nat]  BY DEF TypeOK
    <3>3. reader.rec.retrans  BY <2>1 DEF TypeOK
    <3>4. rets'[z] = rets[z] + InHand(z).ret  BY <2>1, <3>1, <3>2, <3>3 DEF InHand
    <3>5. reader'.pc = "drain"  BY <1>14 DEF RecordRet
    <3>6. QED  BY <2>1, <3>4, <3>5 DEF InHand
  <2>5. Conservation'
    BY <2>2, <2>4, Numbers DEF PipelineInv, Conservation
  <2>6. RetransHasSegment'
    <3>1. ASSUME NEW z \in Zones
          PROVE  total'[z].ret + counters'[z].ret + rets'[z]
                   <= total'[z].seg + counters'[z].seg + segs'[z]
      <4>1. /\ taken[z].seg = total'[z].seg + counters'[z].seg + segs'[z]
            /\ taken[z].ret = total'[z].ret + counters'[z].ret + rets'[z]
        BY <2>2, <2>4, Numbers DEF PipelineInv, Conservation
      <4>2. taken[z].ret <= taken[z].seg  BY DEF PipelineInv
      <4>3. QED  BY <4>1, <4>2
    <3>2. QED  BY <3>1 DEF RetransHasSegment
  <2>7. QED  BY <2>2, <2>3, <2>5, <2>6 DEF PipelineInv, LeadLastsOnePoll
<1>15. CASE SwapSegs
  <2> DEFINE w == main.zone
  <2>1. /\ main.pc = "segs" /\ w \in Zones
        /\ main' = [main EXCEPT !.pc = "rets"]
        /\ UNCHANGED <<reader, rets, taken, total, before>>
    BY <1>15 DEF SwapSegs, TypeOK
  <2>2. main'.pc = "rets" /\ main'.zone = w  BY <2>1 DEF TypeOK
  <2>3. ASSUME NEW z \in Zones PROVE InHand(z)' = InHand(z)  BY <2>1 DEF InHand
  <2>4. ASSUME NEW z \in Zones, z # w
        PROVE  /\ segs'[z] = segs[z] /\ counters'[z] = counters[z]
               /\ z \in SegsSwapped' <=> z \in SegsSwapped
               /\ z \in RetsSwapped' <=> z \in RetsSwapped
    <3>1. segs'[z] = segs[z] /\ counters'[z] = counters[z]
      BY <1>15, <2>4 DEF SwapSegs, Reset, TypeOK
    <3>2. z \in SegsSwapped' <=> z \in SegsSwapped
      BY <1>0, <2>1, <2>2, <2>4 DEF SegsSwapped
    <3>3. z \in RetsSwapped' <=> z \in RetsSwapped
      BY <2>1, <2>2 DEF RetsSwapped
    <3>4. QED  BY <3>1, <3>2, <3>3
  <2>5. /\ segs'[w] = 0 /\ counters'[w].seg = segs[w]
        /\ counters'[w].ret = counters[w].ret
        /\ counters[w].seg = 0 /\ counters[w].ret = 0
        /\ w \in SegsSwapped' /\ w \notin RetsSwapped'
    <3>1. segs'[w] = 0 /\ counters'[w].seg = segs[w] /\ counters'[w].ret = counters[w].ret
      BY <1>15, <2>1 DEF SwapSegs, Reset, TypeOK, Pair
    <3>2. w \notin SegsSwapped /\ w \notin RetsSwapped
      BY <1>0, <2>1 DEF SegsSwapped, RetsSwapped
    <3>3. w \in SegsSwapped' /\ w \notin RetsSwapped'
      BY <1>0, <2>1, <2>2 DEF SegsSwapped, RetsSwapped
    <3>4. QED  BY <2>1, <3>1, <3>2, <3>3 DEF PipelineInv
  <2>6. ASSUME NEW z \in Zones
        PROVE  /\ counters'[z].seg + segs'[z] = counters[z].seg + segs[z]
               /\ counters'[z].ret = counters[z].ret
               /\ counters'[z].seg \in Nat /\ segs'[z] \in Nat
    BY <2>1, <2>4, <2>5, Numbers
  <2>7. Conservation' /\ RetransHasSegment'
    <3>1. ASSUME NEW z \in Zones
          PROVE  /\ taken'[z].seg = total'[z].seg + counters'[z].seg + segs'[z] + InHand(z)'.seg
                 /\ taken'[z].ret = total'[z].ret + counters'[z].ret + rets'[z] + InHand(z)'.ret
      <4>1. /\ taken[z].seg = total[z].seg + counters[z].seg + segs[z] + InHand(z).seg
            /\ taken[z].ret = total[z].ret + counters[z].ret + rets[z] + InHand(z).ret
        BY DEF PipelineInv, Conservation
      <4>2. InHand(z)'.seg = InHand(z).seg /\ InHand(z)'.ret = InHand(z).ret  BY <2>3
      <4>3. QED  BY <2>1, <2>6, <4>1, <4>2, Numbers
    <3>2. RetransHasSegment'
      BY <2>1, <2>6, Numbers DEF PipelineInv, RetransHasSegment
    <3>3. QED  BY <3>1, <3>2 DEF Conservation
  <2>8. LeadLastsOnePoll'  BY <2>1 DEF PipelineInv, LeadLastsOnePoll
  <2>9. ASSUME NEW z \in Zones
        PROVE  /\ taken'[z].ret <= taken'[z].seg
               /\ z \in SegsSwapped' => total'[z].ret <= total'[z].seg + counters'[z].seg
               /\ z \notin SegsSwapped' => counters'[z].seg = 0
               /\ z \notin RetsSwapped' => counters'[z].ret = 0
    <3>1. CASE z # w  BY <2>1, <2>4, <3>1 DEF PipelineInv
    <3>2. CASE z = w
      <4>1. total[w].ret <= total[w].seg + segs[w]
        BY <2>1, <2>5, Numbers DEF PipelineInv, RetransHasSegment
      <4>2. taken[w].ret <= taken[w].seg  BY <2>1 DEF PipelineInv
      <4>3. QED  BY <2>1, <2>5, <3>2, <4>1, <4>2
    <3>3. QED  BY <3>1, <3>2
  <2>10. QED  BY <2>7, <2>8, <2>9 DEF PipelineInv
<1>16. CASE SwapRets
  <2> DEFINE w == main.zone
  <2>1. /\ main.pc = "rets" /\ w \in Zones
        /\ UNCHANGED <<reader, segs, taken, total, before>>
        /\ w < NZones => main'.pc = "segs" /\ main'.zone = w + 1
        /\ ~(w < NZones) => main'.pc = "publish"
    BY <1>16 DEF SwapRets, Reset, AfterRets, TypeOK
  <2>2. NZones \in Nat /\ w \in Int /\ w <= NZones  BY <1>0, <2>1, PipelineAssumption
  <2>3. ASSUME NEW z \in Zones PROVE InHand(z)' = InHand(z)  BY <2>1 DEF InHand
  <2>4. ASSUME NEW z \in Zones
        PROVE  /\ z \in SegsSwapped' <=> z \in SegsSwapped
               /\ z \in RetsSwapped' <=> z \in RetsSwapped \/ z = w
    <3>1. CASE w < NZones
      BY <1>0, <2>1, <2>2, <3>1 DEF SegsSwapped, RetsSwapped
    <3>2. CASE ~(w < NZones)
      BY <1>0, <2>1, <2>2, <3>2 DEF SegsSwapped, RetsSwapped
    <3>3. QED  BY <3>1, <3>2
  <2>5. w \notin RetsSwapped  BY <1>0, <2>1 DEF RetsSwapped
  <2>6. ASSUME NEW z \in Zones
        PROVE  /\ counters'[z].ret + rets'[z] = counters[z].ret + rets[z]
               /\ counters'[z].seg = counters[z].seg
               /\ counters'[z].ret \in Nat /\ rets'[z] \in Nat
               /\ z # w => counters'[z].ret = counters[z].ret
    <3>1. CASE z # w
      <4>1. counters'[z] = counters[z] /\ rets'[z] = rets[z]
        BY <1>16, <3>1 DEF SwapRets, Reset, AfterRets, TypeOK
      <4>2. QED  BY <4>1, Numbers
    <3>2. CASE z = w
      <4>1. counters'[w].ret = rets[w] /\ counters'[w].seg = counters[w].seg /\ rets'[w] = 0
        BY <1>16, <2>1 DEF SwapRets, Reset, AfterRets, TypeOK, Pair
      <4>2. counters[w].ret = 0  BY <2>1, <2>5 DEF PipelineInv
      <4>3. QED  BY <2>1, <3>2, <4>1, <4>2, Numbers
    <3>3. QED  BY <3>1, <3>2
  <2>7. Conservation' /\ RetransHasSegment'
    <3>1. ASSUME NEW z \in Zones
          PROVE  /\ taken'[z].seg = total'[z].seg + counters'[z].seg + segs'[z] + InHand(z)'.seg
                 /\ taken'[z].ret = total'[z].ret + counters'[z].ret + rets'[z] + InHand(z)'.ret
      <4>1. /\ taken[z].seg = total[z].seg + counters[z].seg + segs[z] + InHand(z).seg
            /\ taken[z].ret = total[z].ret + counters[z].ret + rets[z] + InHand(z).ret
        BY DEF PipelineInv, Conservation
      <4>2. InHand(z)'.seg = InHand(z).seg /\ InHand(z)'.ret = InHand(z).ret  BY <2>3
      <4>3. QED  BY <2>1, <2>6, <4>1, <4>2, Numbers
    <3>2. RetransHasSegment'
      BY <2>1, <2>6, Numbers DEF PipelineInv, RetransHasSegment
    <3>3. QED  BY <3>1, <3>2 DEF Conservation
  <2>8. LeadLastsOnePoll'  BY <2>1 DEF PipelineInv, LeadLastsOnePoll
  <2>9. ASSUME NEW z \in Zones
        PROVE  /\ taken'[z].ret <= taken'[z].seg
               /\ z \in SegsSwapped' => total'[z].ret <= total'[z].seg + counters'[z].seg
               /\ z \notin SegsSwapped' => counters'[z].seg = 0
               /\ z \notin RetsSwapped' => counters'[z].ret = 0
    BY <2>1, <2>4, <2>6 DEF PipelineInv
  <2>10. QED  BY <2>7, <2>8, <2>9 DEF PipelineInv
<1>17. CASE Publish
  <2>1. /\ main.pc = "publish" /\ main'.pc = "select"
        /\ before' = total
        /\ UNCHANGED <<reader, segs, rets, taken>>
    BY <1>17 DEF Publish, NewCounters, TypeOK
  <2>2. ASSUME NEW z \in Zones
        PROVE  /\ total'[z].seg = total[z].seg + counters[z].seg
               /\ total'[z].ret = total[z].ret + counters[z].ret
               /\ counters'[z].seg = 0 /\ counters'[z].ret = 0
    <3>1. total' = Add(total, counters) /\ counters' = ZeroCounters  BY <1>17 DEF Publish, NewCounters
    <3>2. total \in [Zones -> Pair] /\ counters \in [Zones -> Pair]  BY DEF TypeOK
    <3>3. /\ total'[z].seg = total[z].seg + counters[z].seg
          /\ total'[z].ret = total[z].ret + counters[z].ret
      BY <3>1, <3>2, AddEffect
    <3>4. counters'[z].seg = 0 /\ counters'[z].ret = 0
      BY <3>1 DEF ZeroCounters, Zero
    <3>5. QED  BY <3>3, <3>4
  <2>3. ASSUME NEW z \in Zones PROVE InHand(z)' = InHand(z)  BY <2>1 DEF InHand
  <2>4. Conservation' /\ RetransHasSegment'
    <3>1. ASSUME NEW z \in Zones
          PROVE  /\ taken'[z].seg = total'[z].seg + counters'[z].seg + segs'[z] + InHand(z)'.seg
                 /\ taken'[z].ret = total'[z].ret + counters'[z].ret + rets'[z] + InHand(z)'.ret
      <4>1. /\ taken[z].seg = total[z].seg + counters[z].seg + segs[z] + InHand(z).seg
            /\ taken[z].ret = total[z].ret + counters[z].ret + rets[z] + InHand(z).ret
        BY DEF PipelineInv, Conservation
      <4>2. InHand(z)'.seg = InHand(z).seg /\ InHand(z)'.ret = InHand(z).ret  BY <2>3
      <4>3. QED  BY <2>1, <2>2, <4>1, <4>2, Numbers
    <3>2. RetransHasSegment'
      BY <2>1, <2>2, Numbers DEF PipelineInv, RetransHasSegment
    <3>3. QED  BY <3>1, <3>2 DEF Conservation
  <2>5. LeadLastsOnePoll'
    <3>1. ASSUME NEW z \in Zones PROVE before'[z].ret <= total'[z].seg
      <4>1. z \in SegsSwapped  BY <2>1 DEF SegsSwapped
      <4>2. total[z].ret <= total[z].seg + counters[z].seg  BY <4>1 DEF PipelineInv
      <4>3. QED  BY <2>1, <2>2, <4>2
    <3>2. QED  BY <3>1 DEF LeadLastsOnePoll
  <2>6. ASSUME NEW z \in Zones
        PROVE  /\ taken'[z].ret <= taken'[z].seg
               /\ z \notin SegsSwapped'
               /\ counters'[z].seg = 0 /\ counters'[z].ret = 0
    BY <2>1, <2>2 DEF PipelineInv, SegsSwapped
  <2>7. QED  BY <2>4, <2>5, <2>6 DEF PipelineInv
<1>18. QED
  BY <1>1, <1>2, <1>3, <1>4, <1>5, <1>6, <1>7, <1>8, <1>9, <1>10, <1>11, <1>12, <1>13,
     <1>14, <1>15, <1>16, <1>17 DEF Next, Reader, Poll

(***************************************************************************)
(* Every reachable state is well typed and satisfies the invariant.         *)
(***************************************************************************)
THEOREM PipelineInvariance == Spec => [](TypeOK /\ PipelineInv)
BY InitInv, TypeStep, PipelineStep, PTL DEF Spec

(***************************************************************************)
(* The accumulator, the ring and both goroutines keep their types.          *)
(***************************************************************************)
THEOREM PipelineTypeCorrect == Spec => []TypeOK
BY PipelineInvariance, PTL

(***************************************************************************)
(* Every event taken from the ring is counted exactly once, whatever the    *)
(* interleaving of record with the two swaps of snapshotAndReset.           *)
(***************************************************************************)
THEOREM EventsConserved == Spec => []Conservation
<1>1. PipelineInv => Conservation  BY DEF PipelineInv
<1>2. QED  BY <1>1, PipelineInvariance, PTL

(***************************************************************************)
(* The program never holds a retransmit without the segment it belongs to.  *)
(***************************************************************************)
THEOREM NoOrphanRetransmit == Spec => []RetransHasSegment
<1>1. PipelineInv => RetransHasSegment  BY DEF PipelineInv
<1>2. QED  BY <1>1, PipelineInvariance, PTL

(***************************************************************************)
(* Retransmits published ahead of their segments by a torn snapshot are     *)
(* covered by the segments of the next poll.                                *)
(***************************************************************************)
THEOREM TornSnapshotRepaired == Spec => []LeadLastsOnePoll
<1>1. PipelineInv => LeadLastsOnePoll  BY DEF PipelineInv
<1>2. QED  BY <1>1, PipelineInvariance, PTL

=============================================================================
