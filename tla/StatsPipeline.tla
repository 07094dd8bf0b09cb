---------------------------- MODULE StatsPipeline ----------------------------
(***************************************************************************)
(* The path of a stats_event from path_egress to the loss counters of one   *)
(* poll: CPUs reserve and submit records in the BPF ring buffer stats_rb,   *)
(* the reader goroutine of startRingbufReader takes them out and records    *)
(* them in the accumulator, and the main goroutine swaps the accumulator    *)
(* out once per tick until a signal ends the program.  The accumulator is   *)
(* shared without a lock: record adds to segs and rets, snapshotAndReset    *)
(* swaps segs and rets, each with an atomic operation of its own.           *)
(***************************************************************************)
EXTENDS Integers, Sequences

CONSTANTS CPUs,
          NZones,    \* number of remote zones
          RingCap,   \* records that fit in stats_rb
          MaxEvents  \* bound on the number of events

ASSUME PipelineAssumption ==
  NZones \in Nat \ {0} /\ RingCap \in Nat \ {0} /\ MaxEvents \in Nat

\* Zones by their index in the accumulator; zone_lpm and zoneByID are built
\* from one configuration, so an event always names one of them.
Zones == 1..NZones

VARIABLES ring,     \* records of stats_rb in the order they were reserved
          events,   \* number of events so far
          lost,     \* number of failed reservations
          reader,   \* reader goroutine: program counter and current record
          segs,     \* accumulator.segs
          rets,     \* accumulator.rets
          main,     \* main goroutine: program counter and zone of the loop
          counters, \* the snapshot that snapshotAndReset is building
          tick,     \* a tick waits in ticker.C, which holds one
          ctxDone,  \* SIGINT or SIGTERM has arrived
          closed,   \* rd.Close has been called
          taken,    \* history: records taken from the ring, by zone
          total,    \* history: sum of all published snapshots
          before    \* history: total before the last publication

kernel == <<ring, events, lost>>
acc == <<segs, rets>>
signals == <<tick, ctxDone>>
history == <<taken, total, before>>
vars == <<kernel, reader, acc, main, counters, signals, closed, history>>

Zero == [seg |-> 0, ret |-> 0]
ZeroCounters == [z \in Zones |-> Zero]
Add(a, b) == [z \in Zones |-> [seg |-> a[z].seg + b[z].seg, ret |-> a[z].ret + b[z].ret]]

NoCPU == 0 \* owner of a submitted record
NoRecord == [zone |-> 0, retrans |-> FALSE]
Record == [zone : Zones, retrans : BOOLEAN]
Slot == [owner : CPUs \union {NoCPU}, zone : Zones, retrans : BOOLEAN]
Pair == [seg : Nat, ret : Nat]

Init ==
  /\ ring = <<>> /\ events = 0 /\ lost = 0
  /\ reader = [pc |-> "read", rec |-> NoRecord]
  /\ segs = [z \in Zones |-> 0]
  /\ rets = [z \in Zones |-> 0]
  /\ main = [pc |-> "segs", zone |-> 1] \* publish() before the loop
  /\ counters = ZeroCounters
  /\ tick = FALSE /\ ctxDone = FALSE /\ closed = FALSE
  /\ taken = ZeroCounters /\ total = ZeroCounters /\ before = ZeroCounters

Running == main.pc # "exited"

-----------------------------------------------------------------------------
(* path_egress: the record is reserved, filled and submitted *)

Reserved(c) == {i \in DOMAIN ring : ring[i].owner = c}

bpf_ringbuf_reserve(c, rec) ==
  /\ Running /\ events < MaxEvents
  /\ Reserved(c) = {}
  /\ events' = events + 1
  /\ IF Len(ring) < RingCap
     THEN /\ ring' = Append(ring, [owner |-> c, zone |-> rec.zone, retrans |-> rec.retrans])
          /\ UNCHANGED lost
     ELSE lost' = lost + 1 /\ UNCHANGED ring
  /\ UNCHANGED <<reader, acc, main, counters, signals, closed, history>>

bpf_ringbuf_submit(c) ==
  /\ Running
  /\ \E i \in Reserved(c) : ring' = [ring EXCEPT ![i].owner = NoCPU]
  /\ UNCHANGED <<events, lost, reader, acc, main, counters, signals, closed, history>>

-----------------------------------------------------------------------------
(* startRingbufReader *)

\* The library waits while the oldest record is reserved but not submitted.
Readable == ring # <<>> /\ Head(ring).owner = NoCPU

Count(rec) == [z \in Zones |-> [seg |-> IF z = rec.zone THEN 1 ELSE 0,
                                ret |-> IF z = rec.zone /\ rec.retrans THEN 1 ELSE 0]]

\* ReadInto returns a record, in the blocking read or in the drain loop.
ReadInto ==
  /\ Running /\ ~closed
  /\ reader.pc \in {"read", "drain"}
  /\ Readable
  /\ reader' = [pc |-> "process", rec |-> [zone |-> Head(ring).zone, retrans |-> Head(ring).retrans]]
  /\ ring' = Tail(ring)
  /\ taken' = Add(taken, Count(Head(ring)))
  /\ UNCHANGED <<events, lost, acc, main, counters, signals, closed, total, before>>

\* Mutant: the passed deadline ends the goroutine like a closed reader.
ReaderEnds == [reader EXCEPT !.pc = "returned"]

BlockAgain == [reader EXCEPT !.pc = "read"]

\* The deadline of the drain loop passes: back to the blocking read.
DeadlineExceeded ==
  /\ Running /\ ~closed
  /\ reader.pc = "drain"
  /\ ring = <<>>
  /\ reader' = BlockAgain
  /\ UNCHANGED <<kernel, acc, main, counters, signals, closed, history>>

\* The reader is closed, or any other error after the signal.
ReaderReturns ==
  /\ Running
  /\ closed \/ ctxDone
  /\ reader.pc \in {"read", "drain"}
  /\ reader' = [pc |-> "returned", rec |-> NoRecord]
  /\ UNCHANGED <<kernel, acc, main, counters, signals, closed, history>>

\* Any other error before the signal: logged, and the blocking read again.
ReadError ==
  /\ Running /\ ~closed /\ ~ctxDone
  /\ reader.pc = "drain"
  /\ reader' = [reader EXCEPT !.pc = "read"]
  /\ UNCHANGED <<kernel, acc, main, counters, signals, closed, history>>

\* Mutant: a retransmit does not count as a segment.
OneMoreNew(z) == IF reader.rec.retrans THEN segs ELSE [segs EXCEPT ![z] = @ + 1]

OneMore(z) == [segs EXCEPT ![z] = @ + 1]

\* Mutant: every segment counts as a retransmit.
AlwaysRetrans == [reader EXCEPT !.pc = "retrans"]

AfterSeg ==
  IF reader.rec.retrans THEN [reader EXCEPT !.pc = "retrans"]
  ELSE [pc |-> "drain", rec |-> NoRecord]

\* accumulator.record: first the segment ...
RecordSeg ==
  /\ Running
  /\ reader.pc = "process"
  /\ segs' = OneMore(reader.rec.zone)
  /\ reader' = AfterSeg
  /\ UNCHANGED <<kernel, rets, main, counters, signals, closed, history>>

\* ... then, if it is one, the retransmit.
RecordRet ==
  /\ Running
  /\ reader.pc = "retrans"
  /\ rets' = [rets EXCEPT ![reader.rec.zone] = @ + 1]
  /\ reader' = [pc |-> "drain", rec |-> NoRecord]
  /\ UNCHANGED <<kernel, segs, main, counters, signals, closed, history>>

-----------------------------------------------------------------------------
(* main: publish once, then on every tick until the signal *)

\* Mutant: the counter is loaded, not swapped.
NotReset(f, z) == f

Reset(f, z) == [f EXCEPT ![z] = 0]

\* snapshotAndReset: the segments of one zone ...
SwapSegs ==
  /\ main.pc = "segs"
  /\ counters' = [counters EXCEPT ![main.zone].seg = segs[main.zone]]
  /\ segs' = Reset(segs, main.zone)
  /\ main' = [main EXCEPT !.pc = "rets"]
  /\ UNCHANGED <<kernel, reader, rets, signals, closed, history>>

AfterRets ==
  IF main.zone < NZones THEN [pc |-> "segs", zone |-> main.zone + 1]
  ELSE [pc |-> "publish", zone |-> 1]

\* ... then its retransmits, then the next zone.
SwapRets ==
  /\ main.pc = "rets"
  /\ counters' = [counters EXCEPT ![main.zone].ret = rets[main.zone]]
  /\ rets' = Reset(rets, main.zone)
  /\ main' = AfterRets
  /\ UNCHANGED <<kernel, reader, segs, signals, closed, history>>

NewCounters == ZeroCounters

\* The rest of publish() hands the snapshot to the EMA store and the gauges.
Publish ==
  /\ main.pc = "publish"
  /\ total' = Add(total, counters)
  /\ before' = total
  /\ counters' = NewCounters
  /\ main' = [main EXCEPT !.pc = "select"]
  /\ UNCHANGED <<kernel, reader, acc, signals, closed, taken>>

\* select takes a ready case; with both ready it chooses at random.
SelectTick ==
  /\ main.pc = "select"
  /\ tick
  /\ tick' = FALSE
  /\ main' = [pc |-> "segs", zone |-> 1]
  /\ UNCHANGED <<kernel, reader, acc, counters, ctxDone, closed, history>>

\* Mutant: the signal is looked at only when no tick waits.
DoneAfterTicks == ctxDone /\ ~tick

DoneReady == ctxDone

SelectDone ==
  /\ main.pc = "select"
  /\ DoneReady
  /\ closed' = TRUE
  /\ main' = [main EXCEPT !.pc = "shutdown"]
  /\ UNCHANGED <<kernel, reader, acc, counters, signals, history>>

\* srv.Shutdown returns, at the latest after 5 s, and main ends the process.
Exit ==
  /\ main.pc = "shutdown"
  /\ main' = [main EXCEPT !.pc = "exited"]
  /\ UNCHANGED <<kernel, reader, acc, counters, signals, closed, history>>

\* time.Ticker: a tick that finds the channel full is dropped.
Tick ==
  /\ Running
  /\ ~tick
  /\ tick' = TRUE
  /\ UNCHANGED <<kernel, reader, acc, main, counters, ctxDone, closed, history>>

Signal ==
  /\ Running
  /\ ~ctxDone
  /\ ctxDone' = TRUE
  /\ UNCHANGED <<kernel, reader, acc, main, counters, tick, closed, history>>

-----------------------------------------------------------------------------

Reader == ReadInto \/ DeadlineExceeded \/ RecordSeg \/ RecordRet
Poll == SwapSegs \/ SwapRets \/ Publish

Next ==
  \/ \E c \in CPUs : (\E rec \in Record : bpf_ringbuf_reserve(c, rec)) \/ bpf_ringbuf_submit(c)
  \/ Reader \/ ReaderReturns \/ ReadError
  \/ Poll \/ SelectTick \/ SelectDone \/ Exit
  \/ Tick \/ Signal

Spec == Init /\ [][Next]_vars

\* A BPF program that reserved a record runs on to its submit; the scheduler
\* runs both goroutines; the timer keeps firing; select is not biased against
\* a case that stays ready; Shutdown has a timeout.
Fairness ==
  /\ \A c \in CPUs : WF_vars(bpf_ringbuf_submit(c))
  /\ WF_vars(Reader)
  /\ WF_vars(ReaderReturns /\ closed)
  /\ WF_vars(Poll)
  /\ WF_vars(Tick)
  /\ WF_vars(SelectTick)
  /\ SF_vars(SelectDone)
  /\ WF_vars(Exit)

FairSpec == Spec /\ Fairness

-----------------------------------------------------------------------------

\* Every variable has the type the code gives it.
TypeOK ==
  /\ ring \in Seq(Slot)
  /\ events \in Nat /\ lost \in Nat
  /\ reader \in [pc : {"read", "process", "retrans", "drain", "returned"},
                 rec : Record \union {NoRecord}]
  /\ reader.pc \in {"process", "retrans"} => reader.rec \in Record
  /\ reader.pc = "retrans" => reader.rec.retrans
  /\ segs \in [Zones -> Nat] /\ rets \in [Zones -> Nat]
  /\ main \in [pc : {"segs", "rets", "publish", "select", "shutdown", "exited"}, zone : Zones]
  /\ counters \in [Zones -> Pair]
  /\ tick \in BOOLEAN /\ ctxDone \in BOOLEAN /\ closed \in BOOLEAN
  /\ taken \in [Zones -> Pair]
  /\ total \in [Zones -> Pair]
  /\ before \in [Zones -> Pair]

\* What the reader holds and has not added to segs and rets yet.
InHand(z) ==
  [seg |-> IF reader.pc = "process" /\ reader.rec.zone = z THEN 1 ELSE 0,
   ret |-> IF reader.pc \in {"process", "retrans"} /\ reader.rec.zone = z /\ reader.rec.retrans
           THEN 1 ELSE 0]

\* No event is counted twice and none disappears between the ring and the
\* gauges, however record and snapshotAndReset interleave: what was taken from
\* the ring is in the reader's hand, in the accumulator, in the snapshot under
\* construction or published.
Conservation ==
  \A z \in Zones :
    /\ taken[z].seg = total[z].seg + counters[z].seg + segs[z] + InHand(z).seg
    /\ taken[z].ret = total[z].ret + counters[z].ret + rets[z] + InHand(z).ret

\* A retransmit is never in the program without its segment: a poll may see
\* the retransmit of an event whose segment it has missed, but the segment is
\* already in the accumulator.
RetransHasSegment ==
  \A z \in Zones :
    total[z].ret + counters[z].ret + rets[z] <= total[z].seg + counters[z].seg + segs[z]

\* The zones whose segments, and whose retransmits, the poll in progress has
\* swapped out.
SegsSwapped == {z \in Zones : \/ main.pc = "publish"
                              \/ main.pc = "rets" /\ z <= main.zone
                              \/ main.pc = "segs" /\ z < main.zone}
RetsSwapped == {z \in Zones : \/ main.pc = "publish"
                              \/ main.pc \in {"segs", "rets"} /\ z < main.zone}

\* A retransmit recorded between the two swaps of its zone is published one
\* poll before its segment.  That lead of retransmits over segments, a loss
\* above 100 percent if there is nothing else in the window, lasts one poll: what was published up to the previous poll is covered by
\* the segments published up to this one.
LeadLastsOnePoll == \A z \in Zones : before[z].ret <= total[z].seg

\* The inductive invariant behind LeadLastsOnePoll: a zone whose segments were
\* swapped out has in hand the segments of all retransmits published before,
\* and a zone that the poll has not reached contributes nothing yet.
PipelineInv ==
  /\ Conservation
  /\ RetransHasSegment
  /\ LeadLastsOnePoll
  /\ \A z \in Zones :
       /\ taken[z].ret <= taken[z].seg
       /\ z \in SegsSwapped => total[z].ret <= total[z].seg + counters[z].seg
       /\ z \notin SegsSwapped => counters[z].seg = 0
       /\ z \notin RetsSwapped => counters[z].ret = 0

\* Every event that got into the ring is published in the end, unless a
\* signal comes first: a record that is submitted while the drain loop gives
\* up is seen by the blocking read, and no tick is missed for ever.
Sum(f) == LET S[z \in 0..NZones] == IF z = 0 THEN 0 ELSE f[z].seg + S[z - 1] IN S[NZones]
EventuallyPublished ==
  \A n \in 1..MaxEvents : (events - lost >= n) ~> (ctxDone \/ Sum(total) >= n)

\* A signal ends the program: neither a stream of ticks nor one of events
\* keeps main from seeing it.
SignalEndsProgram == ctxDone ~> (main.pc = "exited")
=============================================================================
