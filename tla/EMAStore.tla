------------------------------- MODULE EMAStore -------------------------------
(***************************************************************************)
(* The per-zone statistics of internal/metrics/ema.go: a ring of the last   *)
(* windowCap polls with running sums, the loss percent of that window, and  *)
(* its exponential moving average.                                          *)
(*                                                                         *)
(* Percents are integers in units of 100 / Scale percent, where Scale has   *)
(* every window sum and the unit of the weights as a divisor.  They are     *)
(* exact where Exact holds, as in the instance that is model-checked: there *)
(* the time unit is EMAHalfLife * ln 2, so that the weight of the old       *)
(* average, 1 - Alpha(dt) = exp(-dt / EMAHalfLife), is 2^-dt.               *)
(***************************************************************************)
EXTENDS Integers, Sequences

CONSTANTS Zones,         \* destination zones
          PollInterval,  \* cfg.PollInterval
          InstantWindow, \* cfg.InstantWindow
          Deltas,        \* what one poll may find, records [seg, ret]
          Gaps,          \* time from one poll to the next
          Weight, Unit,  \* 1 - Alpha(dt) is Weight[dt] / Unit
          SumMultiple,   \* a common multiple of all possible window sums
          MaxTime        \* bound on the clock

ASSUME StoreAssumption ==
  /\ PollInterval \in Nat \ {0} /\ InstantWindow \in Nat
  /\ Deltas \subseteq [seg : Nat, ret : Nat]
  /\ Gaps \subseteq Nat \ {0}
  /\ Unit \in Nat \ {0} /\ Weight \in [0..MaxTime -> 0..Unit]
  /\ SumMultiple \in Nat \ {0} /\ MaxTime \in Nat

VARIABLES now,   \* time of the last poll
          zones, \* EMAStore.zones
          polls  \* history: all found up to each poll, and its time, by zone

vars == <<now, zones, polls>>

Scale == SumMultiple * Unit
Hundred == Scale
IsZero == -1 \* the zero time.Time

instantWindowCap ==
  IF InstantWindow \div PollInterval < 1 THEN 1 ELSE InstantWindow \div PollInterval

\* What makes the model's integers the code's real numbers: the weights of two
\* gaps multiply to that of the two together, as exp does, and no division
\* leaves a remainder (n bounds the segments of one poll).
Exact(n) ==
  /\ \A a, b \in 0..MaxTime : a + b <= MaxTime => Weight[a] * Weight[b] = Unit * Weight[a + b]
  /\ \A a \in 0..MaxTime : Weight[a] > 0 /\ Unit % Weight[a] = 0
  /\ \A sum \in 1..n * instantWindowCap : SumMultiple % sum = 0

Nothing == [seg |-> 0, ret |-> 0]

\* make([]sample, cap); positions count from 0 as in the code
NewEMAStore ==
  [z \in Zones |->
    [InstantPercent |-> 0, EMAPercent |-> 0,
     LastUpdate |-> IsZero, LastPoll |-> IsZero,
     window |-> [i \in 0..instantWindowCap-1 |-> Nothing],
     windowPos |-> 0, windowLen |-> 0, sumSeg |-> 0, sumRet |-> 0]]

Init ==
  /\ now = 0
  /\ zones = NewEMAStore
  /\ polls = [z \in Zones |-> <<>>]

-----------------------------------------------------------------------------

\* Mutant: the position wraps one slot late.
NextPosLate(pos) == (pos + 1) % (instantWindowCap + 1)

NextPos(pos) == (pos + 1) % instantWindowCap

\* Mutant: the sample that leaves the window stays in the sums.
NothingEvicted(state) == Nothing

\* What leaves the sums: the sample at windowPos once the ring is full.
Evicted(state) ==
  IF state.windowLen = instantWindowCap THEN state.window[state.windowPos] ELSE Nothing

Slide(state, delta) ==
  [state EXCEPT
     !.window[state.windowPos] = delta,
     !.windowLen = IF @ = instantWindowCap THEN @ ELSE @ + 1,
     !.sumSeg = @ - Evicted(state).seg + delta.seg,
     !.sumRet = @ - Evicted(state).ret + delta.ret,
     !.windowPos = NextPos(@)]

\* Mutant: dt counts from the last poll that updated the average.
SmoothSinceUpdate(state, instant, t) ==
  instant + ((state.EMAPercent - instant) * Weight[t - state.LastUpdate]) \div Unit

\* alpha * instant + (1 - alpha) * ema; dt is the time since the last poll,
\* whether or not that poll updated the average
Smooth(state, instant, t) ==
  LET dt == IF state.LastPoll = IsZero THEN PollInterval ELSE t - state.LastPoll
  IN  instant + ((state.EMAPercent - instant) * Weight[dt]) \div Unit

\* Mutant: the average starts at zero.
NewEMAFromZero(state, instant, t) == Smooth(state, instant, t)

NewEMA(state, instant, t) ==
  IF state.LastUpdate = IsZero THEN instant ELSE Smooth(state, instant, t)

\* Mutant: a quiet poll refreshes the timestamp.
StampQuiet(state, t) == [state EXCEPT !.LastUpdate = t]

\* An empty window leaves the percents and the timestamp alone.
Hold(state, t) == state

Average(state, t) ==
  LET instant == (Hundred * state.sumRet) \div state.sumSeg
  IN  IF state.sumSeg > 0
      THEN [state EXCEPT !.InstantPercent = instant,
                         !.EMAPercent = NewEMA(state, instant, t),
                         !.LastUpdate = t]
      ELSE Hold(state, t)

UpdateZone(state, delta, t) ==
  [Average(Slide(state, delta), t) EXCEPT !.LastPoll = t]

\* All that was found up to the n-th poll of a history.
Total(h, n) == IF n = 0 THEN Nothing ELSE h[n]

\* A poll in the history of a zone.
Recorded(h, delta, t) ==
  Append(h, [seg |-> Total(h, Len(h)).seg + delta.seg,
             ret |-> Total(h, Len(h)).ret + delta.ret, time |-> t])

\* One poll: every zone gets what its counters found since the last one.
Update(gap, counters) ==
  /\ now + gap <= MaxTime
  /\ now' = now + gap
  /\ zones' = [z \in Zones |-> UpdateZone(zones[z], counters[z], now + gap)]
  /\ polls' = [z \in Zones |-> Recorded(polls[z], counters[z], now + gap)]

Next == \E gap \in Gaps, counters \in [Zones -> Deltas] : Update(gap, counters)

Spec == Init /\ [][Next]_vars

-----------------------------------------------------------------------------
(* Reference definitions over the history h of a zone's polls *)

\* What the polls that the window covers after the n-th one have found: all
\* that was found so far less what had been found windowCap polls before.
Opened(n) == IF n > instantWindowCap THEN n - instantWindowCap ELSE 0
WindowSeg(h, n) == Total(h, n).seg - Total(h, Opened(n)).seg
WindowRet(h, n) == Total(h, n).ret - Total(h, Opened(n)).ret

\* The polls after which the window held traffic, and the loss they showed.
Busy(h) == {n \in 1..Len(h) : WindowSeg(h, n) > 0}
Loss(h, n) == (Hundred * WindowRet(h, n)) \div WindowSeg(h, n)

\* Every variable has its type: the position stays inside the ring, and the
\* sums, unsigned in the code, never fall below zero.
TypeOK ==
  /\ now \in 0..MaxTime
  /\ \A z \in Zones :
       /\ zones[z].windowPos \in 0..instantWindowCap-1
       /\ zones[z].windowLen \in 0..instantWindowCap
       /\ zones[z].sumSeg \in Nat /\ zones[z].sumRet \in Nat
       /\ zones[z].InstantPercent \in Nat /\ zones[z].EMAPercent \in Nat

\* WindowSums, of one zone.
SumsOf(state, h) ==
  /\ state.sumSeg = WindowSeg(h, Len(h))
  /\ state.sumRet = WindowRet(h, Len(h))

\* The running sums are the sums of the last windowCap polls, or of all polls
\* while there are fewer: what wraps around leaves exactly once, so the
\* unsigned sums never underflow.
WindowSums == \A z \in Zones : SumsOf(zones[z], polls[z])

\* What the last poll of h makes of the average: it starts at the loss of the
\* first window with traffic, moves towards the loss of every later one by the
\* weight of the time since the poll before, and is held by an empty one.
Averaged(h, ema) ==
  LET n == Len(h)
  IN  IF n \notin Busy(h) THEN ema
      ELSE IF Busy(h) = {n} THEN Loss(h, n)
      ELSE Loss(h, n) + ((ema - Loss(h, n)) * Weight[h[n].time - h[n - 1].time]) \div Unit

\* HeldFromLastTraffic, of one zone.
HeldOf(state, h) ==
  IF Busy(h) = {} THEN state.LastUpdate = IsZero /\ state.InstantPercent = 0
  ELSE \E n \in Busy(h) :
         /\ \A m \in Busy(h) : m <= n
         /\ state.InstantPercent = Loss(h, n)
         /\ state.LastUpdate = h[n].time

\* ebpf_packet_loss_percent is the loss of the last window that held traffic
\* and the update timestamp is the time of the poll that closed it, however
\* long the zone has been quiet since.
HeldFromLastTraffic == \A z \in Zones : HeldOf(zones[z], polls[z])

\* ebpf_packet_loss_ema_percent is the average of the history of the polls,
\* whatever a poll finds and however late it comes: it starts at the first
\* loss, moves with every poll whose window has traffic, an empty poll too, and
\* stays while the window is empty.  A silence does not count against it: the
\* first poll after one weighs by the time since the poll before.
AverageFollowsPolls ==
  [][\A z \in Zones : zones'[z].EMAPercent = Averaged(polls'[z], zones[z].EMAPercent)]_vars

\* EMAWithinObserved, of one zone.
WithinOf(state, h) ==
  Busy(h) # {} =>
    \E low, high \in Busy(h) :
      Loss(h, low) <= state.EMAPercent /\ state.EMAPercent <= Loss(h, high)

\* The average never leaves the range of the window losses it averages,
\* whatever the gaps between polls: it starts at the first one, not at zero.
EMAWithinObserved == \A z \in Zones : WithinOf(zones[z], polls[z])

-----------------------------------------------------------------------------
(* What EMAStoreProofs needs besides *)

Sample == [seg : Nat, ret : Nat]

ZoneState ==
  [InstantPercent : Nat, EMAPercent : Nat, LastUpdate : Nat \union {IsZero}, LastPoll : Nat \union {IsZero},
   window : [0..instantWindowCap-1 -> Sample], windowPos : 0..instantWindowCap-1,
   windowLen : 0..instantWindowCap, sumSeg : Nat, sumRet : Nat]

TypesOf(state, h, t) ==
  /\ state \in ZoneState /\ h \in Seq([seg : Nat, ret : Nat, time : 0..MaxTime])
  /\ state.LastUpdate # IsZero => state.LastPoll \in 0..t

PolledOf(state, h) == Len(h) > 0 => state.LastPoll = h[Len(h)].time

\* Totals do not fall.
TotalsOf(h) ==
  \A i, j \in 0..Len(h) :
    i <= j => Total(h, i).seg <= Total(h, j).seg /\ Total(h, i).ret <= Total(h, j).ret

\* The n-th poll went to slot (n - 1) % windowCap, where it is until windowCap
\* more polls have come, and windowPos is the slot of the next.
RingOf(state, h) ==
  /\ state.windowPos = Len(h) % instantWindowCap
  /\ state.windowLen = Len(h) - Opened(Len(h))
  /\ \A i \in (Opened(Len(h)) + 1)..Len(h) :
       LET slot == state.window[(i - 1) % instantWindowCap]
       IN  /\ slot.seg = Total(h, i).seg - Total(h, i - 1).seg
           /\ slot.ret = Total(h, i).ret - Total(h, i - 1).ret

ZoneInv(state, h, t) ==
  /\ TypesOf(state, h, t) /\ PolledOf(state, h) /\ TotalsOf(h) /\ RingOf(state, h)
  /\ SumsOf(state, h) /\ HeldOf(state, h) /\ WithinOf(state, h)

StoreInv ==
  /\ now \in 0..MaxTime
  /\ zones = [z \in Zones |-> zones[z]] /\ polls = [z \in Zones |-> polls[z]]
  /\ \A z \in Zones : ZoneInv(zones[z], polls[z], now)
=============================================================================
