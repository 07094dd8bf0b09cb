---------------------------- MODULE EMAStoreProofs ----------------------------
(***************************************************************************)
(* Proofs about EMAStore: the running sums are those of the window, the     *)
(* gauges hold the last window with traffic, and the average stays between  *)
(* the losses it averages, for any zones, window, counters, gaps between    *)
(* polls and weights between 0 and 1.                                       *)
(*                                                                         *)
(* The zones do not touch each other, so that all is shown of one zone with *)
(* its history, in ZoneStep.                                                *)
(***************************************************************************)
EXTENDS EMAStore, SequenceTheorems, TLAPS

Poll == [seg : Nat, ret : Nat, time : 0..MaxTime]

LEMMA CapIsPositive == instantWindowCap \in Nat \ {0}
<1>1. InstantWindow \div PollInterval \in Nat
  BY StoreAssumption
<1> QED  BY <1>1 DEF instantWindowCap

\* The window opens at most at the poll it is asked for.
LEMMA OpenedFacts ==
  ASSUME NEW n \in Nat
  PROVE  /\ Opened(n) \in 0..n
         /\ n - Opened(n) \in 0..instantWindowCap
         /\ n > 0 => Opened(n) < n
  BY CapIsPositive DEF Opened

-----------------------------------------------------------------------------
(* Positions in the ring *)

LEMMA ModUnique ==
  ASSUME NEW c \in Nat \ {0}, NEW q \in Nat, NEW r \in 0..c - 1
  PROVE  (c * q + r) % c = r
  OBVIOUS

LEMMA ModDivide ==
  ASSUME NEW c \in Nat \ {0}, NEW n \in Nat
  PROVE  \E q \in Nat, r \in 0..c - 1 : n = c * q + r /\ n % c = r
<1>1. n = c * (n \div c) + (n % c) /\ n \div c \in Nat /\ n % c \in 0..c - 1
  OBVIOUS
<1> QED  BY <1>1

\* d steps on, less than a round, the position is another one.
LEMMA ModAdd ==
  ASSUME NEW c \in Nat \ {0}, NEW n \in Nat, NEW d \in 0..c
  PROVE  (n + d) % c = IF (n % c) + d < c THEN (n % c) + d ELSE ((n % c) + d) - c
<1>1. PICK q \in Nat, r \in 0..c - 1 : n = c * q + r /\ n % c = r
  BY ModDivide
<1>2. CASE r + d < c
  <2>1. n + d = c * q + (r + d) /\ r + d \in 0..c - 1
    BY <1>1, <1>2
  <2>2. (n + d) % c = r + d
    BY <2>1, ModUnique
  <2> QED  BY <2>2, <1>1, <1>2
<1>3. CASE ~(r + d < c)
  <2>1. c * (q + 1) = c * q + c
    OBVIOUS
  <2>2. n + d = c * (q + 1) + ((r + d) - c) /\ (r + d) - c \in 0..c - 1 /\ q + 1 \in Nat
    BY <2>1, <1>1, <1>3
  <2>3. (n + d) % c = (r + d) - c
    BY <2>2, ModUnique
  <2> QED  BY <2>3, <1>1, <1>3
<1> QED  BY <1>2, <1>3

LEMMA ModNext ==
  ASSUME NEW c \in Nat \ {0}, NEW n \in Nat
  PROVE  ((n % c) + 1) % c = (n + 1) % c
<1>1. n % c \in Nat /\ n % c \in 0..c - 1 /\ 1 \in 0..c
  OBVIOUS
<1>2. (n % c) % c = n % c
  <2>1. n % c = c * 0 + (n % c)
    BY <1>1
  <2> QED  BY <2>1, <1>1, ModUnique
<1>3. (n + 1) % c = IF (n % c) + 1 < c THEN (n % c) + 1 ELSE ((n % c) + 1) - c
  BY <1>1, ModAdd
<1>4. ((n % c) + 1) % c = IF ((n % c) % c) + 1 < c THEN ((n % c) % c) + 1 ELSE (((n % c) % c) + 1) - c
  BY <1>1, ModAdd
<1> QED  BY <1>2, <1>3, <1>4, Zenon

-----------------------------------------------------------------------------
(* The history *)

LEMMA TotalTyped ==
  ASSUME NEW h \in Seq(Poll), NEW n \in 0..Len(h)
  PROVE  Total(h, n).seg \in Nat /\ Total(h, n).ret \in Nat
<1>1. CASE n = 0
  BY <1>1 DEF Total, Nothing
<1>2. CASE n # 0
  <2>1. h[n] \in Poll
    BY <1>2, ElementOfSeq
  <2> QED  BY <1>2, <2>1 DEF Total, Poll
<1> QED  BY <1>1, <1>2

\* A poll extends the history and leaves what was before.
LEMMA RecordedFacts ==
  ASSUME NEW h \in Seq(Poll), NEW delta \in Sample, NEW t \in 0..MaxTime
  PROVE  /\ Recorded(h, delta, t) \in Seq(Poll)
         /\ Len(Recorded(h, delta, t)) = Len(h) + 1
         /\ \A i \in 0..Len(h) : Total(Recorded(h, delta, t), i) = Total(h, i)
         /\ Total(Recorded(h, delta, t), Len(h) + 1).seg = Total(h, Len(h)).seg + delta.seg
         /\ Total(Recorded(h, delta, t), Len(h) + 1).ret = Total(h, Len(h)).ret + delta.ret
         /\ \A i \in 1..Len(h) : Recorded(h, delta, t)[i] = h[i]
         /\ Recorded(h, delta, t)[Len(h) + 1].time = t
<1> DEFINE e == [seg |-> Total(h, Len(h)).seg + delta.seg,
                 ret |-> Total(h, Len(h)).ret + delta.ret, time |-> t]
           g == Recorded(h, delta, t)
<1>1. Len(h) \in Nat /\ delta.seg \in Nat /\ delta.ret \in Nat
  BY LenProperties DEF Sample
<1>2. Total(h, Len(h)).seg \in Nat /\ Total(h, Len(h)).ret \in Nat
  BY <1>1, TotalTyped
<1>3. e \in Poll
  BY <1>1, <1>2 DEF Poll
<1>4. e.seg = Total(h, Len(h)).seg + delta.seg /\ e.ret = Total(h, Len(h)).ret + delta.ret /\ e.time = t
  OBVIOUS
<1>5. g = Append(h, e)
  BY Zenon DEF Recorded
<1> HIDE DEF e, g
<1>6. /\ g \in Seq(Poll) /\ Len(g) = Len(h) + 1
      /\ \A i \in 1..Len(h) : g[i] = h[i]
      /\ g[Len(h) + 1] = e
  BY <1>3, <1>5, AppendProperties
<1>7. \A i \in 0..Len(h) : Total(g, i) = Total(h, i)
  BY <1>1, <1>6 DEF Total
<1>8. Total(g, Len(h) + 1) = e
  BY <1>1, <1>6 DEF Total
<1> QED  BY <1>4, <1>6, <1>7, <1>8, Zenon DEF g

\* Windows closed before a poll stay what they were.
LEMMA OldWindows ==
  ASSUME NEW h \in Seq(Poll), NEW delta \in Sample, NEW t \in 0..MaxTime, NEW n \in 1..Len(h)
  PROVE  /\ WindowSeg(Recorded(h, delta, t), n) = WindowSeg(h, n)
         /\ Loss(Recorded(h, delta, t), n) = Loss(h, n)
<1>1. Len(h) \in Nat
  BY LenProperties
<1>2. n \in 0..Len(h) /\ Opened(n) \in 0..Len(h)
  BY <1>1, OpenedFacts
<1>3. \A i \in 0..Len(h) : Total(Recorded(h, delta, t), i) = Total(h, i)
  BY RecordedFacts, Zenon
<1>4. Total(Recorded(h, delta, t), n) = Total(h, n)
      /\ Total(Recorded(h, delta, t), Opened(n)) = Total(h, Opened(n))
  BY <1>2, <1>3, Zenon
<1> QED  BY <1>4, Zenon DEF WindowSeg, WindowRet, Loss

\* A poll adds itself to the busy ones, or nothing.
LEMMA BusyAfter ==
  ASSUME NEW h \in Seq(Poll), NEW delta \in Sample, NEW t \in 0..MaxTime,
         NEW g, g = Recorded(h, delta, t)
  PROVE  /\ WindowSeg(g, Len(h) + 1) > 0 => Busy(g) = Busy(h) \union {Len(h) + 1}
         /\ ~(WindowSeg(g, Len(h) + 1) > 0) => Busy(g) = Busy(h)
<1>1. Len(h) \in Nat /\ Len(g) = Len(h) + 1
  BY LenProperties, RecordedFacts
<1>2. \A n \in 1..Len(h) : WindowSeg(g, n) = WindowSeg(h, n)
  BY OldWindows, Zenon
<1>3. 1..Len(g) = (1..Len(h)) \union {Len(h) + 1} /\ Len(h) + 1 \notin 1..Len(h)
  BY <1>1
<1>4. Busy(g) = {n \in (1..Len(h)) \union {Len(h) + 1} : WindowSeg(g, n) > 0}
  BY <1>3, Zenon DEF Busy
<1>5. Busy(h) = {n \in 1..Len(h) : WindowSeg(h, n) > 0}
  BY Zenon DEF Busy
<1> QED  BY <1>2, <1>3, <1>4, <1>5

-----------------------------------------------------------------------------
(* The window *)

\* Slide, field by field.
LEMMA SlideFields ==
  ASSUME NEW st \in ZoneState, NEW delta \in Sample, NEW s, s = Slide(st, delta)
  PROVE  /\ s.InstantPercent = st.InstantPercent /\ s.EMAPercent = st.EMAPercent
         /\ s.LastUpdate = st.LastUpdate /\ s.LastPoll = st.LastPoll
         /\ s.window = [st.window EXCEPT ![st.windowPos] = delta]
         /\ s.windowPos = NextPos(st.windowPos)
         /\ s.windowLen = IF st.windowLen = instantWindowCap THEN st.windowLen ELSE st.windowLen + 1
         /\ s.sumSeg = (st.sumSeg - Evicted(st).seg) + delta.seg
         /\ s.sumRet = (st.sumRet - Evicted(st).ret) + delta.ret
  BY DEF Slide, ZoneState

\* What a Slide leaves alone.
LEMMA SlideKeeps ==
  ASSUME NEW st \in ZoneState, NEW delta \in Sample, NEW s, s = Slide(st, delta)
  PROVE  /\ s.InstantPercent = st.InstantPercent /\ s.EMAPercent = st.EMAPercent
         /\ s.LastUpdate = st.LastUpdate /\ s.LastPoll = st.LastPoll
  BY DEF Slide, ZoneState

\* A state whose fields have their types after a Slide is a ZoneState.
LEMMA SlideTyped ==
  ASSUME NEW st \in ZoneState, NEW delta \in Sample, NEW s, s = Slide(st, delta),
         s.window \in [0..instantWindowCap-1 -> Sample], s.windowPos \in 0..instantWindowCap-1,
         s.windowLen \in 0..instantWindowCap, s.sumSeg \in Nat, s.sumRet \in Nat
  PROVE  s \in ZoneState
  BY DEF Slide, ZoneState

\* Totals never fall.
LEMMA TotalsAfter ==
  ASSUME NEW h \in Seq(Poll), NEW delta \in Sample, NEW t \in 0..MaxTime, TotalsOf(h),
         NEW g, g = Recorded(h, delta, t)
  PROVE  TotalsOf(g)
<1>1. Len(h) \in Nat /\ Len(g) = Len(h) + 1 /\ delta.seg \in Nat /\ delta.ret \in Nat
  BY LenProperties, RecordedFacts DEF Sample
<1>2. \A i \in 0..Len(h) : Total(g, i) = Total(h, i)
  BY RecordedFacts, Zenon
<1>3. /\ Total(g, Len(h) + 1).seg = Total(h, Len(h)).seg + delta.seg
      /\ Total(g, Len(h) + 1).ret = Total(h, Len(h)).ret + delta.ret
  BY RecordedFacts, Zenon
<1>4. \A i \in 0..Len(h) : Total(h, i).seg \in Nat /\ Total(h, i).ret \in Nat
  BY TotalTyped, Zenon
<1> SUFFICES ASSUME NEW i \in 0..Len(h) + 1, NEW j \in 0..Len(h) + 1, i <= j
             PROVE  Total(g, i).seg <= Total(g, j).seg /\ Total(g, i).ret <= Total(g, j).ret
  BY <1>1 DEF TotalsOf
<1>5. CASE j <= Len(h)
  <2>1. i \in 0..Len(h) /\ j \in 0..Len(h)
    BY <1>1, <1>5
  <2> QED  BY <2>1, <1>2, Zenon DEF TotalsOf
<1>6. CASE j = Len(h) + 1 /\ i <= Len(h)
  <2>1. i \in 0..Len(h) /\ Len(h) \in 0..Len(h)
    BY <1>1, <1>6
  <2>2. Total(h, i).seg <= Total(h, Len(h)).seg /\ Total(h, i).ret <= Total(h, Len(h)).ret
    BY <2>1, <1>6, Zenon DEF TotalsOf
  <2>3. Total(g, i) = Total(h, i)
    BY <2>1, <1>2, Zenon
  <2> QED  BY <2>1, <2>2, <2>3, <1>1, <1>3, <1>4, <1>6
<1>7. CASE i = Len(h) + 1
  <2>1. j = i /\ Len(h) \in 0..Len(h)
    BY <1>1, <1>7
  <2>2. Total(g, i).seg \in Nat /\ Total(g, i).ret \in Nat
    BY <2>1, <1>1, <1>3, <1>4, <1>7
  <2> QED  BY <2>1, <2>2
<1> QED  BY <1>1, <1>5, <1>6, <1>7

\* What Evicted takes from the sums is what the poll that leaves the window
\* had found.
LEMMA EvictedFacts ==
  ASSUME NEW h \in Seq(Poll), NEW st \in ZoneState, RingOf(st, h)
  PROVE  /\ Evicted(st).seg = Total(h, Opened(Len(h) + 1)).seg - Total(h, Opened(Len(h))).seg
         /\ Evicted(st).ret = Total(h, Opened(Len(h) + 1)).ret - Total(h, Opened(Len(h))).ret
<1> DEFINE n == Len(h)
           cap == instantWindowCap
           o == Opened(n)
<1>1. n \in Nat /\ cap \in Nat \ {0} /\ o \in 0..n
  BY LenProperties, CapIsPositive, OpenedFacts
<1>2. Total(h, o).seg \in Nat /\ Total(h, o).ret \in Nat
  BY <1>1, TotalTyped
<1>3. CASE n < cap
  <2>1. Opened(n + 1) = 0 /\ o = 0
    BY <1>1, <1>3 DEF Opened
  <2>2. st.windowLen # cap
    BY <2>1, <1>1, <1>3 DEF RingOf
  <2>3. Evicted(st) = Nothing
    BY <2>2, Zenon DEF Evicted
  <2>4. Total(h, Opened(n + 1)) = Nothing /\ Total(h, o) = Nothing
    BY <2>1, Zenon DEF Total
  <2> QED  BY <2>3, <2>4 DEF Nothing
<1>4. CASE n >= cap
  <2>1. o = n - cap /\ Opened(n + 1) = o + 1
    BY <1>1, <1>4 DEF Opened
  <2>2. st.windowLen = cap
    BY <2>1, <1>1 DEF RingOf
  <2>3. st.windowPos = ((o + 1) - 1) % cap
    <3>1. st.windowPos = n % cap
      BY Zenon DEF RingOf
    <3>2. n % cap = (n - cap) % cap
      <4>1. n - cap \in Nat /\ cap \in 0..cap /\ (n - cap) + cap = n /\ (n - cap) % cap \in 0..cap - 1
        BY <1>1, <1>4
      <4>2. n % cap = IF ((n - cap) % cap) + cap < cap THEN ((n - cap) % cap) + cap
                      ELSE (((n - cap) % cap) + cap) - cap
        BY <4>1, <1>1, ModAdd
      <4> QED  BY <4>1, <4>2, <1>1
    <3> QED  BY <3>1, <3>2, <2>1, <1>1
  <2>4. o + 1 \in (o + 1)..n /\ (o + 1) - 1 = o
    BY <2>1, <1>1, <1>4
  <2>5. Evicted(st) = st.window[((o + 1) - 1) % cap]
    BY <2>2, <2>3, Zenon DEF Evicted
  <2>6. /\ st.window[((o + 1) - 1) % cap].seg = Total(h, o + 1).seg - Total(h, (o + 1) - 1).seg
        /\ st.window[((o + 1) - 1) % cap].ret = Total(h, o + 1).ret - Total(h, (o + 1) - 1).ret
    BY <2>4, Zenon DEF RingOf
  <2>7. Opened(Len(h) + 1) = o + 1
    BY <2>1, Zenon
  <2> QED  BY <2>4, <2>5, <2>6, <2>7, Zenon
<1> QED  BY <1>1, <1>3, <1>4

\* The ring and its sums after a poll.
LEMMA SlideStep ==
  ASSUME NEW h, NEW st, NEW t0, ZoneInv(st, h, t0), NEW delta \in Sample, NEW t \in 0..MaxTime,
         NEW s, s = Slide(st, delta), NEW g, g = Recorded(h, delta, t)
  PROVE  s \in ZoneState /\ RingOf(s, g) /\ SumsOf(s, g)
<1> DEFINE n == Len(h)
           cap == instantWindowCap
           o == Opened(n)
           p == Opened(n + 1)
<1>1. /\ st \in ZoneState /\ h \in Seq(Poll) /\ TotalsOf(h) /\ RingOf(st, h) /\ SumsOf(st, h)
  BY Zenon DEF ZoneInv, TypesOf, Poll
<1>2. /\ n \in Nat /\ cap \in Nat \ {0} /\ o \in 0..n /\ p \in 0..n + 1 /\ p < n + 1
      /\ Len(g) = n + 1 /\ delta.seg \in Nat /\ delta.ret \in Nat
  BY <1>1, LenProperties, CapIsPositive, OpenedFacts, RecordedFacts DEF Sample
<1>3. p \in 0..n /\ p >= o
  BY <1>2 DEF Opened
<1>4. \A i \in 0..n : Total(h, i).seg \in Nat /\ Total(h, i).ret \in Nat /\ Total(g, i) = Total(h, i)
  BY <1>1, TotalTyped, RecordedFacts, Zenon
<1>5. /\ Total(g, n + 1).seg = Total(h, n).seg + delta.seg
      /\ Total(g, n + 1).ret = Total(h, n).ret + delta.ret
  BY <1>1, RecordedFacts, Zenon
<1>6. /\ s.window = [st.window EXCEPT ![st.windowPos] = delta]
      /\ s.windowPos = NextPos(st.windowPos)
      /\ s.windowLen = IF st.windowLen = cap THEN st.windowLen ELSE st.windowLen + 1
      /\ s.sumSeg = (st.sumSeg - Evicted(st).seg) + delta.seg
      /\ s.sumRet = (st.sumRet - Evicted(st).ret) + delta.ret
  BY <1>1, SlideFields
<1>7. /\ st.windowPos = n % cap /\ st.windowLen = n - o
      /\ st.windowPos \in 0..cap - 1 /\ st.window \in [0..cap - 1 -> Sample]
  BY <1>1 DEF RingOf, ZoneState
\* The sums.
<1>8. s.sumSeg = Total(g, n + 1).seg - Total(g, p).seg
  <2>1. st.sumSeg = Total(h, n).seg - Total(h, o).seg
    BY <1>1, Zenon DEF SumsOf, WindowSeg
  <2>2. Evicted(st).seg = Total(h, p).seg - Total(h, o).seg
    BY <1>1, EvictedFacts, Zenon
  <2>3. Total(h, n).seg \in Nat /\ Total(h, o).seg \in Nat /\ Total(h, p).seg \in Nat /\ Total(g, p) = Total(h, p)
    BY <1>2, <1>3, <1>4
  <2> HIDE DEF p, o
  <2> QED  BY <2>1, <2>2, <2>3, <1>2, <1>5, <1>6
<1>9. s.sumRet = Total(g, n + 1).ret - Total(g, p).ret
  <2>1. st.sumRet = Total(h, n).ret - Total(h, o).ret
    BY <1>1, Zenon DEF SumsOf, WindowRet
  <2>2. Evicted(st).ret = Total(h, p).ret - Total(h, o).ret
    BY <1>1, EvictedFacts, Zenon
  <2>3. Total(h, n).ret \in Nat /\ Total(h, o).ret \in Nat /\ Total(h, p).ret \in Nat /\ Total(g, p) = Total(h, p)
    BY <1>2, <1>3, <1>4
  <2> HIDE DEF p, o
  <2> QED  BY <2>1, <2>2, <2>3, <1>2, <1>5, <1>6
<1>10. SumsOf(s, g)
  BY <1>2, <1>8, <1>9, Zenon DEF SumsOf, WindowSeg, WindowRet
<1>11. s.sumSeg \in Nat /\ s.sumRet \in Nat
  <2>1. Total(h, p).seg <= Total(h, n).seg /\ Total(h, p).ret <= Total(h, n).ret
    BY <1>1, <1>2, <1>3 DEF TotalsOf
  <2>2. /\ Total(h, n).seg \in Nat /\ Total(h, n).ret \in Nat /\ Total(h, p).seg \in Nat
        /\ Total(h, p).ret \in Nat /\ Total(g, p) = Total(h, p)
    BY <1>2, <1>3, <1>4
  <2> HIDE DEF p, n
  <2>3. s.sumSeg \in Nat
    BY <2>1, <2>2, <1>2, <1>5, <1>8
  <2>4. s.sumRet \in Nat
    BY <2>1, <2>2, <1>2, <1>5, <1>9
  <2> QED  BY <2>3, <2>4
\* The positions.
<1>12. s.windowPos = (n + 1) % cap /\ s.windowPos \in 0..cap - 1
  <2>1. ((n % cap) + 1) % cap = (n + 1) % cap
    BY <1>2, ModNext
  <2>2. (n + 1) % cap \in 0..cap - 1
    BY <1>2
  <2> QED  BY <2>1, <2>2, <1>6, <1>7, Zenon DEF NextPos
<1>13. s.windowLen = (n + 1) - p /\ s.windowLen \in 0..cap
  <2>1. CASE n < cap
    <3>1. o = 0 /\ p = 0
      BY <2>1, <1>2 DEF Opened
    <3> HIDE DEF o, p, n, cap
    <3>2. st.windowLen = n /\ s.windowLen = n + 1
      BY <2>1, <3>1, <1>2, <1>6, <1>7
    <3> QED  BY <2>1, <3>1, <3>2, <1>2
  <2>2. CASE ~(n < cap)
    <3>1. o = n - cap /\ p = (n + 1) - cap
      BY <2>2, <1>2 DEF Opened
    <3> HIDE DEF o, p, n, cap
    <3>2. st.windowLen = cap /\ s.windowLen = cap
      BY <2>2, <3>1, <1>2, <1>6, <1>7
    <3> QED  BY <2>2, <3>1, <3>2, <1>2
  <2> QED  BY <2>1, <2>2
<1>14. s.window \in [0..cap - 1 -> Sample]
  BY <1>6, <1>7
<1>15. s \in ZoneState
  BY <1>1, <1>11, <1>12, <1>13, <1>14, SlideTyped
\* The slots.
<1>16. ASSUME NEW i \in (p + 1)..n + 1
       PROVE  /\ s.window[(i - 1) % cap].seg = Total(g, i).seg - Total(g, i - 1).seg
              /\ s.window[(i - 1) % cap].ret = Total(g, i).ret - Total(g, i - 1).ret
  <2> HIDE DEF n, cap
  <2>0. i \in Nat /\ i - 1 \in 0..n /\ i <= n + 1 /\ i > p
    BY <1>2
  <2>1. CASE i = n + 1
    <3>1. i - 1 = n /\ (i - 1) % cap = st.windowPos
      BY <2>1, <1>2, <1>7
    <3>2. s.window[(i - 1) % cap] = delta
      BY <3>1, <1>6, <1>7
    <3>3. Total(g, i - 1) = Total(h, n) /\ Total(h, n).seg \in Nat /\ Total(h, n).ret \in Nat
      BY <3>1, <1>2, <1>4
    <3> QED  BY <2>1, <3>1, <3>2, <3>3, <1>2, <1>5
  <2>2. CASE i <= n
    <3>1. i \in (o + 1)..n /\ i \in 0..n
      BY <2>0, <2>2, <1>2, <1>3
    <3>2. (n + 1) - i < cap /\ (n + 1) - i > 0
      BY <2>0, <2>2, <1>2 DEF Opened, cap
    <3>3. (i - 1) % cap # n % cap /\ (i - 1) % cap \in 0..cap - 1
      <4>1. n - (i - 1) \in 1..cap - 1 /\ i - 1 \in Nat
        BY <2>0, <3>2, <1>2
      <4>2. (i - 1) % cap \in 0..cap - 1
        BY <4>1, <1>2
      <4>3. (i - 1) + (n - (i - 1)) = n /\ n - (i - 1) \in 0..cap
        BY <4>1, <1>2
      <4>4. n % cap = IF ((i - 1) % cap) + (n - (i - 1)) < cap THEN ((i - 1) % cap) + (n - (i - 1))
                      ELSE (((i - 1) % cap) + (n - (i - 1))) - cap
        BY <4>1, <4>3, <1>2, ModAdd
      <4> QED  BY <4>1, <4>2, <4>4, <1>2
    <3>4. s.window[(i - 1) % cap] = st.window[(i - 1) % cap]
      BY <3>3, <1>6, <1>7
    <3>5. /\ st.window[(i - 1) % cap].seg = Total(h, i).seg - Total(h, i - 1).seg
          /\ st.window[(i - 1) % cap].ret = Total(h, i).ret - Total(h, i - 1).ret
      BY <3>1, <1>1, Zenon DEF RingOf, n, cap
    <3>6. Total(g, i) = Total(h, i) /\ Total(g, i - 1) = Total(h, i - 1)
      BY <2>0, <3>1, <1>4, Zenon
    <3> QED  BY <3>4, <3>5, <3>6, Zenon
  <2> QED  BY <2>0, <2>1, <2>2, <1>2
<1>17. RingOf(s, g)
  <2> HIDE DEF p
  <2>1. \A i \in (Opened(Len(g)) + 1)..Len(g) :
          /\ s.window[(i - 1) % instantWindowCap].seg = Total(g, i).seg - Total(g, i - 1).seg
          /\ s.window[(i - 1) % instantWindowCap].ret = Total(g, i).ret - Total(g, i - 1).ret
    BY <1>2, <1>16, Zenon DEF p
  <2>2. s.windowPos = Len(g) % instantWindowCap /\ s.windowLen = Len(g) - Opened(Len(g))
    BY <1>2, <1>12, <1>13, Zenon DEF p
  <2> QED  BY <2>1, <2>2, Zenon DEF RingOf
<1> QED  BY <1>10, <1>15, <1>17

-----------------------------------------------------------------------------
(* The percents *)

\* A weighted average lies between what it averages, rounded or not.
LEMMA AverageBetween ==
  ASSUME NEW old \in Nat, NEW new \in Nat, NEW w \in 0..Unit
  PROVE  LET v == new + ((old - new) * w) \div Unit
         IN  /\ v \in Nat
             /\ old <= new => old <= v /\ v <= new
             /\ new <= old => new <= v /\ v <= old
<1> DEFINE x == old - new
           q == (x * w) \div Unit
<1>1. Unit \in Nat \ {0} /\ x \in Int /\ w \in Nat /\ w <= Unit
  BY StoreAssumption
<1> HIDE DEF x
<1>2. x * w \in Int
  BY <1>1
<1>3. q \in Int /\ Unit * q <= x * w /\ x * w < Unit * q + Unit
  BY <1>1, <1>2
<1> HIDE DEF q
<1>4. CASE x >= 0
  <2>1. x * w >= 0 /\ x * w <= Unit * x
    BY <1>1, <1>4
  <2>2. q >= 0
    BY <2>1, <1>1, <1>3
  <2>3. q <= x
    BY <2>1, <1>1, <1>3
  <2> QED  BY <2>2, <2>3, <1>3, <1>4 DEF x, q
<1>5. CASE x < 0
  <2>1. x * w <= 0 /\ x * w >= Unit * x
    BY <1>1, <1>5
  <2>2. q <= 0
    BY <2>1, <1>1, <1>3
  <2>3. q >= x
    BY <2>1, <1>1, <1>3
  <2> QED  BY <2>2, <2>3, <1>3, <1>5 DEF x, q
<1> QED  BY <1>1, <1>4, <1>5

\* Where Exact holds the average is not rounded: instant is a multiple of Unit
\* and the old average one of Weight[t], so that the division of Smooth leaves
\* no remainder and the new average is a multiple of Weight[t + dt].
LEMMA AverageIsExact ==
  ASSUME NEW n \in Nat, Exact(n), NEW t \in 0..MaxTime, NEW dt \in 0..MaxTime, t + dt <= MaxTime,
         NEW k \in Nat, NEW m \in Nat
  PROVE  /\ ((k * Weight[t] - m * Unit) * Weight[dt]) % Unit = 0
         /\ \E j \in Int :
              m * Unit + ((k * Weight[t] - m * Unit) * Weight[dt]) \div Unit = j * Weight[t + dt]
<1> DEFINE u == Unit  a == Weight[t]  b == Weight[dt]  c == Weight[t + dt]
<1>1. /\ u \in Nat \ {0} /\ a \in Nat \ {0} /\ b \in Nat \ {0} /\ c \in Nat \ {0}
      /\ a * b = u * c /\ u % a = 0 /\ u % c = 0
  <2>1. t + dt \in 0..MaxTime /\ u \in Nat \ {0} /\ Weight \in [0..MaxTime -> 0..Unit]
    BY StoreAssumption
  <2>2. \A x, y \in 0..MaxTime : x + y <= MaxTime => Weight[x] * Weight[y] = Unit * Weight[x + y]
    BY Zenon DEF Exact
  <2>3. \A x \in 0..MaxTime : Weight[x] > 0 /\ Unit % Weight[x] = 0
    BY Zenon DEF Exact
  <2>4. a * b = u * c
    BY <2>2, Zenon
  <2>5. a > 0 /\ b > 0 /\ c > 0 /\ u % a = 0 /\ u % c = 0
    BY <2>1, <2>3, Zenon
  <2>6. a \in Nat /\ b \in Nat /\ c \in Nat
    <3>1. \A x \in 0..MaxTime : Weight[x] \in 0..Unit
      BY <2>1, Zenon
    <3>2. a \in 0..Unit /\ b \in 0..Unit /\ c \in 0..Unit
      BY <2>1, <3>1, Zenon
    <3> HIDE DEF a, b, c
    <3> QED  BY <3>2
  <2> HIDE DEF u, a, b, c
  <2> QED  BY <2>1, <2>4, <2>5, <2>6
<1> HIDE DEF u, a, b, c
<1>2. PICK r \in Nat : u = a * r
  BY <1>1
<1>3. PICK q \in Nat : u = c * q
  BY <1>1
<1>4. b = r * c
  <2>1. a * b = a * (r * c)
    BY <1>1, <1>2
  <2> QED  BY <2>1, <1>1
<1>5. (k * a - m * u) * b = u * (k * c - m * b)
  <2>1. (k * a) * b = u * (k * c)
    BY <1>1
  <2> QED  BY <2>1, <1>1
<1>6. PICK y \in Int : y = k * c - m * b
  BY <1>1
<1>7. (u * y) % u = 0 /\ (u * y) \div u = y
  BY <1>1
<1>8. m * u + y = (m * q + k - m * r) * c
  BY <1>1, <1>3, <1>4, <1>6
<1>9. m * q + k - m * r \in Int
  OBVIOUS
<1> QED  BY <1>5, <1>6, <1>7, <1>8, <1>9 DEF u, a, b, c

\* The loss of a window with traffic.
LEMMA LossTyped ==
  ASSUME NEW seg \in Nat \ {0}, NEW ret \in Nat
  PROVE  (Hundred * ret) \div seg \in Nat
<1>1. Hundred \in Nat
  BY StoreAssumption DEF Hundred, Scale
<1>2. Hundred * ret \in Nat
  BY <1>1
<1> QED  BY <1>2

-----------------------------------------------------------------------------
(* The invariant *)

LEMMA ZoneStep ==
  ASSUME NEW h, NEW st, NEW t0 \in Nat, ZoneInv(st, h, t0), NEW delta \in Sample,
         NEW t \in 0..MaxTime, t0 < t
  PROVE  /\ ZoneInv(UpdateZone(st, delta, t), Recorded(h, delta, t), t)
         /\ UpdateZone(st, delta, t).EMAPercent = Averaged(Recorded(h, delta, t), st.EMAPercent)
<1> DEFINE n == Len(h)
<1>1. PICK s : s = Slide(st, delta)
  OBVIOUS
<1>2. PICK g : g = Recorded(h, delta, t)
  OBVIOUS
<1>3. PICK u : u = [Average(s, t) EXCEPT !.LastPoll = t]
  OBVIOUS
<1>4. PICK instant : instant = (Hundred * s.sumRet) \div s.sumSeg
  OBVIOUS
<1>5. UpdateZone(st, delta, t) = u
  BY <1>1, <1>3, Zenon DEF UpdateZone
<1>6. /\ st \in ZoneState /\ h \in Seq(Poll) /\ TotalsOf(h) /\ HeldOf(st, h) /\ WithinOf(st, h)
      /\ st.LastUpdate # IsZero => st.LastPoll \in 0..t0
      /\ PolledOf(st, h)
  BY Zenon DEF ZoneInv, TypesOf, Poll
<1>7. n \in Nat /\ g \in Seq(Poll) /\ Len(g) = n + 1 /\ g[n + 1].time = t /\ t \in Nat /\ MaxTime \in Nat
  <2>1. n \in Nat
    BY <1>6, LenProperties
  <2>2. g \in Seq(Poll) /\ Len(g) = n + 1 /\ g[n + 1].time = t
    BY <1>2, <1>6, RecordedFacts, Zenon
  <2>3. t \in Nat /\ MaxTime \in Nat
    BY StoreAssumption
  <2> QED  BY <2>1, <2>2, <2>3, Zenon
<1>8. TotalsOf(g)
  BY <1>2, <1>6, TotalsAfter, Zenon
<1>9. s \in ZoneState /\ RingOf(s, g) /\ SumsOf(s, g)
  BY <1>1, <1>2, SlideStep
<1>10. /\ s.InstantPercent = st.InstantPercent /\ s.EMAPercent = st.EMAPercent
       /\ s.LastUpdate = st.LastUpdate /\ s.LastPoll = st.LastPoll
  <2>1. st \in ZoneState
    BY <1>6, Zenon
  <2> QED  BY <1>1, <2>1, SlideKeeps, Zenon
<1>11. s.sumSeg \in Nat /\ s.sumRet \in Nat /\ s.EMAPercent \in Nat
  BY <1>9 DEF ZoneState
<1>12. s.sumSeg = WindowSeg(g, n + 1) /\ s.sumRet = WindowRet(g, n + 1)
  BY <1>7, <1>9, Zenon DEF SumsOf
<1>13. instant = Loss(g, n + 1)
  BY <1>4, <1>12, Zenon DEF Loss
<1>14. s.sumSeg > 0 => instant \in Nat
  BY <1>4, <1>11, LossTyped
<1>15. /\ s.sumSeg > 0 => Busy(g) = Busy(h) \union {n + 1}
       /\ ~(s.sumSeg > 0) => Busy(g) = Busy(h)
  <2>1. /\ WindowSeg(g, n + 1) > 0 => Busy(g) = Busy(h) \union {n + 1}
        /\ ~(WindowSeg(g, n + 1) > 0) => Busy(g) = Busy(h)
    BY <1>2, <1>6, BusyAfter
  <2> QED  BY <2>1, <1>12, Zenon
<1>16. \A m \in Busy(h) : m \in 1..n /\ Loss(g, m) = Loss(h, m) /\ g[m] = h[m]
  <2>1. \A m \in Busy(h) : m \in 1..n
    BY Zenon DEF Busy
  <2>2. \A m \in 1..n : Loss(g, m) = Loss(h, m)
    BY <1>2, <1>6, OldWindows, Zenon
  <2>3. \A m \in 1..n : g[m] = h[m]
    BY <1>2, <1>6, RecordedFacts, Zenon
  <2> QED  BY <2>1, <2>2, <2>3, Zenon
\* The zone has had an update if and only if some window held traffic.
<1>17. Busy(h) # {} => s.LastUpdate # IsZero
  <2> SUFFICES ASSUME Busy(h) # {} PROVE s.LastUpdate # IsZero
    OBVIOUS
  <2>1. PICK m \in Busy(h) : st.LastUpdate = h[m].time
    BY <1>6, Zenon DEF HeldOf
  <2>2. h[m] \in Poll
    BY <1>6, <1>7, <1>16, ElementOfSeq
  <2>3. h[m].time \in Nat
    BY <2>2, StoreAssumption DEF Poll
  <2>4. \A k \in Nat : k # IsZero
    BY DEF IsZero
  <2> QED  BY <2>1, <2>3, <2>4, <1>10, Zenon
<1>18. Busy(h) = {} => s.LastUpdate = IsZero
  BY <1>6, <1>10, Zenon DEF HeldOf
\* The new average, if there is one, lies between the old one and the loss of
\* the new window, and is that loss the first time.
<1>19. ASSUME s.sumSeg > 0
       PROVE  /\ NewEMA(s, instant, t) \in Nat
              /\ Busy(h) = {} => NewEMA(s, instant, t) = instant
              /\ s.EMAPercent <= instant =>
                   NewEMA(s, instant, t) <= instant /\ (Busy(h) # {} => s.EMAPercent <= NewEMA(s, instant, t))
              /\ instant <= s.EMAPercent =>
                   instant <= NewEMA(s, instant, t) /\ (Busy(h) # {} => NewEMA(s, instant, t) <= s.EMAPercent)
  <2>1. CASE Busy(h) = {}
    <3>1. NewEMA(s, instant, t) = instant
      BY <2>1, <1>18, Zenon DEF NewEMA
    <3> QED  BY <2>1, <3>1, <1>14, <1>19, <1>11
  <2>2. CASE Busy(h) # {}
    <3>1. s.LastPoll \in 0..t0
      BY <2>2, <1>6, <1>10, <1>17, Zenon
    <3>2. s.LastPoll # IsZero /\ t - s.LastPoll \in 0..MaxTime
      BY <3>1, <1>7 DEF IsZero
    <3>3. PICK w : w = Weight[t - s.LastPoll]
      OBVIOUS
    <3>4. w \in 0..Unit
      BY <3>2, <3>3, StoreAssumption
    <3>5. NewEMA(s, instant, t) = instant + ((s.EMAPercent - instant) * w) \div Unit
      BY <2>2, <3>2, <3>3, <1>17, Zenon DEF NewEMA, Smooth
    <3> QED  BY <2>2, <3>4, <3>5, <1>11, <1>14, <1>19, AverageBetween
  <2> QED  BY <2>1, <2>2
<1>20. /\ u \in ZoneState /\ u.LastPoll = t
       /\ u.window = s.window /\ u.windowPos = s.windowPos /\ u.windowLen = s.windowLen
       /\ u.sumSeg = s.sumSeg /\ u.sumRet = s.sumRet
       /\ s.sumSeg > 0 => /\ u.InstantPercent = instant
                          /\ u.EMAPercent = NewEMA(s, instant, t)
                          /\ u.LastUpdate = t
       /\ ~(s.sumSeg > 0) => /\ u.InstantPercent = s.InstantPercent
                             /\ u.EMAPercent = s.EMAPercent
                             /\ u.LastUpdate = s.LastUpdate
  <2>1. CASE s.sumSeg > 0
    <3>1. PICK ema : ema = NewEMA(s, instant, t)
      OBVIOUS
    <3>2. u = [[s EXCEPT !.InstantPercent = instant, !.EMAPercent = ema, !.LastUpdate = t] EXCEPT !.LastPoll = t]
      BY <2>1, <3>1, <1>3, <1>4, Zenon DEF Average
    <3>3. ema \in Nat /\ instant \in Nat
      BY <2>1, <3>1, <1>14, <1>19
    <3>4. u \in ZoneState
      BY <3>2, <3>3, <1>7, <1>9 DEF ZoneState
    <3>5. /\ u.LastPoll = t
          /\ u.window = s.window /\ u.windowPos = s.windowPos /\ u.windowLen = s.windowLen
          /\ u.sumSeg = s.sumSeg /\ u.sumRet = s.sumRet
          /\ u.InstantPercent = instant /\ u.EMAPercent = ema /\ u.LastUpdate = t
      BY <3>2, <1>9 DEF ZoneState
    <3> QED  BY <2>1, <3>1, <3>4, <3>5, Zenon
  <2>2. CASE ~(s.sumSeg > 0)
    <3>1. u = [s EXCEPT !.LastPoll = t]
      BY <2>2, <1>3, Zenon DEF Average, Hold
    <3>2. u \in ZoneState
      BY <3>1, <1>7, <1>9 DEF ZoneState
    <3>3. /\ u.LastPoll = t
          /\ u.window = s.window /\ u.windowPos = s.windowPos /\ u.windowLen = s.windowLen
          /\ u.sumSeg = s.sumSeg /\ u.sumRet = s.sumRet
          /\ u.InstantPercent = s.InstantPercent /\ u.EMAPercent = s.EMAPercent
          /\ u.LastUpdate = s.LastUpdate
      BY <3>1, <1>9 DEF ZoneState
    <3> QED  BY <2>2, <3>2, <3>3, Zenon
  <2> QED  BY <2>1, <2>2
<1>21. TypesOf(u, g, t)
  BY <1>7, <1>20 DEF TypesOf, Poll
<1>22. RingOf(u, g) /\ SumsOf(u, g)
  BY <1>9, <1>20, Zenon DEF RingOf, SumsOf
<1>23. HeldOf(u, g)
  <2>1. CASE s.sumSeg > 0
    <3>1. \A m \in Busy(g) : m <= n + 1
      BY <2>1, <1>7, <1>15, <1>16
    <3>2. n + 1 \in Busy(g)
      BY <2>1, <1>15, Zenon
    <3>3. u.InstantPercent = Loss(g, n + 1) /\ u.LastUpdate = g[n + 1].time
      BY <2>1, <1>7, <1>13, <1>20, Zenon
    <3> QED  BY <3>1, <3>2, <3>3, Zenon DEF HeldOf
  <2>2. CASE ~(s.sumSeg > 0)
    <3>1. u.InstantPercent = st.InstantPercent /\ u.LastUpdate = st.LastUpdate /\ Busy(g) = Busy(h)
      BY <2>2, <1>10, <1>15, <1>20, Zenon
    <3>2. CASE Busy(h) = {}
      BY <3>1, <3>2, <1>6, Zenon DEF HeldOf
    <3>3. CASE Busy(h) # {}
      <4>1. PICK m \in Busy(h) : /\ \A k \in Busy(h) : k <= m
                                 /\ st.InstantPercent = Loss(h, m)
                                 /\ st.LastUpdate = h[m].time
        BY <3>3, <1>6, Zenon DEF HeldOf
      <4>2. Loss(g, m) = Loss(h, m) /\ g[m] = h[m]
        BY <1>16, Zenon
      <4> QED  BY <3>1, <3>3, <4>1, <4>2, Zenon DEF HeldOf
    <3> QED  BY <3>2, <3>3
  <2> QED  BY <2>1, <2>2
<1>24. WithinOf(u, g)
  <2>1. CASE s.sumSeg > 0 /\ Busy(h) = {}
    <3>1. u.EMAPercent = Loss(g, n + 1) /\ n + 1 \in Busy(g) /\ Loss(g, n + 1) \in Nat
      BY <2>1, <1>13, <1>14, <1>15, <1>19, <1>20
    <3>2. Loss(g, n + 1) <= u.EMAPercent /\ u.EMAPercent <= Loss(g, n + 1)
      BY <3>1
    <3> QED  BY <3>1, <3>2, Zenon DEF WithinOf
  <2>2. ASSUME Busy(h) # {}
        PROVE  \E low, high \in Busy(h) : Loss(g, low) <= s.EMAPercent /\ s.EMAPercent <= Loss(g, high)
    BY <2>2, <1>6, <1>10, <1>16, Zenon DEF WithinOf
  <2>3. CASE s.sumSeg > 0 /\ Busy(h) # {}
    <3>1. PICK low \in Busy(h), high \in Busy(h) : Loss(g, low) <= s.EMAPercent /\ s.EMAPercent <= Loss(g, high)
      BY <2>2, <2>3
    <3>2. low \in Busy(g) /\ high \in Busy(g) /\ n + 1 \in Busy(g)
      BY <2>3, <1>15, Zenon
    <3>3. Loss(g, low) \in Int /\ Loss(g, high) \in Int
      <4>1. \A m \in Busy(g) : Loss(g, m) \in Int
        <5> SUFFICES ASSUME NEW m \in Busy(g) PROVE Loss(g, m) \in Int
          OBVIOUS
        <5>1. m \in 1..Len(g) /\ WindowSeg(g, m) > 0 /\ m \in Nat
          BY DEF Busy
        <5>2. m \in 0..Len(g) /\ Opened(m) \in 0..Len(g)
          <6>1. Opened(m) \in 0..m
            BY <5>1, OpenedFacts
          <6>2. Len(g) \in Nat
            BY <1>7, LenProperties
          <6> QED  BY <6>1, <6>2, <5>1
        <5>3. WindowSeg(g, m) \in Int /\ WindowRet(g, m) \in Int
          BY <5>2, <1>7, TotalTyped DEF WindowSeg, WindowRet
        <5>4. Hundred \in Int
          BY StoreAssumption DEF Hundred, Scale
        <5>5. Hundred * WindowRet(g, m) \in Int
          BY <5>3, <5>4
        <5> QED  BY <5>1, <5>3, <5>5 DEF Loss
      <4> QED  BY <4>1, <3>2
    <3>4. u.EMAPercent = NewEMA(s, instant, t) /\ instant \in Nat /\ u.EMAPercent \in Nat
      BY <2>3, <1>14, <1>19, <1>20
    <3>5. CASE s.EMAPercent <= instant
      <4>1. s.EMAPercent <= u.EMAPercent /\ u.EMAPercent <= instant
        BY <2>3, <3>4, <3>5, <1>19, Zenon
      <4>2. Loss(g, low) <= u.EMAPercent /\ u.EMAPercent <= Loss(g, n + 1)
        BY <4>1, <3>1, <3>3, <3>4, <1>11, <1>13
      <4> QED  BY <3>2, <4>2, Zenon DEF WithinOf
    <3>6. CASE instant <= s.EMAPercent
      <4>1. instant <= u.EMAPercent /\ u.EMAPercent <= s.EMAPercent
        BY <2>3, <3>4, <3>6, <1>19, Zenon
      <4>2. Loss(g, n + 1) <= u.EMAPercent /\ u.EMAPercent <= Loss(g, high)
        BY <4>1, <3>1, <3>3, <3>4, <1>11, <1>13
      <4> QED  BY <3>2, <4>2, Zenon DEF WithinOf
    <3> QED  BY <3>4, <3>5, <3>6, <1>11
  <2>4. CASE ~(s.sumSeg > 0)
    <3>1. u.EMAPercent = s.EMAPercent /\ Busy(g) = Busy(h)
      BY <2>4, <1>15, <1>20, Zenon
    <3> QED  BY <2>2, <3>1, Zenon DEF WithinOf
  <2> QED  BY <2>1, <2>3, <2>4
<1>25. PolledOf(u, g)
  BY <1>7, <1>20 DEF PolledOf
<1>26. u.EMAPercent = Averaged(g, st.EMAPercent)
  <2>1. CASE ~(s.sumSeg > 0)
    <3>1. n + 1 \notin Busy(h)
      BY <1>7, <1>16
    <3>2. Len(g) \notin Busy(g)
      BY <2>1, <3>1, <1>7, <1>15
    <3> QED  BY <2>1, <3>2, <1>10, <1>20, Zenon DEF Averaged
  <2>2. CASE s.sumSeg > 0 /\ Busy(h) = {}
    <3>1. Busy(g) = {Len(g)}
      BY <2>2, <1>7, <1>15
    <3>2. u.EMAPercent = Loss(g, Len(g))
      BY <2>2, <1>7, <1>13, <1>19, <1>20, Zenon
    <3> QED  BY <3>1, <3>2, Zenon DEF Averaged
  <2>3. CASE s.sumSeg > 0 /\ Busy(h) # {}
    <3>1. PICK m \in Busy(h) : m \in 1..n
      BY <2>3, <1>16
    <3>2. n > 0 /\ n \in 1..n /\ Len(g) - 1 = n
      BY <3>1, <1>7
    <3>3. s.LastPoll = g[Len(g) - 1].time
      <4>1. g[n] = h[n]
        BY <3>2, <1>2, <1>6, RecordedFacts, Zenon
      <4>2. st.LastPoll = h[n].time
        BY <3>2, <1>6, Zenon DEF PolledOf
      <4> QED  BY <3>2, <4>1, <4>2, <1>10, Zenon
    <3>4. Len(g) \in Busy(g) /\ Busy(g) # {Len(g)}
      BY <2>3, <3>1, <1>7, <1>15
    <3>5. s.LastPoll # IsZero
      BY <2>3, <1>6, <1>10, <1>17 DEF IsZero
    <3>6. NewEMA(s, instant, t) = instant + ((s.EMAPercent - instant) * Weight[t - s.LastPoll]) \div Unit
      BY <2>3, <3>5, <1>17, Zenon DEF NewEMA, Smooth
    <3>7. u.EMAPercent = Loss(g, Len(g))
              + ((st.EMAPercent - Loss(g, Len(g))) * Weight[g[Len(g)].time - g[Len(g) - 1].time]) \div Unit
      <4>1. g[Len(g)].time = t /\ instant = Loss(g, Len(g))
        BY <1>7, <1>13, Zenon
      <4> QED  BY <2>3, <3>3, <3>6, <4>1, <1>10, <1>20, Zenon
    <3> QED  BY <3>4, <3>7, Zenon DEF Averaged
  <2> QED  BY <2>1, <2>2, <2>3
<1> QED  BY <1>2, <1>5, <1>8, <1>21, <1>22, <1>23, <1>24, <1>25, <1>26, Zenon DEF ZoneInv

LEMMA StoreInit == Init => StoreInv
<1> SUFFICES ASSUME Init PROVE StoreInv
  OBVIOUS
<1>1. now \in 0..MaxTime /\ now \in Nat
  BY StoreAssumption DEF Init
<1>2. zones = [z \in Zones |-> zones[z]] /\ polls = [z \in Zones |-> polls[z]]
  BY DEF Init, NewEMAStore
<1>3. ASSUME NEW z \in Zones PROVE ZoneInv(zones[z], polls[z], now)
  <2> DEFINE st == [InstantPercent |-> 0, EMAPercent |-> 0,
                    LastUpdate |-> IsZero, LastPoll |-> IsZero,
                    window |-> [i \in 0..instantWindowCap-1 |-> Nothing],
                    windowPos |-> 0, windowLen |-> 0, sumSeg |-> 0, sumRet |-> 0]
  <2>1. zones[z] = st /\ polls[z] = <<>>
    BY DEF Init, NewEMAStore
  <2>2. instantWindowCap \in Nat \ {0}
    BY CapIsPositive
  <2>3. Nothing \in Sample
    BY DEF Nothing, Sample
  <2>4. [i \in 0..instantWindowCap-1 |-> Nothing] \in [0..instantWindowCap-1 -> Sample]
    BY <2>3
  <2>5. st \in ZoneState
    BY <2>2, <2>4 DEF ZoneState
  <2>6. st.LastUpdate = IsZero /\ st.InstantPercent = 0 /\ st.windowPos = 0 /\ st.windowLen = 0
        /\ st.sumSeg = 0 /\ st.sumRet = 0
    OBVIOUS
  <2> HIDE DEF st
  <2>7. Len(<<>>) = 0 /\ Opened(0) = 0 /\ Total(<<>>, 0) = Nothing
    BY <2>2 DEF Opened, Total
  <2>8. TypesOf(st, <<>>, now)
    BY <2>5, <2>6, EmptySeq DEF TypesOf
  <2>9. TotalsOf(<<>>)
    BY <2>7 DEF TotalsOf, Nothing
  <2>10. RingOf(st, <<>>)
    BY <2>2, <2>6, <2>7 DEF RingOf
  <2>11. SumsOf(st, <<>>)
    BY <2>6, <2>7 DEF SumsOf, WindowSeg, WindowRet, Nothing
  <2>12. Busy(<<>>) = {}
    BY <2>7 DEF Busy
  <2>13. HeldOf(st, <<>>) /\ WithinOf(st, <<>>)
    BY <2>6, <2>12, Zenon DEF HeldOf, WithinOf
  <2>14. PolledOf(st, <<>>)
    BY <2>7 DEF PolledOf
  <2> QED  BY <2>1, <2>8, <2>9, <2>10, <2>11, <2>13, <2>14, Zenon DEF ZoneInv
<1> QED  BY <1>1, <1>2, <1>3, Zenon DEF StoreInv

\* What one poll does to a zone.
LEMMA PollStep ==
  ASSUME StoreInv, NEW gap \in Gaps, NEW counters \in [Zones -> Deltas], Update(gap, counters)
  PROVE  /\ now' \in 0..MaxTime
         /\ zones' = [z \in Zones |-> zones'[z]] /\ polls' = [z \in Zones |-> polls'[z]]
         /\ \A z \in Zones : /\ ZoneInv(zones'[z], polls'[z], now')
                             /\ zones'[z].EMAPercent = Averaged(polls'[z], zones[z].EMAPercent)
<1>1. /\ now + gap <= MaxTime /\ now' = now + gap
      /\ zones' = [z \in Zones |-> UpdateZone(zones[z], counters[z], now + gap)]
      /\ polls' = [z \in Zones |-> Recorded(polls[z], counters[z], now + gap)]
  BY Zenon DEF Update
<1>2. now \in Nat /\ gap \in Nat \ {0} /\ MaxTime \in Nat
  BY StoreAssumption DEF StoreInv
<1>3. now' \in 0..MaxTime /\ now < now'
  BY <1>1, <1>2
<1>4. zones' = [z \in Zones |-> zones'[z]] /\ polls' = [z \in Zones |-> polls'[z]]
  BY <1>1
<1>5. ASSUME NEW z \in Zones
      PROVE  /\ ZoneInv(zones'[z], polls'[z], now')
             /\ zones'[z].EMAPercent = Averaged(polls'[z], zones[z].EMAPercent)
  <2>1. counters[z] \in Sample
    BY StoreAssumption DEF Sample
  <2>2. /\ zones'[z] = UpdateZone(zones[z], counters[z], now')
        /\ polls'[z] = Recorded(polls[z], counters[z], now')
    BY <1>1
  <2>3. ZoneInv(zones[z], polls[z], now)
    BY DEF StoreInv
  <2>4. PICK st, h, delta, t : st = zones[z] /\ h = polls[z] /\ delta = counters[z] /\ t = now'
    OBVIOUS
  <2>5. /\ ZoneInv(UpdateZone(st, delta, t), Recorded(h, delta, t), t)
        /\ UpdateZone(st, delta, t).EMAPercent = Averaged(Recorded(h, delta, t), st.EMAPercent)
    BY <1>2, <1>3, <2>1, <2>3, <2>4, ZoneStep
  <2> QED  BY <2>2, <2>4, <2>5, Zenon
<1> QED  BY <1>3, <1>4, <1>5, Zenon

LEMMA StoreStep == StoreInv /\ [Next]_vars => StoreInv'
<1> SUFFICES ASSUME StoreInv, [Next]_vars PROVE StoreInv'
  OBVIOUS
<1>1. ASSUME NEW gap \in Gaps, NEW counters \in [Zones -> Deltas], Update(gap, counters)
      PROVE  StoreInv'
  BY <1>1, PollStep, Zenon DEF StoreInv
<1>2. CASE UNCHANGED vars
  BY <1>2, Zenon DEF vars, StoreInv
<1> QED  BY <1>1, <1>2 DEF Next

-----------------------------------------------------------------------------

\* Every zone keeps its types, its totals and its ring: the slots, the position
\* and the sums of Update agree with what the polls have found.
THEOREM StoreInvariant == Spec => []StoreInv
  BY StoreInit, StoreStep, PTL DEF Spec

\* Update of ema.go: windowPos stays inside the ring, and neither the sums nor
\* the percents fall below zero.
THEOREM StoreIsTyped == Spec => []TypeOK
<1>1. StoreInv => TypeOK
  BY DEF StoreInv, ZoneInv, TypesOf, ZoneState, TypeOK
<1> QED  BY <1>1, StoreInvariant, PTL

\* Update of ema.go: sumSeg and sumRet are the sums over the window and never
\* underflow.
THEOREM SumsAreOfTheWindow == Spec => []WindowSums
<1>1. StoreInv => WindowSums
  BY Zenon DEF StoreInv, ZoneInv, WindowSums
<1> QED  BY <1>1, StoreInvariant, PTL

\* Update of ema.go: a zone without traffic holds the loss and the time of the
\* last window that had some.
THEOREM QuietZonesHold == Spec => []HeldFromLastTraffic
<1>1. StoreInv => HeldFromLastTraffic
  BY Zenon DEF StoreInv, ZoneInv, HeldFromLastTraffic
<1> QED  BY <1>1, StoreInvariant, PTL

\* Update of ema.go: whatever weight Alpha gives the time between two polls,
\* EMAPercent lies between losses that windows have shown.
THEOREM AverageStaysWithin == Spec => []EMAWithinObserved
<1>1. StoreInv => EMAWithinObserved
  BY Zenon DEF StoreInv, ZoneInv, EMAWithinObserved
<1> QED  BY <1>1, StoreInvariant, PTL

\* Update of ema.go: EMAPercent is the weighted average of the losses of the
\* windows with traffic, whose weights count the time since the last poll and
\* no silence; it is held while the window is empty.
THEOREM AverageIsOfThePolls == Spec => AverageFollowsPolls
<1>1. StoreInv /\ [Next]_vars =>
        [\A z \in Zones : zones'[z].EMAPercent = Averaged(polls'[z], zones[z].EMAPercent)]_vars
  <2> SUFFICES ASSUME StoreInv, Next
               PROVE  \A z \in Zones : zones'[z].EMAPercent = Averaged(polls'[z], zones[z].EMAPercent)
    OBVIOUS
  <2>1. PICK gap \in Gaps, counters \in [Zones -> Deltas] : Update(gap, counters)
    BY DEF Next
  <2> QED  BY <2>1, PollStep
<1> QED  BY <1>1, StoreInvariant, PTL DEF Spec, AverageFollowsPolls
=============================================================================
