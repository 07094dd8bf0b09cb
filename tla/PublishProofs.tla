---------------------------- MODULE PublishProofs ----------------------------
(***************************************************************************)
(* Proofs about what a tick publishes: the summary log (TickSummary) and    *)
(* the gauges (Exporter).                                                   *)
(*                                                                         *)
(* The log: whoever reads it knows the present body, no line is printed     *)
(* without cause, silence is explained and traffic that a failed reading    *)
(* hides is shown by the next reading, for any zones, observations,         *)
(* heartbeat and breakdown intervals, and number of ticks.                  *)
(*                                                                         *)
(* The gauges: what a scrape returns is no older than the last poll that    *)
(* was published when it began, and timestamps persist, for any zones,      *)
(* percents, and number of polls and scrapes.                               *)
(***************************************************************************)
EXTENDS TickSummary, Exporter, TLAPS

LEMMA SummaryInit == Init => SummaryInv
<1> SUFFICES ASSUME Init PROVE SummaryInv
  OBVIOUS
<1> USE DEF Init
<1>1. TypeOK
  <2>1. /\ tick \in 0..MaxTick /\ lastSummaryTick \in 0..tick /\ zeroPolls \in 0..tick
        /\ quiet \in 0..tick
    BY SummaryAssumption, SMT
  <2>2. told \in BOOLEAN /\ hidden \in BOOLEAN /\ unknown \in {0, 1}
    BY Zenon
  <2>3. fresh \in [tcp : BOOLEAN, zoned : BOOLEAN]
    BY DEF NothingFresh
  <2> QED  BY <2>1, <2>2, <2>3, Zenon DEF TypeOK
<1>2. MemoryInv /\ EmptyInv /\ HiddenInv
  BY DEF MemoryInv, EmptyInv, HiddenInv
<1>3. LogIsCurrent
  BY SummaryAssumption DEF LogIsCurrent
<1>4. SilenceExplained /\ HiddenTrafficShows
  BY DEF SilenceExplained, HiddenTrafficShows
<1> QED  BY <1>1, <1>2, <1>3, <1>4 DEF SummaryInv

\* A tick keeps the invariant.
LEMMA SummaryTick ==
  ASSUME SummaryInv,
         NEW obs \in [Zones -> ZoneTicks], NEW tcp \in BOOLEAN, NEW zoned \in BOOLEAN,
         NEW ok \in BOOLEAN, NEW unk \in {0, 1}, unknown + unk <= 1, publish(obs, tcp, zoned, ok, unk)
  PROVE  /\ SummaryInv'
         /\ logged'.line => shown' # shown \/ quiet = summaryHeartbeatTicks - 1
\* What the tick reads and formats, as publish names it.
<1> DEFINE newTCP == fresh.tcp \/ tcp
           newZoned == fresh.zoned \/ zoned
           empty == ~(\E z \in Zones : obs[z].seg > 0) /\ ~newTCP
           text == formatTickSummary(obs, ok /\ newTCP, ok /\ newZoned, unknown + unk)
           line == ~Silent(text, tick + 1)
<1>0. text.warn = Warning(ok /\ newTCP, ok /\ newZoned)
  BY DEF formatTickSummary
<1>1. /\ line \in BOOLEAN /\ empty \in BOOLEAN
      /\ newTCP = (fresh.tcp \/ tcp) /\ newZoned = (fresh.zoned \/ zoned)
      /\ line = ~Silent(text, tick + 1)
      /\ empty => ~newTCP
      /\ text.warn = Warning(ok /\ newTCP, ok /\ newZoned)
      /\ tick < MaxTick /\ tick' = tick + 1
      /\ unknown' = unknown + unk
      /\ fresh' = IF ok THEN NothingFresh ELSE [tcp |-> newTCP, zoned |-> newZoned]
      /\ zeroPolls' = IF ~ok THEN zeroPolls ELSE IF empty THEN zeroPolls + 1 ELSE 0
      /\ prevSummaryBody' = IF line THEN text ELSE prevSummaryBody
      /\ lastSummaryTick' = IF line THEN tick + 1 ELSE lastSummaryTick
      /\ body' = text
      /\ shown' = IF line THEN text ELSE shown
      /\ quiet' = IF line THEN 0 ELSE quiet + 1
      /\ told' = ((ok /\ empty /\ BreakdownDue(zeroPolls + 1)) \/ (told /\ ~(ok /\ ~empty)))
      /\ hidden' = ((hidden \/ tcp) /\ text.warn = "no-tcp")
      /\ logged' = [line |-> line, silent |-> ok /\ empty, read |-> ok]
  BY <1>0, Zenon DEF publish, PrevKept, ZeroPollsReset
<1> HIDE DEF newTCP, newZoned, empty, text, line
<1>2. /\ tick \in 0..MaxTick /\ lastSummaryTick \in 0..tick /\ zeroPolls \in 0..tick
      /\ quiet \in 0..tick /\ told \in BOOLEAN /\ hidden \in BOOLEAN
      /\ fresh.tcp \in BOOLEAN /\ fresh.zoned \in BOOLEAN /\ unknown \in {0, 1}
      /\ newTCP \in BOOLEAN /\ newZoned \in BOOLEAN
  BY <1>1 DEF SummaryInv, TypeOK
<1>3. /\ prevSummaryBody = shown /\ quiet = tick - lastSummaryTick /\ quiet < summaryHeartbeatTicks
      /\ MaxTick \in Nat /\ summaryHeartbeatTicks \in Nat \ {0}
  BY SummaryAssumption DEF SummaryInv, MemoryInv, LogIsCurrent
<1>4. TypeOK'
  <2>1. /\ tick' \in 0..MaxTick /\ lastSummaryTick' \in 0..tick' /\ zeroPolls' \in 0..tick'
        /\ quiet' \in 0..tick'
    BY <1>1, <1>2, <1>3, SMT
  <2>2. told' \in BOOLEAN /\ hidden' \in BOOLEAN
    BY <1>1, Zenon
  <2>3. fresh' \in [tcp : BOOLEAN, zoned : BOOLEAN]
    BY <1>1, <1>2 DEF NothingFresh
  <2>4. unknown' \in {0, 1}
    BY <1>1, <1>2, SMT
  <2> QED  BY <2>1, <2>2, <2>3, <2>4, Zenon DEF TypeOK
<1>5. MemoryInv'
  BY <1>1, <1>2, <1>3, SMT DEF MemoryInv
\* A line that is not printed has the body of the last one, and the heartbeat
\* is not due.
<1>6. LogIsCurrent'
  <2>1. CASE line
    BY <2>1, <1>1, <1>3 DEF LogIsCurrent
  <2>2. CASE ~line
    <3>0. Silent(text, tick + 1)
      BY <2>2, <1>1, Zenon
    <3>1. text = prevSummaryBody /\ (tick + 1) - lastSummaryTick < summaryHeartbeatTicks
      BY <3>0, Zenon DEF Silent
    <3>2. shown' = body'
      BY <2>2, <3>1, <1>1, <1>3, Zenon
    <3>3. quiet' < summaryHeartbeatTicks
      BY <2>2, <3>1, <1>1, <1>2, <1>3, SMT
    <3> QED  BY <3>2, <3>3 DEF LogIsCurrent
  <2> QED  BY <2>1, <2>2
\* The first empty poll has its breakdown.
<1>7. EmptyInv'
  <2>1. CASE ok /\ empty /\ zeroPolls = 0
    <3>1. BreakdownDue(zeroPolls + 1)
      BY <2>1, SMT DEF BreakdownDue
    <3> QED  BY <2>1, <3>1, <1>1, Zenon DEF EmptyInv
  <2>2. CASE ok /\ empty /\ zeroPolls # 0
    <3>1. told
      BY <2>2, <1>2, SMT DEF SummaryInv, EmptyInv
    <3> QED  BY <2>2, <3>1, <1>1, Zenon DEF EmptyInv
  <2>3. CASE ok /\ ~empty
    <3>1. zeroPolls' = 0
      BY <2>3, <1>1, Zenon
    <3> QED  BY <3>1, SMT DEF EmptyInv
  <2>4. CASE ~ok
    <3>1. zeroPolls' = zeroPolls /\ told' = told
      BY <2>4, <1>1, <1>2, Zenon
    <3> QED  BY <3>1, Zenon DEF SummaryInv, EmptyInv
  <2> QED  BY <2>1, <2>2, <2>3, <2>4, <1>1, Zenon
<1>8. SilenceExplained'
  <2>1. SUFFICES ASSUME ok /\ empty PROVE told'
    BY <1>1, Zenon DEF SilenceExplained
  <2>2. EmptyInv' /\ zeroPolls' > 0
    BY <2>1, <1>1, <1>2, <1>7, SMT
  <2> QED  BY <2>2, Zenon DEF EmptyInv
\* A reading that succeeds shows all traffic not yet read.
<1>9. ok => ~hidden'
  <2>1. (hidden \/ tcp) => newTCP
    BY <1>1, Zenon DEF SummaryInv, HiddenInv
  <2>2. ok /\ newTCP => text.warn # "no-tcp"
    BY <1>1 DEF Warning
  <2> QED  BY <2>1, <2>2, <1>1, Zenon
<1>10. HiddenTrafficShows'
  BY <1>1, <1>9, Zenon DEF HiddenTrafficShows
<1>11. HiddenInv'
  <2>1. SUFFICES ASSUME ~ok, hidden' PROVE fresh'.tcp
    BY <1>1, <1>9, Zenon DEF HiddenInv
  <2>2. newTCP
    BY <2>1, <1>1, Zenon DEF SummaryInv, HiddenInv
  <2> QED  BY <2>1, <2>2, <1>1, Zenon
<1>12. logged'.line => shown' # shown \/ quiet = summaryHeartbeatTicks - 1
  <2>1. logged'.line = line
    BY <1>1, Zenon
  <2> QED  BY <2>1, <1>1, <1>2, <1>3, SMT DEF Silent
<1> QED
  BY <1>4, <1>5, <1>6, <1>7, <1>8, <1>10, <1>11, <1>12, Zenon DEF SummaryInv

LEMMA SummaryStep == SummaryInv /\ [Next]_vars => SummaryInv'
<1> SUFFICES ASSUME SummaryInv, [Next]_vars PROVE SummaryInv'
  OBVIOUS
<1>1. CASE Next
  BY <1>1, SummaryTick, Zenon DEF Next
<1>2. CASE UNCHANGED vars
  BY <1>2, Zenon
  DEF vars, state, history, SummaryInv, TypeOK, MemoryInv, EmptyInv, HiddenInv, LogIsCurrent,
      SilenceExplained, HiddenTrafficShows
<1> QED  BY <1>1, <1>2

\* The counters, flags and ticks of main's poll loop keep their types, and its
\* memory of the last line, the run of empty polls and the readings not yet
\* shown agree with what the log has.
THEOREM SummaryInvariant == Spec => []SummaryInv
  BY SummaryInit, SummaryStep, PTL DEF Spec

\* emitTickSummary: the last line of the log has the present body, and is less
\* than summaryHeartbeatTicks ticks old.
THEOREM TheLogIsCurrent == Spec => []LogIsCurrent
<1>1. SummaryInv => LogIsCurrent
  BY DEF SummaryInv
<1> QED  BY <1>1, SummaryInvariant, PTL

\* emitTickSummary: a line that repeats the one before comes only when the
\* heartbeat is due.
THEOREM NoIdleLines == Spec => LineOnChangeOrHeartbeat
<1>1. SummaryInv /\ [Next]_vars
        => [logged'.line => shown' # shown \/ quiet = summaryHeartbeatTicks - 1]_vars
  BY SummaryTick, Zenon DEF Next
<1> QED  BY <1>1, SummaryInvariant, PTL DEF Spec, LineOnChangeOrHeartbeat

\* publish: a poll that read no traffic has had its breakdown of drop reasons.
THEOREM SilenceIsExplained == Spec => []SilenceExplained
<1>1. SummaryInv => SilenceExplained
  BY DEF SummaryInv
<1> QED  BY <1>1, SummaryInvariant, PTL

\* publish: traffic that readings which failed have hidden is shown by the
\* next one that succeeds.
THEOREM HiddenTrafficIsShown == Spec => []HiddenTrafficShows
<1>1. SummaryInv => HiddenTrafficShows
  BY DEF SummaryInv
<1> QED  BY <1>1, SummaryInvariant, PTL

-----------------------------------------------------------------------------
(* Exporter: the gauges of a poll, and the scrapes that read them *)

\* The first gauge of any zone that is left.
LEMMA ZoneStarts ==
  ASSUME NEW zones \in SUBSET ZoneNumbers, NEW p \in ZoneOf(zones)
  PROVE  /\ p \in Position /\ p.pc = "set" /\ p.vector = "percent"
         /\ p.left \union {p.zone} = zones
<1>1. PICK z \in zones : p = [pc |-> "set", zone |-> z, left |-> zones \ {z}, vector |-> "percent"]
  BY DEF ZoneOf
<1>2. p.pc = "set" /\ p.zone = z /\ p.left = zones \ {z} /\ p.vector = "percent"
  BY <1>1
<1>3. p \in Position
  BY <1>1, <1>2 DEF Position, Vectors
<1> QED  BY <1>2, <1>3

LEMMA ExporterInit == ExportInit => ExporterInv
<1> SUFFICES ASSUME ExportInit PROVE ExporterInv
  OBVIOUS
<1>1. NZones \in Nat \ {0} /\ MaxPolls \in Nat /\ MaxScrapes \in Nat /\ 1 \in ZoneNumbers
  BY ExporterAssumption DEF ZoneNumbers
<1>2. /\ states = <<>> /\ Len(states) = 0 /\ done = 0 /\ scrapes = 0
      /\ pub = Waiting
      /\ gauges = NoSeries /\ scrape = NoScrape /\ scraped = NothingScraped
      /\ before = NoSeries["emaTimestamp"]
  BY DEF ExportInit, NewExporter
<1>3. NoSeries \in Found /\ \A v \in Vectors, z \in ZoneNumbers : NoSeries[v][z] = -1
  BY DEF NoSeries, Found, Absent
<1>4. "emaTimestamp" \in Vectors /\ "percent" \in Vectors
  BY DEF Vectors
<1>5. /\ scrape = [pc |-> "idle", from |-> 0, todo |-> {}, found |-> NoSeries]
      /\ scraped = [from |-> 0, to |-> 0, found |-> NoSeries]
  BY <1>2 DEF NoScrape, NothingScraped
<1>6. ExportTypeOK
  <2>1. before \in [ZoneNumbers -> Int]
    BY <1>2, <1>3, <1>4 DEF Found
  <2>2. states \in Seq([ZoneNumbers -> ZoneState]) /\ done \in 0..Len(states) /\ Len(states) <= MaxPolls
    BY <1>1, <1>2
  <2>3. scrape \in [pc : {"idle", "gather"}, from : Nat, todo : SUBSET Items, found : Found]
    BY <1>3, <1>5
  <2>4. scraped \in [from : Nat, to : Nat, found : Found]
    BY <1>3, <1>5
  <2>5. pub \in Position
    BY <1>1, <1>2, <1>4 DEF Waiting, Position
  <2> QED  BY <1>1, <1>2, <1>3, <2>1, <2>2, <2>3, <2>4, <2>5 DEF ExportTypeOK
<1>7. PollInv
  BY <1>2 DEF PollInv, Waiting
<1>8. \A v \in Vectors, z \in ZoneNumbers : Shows(0, v, z) = {-1, 0}
  BY DEF Shows, Absent
<1>9. GaugeInv
  <2>1. \A v \in Vectors, z \in ZoneNumbers : LastPoll(v, z) = 0
    BY <1>2 DEF LastPoll, Passed, Waiting
  <2> QED  BY <1>2, <1>3, <1>8, <2>1 DEF GaugeInv
<1>10. GatherInv
  BY <1>5 DEF GatherInv
<1>11. TimestampInv /\ TimestampPersists
  BY <1>2, <1>3, <1>4, <1>5 DEF TimestampInv, TimestampPersists
<1>12. scraped.to <= Len(states) /\ ScrapeIsRecent
  <2>1. 0 \in 0..0
    OBVIOUS
  <2>2. \A v \in Vectors, z \in ZoneNumbers : -1 \in Visible(0, 0, v, z)
    BY <1>8, <2>1 DEF Visible
  <2> QED  BY <1>2, <1>3, <1>5, <2>2 DEF ScrapeIsRecent
<1> QED  BY <1>6, <1>7, <1>9, <1>10, <1>11, <1>12 DEF ExporterInv

\* A value is a natural number, and what has none is told from it.
LEMMA ShowsTyped ==
  ASSUME ExportTypeOK, NEW p \in 0..Len(states), NEW v \in Vectors, NEW z \in ZoneNumbers
  PROVE  /\ Shows(p, v, z) \subseteq Int
         /\ \A x \in Shows(p, v, z) : x >= -1
         /\ Absent \in Shows(p, v, z) => Shows(p, v, z) = {Absent, 0}
<1>1. CASE p > 0 /\ HasValue(states[p][z], v)
  <2>1. states[p][z] \in ZoneState
    BY <1>1 DEF ExportTypeOK
  <2>2. \A n \in Nat : floorToTwoDecimals(n) \in Nat
    BY DEF floorToTwoDecimals
  <2>3. v = "percent" \/ v = "percentEMA" \/ v = "emaTimestamp"
    BY DEF Vectors
  <2>4. states[p][z][v] \in Nat
    BY <2>1, <2>3 DEF ZoneState
  <2>5. ValueIn(states[p][z], v) \in Nat
    BY <2>2, <2>4 DEF ValueIn
  <2> QED  BY <1>1, <2>5 DEF Shows, Absent
<1>2. CASE ~(p > 0 /\ HasValue(states[p][z], v))
  BY <1>2 DEF Shows, Absent
<1> QED  BY <1>1, <1>2

\* The poll that set a series last is complete or the one after that.
LEMMA LastPollRange ==
  ASSUME ExportTypeOK, PollInv, NEW v \in Vectors, NEW z \in ZoneNumbers
  PROVE  LastPoll(v, z) \in done..Len(states) /\ LastPoll(v, z) \in 0..Len(states) /\ done \in Nat
<1>1. Len(states) \in Nat /\ done \in 0..Len(states)
  BY DEF ExportTypeOK
<1>2. pub.pc = "wait" => Passed(v, z)
  BY DEF Passed
<1> QED  BY <1>1, <1>2 DEF PollInv, LastPoll

\* A gauge shows what a poll that a scrape of this moment may see has set.
LEMMA GaugeFacts ==
  ASSUME ExporterInv, NEW v \in Vectors, NEW z \in ZoneNumbers
  PROVE  /\ gauges[v][z] \in Shows(LastPoll(v, z), v, z)
         /\ gauges[v][z] \in Int /\ gauges[v][z] >= -1
         /\ \A from \in Nat : from <= done => gauges[v][z] \in Visible(from, Len(states), v, z)
<1>1. gauges[v][z] \in Shows(LastPoll(v, z), v, z)
  BY DEF ExporterInv, GaugeInv
<1>2. LastPoll(v, z) \in done..Len(states) /\ LastPoll(v, z) \in 0..Len(states) /\ done \in Nat
  BY LastPollRange DEF ExporterInv
<1>3. gauges[v][z] \in Int /\ gauges[v][z] >= -1
  BY <1>1, <1>2, ShowsTyped DEF ExporterInv
<1>4. \A from \in Nat : from <= done => LastPoll(v, z) \in from..Len(states)
  BY <1>2 DEF ExporterInv, ExportTypeOK
<1> QED  BY <1>1, <1>3, <1>4 DEF Visible

-----------------------------------------------------------------------------
(* The steps of Publish *)

\* What a step of Publish has to keep while the scrapes stand still: polls are
\* only added, and no timestamp goes back.
LEMMA PublisherStep ==
  ASSUME ExporterInv, UNCHANGED reading,
         states' \in Seq([ZoneNumbers -> ZoneState]), Len(states) <= Len(states'), Len(states') <= MaxPolls,
         \A p \in 1..Len(states) : states'[p] = states[p],
         done' \in 0..Len(states'), done <= done',
         pub' \in Position,
         gauges' \in Found,
         \A z \in ZoneNumbers : gauges["emaTimestamp"][z] <= gauges'["emaTimestamp"][z],
         PollInv', GaugeInv'
  PROVE  ExporterInv'
<1>1. scrape' = scrape /\ before' = before /\ scraped' = scraped /\ scrapes' = scrapes
  BY DEF reading
<1>2. ExportTypeOK /\ ExportTypeOK'
  BY <1>1 DEF ExporterInv, ExportTypeOK
<1>3. Len(states) \in Nat /\ Len(states') \in Nat /\ done \in Nat /\ done' \in Nat /\ "emaTimestamp" \in Vectors
  BY <1>2 DEF ExportTypeOK, Vectors
<1>4. \A p \in 0..Len(states), v \in Vectors, z \in ZoneNumbers : Shows(p, v, z)' = Shows(p, v, z)
  <2> SUFFICES ASSUME NEW p \in 0..Len(states), NEW v \in Vectors, NEW z \in ZoneNumbers
               PROVE  Shows(p, v, z)' = Shows(p, v, z)
    OBVIOUS
  <2>1. CASE p = 0
    BY <2>1 DEF Shows
  <2>2. CASE p \in 1..Len(states)
    <3>1. states'[p] = states[p]
      BY <2>2
    <3> QED  BY <3>1 DEF Shows, HasValue
  <2> QED  BY <1>3, <2>1, <2>2
<1>5. ASSUME NEW from \in Nat, NEW to \in Nat, to <= Len(states), NEW to2 \in Nat, to <= to2,
             NEW v \in Vectors, NEW z \in ZoneNumbers
      PROVE  Visible(from, to, v, z) \subseteq Visible(from, to2, v, z)'
  <2>1. \A p \in from..to : p \in from..to2 /\ p \in 0..Len(states)
    BY <1>3, <1>5
  <2>2. \A p \in from..to : Shows(p, v, z) = Shows(p, v, z)'
    BY <1>4, <2>1
  <2> QED  BY <2>1, <2>2 DEF Visible
<1>6. GatherInv'
  <2> SUFFICES ASSUME scrape.pc = "gather" PROVE GatherInv'
    BY <1>1 DEF GatherInv
  <2>1. PICK f \in Nat : f = scrape.from /\ f <= done
    BY <1>2 DEF ExportTypeOK, ExporterInv, GatherInv
  <2>2. PICK m \in Nat : m = Len(states')
    BY <1>3
  <2>3. f <= done'
    BY <1>3, <2>1
  <2>4. \A v \in Vectors, z \in ZoneNumbers :
          Visible(f, Len(states), v, z) \subseteq Visible(f, m, v, z)'
    BY <1>3, <1>5, <2>2
  <2>5. \A v \in Vectors, z \in ZoneNumbers :
          Visible(f, m, v, z)' = Visible(scrape.from, Len(states), v, z)'
    BY <1>1, <2>1, <2>2 DEF Visible
  <2>6. \A v \in Vectors, z \in ZoneNumbers :
          /\ <<v>> \in scrape.todo => scrape.found[v][z] = Absent /\ <<v, z>> \notin scrape.todo
          /\ <<v>> \notin scrape.todo /\ <<v, z>> \notin scrape.todo =>
               scrape.found[v][z] \in Visible(f, Len(states), v, z)
    BY <2>1 DEF ExporterInv, GatherInv
  <2> QED  BY <1>1, <2>1, <2>3, <2>4, <2>5, <2>6 DEF GatherInv
<1>7. TimestampInv'
  <2> SUFFICES ASSUME NEW z \in ZoneNumbers
               PROVE  /\ scraped.found["emaTimestamp"][z] <= gauges'["emaTimestamp"][z]
                      /\ scrape.pc = "gather" =>
                           /\ scrape.found["emaTimestamp"][z] <= gauges'["emaTimestamp"][z]
                           /\ <<"emaTimestamp">> \notin scrape.todo /\ <<"emaTimestamp", z>> \notin scrape.todo =>
                                scraped.found["emaTimestamp"][z] <= scrape.found["emaTimestamp"][z]
    BY <1>1 DEF TimestampInv
  <2>1. /\ gauges["emaTimestamp"][z] \in Int /\ gauges'["emaTimestamp"][z] \in Int
        /\ scraped.found["emaTimestamp"][z] \in Int /\ scrape.found["emaTimestamp"][z] \in Int
    BY <1>2, <1>3 DEF ExportTypeOK, Found
  <2> QED  BY <2>1 DEF ExporterInv, TimestampInv
<1>8. scraped'.to <= Len(states') /\ ScrapeIsRecent'
  <2>1. scraped.from \in Nat /\ scraped.to \in Nat /\ scraped.to <= Len(states)
    BY <1>2 DEF ExportTypeOK, ExporterInv
  <2>2. \A v \in Vectors, z \in ZoneNumbers :
          Visible(scraped.from, scraped.to, v, z) \subseteq Visible(scraped.from, scraped.to, v, z)'
    <3> SUFFICES ASSUME NEW v \in Vectors, NEW z \in ZoneNumbers
                 PROVE  Visible(scraped.from, scraped.to, v, z) \subseteq Visible(scraped.from, scraped.to, v, z)'
      OBVIOUS
    <3>1. \A p \in scraped.from..scraped.to : p \in 0..Len(states)
      BY <1>3, <2>1
    <3>2. \A p \in scraped.from..scraped.to : Shows(p, v, z)' = Shows(p, v, z)
      BY <1>4, <3>1
    <3> QED  BY <1>1, <3>2 DEF Visible
  <2> QED  BY <1>1, <1>3, <2>1, <2>2 DEF ExporterInv, ScrapeIsRecent
<1>9. TimestampPersists'
  BY <1>1 DEF ExporterInv, TimestampPersists
<1> QED  BY <1>2, <1>6, <1>7, <1>8, <1>9 DEF ExporterInv

\* A poll that begins has set nothing yet; it sees what the store has made of
\* the one before.
LEMMA PublishKeeps == ExporterInv /\ Publish => ExporterInv'
<1> SUFFICES ASSUME ExporterInv, Publish PROVE ExporterInv'
  OBVIOUS
<1>0. PICK n \in Nat : n = Len(states)
  BY DEF ExporterInv, ExportTypeOK
<1>1. PICK snap \in [ZoneNumbers -> UNION {ZoneStates(z) : z \in ZoneNumbers}] :
        (\A z \in ZoneNumbers : snap[z] \in ZoneStates(z)) /\ states' = Append(states, snap)
  BY DEF Publish
<1>2. /\ pub.pc = "wait" /\ n < MaxPolls /\ gauges' = gauges /\ done' = done /\ UNCHANGED reading
  BY <1>0 DEF Publish, GaugesKept
<1>b. /\ pub' \in Position /\ pub'.pc = "set" /\ pub'.vector = "percent"
      /\ pub'.left \union {pub'.zone} = ZoneNumbers
  <2>1. pub' \in ZoneOf(ZoneNumbers)
    BY DEF Publish
  <2> QED  BY <2>1, ZoneStarts
<1>3. /\ states \in Seq([ZoneNumbers -> ZoneState]) /\ n \in Nat /\ gauges \in Found /\ MaxPolls \in Nat
      /\ Percents \subseteq Nat /\ NZones \in Nat \ {0} /\ done = n
  BY <1>0, <1>2, ExporterAssumption DEF ExporterInv, ExportTypeOK, PollInv
<1>a. ASSUME NEW z \in ZoneNumbers, NEW q \in 1..n
      PROVE  /\ states[q][z] \in ZoneState /\ states[q][z].emaTimestamp \in Nat
             /\ states[q][z].emaTimestamp <= q
             /\ \A p \in 1..q : states[p][z].emaTimestamp <= states[q][z].emaTimestamp
  <2>1. states[q][z] \in ZoneState
    BY <1>0, <1>3
  <2>2. /\ states[q][z].emaTimestamp <= q
        /\ \A p \in 1..q : states[p][z].emaTimestamp <= states[q][z].emaTimestamp
    BY <1>0 DEF ExporterInv, PollInv
  <2> QED  BY <2>1, <2>2 DEF ZoneState
<1>4. ASSUME NEW z \in ZoneNumbers
      PROVE  /\ snap[z] \in ZoneState /\ snap[z].emaTimestamp <= n + 1
             /\ n > 0 => states[n][z].emaTimestamp <= snap[z].emaTimestamp
  <2>1. CASE snap[z] = Before(z)
    <3>1. CASE states = <<>>
      BY <1>0, <1>3, <2>1, <3>1 DEF Before, ZoneState, IsZero
    <3>2. CASE states # <<>>
      <4>1. n \in 1..n /\ snap[z] = states[n][z]
        BY <1>0, <1>3, <2>1, <3>2 DEF Before
      <4>2. states[n][z] \in ZoneState /\ states[n][z].emaTimestamp \in Nat /\ states[n][z].emaTimestamp <= n
        BY <1>a, <4>1
      <4> QED  BY <1>3, <4>1, <4>2
    <3> QED  BY <3>1, <3>2
  <2>2. CASE snap[z] \in [percent : Percents, percentEMA : Percents, emaTimestamp : {n + 1}]
    <3>1. snap[z] \in ZoneState /\ snap[z].emaTimestamp = n + 1
      <4>1. PICK a \in Percents, b \in Percents :
              snap[z] = [percent |-> a, percentEMA |-> b, emaTimestamp |-> n + 1]
        BY <2>2
      <4> QED  BY <1>3, <4>1 DEF ZoneState
    <3>2. n > 0 => states[n][z].emaTimestamp \in Nat /\ states[n][z].emaTimestamp <= n
      <4>1. n > 0 => n \in 1..n
        OBVIOUS
      <4> QED  BY <1>a, <4>1
    <3> QED  BY <1>3, <3>1, <3>2
  <2> QED  BY <1>0, <1>1, <2>1, <2>2 DEF ZoneStates
<1>5. snap \in [ZoneNumbers -> ZoneState]
  BY <1>4
<1>6. /\ states' \in Seq([ZoneNumbers -> ZoneState]) /\ Len(states') = n + 1
      /\ \A p \in 1..n : states'[p] = states[p]
      /\ states'[n + 1] = snap
  BY <1>0, <1>1, <1>3, <1>5
<1>7. PollInv'
  <2> SUFFICES ASSUME NEW z \in ZoneNumbers, NEW q \in 1..n + 1
               PROVE  /\ states'[q][z].emaTimestamp <= q
                      /\ \A p \in 1..q : states'[p][z].emaTimestamp <= states'[q][z].emaTimestamp
    BY <1>2, <1>3, <1>6, <1>b DEF PollInv
  <2>1. \A i \in 1..n : /\ states[i][z].emaTimestamp \in Nat /\ states[i][z].emaTimestamp <= i
                        /\ \A p \in 1..i : states[p][z].emaTimestamp <= states[i][z].emaTimestamp
    BY <1>a
  <2>2. CASE q \in 1..n
    <3>1. \A p \in 1..q : p \in 1..n
      BY <1>3, <2>2
    <3> QED  BY <1>6, <2>1, <2>2, <3>1
  <2>3. CASE q = n + 1
    <3>1. snap[z].emaTimestamp \in Nat /\ states'[q][z] = snap[z]
      BY <1>4, <1>6, <2>3 DEF ZoneState
    <3>2. ASSUME NEW p \in 1..n PROVE states[p][z].emaTimestamp <= snap[z].emaTimestamp
      <4>1. n \in 1..n /\ p \in 1..n /\ n > 0
        BY <1>3, <3>2
      <4>2. /\ states[p][z].emaTimestamp \in Nat /\ states[n][z].emaTimestamp \in Nat
            /\ states[p][z].emaTimestamp <= states[n][z].emaTimestamp
        BY <2>1, <4>1
      <4> QED  BY <1>4, <3>1, <4>1, <4>2
    <3>3. \A p \in 1..q : p \in 1..n \/ p = q
      BY <1>3, <2>3
    <3>4. snap[z].emaTimestamp <= q
      BY <1>4, <2>3
    <3>5. \A p \in 1..q : states'[p][z].emaTimestamp <= snap[z].emaTimestamp
      <4>1. snap[z].emaTimestamp <= snap[z].emaTimestamp
        BY <3>1
      <4> QED  BY <1>6, <3>1, <3>2, <3>3, <4>1
    <3> QED  BY <3>1, <3>4, <3>5
  <2> QED  BY <1>3, <2>2, <2>3
<1>8. GaugeInv'
  <2> SUFFICES ASSUME NEW v \in Vectors, NEW z \in ZoneNumbers
               PROVE  gauges[v][z] \in Shows(LastPoll(v, z), v, z)'
    BY <1>2 DEF GaugeInv
  <2>1. LastPoll(v, z) = n
    BY <1>0, <1>2 DEF LastPoll, Passed
  <2>2. LastPoll(v, z)' = n
    <3>1. ~Passed(v, z)'
      BY <1>b DEF Passed
    <3> QED  BY <1>3, <1>6, <3>1 DEF LastPoll
  <2>3. Shows(n, v, z)' = Shows(n, v, z)
    <3>1. n > 0 => states'[n] = states[n]
      BY <1>6
    <3> QED  BY <3>1 DEF Shows
  <2>4. gauges[v][z] \in Shows(n, v, z)
    BY <2>1 DEF ExporterInv, GaugeInv
  <2>5. Shows(LastPoll(v, z), v, z)' = Shows(n, v, z)'
    BY <2>2 DEF Shows
  <2> QED  BY <2>3, <2>4, <2>5
<1>9. pub' \in Position
  BY <1>b
<1>10. \A z \in ZoneNumbers : gauges["emaTimestamp"][z] \in Int
  BY <1>3 DEF Found, Vectors
<1>11. done' \in 0..Len(states') /\ done <= done' /\ Len(states) <= Len(states') /\ Len(states') <= MaxPolls
  BY <1>0, <1>2, <1>3, <1>6
<1> QED  BY <1>0, <1>2, <1>3, <1>6, <1>7, <1>8, <1>9, <1>10, <1>11, PublisherStep

\* The publisher moves on from the gauge it has just set, which nothing else
\* does.
LEMMA AdvancePasses ==
  ASSUME ExporterInv, pub.pc = "set", Advance, states' = states
  PROVE  /\ pub' \in Position
         /\ done' = IF pub'.pc = "wait" THEN Len(states) ELSE Len(states) - 1
         /\ done' \in 0..Len(states) /\ done <= done'
         /\ ~Passed(pub.vector, pub.zone)
         /\ \A v \in Vectors, z \in ZoneNumbers :
              Passed(v, z)' <=> Passed(v, z) \/ (v = pub.vector /\ z = pub.zone)
<1>1. /\ pub \in Position /\ NZones \in Nat \ {0}
      /\ Len(states) \in Nat /\ done \in 0..Len(states) /\ done = Len(states) - 1
  BY ExporterAssumption DEF ExporterInv, ExportTypeOK, PollInv
<1>2. /\ pub' \in NextGauge /\ done' = IF pub'.pc = "wait" THEN Len(states) ELSE done
  BY DEF Advance
<1>3. pub.zone \in ZoneNumbers /\ pub.vector \in Vectors /\ pub.left \subseteq ZoneNumbers /\ pub.zone \notin pub.left
  BY <1>1 DEF Position
<1>5. \A v \in Vectors : v = "percent" \/ v = "percentEMA" \/ v = "emaTimestamp"
  BY DEF Vectors
<1>6. "percent" # "percentEMA" /\ "percent" # "emaTimestamp" /\ "percentEMA" # "emaTimestamp"
  OBVIOUS
<1>7. ~Passed(pub.vector, pub.zone)
  BY <1>3 DEF Passed
<1>8. CASE pub.vector # "emaTimestamp"
  <2>1. pub' = [pub EXCEPT !.vector = NextVector(pub.vector)]
    BY <1>2, <1>8 DEF NextGauge
  <2>2. NextVector(pub.vector) \in Vectors
    BY DEF NextVector, Vectors
  <2>3. /\ pub' \in Position
        /\ pub'.pc = "set" /\ pub'.zone = pub.zone /\ pub'.left = pub.left
        /\ pub'.vector = NextVector(pub.vector)
    BY <1>1, <2>1, <2>2 DEF Position
  <2>4. ASSUME NEW v \in Vectors, NEW z \in ZoneNumbers
        PROVE  Passed(v, z)' <=> Passed(v, z) \/ (v = pub.vector /\ z = pub.zone)
    BY <1>3, <1>5, <1>6, <1>8, <2>3 DEF Passed, NextVector
  <2> QED  BY <1>1, <1>2, <1>7, <2>3, <2>4
<1>9. CASE pub.vector = "emaTimestamp" /\ pub.left # {}
  <2>1. pub' \in ZoneOf(pub.left)
    BY <1>2, <1>9 DEF NextGauge
  <2>2. /\ pub' \in Position /\ pub'.pc = "set" /\ pub'.vector = "percent"
        /\ pub'.left \union {pub'.zone} = pub.left
    BY <1>3, <2>1, ZoneStarts
  <2>3. ASSUME NEW v \in Vectors, NEW z \in ZoneNumbers
        PROVE  Passed(v, z)' <=> Passed(v, z) \/ (v = pub.vector /\ z = pub.zone)
    <3>1. Passed(v, z)' <=> z \notin pub.left
      BY <2>2 DEF Passed
    <3>2. Passed(v, z) <=> z \notin pub.left \union {pub.zone} \/ (z = pub.zone /\ v # pub.vector)
      BY <1>9 DEF Passed
    <3> QED  BY <1>3, <3>1, <3>2
  <2> QED  BY <1>1, <1>2, <1>7, <2>2, <2>3
<1>10. CASE pub.vector = "emaTimestamp" /\ pub.left = {}
  <2>1. pub' = Waiting
    BY <1>2, <1>10 DEF NextGauge
  <2>2. 1 \in ZoneNumbers /\ "percent" \in Vectors
    BY <1>1 DEF ZoneNumbers, Vectors
  <2>3. pub' \in Position /\ pub'.pc = "wait"
    BY <2>1, <2>2 DEF Waiting, Position
  <2>4. ASSUME NEW v \in Vectors, NEW z \in ZoneNumbers
        PROVE  Passed(v, z)' <=> Passed(v, z) \/ (v = pub.vector /\ z = pub.zone)
    <3>1. Passed(v, z)'
      BY <2>3 DEF Passed
    <3> QED  BY <1>5, <1>10, <3>1 DEF Passed
  <2> QED  BY <1>1, <1>2, <1>7, <2>3, <2>4
<1> QED  BY <1>8, <1>9, <1>10

\* What stays the same when the polls do.
LEMMA SameShows ==
  ASSUME states' = states
  PROVE  \A p, v, z : Shows(p, v, z)' = Shows(p, v, z)
BY DEF Shows, HasValue

\* A gauge that the poll in progress sets: the one before left it alone, and
\* no timestamp goes back.
LEMMA CurrentGauge ==
  ASSUME ExporterInv, pub.pc = "set"
  PROVE  /\ Len(states) \in Nat \ {0} /\ pub.vector \in Vectors /\ pub.zone \in ZoneNumbers
         /\ Current = states[Len(states)][pub.zone]
         /\ Current \in ZoneState
         /\ gauges[pub.vector][pub.zone] \in Shows(Len(states) - 1, pub.vector, pub.zone)
         /\ IsSet(Current, pub.vector) =>
              Shows(Len(states), pub.vector, pub.zone) = {ValueIn(Current, pub.vector)}
         /\ ~IsSet(Current, pub.vector) =>
              /\ Shows(Len(states) - 1, pub.vector, pub.zone) = {Absent, 0}
              /\ Shows(Len(states), pub.vector, pub.zone) = {Absent, 0}
         /\ pub.vector = "emaTimestamp" /\ IsSet(Current, pub.vector) =>
              gauges[pub.vector][pub.zone] <= ValueIn(Current, pub.vector)
<1>1. /\ pub.vector \in Vectors /\ pub.zone \in ZoneNumbers
      /\ Len(states) \in Nat /\ done \in 0..Len(states) /\ done = Len(states) - 1
  BY DEF ExporterInv, ExportTypeOK, PollInv, Position
<1>2. PICK n \in Nat \ {0} : n = Len(states) /\ n - 1 \in Nat /\ n \in 1..n
  BY <1>1
<1>3. Current = states[n][pub.zone]
  BY <1>2 DEF Current
<1>4. \A q \in 1..n : states[q][pub.zone] \in ZoneState /\ states[q][pub.zone].emaTimestamp \in Nat
  <2>1. states \in Seq([ZoneNumbers -> ZoneState])
    BY DEF ExporterInv, ExportTypeOK
  <2>2. \A q \in 1..n : states[q] \in [ZoneNumbers -> ZoneState]
    BY <1>2, <2>1
  <2>3. \A st \in ZoneState : st.emaTimestamp \in Nat
    BY DEF ZoneState
  <2> QED  BY <1>1, <2>2, <2>3
<1>5. ~Passed(pub.vector, pub.zone)
  BY <1>1 DEF Passed
<1>6. gauges[pub.vector][pub.zone] \in Shows(n - 1, pub.vector, pub.zone)
  <2>1. LastPoll(pub.vector, pub.zone) = n - 1
    BY <1>2, <1>5 DEF LastPoll
  <2> QED  BY <1>1, <2>1 DEF ExporterInv, GaugeInv
<1>7. IsSet(Current, pub.vector) <=> HasValue(states[n][pub.zone], pub.vector)
  BY <1>3 DEF IsSet, HasValue
<1>8. n > 1 => /\ n - 1 \in 1..n /\ states[n - 1][pub.zone].emaTimestamp <= states[n][pub.zone].emaTimestamp
               /\ n - 1 > 0
  BY <1>1, <1>2 DEF ExporterInv, PollInv
<1>9. IsSet(Current, pub.vector) =>
        Shows(n, pub.vector, pub.zone) = {ValueIn(Current, pub.vector)}
  BY <1>2, <1>3, <1>7 DEF Shows
<1>10. ASSUME ~IsSet(Current, pub.vector)
       PROVE  /\ Shows(n - 1, pub.vector, pub.zone) = {Absent, 0}
              /\ Shows(n, pub.vector, pub.zone) = {Absent, 0}
  <2>1. pub.vector = "emaTimestamp" /\ states[n][pub.zone].emaTimestamp = 0
    BY <1>3, <1>10 DEF IsSet, IsZero
  <2>2. n > 1 => states[n - 1][pub.zone].emaTimestamp = 0
    BY <1>4, <1>8, <2>1
  <2>3. n - 1 > 0 => ~HasValue(states[n - 1][pub.zone], pub.vector)
    BY <1>2, <2>1, <2>2 DEF HasValue, IsZero
  <2> QED  BY <1>7, <1>10, <2>3 DEF Shows
<1>11. ASSUME pub.vector = "emaTimestamp", IsSet(Current, pub.vector)
       PROVE  gauges[pub.vector][pub.zone] <= ValueIn(Current, pub.vector)
  <2>1. ValueIn(Current, pub.vector) = states[n][pub.zone].emaTimestamp
    BY <1>3, <1>11 DEF ValueIn
  <2>2. states[n][pub.zone].emaTimestamp \in Nat
    BY <1>2, <1>4
  <2>3. CASE n - 1 > 0 /\ HasValue(states[n - 1][pub.zone], pub.vector)
    <3>1. gauges[pub.vector][pub.zone] = states[n - 1][pub.zone].emaTimestamp
      BY <1>6, <1>11, <2>3 DEF Shows, ValueIn
    <3> QED  BY <1>8, <2>1, <2>3, <3>1
  <2>4. CASE ~(n - 1 > 0 /\ HasValue(states[n - 1][pub.zone], pub.vector))
    BY <1>6, <2>1, <2>2, <2>4 DEF Shows, Absent
  <2> QED  BY <2>3, <2>4
<1> QED  BY <1>1, <1>2, <1>3, <1>4, <1>6, <1>9, <1>10, <1>11

\* A series that is created shows 0 until it is set.
LEMMA WithKeeps == ExporterInv /\ With => ExporterInv'
<1> SUFFICES ASSUME ExporterInv, With PROVE ExporterInv'
  OBVIOUS
<1>1. /\ pub.pc = "set" /\ gauges[pub.vector][pub.zone] = Absent
      /\ gauges' = [gauges EXCEPT ![pub.vector][pub.zone] = 0]
      /\ states' = states /\ done' = done /\ pub' = pub /\ UNCHANGED reading
  BY DEF With, poll
<1>2. /\ Len(states) \in Nat \ {0} /\ pub.vector \in Vectors /\ pub.zone \in ZoneNumbers
      /\ gauges[pub.vector][pub.zone] \in Shows(Len(states) - 1, pub.vector, pub.zone)
  BY <1>1, CurrentGauge
<1>3. ExportTypeOK /\ gauges \in Found
  BY DEF ExporterInv, ExportTypeOK
<1>4. gauges' \in Found
  BY <1>1, <1>2, <1>3 DEF Found
<1>5. \A v \in Vectors, z \in ZoneNumbers :
        gauges'[v][z] = IF v = pub.vector /\ z = pub.zone THEN 0 ELSE gauges[v][z]
  BY <1>1, <1>2, <1>3 DEF Found
<1>6. GaugeInv'
  <2> SUFFICES ASSUME NEW v \in Vectors, NEW z \in ZoneNumbers
               PROVE  gauges'[v][z] \in Shows(LastPoll(v, z), v, z)'
    BY DEF GaugeInv
  <2>1. LastPoll(v, z)' = LastPoll(v, z)
    BY <1>1 DEF LastPoll, Passed
  <2>2. Shows(LastPoll(v, z), v, z)' = Shows(LastPoll(v, z), v, z)
    BY <1>1, <2>1 DEF Shows, HasValue
  <2>3. gauges[v][z] \in Shows(LastPoll(v, z), v, z) /\ LastPoll(v, z) \in 0..Len(states)
    BY GaugeFacts, LastPollRange DEF ExporterInv
  <2>4. CASE v = pub.vector /\ z = pub.zone
    <3>1. gauges[v][z] = Absent /\ gauges'[v][z] = 0
      BY <1>1, <1>5, <2>4
    <3>2. Shows(LastPoll(v, z), v, z) = {Absent, 0}
      BY <1>3, <2>3, <3>1, ShowsTyped
    <3> QED  BY <2>2, <3>1, <3>2
  <2>5. CASE ~(v = pub.vector /\ z = pub.zone)
    BY <1>5, <2>2, <2>3, <2>5
  <2> QED  BY <2>4, <2>5
<1>7. PollInv'
  BY <1>1 DEF ExporterInv, PollInv
<1>8. \A z \in ZoneNumbers : gauges["emaTimestamp"][z] <= gauges'["emaTimestamp"][z]
  <2>1. \A z \in ZoneNumbers : gauges["emaTimestamp"][z] \in Int /\ "emaTimestamp" \in Vectors
    BY <1>3 DEF Found, Vectors
  <2> QED  BY <1>1, <1>5, <2>1 DEF Absent
<1>9. /\ states' \in Seq([ZoneNumbers -> ZoneState]) /\ Len(states) <= Len(states') /\ Len(states') <= MaxPolls
      /\ done' \in 0..Len(states') /\ done <= done'
      /\ pub' \in Position
  BY <1>1, <1>2, <1>3 DEF ExportTypeOK
<1> QED  BY <1>1, <1>4, <1>6, <1>7, <1>8, <1>9, PublisherStep

\* The publisher's two ways past a gauge: it leaves there what the poll in
\* progress may show, and touches no other.
LEMMA GaugePassed ==
  ASSUME ExporterInv, pub.pc = "set", Advance,
         states' = states, UNCHANGED reading, gauges' \in Found,
         \A v \in Vectors, z \in ZoneNumbers :
           ~(v = pub.vector /\ z = pub.zone) => gauges'[v][z] = gauges[v][z],
         gauges'[pub.vector][pub.zone] \in Shows(Len(states), pub.vector, pub.zone),
         pub.vector = "emaTimestamp" => gauges[pub.vector][pub.zone] <= gauges'[pub.vector][pub.zone]
  PROVE  ExporterInv'
<1>1. /\ pub' \in Position
      /\ done' = IF pub'.pc = "wait" THEN Len(states) ELSE Len(states) - 1
      /\ done' \in 0..Len(states) /\ done <= done'
  BY AdvancePasses
<1>2. \A v \in Vectors, z \in ZoneNumbers :
        Passed(v, z)' <=> Passed(v, z) \/ (v = pub.vector /\ z = pub.zone)
  BY AdvancePasses
<1>3. ExportTypeOK /\ gauges \in Found
  BY DEF ExporterInv, ExportTypeOK
<1>4. GaugeInv'
  <2> SUFFICES ASSUME NEW v \in Vectors, NEW z \in ZoneNumbers
               PROVE  gauges'[v][z] \in Shows(LastPoll(v, z), v, z)'
    BY DEF GaugeInv
  <2>1. \A p : Shows(p, v, z)' = Shows(p, v, z)
    BY SameShows
  <2>2. CASE v = pub.vector /\ z = pub.zone
    <3>1. LastPoll(v, z)' = Len(states)
      BY <1>2, <2>2 DEF LastPoll
    <3>2. Shows(LastPoll(v, z), v, z)' = Shows(Len(states), v, z)
      BY <3>1 DEF Shows, HasValue
    <3> QED  BY <2>2, <3>2
  <2>3. CASE ~(v = pub.vector /\ z = pub.zone)
    <3>1. LastPoll(v, z)' = LastPoll(v, z)
      BY <1>2, <2>3 DEF LastPoll
    <3>2. Shows(LastPoll(v, z), v, z)' = Shows(LastPoll(v, z), v, z)
      BY <3>1 DEF Shows, HasValue
    <3> QED  BY <2>3, <3>2, GaugeFacts
  <2> QED  BY <2>2, <2>3
<1>5. PollInv'
  BY <1>1 DEF ExporterInv, PollInv
<1>6. \A z \in ZoneNumbers : gauges["emaTimestamp"][z] <= gauges'["emaTimestamp"][z]
  <2>1. \A z \in ZoneNumbers : gauges["emaTimestamp"][z] \in Int /\ "emaTimestamp" \in Vectors
    BY <1>3 DEF Found, Vectors
  <2>2. ASSUME NEW z \in ZoneNumbers PROVE gauges["emaTimestamp"][z] <= gauges'["emaTimestamp"][z]
    <3>1. CASE "emaTimestamp" = pub.vector /\ z = pub.zone
      BY <3>1
    <3>2. CASE ~("emaTimestamp" = pub.vector /\ z = pub.zone)
      <4>1. gauges'["emaTimestamp"][z] = gauges["emaTimestamp"][z]
        BY <2>1, <3>2
      <4> QED  BY <2>1, <4>1
    <3> QED  BY <3>1, <3>2
  <2> QED  BY <2>2
<1>7. /\ states' \in Seq([ZoneNumbers -> ZoneState]) /\ Len(states) <= Len(states') /\ Len(states') <= MaxPolls
      /\ done' \in 0..Len(states')
  BY <1>1, <1>3 DEF ExportTypeOK
<1> QED  BY <1>1, <1>4, <1>5, <1>6, <1>7, PublisherStep

LEMMA SetKeeps == ExporterInv /\ Set => ExporterInv'
<1> SUFFICES ASSUME ExporterInv, Set PROVE ExporterInv'
  OBVIOUS
<1>1. /\ pub.pc = "set" /\ IsSet(Current, pub.vector) /\ Advance
      /\ gauges' = [gauges EXCEPT ![pub.vector][pub.zone] = ValueIn(Current, pub.vector)]
      /\ states' = states /\ UNCHANGED reading
  BY DEF Set
<1>2. /\ Len(states) \in Nat \ {0} /\ pub.vector \in Vectors /\ pub.zone \in ZoneNumbers
      /\ Shows(Len(states), pub.vector, pub.zone) = {ValueIn(Current, pub.vector)}
      /\ pub.vector = "emaTimestamp" =>
           gauges[pub.vector][pub.zone] <= ValueIn(Current, pub.vector)
  BY <1>1, CurrentGauge
<1>3. ExportTypeOK /\ gauges \in Found
  BY DEF ExporterInv, ExportTypeOK
<1>4. ValueIn(Current, pub.vector) \in Int
  <2>1. Len(states) \in 0..Len(states)
    BY <1>2
  <2> QED  BY <1>2, <1>3, <2>1, ShowsTyped
<1>5. gauges' \in Found
  BY <1>1, <1>2, <1>3, <1>4 DEF Found
<1>6. /\ \A v \in Vectors, z \in ZoneNumbers :
           ~(v = pub.vector /\ z = pub.zone) => gauges'[v][z] = gauges[v][z]
      /\ gauges'[pub.vector][pub.zone] = ValueIn(Current, pub.vector)
  BY <1>1, <1>2, <1>3 DEF Found
<1> QED  BY <1>1, <1>2, <1>5, <1>6, GaugePassed

LEMMA SkipKeeps == ExporterInv /\ Skip => ExporterInv'
<1> SUFFICES ASSUME ExporterInv, Skip PROVE ExporterInv'
  OBVIOUS
<1>1. /\ pub.pc = "set" /\ ~IsSet(Current, pub.vector) /\ Advance
      /\ gauges' = gauges /\ states' = states /\ UNCHANGED reading
  BY DEF Skip
<1>2. /\ pub.vector \in Vectors /\ pub.zone \in ZoneNumbers
      /\ gauges[pub.vector][pub.zone] \in Shows(Len(states), pub.vector, pub.zone)
  BY <1>1, CurrentGauge
<1>3. gauges' \in Found /\ gauges[pub.vector][pub.zone] \in Int
  BY <1>1, <1>2 DEF ExporterInv, ExportTypeOK, Found
<1>4. gauges[pub.vector][pub.zone] <= gauges'[pub.vector][pub.zone]
  BY <1>1, <1>3
<1> QED  BY <1>1, <1>2, <1>3, <1>4, GaugePassed

-----------------------------------------------------------------------------
(* The steps of a scrape *)

\* While the publisher stands still, what a poll shows does not change.
LEMMA ReaderStep ==
  ASSUME ExporterInv, UNCHANGED <<poll, gauges>>
  PROVE  /\ states' = states /\ done' = done /\ gauges' = gauges /\ PollInv' /\ GaugeInv'
         /\ \A from, to, v, z : Visible(from, to, v, z)' = Visible(from, to, v, z)
<1>1. states' = states /\ done' = done /\ pub' = pub /\ gauges' = gauges
  BY DEF poll
<1>2. PollInv'
  BY <1>1 DEF ExporterInv, PollInv
<1>3. GaugeInv'
  <2>1. \A v, z : LastPoll(v, z)' = LastPoll(v, z)
    BY <1>1 DEF LastPoll, Passed
  <2>2. \A v, z : Shows(LastPoll(v, z), v, z)' = Shows(LastPoll(v, z), v, z)
    BY <1>1, <2>1 DEF Shows, HasValue
  <2>3. \A v \in Vectors, z \in ZoneNumbers : gauges[v][z] \in Shows(LastPoll(v, z), v, z)
    BY DEF ExporterInv, GaugeInv
  <2> QED  BY <1>1, <2>2, <2>3, Zenon DEF GaugeInv
<1>4. \A from, to, v, z : Visible(from, to, v, z)' = Visible(from, to, v, z)
  BY <1>1 DEF Visible, Shows, HasValue
<1> QED  BY <1>1, <1>2, <1>3, <1>4

\* What a scrape in progress has to keep while the last one stands.
LEMMA GatherStep ==
  ASSUME ExporterInv, UNCHANGED <<poll, gauges, before, scraped>>, scrapes' \in 0..MaxScrapes,
         scrape' \in [pc : {"idle", "gather"}, from : Nat, todo : SUBSET Items, found : Found],
         GatherInv', TimestampInv'
  PROVE  ExporterInv'
<1>1. /\ states' = states /\ done' = done /\ gauges' = gauges /\ PollInv' /\ GaugeInv'
      /\ \A from, to, v, z : Visible(from, to, v, z)' = Visible(from, to, v, z)
  BY ReaderStep
<1>2. ExportTypeOK'
  BY <1>1 DEF ExporterInv, ExportTypeOK, poll
<1>3. ScrapeIsRecent' /\ scraped'.to <= Len(states')
  BY <1>1 DEF ExporterInv, ScrapeIsRecent, Visible
<1>4. TimestampPersists'
  BY DEF ExporterInv, TimestampPersists
<1> QED  BY <1>1, <1>2, <1>3, <1>4 DEF ExporterInv

LEMMA StartScrapeKeeps == ExporterInv /\ StartScrape => ExporterInv'
<1> SUFFICES ASSUME ExporterInv, StartScrape PROVE ExporterInv'
  OBVIOUS
<1>1. /\ scrapes < MaxScrapes /\ scrapes' = scrapes + 1 /\ UNCHANGED <<poll, gauges, before, scraped>>
      /\ scrape' = [pc |-> "gather", from |-> done, todo |-> {<<v>> : v \in Vectors}, found |-> NoSeries]
  BY DEF StartScrape
<1>2. /\ NoSeries \in Found /\ \A v \in Vectors, z \in ZoneNumbers : NoSeries[v][z] = Absent
      /\ Absent = -1
  BY DEF NoSeries, Found, Absent
<1>3. ExportTypeOK /\ done \in Nat /\ MaxScrapes \in Nat /\ scrapes \in Nat
  BY ExporterAssumption DEF ExporterInv, ExportTypeOK
<1>4. scrapes' \in 0..MaxScrapes
  BY <1>1, <1>3
<1>5. /\ scrape' \in [pc : {"idle", "gather"}, from : Nat, todo : SUBSET Items, found : Found]
      /\ scrape'.from = done /\ scrape'.todo = {<<v>> : v \in Vectors} /\ scrape'.found = NoSeries
  BY <1>1, <1>2, <1>3 DEF Items
<1>6. states' = states /\ done' = done /\ gauges' = gauges /\ scraped' = scraped
  BY <1>1, ReaderStep
<1>7. \A v \in Vectors, z \in ZoneNumbers : <<v>> \in scrape'.todo /\ <<v, z>> \notin scrape'.todo
  BY <1>5
<1>8. GatherInv'
  <2>1. done <= done
    BY <1>3
  <2> QED  BY <1>2, <1>5, <1>6, <1>7, <2>1 DEF GatherInv
<1>9. TimestampInv'
  <2>1. "emaTimestamp" \in Vectors
    BY DEF Vectors
  <2>2. \A z \in ZoneNumbers : gauges["emaTimestamp"][z] \in Int /\ gauges["emaTimestamp"][z] >= -1
    BY <2>1, GaugeFacts
  <2>3. \A z \in ZoneNumbers : scraped.found["emaTimestamp"][z] <= gauges["emaTimestamp"][z]
    BY DEF ExporterInv, TimestampInv
  <2>4. \A z \in ZoneNumbers : NoSeries["emaTimestamp"][z] <= gauges["emaTimestamp"][z]
    BY <1>2, <2>1, <2>2
  <2> QED  BY <1>5, <1>6, <1>7, <2>1, <2>3, <2>4 DEF TimestampInv
<1> QED  BY <1>1, <1>4, <1>5, <1>8, <1>9, GatherStep

\* The series a collector lists are there; the others are absent now, which
\* is what the scrape will report of them.
LEMMA CollectKeeps ==
  ASSUME ExporterInv, NEW c \in Vectors, Collect(c)
  PROVE  ExporterInv'
<1>1. /\ scrape.pc = "gather" /\ <<c>> \in scrape.todo /\ UNCHANGED <<poll, gauges, before, scraped>>
      /\ scrape' = [scrape EXCEPT !.todo = (scrape.todo \ {<<c>>}) \union Series(c)] /\ scrapes' = scrapes
  BY DEF Collect
<1>2. ExportTypeOK /\ scrape \in [pc : {"idle", "gather"}, from : Nat, todo : SUBSET Items, found : Found]
  BY DEF ExporterInv, ExportTypeOK
<1>3. Series(c) \subseteq Items
  BY DEF Series, Items
<1>4. /\ scrape' \in [pc : {"idle", "gather"}, from : Nat, todo : SUBSET Items, found : Found]
      /\ scrape'.pc = "gather" /\ scrape'.from = scrape.from /\ scrape'.found = scrape.found
      /\ scrape'.todo = (scrape.todo \ {<<c>>}) \union Series(c)
  BY <1>1, <1>2, <1>3
<1>5. /\ states' = states /\ done' = done /\ gauges' = gauges /\ scraped' = scraped
      /\ \A from, to, v, z : Visible(from, to, v, z)' = Visible(from, to, v, z)
  BY <1>1, ReaderStep
<1>6. \A v \in Vectors, z \in ZoneNumbers :
        /\ <<v>> \in scrape'.todo <=> <<v>> \in scrape.todo /\ v # c
        /\ <<v, z>> \in scrape'.todo <=> <<v, z>> \in scrape.todo \/ (v = c /\ gauges[c][z] # Absent)
  BY <1>4 DEF Series
<1>7. \A z \in ZoneNumbers : scrape.found[c][z] = Absent /\ <<c, z>> \notin scrape.todo
  BY <1>1 DEF ExporterInv, GatherInv
<1>8. GatherInv'
  <2>1. scrape.from \in Nat /\ scrape.from <= done
    BY <1>1, <1>2 DEF ExporterInv, GatherInv
  <2>2. ASSUME NEW v \in Vectors, NEW z \in ZoneNumbers
        PROVE  /\ <<v>> \in scrape'.todo => scrape.found[v][z] = Absent /\ <<v, z>> \notin scrape'.todo
               /\ <<v>> \notin scrape'.todo /\ <<v, z>> \notin scrape'.todo =>
                    scrape.found[v][z] \in Visible(scrape.from, Len(states), v, z)
    <3>1. /\ <<v>> \in scrape.todo => scrape.found[v][z] = Absent /\ <<v, z>> \notin scrape.todo
          /\ <<v>> \notin scrape.todo /\ <<v, z>> \notin scrape.todo =>
               scrape.found[v][z] \in Visible(scrape.from, Len(states), v, z)
      BY <1>1 DEF ExporterInv, GatherInv
    <3>2. CASE v = c
      <4>1. gauges[v][z] \in Visible(scrape.from, Len(states), v, z)
        BY <2>1, GaugeFacts
      <4> QED  BY <1>6, <1>7, <3>2, <4>1
    <3>3. CASE v # c
      BY <1>6, <3>1, <3>3
    <3> QED  BY <3>2, <3>3
  <2> QED  BY <1>4, <1>5, <2>1, <2>2 DEF GatherInv
<1>9. TimestampInv'
  <2> SUFFICES ASSUME NEW z \in ZoneNumbers
               PROVE  /\ scraped.found["emaTimestamp"][z] <= gauges["emaTimestamp"][z]
                      /\ scrape.found["emaTimestamp"][z] <= gauges["emaTimestamp"][z]
                      /\ <<"emaTimestamp">> \notin scrape'.todo /\ <<"emaTimestamp", z>> \notin scrape'.todo =>
                           scraped.found["emaTimestamp"][z] <= scrape.found["emaTimestamp"][z]
    BY <1>4, <1>5 DEF TimestampInv
  <2>1. "emaTimestamp" \in Vectors
    BY DEF Vectors
  <2>2. /\ scraped.found["emaTimestamp"][z] <= gauges["emaTimestamp"][z]
        /\ scrape.found["emaTimestamp"][z] <= gauges["emaTimestamp"][z]
        /\ <<"emaTimestamp">> \notin scrape.todo /\ <<"emaTimestamp", z>> \notin scrape.todo =>
             scraped.found["emaTimestamp"][z] <= scrape.found["emaTimestamp"][z]
    BY <1>1 DEF ExporterInv, TimestampInv
  <2>3. CASE c = "emaTimestamp"
    <3>1. <<"emaTimestamp", z>> \notin scrape'.todo => gauges["emaTimestamp"][z] = Absent
      BY <1>6, <2>1, <2>3
    <3> QED  BY <1>7, <2>2, <2>3, <3>1
  <2>4. CASE c # "emaTimestamp"
    BY <1>6, <2>1, <2>2, <2>4
  <2> QED  BY <2>3, <2>4
<1>10. scrapes' \in 0..MaxScrapes
  BY <1>1, <1>2 DEF ExportTypeOK
<1> QED  BY <1>1, <1>4, <1>8, <1>9, <1>10, GatherStep

\* A value is read: it is the gauge's, of a poll that the scrape may see.
LEMMA ReadKeeps ==
  ASSUME ExporterInv, NEW c \in Vectors, NEW y \in ZoneNumbers, Read(c, y)
  PROVE  ExporterInv'
<1>1. /\ scrape.pc = "gather" /\ <<c, y>> \in scrape.todo /\ UNCHANGED <<poll, gauges, before, scraped>>
      /\ scrape' = [scrape EXCEPT !.todo = scrape.todo \ {<<c, y>>}, !.found[c][y] = gauges[c][y]]
      /\ scrapes' = scrapes
  BY DEF Read
<1>2. /\ ExportTypeOK /\ scrape \in [pc : {"idle", "gather"}, from : Nat, todo : SUBSET Items, found : Found]
      /\ gauges \in Found
  BY DEF ExporterInv, ExportTypeOK
<1>3. PICK fd : fd = [scrape.found EXCEPT ![c][y] = gauges[c][y]]
  OBVIOUS
<1>4. /\ fd \in Found
      /\ \A v \in Vectors, z \in ZoneNumbers :
           fd[v][z] = IF v = c /\ z = y THEN gauges[c][y] ELSE scrape.found[v][z]
  <2>1. scrape.found \in Found
    BY <1>2
  <2>2. gauges[c][y] \in Int
    BY <1>2 DEF Found
  <2> QED  BY <1>3, <2>1, <2>2 DEF Found
<1>5. /\ scrape' \in [pc : {"idle", "gather"}, from : Nat, todo : SUBSET Items, found : Found]
      /\ scrape'.pc = "gather" /\ scrape'.from = scrape.from /\ scrape'.found = fd
      /\ scrape'.todo = scrape.todo \ {<<c, y>>}
  BY <1>1, <1>2, <1>3, <1>4
<1>6. /\ states' = states /\ done' = done /\ gauges' = gauges /\ scraped' = scraped
      /\ \A from, to, v, z : Visible(from, to, v, z)' = Visible(from, to, v, z)
  BY <1>1, ReaderStep
<1>7. \A v \in Vectors, z \in ZoneNumbers :
        /\ <<v>> \in scrape'.todo <=> <<v>> \in scrape.todo
        /\ <<v, z>> \in scrape'.todo <=> <<v, z>> \in scrape.todo /\ ~(v = c /\ z = y)
  BY <1>5
<1>8. <<c>> \notin scrape.todo
  BY <1>1 DEF ExporterInv, GatherInv
<1>9. GatherInv'
  <2>1. scrape.from \in Nat /\ scrape.from <= done
    BY <1>1, <1>2 DEF ExporterInv, GatherInv
  <2>2. ASSUME NEW v \in Vectors, NEW z \in ZoneNumbers
        PROVE  /\ <<v>> \in scrape'.todo => fd[v][z] = Absent /\ <<v, z>> \notin scrape'.todo
               /\ <<v>> \notin scrape'.todo /\ <<v, z>> \notin scrape'.todo =>
                    fd[v][z] \in Visible(scrape.from, Len(states), v, z)
    <3>1. /\ <<v>> \in scrape.todo => scrape.found[v][z] = Absent /\ <<v, z>> \notin scrape.todo
          /\ <<v>> \notin scrape.todo /\ <<v, z>> \notin scrape.todo =>
               scrape.found[v][z] \in Visible(scrape.from, Len(states), v, z)
      BY <1>1 DEF ExporterInv, GatherInv
    <3>2. CASE v = c /\ z = y
      <4>1. gauges[v][z] \in Visible(scrape.from, Len(states), v, z)
        BY <2>1, GaugeFacts
      <4> QED  BY <1>4, <1>7, <1>8, <3>2, <4>1
    <3>3. CASE ~(v = c /\ z = y)
      <4>1. fd[v][z] = scrape.found[v][z]
        BY <1>4, <3>3
      <4> QED  BY <1>7, <3>1, <3>3, <4>1
    <3> QED  BY <3>2, <3>3
  <2> QED  BY <1>5, <1>6, <2>1, <2>2 DEF GatherInv
<1>10. TimestampInv'
  <2> SUFFICES ASSUME NEW z \in ZoneNumbers
               PROVE  /\ scraped.found["emaTimestamp"][z] <= gauges["emaTimestamp"][z]
                      /\ fd["emaTimestamp"][z] <= gauges["emaTimestamp"][z]
                      /\ <<"emaTimestamp">> \notin scrape'.todo /\ <<"emaTimestamp", z>> \notin scrape'.todo =>
                           scraped.found["emaTimestamp"][z] <= fd["emaTimestamp"][z]
    BY <1>5, <1>6 DEF TimestampInv
  <2>1. "emaTimestamp" \in Vectors /\ gauges["emaTimestamp"][z] \in Int
    BY <1>2 DEF Vectors, Found
  <2>2. /\ scraped.found["emaTimestamp"][z] <= gauges["emaTimestamp"][z]
        /\ scrape.found["emaTimestamp"][z] <= gauges["emaTimestamp"][z]
        /\ <<"emaTimestamp">> \notin scrape.todo /\ <<"emaTimestamp", z>> \notin scrape.todo =>
             scraped.found["emaTimestamp"][z] <= scrape.found["emaTimestamp"][z]
    BY <1>1 DEF ExporterInv, TimestampInv
  <2>3. CASE c = "emaTimestamp" /\ z = y
    <3>1. fd["emaTimestamp"][z] = gauges["emaTimestamp"][z]
      BY <1>4, <2>1, <2>3
    <3>2. gauges["emaTimestamp"][z] <= gauges["emaTimestamp"][z]
      BY <2>1
    <3> QED  BY <2>2, <3>1, <3>2
  <2>4. CASE ~(c = "emaTimestamp" /\ z = y)
    <3>1. fd["emaTimestamp"][z] = scrape.found["emaTimestamp"][z]
      BY <1>4, <2>1, <2>4
    <3>2. /\ <<"emaTimestamp">> \in scrape'.todo <=> <<"emaTimestamp">> \in scrape.todo
          /\ <<"emaTimestamp", z>> \in scrape'.todo <=> <<"emaTimestamp", z>> \in scrape.todo
      BY <1>7, <2>1, <2>4
    <3> QED  BY <2>2, <3>1, <3>2
  <2> QED  BY <2>3, <2>4
<1>11. scrapes' \in 0..MaxScrapes
  BY <1>1, <1>2 DEF ExportTypeOK
<1> QED  BY <1>1, <1>5, <1>9, <1>10, <1>11, GatherStep

\* A scrape ends: everything was listed, and read or absent.
LEMMA EndScrapeKeeps == ExporterInv /\ EndScrape => ExporterInv'
<1> SUFFICES ASSUME ExporterInv, EndScrape PROVE ExporterInv'
  OBVIOUS
<1>1. /\ scrape.pc = "gather" /\ scrape.todo = {} /\ UNCHANGED <<poll, gauges>> /\ scrapes' = scrapes
      /\ before' = scraped.found["emaTimestamp"] /\ scrape' = NoScrape
      /\ scraped' = [from |-> scrape.from, to |-> Len(states), found |-> scrape.found]
  BY DEF EndScrape
<1>2. ExportTypeOK /\ "emaTimestamp" \in Vectors
  BY DEF ExporterInv, ExportTypeOK, Vectors
<1>3. /\ states' = states /\ done' = done /\ gauges' = gauges /\ PollInv' /\ GaugeInv'
      /\ \A from, to, v, z : Visible(from, to, v, z)' = Visible(from, to, v, z)
  BY <1>1, ReaderStep
<1>4. Len(states) \in Nat /\ scrape.from \in Nat /\ scrape.found \in Found /\ scraped.found \in Found
  BY <1>2 DEF ExportTypeOK
<1>5. scrape' = [pc |-> "idle", from |-> 0, todo |-> {}, found |-> NoSeries] /\ NoSeries \in Found
  BY <1>1 DEF NoScrape, NoSeries, Found, Absent
<1>6. ExportTypeOK'
  <2>1. scrape' \in [pc : {"idle", "gather"}, from : Nat, todo : SUBSET Items, found : Found]
    BY <1>5
  <2>2. scraped' \in [from : Nat, to : Nat, found : Found]
    BY <1>1, <1>4
  <2>3. before' \in [ZoneNumbers -> Int]
    BY <1>1, <1>2, <1>4 DEF Found
  <2>4. pub' = pub
    BY <1>1 DEF poll
  <2> QED  BY <1>1, <1>2, <1>3, <2>1, <2>2, <2>3, <2>4 DEF ExportTypeOK
<1>7. GatherInv'
  BY <1>5 DEF GatherInv
<1>8. \A v \in Vectors, z \in ZoneNumbers : scrape.found[v][z] \in Visible(scrape.from, Len(states), v, z)
  BY <1>1 DEF ExporterInv, GatherInv
<1>9. scraped'.from = scrape.from /\ scraped'.to = Len(states) /\ scraped'.found = scrape.found
  BY <1>1
<1>10. scraped'.to <= Len(states') /\ ScrapeIsRecent'
  <2>1. Len(states) <= Len(states)
    BY <1>4
  <2>2. \A v \in Vectors, z \in ZoneNumbers :
          Visible(scraped.from, scraped.to, v, z)' = Visible(scrape.from, Len(states), v, z)
    BY <1>3, <1>9 DEF Visible, Shows, HasValue
  <2> QED  BY <1>3, <1>8, <1>9, <2>1, <2>2 DEF ScrapeIsRecent
<1>11. TimestampInv' /\ TimestampPersists'
  <2>1. \A z \in ZoneNumbers :
          /\ scrape.found["emaTimestamp"][z] <= gauges["emaTimestamp"][z]
          /\ scraped.found["emaTimestamp"][z] <= scrape.found["emaTimestamp"][z]
    BY <1>1 DEF ExporterInv, TimestampInv
  <2> QED  BY <1>1, <1>3, <1>5, <1>9, <2>1 DEF TimestampInv, TimestampPersists
<1> QED  BY <1>3, <1>6, <1>7, <1>10, <1>11 DEF ExporterInv

LEMMA ExporterStep == ExporterInv /\ [ExportNext]_exportVars => ExporterInv'
<1> SUFFICES ASSUME ExporterInv, [ExportNext]_exportVars PROVE ExporterInv'
  OBVIOUS
<1>1. CASE Publish \/ With \/ Set \/ Skip
  BY <1>1, PublishKeeps, WithKeeps, SetKeeps, SkipKeeps
<1>2. CASE StartScrape \/ EndScrape
  BY <1>2, StartScrapeKeeps, EndScrapeKeeps
<1>3. ASSUME NEW v \in Vectors, Collect(v) PROVE ExporterInv'
  BY <1>3, CollectKeeps
<1>4. ASSUME NEW v \in Vectors, NEW z \in ZoneNumbers, Read(v, z) PROVE ExporterInv'
  BY <1>4, ReadKeeps
<1>5. CASE UNCHANGED exportVars
  <2>1. /\ UNCHANGED <<poll, gauges, before, scraped>> /\ scrape' = scrape /\ scrapes' = scrapes
    BY <1>5 DEF exportVars, reading
  <2>2. /\ states' = states /\ done' = done /\ gauges' = gauges /\ scraped' = scraped
        /\ \A from, to, v, z : Visible(from, to, v, z)' = Visible(from, to, v, z)
    BY <2>1, ReaderStep
  <2>3. GatherInv'
    BY <2>1, <2>2 DEF ExporterInv, GatherInv, Visible, Shows, HasValue
  <2>4. TimestampInv'
    BY <2>1, <2>2 DEF ExporterInv, TimestampInv
  <2> QED  BY <2>1, <2>3, <2>4, GatherStep DEF ExporterInv, ExportTypeOK
<1> QED  BY <1>1, <1>2, <1>3, <1>4, <1>5 DEF ExportNext

\* Publish, one gauge at a time, and the scrapes that run across it keep
\* ExporterInv, for any zones, percents, and number of polls and scrapes.
THEOREM ExporterInvariant == ExportSpec => []ExporterInv
<1>1. ExportInit => ExporterInv
  BY ExporterInit
<1>2. ExporterInv /\ [ExportNext]_exportVars => ExporterInv'
  BY ExporterStep
<1> QED  BY <1>1, <1>2, PTL DEF ExportSpec

\* Every value a scrape returns is of a poll no older than the last one that
\* Publish had finished when the scrape began, and a series that a finished
\* poll has set is there (ScrapeIsRecent).
THEOREM ScrapesAreRecent == ExportSpec => []ScrapeIsRecent
<1>1. ExporterInv => ScrapeIsRecent
  BY DEF ExporterInv
<1> QED  BY <1>1, ExporterInvariant, PTL

\* Between two scrapes the EMA timestamp of a zone neither disappears nor goes
\* back, as the comment of Publish says (TimestampPersists).
THEOREM TimestampsPersist == ExportSpec => []TimestampPersists
<1>1. ExporterInv => TimestampPersists
  BY DEF ExporterInv
<1> QED  BY <1>1, ExporterInvariant, PTL
=============================================================================
