------------------------------- MODULE Exporter -------------------------------
(***************************************************************************)
(* The gauges of internal/metrics/exporter.go.  Publish sets them one after *)
(* the other, zone by zone, while a scrape of /metrics reads them one after *)
(* the other in whatever order the registry's collectors run.  Nothing      *)
(* makes either of them atomic.                                             *)
(*                                                                         *)
(* With(labels) creates a series with the value 0 if there is none, and     *)
(* Set then gives it its value: two steps.  A scrape first lists the series *)
(* of a gauge vector and reads their values afterwards.  Scrapes come one   *)
(* after the other.  Percents are counted in thousandths.                   *)
(***************************************************************************)
EXTENDS Integers, Sequences

CONSTANTS NZones,    \* remote zones
          Percents,  \* percents the EMA store may compute
          MaxPolls,  \* bound on the number of polls
          MaxScrapes \* bound on the number of scrapes

ASSUME ExporterAssumption ==
  /\ NZones \in Nat \ {0} /\ Percents \subseteq Nat
  /\ MaxPolls \in Nat /\ MaxScrapes \in Nat

ZoneNumbers == 1..NZones
Vectors == {"percent", "percentEMA", "emaTimestamp"}
IsZero == 0 \* the zero time.Time; a poll's time is its number
Absent == -1

VARIABLES states,  \* history: the ZoneStates of every poll begun
          done,    \* number of polls published completely
          pub,     \* Publish: waiting or setting, the zone and gauge vector, the zones left
          gauges,  \* the value of each series, or Absent
          scrape,  \* the scrape in progress
          before,  \* the timestamps of the scrape before the last one
          scraped, \* what the last scrape found
          scrapes  \* number of scrapes so far

poll == <<states, done, pub>>
reading == <<scrape, before, scraped, scrapes>>
exportVars == <<poll, gauges, reading>>

NoSeries == [v \in Vectors |-> [z \in ZoneNumbers |-> Absent]]
NoScrape == [pc |-> "idle", from |-> 0, todo |-> {}, found |-> NoSeries]
NothingScraped == [from |-> 0, to |-> 0, found |-> NoSeries]

NewExporter == NoSeries

Waiting == [pc |-> "wait", zone |-> 1, left |-> {}, vector |-> "percent"]

ExportInit ==
  /\ states = <<>> /\ done = 0
  /\ pub = Waiting
  /\ gauges = NewExporter
  /\ scrape = NoScrape /\ before = NoSeries["emaTimestamp"] /\ scraped = NothingScraped /\ scrapes = 0

-----------------------------------------------------------------------------
(* Publish *)

\* What the poll before left of a zone: nothing, the first time.
Before(z) ==
  IF states = <<>> THEN [percent |-> 0, percentEMA |-> 0, emaTimestamp |-> IsZero]
  ELSE states[Len(states)][z]

\* What EMAStore.Update makes of a zone: held, or updated now (see EMAStore).
ZoneStates(z) ==
  {Before(z)} \union
    [percent : Percents, percentEMA : Percents, emaTimestamp : {Len(states) + 1}]

\* Mutant: the gauges are reset before they are set.
GaugesReset == NoSeries

GaugesKept == gauges

\* Snapshot lists the zones in the order of a Go map: the next is any of them.
ZoneOf(zones) == {[pc |-> "set", zone |-> z, left |-> zones \ {z}, vector |-> "percent"] : z \in zones}

Publish ==
  /\ pub.pc = "wait" /\ Len(states) < MaxPolls
  /\ \E snap \in [ZoneNumbers -> UNION {ZoneStates(z) : z \in ZoneNumbers}] :
       /\ \A z \in ZoneNumbers : snap[z] \in ZoneStates(z)
       /\ states' = Append(states, snap)
  /\ gauges' = GaugesKept
  /\ pub' \in ZoneOf(ZoneNumbers)
  /\ UNCHANGED <<done, reading>>

floorToTwoDecimals(v) == (v \div 10) * 10

\* The value a state has for a gauge.
ValueIn(st, v) == IF v = "emaTimestamp" THEN st[v] ELSE floorToTwoDecimals(st[v])

Current == states[Len(states)][pub.zone]

\* Mutant: a zone without loss is passed over.
SetIfLoss(st, v) ==
  v = "percent" \/ (v = "percentEMA" /\ st.percent # 0) \/ (v = "emaTimestamp" /\ st.emaTimestamp # IsZero)

\* The timestamp of a zone that never had traffic is not set.
IsSet(st, v) == v = "emaTimestamp" => st.emaTimestamp # IsZero

NextVector(v) == IF v = "percent" THEN "percentEMA" ELSE "emaTimestamp"

\* The step after one gauge: the next gauge, the next zone, or the end.
NextGauge ==
  IF pub.vector # "emaTimestamp" THEN {[pub EXCEPT !.vector = NextVector(@)]}
  ELSE IF pub.left # {} THEN ZoneOf(pub.left)
  ELSE {Waiting}

Advance ==
  /\ pub' \in NextGauge
  /\ done' = IF pub'.pc = "wait" THEN Len(states) ELSE done

\* With(labels) on a series that does not exist yet creates it ...
With ==
  /\ pub.pc = "set" /\ IsSet(Current, pub.vector)
  /\ gauges[pub.vector][pub.zone] = Absent
  /\ gauges' = [gauges EXCEPT ![pub.vector][pub.zone] = 0]
  /\ UNCHANGED <<poll, reading>>

\* ... and Set gives it its value.
Set ==
  /\ pub.pc = "set" /\ IsSet(Current, pub.vector)
  /\ gauges[pub.vector][pub.zone] # Absent
  /\ gauges' = [gauges EXCEPT ![pub.vector][pub.zone] = ValueIn(Current, pub.vector)]
  /\ Advance
  /\ UNCHANGED <<states, reading>>

Skip ==
  /\ pub.pc = "set" /\ ~IsSet(Current, pub.vector)
  /\ Advance
  /\ UNCHANGED <<states, gauges, reading>>

-----------------------------------------------------------------------------
(* A scrape: promhttp gathers the three gauge vectors *)

Series(v) == {<<v, z>> : z \in {y \in ZoneNumbers : gauges[v][y] # Absent}}

StartScrape ==
  /\ scrape.pc = "idle" /\ scrapes < MaxScrapes
  /\ scrapes' = scrapes + 1
  /\ scrape' = [pc |-> "gather", from |-> done, todo |-> {<<v>> : v \in Vectors}, found |-> NoSeries]
  /\ UNCHANGED <<poll, gauges, before, scraped>>

\* A collector lists the series of its vector ...
Collect(v) ==
  /\ scrape.pc = "gather" /\ <<v>> \in scrape.todo
  /\ scrape' = [scrape EXCEPT !.todo = (@ \ {<<v>>}) \union Series(v)]
  /\ UNCHANGED <<poll, gauges, before, scraped, scrapes>>

\* ... whose values are read later, in any order.
Read(v, z) ==
  /\ scrape.pc = "gather" /\ <<v, z>> \in scrape.todo
  /\ scrape' = [scrape EXCEPT !.todo = @ \ {<<v, z>>}, !.found[v][z] = gauges[v][z]]
  /\ UNCHANGED <<poll, gauges, before, scraped, scrapes>>

EndScrape ==
  /\ scrape.pc = "gather" /\ scrape.todo = {}
  /\ before' = scraped.found["emaTimestamp"]
  /\ scraped' = [from |-> scrape.from, to |-> Len(states), found |-> scrape.found]
  /\ scrape' = NoScrape
  /\ UNCHANGED <<poll, gauges, scrapes>>

ExportNext ==
  \/ Publish \/ With \/ Set \/ Skip
  \/ StartScrape
  \/ \E v \in Vectors : Collect(v) \/ \E z \in ZoneNumbers : Read(v, z)
  \/ EndScrape

ExportSpec == ExportInit /\ [][ExportNext]_exportVars

-----------------------------------------------------------------------------

Position ==
  {p \in [pc : {"wait", "set"}, zone : ZoneNumbers, left : SUBSET ZoneNumbers, vector : Vectors] :
     p.zone \notin p.left}
ZoneState == [percent : Nat, percentEMA : Nat, emaTimestamp : Nat]
Items == {<<v>> : v \in Vectors} \union Vectors \X ZoneNumbers
Found == [Vectors -> [ZoneNumbers -> Int]]

\* Every variable has its type.
ExportTypeOK ==
  /\ states \in Seq([ZoneNumbers -> ZoneState]) /\ done \in 0..Len(states) /\ Len(states) <= MaxPolls
  /\ pub \in Position /\ gauges \in Found
  /\ scrape \in [pc : {"idle", "gather"}, from : Nat, todo : SUBSET Items, found : Found]
  /\ before \in [ZoneNumbers -> Int] /\ scraped \in [from : Nat, to : Nat, found : Found]
  /\ scrapes \in 0..MaxScrapes

\* A poll has a value for every series but the timestamp of a zone without
\* traffic so far.
HasValue(st, v) == v # "emaTimestamp" \/ st.emaTimestamp # IsZero

\* What a series may show when the p-th poll was the last to set it: before it
\* has a value it is absent, or just created.
Shows(p, v, z) ==
  IF p > 0 /\ HasValue(states[p][z], v) THEN {ValueIn(states[p][z], v)} ELSE {Absent, 0}

\* What the polls that a scrape can see say of a series: those from the last
\* one published completely when it began to the last one begun when it ended.
Visible(from, to, v, z) == UNION {Shows(p, v, z) : p \in from..to}

\* However a scrape interleaves with polls, every value it returns is that of
\* a poll no older than the last one complete when the scrape began: no
\* series misses an update for good and none is missing once published.
ScrapeIsRecent ==
  \A v \in Vectors, z \in ZoneNumbers : scraped.found[v][z] \in Visible(scraped.from, scraped.to, v, z)

\* internal/metrics/exporter.go:56-59: the timestamp of a silent zone
\* "persists across polls instead of disappearing and reappearing".  From one
\* scrape to the next a timestamp neither vanishes nor goes back.
TimestampPersists ==
  \A z \in ZoneNumbers : before[z] <= scraped.found["emaTimestamp"][z]

-----------------------------------------------------------------------------
(* What the proofs need besides *)

\* Timestamps never go back, and none is of a poll to come.
PollInv ==
  /\ done = IF pub.pc = "wait" THEN Len(states) ELSE Len(states) - 1
  /\ \A z \in ZoneNumbers : \A q \in 1..Len(states) :
       /\ states[q][z].emaTimestamp <= q
       /\ \A p \in 1..q : states[p][z].emaTimestamp <= states[q][z].emaTimestamp

\* The poll that set a series last is the one in progress or the one before.
Passed(v, z) ==
  \/ pub.pc = "wait" \/ z \notin pub.left \union {pub.zone}
  \/ z = pub.zone /\ v # pub.vector /\ (v = "percent" \/ pub.vector = "emaTimestamp")
LastPoll(v, z) == IF Passed(v, z) THEN Len(states) ELSE Len(states) - 1

GaugeInv == \A v \in Vectors, z \in ZoneNumbers : gauges[v][z] \in Shows(LastPoll(v, z), v, z)

\* A series of a vector that was listed, and that is not still to be read, was
\* read since the scrape began, or was absent.
GatherInv ==
  scrape.pc = "gather" =>
    /\ scrape.from <= done
    /\ \A v \in Vectors, z \in ZoneNumbers :
         /\ <<v>> \in scrape.todo => scrape.found[v][z] = Absent /\ <<v, z>> \notin scrape.todo
         /\ <<v>> \notin scrape.todo /\ <<v, z>> \notin scrape.todo =>
              scrape.found[v][z] \in Visible(scrape.from, Len(states), v, z)

\* A timestamp is no later than the gauge's, and no earlier than the last scrape's.
TimestampInv ==
  \A z \in ZoneNumbers :
    /\ scraped.found["emaTimestamp"][z] <= gauges["emaTimestamp"][z]
    /\ scrape.pc = "gather" =>
         /\ scrape.found["emaTimestamp"][z] <= gauges["emaTimestamp"][z]
         /\ <<"emaTimestamp">> \notin scrape.todo /\ <<"emaTimestamp", z>> \notin scrape.todo =>
              scraped.found["emaTimestamp"][z] <= scrape.found["emaTimestamp"][z]

ExporterInv ==
  /\ ExportTypeOK /\ PollInv /\ GaugeInv /\ GatherInv /\ TimestampInv
  /\ scraped.to <= Len(states) /\ ScrapeIsRecent /\ TimestampPersists
=============================================================================
