----------------------------- MODULE TickSummary -----------------------------
(***************************************************************************)
(* What the exporter logs in a poll: the summary line of logsummary.go and  *)
(* the breakdown of drop reasons in publish of main.go, over the readings   *)
(* of the debug counters, which may fail.                                   *)
(*                                                                         *)
(* A body is a record of what its text shows; percents are counted in       *)
(* hundredths of a percent.  Of the counters only matters whether they have *)
(* grown since the last reading that succeeded.                             *)
(***************************************************************************)
EXTENDS Integers

CONSTANTS Zones,
          ZoneTicks,  \* what a tick may find for a zone: [seg, loss, ema]
          summaryHeartbeatTicks, \* 30
          BreakdownTicks,        \* 60
          MaxTick     \* bound on the number of ticks

ASSUME SummaryAssumption ==
  /\ ZoneTicks \subseteq [seg : Nat, loss : Nat, ema : Nat]
  /\ summaryHeartbeatTicks \in Nat \ {0} /\ BreakdownTicks \in Nat \ {0} /\ MaxTick \in Nat

VARIABLES tick, prevSummaryBody, lastSummaryTick, zeroPolls, \* of main
          fresh,   \* the counters have grown since the last reading
          unknown, \* events dropped for an unknown zone
          body,    \* history: the body of the last tick
          shown,   \* history: the body of the last line printed
          quiet,   \* history: ticks since the last line
          told,    \* history: a breakdown was printed and no traffic seen since
          hidden,  \* history: TCP packets were counted and no body since shows any
          logged   \* history: what the last tick printed, and if it saw no traffic

state == <<tick, prevSummaryBody, lastSummaryTick, zeroPolls, fresh, unknown>>
history == <<body, shown, quiet, told, hidden, logged>>
vars == <<state, history>>

NoBody == [zones |-> <<>>, warn |-> "none", unknown |-> 0]
NothingFresh == [tcp |-> FALSE, zoned |-> FALSE]

Init ==
  /\ tick = 0 /\ prevSummaryBody = NoBody /\ lastSummaryTick = 0 /\ zeroPolls = 0
  /\ fresh = NothingFresh
  /\ unknown = 0
  /\ body = NoBody /\ shown = NoBody /\ quiet = 0 /\ told = FALSE /\ hidden = FALSE
  /\ logged = [line |-> FALSE, silent |-> FALSE, read |-> FALSE]

-----------------------------------------------------------------------------
(* formatTickSummary *)

\* %.1f of a number of hundredths.
OneDecimal(v) == (v + 5) \div 10

ZoneText(o) ==
  IF o.seg = 0 /\ o.loss = 0 /\ o.ema = 0 THEN <<"idle">>
  ELSE <<OneDecimal(o.loss), OneDecimal(o.ema)>>

Warning(tcp, zoned) ==
  IF zoned THEN "none" ELSE IF tcp THEN "unzoned" ELSE "no-tcp"

formatTickSummary(obs, tcp, zoned, unk) ==
  [zones |-> [z \in Zones |-> ZoneText(obs[z])], warn |-> Warning(tcp, zoned), unknown |-> unk]

\* Mutant: within the heartbeat interval nothing is printed.
SilentUnlessDue(b, t) == t - lastSummaryTick < summaryHeartbeatTicks

\* Mutant: the heartbeat comes a tick early.
SilentShort(b, t) == b = prevSummaryBody /\ t - lastSummaryTick < summaryHeartbeatTicks - 1

\* Mutant: there is no heartbeat.
SilentWhileSame(b, t) == b = prevSummaryBody

\* The early return of emitTickSummary.
Silent(b, t) == b = prevSummaryBody /\ t - lastSummaryTick < summaryHeartbeatTicks

-----------------------------------------------------------------------------
(* publish *)

\* Mutant: traffic does not end the count of empty polls.
ZeroPollsNotReset(n) == n

\* Traffic was seen.
ZeroPollsReset(n) == 0

BreakdownDue(n) == n = 1 \/ n % BreakdownTicks = 0

\* Mutant: a reading that fails half way still moves prevTCP and prevZoned.
PrevMoved(tcp, zoned) == NothingFresh

\* After a failed reading prevTCP and prevZoned are what they were.
PrevKept(tcp, zoned) == [tcp |-> tcp, zoned |-> zoned]

\* One tick: obs is what the accumulator and the EMA store have for each zone,
\* tcp and zoned whether the kernel counted such packets since the last tick,
\* ok whether ReadDebugCounters succeeds, unk the new unknown events.
publish(obs, tcp, zoned, ok, unk) ==
  LET newTCP == fresh.tcp \/ tcp
      newZoned == fresh.zoned \/ zoned
      userSegs == \E z \in Zones : obs[z].seg > 0
      empty == ~userSegs /\ ~newTCP
      breakdown == ok /\ empty /\ BreakdownDue(zeroPolls + 1)
      b == formatTickSummary(obs, ok /\ newTCP, ok /\ newZoned, unknown + unk)
      line == ~Silent(b, tick + 1)
  IN  /\ tick < MaxTick
      /\ tick' = tick + 1
      /\ unknown' = unknown + unk
      /\ fresh' = IF ok THEN NothingFresh ELSE PrevKept(newTCP, newZoned)
      /\ zeroPolls' = IF ~ok THEN zeroPolls ELSE IF empty THEN zeroPolls + 1 ELSE ZeroPollsReset(zeroPolls)
      /\ prevSummaryBody' = IF line THEN b ELSE prevSummaryBody
      /\ lastSummaryTick' = IF line THEN tick' ELSE lastSummaryTick
      /\ body' = b
      /\ shown' = IF line THEN b ELSE shown
      /\ quiet' = IF line THEN 0 ELSE quiet + 1
      /\ told' = (breakdown \/ (told /\ ~(ok /\ ~empty)))
      /\ hidden' = ((hidden \/ tcp) /\ b.warn = "no-tcp")
      /\ logged' = [line |-> line, silent |-> ok /\ empty, read |-> ok]

Next ==
  \E obs \in [Zones -> ZoneTicks], tcp, zoned, ok \in BOOLEAN, unk \in {0, 1} :
    unknown + unk <= 1 /\ publish(obs, tcp, zoned, ok, unk)

Spec == Init /\ [][Next]_vars

-----------------------------------------------------------------------------

\* Every variable has its type.
TypeOK ==
  /\ tick \in 0..MaxTick /\ lastSummaryTick \in 0..tick /\ zeroPolls \in 0..tick
  /\ quiet \in 0..tick /\ told \in BOOLEAN /\ hidden \in BOOLEAN
  /\ fresh \in [tcp : BOOLEAN, zoned : BOOLEAN] /\ unknown \in {0, 1}

\* Whoever reads the log of the last summaryHeartbeatTicks ticks knows the
\* present body: a change is printed in the tick it happens, also in the tick
\* after a line and when it changes back, and a body that lasts is repeated.
LogIsCurrent == shown = body /\ quiet < summaryHeartbeatTicks

\* A line without a change comes only as the heartbeat, which counts from the
\* last line: a line at least every summaryHeartbeatTicks ticks, and no sooner.
LineOnChangeOrHeartbeat ==
  [][logged'.line => shown' # shown \/ quiet = summaryHeartbeatTicks - 1]_vars

\* A tick without traffic, by a reading that succeeded, has had its breakdown
\* of drop reasons in this tick or since traffic was last seen.
SilenceExplained == logged.silent => told

\* A reading that fails makes the body say "no-tcp" whatever the kernel has
\* counted.  The packets it hides are not lost to the log: the next reading
\* that succeeds, however many have failed, shows that there were some.
HiddenTrafficShows == logged.read => ~hidden

-----------------------------------------------------------------------------
(* What PublishProofs needs besides *)

\* emitTickSummary's memory is the last line of the log.
MemoryInv == prevSummaryBody = shown /\ quiet = tick - lastSummaryTick

\* A run of empty polls begins with a breakdown.
EmptyInv == zeroPolls > 0 => told

\* Traffic that no body shows is still to be read.
HiddenInv == hidden => fresh.tcp

SummaryInv ==
  /\ TypeOK /\ MemoryInv /\ EmptyInv /\ HiddenInv
  /\ LogIsCurrent /\ SilenceExplained /\ HiddenTrafficShows
=============================================================================
