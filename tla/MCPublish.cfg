SPECIFICATION PublishSpec
CONSTANTS
  Zones = {"f"}
  ZoneTicks <- MCZoneTicks
  summaryHeartbeatTicks = 3
  BreakdownTicks = 4
  MaxTick = 10
  NZones = 1
  Percents = {0, 1239}
  MaxPolls = 3
  MaxScrapes = 2
CHECK_DEADLOCK FALSE
INVARIANTS
  LogIsCurrent
  SilenceExplained
  HiddenTrafficShows
  ScrapeIsRecent
  TimestampPersists
PROPERTIES
  LineOnChangeOrHeartbeat
