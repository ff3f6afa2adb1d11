SPECIFICATION FairSpec
CONSTANTS
  ClockModulus = 5
  MaxTimeout = 4
  CertFiles = {ca, cert}
  Timeouts = {1, 3}
  MaxEvents = 2
INVARIANTS FlagTruthful ConnectsPrepared NothingLeaked TellsTimeLeft
PROPERTIES StartUpEnds ReadingEnds
