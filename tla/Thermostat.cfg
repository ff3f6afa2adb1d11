\* Both threads, the link and the service; two wishes, one of which wraps.
SPECIFICATION FairSpec
CONSTANTS
  SizeModulus = 65536
  Readings <- MCReadings
  Unreadable <- MCUnreadable
  Wishes = {0, 257}
  PwmPeriod = 50
  MaxDelay = 2
  MaxInFlight = 2
INVARIANTS DutyInRange IInv DocumentsFit
PROPERTIES HeaterFollows WishApplied
