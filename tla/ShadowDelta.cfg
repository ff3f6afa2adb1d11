\* Two keys, one of whose handlers makes a request; every call of the library.
SPECIFICATION Spec
CONSTANTS
  Keys = {k1, k2}
  NestingKeys = {k2}
  Values = {v0, v1}
  Unreadable = Unreadable
  Initial = v0
  MaxTokens = 2
  MaxVersion = 2
  MaxInFlight = 2
INVARIANTS VersionWasTold HoldsWhatWasTold SteadyIsHeard
PROPERTIES NoOldDelta
