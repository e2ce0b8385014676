CONSTANTS
  first = first
  second = second
  Services = {first, second}
  Deployments <- Pairs
  MaxTries = 2
  MaxOutages = 1
  MaxStops = 1
  MaxRequests = 1
  Users = {u1, u2}
  SetupConcurrency = 1
  EnableSSE = TRUE
  MaxProbes = 2
  MaxActions = 3
  MaxConnects = 2
SPECIFICATION MCSpec
INVARIANTS
  ServingIsEquipped
  ListMatchesService
PROPERTIES
  EveryServiceGetsReady
  EveryStopEnds
  RunEnds
CHECK_DEADLOCK FALSE
