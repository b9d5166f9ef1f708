SPECIFICATION MCSpec
CONSTANTS
  fault = fault
  started = started
  s1 = s1
  s2 = s2
  w1 = w1
  w2 = w2
  Events <- TwoEvents
  StreamOf <- StreamPlaces
  Streams = 2
  Readable = {fault}
  Subs <- TwoSubs
  Enabled = {s1}
  Wanted <- WantedOnes
  Window = 1
  Chunk = 1
  FailLimit = 2
  MaxFaults = 2
  Reports = {1, 2}
  Workers = {w1, w2}
  BatchSize = 2
  MaxClaims = 4
INVARIANT GoneWasTaken
PROPERTIES RecordedIsTaken DeliveredIsFinal
CHECK_DEADLOCK FALSE
