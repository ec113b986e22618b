CONSTANTS
  Devices = {d1, d2}
  Stations = {s1}
  Neighbours = {n1}
  Bytes <- MCBytes
  Latencies <- MCLatencies
  MaxClock = 3
  None = None
SPECIFICATION Spec
INVARIANTS GraphOfLastMessage LinksDrawn HealthInRange
PROPERTIES RatesFromConsecutiveMessages
