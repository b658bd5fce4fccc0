SPECIFICATION SampledSpec
CONSTANTS
  Slugs = {i1, i2}
  Replicas = {a, b}
  Passes = {n1, n2}
  LastQuarter = 1
  Retention = 1
  MaxStarts = 1
INVARIANTS
  OneSamplePerQuarter
CHECK_DEADLOCK FALSE
