\* Two cards, three loads, two processors that share a work item.
CONSTANTS
  Devs = {d1, d2}
  CPUs = {c1, c2}
  MaxLoads = 3
  SerialFirst = TRUE
SPECIFICATION ShimSpec
INVARIANTS
  TeardownSafe
  UnloadClean
PROPERTY WorkQueued
CHECK_DEADLOCK FALSE
