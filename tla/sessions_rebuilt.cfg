CONSTANTS
  Devices = {a, b}
  Linked = {a}
  MaxSends = 4
  MaxMisses = 1
  NoKey = NoKey
SPECIFICATION Spec
INVARIANT EveryMessageOpens
CHECK_DEADLOCK FALSE
