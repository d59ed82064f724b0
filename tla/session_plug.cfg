SPECIFICATION Spec
CONSTANTS
  Device = {d1, d2, d3}
  Host = d1
  MaxPlugs = 1
  Corruption = FALSE
  UnsafeMode = FALSE
INVARIANTS AllListedUnbound
