SPECIFICATION Spec
CONSTANTS
  small = small
  full = full
  Router <- MCRouter
  Decimal <- MCDecimal
  Device = {small, full}
  MaxAdp = 3
  Ports <- MCPorts
  MaxPlugs = 1
INVARIANTS LookupFailsSafely
