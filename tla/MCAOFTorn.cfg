CONSTANTS
  Keys = {a, b}
  Values = {v, w}
  None = None
  MaxCommands = 4
  MaxCrashes = 2
  MaxFaults = 0
SPECIFICATION Spec
INVARIANT TornTailSkipped
