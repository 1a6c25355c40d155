CONSTANTS
  a = a
  b = b
  c = c
  empty = empty
  nullptr = nullptr
  Keys <- MCKeys
  KeySize <- MCKeySize
  EmptyKey = empty
  Sizes = {0, 3}
  MaxCalls = 7
SPECIFICATION PoliciesSpec
INVARIANTS LRUSound RecencyOrder LFUSound SIEVESound
PROPERTIES EvictsLeastRecent ImplementsPolicy LFUEvicts SIEVEEvicts
CHECK_DEADLOCK FALSE
