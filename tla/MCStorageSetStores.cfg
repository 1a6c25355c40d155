CONSTANTS
  a = a
  b = b
  empty = empty
  Keys <- MCKeys
  KeySize <- MCKeySize
  EmptyKey = empty
  Values <- MCValues
  Ttls = {0, 1}
  kEntryOverhead = 1
  kMaxKeySize = 1
  max_value_size = 6
  memory_limit = 8
  BucketBytes <- MCBucketBytes
  ThrowPoints = {"blob"}
  MaxTime = 2
  MaxCalls = 4
SPECIFICATION Spec
PROPERTY SetStores
