CONSTANTS
  MaxHeader = 4
  MaxDigits = 2
  kMaxArgs = 2
  max_bulk_len = 2
  Verbs <- MCVerbs
  Streams <- MCStreams
  Inputs <- MCInputs
  Args <- MCArgs
  Size <- MCSize
  ExWords = {"ex"}
  PxWords = {"PX"}
  Spelled <- MCSpelled
  LineEnds <- MCLineEnds
  kMaxKeySize = 4
  max_value_size = 4
  Room = 7
  MaxInt = 5000
  MaxCommands = 2
  Commands <- MCLogged
  Characters = {65, 47, 61, 34}
  MaxDamage = 2
SPECIFICATION ProtocolSpec
INVARIANTS SameAsWhole HeldBounded ReadsBack NothingGlossedOver
PROPERTIES InputUsedUp SetAsDocumented RefusedWithoutTrace
CHECK_DEADLOCK FALSE
