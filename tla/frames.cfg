SPECIFICATION Spec
CONSTANTS
  Types = {1}
  Bytes = {1}
  MaxPayload = 6
  Longest = 1
  MaxChunk = 6
  MaxSent = 4
INVARIANTS TypeOK DeliversPrefix LegalAccepted
PROPERTIES Arrives
CHECK_DEADLOCK FALSE
