SPECIFICATION Spec
CONSTANTS
  Chars = {"a", "x", "-"}
  MaxInput = 5
  MaxLen = 12
  HashLen = 1
  HashSize = 16
  Offset = 5
  Prime = 3
  BitXor <- ExclusiveOr
INVARIANTS InjectiveWithinLimit
CHECK_DEADLOCK FALSE
