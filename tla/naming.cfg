SPECIFICATION Spec
CONSTANTS
  Chars = {"a", "x", "A", "-", "."}
  MaxInput = 5
  MaxLen = 10
  HashLen = 1
  HashSize = 16
  Offset = 5
  Prime = 3
  BitXor <- ExclusiveOr
INVARIANTS HostNameIsLabel SanitizeMeaning InjectiveOnPlainNames
CHECK_DEADLOCK FALSE
