SPECIFICATION Spec
CONSTANTS
  MaxText = 5
  MaxDigits = 4
  Texts <- MCTexts
  Delim = ","
  UINT32_MAX = 15
  UINT64_MOD = 256
INVARIANTS
  ViewInside
  SearchesAgree
  FieldsJoin
  NumberExact
CHECK_DEADLOCK FALSE
