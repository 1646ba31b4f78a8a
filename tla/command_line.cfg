SPECIFICATION Spec
CONSTANTS
  MaxArgs = 3
  Lines <- MCLines
  Numerals <- MCNumerals
INVARIANTS
  TypeOK
  ArgumentsPartitioned
  HelpWins
  OptionsFromLine
  CompletionAgrees
PROPERTY
  ArgsDecide
CHECK_DEADLOCK FALSE
