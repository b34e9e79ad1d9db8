SPECIFICATION GuardSpec
CONSTANTS
  None = None
  Names <- MCNames
  Queryable = {"Sales", "Ratio"}
  Canonical <- MCCanonical
  Synonyms <- MCSynonyms
  AggregateCalcs = {"Ratio"}
  Words <- MCWords
  Proper <- MCProper
  Sums = {"SUM"}
  Arguments <- MCArguments
  MaxLimit = 2
  MaxTimeout = 2
  MaxWidth = 2
INVARIANTS
  ExecutesSafely
  AddsNothing
  GuardsAgree
CHECK_DEADLOCK FALSE
