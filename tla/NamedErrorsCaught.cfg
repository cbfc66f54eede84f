\* An error thrown before it is caught for the first time.
SPECIFICATION Spec
CONSTANTS
  Files <- GrammarFiles
  MaxLoads = 1
INVARIANT NamedErrorsCaught
CHECK_DEADLOCK FALSE
