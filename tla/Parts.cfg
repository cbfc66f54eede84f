CONSTANTS
  \* The table and the productions it was generated from.
  States <- PartStates
  Terminals <- PartTerminals
  NonTerminals = {0, 1, 2, 3}
  Productions = {0, 1, 2, 3, 4, 5, 6, 7, 8, 9}
  ActionTable <- PartActions
  GotoTable <- PartGotos
  ReduceProductions <- PartProductions
  ThrownTerminal <- NoThrows
  ErrorTerminals = {0}
  RecordStates = {}
  BacktrackStates = {}
  StartStates <- PartStarts
  InitialState = 0
  Rhs <- PartRhs
  Lefts <- PartLefts
  StartSymbols = {0, 1}
  Nesting = 10
  \* The inputs.
  MaxTokens = 4
  NullSource = NullSource
  Sources <- Words
  SourceLength <- WordLength
  SourceCodes <- WordCodes
  \* The sizes of the stack and the token buffer.
  StackSize = 8
  BufferSize = 2
  RememberLength = 1
  MaxSize = 31
SPECIFICATION FairSpec
CHECK_DEADLOCK FALSE
INVARIANTS ViablePrefix
PROPERTIES NoValueLeaks
