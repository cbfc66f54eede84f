CONSTANTS
  \* The table and the productions it was generated from.
  States <- StatementStates
  Terminals <- StatementTerminals
  NonTerminals = {0, 1}
  Productions = {0, 1, 2, 3, 4}
  ActionTable <- StatementActions
  GotoTable <- StatementGotos
  ReduceProductions <- StatementProductions
  ThrownTerminal <- NoThrows
  ErrorTerminals = {0}
  RecordStates = {}
  BacktrackStates = {}
  StartStates <- StatementStarts
  InitialState = 0
  Rhs <- StatementRhs
  Lefts <- StatementLefts
  StartSymbols = {0}
  Nesting = 10
  \* The inputs.
  MaxTokens = 2
  NullSource = NullSource
  Sources <- Words
  SourceLength <- WordLength
  SourceCodes <- WordCodes
  \* The sizes of the stack and the token buffer.
  StackSize = 8
  BufferSize = 2
  RememberLength = 1
  MaxSize = 31
SPECIFICATION SpecReuse
CHECK_DEADLOCK FALSE
INVARIANT InputIsCurrent
