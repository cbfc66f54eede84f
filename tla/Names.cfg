CONSTANTS
  \* The table and the productions it was generated from.
  States <- NameStates
  Terminals <- NameTerminals
  NonTerminals = {0, 1, 2, 3}
  Productions = {0, 1, 2, 3, 4, 5, 6}
  ActionTable <- NameActions
  GotoTable <- NameGotos
  ReduceProductions <- NameProductions
  ThrownTerminal <- NameThrows
  ErrorTerminals = {0, 5}
  RecordStates = {0, 4}
  BacktrackStates = {}
  StartStates <- NameStarts
  InitialState = 0
  Rhs <- NameRhs
  Lefts <- NameLefts
  StartSymbols = {0}
  Nesting = 10
  \* The inputs.
  MaxTokens = 5
  NullSource = NullSource
  Sources <- Words
  SourceLength <- WordLength
  SourceCodes <- WordCodes
  \* The sizes of the stack and the token buffer.
  StackSize = 8
  BufferSize = 2
  RememberLength = 1
  MaxSize = 31
SPECIFICATION FairSpec
CHECK_DEADLOCK FALSE
INVARIANTS StreamSound
PROPERTIES NoMarkerLeaks PromiseSpec Terminates
