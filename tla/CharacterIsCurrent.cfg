CONSTANTS
  \* The automaton.
  DFAStates = {0, 1, 2, 3, 4, 5}
  EmptyTransition = 65535
  Transition <- ContinuedTransition
  AcceptState <- ContinuedAccept
  Lexemes = {2, 3, 4, 5}
  LexemeInfo <- ContinuedLexemes
  Expressions = {0}
  StartState <- ContinuedStart
  \* The streams.
  Bytes <- AllBytes
  AnyLength = 2
  TextLength = 4
  Inputs <- OneStream
  NoStream = NoStream
  \* Bytes in a block.
  BlockSize = 2
SPECIFICATION Spec
CHECK_DEADLOCK FALSE
INVARIANTS CharacterIsCurrent
