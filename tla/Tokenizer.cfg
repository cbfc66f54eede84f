CONSTANTS
  \* The automaton.
  DFAStates = {0, 1, 2, 3, 4, 5, 6, 7, 8, 9, 10, 11, 12, 13}
  EmptyTransition = 65535
  Transition <- ModeTransition
  AcceptState <- ModeAccept
  Lexemes = {2, 3, 4, 5, 6, 7, 8, 9, 10}
  LexemeInfo <- ModeLexemes
  Expressions = {0, 1}
  StartState <- ModeStart
  \* The streams.
  Bytes <- AllBytes
  AnyLength = 4
  TextLength = 5
  Inputs <- TwoStreams
  NoStream = NoStream
  \* Bytes in a block.
  BlockSize = 2
SPECIFICATION FairSpec
CHECK_DEADLOCK FALSE
INVARIANTS TypeOK TextKept PositionFollowsText
PROPERTIES MunchSpec ReachesEnd
