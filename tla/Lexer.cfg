CONSTANTS
  Inputs <- AllInputs
  LastChar = 4
  NewLine = 3
  CarriageReturn = 4
  Escapes <- EscapedLetters
  MaxWord = 3
SPECIFICATION FairSpec
CHECK_DEADLOCK FALSE
INVARIANTS TypeOK StackMeansPrefix NodesOwnedOnce TableRecognisesLexemes
PROPERTY Terminates
