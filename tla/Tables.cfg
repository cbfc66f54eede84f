CONSTANTS
  Inputs <- AllInputs
  Types = {"LR", "LALR", "CLR"}
  MaxWord = 4
  MaxOps = 3
SPECIFICATION FairSpec
CHECK_DEADLOCK FALSE
INVARIANTS TypeOK ItemSetsExact TablesParseTheLanguage ConflictsTold PrecedenceShapesTrees ParserTablesGenerated
PROPERTIES SetsOnlyGrow Terminates
