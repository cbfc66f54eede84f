\* Grammar files of all kinds, loaded, cleared and loaded again.
SPECIFICATION Spec
CONSTANTS
  Files <- GrammarFiles
  MaxLoads = 2
INVARIANT TypeOK
INVARIANT TokensNamed
INVARIANT ProductionsAsWritten
INVARIANT SymbolsDistinct
INVARIANT SoundFilesLoad
INVARIANT PrecedenceRises
CHECK_DEADLOCK FALSE
