CONSTANTS
  Long = Long
  Short = Short
  NullSource = NullSource
  Sources = {Long, Short}
  SourceLength <- MCSourceLength
  BufferSize = 2
  RememberLength = 1
  MaxSize = 15
  Indexes <- MCIndexes
  Lengths <- MCLengths
SPECIFICATION Spec
INVARIANTS TypeOK BufferFaithful MarkersLive RememberedKept
PROPERTIES BlocksReclaimed WindowSpec
