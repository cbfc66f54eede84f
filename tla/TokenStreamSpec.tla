--------------------------- MODULE TokenStreamSpec ---------------------------
(***************************************************************************)
(* A client calling the operations of one BacktrackingTokenStream in any   *)
(* order.  It is the client the parser is: it attaches a source only to a  *)
(* stream whose last block is still empty (Parse::SetTokenStream after     *)
(* Parse::Create), and seeks only to indexes already read.                 *)
(***************************************************************************)
EXTENDS BacktrackingTokenStream, FiniteSets

CONSTANTS
  Indexes,  \* the indexes and counts clients ask for
  Lengths   \* the length limits clients ask for

ASSUME IndexesAssumption == Indexes \subseteq Nat /\ MaxSize \in Indexes
ASSUME LengthsAssumption == Lengths \subseteq Nat

VARIABLES
  stream,  \* the stream object
  result   \* what the last call returned

vars == <<stream, result>>

Answer(ok) == [ok |-> ok, token |-> EofToken]

Init ==
  /\ \E src \in Sources \union {NullSource} : stream = NewStream(src)
  /\ result = Answer(TRUE)

----------------------------------------------------------------------------
Attach(src) ==
  /\ stream' = ResetStream(stream, src)
  /\ result' = Answer(TRUE)

Mark(i) ==
  /\ stream' = SetMarker(stream, i)
  /\ result' = Answer(CanSetMarker(stream, i))

Release(i) ==
  /\ stream' = ReleaseMarker(stream, i)
  /\ result' = Answer(i \in Marked(stream))

ReleaseAll ==
  /\ stream' = ResetMarkers(stream)
  /\ result' = Answer(TRUE)

Backtrack(i, limit) ==
  /\ stream' = BacktrackToMarker(stream, i, limit)
  /\ result' = Answer(i \in Marked(stream))

SeekIndex(i) ==
  /\ stream' = SeekTo(stream, i)
  /\ result' = Answer(CanSeekTo(stream, i))

SeekCount(n) == SeekIndex(IndexBack(stream, n))

ToBufferEnd(limit) ==
  /\ stream' = AdvanceToBufferEnd(stream, limit)
  /\ result' = Answer(TRUE)

LimitLength(limit) ==
  /\ stream' = SetMaxStreamLength(stream, limit)
  /\ result' = Answer(TRUE)

GetToken ==
  /\ stream' = AfterNextToken(stream)
  /\ result' = [ok |-> TRUE, token |-> NextToken(stream)]

----------------------------------------------------------------------------
MarkerCalls ==
  \/ \E i \in Indexes : Mark(i) \/ Release(i)
  \/ ReleaseAll
  \/ \E i \in Indexes, limit \in Lengths : Backtrack(i, limit)

PositionCalls ==
  \/ \E limit \in Lengths : ToBufferEnd(limit) \/ LimitLength(limit)
  \/ GetToken

Next ==
  \/ \E src \in Sources \union {NullSource} :
       stream.blocks[stream.last].Count = 0 /\ Attach(src)
  \/ \E i \in Indexes : i <= stream.Pos /\ SeekIndex(i)
  \/ \E n \in Indexes : n <= GetTokenIndex(stream) /\ SeekCount(n)
  \/ MarkerCalls
  \/ PositionCalls

Spec == Init /\ [][Next]_vars

----------------------------------------------------------------------------
\* The type invariant: the cursor and the markers refer to blocks that have
\* not been freed, and the cursor to a slot of its block.
TypeOK ==
  /\ StreamType(stream)
  /\ result \in [ok : BOOLEAN, token : TokenValues]

\* The blocks of the list cover the tokens from the first block's index to
\* Pos without gap or overlap, all full but the last one, and every token
\* stands where the source delivered it (GetNextToken, ReleaseExtraBuffers).
BufferFaithful == Contiguous(stream) /\ Recorded(stream)

\* A marked index can be returned to until its marker is released: its block
\* is still in the list and is the one that holds, or will hold, its token
\* (SetMarker's choice of block against ReleaseExtraBuffers).
MarkersLive == MarkersHold(stream)

\* The last RememberLength tokens can be sought back to, marker or not: what
\* Parse::DoParse's SeekBack(1) after an error relies on.
RememberedKept == Remembers(stream)

\* Every block allocation frees the blocks that only hold tokens nobody can
\* ask for: the first block left is the current one, or holds a token that is
\* marked or remembered.
BlocksReclaimed ==
  [][stream'.last > stream.last =>
       \/ stream'.first = stream'.this
       \/ ~ UpToLastIndex(stream', stream'.blocks[stream'.first].Index + BufferSize)]_vars

\* The stream does what TokenWindow promises: see there.
Window == INSTANCE TokenWindow WITH
            source <- stream.source,
            read   <- stream.Pos,
            cursor <- GetTokenIndex(stream),
            floor  <- stream.blocks[stream.first].Index,
            marks  <- Marked(stream),
            cutOff <- stream.LengthLeft = 0,
            result <- result

WindowSpec == Window!Spec
=============================================================================
