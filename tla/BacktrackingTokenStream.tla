---------------------- MODULE BacktrackingTokenStream ----------------------
(***************************************************************************)
(* The token buffer between a tokenizer and the parser                     *)
(* (src/src/Parser/BacktrackingTokenStream.h).  Tokens read from a source  *)
(* are kept in a linked list of fixed-size blocks so that the parser can   *)
(* seek back to a marker; blocks nobody can seek to any more are freed.    *)
(*                                                                         *)
(* Every public operation is an operator from a stream object to the       *)
(* stream object after the call, so that TokenStreamSpec can let a client  *)
(* call them in any order and Parse can compose them into its steps.       *)
(*                                                                         *)
(* Operators named Faulty... are the mutants of PROJECT.json: what a       *)
(* plausible slip in the code would make of the operator after them.       *)
(***************************************************************************)
EXTENDS Integers

CONSTANTS
  BufferSize,      \* tokens per block (512 in the code)
  RememberLength,  \* tokens before the furthest position kept without marker
  MaxSize,         \* size_t(-1): also "no length limit" and "no index"
  Sources,         \* the token sources a stream can be attached to
  NullSource,      \* no source attached
  SourceLength     \* tokens each source delivers before its end of file

ASSUME BufferSizeAssumption == BufferSize \in Nat \ {0}
ASSUME RememberAssumption   == RememberLength \in Nat
ASSUME SourceAssumption     == /\ NullSource \notin Sources
                               /\ SourceLength \in [Sources -> Nat]
ASSUME MaxSizeAssumption    == /\ MaxSize \in Nat \ {0}
                               /\ \A src \in Sources : SourceLength[src] + 1 < MaxSize

InvalidIndex == MaxSize

(***************************************************************************)
(* Tokens.  A token is named by the source it came from and its position   *)
(* there, the one after the last being the source's end of file;           *)
(* EofToken is a default-constructed token.                                *)
(***************************************************************************)
EofToken == <<NullSource, 0>>

SourceToken(src, n) == <<src, n>>

TokenValues == {EofToken} \union
               UNION {{SourceToken(src, n) : n \in 1 .. (SourceLength[src] + 1)} : src \in Sources}

IsEOF(tok) ==
  \/ tok = EofToken
  \/ tok[1] \in Sources /\ tok[2] = SourceLength[tok[1]] + 1

(***************************************************************************)
(* Stream objects.  Blocks are numbered in the order they are allocated:   *)
(* the list runs from block first to block last, and the pNext of a block  *)
(* is the block numbered one more.  Markers maps a marked index to the     *)
(* block it lies in.  delivered counts the tokens the source has handed    *)
(* out.                                                                    *)
(***************************************************************************)
FaultyNewBlock(index) == [Index  |-> 0,
                          Count  |-> 0,
                          Tokens |-> [i \in 0 .. (BufferSize - 1) |-> EofToken]]

NewBlock(index) == [Index  |-> index,
                    Count  |-> 0,
                    Tokens |-> [i \in 0 .. (BufferSize - 1) |-> EofToken]]

NoMarkers == [i \in {} |-> 0]

NewStream(src) ==
  [source        |-> src,
   delivered     |-> 0,
   blocks        |-> [b \in {1} |-> NewBlock(0)],
   first         |-> 1,
   last          |-> 1,
   this          |-> 1,
   ThisPos       |-> 0,
   LengthLeft    |-> IF src = NullSource THEN 0 ELSE MaxSize,
   Pos           |-> 0,
   SourceEOFFlag |-> FALSE,
   Markers       |-> NoMarkers]

Marked(s) == DOMAIN s.Markers

GetTokenIndex(s) == s.ThisPos + s.blocks[s.this].Index

\* LengthLeft after a call that asks for streamLength more tokens.
LengthFor(s, streamLength) == IF s.source = NullSource THEN 0 ELSE streamLength

\* Only the last block survives, and it keeps its Count and its tokens.  With
\* no reference left to a block, the numbering starts over.
ResetStream(s, src) ==
  [s EXCEPT !.source        = src,
            !.delivered     = 0,
            !.blocks        = [b \in {1} |-> [s.blocks[s.last] EXCEPT !.Index = 0]],
            !.first         = 1,
            !.last          = 1,
            !.this          = 1,
            !.ThisPos       = 0,
            !.LengthLeft    = IF src = NullSource THEN 0 ELSE MaxSize,
            !.Pos           = 0,
            !.SourceEOFFlag = FALSE,
            !.Markers       = NoMarkers]

(***************************************************************************)
(* Freeing blocks.  A block goes when every block up to it lies before     *)
(* the oldest index that has to stay: RememberLength back from the         *)
(* furthest position, or the earliest marker.                              *)
(***************************************************************************)
RememberedIndex(s) == IF s.Pos > RememberLength THEN s.Pos - RememberLength ELSE 0

BeforeAllMarkers(s, i) == \A m \in Marked(s) : i <= m

FaultyUpToLastIndex(s, i) == i <= RememberedIndex(s)

FaultyForgetsAtOnce(s, i) == i <= s.Pos /\ BeforeAllMarkers(s, i)

\* i <= lastIndex and i < lastIndex, where lastIndex is the smaller of the
\* two bounds.
UpToLastIndex(s, i) == i <= RememberedIndex(s) /\ BeforeAllMarkers(s, i)

BelowLastIndex(s, i) == UpToLastIndex(s, i + 1)

FaultyReleasable(s, b) ==
  /\ b # s.last
  /\ \A c \in s.first .. b : c # s.this /\ BelowLastIndex(s, s.blocks[c + 1].Index)

Releasable(s, b) ==
  /\ b # s.last
  /\ \A c \in s.first .. b : /\ c # s.this
                             /\ BelowLastIndex(s, s.blocks[c].Index)
                             /\ UpToLastIndex(s, s.blocks[c + 1].Index)

FirstKept(s) ==
  CHOOSE b \in s.first .. s.last :
    /\ ~ Releasable(s, b)
    /\ \A c \in s.first .. (b - 1) : Releasable(s, c)

ReleaseExtraBuffers(s) ==
  [s EXCEPT !.first  = FirstKept(s),
            !.blocks = [b \in FirstKept(s) .. s.last |-> s.blocks[b]]]

(***************************************************************************)
(* Markers                                                                 *)
(***************************************************************************)
ResetMarkers(s) == ReleaseExtraBuffers([s EXCEPT !.Markers = NoMarkers])

CanSetMarker(s, i) == s.blocks[s.first].Index <= i /\ i <= s.Pos

\* The current block if the index lies in it, else the last block the walk
\* from the first one reaches.
MarkerBlock(s, i) ==
  LET cur == s.blocks[s.this]
  IN  IF /\ cur.Index <= i
         /\ \/ cur.Index + cur.Count > i
            \/ cur.Index + cur.Count = i /\ cur.Count # BufferSize
        THEN s.this
        ELSE CHOOSE b \in s.first .. s.last :
               /\ \A c \in (s.first + 1) .. b : s.blocks[c].Index <= i
               /\ b = s.last \/ s.blocks[b + 1].Index > i

SetMarker(s, i) ==
  IF CanSetMarker(s, i)
    THEN [s EXCEPT !.Markers = [m \in Marked(s) \union {i} |->
                                  IF m = i THEN MarkerBlock(s, i) ELSE s.Markers[m]]]
    ELSE s

\* Extra blocks are looked for only when the earliest marker goes.
ReleaseMarker(s, i) ==
  LET without == [s EXCEPT !.Markers = [m \in Marked(s) \ {i} |-> s.Markers[m]]]
  IN  IF i \notin Marked(s)           THEN s
      ELSE IF BeforeAllMarkers(s, i)  THEN ReleaseExtraBuffers(without)
      ELSE without

GetBufferedLength(s, i) == IF i \in Marked(s) THEN s.Pos - i ELSE 0

(***************************************************************************)
(* Seeking                                                                 *)
(***************************************************************************)
BacktrackToMarker(s, i, streamLength) ==
  IF i \in Marked(s)
    THEN [s EXCEPT !.this       = s.Markers[i],
                   !.ThisPos    = i - s.blocks[s.Markers[i]].Index,
                   !.LengthLeft = LengthFor(s, streamLength)]
    ELSE s

\* The test that skips the bounds check: past the tokens of a block that is
\* not full.
SeeksAhead(s, i) ==
  LET cur == s.blocks[s.this]
  IN  cur.Index <= i /\ cur.Index + cur.Count <= i /\ cur.Count # BufferSize

InBounds(s, i) == s.blocks[s.first].Index <= i /\ i <= s.Pos

FaultyCanSeekTo(s, i) == SeeksAhead(s, i) \/ i <= s.Pos

CanSeekTo(s, i) == SeeksAhead(s, i) \/ InBounds(s, i)

\* The first block whose tokens reach past i, or the last one.
SeekBlock(s, i) ==
  CHOOSE b \in s.first .. s.last :
    /\ \A c \in s.first .. (b - 1) : i >= s.blocks[c].Index + s.blocks[c].Count
    /\ b = s.last \/ i < s.blocks[b].Index + s.blocks[b].Count

SeekTo(s, i) ==
  LET target == IF SeeksAhead(s, i) THEN s.this ELSE SeekBlock(s, i)
  IN  IF CanSeekTo(s, i)
        THEN [s EXCEPT !.this    = target,
                       !.ThisPos = i - s.blocks[target].Index]
        ELSE s

FaultyIndexBack(s, count) == (GetTokenIndex(s) + (MaxSize + 1) - (count - 1)) % (MaxSize + 1)

\* Index arithmetic on size_t wraps.
IndexBack(s, count) == (GetTokenIndex(s) + (MaxSize + 1) - count) % (MaxSize + 1)

SeekBack(s, count) == SeekTo(s, IndexBack(s, count))

\* Stops in the first block from the current one that is not full.
AdvanceToBufferEnd(s, streamLength) ==
  LET end == CHOOSE b \in s.this .. s.last :
               /\ s.blocks[b].Count # BufferSize
               /\ \A c \in s.this .. (b - 1) : s.blocks[c].Count = BufferSize
  IN  [s EXCEPT !.this       = end,
                !.ThisPos    = s.blocks[end].Count,
                !.LengthLeft = LengthFor(s, streamLength)]

SetMaxStreamLength(s, streamLength) ==
  [s EXCEPT !.LengthLeft = LengthFor(s, streamLength)]

(***************************************************************************)
(* GetNextToken.  NextToken is the token the call returns, AfterNextToken  *)
(* the stream it leaves: nothing when the length limit is 0, a replay of a *)
(* buffered token when behind the end, else a read from the source.        *)
(***************************************************************************)
Replays(s) == s.ThisPos < s.blocks[s.this].Count

\* The source answers end of file again and again once it is exhausted.
SourceNext(s) ==
  SourceToken(s.source,
              IF s.delivered < SourceLength[s.source] THEN s.delivered + 1
                                                      ELSE SourceLength[s.source] + 1)

NextToken(s) ==
  IF s.LengthLeft = 0 THEN EofToken
  ELSE IF Replays(s)  THEN s.blocks[s.this].Tokens[s.ThisPos]
  ELSE SourceNext(s)

AfterReplay(s) ==
  IF s.ThisPos + 1 = BufferSize
    THEN [s EXCEPT !.ThisPos = 0, !.this = s.this + 1]
    ELSE [s EXCEPT !.ThisPos = s.ThisPos + 1]

FaultyExtendList(s) == s

WithNewBlock(s) ==
  [s EXCEPT !.ThisPos = 0,
            !.last    = s.this + 1,
            !.this    = s.this + 1,
            !.blocks  = [b \in s.first .. (s.this + 1) |->
                           IF b = s.this + 1 THEN NewBlock(s.Pos) ELSE s.blocks[b]]]

\* A block that becomes full is followed by a new one at once.
ExtendList(s) ==
  IF s.ThisPos = BufferSize THEN ReleaseExtraBuffers(WithNewBlock(s)) ELSE s

\* The source's token is stored, and counted unless it is a repeated EOF.
Stored(s) ==
  [s EXCEPT !.delivered = IF s.delivered > SourceLength[s.source]
                            THEN s.delivered ELSE s.delivered + 1,
            !.blocks[s.this].Tokens[s.ThisPos] = SourceNext(s)]

Counted(s) ==
  [Stored(s) EXCEPT !.SourceEOFFlag        = IsEOF(SourceNext(s)),
                    !.ThisPos              = s.ThisPos + 1,
                    !.blocks[s.this].Count = s.blocks[s.this].Count + 1,
                    !.Pos                  = s.Pos + 1]

AfterRead(s) == IF s.SourceEOFFlag THEN Stored(s) ELSE ExtendList(Counted(s))

AfterNextToken(s) ==
  IF s.LengthLeft = 0 THEN s
  ELSE IF Replays(s)  THEN AfterReplay(s)
  ELSE AfterRead(s)

----------------------------------------------------------------------------
(***************************************************************************)
(* What a stream object must be.  StreamType: the cursor and the markers   *)
(* refer to blocks of the list.  Contiguous: the list covers the tokens    *)
(* from the first block's index to Pos, all its blocks full but the last.  *)
(* Recorded: every token stands where the source delivered it.             *)
(* MarkersHold: the block of a marker is the one that holds, or will hold, *)
(* the token marked.  Remembers: the last RememberLength tokens are kept.  *)
(* InStep: Pos and the end-of-file flag tell how far the source has been   *)
(* read.                                                                   *)
(***************************************************************************)
Block == [Index  : Nat,
          Count  : 0 .. BufferSize,
          Tokens : [0 .. (BufferSize - 1) -> TokenValues]]

StreamType(s) ==
  /\ DOMAIN s = DOMAIN NewStream(NullSource)
  /\ s.source \in Sources \union {NullSource}
  /\ s.delivered \in Nat
  /\ s.first \in Nat /\ s.last \in Nat /\ s.this \in s.first .. s.last
  /\ s.blocks \in [s.first .. s.last -> Block]
  /\ s.ThisPos \in 0 .. (BufferSize - 1)
  /\ s.LengthLeft \in Nat
  /\ s.Pos \in Nat
  /\ s.SourceEOFFlag \in BOOLEAN
  /\ Marked(s) \subseteq Nat
  /\ s.Markers \in [Marked(s) -> s.first .. s.last]

Contiguous(s) ==
  /\ \A b \in s.first .. s.last :
       /\ s.blocks[b].Count = BufferSize <=> b # s.last
       /\ s.blocks[b].Index + s.blocks[b].Count <= s.Pos
  /\ \A b \in s.first .. (s.last - 1) :
       s.blocks[b + 1].Index = s.blocks[b].Index + BufferSize
  /\ s.Pos = s.blocks[s.last].Index + s.blocks[s.last].Count

Recorded(s) ==
  \A b \in s.first .. s.last : \A j \in 0 .. (s.blocks[b].Count - 1) :
    s.blocks[b].Tokens[j] = SourceToken(s.source, s.blocks[b].Index + j + 1)

MarkersHold(s) ==
  \A m \in Marked(s) :
    LET b == s.Markers[m]
    IN  /\ b \in s.first .. s.last
        /\ s.blocks[b].Index <= m /\ m < s.blocks[b].Index + BufferSize
        /\ m <= s.Pos

Remembers(s) == s.blocks[s.first].Index <= RememberedIndex(s)

CursorInside(s) == GetTokenIndex(s) <= s.Pos

InStep(s) ==
  /\ s.delivered = s.Pos
  /\ s.source = NullSource => s.Pos = 0 /\ s.LengthLeft = 0 /\ ~ s.SourceEOFFlag
  /\ s.source \in Sources =>
       /\ s.Pos <= SourceLength[s.source] + 1
       /\ s.SourceEOFFlag <=> s.Pos = SourceLength[s.source] + 1
=============================================================================
