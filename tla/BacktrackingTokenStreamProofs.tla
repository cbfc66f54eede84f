-------------------- MODULE BacktrackingTokenStreamProofs --------------------
(***************************************************************************)
(* Lemmas about the operations of the token buffer, for every block size,  *)
(* every number of remembered tokens and every source.  StreamInv is the   *)
(* invariant of a stream object: one lemma per operation shows that it is  *)
(* kept.  TokenStreamProofs uses them for a client that calls the          *)
(* operations in any order, ParseProofs for the parser.                    *)
(***************************************************************************)
EXTENDS BacktrackingTokenStream, WellFoundedInduction, TLAPS

StreamInv(s) ==
  /\ StreamType(s)
  /\ Contiguous(s)
  /\ Recorded(s)
  /\ MarkersHold(s)
  /\ Remembers(s)
  /\ CursorInside(s)
  /\ InStep(s)

(***************************************************************************)
(* Numbers                                                                 *)
(***************************************************************************)

\* A set of numbers that is not empty has a least one: what the walks along
\* the block list find.
LEMMA NatMin ==
  ASSUME NEW T, T \subseteq Nat, T # {}
  PROVE  \E m \in T : \A k \in T : m <= k
<1> DEFINE R == OpToRel(<, Nat)
<1>1. IsWellFoundedOn(R, Nat)
  BY NatLessThanWellFounded
<1>2. \E x \in T : \A y \in T : ~ (<<y, x>> \in R)
  <2> HIDE DEF R
  <2> QED BY <1>1, WFMin
<1>3. PICK x \in T : \A y \in T : ~ (<<y, x>> \in R)
  BY <1>2
<1>4. \A y \in T : ~ (y < x)
  BY <1>3 DEF OpToRel
<1> QED
  <2> HIDE DEF R
  <2> QED BY <1>3, <1>4

\* size_t arithmetic that does not wrap: the index count tokens back.
LEMMA NoWrap ==
  ASSUME NEW x \in Nat, x <= MaxSize
  PROVE  (x + (MaxSize + 1)) % (MaxSize + 1) = x
BY MaxSizeAssumption

(***************************************************************************)
(* Freeing blocks                                                          *)
(***************************************************************************)

\* ReleaseExtraBuffers has a first block to keep, at or before the current one.
LEMMA FirstKeptExists ==
  ASSUME NEW s, StreamType(s)
  PROVE  /\ FirstKept(s) \in s.first .. s.this
         /\ ~ Releasable(s, FirstKept(s))
         /\ \A c \in s.first .. (FirstKept(s) - 1) : Releasable(s, c)
<1> DEFINE T == {b \in s.first .. s.last : ~ Releasable(s, b)}
<1>1. T \subseteq Nat /\ s.last \in T
  BY DEF StreamType, Releasable
<1>2. PICK b \in T : \A k \in T : b <= k
  <2> HIDE DEF T
  <2> QED BY <1>1, NatMin
<1>3. /\ b \in s.first .. s.last
      /\ ~ Releasable(s, b)
      /\ \A c \in s.first .. (b - 1) : Releasable(s, c)
  BY <1>2 DEF StreamType
<1>4. /\ FirstKept(s) \in s.first .. s.last
      /\ ~ Releasable(s, FirstKept(s))
      /\ \A c \in s.first .. (FirstKept(s) - 1) : Releasable(s, c)
  BY <1>3 DEF FirstKept
<1>5. FirstKept(s) <= s.this
  <2> SUFFICES ASSUME s.this < FirstKept(s) PROVE FALSE
    BY <1>4 DEF StreamType
  <2>1. Releasable(s, s.this)
    BY <1>4 DEF StreamType
  <2> QED BY <2>1 DEF Releasable, StreamType
<1> QED BY <1>4, <1>5 DEF StreamType

\* Freeing blocks keeps the invariant: no marker's block, and not the current
\* one, is freed.
LEMMA ReleaseExtraBuffersInv ==
  ASSUME NEW s, StreamInv(s)
  PROVE  StreamInv(ReleaseExtraBuffers(s))
<1> DEFINE t == ReleaseExtraBuffers(s)
           f == FirstKept(s)
<1>1. f \in s.first .. s.this /\ \A c \in s.first .. (f - 1) : Releasable(s, c)
  BY FirstKeptExists DEF StreamInv
<1>2. f \in Nat /\ s.first <= f /\ f <= s.this /\ s.this <= s.last
  BY <1>1 DEF StreamInv, StreamType
<1>3. /\ DOMAIN t = DOMAIN s
      /\ t.source = s.source /\ t.delivered = s.delivered /\ t.this = s.this
      /\ t.last = s.last /\ t.first = f /\ t.ThisPos = s.ThisPos
      /\ t.LengthLeft = s.LengthLeft /\ t.Pos = s.Pos
      /\ t.SourceEOFFlag = s.SourceEOFFlag /\ t.Markers = s.Markers
      /\ t.blocks = [b \in f .. s.last |-> s.blocks[b]]
  BY DEF ReleaseExtraBuffers, StreamInv, StreamType, NewStream
<1>4. \A b \in f .. s.last : t.blocks[b] = s.blocks[b] /\ b \in s.first .. s.last
  BY <1>2, <1>3 DEF StreamInv, StreamType
<1>5. ASSUME NEW m \in Marked(s)
      PROVE  s.Markers[m] \in f .. s.last
  <2> DEFINE b == s.Markers[m]
  <2>1. b \in s.first .. s.last /\ m < s.blocks[b].Index + BufferSize /\ m \in Nat
    BY DEF StreamInv, StreamType, MarkersHold
  <2>2. SUFFICES ASSUME b < f PROVE FALSE
    BY <1>2, <2>1 DEF StreamInv, StreamType
  <2>3. Releasable(s, b) /\ b \in s.first .. (s.last - 1)
    BY <1>1, <1>2, <2>1, <2>2 DEF StreamInv, StreamType
  <2>4. b \in s.first .. b
    BY <2>3 DEF StreamInv, StreamType
  <2>5. s.blocks[b + 1].Index <= m
    BY <2>3, <2>4 DEF Releasable, UpToLastIndex, BeforeAllMarkers
  <2>6. s.blocks[b + 1].Index = s.blocks[b].Index + BufferSize
    BY <2>3 DEF StreamInv, Contiguous
  <2>7. s.blocks[b].Index \in Nat
    BY <2>1 DEF StreamInv, StreamType, Block
  <2> QED BY <2>1, <2>5, <2>6, <2>7, BufferSizeAssumption
<1> HIDE DEF t, f
<1>6. StreamType(t)
  BY <1>2, <1>3, <1>4, <1>5 DEF StreamInv, StreamType, Marked
<1>7. Contiguous(t)
  <2>1. \A b \in f .. s.last : s.blocks[b].Count = BufferSize <=> b # s.last
    BY <1>4 DEF StreamInv, Contiguous
  <2>2. \A b \in f .. (s.last - 1) : b \in f .. s.last /\ b + 1 \in f .. s.last
    BY <1>2 DEF StreamInv, StreamType
  <2>3. \A b \in f .. (s.last - 1) : b \in s.first .. (s.last - 1)
    BY <1>2 DEF StreamInv, StreamType
  <2>4. s.last \in f .. s.last
    BY <1>2 DEF StreamInv, StreamType
  <2> QED BY <1>3, <1>4, <2>1, <2>2, <2>3, <2>4 DEF StreamInv, Contiguous
<1>8. Recorded(t)
  BY <1>3, <1>4 DEF StreamInv, Recorded
<1>9. MarkersHold(t)
  BY <1>3, <1>4, <1>5 DEF StreamInv, MarkersHold, Marked
<1>10. Remembers(t)
  <2>1. t.blocks[t.first] = s.blocks[f] /\ RememberedIndex(t) = RememberedIndex(s)
    BY <1>2, <1>3, <1>4 DEF RememberedIndex, StreamInv, StreamType
  <2>2. CASE f = s.first
    BY <2>1, <2>2 DEF StreamInv, Remembers
  <2>3. CASE f # s.first
    <3>1. Releasable(s, f - 1) /\ f - 1 \in s.first .. (f - 1)
      BY <1>1, <1>2, <2>3 DEF StreamInv, StreamType
    <3>2. s.blocks[(f - 1) + 1].Index <= RememberedIndex(s)
      BY <3>1 DEF Releasable, UpToLastIndex
    <3>3. (f - 1) + 1 = f
      BY <1>2
    <3> QED BY <2>1, <3>2, <3>3 DEF Remembers
  <2> QED BY <2>2, <2>3
<1>11. CursorInside(t) /\ InStep(t)
  <2>1. s.this \in f .. s.last
    BY <1>2 DEF StreamInv, StreamType
  <2> QED BY <1>3, <1>4, <2>1 DEF StreamInv, CursorInside, GetTokenIndex, InStep
<1> QED BY <1>6, <1>7, <1>8, <1>9, <1>10, <1>11 DEF StreamInv, t

(***************************************************************************)
(* What the invariant says of the cursor and of one block.                 *)
(***************************************************************************)

\* The cursor is in a slot of a block of the list.
LEMMA CursorFacts ==
  ASSUME NEW s, StreamInv(s)
  PROVE  /\ s.first \in Nat /\ s.last \in Nat /\ s.this \in Nat
         /\ s.first <= s.this /\ s.this <= s.last
         /\ s.Pos \in Nat /\ s.ThisPos \in Nat /\ s.ThisPos < BufferSize
         /\ s.LengthLeft \in Nat /\ s.delivered \in Nat
         /\ BufferSize \in Nat /\ BufferSize # 0
         /\ s.blocks[s.this].Index + s.ThisPos <= s.Pos
<1>1. /\ s.this \in s.first .. s.last /\ s.first \in Nat /\ s.last \in Nat
      /\ s.Pos \in Nat /\ s.ThisPos \in 0 .. (BufferSize - 1)
      /\ s.LengthLeft \in Nat /\ s.delivered \in Nat
      /\ s.blocks \in [s.first .. s.last -> Block]
  BY DEF StreamInv, StreamType
<1>2. s.ThisPos \in Nat /\ s.ThisPos < BufferSize /\ BufferSize \in Nat /\ BufferSize # 0
  BY <1>1, BufferSizeAssumption
<1>3. s.blocks[s.this].Index \in Nat
  BY <1>1 DEF Block
<1>4. s.blocks[s.this].Index + s.ThisPos <= s.Pos
  <2>1. GetTokenIndex(s) <= s.Pos
    BY DEF StreamInv, CursorInside
  <2> QED BY <1>2, <1>3, <2>1 DEF GetTokenIndex
<1> QED BY <1>1, <1>2, <1>4

\* What it says of one block of the list.
LEMMA BlockFacts ==
  ASSUME NEW s, StreamInv(s), NEW b \in s.first .. s.last
  PROVE  /\ b \in Nat /\ s.blocks[b] \in Block
         /\ s.blocks[b].Index \in Nat
         /\ s.blocks[b].Count \in Nat /\ s.blocks[b].Count <= BufferSize
         /\ b = s.last => /\ s.blocks[b].Count < BufferSize
                          /\ s.Pos = s.blocks[b].Index + s.blocks[b].Count
         /\ b # s.last => /\ s.blocks[b].Count = BufferSize
                          /\ b + 1 \in s.first .. s.last
                          /\ s.blocks[b + 1].Index = s.blocks[b].Index + BufferSize
<1>1. /\ b \in Nat /\ s.blocks[b] \in Block
      /\ s.blocks[b].Index \in Nat /\ s.blocks[b].Count \in 0 .. BufferSize
  <2>1. s.first \in Nat /\ s.last \in Nat /\ s.blocks \in [s.first .. s.last -> Block]
    BY DEF StreamInv, StreamType
  <2>2. b \in Nat /\ s.blocks[b] \in Block
    BY <2>1
  <2> QED BY <2>2 DEF Block
<1>2. s.blocks[b].Count = BufferSize <=> b # s.last
  BY DEF StreamInv, Contiguous
<1>3. b = s.last => s.Pos = s.blocks[b].Index + s.blocks[b].Count
  BY DEF StreamInv, Contiguous
<1>4. b # s.last => b \in s.first .. (s.last - 1) /\ b + 1 \in s.first .. s.last
  BY DEF StreamInv, StreamType
<1>5. b # s.last => s.blocks[b + 1].Index = s.blocks[b].Index + BufferSize
  BY <1>4 DEF StreamInv, Contiguous
<1> QED BY <1>1, <1>2, <1>3, <1>4, <1>5, BufferSizeAssumption

(***************************************************************************)
(* Markers                                                                 *)
(***************************************************************************)

\* Forgetting markers disturbs nothing else.
LEMMA FewerMarkersInv ==
  ASSUME NEW s, StreamInv(s), NEW M \in SUBSET Marked(s)
  PROVE  StreamInv([s EXCEPT !.Markers = [m \in M |-> s.Markers[m]]])
<1> DEFINE t == [s EXCEPT !.Markers = [m \in M |-> s.Markers[m]]]
<1>1. /\ DOMAIN t = DOMAIN s
      /\ t.source = s.source /\ t.delivered = s.delivered /\ t.this = s.this
      /\ t.last = s.last /\ t.first = s.first /\ t.ThisPos = s.ThisPos
      /\ t.LengthLeft = s.LengthLeft /\ t.Pos = s.Pos
      /\ t.SourceEOFFlag = s.SourceEOFFlag /\ t.blocks = s.blocks
      /\ t.Markers = [m \in M |-> s.Markers[m]]
  BY DEF StreamInv, StreamType, NewStream
<1> HIDE DEF t
<1>2. StreamType(t)
  BY <1>1 DEF StreamInv, StreamType, Marked
<1>3. Contiguous(t) /\ Recorded(t)
  BY <1>1 DEF StreamInv, Contiguous, Recorded
<1>4. MarkersHold(t)
  BY <1>1 DEF StreamInv, MarkersHold, Marked
<1>5. Remembers(t) /\ CursorInside(t) /\ InStep(t)
  BY <1>1 DEF StreamInv, Remembers, RememberedIndex, CursorInside, GetTokenIndex, InStep
<1> QED BY <1>2, <1>3, <1>4, <1>5 DEF StreamInv, t

\* The block SetMarker stores is the one that holds the token, or will.
LEMMA MarkerBlockHolds ==
  ASSUME NEW s, StreamInv(s), NEW i \in Nat, CanSetMarker(s, i)
  PROVE  /\ MarkerBlock(s, i) \in s.first .. s.last
         /\ s.blocks[MarkerBlock(s, i)].Index <= i
         /\ i < s.blocks[MarkerBlock(s, i)].Index + BufferSize
<1> DEFINE cur == s.blocks[s.this]
           InCurrent == /\ cur.Index <= i
                        /\ \/ cur.Index + cur.Count > i
                           \/ cur.Index + cur.Count = i /\ cur.Count # BufferSize
           Reached(b) == /\ \A c \in (s.first + 1) .. b : s.blocks[c].Index <= i
                         /\ b = s.last \/ s.blocks[b + 1].Index > i
<1>1. CASE InCurrent
  <2>1. MarkerBlock(s, i) = s.this /\ s.this \in s.first .. s.last
    BY <1>1, CursorFacts DEF MarkerBlock
  <2> QED BY <1>1, <2>1, BlockFacts, CursorFacts
<1>2. CASE ~ InCurrent
  <2> DEFINE T == {b \in s.first .. s.last : b = s.last \/ s.blocks[b + 1].Index > i}
  <2>1. T \subseteq Nat /\ s.last \in T
    BY CursorFacts
  <2>2. PICK b \in T : \A k \in T : b <= k
    <3> HIDE DEF T
    <3> QED BY <2>1, NatMin
  <2>3. ASSUME NEW c \in (s.first + 1) .. b
        PROVE  s.blocks[c].Index <= i
    <3>1. c - 1 \in s.first .. s.last /\ c - 1 < b /\ c - 1 # s.last /\ (c - 1) + 1 = c
      BY <2>2, CursorFacts
    <3>2. c - 1 \notin T
      BY <2>2, <3>1, CursorFacts
    <3>3. c \in s.first .. s.last
      BY <2>2, CursorFacts
    <3>4. s.blocks[c].Index \in Nat
      BY <3>3, BlockFacts
    <3> QED BY <3>1, <3>2, <3>4
  <2>4. b \in s.first .. s.last /\ Reached(b)
    BY <2>2, <2>3
  <2>5. MarkerBlock(s, i) = CHOOSE k \in s.first .. s.last : Reached(k)
    BY <1>2 DEF MarkerBlock
  <2>6. MarkerBlock(s, i) \in s.first .. s.last /\ Reached(MarkerBlock(s, i))
    <3> HIDE DEF Reached
    <3> QED BY <2>4, <2>5
  <2> DEFINE k == MarkerBlock(s, i)
  <2>7. s.blocks[k].Index <= i
    <3>1. CASE k = s.first
      BY <3>1 DEF CanSetMarker
    <3>2. CASE k # s.first
      <4>1. k \in (s.first + 1) .. k
        BY <2>6, <3>2, CursorFacts
      <4> QED BY <2>6, <4>1
    <3> QED BY <3>1, <3>2
  <2>8. i < s.blocks[k].Index + BufferSize
    <3>1. CASE k = s.last
      BY <2>6, <3>1, BlockFacts, CursorFacts DEF CanSetMarker
    <3>2. CASE k # s.last
      BY <2>6, <3>2, BlockFacts, CursorFacts
    <3> QED BY <3>1, <3>2
  <2> QED BY <2>6, <2>7, <2>8
<1> QED BY <1>1, <1>2

\* Setting a marker keeps the invariant.
LEMMA SetMarkerInv ==
  ASSUME NEW s, StreamInv(s), NEW i \in Nat
  PROVE  StreamInv(SetMarker(s, i))
<1> DEFINE t == SetMarker(s, i)
<1>1. CASE ~ CanSetMarker(s, i)
  BY <1>1 DEF SetMarker
<1>2. CASE CanSetMarker(s, i)
  <2>1. /\ DOMAIN t = DOMAIN s
        /\ t.source = s.source /\ t.delivered = s.delivered /\ t.this = s.this
        /\ t.last = s.last /\ t.first = s.first /\ t.ThisPos = s.ThisPos
        /\ t.LengthLeft = s.LengthLeft /\ t.Pos = s.Pos
        /\ t.SourceEOFFlag = s.SourceEOFFlag /\ t.blocks = s.blocks
        /\ t.Markers = [m \in Marked(s) \union {i} |->
                          IF m = i THEN MarkerBlock(s, i) ELSE s.Markers[m]]
    BY <1>2 DEF SetMarker, StreamInv, StreamType, NewStream
  <2>2. Marked(t) = Marked(s) \union {i}
    BY <2>1 DEF Marked
  <2> HIDE DEF t
  <2>3. /\ MarkerBlock(s, i) \in s.first .. s.last
        /\ s.blocks[MarkerBlock(s, i)].Index <= i
        /\ i < s.blocks[MarkerBlock(s, i)].Index + BufferSize
    BY <1>2, MarkerBlockHolds
  <2>4. StreamType(t)
    BY <2>1, <2>2, <2>3 DEF StreamInv, StreamType
  <2>5. Contiguous(t) /\ Recorded(t)
    BY <2>1 DEF StreamInv, Contiguous, Recorded
  <2>6. MarkersHold(t)
    <3> SUFFICES ASSUME NEW m \in Marked(t)
                 PROVE  LET b == t.Markers[m]
                        IN  /\ b \in s.first .. s.last
                            /\ s.blocks[b].Index <= m /\ m < s.blocks[b].Index + BufferSize
                            /\ m <= s.Pos
      BY <2>1 DEF MarkersHold
    <3>1. CASE m = i
      BY <1>2, <2>1, <2>2, <2>3, <3>1 DEF CanSetMarker
    <3>2. CASE m # i
      BY <2>1, <2>2, <3>2 DEF StreamInv, MarkersHold
    <3> QED BY <3>1, <3>2
  <2>7. Remembers(t) /\ CursorInside(t) /\ InStep(t)
    BY <2>1 DEF StreamInv, Remembers, RememberedIndex, CursorInside, GetTokenIndex, InStep
  <2> QED BY <2>4, <2>5, <2>6, <2>7 DEF StreamInv, t
<1> QED BY <1>1, <1>2

\* Releasing a marker keeps it, whether or not that frees blocks.
LEMMA ReleaseMarkerInv ==
  ASSUME NEW s, StreamInv(s), NEW i
  PROVE  StreamInv(ReleaseMarker(s, i))
<1> DEFINE without == [s EXCEPT !.Markers = [m \in Marked(s) \ {i} |-> s.Markers[m]]]
<1>1. StreamInv(without)
  BY FewerMarkersInv
<1>2. StreamInv(ReleaseExtraBuffers(without))
  <2> HIDE DEF without
  <2> QED BY <1>1, ReleaseExtraBuffersInv
<1> QED BY <1>1, <1>2 DEF ReleaseMarker

\* So does releasing them all.
LEMMA ResetMarkersInv ==
  ASSUME NEW s, StreamInv(s)
  PROVE  StreamInv(ResetMarkers(s))
<1> DEFINE none == [s EXCEPT !.Markers = [m \in {} |-> s.Markers[m]]]
<1>1. StreamInv(none)
  BY FewerMarkersInv
<1>2. NoMarkers = [m \in {} |-> s.Markers[m]]
  BY DEF NoMarkers
<1>3. StreamInv(ReleaseExtraBuffers(none))
  <2> HIDE DEF none
  <2> QED BY <1>1, ReleaseExtraBuffersInv
<1> QED BY <1>2, <1>3 DEF ResetMarkers

(***************************************************************************)
(* Moving the cursor                                                       *)
(***************************************************************************)

\* A cursor anywhere within the tokens read, and any length limit that is 0
\* without a source, keep the invariant.
LEMMA MovedCursorInv ==
  ASSUME NEW s, StreamInv(s),
         NEW b \in s.first .. s.last, NEW p \in 0 .. (BufferSize - 1), NEW left \in Nat,
         s.blocks[b].Index + p <= s.Pos,
         s.source = NullSource => left = 0
  PROVE  StreamInv([s EXCEPT !.this = b, !.ThisPos = p, !.LengthLeft = left])
<1> DEFINE t == [s EXCEPT !.this = b, !.ThisPos = p, !.LengthLeft = left]
<1>1. /\ DOMAIN t = DOMAIN s
      /\ t.source = s.source /\ t.delivered = s.delivered /\ t.this = b
      /\ t.last = s.last /\ t.first = s.first /\ t.ThisPos = p
      /\ t.LengthLeft = left /\ t.Pos = s.Pos
      /\ t.SourceEOFFlag = s.SourceEOFFlag /\ t.blocks = s.blocks
      /\ t.Markers = s.Markers
  BY DEF StreamInv, StreamType, NewStream
<1> HIDE DEF t
<1>2. StreamType(t)
  BY <1>1 DEF StreamInv, StreamType, Marked
<1>3. Contiguous(t) /\ Recorded(t) /\ MarkersHold(t)
  BY <1>1 DEF StreamInv, Contiguous, Recorded, MarkersHold, Marked
<1>4. Remembers(t) /\ InStep(t)
  BY <1>1 DEF StreamInv, Remembers, RememberedIndex, InStep
<1>5. CursorInside(t)
  BY <1>1, BlockFacts, CursorFacts DEF CursorInside, GetTokenIndex
<1> QED BY <1>2, <1>3, <1>4, <1>5 DEF StreamInv, t

\* Without a source the length limit is 0.
LEMMA LengthForFacts ==
  ASSUME NEW s, StreamInv(s), NEW limit \in Nat
  PROVE  /\ LengthFor(s, limit) \in Nat /\ s.LengthLeft \in Nat
         /\ s.source = NullSource => LengthFor(s, limit) = 0 /\ s.LengthLeft = 0
BY DEF LengthFor, StreamInv, StreamType, InStep

\* The cursor of a backtrack lies in the block of the marker.
LEMMA BacktrackToMarkerInv ==
  ASSUME NEW s, StreamInv(s), NEW i, NEW limit \in Nat
  PROVE  StreamInv(BacktrackToMarker(s, i, limit))
<1>1. CASE i \notin Marked(s)
  BY <1>1 DEF BacktrackToMarker
<1>2. CASE i \in Marked(s)
  <2> DEFINE b == s.Markers[i]
  <2>1. /\ b \in s.first .. s.last /\ i \in Nat /\ i <= s.Pos
        /\ s.blocks[b].Index <= i /\ i < s.blocks[b].Index + BufferSize
    BY <1>2 DEF StreamInv, StreamType, MarkersHold
  <2> HIDE DEF b
  <2>2. /\ i - s.blocks[b].Index \in 0 .. (BufferSize - 1)
        /\ s.blocks[b].Index + (i - s.blocks[b].Index) <= s.Pos
    BY <2>1, BlockFacts, CursorFacts
  <2>3. StreamInv([s EXCEPT !.this = b, !.ThisPos = i - s.blocks[b].Index,
                            !.LengthLeft = LengthFor(s, limit)])
    BY <2>1, <2>2, LengthForFacts, MovedCursorInv
  <2> QED BY <1>2, <2>3 DEF BacktrackToMarker, b
<1> QED BY <1>1, <1>2

\* SeekTo finds the block of every index between the first block and Pos.
LEMMA SeekBlockHolds ==
  ASSUME NEW s, StreamInv(s), NEW i \in Nat, InBounds(s, i)
  PROVE  /\ SeekBlock(s, i) \in s.first .. s.last
         /\ s.blocks[SeekBlock(s, i)].Index <= i
         /\ i < s.blocks[SeekBlock(s, i)].Index + BufferSize
<1> DEFINE Ends(b)    == s.blocks[b].Index + s.blocks[b].Count
           Reached(b) == /\ \A c \in s.first .. (b - 1) : i >= Ends(c)
                         /\ b = s.last \/ i < Ends(b)
           T == {b \in s.first .. s.last : b = s.last \/ i < Ends(b)}
           k == SeekBlock(s, i)
<1>1. T \subseteq Nat /\ s.last \in T
  BY CursorFacts
<1>2. PICK b \in T : \A c \in T : b <= c
  <2> HIDE DEF T
  <2> QED BY <1>1, NatMin
<1>3. ASSUME NEW c \in s.first .. (b - 1)
      PROVE  i >= Ends(c)
  <2>1. c \in s.first .. s.last /\ c < b /\ c # s.last
    BY <1>2, CursorFacts
  <2>2. c \notin T
    BY <1>2, <2>1, CursorFacts
  <2>3. Ends(c) \in Nat
    BY <2>1, BlockFacts
  <2> QED BY <2>1, <2>2, <2>3
<1>4. b \in s.first .. s.last /\ Reached(b)
  BY <1>2, <1>3
<1>5. k \in s.first .. s.last /\ Reached(k)
  <2>1. k = CHOOSE c \in s.first .. s.last : Reached(c)
    BY DEF SeekBlock
  <2> HIDE DEF Reached, k
  <2> QED BY <1>4, <2>1
<1>6. s.blocks[k].Index <= i
  <2>1. CASE k = s.first
    BY <2>1 DEF InBounds
  <2>2. CASE k # s.first
    <3>1. k - 1 \in s.first .. (k - 1) /\ k - 1 \in s.first .. s.last /\ k - 1 # s.last
      BY <1>5, <2>2, CursorFacts
    <3>2. i >= Ends(k - 1)
      BY <1>5, <3>1
    <3>3. s.blocks[(k - 1) + 1].Index = Ends(k - 1)
      BY <3>1, BlockFacts
    <3>4. (k - 1) + 1 = k
      BY <1>5, CursorFacts
    <3> QED BY <3>2, <3>3, <3>4
  <2> QED BY <2>1, <2>2
<1>7. i < s.blocks[k].Index + BufferSize
  <2>1. CASE k = s.last
    BY <1>5, <2>1, BlockFacts, CursorFacts DEF InBounds
  <2>2. CASE k # s.last
    BY <1>5, <2>2, BlockFacts, CursorFacts
  <2> QED BY <2>1, <2>2
<1> QED BY <1>5, <1>6, <1>7

\* The block a seek goes to, whichever way SeekTo finds it.
SeekTarget(s, i) == IF SeeksAhead(s, i) THEN s.this ELSE SeekBlock(s, i)

\* It holds the token sought, or will.
LEMMA SeekTargetHolds ==
  ASSUME NEW s, StreamInv(s), NEW i \in Nat, i <= s.Pos, CanSeekTo(s, i)
  PROVE  /\ SeekTarget(s, i) \in s.first .. s.last
         /\ s.blocks[SeekTarget(s, i)].Index <= i
         /\ i < s.blocks[SeekTarget(s, i)].Index + BufferSize
<1>1. CASE SeeksAhead(s, i)
  <2>1. s.this \in s.first .. s.last /\ s.this = s.last
    BY <1>1, BlockFacts, CursorFacts DEF SeeksAhead
  <2> QED BY <1>1, <2>1, BlockFacts, CursorFacts DEF SeeksAhead, SeekTarget
<1>2. CASE ~ SeeksAhead(s, i)
  BY <1>2, SeekBlockHolds DEF CanSeekTo, SeekTarget
<1> QED BY <1>1, <1>2

\* A seek within the tokens read keeps the invariant.
LEMMA SeekToInv ==
  ASSUME NEW s, StreamInv(s), NEW i \in Nat, i <= s.Pos
  PROVE  StreamInv(SeekTo(s, i))
<1> DEFINE b == SeekTarget(s, i)
<1>1. CASE ~ CanSeekTo(s, i)
  BY <1>1 DEF SeekTo
<1>2. CASE CanSeekTo(s, i)
  <2>1. /\ b \in s.first .. s.last
        /\ s.blocks[b].Index <= i /\ i < s.blocks[b].Index + BufferSize
    BY <1>2, SeekTargetHolds
  <2> HIDE DEF b
  <2>2. /\ i - s.blocks[b].Index \in 0 .. (BufferSize - 1)
        /\ s.blocks[b].Index + (i - s.blocks[b].Index) <= s.Pos
    BY <2>1, BlockFacts, CursorFacts
  <2>3. StreamInv([s EXCEPT !.this = b, !.ThisPos = i - s.blocks[b].Index,
                            !.LengthLeft = s.LengthLeft])
    BY <2>1, <2>2, LengthForFacts, MovedCursorInv
  <2>4. [s EXCEPT !.this = b, !.ThisPos = i - s.blocks[b].Index, !.LengthLeft = s.LengthLeft]
          = [s EXCEPT !.this = b, !.ThisPos = i - s.blocks[b].Index]
    BY DEF StreamInv, StreamType, NewStream
  <2> QED BY <1>2, <2>3, <2>4 DEF SeekTo, SeekTarget, b
<1> QED BY <1>1, <1>2

\* The source's tokens can be counted in a size_t: no index wraps.
LEMMA PosBound ==
  ASSUME NEW s, StreamInv(s)
  PROVE  s.Pos \in Nat /\ s.Pos <= MaxSize
BY MaxSizeAssumption, SourceAssumption DEF StreamInv, StreamType, InStep

\* SeekBack(count) with no more than the tokens before the cursor.
LEMMA IndexBackFacts ==
  ASSUME NEW s, StreamInv(s), NEW count \in Nat, count <= GetTokenIndex(s)
  PROVE  /\ IndexBack(s, count) = GetTokenIndex(s) - count
         /\ IndexBack(s, count) \in Nat /\ IndexBack(s, count) <= s.Pos
<1> DEFINE x == GetTokenIndex(s) - count
<1>1. GetTokenIndex(s) \in Nat /\ GetTokenIndex(s) <= s.Pos
  <2>1. s.blocks[s.this].Index \in Nat
    BY BlockFacts, CursorFacts
  <2> QED BY <2>1, CursorFacts DEF GetTokenIndex
<1>2. x \in Nat /\ x <= s.Pos /\ x <= MaxSize
  BY <1>1, PosBound, MaxSizeAssumption
<1>3. GetTokenIndex(s) + (MaxSize + 1) - count = x + (MaxSize + 1)
  BY <1>1, MaxSizeAssumption
<1> HIDE DEF x
<1>4. IndexBack(s, count) = x
  BY <1>2, <1>3, NoWrap DEF IndexBack
<1> QED BY <1>2, <1>4 DEF x

\* The block AdvanceToBufferEnd stops in is the last one, the only one that is
\* not full.
LEMMA BufferEndIsLast ==
  ASSUME NEW s, StreamInv(s), NEW limit
  PROVE  AdvanceToBufferEnd(s, limit) = [s EXCEPT !.this = s.last,
                                                  !.ThisPos = s.blocks[s.last].Count,
                                                  !.LengthLeft = LengthFor(s, limit)]
<1> DEFINE Stops(b) == /\ s.blocks[b].Count # BufferSize
                       /\ \A c \in s.this .. (b - 1) : s.blocks[c].Count = BufferSize
           end == CHOOSE b \in s.this .. s.last : Stops(b)
<1>1. s.last \in s.this .. s.last /\ Stops(s.last)
  <2>1. s.last \in s.first .. s.last /\ s.last \in s.this .. s.last
    BY CursorFacts
  <2>2. \A c \in s.this .. (s.last - 1) : c \in s.first .. s.last /\ c # s.last
    BY CursorFacts
  <2> QED BY <2>1, <2>2, BlockFacts, CursorFacts
<1>2. end \in s.this .. s.last /\ Stops(end)
  <2> HIDE DEF Stops
  <2> QED BY <1>1
<1>3. AdvanceToBufferEnd(s, limit) = [s EXCEPT !.this = end,
                                               !.ThisPos = s.blocks[end].Count,
                                               !.LengthLeft = LengthFor(s, limit)]
  BY DEF AdvanceToBufferEnd
<1> HIDE DEF end
<1>4. end = s.last
  <2>1. end \in s.first .. s.last
    BY <1>2, CursorFacts
  <2> QED BY <1>2, <2>1, BlockFacts
<1> QED BY <1>3, <1>4

\* So the end of the buffer is a place for the cursor.
LEMMA AdvanceToBufferEndInv ==
  ASSUME NEW s, StreamInv(s), NEW limit \in Nat
  PROVE  StreamInv(AdvanceToBufferEnd(s, limit))
<1>1. /\ s.last \in s.first .. s.last
      /\ s.blocks[s.last].Count \in 0 .. (BufferSize - 1)
      /\ s.blocks[s.last].Index + s.blocks[s.last].Count <= s.Pos
  <2>1. s.last \in s.first .. s.last
    BY CursorFacts
  <2> QED BY <2>1, BlockFacts, CursorFacts
<1>2. StreamInv([s EXCEPT !.this = s.last, !.ThisPos = s.blocks[s.last].Count,
                          !.LengthLeft = LengthFor(s, limit)])
  BY <1>1, LengthForFacts, MovedCursorInv
<1> QED BY <1>2, BufferEndIsLast

\* A length limit moves nothing.
LEMMA SetMaxStreamLengthInv ==
  ASSUME NEW s, StreamInv(s), NEW limit \in Nat
  PROVE  StreamInv(SetMaxStreamLength(s, limit))
<1>1. StreamInv([s EXCEPT !.this = s.this, !.ThisPos = s.ThisPos,
                          !.LengthLeft = LengthFor(s, limit)])
  <2>1. s.this \in s.first .. s.last /\ s.ThisPos \in 0 .. (BufferSize - 1)
    BY CursorFacts
  <2> QED BY <2>1, CursorFacts, LengthForFacts, MovedCursorInv
<1>2. [s EXCEPT !.this = s.this, !.ThisPos = s.ThisPos, !.LengthLeft = LengthFor(s, limit)]
        = SetMaxStreamLength(s, limit)
  BY DEF SetMaxStreamLength, StreamInv, StreamType, NewStream
<1> QED BY <1>1, <1>2

(***************************************************************************)
(* GetNextToken                                                            *)
(***************************************************************************)

\* Only the end of the tokens read is not replayed.
LEMMA ReadsAtEnd ==
  ASSUME NEW s, StreamInv(s), ~ Replays(s)
  PROVE  /\ s.this = s.last /\ s.ThisPos = s.blocks[s.this].Count
         /\ GetTokenIndex(s) = s.Pos
<1>1. s.this \in s.first .. s.last
  BY CursorFacts
<1> QED BY <1>1, BlockFacts, CursorFacts DEF Replays, GetTokenIndex

\* A token read again only moves the cursor.
LEMMA AfterReplayInv ==
  ASSUME NEW s, StreamInv(s), Replays(s)
  PROVE  StreamInv(AfterReplay(s))
<1>1. s.this \in s.first .. s.last /\ s.ThisPos < s.blocks[s.this].Count
  BY CursorFacts DEF Replays
<1>2. s.blocks[s.this].Index + s.blocks[s.this].Count <= s.Pos
  BY <1>1 DEF StreamInv, Contiguous
<1>3. /\ s.LengthLeft \in Nat
      /\ s.source = NullSource => s.LengthLeft = 0
  BY LengthForFacts
<1>4. CASE s.ThisPos + 1 = BufferSize
  <2>1. s.this # s.last
    BY <1>1, <1>4, BlockFacts, CursorFacts
  <2>2. /\ s.this + 1 \in s.first .. s.last /\ 0 \in 0 .. (BufferSize - 1)
        /\ s.blocks[s.this + 1].Index + 0 <= s.Pos
    BY <1>1, <1>2, <2>1, BlockFacts, CursorFacts
  <2>3. StreamInv([s EXCEPT !.this = s.this + 1, !.ThisPos = 0, !.LengthLeft = s.LengthLeft])
    BY <1>3, <2>2, MovedCursorInv
  <2>4. [s EXCEPT !.this = s.this + 1, !.ThisPos = 0, !.LengthLeft = s.LengthLeft]
          = AfterReplay(s)
    BY <1>4 DEF AfterReplay, StreamInv, StreamType, NewStream
  <2> QED BY <2>3, <2>4
<1>5. CASE s.ThisPos + 1 # BufferSize
  <2>1. /\ s.ThisPos + 1 \in 0 .. (BufferSize - 1)
        /\ s.blocks[s.this].Index + (s.ThisPos + 1) <= s.Pos
    BY <1>1, <1>2, <1>5, BlockFacts, CursorFacts
  <2>2. StreamInv([s EXCEPT !.this = s.this, !.ThisPos = s.ThisPos + 1,
                            !.LengthLeft = s.LengthLeft])
    BY <1>1, <1>3, <2>1, MovedCursorInv
  <2>3. [s EXCEPT !.this = s.this, !.ThisPos = s.ThisPos + 1, !.LengthLeft = s.LengthLeft]
          = AfterReplay(s)
    BY <1>5 DEF AfterReplay, StreamInv, StreamType, NewStream
  <2> QED BY <2>2, <2>3
<1> QED BY <1>4, <1>5

\* What the source delivers is its next token, and the end of file after the
\* last.
LEMMA SourceNextFacts ==
  ASSUME NEW s, StreamInv(s), s.source # NullSource
  PROVE  /\ s.source \in Sources /\ SourceLength[s.source] \in Nat
         /\ SourceNext(s) \in TokenValues
         /\ ~ s.SourceEOFFlag =>
              /\ SourceNext(s) = SourceToken(s.source, s.Pos + 1)
              /\ s.delivered <= SourceLength[s.source]
              /\ IsEOF(SourceNext(s)) <=> s.Pos + 1 = SourceLength[s.source] + 1
         /\ s.SourceEOFFlag => s.delivered > SourceLength[s.source]
<1>1. /\ s.source \in Sources /\ SourceLength[s.source] \in Nat
      /\ s.delivered = s.Pos /\ s.Pos \in Nat
      /\ s.Pos <= SourceLength[s.source] + 1
      /\ s.SourceEOFFlag <=> s.Pos = SourceLength[s.source] + 1
  BY SourceAssumption DEF StreamInv, StreamType, InStep
<1> DEFINE n == IF s.delivered < SourceLength[s.source] THEN s.delivered + 1
                                                        ELSE SourceLength[s.source] + 1
<1>2. SourceNext(s) = SourceToken(s.source, n) /\ n \in 1 .. (SourceLength[s.source] + 1)
  BY <1>1 DEF SourceNext
<1>3. SourceNext(s) \in TokenValues
  BY <1>1, <1>2 DEF TokenValues
<1>4. ~ s.SourceEOFFlag => n = s.Pos + 1 /\ s.delivered <= SourceLength[s.source]
  BY <1>1
<1> HIDE DEF n
<1>5. IsEOF(SourceNext(s)) <=> n = SourceLength[s.source] + 1
  BY <1>1, <1>2, SourceAssumption DEF IsEOF, EofToken, SourceToken
<1> QED BY <1>1, <1>2, <1>3, <1>4, <1>5

\* A block after a token is written into one of its slots, and after it is
\* counted.
LEMMA WrittenBlock ==
  ASSUME NEW blk \in Block, NEW p \in 0 .. (BufferSize - 1), NEW tok \in TokenValues
  PROVE  LET written == [blk EXCEPT !.Tokens[p] = tok]
         IN  /\ written \in Block
             /\ written.Index = blk.Index /\ written.Count = blk.Count
             /\ written.Tokens[p] = tok
             /\ \A j \in 0 .. (BufferSize - 1) : j # p => written.Tokens[j] = blk.Tokens[j]
<1> DEFINE written == [blk EXCEPT !.Tokens[p] = tok]
           tokens  == [blk.Tokens EXCEPT ![p] = tok]
<1>1. /\ blk.Tokens \in [0 .. (BufferSize - 1) -> TokenValues]
      /\ blk.Index \in Nat /\ blk.Count \in 0 .. BufferSize
      /\ blk = [Index |-> blk.Index, Count |-> blk.Count, Tokens |-> blk.Tokens]
  BY DEF Block
<1>2. /\ tokens \in [0 .. (BufferSize - 1) -> TokenValues]
      /\ tokens[p] = tok
      /\ \A j \in 0 .. (BufferSize - 1) : j # p => tokens[j] = blk.Tokens[j]
  BY <1>1
<1> HIDE DEF tokens
<1>3. written = [Index |-> blk.Index, Count |-> blk.Count, Tokens |-> tokens]
  BY <1>1 DEF tokens
<1> HIDE DEF written
<1>4. written \in Block
  BY <1>1, <1>2, <1>3 DEF Block
<1> QED BY <1>2, <1>3, <1>4 DEF written

\* The current block after Counted.
LEMMA CountedBlock ==
  ASSUME NEW blk \in Block, NEW n \in 0 .. BufferSize
  PROVE  LET counted == [blk EXCEPT !.Count = n]
         IN  /\ counted \in Block
             /\ counted.Index = blk.Index /\ counted.Count = n
             /\ counted.Tokens = blk.Tokens
BY DEF Block

\* Once the source has ended, a read only writes beyond the tokens buffered.
LEMMA ReadPastEOFInv ==
  ASSUME NEW s, StreamInv(s), ~ Replays(s), s.source # NullSource, s.SourceEOFFlag
  PROVE  StreamInv(AfterRead(s))
<1> DEFINE t == AfterRead(s)
<1>1. /\ s.this \in s.first .. s.last /\ s.this = s.last
      /\ s.ThisPos = s.blocks[s.this].Count /\ s.ThisPos \in 0 .. (BufferSize - 1)
  BY ReadsAtEnd, CursorFacts
<1>2. /\ DOMAIN t = DOMAIN s
      /\ t.source = s.source /\ t.delivered = s.delivered /\ t.this = s.this
      /\ t.last = s.last /\ t.first = s.first /\ t.ThisPos = s.ThisPos
      /\ t.LengthLeft = s.LengthLeft /\ t.Pos = s.Pos
      /\ t.SourceEOFFlag = s.SourceEOFFlag /\ t.Markers = s.Markers
      /\ t.blocks = [s.blocks EXCEPT ![s.this].Tokens[s.ThisPos] = SourceNext(s)]
  BY SourceNextFacts DEF AfterRead, Stored, StreamInv, StreamType, NewStream
<1> HIDE DEF t
<1>3. /\ t.blocks \in [s.first .. s.last -> Block]
      /\ \A b \in s.first .. s.last :
           /\ t.blocks[b].Index = s.blocks[b].Index /\ t.blocks[b].Count = s.blocks[b].Count
           /\ \A j \in 0 .. (t.blocks[b].Count - 1) :
                t.blocks[b].Tokens[j] = s.blocks[b].Tokens[j]
  <2> SUFFICES ASSUME NEW b \in s.first .. s.last
               PROVE  /\ t.blocks[b] \in Block
                      /\ t.blocks[b].Index = s.blocks[b].Index
                      /\ t.blocks[b].Count = s.blocks[b].Count
                      /\ \A j \in 0 .. (t.blocks[b].Count - 1) :
                           t.blocks[b].Tokens[j] = s.blocks[b].Tokens[j]
    BY <1>2 DEF StreamInv, StreamType
  <2>1. s.blocks[b] \in Block /\ SourceNext(s) \in TokenValues
    BY BlockFacts, SourceNextFacts
  <2>2. CASE b # s.this
    BY <1>2, <2>1, <2>2 DEF StreamInv, StreamType
  <2>3. CASE b = s.this
    <3>1. t.blocks[b] = [s.blocks[b] EXCEPT !.Tokens[s.ThisPos] = SourceNext(s)]
      BY <1>2, <2>3 DEF StreamInv, StreamType
    <3>2. /\ t.blocks[b] \in Block
          /\ t.blocks[b].Index = s.blocks[b].Index /\ t.blocks[b].Count = s.blocks[b].Count
          /\ \A j \in 0 .. (BufferSize - 1) : j # s.ThisPos =>
               t.blocks[b].Tokens[j] = s.blocks[b].Tokens[j]
      BY <1>1, <2>1, <3>1, WrittenBlock
    <3>3. \A j \in 0 .. (t.blocks[b].Count - 1) : j \in 0 .. (BufferSize - 1) /\ j # s.ThisPos
      BY <1>1, <2>3, <3>2, BlockFacts, CursorFacts
    <3> QED BY <3>2, <3>3
  <2> QED BY <2>2, <2>3
<1>4. /\ t.source = s.source /\ t.first = s.first /\ t.last = s.last /\ t.Pos = s.Pos
      /\ t.Markers = s.Markers /\ Marked(t) = Marked(s)
  BY <1>2 DEF Marked
<1>5. StreamType(t)
  BY <1>2, <1>3 DEF StreamInv, StreamType, Marked
<1>6. Contiguous(t)
  <2>1. s.last \in s.first .. s.last
    BY <1>1
  <2>2. \A b \in s.first .. (s.last - 1) : b \in s.first .. s.last /\ b + 1 \in s.first .. s.last
    BY CursorFacts
  <2>3. Contiguous(s)
    BY DEF StreamInv
  <2> QED BY <1>3, <1>4, <2>1, <2>2, <2>3 DEF Contiguous
<1>7. Recorded(t) /\ MarkersHold(t)
  <2>1. Recorded(s) /\ MarkersHold(s)
    BY DEF StreamInv
  <2>2. Recorded(t)
    BY <1>3, <1>4, <2>1 DEF Recorded
  <2>3. MarkersHold(t)
    BY <1>3, <1>4, <2>1 DEF MarkersHold
  <2> QED BY <2>2, <2>3
<1>8. Remembers(t) /\ CursorInside(t) /\ InStep(t)
  <2>1. /\ s.first \in s.first .. s.last
        /\ t.blocks[s.first].Index = s.blocks[s.first].Index
        /\ t.blocks[s.this].Index = s.blocks[s.this].Index
    BY <1>1, <1>3, CursorFacts
  <2>2. Remembers(t)
    BY <1>2, <2>1 DEF StreamInv, Remembers, RememberedIndex
  <2>3. CursorInside(t) /\ InStep(t)
    BY <1>2, <2>1 DEF StreamInv, CursorInside, GetTokenIndex, InStep
  <2> QED BY <2>2, <2>3
<1> QED BY <1>5, <1>6, <1>7, <1>8 DEF StreamInv, t

\* t is s with one more token counted.
CountedTo(s, t) ==
  /\ DOMAIN t = DOMAIN s
  /\ t.source = s.source /\ t.delivered = s.delivered + 1 /\ t.this = s.this
  /\ t.last = s.last /\ t.first = s.first /\ t.ThisPos = s.ThisPos + 1
  /\ t.LengthLeft = s.LengthLeft /\ t.Pos = s.Pos + 1
  /\ t.SourceEOFFlag = IsEOF(SourceNext(s)) /\ t.Markers = s.Markers
  /\ t.blocks \in [s.first .. s.last -> Block]
  /\ \A b \in s.first .. s.last : b # s.this => t.blocks[b] = s.blocks[b]
  /\ t.blocks[s.this].Index = s.blocks[s.this].Index
  /\ t.blocks[s.this].Count = s.blocks[s.this].Count + 1
  /\ \A j \in 0 .. s.blocks[s.this].Count :
       t.blocks[s.this].Tokens[j] = SourceToken(s.source, s.blocks[s.this].Index + j + 1)

\* A token counted: what becomes of every field.
LEMMA CountedFacts ==
  ASSUME NEW s, StreamInv(s), ~ Replays(s), s.source # NullSource, ~ s.SourceEOFFlag
  PROVE  CountedTo(s, Counted(s))
<1> DEFINE t == Counted(s)
<1> DEFINE c == s.this
           p == s.ThisPos
           tok == SourceNext(s)
           written == [s.blocks[c] EXCEPT !.Tokens[p] = tok]
           counted == [written EXCEPT !.Count = s.blocks[c].Count + 1]
<1>1. /\ c \in s.first .. s.last /\ c = s.last /\ p = s.blocks[c].Count
      /\ p \in 0 .. (BufferSize - 1) /\ s.blocks[c] \in Block /\ tok \in TokenValues
      /\ s.blocks[c].Count + 1 \in 0 .. BufferSize
      /\ s.blocks[c].Index \in Nat /\ s.Pos = s.blocks[c].Index + p
      /\ tok = SourceToken(s.source, s.Pos + 1)
  <2>1. c \in s.first .. s.last /\ c = s.last /\ p = s.blocks[c].Count
    BY ReadsAtEnd, CursorFacts
  <2>2. tok \in TokenValues /\ tok = SourceToken(s.source, s.Pos + 1)
    BY SourceNextFacts
  <2> QED BY <2>1, <2>2, BlockFacts, CursorFacts
<1>2. /\ DOMAIN t = DOMAIN s
      /\ t.source = s.source /\ t.delivered = s.delivered + 1 /\ t.this = s.this
      /\ t.last = s.last /\ t.first = s.first /\ t.ThisPos = s.ThisPos + 1
      /\ t.LengthLeft = s.LengthLeft /\ t.Pos = s.Pos + 1
      /\ t.SourceEOFFlag = IsEOF(SourceNext(s)) /\ t.Markers = s.Markers
  <2>1. ~ (s.delivered > SourceLength[s.source])
    BY SourceNextFacts, CursorFacts
  <2> QED BY <2>1 DEF Counted, Stored, StreamInv, StreamType, NewStream
<1>3. t.blocks = [[s.blocks EXCEPT ![c].Tokens[p] = tok] EXCEPT ![c].Count = s.blocks[c].Count + 1]
  BY DEF Counted, Stored, StreamInv, StreamType, NewStream
<1>4. s.blocks \in [s.first .. s.last -> Block]
  BY DEF StreamInv, StreamType
<1> HIDE DEF c, p, tok, t
<1>5. t.blocks[c] = counted
  BY <1>1, <1>3, <1>4
<1>6. /\ DOMAIN t.blocks = s.first .. s.last
      /\ t.blocks = [b \in s.first .. s.last |-> t.blocks[b]]
      /\ \A b \in s.first .. s.last : b # c => t.blocks[b] = s.blocks[b]
  BY <1>3, <1>4
<1>7. /\ written \in Block /\ written.Index = s.blocks[c].Index /\ written.Tokens[p] = tok
      /\ \A j \in 0 .. (BufferSize - 1) : j # p => written.Tokens[j] = s.blocks[c].Tokens[j]
  <2>1. PICK blk \in Block : blk = s.blocks[c]
    BY <1>1
  <2>2. PICK w : w = [blk EXCEPT !.Tokens[p] = tok]
    OBVIOUS
  <2>3. p \in 0 .. (BufferSize - 1) /\ tok \in TokenValues
    BY <1>1
  <2>4. /\ w \in Block /\ w.Index = blk.Index /\ w.Tokens[p] = tok
        /\ \A j \in 0 .. (BufferSize - 1) : j # p => w.Tokens[j] = blk.Tokens[j]
    BY <2>2, <2>3, WrittenBlock
  <2>5. w = written
    BY <2>1, <2>2
  <2> HIDE DEF written
  <2> QED BY <2>1, <2>4, <2>5
<1> HIDE DEF written
<1>8. /\ counted \in Block /\ counted.Index = written.Index
      /\ counted.Count = s.blocks[c].Count + 1 /\ counted.Tokens = written.Tokens
  BY <1>1, <1>7, CountedBlock
<1> HIDE DEF counted
<1>9. t.blocks \in [s.first .. s.last -> Block]
  BY <1>4, <1>5, <1>6, <1>8
<1>10. ASSUME NEW j \in 0 .. s.blocks[c].Count
       PROVE  t.blocks[c].Tokens[j] = SourceToken(s.source, s.blocks[c].Index + j + 1)
  <2>1. CASE j = p
    BY <1>1, <1>5, <1>7, <1>8, <2>1
  <2>2. CASE j # p
    <3>1. j \in 0 .. (s.blocks[c].Count - 1) /\ j \in 0 .. (BufferSize - 1)
      BY <1>1, <2>2, BlockFacts, BufferSizeAssumption
    <3>2. s.blocks[c].Tokens[j] = SourceToken(s.source, s.blocks[c].Index + j + 1)
      BY <1>1, <3>1 DEF StreamInv, Recorded
    <3> QED BY <1>5, <1>7, <1>8, <2>2, <3>1, <3>2
  <2> QED BY <2>1, <2>2
<1> QED BY <1>2, <1>5, <1>6, <1>7, <1>8, <1>9, <1>10 DEF c, t, CountedTo

\* What holds of the list after a token is counted, before a new block.
LEMMA CountedList ==
  ASSUME NEW s, StreamInv(s), ~ Replays(s), s.source # NullSource, ~ s.SourceEOFFlag,
         NEW t, CountedTo(s, t)
  PROVE  /\ \A b \in s.first .. s.last :
              /\ b # s.last => t.blocks[b].Count = BufferSize
              /\ t.blocks[b].Index = s.blocks[b].Index
              /\ t.blocks[b].Index + t.blocks[b].Count <= t.Pos
         /\ \A b \in s.first .. (s.last - 1) :
              t.blocks[b + 1].Index = t.blocks[b].Index + BufferSize
         /\ t.blocks[s.last].Count = t.ThisPos
         /\ t.Pos = t.blocks[s.last].Index + t.blocks[s.last].Count
         /\ Recorded(t) /\ InStep(t)
         /\ RememberedIndex(s) <= RememberedIndex(t)
<1>1. /\ s.this = s.last /\ s.this \in s.first .. s.last
      /\ s.ThisPos = s.blocks[s.this].Count
      /\ s.Pos = s.blocks[s.last].Index + s.blocks[s.last].Count
      /\ s.blocks[s.last].Index \in Nat /\ s.blocks[s.last].Count \in Nat
  BY ReadsAtEnd, CursorFacts, BlockFacts
<1>a. /\ t.first = s.first /\ t.last = s.last /\ t.this = s.this /\ t.source = s.source
      /\ t.Pos = s.Pos + 1 /\ t.ThisPos = s.ThisPos + 1
      /\ t.blocks[s.this].Index = s.blocks[s.this].Index
      /\ t.blocks[s.this].Count = s.blocks[s.this].Count + 1
  BY DEF CountedTo
<1>b. \A j \in 0 .. s.blocks[s.this].Count :
        t.blocks[s.this].Tokens[j] = SourceToken(s.source, s.blocks[s.this].Index + j + 1)
  BY DEF CountedTo
<1>2. ASSUME NEW b \in s.first .. s.last
      PROVE  /\ b # s.last => t.blocks[b].Count = BufferSize
             /\ t.blocks[b].Index = s.blocks[b].Index
             /\ t.blocks[b].Index + t.blocks[b].Count <= t.Pos
  <2>1. CASE b = s.last
    BY <1>1, <1>a, <2>1, CursorFacts
  <2>2. CASE b # s.last
    <3>1. /\ t.blocks[b] = s.blocks[b] /\ t.Pos = s.Pos + 1
          /\ s.blocks[b].Index + s.blocks[b].Count <= s.Pos
      BY <1>1, <2>2 DEF StreamInv, Contiguous, CountedTo
    <3> QED BY <2>2, <3>1, BlockFacts, CursorFacts
  <2> QED BY <2>1, <2>2
<1>3. ASSUME NEW b \in s.first .. (s.last - 1)
      PROVE  t.blocks[b + 1].Index = t.blocks[b].Index + BufferSize
  <2>1. b \in s.first .. s.last /\ b + 1 \in s.first .. s.last /\ b # s.last
    BY CursorFacts
  <2> QED BY <1>2, <2>1, BlockFacts
<1>4. /\ t.blocks[s.last].Count = t.ThisPos
      /\ t.Pos = t.blocks[s.last].Index + t.blocks[s.last].Count
  BY <1>1 DEF CountedTo
<1>5. Recorded(t)
  <2> SUFFICES ASSUME NEW b \in s.first .. s.last, NEW j \in 0 .. (t.blocks[b].Count - 1)
               PROVE  t.blocks[b].Tokens[j] = SourceToken(s.source, t.blocks[b].Index + j + 1)
    BY DEF Recorded, CountedTo
  <2>1. CASE b = s.last
    <3>1. j \in 0 .. s.blocks[s.this].Count
      BY <1>1, <1>a, <2>1
    <3> QED BY <1>1, <1>a, <1>b, <2>1, <3>1
  <2>2. CASE b # s.last
    <3>1. t.blocks[b] = s.blocks[b]
      BY <1>1, <2>2 DEF CountedTo
    <3> QED BY <3>1 DEF StreamInv, Recorded
  <2> QED BY <2>1, <2>2
<1>6. InStep(t)
  <2>1. /\ t.source = s.source /\ t.delivered = s.delivered + 1 /\ t.Pos = s.Pos + 1
        /\ t.SourceEOFFlag <=> s.Pos + 1 = SourceLength[s.source] + 1
        /\ s.delivered <= SourceLength[s.source] /\ SourceLength[s.source] \in Nat
        /\ s.delivered = s.Pos
    BY SourceNextFacts DEF StreamInv, InStep, CountedTo
  <2> QED BY <2>1, CursorFacts DEF InStep
<1>7. RememberedIndex(s) <= RememberedIndex(t)
  BY CursorFacts, RememberAssumption DEF RememberedIndex, CountedTo
<1> QED BY <1>2, <1>3, <1>4, <1>5, <1>6, <1>7

\* A block that is not full yet takes the token.
LEMMA CountedInv ==
  ASSUME NEW s, StreamInv(s), ~ Replays(s), s.source # NullSource, ~ s.SourceEOFFlag,
         NEW t, CountedTo(s, t), t.ThisPos # BufferSize
  PROVE  StreamInv(t)
<1>a. /\ t.first = s.first /\ t.last = s.last /\ t.this = s.this
      /\ t.Pos = s.Pos + 1 /\ t.ThisPos = s.ThisPos + 1
      /\ t.blocks[s.this].Index = s.blocks[s.this].Index
  BY DEF CountedTo
<1>1. /\ s.this = s.last /\ s.this \in s.first .. s.last
      /\ t.ThisPos \in 0 .. (BufferSize - 1)
      /\ t.Pos \in Nat
      /\ s.Pos = s.blocks[s.this].Index + s.ThisPos
      /\ s.blocks[s.this].Index \in Nat
  BY <1>a, ReadsAtEnd, CursorFacts, BlockFacts
<1>2. StreamType(t)
  <2>1. t.SourceEOFFlag \in BOOLEAN
    BY DEF IsEOF, CountedTo
  <2>2. t.delivered \in Nat
    BY CursorFacts DEF CountedTo
  <2>3. /\ DOMAIN t = DOMAIN s /\ t.source = s.source /\ t.LengthLeft = s.LengthLeft
        /\ t.Markers = s.Markers /\ t.blocks \in [s.first .. s.last -> Block]
    BY DEF CountedTo
  <2> QED BY <1>a, <1>1, <2>1, <2>2, <2>3 DEF StreamInv, StreamType, Marked
<1>3. Contiguous(t)
  <2> QED BY <1>a, <1>1, CountedList, CursorFacts DEF Contiguous
<1>4. MarkersHold(t)
  <2> SUFFICES ASSUME NEW m \in Marked(s)
               PROVE  LET b == s.Markers[m]
                      IN  /\ b \in s.first .. s.last
                          /\ t.blocks[b].Index <= m /\ m < t.blocks[b].Index + BufferSize
                          /\ m <= s.Pos + 1
    BY DEF MarkersHold, Marked, CountedTo
  <2>1. /\ s.Markers[m] \in s.first .. s.last /\ m \in Nat /\ m <= s.Pos
        /\ s.blocks[s.Markers[m]].Index <= m
        /\ m < s.blocks[s.Markers[m]].Index + BufferSize
    BY DEF StreamInv, StreamType, MarkersHold
  <2> QED BY <2>1, CountedList, CursorFacts
<1>5. Remembers(t)
  <2>1. s.first \in s.first .. s.last /\ s.blocks[s.first].Index \in Nat
    BY CursorFacts, BlockFacts
  <2>2. RememberedIndex(s) \in Nat /\ RememberedIndex(t) \in Nat
    BY <1>a, CursorFacts, RememberAssumption DEF RememberedIndex
  <2>3. t.blocks[s.first].Index = s.blocks[s.first].Index
    BY <2>1, CountedList
  <2> QED BY <1>a, <2>1, <2>2, <2>3, CountedList DEF StreamInv, Remembers
<1>6. CursorInside(t)
  BY <1>a, <1>1, CursorFacts DEF CursorInside, GetTokenIndex
<1> QED BY <1>2, <1>3, <1>4, <1>5, <1>6, CountedList DEF StreamInv

\* A block that has become full is followed by an empty one.
LEMMA WithNewBlockInv ==
  ASSUME NEW s, StreamInv(s), ~ Replays(s), s.source # NullSource, ~ s.SourceEOFFlag,
         NEW t, CountedTo(s, t), t.ThisPos = BufferSize
  PROVE  StreamInv(WithNewBlock(t))
<1> DEFINE v == WithNewBlock(t)
           e == s.last + 1
<1>1. /\ t.first = s.first /\ t.last = s.last /\ t.this = s.last
      /\ t.Pos = s.Pos + 1 /\ t.source = s.source /\ t.delivered = s.delivered + 1
      /\ t.LengthLeft = s.LengthLeft /\ t.Markers = s.Markers
      /\ DOMAIN t = DOMAIN s /\ t.SourceEOFFlag \in BOOLEAN
  BY ReadsAtEnd DEF CountedTo, IsEOF
<1>2. t.blocks \in [s.first .. s.last -> Block]
  BY DEF CountedTo
<1>3. /\ DOMAIN v = DOMAIN s
      /\ v.source = s.source /\ v.delivered = s.delivered + 1
      /\ v.first = s.first /\ v.last = e /\ v.this = e /\ v.ThisPos = 0
      /\ v.LengthLeft = s.LengthLeft /\ v.Pos = s.Pos + 1
      /\ v.SourceEOFFlag = t.SourceEOFFlag /\ v.Markers = s.Markers
      /\ v.blocks = [b \in s.first .. e |-> IF b = e THEN NewBlock(t.Pos) ELSE t.blocks[b]]
  BY <1>1 DEF WithNewBlock, StreamInv, StreamType, NewStream
<1>4. /\ s.last \in Nat /\ s.first \in Nat /\ s.first <= s.last /\ s.Pos + 1 \in Nat
      /\ e \in s.first .. e /\ e \in Nat
      /\ \A b \in s.first .. e : b # e => b \in s.first .. s.last
      /\ \A b \in s.first .. s.last : b \in s.first .. e /\ b # e
  BY CursorFacts
<1> HIDE DEF v
<1>5. /\ NewBlock(t.Pos) \in Block
      /\ NewBlock(t.Pos).Index = t.Pos /\ NewBlock(t.Pos).Count = 0
  <2>1. EofToken \in TokenValues
    BY DEF TokenValues
  <2> QED BY <1>1, <1>4, <2>1, BufferSizeAssumption DEF NewBlock, Block
<1> HIDE DEF e
<1>6. /\ v.blocks[e] = NewBlock(t.Pos)
      /\ \A b \in s.first .. s.last : v.blocks[b] = t.blocks[b]
      /\ v.blocks \in [s.first .. e -> Block]
  BY <1>2, <1>3, <1>4, <1>5
<1>7. StreamType(v)
  <2>1. s.Markers \in [Marked(s) -> s.first .. e] /\ Marked(s) \subseteq Nat
    BY <1>4 DEF StreamInv, StreamType
  <2>2. s.delivered + 1 \in Nat /\ s.LengthLeft \in Nat /\ 0 \in 0 .. (BufferSize - 1)
    BY CursorFacts
  <2> QED BY <1>1, <1>3, <1>4, <1>6, <2>1, <2>2 DEF StreamInv, StreamType, Marked
<1>8. Contiguous(v)
  <2>0. v.first = s.first /\ v.last = e /\ v.Pos = t.Pos /\ v.Pos \in Nat
    BY <1>1, <1>3, <1>4
  <2>1. ASSUME NEW b \in s.first .. s.last
        PROVE  /\ v.blocks[b].Count = BufferSize
               /\ v.blocks[b].Index + v.blocks[b].Count <= v.Pos
    <3>1. t.blocks[b].Count = BufferSize /\ t.blocks[b].Index + t.blocks[b].Count <= t.Pos
      BY CountedList
    <3> QED BY <1>6, <2>0, <3>1
  <2>2. v.blocks[s.last].Index + BufferSize = v.Pos
    BY <1>1, <1>3, <1>4, <1>6, CountedList
  <2>3. v.blocks[e].Index = v.Pos /\ v.blocks[e].Count = 0
    BY <1>1, <1>3, <1>5, <1>6
  <2>4. ASSUME NEW b \in s.first .. (e - 1)
        PROVE  v.blocks[b + 1].Index = v.blocks[b].Index + BufferSize
    <3>1. CASE b = s.last
      BY <2>2, <2>3, <3>1 DEF e
    <3>2. CASE b # s.last
      <4>1. b \in s.first .. (s.last - 1) /\ b \in s.first .. s.last /\ b + 1 \in s.first .. s.last
        BY <1>4, <3>2 DEF e
      <4> QED BY <1>6, <4>1, CountedList
    <3> QED BY <3>1, <3>2
  <2>5. ASSUME NEW b \in s.first .. e
        PROVE  /\ v.blocks[b].Count = BufferSize <=> b # e
               /\ v.blocks[b].Index + v.blocks[b].Count <= v.Pos
    <3>1. CASE b = e
      BY <2>0, <2>3, <3>1, BufferSizeAssumption
    <3>2. CASE b # e
      BY <1>4, <2>1, <3>2
    <3> QED BY <3>1, <3>2
  <2> QED BY <2>0, <2>3, <2>4, <2>5 DEF Contiguous
<1>9. Recorded(v)
  <2>0. v.first = s.first /\ v.last = e /\ v.source = s.source
    BY <1>3
  <2> SUFFICES ASSUME NEW b \in s.first .. e, NEW j \in 0 .. (v.blocks[b].Count - 1)
               PROVE  v.blocks[b].Tokens[j] = SourceToken(s.source, v.blocks[b].Index + j + 1)
    BY <2>0 DEF Recorded
  <2>1. b # e
    BY <1>5, <1>6
  <2>2. b \in s.first .. s.last /\ v.blocks[b] = t.blocks[b]
    BY <1>4, <1>6, <2>1
  <2>3. Recorded(t)
    BY CountedList
  <2> QED BY <1>1, <2>2, <2>3 DEF Recorded
<1>10. MarkersHold(v)
  <2> SUFFICES ASSUME NEW m \in Marked(s)
               PROVE  LET b == s.Markers[m]
                      IN  /\ b \in s.first .. e
                          /\ v.blocks[b].Index <= m /\ m < v.blocks[b].Index + BufferSize
                          /\ m <= s.Pos + 1
    BY <1>3 DEF MarkersHold, Marked
  <2>1. /\ s.Markers[m] \in s.first .. s.last /\ m \in Nat /\ m <= s.Pos
        /\ s.blocks[s.Markers[m]].Index <= m
        /\ m < s.blocks[s.Markers[m]].Index + BufferSize
    BY DEF StreamInv, StreamType, MarkersHold
  <2>2. v.blocks[s.Markers[m]].Index = s.blocks[s.Markers[m]].Index
    BY <1>6, <2>1, CountedList
  <2> QED BY <1>4, <2>1, <2>2, CursorFacts
<1>11. Remembers(v)
  <2>1. s.first \in s.first .. s.last /\ s.blocks[s.first].Index \in Nat
    BY CursorFacts, BlockFacts
  <2>2. RememberedIndex(v) = RememberedIndex(t)
    BY <1>1, <1>3 DEF RememberedIndex
  <2>3. RememberedIndex(s) \in Nat /\ RememberedIndex(t) \in Nat
    BY <1>1, CursorFacts, RememberAssumption DEF RememberedIndex
  <2>4. v.blocks[s.first].Index = s.blocks[s.first].Index
    BY <1>6, <2>1, CountedList
  <2> QED BY <1>3, <2>1, <2>2, <2>3, <2>4, CountedList DEF StreamInv, Remembers
<1>12. CursorInside(v) /\ InStep(v)
  <2>1. CursorInside(v)
    BY <1>1, <1>3, <1>4, <1>5, <1>6 DEF CursorInside, GetTokenIndex
  <2>2. InStep(t)
    BY CountedList
  <2> QED BY <1>1, <1>3, <2>1, <2>2 DEF InStep
<1> QED BY <1>7, <1>8, <1>9, <1>10, <1>11, <1>12 DEF StreamInv, v

\* GetNextToken keeps the invariant and returns a token.
LEMMA AfterNextTokenInv ==
  ASSUME NEW s, StreamInv(s)
  PROVE  /\ StreamInv(AfterNextToken(s))
         /\ NextToken(s) \in TokenValues
<1>1. CASE s.LengthLeft = 0
  BY <1>1 DEF AfterNextToken, NextToken, TokenValues
<1>2. CASE s.LengthLeft # 0 /\ Replays(s)
  <2>1. /\ s.this \in s.first .. s.last /\ s.ThisPos \in 0 .. (BufferSize - 1)
    BY CursorFacts
  <2>2. s.blocks[s.this] \in Block
    BY <2>1, BlockFacts
  <2>3. s.blocks[s.this].Tokens[s.ThisPos] \in TokenValues
    BY <2>1, <2>2 DEF Block
  <2> QED BY <1>2, <2>3, AfterReplayInv DEF AfterNextToken, NextToken
<1>3. CASE s.LengthLeft # 0 /\ ~ Replays(s)
  <2>1. s.source # NullSource
    BY <1>3 DEF StreamInv, InStep
  <2>2. NextToken(s) \in TokenValues
    BY <1>3, <2>1, SourceNextFacts DEF NextToken
  <2>3. CASE s.SourceEOFFlag
    BY <1>3, <2>1, <2>2, <2>3, ReadPastEOFInv DEF AfterNextToken
  <2>4. CASE ~ s.SourceEOFFlag
    <3> DEFINE t == Counted(s)
    <3>1. CountedTo(s, t)
      BY <1>3, <2>1, <2>4, CountedFacts
    <3> HIDE DEF t
    <3>2. StreamInv(ExtendList(t))
      <4>1. CASE t.ThisPos = BufferSize
        <5>1. StreamInv(WithNewBlock(t))
          BY <1>3, <2>1, <2>4, <3>1, <4>1, WithNewBlockInv
        <5> QED BY <4>1, <5>1, ReleaseExtraBuffersInv DEF ExtendList
      <4>2. CASE t.ThisPos # BufferSize
        BY <1>3, <2>1, <2>4, <3>1, <4>2, CountedInv DEF ExtendList
      <4> QED BY <4>1, <4>2
    <3> QED BY <1>3, <2>2, <2>4, <3>2 DEF AfterNextToken, AfterRead, t
  <2> QED BY <2>3, <2>4
<1> QED BY <1>1, <1>2, <1>3

(***************************************************************************)
(* Attaching a source                                                      *)
(***************************************************************************)

\* A stream of a single empty block.
LEMMA EmptyStreamInv ==
  ASSUME NEW s, NEW src \in Sources \union {NullSource}, NEW blk \in Block,
         blk.Index = 0, blk.Count = 0,
         DOMAIN s = DOMAIN NewStream(NullSource),
         s.source = src, s.delivered = 0,
         s.blocks = [b \in {1} |-> blk], s.first = 1, s.last = 1, s.this = 1,
         s.ThisPos = 0, s.LengthLeft = IF src = NullSource THEN 0 ELSE MaxSize,
         s.Pos = 0, s.SourceEOFFlag = FALSE, s.Markers = NoMarkers
  PROVE  StreamInv(s)
<1>1. s.first .. s.last = {1} /\ s.blocks[1] = blk
  OBVIOUS
<1>2. Marked(s) = {} /\ s.Markers \in [Marked(s) -> {1}]
  BY DEF Marked, NoMarkers
<1>3. StreamType(s)
  <2>1. s.blocks \in [s.first .. s.last -> Block]
    BY <1>1
  <2>2. 0 \in 0 .. (BufferSize - 1) /\ s.LengthLeft \in Nat
    BY BufferSizeAssumption, MaxSizeAssumption
  <2>3. s.first \in Nat /\ s.last \in Nat /\ s.this \in s.first .. s.last
    OBVIOUS
  <2>4. Marked(s) \subseteq Nat /\ s.Markers \in [Marked(s) -> s.first .. s.last]
    BY <1>1, <1>2
  <2>5. s.source \in Sources \union {NullSource} /\ s.delivered \in Nat /\ s.Pos \in Nat
    OBVIOUS
  <2> QED BY <2>1, <2>2, <2>3, <2>4, <2>5 DEF StreamType
<1>4. Contiguous(s) /\ Recorded(s) /\ MarkersHold(s)
  BY <1>1, <1>2, BufferSizeAssumption DEF Contiguous, Recorded, MarkersHold
<1>5. Remembers(s) /\ CursorInside(s)
  BY <1>1, RememberAssumption DEF Remembers, RememberedIndex, CursorInside, GetTokenIndex
<1>6. InStep(s)
  BY SourceAssumption DEF InStep
<1> QED BY <1>3, <1>4, <1>5, <1>6 DEF StreamInv

\* A constructed stream.
LEMMA NewStreamInv ==
  ASSUME NEW src \in Sources \union {NullSource}
  PROVE  StreamInv(NewStream(src))
<1>1. NewBlock(0) \in Block /\ NewBlock(0).Index = 0 /\ NewBlock(0).Count = 0
  BY BufferSizeAssumption DEF NewBlock, Block, TokenValues
<1>2. DOMAIN NewStream(src) = DOMAIN NewStream(NullSource)
  BY DEF NewStream
<1> DEFINE s == NewStream(src)
<1>3. /\ s.source = src /\ s.delivered = 0
      /\ s.blocks = [b \in {1} |-> NewBlock(0)] /\ s.first = 1 /\ s.last = 1 /\ s.this = 1
      /\ s.ThisPos = 0 /\ s.LengthLeft = IF src = NullSource THEN 0 ELSE MaxSize
      /\ s.Pos = 0 /\ s.SourceEOFFlag = FALSE /\ s.Markers = NoMarkers
  BY DEF NewStream
<1> HIDE DEF s
<1>4. StreamInv(s)
  BY <1>1, <1>2, <1>3, EmptyStreamInv DEF s
<1> QED BY <1>4 DEF s

\* A stream nothing has been read into yet, or not since its last block was
\* started, can be given a source.
LEMMA ResetStreamInv ==
  ASSUME NEW s, StreamInv(s), s.blocks[s.last].Count = 0,
         NEW src \in Sources \union {NullSource}
  PROVE  StreamInv(ResetStream(s, src))
<1> DEFINE t == ResetStream(s, src)
           blk == [s.blocks[s.last] EXCEPT !.Index = 0]
<1>1. s.blocks[s.last] \in Block
  <2>1. s.last \in s.first .. s.last
    BY CursorFacts
  <2> QED BY <2>1, BlockFacts
<1>2. blk \in Block /\ blk.Index = 0 /\ blk.Count = 0
  BY <1>1 DEF Block
<1>3. /\ DOMAIN t = DOMAIN s /\ DOMAIN s = DOMAIN NewStream(NullSource)
      /\ t.source = src /\ t.delivered = 0
      /\ t.blocks = [b \in {1} |-> blk] /\ t.first = 1 /\ t.last = 1 /\ t.this = 1
      /\ t.ThisPos = 0 /\ t.LengthLeft = IF src = NullSource THEN 0 ELSE MaxSize
      /\ t.Pos = 0 /\ t.SourceEOFFlag = FALSE /\ t.Markers = NoMarkers
  BY DEF ResetStream, StreamInv, StreamType, NewStream
<1> HIDE DEF blk, t
<1>4. StreamInv(t)
  BY <1>2, <1>3, EmptyStreamInv
<1> QED BY <1>4 DEF t

(***************************************************************************)
(* Blocks are reclaimed                                                    *)
(***************************************************************************)

\* After ReleaseExtraBuffers the first block is the current one, or holds an
\* index that is marked or remembered.
LEMMA NothingLeftToFree ==
  ASSUME NEW s, StreamInv(s)
  PROVE  LET t == ReleaseExtraBuffers(s)
         IN  \/ t.first = t.this
             \/ ~ UpToLastIndex(t, t.blocks[t.first].Index + BufferSize)
<1> DEFINE t == ReleaseExtraBuffers(s)
           f == FirstKept(s)
<1>1. /\ f \in s.first .. s.this /\ ~ Releasable(s, f)
      /\ \A c \in s.first .. (f - 1) : Releasable(s, c)
  BY FirstKeptExists DEF StreamInv
<1>2. f \in s.first .. s.last /\ f \in Nat
  BY <1>1, CursorFacts
<1>3. /\ t.first = f /\ t.this = s.this /\ t.Pos = s.Pos /\ t.Markers = s.Markers
      /\ t.blocks[f] = s.blocks[f]
  BY <1>2 DEF ReleaseExtraBuffers, StreamInv, StreamType, NewStream
<1> HIDE DEF t, f
<1>4. \A i : UpToLastIndex(t, i) <=> UpToLastIndex(s, i)
  BY <1>3 DEF UpToLastIndex, RememberedIndex, BeforeAllMarkers, Marked
<1>5. SUFFICES ASSUME f # s.this, UpToLastIndex(s, s.blocks[f].Index + BufferSize)
               PROVE  FALSE
  BY <1>3, <1>4 DEF t
<1>6. f # s.last
  BY <1>1, <1>5, CursorFacts
<1>7. s.blocks[f].Index \in Nat /\ s.blocks[f + 1].Index = s.blocks[f].Index + BufferSize
  BY <1>2, <1>6, BlockFacts
<1>8. BelowLastIndex(s, s.blocks[f].Index)
  <2>1. RememberedIndex(s) \in Nat /\ Marked(s) \subseteq Nat
    BY CursorFacts, RememberAssumption DEF RememberedIndex, StreamInv, StreamType
  <2> QED BY <1>5, <1>7, <2>1, BufferSizeAssumption
          DEF BelowLastIndex, UpToLastIndex, BeforeAllMarkers
<1>9. ASSUME NEW c \in s.first .. f
      PROVE  /\ c # s.this
             /\ BelowLastIndex(s, s.blocks[c].Index)
             /\ UpToLastIndex(s, s.blocks[c + 1].Index)
  <2>1. CASE c = f
    BY <1>5, <1>7, <1>8, <2>1
  <2>2. CASE c # f
    <3>1. c \in s.first .. (f - 1) /\ c \in s.first .. c
      BY <1>2, <2>2, CursorFacts
    <3> QED BY <1>1, <3>1 DEF Releasable
  <2> QED BY <2>1, <2>2
<1> QED BY <1>1, <1>6, <1>9 DEF Releasable

\* Only a read that fills the last block makes the list longer.
LEMMA OnlyReadsExtend ==
  ASSUME NEW s, StreamInv(s)
  PROVE  /\ \A i : SetMarker(s, i).last = s.last
         /\ \A i : ReleaseMarker(s, i).last = s.last
         /\ ResetMarkers(s).last = s.last
         /\ \A i : SeekTo(s, i).last = s.last
         /\ \A i, n : BacktrackToMarker(s, i, n).last = s.last
         /\ \A n : AdvanceToBufferEnd(s, n).last = s.last
         /\ \A n : SetMaxStreamLength(s, n).last = s.last
<1>1. {"last", "first", "blocks", "Markers", "this", "ThisPos", "LengthLeft"} \subseteq DOMAIN s
  BY DEF StreamInv, StreamType, NewStream
<1>2. \A M : [s EXCEPT !.Markers = M].last = s.last
  BY <1>1
<1>3. \A M : ReleaseExtraBuffers([s EXCEPT !.Markers = M]).last = s.last
  BY <1>1 DEF ReleaseExtraBuffers
<1>4. \A i : SetMarker(s, i).last = s.last
  BY <1>2 DEF SetMarker
<1>5. \A i : ReleaseMarker(s, i).last = s.last
  BY <1>2, <1>3 DEF ReleaseMarker
<1>6. ResetMarkers(s).last = s.last
  BY <1>3 DEF ResetMarkers
<1>7. \A i : SeekTo(s, i).last = s.last
  BY <1>1 DEF SeekTo
<1>8. \A i, n : BacktrackToMarker(s, i, n).last = s.last
  BY <1>1 DEF BacktrackToMarker
<1>9. \A n : AdvanceToBufferEnd(s, n).last = s.last
  BY <1>1 DEF AdvanceToBufferEnd
<1>10. \A n : SetMaxStreamLength(s, n).last = s.last
  BY <1>1 DEF SetMaxStreamLength
<1> QED BY <1>4, <1>5, <1>6, <1>7, <1>8, <1>9, <1>10

\* A read that makes the list longer leaves nothing to free.
LEMMA ReadReclaims ==
  ASSUME NEW s, StreamInv(s), NEW t, t = AfterNextToken(s), t.last > s.last
  PROVE  \/ t.first = t.this
         \/ ~ UpToLastIndex(t, t.blocks[t.first].Index + BufferSize)
<1>0. /\ {"last", "this", "ThisPos", "delivered", "blocks"} \subseteq DOMAIN s
      /\ ~ (s.last > s.last)
  BY CursorFacts DEF StreamInv, StreamType, NewStream
<1>1. AfterReplay(s).last = s.last /\ Stored(s).last = s.last
  BY <1>0 DEF AfterReplay, Stored
<1>2. /\ s.LengthLeft # 0 /\ ~ Replays(s) /\ ~ s.SourceEOFFlag
      /\ t = ExtendList(Counted(s))
  BY <1>0, <1>1 DEF AfterNextToken, AfterRead
<1>3. s.source # NullSource
  BY <1>2 DEF StreamInv, InStep
<1> DEFINE c == Counted(s)
<1>4. CountedTo(s, c)
  BY <1>2, <1>3, CountedFacts
<1> HIDE DEF c
<1>5. c.last = s.last
  BY <1>4 DEF CountedTo
<1>6. c.ThisPos = BufferSize /\ t = ReleaseExtraBuffers(WithNewBlock(c))
  BY <1>0, <1>2, <1>5 DEF ExtendList, c
<1>7. StreamInv(WithNewBlock(c))
  BY <1>2, <1>3, <1>4, <1>6, WithNewBlockInv
<1> QED BY <1>6, <1>7, NothingLeftToFree

(***************************************************************************)
(* What the operations do to the tokens a client can reach: the cursor,    *)
(* the markers, and the floor, the oldest index of the list.               *)
(***************************************************************************)
Floor(s) == s.blocks[s.first].Index

\* The indexes of the blocks rise along the list.
LEMMA IndexesRise ==
  ASSUME NEW s, StreamInv(s), NEW b \in s.first .. s.last, NEW c \in s.first .. s.last, b <= c
  PROVE  s.blocks[b].Index <= s.blocks[c].Index
<1> DEFINE T == {d \in b .. s.last : s.blocks[d].Index < s.blocks[b].Index}
<1>1. SUFFICES ASSUME T # {} PROVE FALSE
  <2>1. c \in b .. s.last
    BY CursorFacts
  <2>2. s.blocks[b].Index \in Nat /\ s.blocks[c].Index \in Nat
    BY BlockFacts
  <2> QED BY <2>1, <2>2
<1>2. T \subseteq Nat
  BY CursorFacts
<1>3. PICK d \in T : \A k \in T : d <= k
  <2> HIDE DEF T
  <2> QED BY <1>1, <1>2, NatMin
<1>4. d # b /\ d \in s.first .. s.last /\ d - 1 \in b .. s.last /\ d - 1 \in s.first .. s.last
  BY <1>3, BlockFacts, CursorFacts
<1>5. d - 1 # s.last /\ (d - 1) + 1 = d /\ d - 1 \notin T
  BY <1>3, <1>4, CursorFacts
<1>6. s.blocks[d].Index = s.blocks[d - 1].Index + BufferSize
  BY <1>4, <1>5, BlockFacts
<1> QED BY <1>3, <1>4, <1>5, <1>6, BlockFacts, BufferSizeAssumption

\* The floor is not above the cursor or a marker, the cursor not past the end.
LEMMA FloorFacts ==
  ASSUME NEW s, StreamInv(s)
  PROVE  /\ Floor(s) \in Nat /\ GetTokenIndex(s) \in Nat /\ s.Pos \in Nat
         /\ Floor(s) <= GetTokenIndex(s) /\ GetTokenIndex(s) <= s.Pos
         /\ \A m \in Marked(s) : m \in Nat /\ Floor(s) <= m /\ m <= s.Pos
<1>1. s.first \in s.first .. s.last /\ s.this \in s.first .. s.last /\ s.first <= s.this
  BY CursorFacts
<1>2. Floor(s) \in Nat /\ s.blocks[s.this].Index \in Nat
  BY <1>1, BlockFacts DEF Floor
<1>3. Floor(s) <= s.blocks[s.this].Index
  BY <1>1, IndexesRise DEF Floor
<1>4. ASSUME NEW m \in Marked(s)
      PROVE  m \in Nat /\ Floor(s) <= m /\ m <= s.Pos
  <2>1. /\ s.Markers[m] \in s.first .. s.last /\ m \in Nat /\ m <= s.Pos
        /\ s.blocks[s.Markers[m]].Index <= m
    BY DEF StreamInv, StreamType, MarkersHold
  <2>2. s.blocks[s.Markers[m]].Index \in Nat /\ s.first <= s.Markers[m]
    BY <2>1, BlockFacts, CursorFacts
  <2>3. Floor(s) <= s.blocks[s.Markers[m]].Index
    BY <1>1, <2>1, <2>2, IndexesRise DEF Floor
  <2> QED BY <1>2, <2>1, <2>2, <2>3
<1> QED BY <1>2, <1>3, <1>4, CursorFacts DEF GetTokenIndex

\* t has the tokens, the length limit and the cursor of s.
SamePlace(s, t) ==
  /\ t.source = s.source /\ t.Pos = s.Pos
  /\ GetTokenIndex(t) = GetTokenIndex(s)
  /\ t.LengthLeft = s.LengthLeft

\* The floor has risen, but not past what the client may still ask for.
ForgetsNoneNeeded(lowest, t) ==
  /\ lowest <= Floor(t) /\ Floor(t) <= GetTokenIndex(t)
  /\ \A m \in Marked(t) : Floor(t) <= m
  /\ Floor(t) <= lowest \/ Floor(t) + RememberLength <= t.Pos

\* Freeing blocks moves the floor only.
LEMMA ReleaseExtraBuffersWindow ==
  ASSUME NEW s, StreamInv(s), NEW t, t = ReleaseExtraBuffers(s)
  PROVE  /\ SamePlace(s, t) /\ Marked(t) = Marked(s)
         /\ ForgetsNoneNeeded(Floor(s), t)
<1> DEFINE f == FirstKept(s)
<1>1. f \in s.first .. s.this /\ \A c \in s.first .. (f - 1) : Releasable(s, c)
  BY FirstKeptExists DEF StreamInv
<1>2. /\ f \in Nat /\ s.first <= f /\ f <= s.this
      /\ f \in s.first .. s.last /\ s.first \in s.first .. s.last /\ s.this \in f .. s.last
  BY <1>1, CursorFacts
<1>3. /\ t.source = s.source /\ t.this = s.this /\ t.first = f /\ t.ThisPos = s.ThisPos
      /\ t.LengthLeft = s.LengthLeft /\ t.Pos = s.Pos /\ t.Markers = s.Markers
      /\ t.blocks = [b \in f .. s.last |-> s.blocks[b]]
  BY DEF ReleaseExtraBuffers, StreamInv, StreamType, NewStream
<1> HIDE DEF f
<1>4. t.blocks[s.this] = s.blocks[s.this] /\ t.blocks[f] = s.blocks[f]
  BY <1>2, <1>3
<1>5. SamePlace(s, t) /\ Marked(t) = Marked(s) /\ Floor(t) = s.blocks[f].Index
  BY <1>3, <1>4 DEF SamePlace, GetTokenIndex, Marked, Floor
<1>6. Floor(s) <= Floor(t)
  BY <1>2, <1>5, IndexesRise DEF Floor
<1>7. StreamInv(t)
  BY ReleaseExtraBuffersInv
<1>8. Floor(t) <= GetTokenIndex(t) /\ \A m \in Marked(t) : Floor(t) <= m
  BY <1>7, FloorFacts
<1>9. Floor(t) <= Floor(s) \/ Floor(t) + RememberLength <= t.Pos
  <2>1. CASE f = s.first
    BY <1>5, <1>7, <2>1, FloorFacts DEF Floor
  <2>2. CASE f # s.first
    <3>1. Releasable(s, f - 1) /\ f - 1 \in s.first .. (f - 1) /\ (f - 1) + 1 = f
      BY <1>1, <1>2, <2>2, CursorFacts
    <3>2. s.blocks[f].Index <= RememberedIndex(s)
      BY <3>1 DEF Releasable, UpToLastIndex
    <3>3. Floor(t) \in Nat /\ Floor(s) \in Nat /\ s.Pos \in Nat
      BY <1>7, FloorFacts
    <3> QED BY <1>3, <1>5, <3>2, <3>3, RememberAssumption DEF RememberedIndex
  <2> QED BY <2>1, <2>2
<1> QED BY <1>5, <1>6, <1>8, <1>9 DEF ForgetsNoneNeeded

\* A marker is set exactly where the client can still go.
LEMMA SetMarkerWindow ==
  ASSUME NEW s, StreamInv(s), NEW i \in Nat, NEW t, t = SetMarker(s, i)
  PROVE  /\ SamePlace(s, t) /\ Floor(t) = Floor(s)
         /\ CanSetMarker(s, i) <=> i \in Floor(s) .. s.Pos
         /\ Marked(t) = IF i \in Floor(s) .. s.Pos THEN Marked(s) \union {i} ELSE Marked(s)
<1>1. CanSetMarker(s, i) <=> i \in Floor(s) .. s.Pos
  BY FloorFacts DEF CanSetMarker, Floor
<1>2. CASE CanSetMarker(s, i)
  <2>1. /\ t.source = s.source /\ t.this = s.this /\ t.first = s.first
        /\ t.ThisPos = s.ThisPos /\ t.LengthLeft = s.LengthLeft /\ t.Pos = s.Pos
        /\ t.blocks = s.blocks
        /\ t.Markers = [m \in Marked(s) \union {i} |->
                          IF m = i THEN MarkerBlock(s, i) ELSE s.Markers[m]]
    BY <1>2 DEF SetMarker, StreamInv, StreamType, NewStream
  <2>2. DOMAIN t.Markers = Marked(s) \union {i}
    BY <2>1
  <2> QED BY <1>1, <1>2, <2>1, <2>2 DEF SamePlace, Floor, GetTokenIndex, Marked
<1>3. CASE ~ CanSetMarker(s, i)
  BY <1>1, <1>3 DEF SetMarker, SamePlace
<1> QED BY <1>1, <1>2, <1>3

\* Forgetting markers leaves the cursor and the floor where they are.
LEMMA FewerMarkersWindow ==
  ASSUME NEW s, StreamInv(s), NEW M \in SUBSET Marked(s),
         NEW t, t = [s EXCEPT !.Markers = [m \in M |-> s.Markers[m]]]
  PROVE  /\ StreamInv(t)
         /\ SamePlace(s, t) /\ Marked(t) = M /\ Floor(t) = Floor(s)
<1>1. StreamInv(t)
  BY FewerMarkersInv
<1>2. /\ t.source = s.source /\ t.this = s.this /\ t.first = s.first
      /\ t.ThisPos = s.ThisPos /\ t.LengthLeft = s.LengthLeft /\ t.Pos = s.Pos
      /\ t.blocks = s.blocks /\ t.Markers = [m \in M |-> s.Markers[m]]
  BY DEF StreamInv, StreamType, NewStream
<1> QED BY <1>1, <1>2 DEF SamePlace, Floor, GetTokenIndex, Marked

\* A stream the floor of which has not moved forgets nothing.
LEMMA SameFloor ==
  ASSUME NEW t, StreamInv(t)
  PROVE  ForgetsNoneNeeded(Floor(t), t)
BY FloorFacts DEF ForgetsNoneNeeded

\* Releasing a marker unmarks its index, and frees only what nobody needs.
LEMMA ReleaseMarkerWindow ==
  ASSUME NEW s, StreamInv(s), NEW i, NEW t, t = ReleaseMarker(s, i)
  PROVE  /\ SamePlace(s, t) /\ Marked(t) = Marked(s) \ {i}
         /\ ForgetsNoneNeeded(Floor(s), t)
<1> DEFINE without == [s EXCEPT !.Markers = [m \in Marked(s) \ {i} |-> s.Markers[m]]]
<1>1. /\ StreamInv(without) /\ SamePlace(s, without)
      /\ Marked(without) = Marked(s) \ {i} /\ Floor(without) = Floor(s)
  BY FewerMarkersWindow
<1>2. t = IF i \notin Marked(s)           THEN s
          ELSE IF BeforeAllMarkers(s, i)  THEN ReleaseExtraBuffers(without)
          ELSE without
  BY DEF ReleaseMarker
<1> HIDE DEF without
<1>3. CASE i \notin Marked(s)
  BY <1>2, <1>3, SameFloor DEF SamePlace
<1>4. CASE i \in Marked(s) /\ BeforeAllMarkers(s, i)
  <2>1. /\ SamePlace(without, t) /\ Marked(t) = Marked(without)
        /\ ForgetsNoneNeeded(Floor(without), t)
    BY <1>1, <1>2, <1>4, ReleaseExtraBuffersWindow
  <2> QED BY <1>1, <2>1 DEF SamePlace
<1>5. CASE i \in Marked(s) /\ ~ BeforeAllMarkers(s, i)
  BY <1>1, <1>2, <1>5, SameFloor
<1> QED BY <1>3, <1>4, <1>5

\* Releasing them all unmarks every index.
LEMMA ResetMarkersWindow ==
  ASSUME NEW s, StreamInv(s), NEW t, t = ResetMarkers(s)
  PROVE  /\ SamePlace(s, t) /\ Marked(t) = {}
         /\ ForgetsNoneNeeded(Floor(s), t)
<1> DEFINE none == [s EXCEPT !.Markers = [m \in {} |-> s.Markers[m]]]
<1>1. /\ StreamInv(none) /\ SamePlace(s, none)
      /\ Marked(none) = {} /\ Floor(none) = Floor(s)
  BY FewerMarkersWindow
<1>2. NoMarkers = [m \in {} |-> s.Markers[m]]
  BY DEF NoMarkers
<1>3. t = ReleaseExtraBuffers(none)
  BY <1>2 DEF ResetMarkers
<1> HIDE DEF none
<1>4. SamePlace(none, t) /\ Marked(t) = Marked(none) /\ ForgetsNoneNeeded(Floor(none), t)
  BY <1>1, <1>3, ReleaseExtraBuffersWindow
<1> QED BY <1>1, <1>4 DEF SamePlace

\* What moves the cursor moves nothing else.
MovedTo(s, t, b, p, left) ==
  /\ t.source = s.source /\ t.this = b /\ t.first = s.first /\ t.ThisPos = p
  /\ t.LengthLeft = left /\ t.Pos = s.Pos /\ t.blocks = s.blocks /\ t.Markers = s.Markers

\* Only the cursor and the limit are another's.
LEMMA MovedCursorWindow ==
  ASSUME NEW s, NEW t, NEW b, NEW p, NEW left, MovedTo(s, t, b, p, left)
  PROVE  /\ t.source = s.source /\ t.Pos = s.Pos /\ Marked(t) = Marked(s)
         /\ Floor(t) = Floor(s) /\ t.LengthLeft = left
         /\ GetTokenIndex(t) = p + s.blocks[b].Index
BY DEF MovedTo, Marked, Floor, GetTokenIndex

\* A backtrack puts the cursor on the marked index.
LEMMA BacktrackWindow ==
  ASSUME NEW s, StreamInv(s), NEW i \in Marked(s), NEW limit,
         NEW t, t = BacktrackToMarker(s, i, limit)
  PROVE  /\ t.source = s.source /\ t.Pos = s.Pos /\ Marked(t) = Marked(s)
         /\ Floor(t) = Floor(s) /\ GetTokenIndex(t) = i
         /\ t.LengthLeft = LengthFor(s, limit)
<1> DEFINE b == s.Markers[i]
<1>1. b \in s.first .. s.last /\ i \in Nat /\ s.blocks[b].Index \in Nat
  BY BlockFacts DEF StreamInv, StreamType, MarkersHold
<1>2. MovedTo(s, t, b, i - s.blocks[b].Index, LengthFor(s, limit))
  BY DEF BacktrackToMarker, MovedTo, StreamInv, StreamType, NewStream
<1> HIDE DEF b
<1>3. (i - s.blocks[b].Index) + s.blocks[b].Index = i
  BY <1>1
<1> QED BY <1>2, <1>3, MovedCursorWindow

\* A seek succeeds exactly within the floor and the end, and puts the cursor
\* on the index.
LEMMA SeekToWindow ==
  ASSUME NEW s, StreamInv(s), NEW i \in Nat, i <= s.Pos, NEW t, t = SeekTo(s, i)
  PROVE  /\ CanSeekTo(s, i) <=> i \in Floor(s) .. s.Pos
         /\ t.source = s.source /\ t.Pos = s.Pos /\ Marked(t) = Marked(s)
         /\ Floor(t) = Floor(s) /\ t.LengthLeft = s.LengthLeft
         /\ GetTokenIndex(t) = IF i \in Floor(s) .. s.Pos THEN i ELSE GetTokenIndex(s)
<1>1. CanSeekTo(s, i) <=> i \in Floor(s) .. s.Pos
  <2>1. s.first \in s.first .. s.last /\ s.this \in s.first .. s.last /\ s.first <= s.this
    BY CursorFacts
  <2>2. Floor(s) <= s.blocks[s.this].Index /\ s.blocks[s.this].Index \in Nat
    BY <2>1, IndexesRise, BlockFacts DEF Floor
  <2> QED BY <2>2, FloorFacts DEF CanSeekTo, SeeksAhead, InBounds, Floor
<1>2. CASE ~ CanSeekTo(s, i)
  BY <1>1, <1>2 DEF SeekTo
<1>3. CASE CanSeekTo(s, i)
  <2> DEFINE b == SeekTarget(s, i)
  <2>1. b \in s.first .. s.last
    BY <1>3, SeekTargetHolds
  <2>2. MovedTo(s, t, b, i - s.blocks[b].Index, s.LengthLeft)
    BY <1>3 DEF SeekTo, SeekTarget, MovedTo, StreamInv, StreamType, NewStream
  <2> HIDE DEF b
  <2>3. s.blocks[b].Index \in Nat
    BY <2>1, BlockFacts
  <2>4. (i - s.blocks[b].Index) + s.blocks[b].Index = i
    BY <2>3
  <2> QED BY <1>1, <1>3, <2>2, <2>4, MovedCursorWindow
<1> QED BY <1>1, <1>2, <1>3

\* The end of the buffer is the end of what has been read.
LEMMA AdvanceToBufferEndWindow ==
  ASSUME NEW s, StreamInv(s), NEW limit, NEW t, t = AdvanceToBufferEnd(s, limit)
  PROVE  /\ t.source = s.source /\ t.Pos = s.Pos /\ Marked(t) = Marked(s)
         /\ Floor(t) = Floor(s) /\ GetTokenIndex(t) = s.Pos
         /\ t.LengthLeft = LengthFor(s, limit)
<1>1. t = [s EXCEPT !.this = s.last, !.ThisPos = s.blocks[s.last].Count,
                    !.LengthLeft = LengthFor(s, limit)]
  BY BufferEndIsLast
<1>2. MovedTo(s, t, s.last, s.blocks[s.last].Count, LengthFor(s, limit))
  BY <1>1 DEF MovedTo, StreamInv, StreamType, NewStream
<1>3. s.blocks[s.last].Count + s.blocks[s.last].Index = s.Pos
  <2>1. s.last \in s.first .. s.last
    BY CursorFacts
  <2> QED BY <2>1, BlockFacts
<1> QED BY <1>2, <1>3, MovedCursorWindow

\* A length limit moves nothing.
LEMMA SetMaxStreamLengthWindow ==
  ASSUME NEW s, StreamInv(s), NEW limit, NEW t, t = SetMaxStreamLength(s, limit)
  PROVE  /\ t.source = s.source /\ t.Pos = s.Pos /\ Marked(t) = Marked(s)
         /\ Floor(t) = Floor(s) /\ GetTokenIndex(t) = GetTokenIndex(s)
         /\ t.LengthLeft = LengthFor(s, limit)
<1>1. MovedTo(s, t, s.this, s.ThisPos, LengthFor(s, limit))
  BY DEF SetMaxStreamLength, MovedTo, StreamInv, StreamType, NewStream
<1> QED BY <1>1, MovedCursorWindow DEF GetTokenIndex

\* A stream given a source starts over.
LEMMA ResetStreamWindow ==
  ASSUME NEW s, StreamInv(s), NEW src, NEW t, t = ResetStream(s, src)
  PROVE  /\ t.source = src /\ t.Pos = 0 /\ Marked(t) = {}
         /\ Floor(t) = 0 /\ GetTokenIndex(t) = 0
         /\ t.LengthLeft = IF src = NullSource THEN 0 ELSE MaxSize
<1>1. /\ t.source = src /\ t.Pos = 0 /\ t.first = 1 /\ t.this = 1 /\ t.ThisPos = 0
      /\ t.LengthLeft = IF src = NullSource THEN 0 ELSE MaxSize
      /\ t.Markers = NoMarkers
      /\ t.blocks = [b \in {1} |-> [s.blocks[s.last] EXCEPT !.Index = 0]]
  BY DEF ResetStream, StreamInv, StreamType, NewStream
<1>2. s.blocks[s.last] \in Block
  <2>1. s.last \in s.first .. s.last
    BY CursorFacts
  <2> QED BY <2>1, BlockFacts
<1>3. t.blocks[1].Index = 0
  BY <1>1, <1>2 DEF Block
<1> QED BY <1>1, <1>3 DEF Marked, NoMarkers, Floor, GetTokenIndex

\* A token read again: the cursor moves on by one.
LEMMA AfterReplayWindow ==
  ASSUME NEW s, StreamInv(s), Replays(s), NEW t, t = AfterReplay(s)
  PROVE  /\ t.source = s.source /\ t.Pos = s.Pos /\ Marked(t) = Marked(s)
         /\ Floor(t) = Floor(s) /\ t.LengthLeft = s.LengthLeft
         /\ GetTokenIndex(t) = GetTokenIndex(s) + 1
         /\ GetTokenIndex(s) < s.Pos
         /\ s.blocks[s.this].Tokens[s.ThisPos] = SourceToken(s.source, GetTokenIndex(s) + 1)
<1>1. /\ s.this \in s.first .. s.last /\ s.ThisPos \in Nat
      /\ s.ThisPos < s.blocks[s.this].Count
      /\ s.blocks[s.this].Index \in Nat /\ s.blocks[s.this].Count \in Nat
  BY CursorFacts, BlockFacts DEF Replays
<1>2. GetTokenIndex(s) < s.Pos
  <2>1. s.blocks[s.this].Index + s.blocks[s.this].Count <= s.Pos
    BY <1>1 DEF StreamInv, Contiguous
  <2> QED BY <1>1, <2>1, CursorFacts DEF GetTokenIndex
<1>3. s.blocks[s.this].Tokens[s.ThisPos] = SourceToken(s.source, GetTokenIndex(s) + 1)
  <2>1. s.ThisPos \in 0 .. (s.blocks[s.this].Count - 1)
    BY <1>1
  <2>2. s.blocks[s.this].Tokens[s.ThisPos]
          = SourceToken(s.source, s.blocks[s.this].Index + s.ThisPos + 1)
    BY <1>1, <2>1 DEF StreamInv, Recorded
  <2>3. s.blocks[s.this].Index + s.ThisPos + 1 = GetTokenIndex(s) + 1
    BY <1>1 DEF GetTokenIndex
  <2> QED BY <2>2, <2>3
<1>4. CASE s.ThisPos + 1 = BufferSize
  <2>1. MovedTo(s, t, s.this + 1, 0, s.LengthLeft)
    BY <1>4 DEF AfterReplay, MovedTo, StreamInv, StreamType, NewStream
  <2>2. s.this # s.last
    BY <1>1, <1>4, BlockFacts, CursorFacts
  <2>3. s.blocks[s.this + 1].Index = s.blocks[s.this].Index + BufferSize
    BY <1>1, <2>2, BlockFacts
  <2>4. 0 + s.blocks[s.this + 1].Index = GetTokenIndex(s) + 1
    BY <1>1, <1>4, <2>3, BufferSizeAssumption DEF GetTokenIndex
  <2> QED BY <1>2, <1>3, <2>1, <2>4, MovedCursorWindow
<1>5. CASE s.ThisPos + 1 # BufferSize
  <2>1. MovedTo(s, t, s.this, s.ThisPos + 1, s.LengthLeft)
    BY <1>5 DEF AfterReplay, MovedTo, StreamInv, StreamType, NewStream
  <2>2. (s.ThisPos + 1) + s.blocks[s.this].Index = GetTokenIndex(s) + 1
    BY <1>1 DEF GetTokenIndex
  <2> QED BY <1>2, <1>3, <2>1, <2>2, MovedCursorWindow
<1> QED BY <1>4, <1>5

\* A read past the end of file moves nothing.
LEMMA ReadPastEOFWindow ==
  ASSUME NEW s, StreamInv(s), ~ Replays(s), s.source # NullSource, s.SourceEOFFlag,
         NEW t, t = AfterRead(s)
  PROVE  /\ SamePlace(s, t) /\ Marked(t) = Marked(s) /\ Floor(t) = Floor(s)
         /\ SourceNext(s) = SourceToken(s.source, s.Pos)
         /\ s.Pos = SourceLength[s.source] + 1
<1>1. s.this \in s.first .. s.last /\ s.first \in s.first .. s.last
  BY CursorFacts
<1>2. /\ t.source = s.source /\ t.this = s.this /\ t.first = s.first
      /\ t.ThisPos = s.ThisPos /\ t.LengthLeft = s.LengthLeft /\ t.Pos = s.Pos
      /\ t.Markers = s.Markers
      /\ t.blocks = [s.blocks EXCEPT ![s.this].Tokens[s.ThisPos] = SourceNext(s)]
  BY DEF AfterRead, Stored, StreamInv, StreamType, NewStream
<1>3. \A b \in s.first .. s.last : t.blocks[b].Index = s.blocks[b].Index
  <2>1. s.blocks \in [s.first .. s.last -> Block]
    BY DEF StreamInv, StreamType
  <2>2. ASSUME NEW b \in s.first .. s.last
        PROVE  t.blocks[b].Index = s.blocks[b].Index
    <3>1. CASE b # s.this
      BY <1>2, <2>1, <3>1
    <3>2. CASE b = s.this
      <4>1. t.blocks[b] = [s.blocks[b] EXCEPT !.Tokens[s.ThisPos] = SourceNext(s)]
        BY <1>2, <2>1, <3>2
      <4>2. s.blocks[b] \in Block
        BY <2>1
      <4> QED BY <4>1, <4>2 DEF Block
    <3> QED BY <3>1, <3>2
  <2> QED BY <2>2
<1>4. SamePlace(s, t) /\ Marked(t) = Marked(s) /\ Floor(t) = Floor(s)
  BY <1>1, <1>2, <1>3 DEF SamePlace, GetTokenIndex, Marked, Floor
<1>5. s.delivered = s.Pos /\ s.Pos = SourceLength[s.source] + 1
  BY DEF StreamInv, StreamType, InStep
<1>6. SourceLength[s.source] \in Nat
  BY SourceNextFacts
<1>7. SourceNext(s) = SourceToken(s.source, s.Pos)
  BY <1>5, <1>6 DEF SourceNext
<1> QED BY <1>4, <1>5, <1>7

\* A fresh token: the end and the cursor move on by one, and a new block frees
\* only what nobody needs.
LEMMA ReadFreshWindow ==
  ASSUME NEW s, StreamInv(s), ~ Replays(s), s.source # NullSource, ~ s.SourceEOFFlag,
         NEW t, t = AfterRead(s)
  PROVE  /\ t.source = s.source /\ t.LengthLeft = s.LengthLeft /\ t.Pos = s.Pos + 1
         /\ Marked(t) = Marked(s) /\ GetTokenIndex(t) = s.Pos + 1
         /\ ForgetsNoneNeeded(Floor(s), t)
         /\ SourceNext(s) = SourceToken(s.source, s.Pos + 1)
         /\ s.Pos <= SourceLength[s.source]
<1>1. /\ SourceNext(s) = SourceToken(s.source, s.Pos + 1)
      /\ s.Pos <= SourceLength[s.source]
  BY SourceNextFacts DEF StreamInv, InStep
<1> DEFINE c == Counted(s)
<1>2. t = ExtendList(c)
  BY DEF AfterRead
<1>3. CountedTo(s, c)
  BY CountedFacts
<1> HIDE DEF c
<1>4. /\ s.this \in s.first .. s.last /\ s.first \in s.first .. s.last
      /\ s.this = s.last /\ GetTokenIndex(s) = s.Pos
      /\ s.ThisPos \in Nat /\ s.blocks[s.this].Index \in Nat /\ s.Pos \in Nat
  BY CursorFacts, ReadsAtEnd, BlockFacts
<1>5. /\ c.source = s.source /\ c.LengthLeft = s.LengthLeft /\ c.Pos = s.Pos + 1
      /\ c.this = s.this /\ c.first = s.first /\ c.last = s.last
      /\ c.ThisPos = s.ThisPos + 1 /\ Marked(c) = Marked(s)
      /\ c.blocks[s.this].Index = s.blocks[s.this].Index
      /\ DOMAIN c = DOMAIN s
  BY <1>3 DEF CountedTo, Marked
<1>6. Floor(c) = Floor(s) /\ GetTokenIndex(c) = s.Pos + 1
  <2>1. c.blocks[s.first].Index = s.blocks[s.first].Index
    BY <1>3, <1>4, CountedList
  <2> QED BY <1>4, <1>5, <2>1 DEF Floor, GetTokenIndex
<1>7. CASE c.ThisPos # BufferSize
  <2>1. StreamInv(c) /\ t = c
    BY <1>2, <1>3, <1>7, CountedInv DEF ExtendList
  <2>2. ForgetsNoneNeeded(Floor(c), c)
    BY <2>1, SameFloor
  <2> QED BY <1>1, <1>5, <1>6, <2>1, <2>2
<1>8. CASE c.ThisPos = BufferSize
  <2> DEFINE v == WithNewBlock(c)
  <2>1. StreamInv(v) /\ t = ReleaseExtraBuffers(v)
    BY <1>2, <1>3, <1>8, WithNewBlockInv DEF ExtendList
  <2>2. /\ v.source = s.source /\ v.LengthLeft = s.LengthLeft /\ v.Pos = s.Pos + 1
        /\ v.first = s.first /\ v.this = s.this + 1 /\ v.ThisPos = 0
        /\ v.Markers = c.Markers
        /\ v.blocks = [b \in s.first .. (s.this + 1) |->
                         IF b = s.this + 1 THEN NewBlock(c.Pos) ELSE c.blocks[b]]
    BY <1>5 DEF WithNewBlock, StreamInv, StreamType, NewStream
  <2> HIDE DEF v
  <2>3. s.this + 1 \in s.first .. (s.this + 1) /\ s.first \in s.first .. (s.this + 1)
        /\ s.first # s.this + 1
    BY CursorFacts
  <2>4. v.blocks[s.first] = c.blocks[s.first] /\ v.blocks[s.this + 1].Index = s.Pos + 1
    BY <1>5, <2>2, <2>3 DEF NewBlock
  <2>5. Floor(v) = Floor(s) /\ GetTokenIndex(v) = s.Pos + 1 /\ Marked(v) = Marked(s)
    BY <1>4, <1>5, <1>6, <2>2, <2>4 DEF Floor, GetTokenIndex, Marked
  <2>6. SamePlace(v, t) /\ Marked(t) = Marked(v) /\ ForgetsNoneNeeded(Floor(v), t)
    BY <2>1, ReleaseExtraBuffersWindow
  <2> QED BY <1>1, <2>2, <2>5, <2>6 DEF SamePlace
<1> QED BY <1>7, <1>8

=============================================================================
