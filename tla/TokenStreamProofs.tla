-------------------------- MODULE TokenStreamProofs --------------------------
(***************************************************************************)
(* Proofs about the token buffer and its client.  The lemmas about its     *)
(* operations are those of BacktrackingTokenStreamProofs; the theorems     *)
(* here give what TokenStreamSpec checks, the refinement included.         *)
(***************************************************************************)
EXTENDS TokenStreamSpec, BacktrackingTokenStreamProofs

Results == [ok : BOOLEAN, token : TokenValues]

Inv == StreamInv(stream) /\ result \in Results

\* What a call that reads no token returns.
LEMMA AnswerType ==
  ASSUME NEW ok \in BOOLEAN
  PROVE  Answer(ok) \in Results
BY DEF Answer, Results, TokenValues

\* The invariant holds of every stream the constructors give.
LEMMA InitInv == Init => Inv
BY NewStreamInv, AnswerType DEF Init, Inv

\* Every call of the parser's client keeps the invariant.
LEMMA NextInv == Inv /\ [Next]_vars => Inv'
<1> SUFFICES ASSUME Inv, [Next]_vars
             PROVE  Inv'
  OBVIOUS
<1> USE DEF Inv
<1>0. MaxSize \in Nat /\ Indexes \subseteq Nat /\ Lengths \subseteq Nat
  BY MaxSizeAssumption, IndexesAssumption, LengthsAssumption
<1>1. ASSUME NEW src \in Sources \union {NullSource},
             stream.blocks[stream.last].Count = 0, Attach(src)
      PROVE  Inv'
  BY <1>1, ResetStreamInv, AnswerType DEF Attach
<1>2. ASSUME NEW i \in Indexes, i <= stream.Pos, SeekIndex(i)
      PROVE  Inv'
  <2>1. CanSeekTo(stream, i) \in BOOLEAN
    BY DEF CanSeekTo, SeeksAhead, InBounds
  <2> QED BY <1>0, <1>2, <2>1, SeekToInv, AnswerType DEF SeekIndex
<1>3. ASSUME NEW n \in Indexes, n <= GetTokenIndex(stream), SeekCount(n)
      PROVE  Inv'
  <2> DEFINE i == IndexBack(stream, n)
  <2>1. i \in Nat /\ i <= stream.Pos
    BY <1>0, <1>3, IndexBackFacts
  <2>2. CanSeekTo(stream, i) \in BOOLEAN
    BY DEF CanSeekTo, SeeksAhead, InBounds
  <2>3. stream' = SeekTo(stream, i) /\ result' = Answer(CanSeekTo(stream, i))
    BY <1>3 DEF SeekCount, SeekIndex
  <2> HIDE DEF i
  <2> QED BY <2>1, <2>2, <2>3, SeekToInv, AnswerType
<1>4. ASSUME NEW i \in Indexes, Mark(i)
      PROVE  Inv'
  <2>1. CanSetMarker(stream, i) \in BOOLEAN
    BY DEF CanSetMarker
  <2> QED BY <1>0, <1>4, <2>1, SetMarkerInv, AnswerType DEF Mark
<1>5. ASSUME NEW i \in Indexes, Release(i)
      PROVE  Inv'
  <2>1. (i \in Marked(stream)) \in BOOLEAN
    OBVIOUS
  <2>2. result' \in Results
    BY <1>5, <2>1, AnswerType DEF Release
  <2> QED BY <1>5, <2>2, ReleaseMarkerInv DEF Release
<1>6. CASE ReleaseAll
  BY <1>6, ResetMarkersInv, AnswerType DEF ReleaseAll
<1>7. ASSUME NEW i \in Indexes, NEW limit \in Lengths, Backtrack(i, limit)
      PROVE  Inv'
  <2>1. (i \in Marked(stream)) \in BOOLEAN
    OBVIOUS
  <2>2. result' \in Results
    BY <1>7, <2>1, AnswerType DEF Backtrack
  <2> QED BY <1>0, <1>7, <2>2, BacktrackToMarkerInv DEF Backtrack
<1>8. ASSUME NEW limit \in Lengths, ToBufferEnd(limit)
      PROVE  Inv'
  BY <1>0, <1>8, AdvanceToBufferEndInv, AnswerType DEF ToBufferEnd
<1>9. ASSUME NEW limit \in Lengths, LimitLength(limit)
      PROVE  Inv'
  BY <1>0, <1>9, SetMaxStreamLengthInv, AnswerType DEF LimitLength
<1>10. CASE GetToken
  BY <1>10, AfterNextTokenInv DEF GetToken, Results
<1>11. CASE UNCHANGED vars
  BY <1>11 DEF vars
<1> QED BY <1>1, <1>2, <1>3, <1>4, <1>5, <1>6, <1>7, <1>8, <1>9, <1>10, <1>11
        DEF Next, MarkerCalls, PositionCalls

\* The invariant holds throughout every behaviour of the buffer's client.
THEOREM Invariance == Spec => []Inv
<1>1. Init => Inv
  BY InitInv
<1>2. Inv /\ [Next]_vars => Inv'
  BY NextInv
<1> QED BY <1>1, <1>2, PTL DEF Spec

\* The cursor and the markers always refer to blocks that have not been freed,
\* and every call returns a token of the source or the end of file.
THEOREM TypeCorrect == Spec => []TypeOK
<1>1. Inv => TypeOK
  BY DEF Inv, Results, StreamInv, TypeOK
<1> QED BY <1>1, Invariance, PTL

\* The block list covers the tokens from the first block's index to Pos without
\* gap or overlap, each where the source delivered it.
THEOREM Faithful == Spec => []BufferFaithful
<1>1. Inv => BufferFaithful
  BY DEF Inv, StreamInv, BufferFaithful
<1> QED BY <1>1, Invariance, PTL

\* The block of a marker is never freed while the marker is set.
THEOREM MarkersStayLive == Spec => []MarkersLive
<1>1. Inv => MarkersLive
  BY DEF Inv, StreamInv, MarkersLive
<1> QED BY <1>1, Invariance, PTL

\* The last RememberLength tokens are always in the list.
THEOREM RememberedStay == Spec => []RememberedKept
<1>1. Inv => RememberedKept
  BY DEF Inv, StreamInv, RememberedKept
<1> QED BY <1>1, Invariance, PTL

\* No call that allocates a block leaves one in the list that only holds tokens
\* nobody can ask for.
THEOREM Reclaimed == Spec => BlocksReclaimed
<1> DEFINE Kept == stream'.last > stream.last =>
                     \/ stream'.first = stream'.this
                     \/ ~ UpToLastIndex(stream', stream'.blocks[stream'.first].Index + BufferSize)
<1>1. Inv /\ [Next]_vars => [Kept]_vars
  <2> SUFFICES ASSUME Inv, Next, stream'.last > stream.last
               PROVE  \/ stream'.first = stream'.this
                      \/ ~ UpToLastIndex(stream', stream'.blocks[stream'.first].Index + BufferSize)
    OBVIOUS
  <2>1. StreamInv(stream) /\ ~ (stream.last > stream.last)
    BY CursorFacts DEF Inv
  <2>2. ASSUME NEW src, Attach(src)
        PROVE  stream'.first = stream'.this
    BY <2>1, <2>2 DEF Attach, ResetStream, StreamInv, StreamType, NewStream
  <2>3. ASSUME NEW i, SeekIndex(i) \/ SeekCount(i) \/ Mark(i) \/ Release(i)
        PROVE  FALSE
    BY <2>1, <2>3, OnlyReadsExtend DEF SeekIndex, SeekCount, Mark, Release
  <2>4. ASSUME NEW i, NEW limit, Backtrack(i, limit)
        PROVE  FALSE
    BY <2>1, <2>4, OnlyReadsExtend DEF Backtrack
  <2>a. ASSUME NEW limit, ToBufferEnd(limit) \/ LimitLength(limit)
        PROVE  FALSE
    <3>1. /\ AdvanceToBufferEnd(stream, limit).last = stream.last
          /\ SetMaxStreamLength(stream, limit).last = stream.last
      BY <2>1, OnlyReadsExtend
    <3> QED BY <2>1, <2>a, <3>1 DEF ToBufferEnd, LimitLength
  <2>5. ~ ReleaseAll
    BY <2>1, OnlyReadsExtend DEF ReleaseAll
  <2>6. CASE GetToken
    BY <2>1, <2>6, ReadReclaims DEF GetToken
  <2> QED BY <2>2, <2>3, <2>4, <2>a, <2>5, <2>6 DEF Next, MarkerCalls, PositionCalls
<1> QED BY <1>1, Invariance, PTL DEF Spec, BlocksReclaimed

(***************************************************************************)
(* The refinement: every call on the stream is one of TokenWindow, whose   *)
(* log has no blocks.                                                      *)
(***************************************************************************)

\* A constructed stream is a log nothing has been read into.
LEMMA WindowInit == Init => Window!Init
<1> SUFFICES ASSUME NEW src \in Sources \union {NullSource}, stream = NewStream(src),
                    result = Answer(TRUE)
             PROVE  Window!Init
  BY DEF Init
<1>1. /\ stream.source = src /\ stream.Pos = 0 /\ GetTokenIndex(stream) = 0
      /\ stream.blocks[stream.first].Index = 0 /\ Marked(stream) = {}
      /\ stream.LengthLeft = IF src = NullSource THEN 0 ELSE MaxSize
  BY DEF NewStream, NewBlock, GetTokenIndex, Marked, NoMarkers
<1>2. (stream.LengthLeft = 0) = (stream.source = NullSource)
  BY <1>1, MaxSizeAssumption, SourceAssumption
<1> QED BY <1>1, <1>2 DEF Window!Init, Window!Answer, Window!NoToken, Answer, EofToken

\* The floors the abstract stream may choose from are those the code rises to.
LEMMA ForgetAllows ==
  ASSUME NEW s, StreamInv(s), NEW t, StreamInv(t), ForgetsNoneNeeded(Floor(s), t)
  PROVE  Floor(t) \in Window!Forget(Floor(s), GetTokenIndex(t), Marked(t), t.Pos)
BY FloorFacts DEF ForgetsNoneNeeded, Window!Forget

\* What the abstract state is made of, for each of the two states of a step.
LEMMA WindowState ==
  /\ stream.blocks[stream.first].Index = Floor(stream)
  /\ stream'.blocks[stream'.first].Index = Floor(stream')
BY DEF Floor

\* Each call is the abstract call of the same name.
LEMMA WindowStep == Inv /\ Inv' /\ [Next]_vars => [Window!Next]_(Window!vars)
<1> SUFFICES ASSUME Inv, Inv', [Next]_vars
             PROVE  [Window!Next]_(Window!vars)
  OBVIOUS
<1>0. /\ StreamInv(stream) /\ StreamInv(stream')
      /\ MaxSize \in Nat /\ Indexes \subseteq Nat /\ Lengths \subseteq Nat
  BY MaxSizeAssumption, IndexesAssumption, LengthsAssumption DEF Inv
<1>1. ASSUME NEW src \in Sources \union {NullSource}, Attach(src)
      PROVE  Window!Attach(src)
  <2>1. /\ stream'.source = src /\ stream'.Pos = 0 /\ Marked(stream') = {}
        /\ Floor(stream') = 0 /\ GetTokenIndex(stream') = 0
        /\ stream'.LengthLeft = IF src = NullSource THEN 0 ELSE MaxSize
    BY <1>0, <1>1, ResetStreamWindow DEF Attach
  <2>2. (stream'.LengthLeft = 0) = (src = NullSource)
    BY <2>1, MaxSizeAssumption, SourceAssumption
  <2> QED BY <1>1, <2>1, <2>2, WindowState
          DEF Attach, Window!Attach, Window!Answer, Window!NoToken, Answer, EofToken
<1>2. ASSUME NEW i \in Nat, i <= stream.Pos, SeekIndex(i)
      PROVE  Window!Seek(i)
  <2>1. /\ CanSeekTo(stream, i) <=> i \in Floor(stream) .. stream.Pos
        /\ stream'.source = stream.source /\ stream'.Pos = stream.Pos
        /\ Marked(stream') = Marked(stream) /\ Floor(stream') = Floor(stream)
        /\ stream'.LengthLeft = stream.LengthLeft
        /\ GetTokenIndex(stream') = IF i \in Floor(stream) .. stream.Pos
                                      THEN i ELSE GetTokenIndex(stream)
    BY <1>0, <1>2, SeekToWindow DEF SeekIndex
  <2>2. result' = Answer(i \in Floor(stream) .. stream.Pos)
    <3>1. CanSeekTo(stream, i) = (i \in Floor(stream) .. stream.Pos)
      BY <2>1 DEF CanSeekTo, SeeksAhead, InBounds
    <3> QED BY <1>2, <3>1 DEF SeekIndex
  <2> QED BY <2>1, <2>2, WindowState
          DEF Window!Seek, Window!Answer, Window!NoToken, Answer, EofToken
<1>3. ASSUME NEW n \in Indexes, n <= GetTokenIndex(stream), SeekCount(n)
      PROVE  Window!SeekBack(n)
  <2>1. IndexBack(stream, n) \in Nat /\ IndexBack(stream, n) <= stream.Pos
    BY <1>0, <1>3, IndexBackFacts
  <2>2. IndexBack(stream, n) = GetTokenIndex(stream) - n
    BY <1>0, <1>3, IndexBackFacts
  <2>3. Window!Seek(IndexBack(stream, n))
    BY <1>2, <1>3, <2>1 DEF SeekCount
  <2> QED BY <1>3, <2>2, <2>3 DEF Window!SeekBack
<1>4. ASSUME NEW i \in Indexes, Mark(i)
      PROVE  Window!Mark(i)
  <2>1. /\ SamePlace(stream, stream') /\ Floor(stream') = Floor(stream)
        /\ CanSetMarker(stream, i) <=> i \in Floor(stream) .. stream.Pos
        /\ Marked(stream') = IF i \in Floor(stream) .. stream.Pos
                               THEN Marked(stream) \union {i} ELSE Marked(stream)
    BY <1>0, <1>4, SetMarkerWindow DEF Mark
  <2>2. result' = Answer(i \in Floor(stream) .. stream.Pos)
    <3>1. CanSetMarker(stream, i) = (i \in Floor(stream) .. stream.Pos)
      BY <2>1 DEF CanSetMarker
    <3> QED BY <1>4, <3>1 DEF Mark
  <2> QED BY <2>1, <2>2, WindowState
          DEF SamePlace, Window!Mark, Window!Answer, Window!NoToken, Answer, EofToken
<1>5. ASSUME NEW i \in Indexes, Release(i)
      PROVE  Window!Unmark(i)
  <2>1. /\ SamePlace(stream, stream') /\ Marked(stream') = Marked(stream) \ {i}
        /\ ForgetsNoneNeeded(Floor(stream), stream')
    BY <1>0, <1>5, ReleaseMarkerWindow DEF Release
  <2>2. Floor(stream') \in Window!Forget(Floor(stream), GetTokenIndex(stream'),
                                         Marked(stream'), stream'.Pos)
    BY <1>0, <2>1, ForgetAllows
  <2> QED BY <1>5, <2>1, <2>2, WindowState
          DEF SamePlace, Release, Window!Unmark, Window!Answer, Window!NoToken, Answer, EofToken
<1>6. ASSUME ReleaseAll
      PROVE  Window!UnmarkAll
  <2>1. /\ SamePlace(stream, stream') /\ Marked(stream') = {}
        /\ ForgetsNoneNeeded(Floor(stream), stream')
    BY <1>0, <1>6, ResetMarkersWindow DEF ReleaseAll
  <2>2. Floor(stream') \in Window!Forget(Floor(stream), GetTokenIndex(stream'),
                                         Marked(stream'), stream'.Pos)
    BY <1>0, <2>1, ForgetAllows
  <2> QED BY <1>6, <2>1, <2>2, WindowState
          DEF SamePlace, ReleaseAll, Window!UnmarkAll, Window!Answer, Window!NoToken,
              Answer, EofToken
<1>7. ASSUME NEW i, NEW limit, Backtrack(i, limit)
      PROVE  Window!Rewind(i, limit)
  <2>1. CASE i \in Marked(stream)
    <3>1. /\ stream'.source = stream.source /\ stream'.Pos = stream.Pos
          /\ Marked(stream') = Marked(stream) /\ Floor(stream') = Floor(stream)
          /\ GetTokenIndex(stream') = i /\ stream'.LengthLeft = LengthFor(stream, limit)
      BY <1>0, <1>7, <2>1, BacktrackWindow DEF Backtrack
    <3>2. (stream'.LengthLeft = 0) = (stream.source = NullSource \/ limit = 0)
      BY <3>1 DEF LengthFor
    <3> QED BY <1>7, <2>1, <3>1, <3>2, WindowState
            DEF Backtrack, Window!Rewind, Window!Answer, Window!NoToken, Answer, EofToken
  <2>2. CASE i \notin Marked(stream)
    <3>1. stream' = stream
      BY <1>7, <2>2 DEF Backtrack, BacktrackToMarker
    <3> QED BY <1>7, <2>2, <3>1
            DEF Backtrack, Window!Rewind, Window!Answer, Window!NoToken, Answer, EofToken
  <2> QED BY <2>1, <2>2
<1>8. ASSUME NEW limit, ToBufferEnd(limit)
      PROVE  Window!ToEnd(limit)
  <2>1. /\ stream'.source = stream.source /\ stream'.Pos = stream.Pos
        /\ Marked(stream') = Marked(stream) /\ Floor(stream') = Floor(stream)
        /\ GetTokenIndex(stream') = stream.Pos /\ stream'.LengthLeft = LengthFor(stream, limit)
    BY <1>0, <1>8, AdvanceToBufferEndWindow DEF ToBufferEnd
  <2>2. (stream'.LengthLeft = 0) = (stream.source = NullSource \/ limit = 0)
    BY <2>1 DEF LengthFor
  <2> QED BY <1>8, <2>1, <2>2, WindowState
          DEF ToBufferEnd, Window!ToEnd, Window!Answer, Window!NoToken, Answer, EofToken
<1>9. ASSUME NEW limit, LimitLength(limit)
      PROVE  Window!Limit(limit)
  <2>1. /\ stream'.source = stream.source /\ stream'.Pos = stream.Pos
        /\ Marked(stream') = Marked(stream) /\ Floor(stream') = Floor(stream)
        /\ GetTokenIndex(stream') = GetTokenIndex(stream)
        /\ stream'.LengthLeft = LengthFor(stream, limit)
    BY <1>0, <1>9, SetMaxStreamLengthWindow DEF LimitLength
  <2>2. (stream'.LengthLeft = 0) = (stream.source = NullSource \/ limit = 0)
    BY <2>1 DEF LengthFor
  <2> QED BY <1>9, <2>1, <2>2, WindowState
          DEF LimitLength, Window!Limit, Window!Answer, Window!NoToken, Answer, EofToken
<1>10. ASSUME GetToken
       PROVE  \/ Window!GetCutOff \/ Window!GetBuffered
              \/ Window!GetFresh \/ Window!GetPastEOF
  <2>0. /\ result' = [ok |-> TRUE, token |-> NextToken(stream)]
        /\ stream' = AfterNextToken(stream)
    BY <1>10 DEF GetToken
  <2>1. CASE stream.LengthLeft = 0
    <3>1. stream' = stream /\ NextToken(stream) = EofToken
      BY <2>0, <2>1 DEF AfterNextToken, NextToken
    <3>2. Window!GetCutOff
      BY <2>0, <2>1, <3>1 DEF Window!GetCutOff, Window!Answer, Window!NoToken, EofToken
    <3> QED BY <3>2
  <2>2. CASE stream.LengthLeft # 0 /\ Replays(stream)
    <3>1. /\ stream'.source = stream.source /\ stream'.Pos = stream.Pos
          /\ Marked(stream') = Marked(stream) /\ Floor(stream') = Floor(stream)
          /\ stream'.LengthLeft = stream.LengthLeft
          /\ GetTokenIndex(stream') = GetTokenIndex(stream) + 1
          /\ GetTokenIndex(stream) < stream.Pos
          /\ NextToken(stream) = SourceToken(stream.source, GetTokenIndex(stream) + 1)
      BY <1>0, <2>0, <2>2, AfterReplayWindow DEF AfterNextToken, NextToken
    <3>2. Window!GetBuffered
      BY <2>0, <2>2, <3>1, WindowState DEF Window!GetBuffered, Window!TokenAt, SourceToken
    <3> QED BY <3>2
  <2>3. CASE stream.LengthLeft # 0 /\ ~ Replays(stream)
    <3>1. stream.source # NullSource /\ GetTokenIndex(stream) = stream.Pos
      BY <1>0, <2>3, ReadsAtEnd DEF StreamInv, InStep
    <3>2. stream' = AfterRead(stream) /\ NextToken(stream) = SourceNext(stream)
      BY <2>0, <2>3 DEF AfterNextToken, NextToken
    <3>3. CASE stream.SourceEOFFlag
      <4>1. /\ SamePlace(stream, stream') /\ Marked(stream') = Marked(stream)
            /\ Floor(stream') = Floor(stream)
            /\ SourceNext(stream) = SourceToken(stream.source, stream.Pos)
            /\ stream.Pos = SourceLength[stream.source] + 1
        BY <1>0, <2>3, <3>1, <3>2, <3>3, ReadPastEOFWindow
      <4>2. (stream.Pos - 1) + 1 = stream.Pos
        BY <1>0, FloorFacts
      <4>3. Window!GetPastEOF
        BY <2>0, <2>3, <3>1, <3>2, <4>1, <4>2, WindowState
           DEF SamePlace, Window!GetPastEOF, Window!TokenAt, SourceToken
      <4> QED BY <4>3
    <3>4. CASE ~ stream.SourceEOFFlag
      <4>1. /\ stream'.source = stream.source /\ stream'.LengthLeft = stream.LengthLeft
            /\ stream'.Pos = stream.Pos + 1 /\ Marked(stream') = Marked(stream)
            /\ GetTokenIndex(stream') = stream.Pos + 1
            /\ ForgetsNoneNeeded(Floor(stream), stream')
            /\ SourceNext(stream) = SourceToken(stream.source, stream.Pos + 1)
            /\ stream.Pos <= SourceLength[stream.source]
        BY <1>0, <2>3, <3>1, <3>2, <3>4, ReadFreshWindow
      <4>2. Floor(stream') \in Window!Forget(Floor(stream), GetTokenIndex(stream'),
                                             Marked(stream'), stream'.Pos)
        BY <1>0, <4>1, ForgetAllows
      <4>3. Window!GetFresh
        BY <2>0, <2>3, <3>1, <3>2, <4>1, <4>2, WindowState
           DEF Window!GetFresh, Window!TokenAt, SourceToken
      <4> QED BY <4>3
    <3> QED BY <3>3, <3>4
  <2> QED BY <2>1, <2>2, <2>3
<1>11. ASSUME UNCHANGED vars
       PROVE  UNCHANGED Window!vars
  BY <1>11 DEF vars, Window!vars
<1>12. ASSUME Next
       PROVE  Window!Next
  <2>1. ASSUME NEW src \in Sources \union {NullSource}, Attach(src)
        PROVE  Window!Next
    BY <1>1, <2>1 DEF Window!Next
  <2>2. ASSUME NEW i \in Indexes, i <= stream.Pos, SeekIndex(i)
        PROVE  Window!Next
    BY <1>0, <1>2, <2>2 DEF Window!Next
  <2>3. ASSUME NEW n \in Indexes, n <= GetTokenIndex(stream), SeekCount(n)
        PROVE  Window!Next
    BY <1>3, <2>3 DEF Window!Next
  <2>4. ASSUME MarkerCalls
        PROVE  Window!Next
    BY <1>4, <1>5, <1>6, <1>7, <2>4 DEF MarkerCalls, Window!Next
  <2>5. ASSUME PositionCalls
        PROVE  Window!Next
    BY <1>8, <1>9, <1>10, <2>5 DEF PositionCalls, Window!Next
  <2> QED BY <1>12, <2>1, <2>2, <2>3, <2>4, <2>5 DEF Next
<1> QED BY <1>11, <1>12

\* The stream does what TokenWindow promises its client: however the blocks
\* are filled, followed and freed, the client sees one log with a cursor, a
\* floor and marked indexes, and gets every token of the source in order.
THEOREM Refinement == Spec => WindowSpec
<1>1. Init => Window!Init
  BY WindowInit
<1>2. Inv /\ Inv' /\ [Next]_vars => [Window!Next]_(Window!vars)
  BY WindowStep
<1> QED BY <1>1, <1>2, Invariance, PTL DEF Spec, WindowSpec, Window!Spec

=============================================================================
