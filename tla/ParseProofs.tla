----------------------------- MODULE ParseProofs -----------------------------
(***************************************************************************)
(* Proofs about the parser, for every table that satisfies TableAssumption *)
(* and ReductionsFit, every stack and block size and every input.          *)
(*                                                                         *)
(* The parser goes one token back when it presents an error.  At the first *)
(* token the index of the buffer would wrap, so what follows is proved of  *)
(* behaviours that are Disciplined, as TLC finds those of the three tables *)
(* to be.                                                                  *)
(***************************************************************************)
EXTENDS ParseProperties, BacktrackingTokenStreamProofs

Elements == [State          : StackStates,
             TerminalMarker : 0 .. MaxSize,
             Held           : BOOLEAN]

Stacks == [0 .. (StackSize - 1) -> Elements]

Tokens == [Code : Terminals, Data : TokenValues]

(***************************************************************************)
(* What the parser does to its stream                                      *)
(***************************************************************************)

\* Between two steps of the parser a stream with a source has no length limit.
StreamOK(s) ==
  /\ StreamInv(s)
  /\ s.source # NullSource => s.LengthLeft = MaxSize

\* t is the stream s with another cursor or fewer blocks.
SameTokens(s, t) == t.source = s.source /\ Marked(t) = Marked(s)

\* Indexes are indexes, and no marker is InvalidIndex.
LEMMA IndexFacts ==
  ASSUME NEW s, StreamOK(s)
  PROVE  /\ GetTokenIndex(s) \in 0 .. MaxSize /\ GetTokenIndex(s) < MaxSize
         /\ InvalidIndex \in 0 .. MaxSize /\ InvalidIndex \notin Marked(s)
         /\ Marked(s) \subseteq Nat
<1>1. StreamInv(s) /\ MaxSize \in Nat
  BY MaxSizeAssumption DEF StreamOK
<1>2. /\ GetTokenIndex(s) \in Nat /\ s.Pos \in Nat /\ GetTokenIndex(s) <= s.Pos
      /\ \A m \in Marked(s) : m \in Nat /\ m <= s.Pos
  BY <1>1, FloorFacts
<1>3. s.Pos < MaxSize
  <2>1. CASE s.source = NullSource
    BY <1>1, <2>1, MaxSizeAssumption DEF StreamInv, InStep
  <2>2. CASE s.source \in Sources
    <3>1. s.Pos <= SourceLength[s.source] + 1
      BY <1>1, <2>2 DEF StreamInv, InStep
    <3>2. SourceLength[s.source] \in Nat /\ SourceLength[s.source] + 1 < MaxSize
      BY <2>2, SourceAssumption, MaxSizeAssumption
    <3> QED BY <1>1, <1>2, <3>1, <3>2
  <2> QED BY <1>1, <2>1, <2>2 DEF StreamInv, StreamType
<1> QED BY <1>1, <1>2, <1>3 DEF InvalidIndex

\* Seeking, a length limit, and releasing a marker.
LEMMA SeekOK ==
  ASSUME NEW s, StreamOK(s), NEW i \in Nat, i <= s.Pos, NEW t, t = SeekTo(s, i)
  PROVE  StreamOK(t) /\ SameTokens(s, t)
BY SeekToInv, SeekToWindow DEF StreamOK, SameTokens

\* Going back from a token that is not the first.
LEMMA SeekBackOK ==
  ASSUME NEW s, StreamOK(s), GetTokenIndex(s) > 0, NEW t, t = SeekBack(s, 1)
  PROVE  StreamOK(t) /\ SameTokens(s, t)
<1>1. IndexBack(s, 1) \in Nat /\ IndexBack(s, 1) <= s.Pos
  BY IndexFacts, IndexBackFacts DEF StreamOK
<1> QED BY <1>1, SeekOK DEF SeekBack

\* A released marker is gone, and the cursor is where it was.
LEMMA ReleaseOK ==
  ASSUME NEW s, StreamOK(s), NEW i, NEW t, t = ReleaseMarker(s, i)
  PROVE  /\ StreamOK(t) /\ t.source = s.source /\ t.Pos = s.Pos
         /\ GetTokenIndex(t) = GetTokenIndex(s) /\ Marked(t) = Marked(s) \ {i}
BY ReleaseMarkerInv, ReleaseMarkerWindow DEF StreamOK, SamePlace

\* Recording marks the cursor, if anything.
LEMMA RecordingOK ==
  ASSUME NEW s, StreamOK(s), NEW state, NEW t, t = Recording(s, state)
  PROVE  /\ StreamOK(t) /\ t.source = s.source /\ t.Pos = s.Pos
         /\ GetTokenIndex(t) = GetTokenIndex(s)
         /\ MarkerFor(s, state) \in 0 .. MaxSize
         /\ MarkerFor(t, state) = MarkerFor(s, state)
         /\ Marked(t) \subseteq Marked(s) \union {MarkerFor(s, state)}
<1>1. GetTokenIndex(s) \in Nat /\ StreamInv(s)
  BY IndexFacts DEF StreamOK
<1>2. MarkerFor(s, state) \in 0 .. MaxSize
  BY IndexFacts DEF MarkerFor
<1>3. CASE state \in RecordStates
  <2>1. t = SetMarker(s, GetTokenIndex(s))
    BY <1>3 DEF Recording
  <2>2. /\ SamePlace(s, t) /\ StreamInv(t)
        /\ Marked(t) \subseteq Marked(s) \union {GetTokenIndex(s)}
    BY <1>1, <2>1, SetMarkerInv, SetMarkerWindow
  <2> QED BY <1>2, <1>3, <2>2 DEF SamePlace, StreamOK, MarkerFor
<1>4. CASE state \notin RecordStates
  BY <1>2, <1>4 DEF Recording, MarkerFor
<1> QED BY <1>3, <1>4

\* A marker at the cursor, or none.
LEMMA MarkedHere ==
  ASSUME NEW s, StreamOK(s), NEW record \in BOOLEAN,
         NEW t, t = IF record THEN SetMarker(s, GetTokenIndex(s)) ELSE s
  PROVE  /\ StreamOK(t) /\ t.source = s.source /\ t.Pos = s.Pos
         /\ GetTokenIndex(t) = GetTokenIndex(s)
<1>1. GetTokenIndex(s) \in Nat /\ StreamInv(s)
  BY IndexFacts DEF StreamOK
<1>2. CASE record
  <2>1. t = SetMarker(s, GetTokenIndex(s))
    BY <1>2
  <2>2. SamePlace(s, t) /\ StreamInv(t)
    BY <1>1, <2>1, SetMarkerInv, SetMarkerWindow
  <2> QED BY <2>2 DEF SamePlace, StreamOK
<1>3. CASE ~ record
  BY <1>3
<1> QED BY <1>2, <1>3

\* A token code is a terminal.
LEMMA CodeType ==
  ASSUME NEW tok \in TokenValues
  PROVE  Code(tok) \in Terminals
<1>1. CASE IsEOF(tok)
  BY <1>1, TableAssumption DEF Code
<1>2. CASE ~ IsEOF(tok)
  <2>1. tok # EofToken
    BY <1>2 DEF IsEOF
  <2>2. PICK src \in Sources : \E n \in 1 .. (SourceLength[src] + 1) : tok = SourceToken(src, n)
    BY <2>1 DEF TokenValues
  <2>3. PICK n \in 1 .. (SourceLength[src] + 1) : tok = SourceToken(src, n)
    BY <2>2
  <2>4. tok[1] = src /\ tok[2] = n
    BY <2>3 DEF SourceToken
  <2>5. SourceLength[src] \in Nat /\ SourceCodes[src] \in Seq(Terminals)
    BY SourceAssumption, CodesAssumption
  <2>6. n # SourceLength[src] + 1
    BY <1>2, <2>4 DEF IsEOF
  <2>7. n \in 1 .. Len(SourceCodes[src])
    BY <2>3, <2>5, <2>6, CodesAssumption
  <2>8. SourceCodes[src][n] \in Terminals
    BY <2>5, <2>7
  <2> QED BY <1>2, <2>4, <2>8 DEF Code
<1> QED BY <1>1, <1>2

\* A token read: of a stream with a source the cursor has one before it.
LEMMA ReadOK ==
  ASSUME NEW s, StreamOK(s), NEW t, t = AfterNextToken(s)
  PROVE  /\ StreamOK(t) /\ SameTokens(s, t) /\ Read(s) \in Tokens
         /\ s.source # NullSource => GetTokenIndex(t) > 0
<1>1. StreamInv(s) /\ StreamInv(t) /\ NextToken(s) \in TokenValues
  BY AfterNextTokenInv DEF StreamOK
<1>2. Read(s) \in Tokens
  BY <1>1, CodeType DEF Read, Tokens
<1>3. CASE s.LengthLeft = 0
  <2>1. s.source = NullSource
    BY <1>3, MaxSizeAssumption DEF StreamOK
  <2>2. t = s
    BY <1>3 DEF AfterNextToken
  <2> QED BY <1>2, <2>1, <2>2 DEF SameTokens
<1>4. CASE s.LengthLeft # 0 /\ Replays(s)
  <2>1. t = AfterReplay(s)
    BY <1>4 DEF AfterNextToken
  <2>2. /\ t.source = s.source /\ Marked(t) = Marked(s) /\ t.LengthLeft = s.LengthLeft
        /\ GetTokenIndex(t) = GetTokenIndex(s) + 1
    BY <1>1, <1>4, <2>1, AfterReplayWindow
  <2> QED BY <1>1, <1>2, <2>2, IndexFacts DEF StreamOK, SameTokens
<1>5. CASE s.LengthLeft # 0 /\ ~ Replays(s)
  <2>1. s.source # NullSource /\ t = AfterRead(s)
    BY <1>1, <1>5 DEF AfterNextToken, StreamInv, InStep
  <2>2. CASE s.SourceEOFFlag
    <3>1. /\ t.source = s.source /\ Marked(t) = Marked(s) /\ t.LengthLeft = s.LengthLeft
          /\ GetTokenIndex(t) = GetTokenIndex(s) /\ s.Pos = SourceLength[s.source] + 1
      BY <1>1, <1>5, <2>1, <2>2, ReadPastEOFWindow DEF SamePlace
    <3>2. GetTokenIndex(s) = s.Pos /\ SourceLength[s.source] \in Nat
      BY <1>1, <1>5, <2>1, ReadsAtEnd, SourceNextFacts
    <3> QED BY <1>1, <1>2, <3>1, <3>2 DEF StreamOK, SameTokens
  <2>3. CASE ~ s.SourceEOFFlag
    <3>1. /\ t.source = s.source /\ Marked(t) = Marked(s) /\ t.LengthLeft = s.LengthLeft
          /\ GetTokenIndex(t) = s.Pos + 1
      BY <1>1, <1>5, <2>1, <2>3, ReadFreshWindow
    <3> QED BY <1>1, <1>2, <3>1, CursorFacts DEF StreamOK, SameTokens
  <2> QED BY <2>2, <2>3
<1> QED BY <1>3, <1>4, <1>5

\* A backtrack, with the tokens left to report a number.
LEMMA BacktrackOK ==
  ASSUME NEW s, StreamInv(s), NEW i, NEW limit \in Nat,
         NEW t, t = BacktrackToMarker(s, i, limit)
  PROVE  StreamInv(t) /\ SameTokens(s, t) /\ t.Pos = s.Pos
<1>1. StreamInv(t)
  BY BacktrackToMarkerInv
<1>2. CASE i \in Marked(s)
  BY <1>1, <1>2, BacktrackWindow DEF SameTokens
<1>3. CASE i \notin Marked(s)
  BY <1>1, <1>3 DEF BacktrackToMarker, SameTokens
<1> QED BY <1>2, <1>3

\* A read of a stream that may be limited.
LEMMA AnyReadOK ==
  ASSUME NEW s, StreamInv(s), NEW t, t = AfterNextToken(s)
  PROVE  StreamInv(t) /\ SameTokens(s, t) /\ s.Pos <= t.Pos
<1>1. StreamInv(t) /\ s.Pos \in Nat
  BY AfterNextTokenInv, CursorFacts
<1>2. CASE s.LengthLeft = 0
  BY <1>1, <1>2 DEF AfterNextToken, SameTokens
<1>3. CASE s.LengthLeft # 0 /\ Replays(s)
  <2>1. t = AfterReplay(s)
    BY <1>3 DEF AfterNextToken
  <2>2. t.source = s.source /\ Marked(t) = Marked(s) /\ t.Pos = s.Pos
    BY <1>3, <2>1, AfterReplayWindow
  <2> QED BY <1>1, <2>2 DEF SameTokens
<1>4. CASE s.LengthLeft # 0 /\ ~ Replays(s)
  <2>1. s.source # NullSource /\ t = AfterRead(s)
    BY <1>4 DEF AfterNextToken, StreamInv, InStep
  <2>2. CASE s.SourceEOFFlag
    <3>1. t.source = s.source /\ Marked(t) = Marked(s) /\ t.Pos = s.Pos
      BY <1>4, <2>1, <2>2, ReadPastEOFWindow DEF SamePlace
    <3> QED BY <1>1, <3>1 DEF SameTokens
  <2>3. CASE ~ s.SourceEOFFlag
    <3>1. t.source = s.source /\ Marked(t) = Marked(s) /\ t.Pos = s.Pos + 1
      BY <1>4, <2>1, <2>3, ReadFreshWindow
    <3> QED BY <1>1, <3>1 DEF SameTokens
  <2> QED BY <2>2, <2>3
<1> QED BY <1>2, <1>3, <1>4

\* ReadTokens reads one token more than with one token less.
LEMMA ReadTokensStep ==
  ASSUME NEW s, NEW n \in Nat
  PROVE  /\ ReadTokens(s, 0) = s
         /\ ReadTokens(s, n + 1) = AfterNextToken(ReadTokens(s, n))
<1> DEFINE Reads(m, f) == f = [k \in 0 .. m |-> IF k = 0 THEN s ELSE AfterNextToken(f[k - 1])]
           T == {m \in Nat : ~ \E f : Reads(m, f)}
<1>1. ASSUME NEW m \in Nat, NEW g, Reads(m, g)
      PROVE  \E f : Reads(m + 1, f) /\ f[m + 1] = AfterNextToken(g[m])
  <2> DEFINE f == [k \in 0 .. (m + 1) |-> IF k = m + 1 THEN AfterNextToken(g[m]) ELSE g[k]]
  <2>1. \A k \in 0 .. m : g[k] = IF k = 0 THEN s ELSE AfterNextToken(g[k - 1])
    BY <1>1
  <2>2. ASSUME NEW k \in 0 .. (m + 1)
        PROVE  f[k] = IF k = 0 THEN s ELSE AfterNextToken(f[k - 1])
    <3>1. CASE k = m + 1
      BY <3>1
    <3>2. CASE k # m + 1
      <4>1. k \in 0 .. m /\ f[k] = g[k] /\ (k # 0 => f[k - 1] = g[k - 1])
        BY <3>2
      <4> QED BY <2>1, <4>1
    <3> QED BY <3>1, <3>2
  <2>3. Reads(m + 1, f) /\ f[m + 1] = AfterNextToken(g[m])
    BY <2>2
  <2> QED BY <2>3
<1>2. T = {}
  <2> SUFFICES ASSUME T # {} PROVE FALSE
    OBVIOUS
  <2>1. PICK m \in T : \A k \in T : m <= k
    <3>1. T \subseteq Nat
      OBVIOUS
    <3> HIDE DEF T
    <3> QED BY <3>1, NatMin
  <2>2. CASE m = 0
    <3>1. Reads(0, [k \in 0 .. 0 |-> s])
      OBVIOUS
    <3> HIDE DEF Reads
    <3> QED BY <2>1, <2>2, <3>1
  <2>3. CASE m # 0
    <3>1. m - 1 \in Nat /\ ~ (m <= m - 1) /\ (m - 1) + 1 = m
      BY <2>1, <2>3
    <3> HIDE DEF Reads
    <3>2. \E g : Reads(m - 1, g)
      BY <2>1, <3>1
    <3>3. \E f : Reads(m, f)
      BY <3>1, <3>2, <1>1
    <3> QED BY <2>1, <3>3
  <2> QED BY <2>2, <2>3
<1>3. ASSUME NEW m \in Nat
      PROVE  Reads(m, CHOOSE f : Reads(m, f)) /\ ReadTokens(s, m) = (CHOOSE f : Reads(m, f))[m]
  <2>1. \E f : Reads(m, f)
    <3> HIDE DEF Reads
    <3> QED BY <1>2
  <2>2. ReadTokens(s, m) = (CHOOSE f : Reads(m, f))[m]
    BY DEF ReadTokens
  <2> HIDE DEF Reads
  <2> QED BY <2>1, <2>2
<1>4. ASSUME NEW m \in Nat, NEW g, Reads(m, g), NEW f, Reads(m + 1, f)
      PROVE  f[m] = g[m]
  <2> DEFINE D == {k \in 0 .. m : f[k] # g[k]}
  <2>1. /\ \A k \in 0 .. m : g[k] = IF k = 0 THEN s ELSE AfterNextToken(g[k - 1])
        /\ \A k \in 0 .. m : f[k] = IF k = 0 THEN s ELSE AfterNextToken(f[k - 1])
    BY <1>4
  <2> HIDE DEF Reads
  <2>2. D = {}
    <3> SUFFICES ASSUME D # {} PROVE FALSE
      OBVIOUS
    <3>1. PICK k \in D : \A j \in D : k <= j
      <4>1. D \subseteq Nat
        OBVIOUS
      <4> HIDE DEF D
      <4> QED BY <4>1, NatMin
    <3>2. k # 0
      BY <2>1, <3>1
    <3>3. k - 1 \in 0 .. m /\ k - 1 \notin D
      BY <3>1, <3>2
    <3> QED BY <2>1, <3>1, <3>2, <3>3
  <2> QED BY <2>2
<1>5. ReadTokens(s, 0) = s
  <2>1. Reads(0, CHOOSE f : Reads(0, f)) /\ ReadTokens(s, 0) = (CHOOSE f : Reads(0, f))[0]
    <3> HIDE DEF Reads
    <3> QED BY <1>3
  <2> DEFINE g == CHOOSE f : Reads(0, f)
  <2> HIDE DEF g
  <2>2. g = [k \in 0 .. 0 |-> IF k = 0 THEN s ELSE AfterNextToken(g[k - 1])]
    BY <2>1 DEF g
  <2>3. g[0] = s
    BY <2>2
  <2> QED BY <2>1, <2>3 DEF g
<1>6. ReadTokens(s, n + 1) = AfterNextToken(ReadTokens(s, n))
  <2> DEFINE g == CHOOSE x : Reads(n, x)
             f == CHOOSE x : Reads(n + 1, x)
  <2>1. /\ Reads(n, g) /\ ReadTokens(s, n) = g[n]
        /\ Reads(n + 1, f) /\ ReadTokens(s, n + 1) = f[n + 1]
    <3> HIDE DEF Reads
    <3> QED BY <1>3
  <2> HIDE DEF g, f
  <2>2. f[n + 1] = AfterNextToken(f[n])
    <3>1. f = [k \in 0 .. (n + 1) |-> IF k = 0 THEN s ELSE AfterNextToken(f[k - 1])]
      BY <2>1
    <3>2. n + 1 \in 0 .. (n + 1) /\ n + 1 # 0 /\ (n + 1) - 1 = n
      OBVIOUS
    <3> QED BY <3>1, <3>2
  <2> HIDE DEF Reads
  <2>3. f[n] = g[n]
    BY <1>4, <2>1
  <2> QED BY <2>1, <2>2, <2>3
<1> QED BY <1>5, <1>6

\* Any number of reads.
LEMMA ReadTokensOK ==
  ASSUME NEW s, StreamInv(s), NEW n \in Nat, NEW t, t = ReadTokens(s, n)
  PROVE  StreamInv(t) /\ SameTokens(s, t) /\ s.Pos <= t.Pos
<1> DEFINE Fine(m) == LET r == ReadTokens(s, m)
                      IN  StreamInv(r) /\ SameTokens(s, r) /\ s.Pos <= r.Pos
           T == {m \in Nat : ~ Fine(m)}
<1>1. SUFFICES ASSUME T # {} PROVE FALSE
  OBVIOUS
<1>2. PICK m \in T : \A k \in T : m <= k
  <2>1. T \subseteq Nat
    OBVIOUS
  <2> HIDE DEF T
  <2> QED BY <1>1, <2>1, NatMin
<1>3. CASE m = 0
  <2>1. ReadTokens(s, 0) = s
    BY ReadTokensStep
  <2> QED BY <1>2, <1>3, <2>1, CursorFacts DEF SameTokens
<1>4. CASE m # 0
  <2>1. m - 1 \in Nat /\ ~ (m <= m - 1) /\ (m - 1) + 1 = m
    BY <1>2, <1>4
  <2>2. Fine(m - 1)
    BY <1>2, <2>1
  <2> DEFINE r == ReadTokens(s, m - 1)
             q == AfterNextToken(r)
  <2>3. ReadTokens(s, m) = q
    BY <2>1, ReadTokensStep
  <2> HIDE DEF r
  <2>4. StreamInv(r) /\ SameTokens(s, r) /\ s.Pos <= r.Pos
    BY <2>2 DEF r
  <2>5. StreamInv(q) /\ SameTokens(r, q) /\ r.Pos <= q.Pos
    BY <2>4, AnyReadOK
  <2>6. s.Pos \in Nat /\ r.Pos \in Nat /\ q.Pos \in Nat
    BY <2>4, <2>5, CursorFacts
  <2> HIDE DEF q
  <2>7. StreamInv(q) /\ SameTokens(s, q) /\ s.Pos <= q.Pos
    BY <2>4, <2>5, <2>6 DEF SameTokens
  <2> QED BY <1>2, <2>3, <2>7
<1> QED BY <1>3, <1>4

\* What SetErrorData is shown is a number of tokens.
LEMMA BufferedLengthType ==
  ASSUME NEW s, StreamInv(s), NEW i
  PROVE  GetBufferedLength(s, i) \in Nat
<1>1. \A m \in Marked(s) : m \in Nat /\ s.Pos \in Nat /\ m <= s.Pos
  BY FloorFacts
<1> QED BY <1>1 DEF GetBufferedLength

\* Whatever SetErrorData reads, the stream the error is shifted with keeps its
\* markers and has no limit.
LEMMA AfterErrorDataOK ==
  ASSUME StreamOK(stream), NEW n \in Nat, NEW state, NEW t, t = AfterErrorData(n, state)
  PROVE  StreamOK(t) /\ SameTokens(stream, t)
<1>1. StreamInv(stream) /\ RecordedLength \in Nat /\ MaxSize \in Nat
  BY BufferedLengthType, MaxSizeAssumption DEF StreamOK, RecordedLength
<1> DEFINE replay == BacktrackToMarker(stream, RecordingMarker, RecordedLength)
           read == ReadTokens(replay, n)
           back == IF state \in BacktrackStates
                     THEN BacktrackToMarker(read, TopElement.TerminalMarker, MaxSize)
                     ELSE SeekTo(read, GetTokenIndex(stream))
<1>2. StreamInv(replay) /\ SameTokens(stream, replay) /\ replay.Pos = stream.Pos
  BY <1>1, BacktrackOK
<1>3. StreamInv(read) /\ SameTokens(replay, read) /\ replay.Pos <= read.Pos
  <2> HIDE DEF replay
  <2> QED BY <1>2, ReadTokensOK
<1>4. t = SetMaxStreamLength(back, MaxSize)
  BY DEF AfterErrorData
<1> HIDE DEF replay, read
<1>5. StreamInv(back) /\ SameTokens(read, back)
  <2>1. CASE state \in BacktrackStates
    BY <1>1, <1>3, <2>1, BacktrackOK
  <2>2. CASE state \notin BacktrackStates
    <3>1. GetTokenIndex(stream) \in Nat /\ GetTokenIndex(stream) <= read.Pos
      BY <1>1, <1>2, <1>3, FloorFacts, CursorFacts
    <3> QED BY <1>3, <2>2, <3>1, SeekToInv, SeekToWindow DEF SameTokens
  <2> QED BY <2>1, <2>2
<1> HIDE DEF back
<1>6. StreamInv(t) /\ SameTokens(back, t) /\ t.LengthLeft = LengthFor(back, MaxSize)
  BY <1>1, <1>4, <1>5, SetMaxStreamLengthInv, SetMaxStreamLengthWindow DEF SameTokens
<1>7. SameTokens(stream, t) /\ t.source = back.source
  BY <1>2, <1>3, <1>5, <1>6 DEF SameTokens
<1> QED BY <1>6, <1>7 DEF StreamOK, LengthFor

\* Marking an error moves the error's marker, and nothing else.
LEMMA MarkErrorOK ==
  ASSUME StreamOK(stream), NEW t, t = MarkError
  PROVE  /\ StreamOK(t) /\ t.source = stream.source /\ t.Pos = stream.Pos
         /\ GetTokenIndex(t) = GetTokenIndex(stream)
         /\ ErrorMarker \in 0 .. MaxSize => MarkedIndex \in 0 .. MaxSize
         /\ Marked(t) \subseteq (Marked(stream) \ {ErrorMarker}) \union {MarkedIndex}
<1>1. /\ GetTokenIndex(stream) \in 0 .. MaxSize /\ MaxSize \in Nat
      /\ InvalidIndex \notin Marked(stream)
  BY IndexFacts, MaxSizeAssumption
<1>2. IndexBack(stream, 1) \in 0 .. MaxSize
  BY <1>1 DEF IndexBack
<1>3. ErrorMarker \in 0 .. MaxSize => MarkedIndex \in 0 .. MaxSize
  BY <1>2 DEF MarkedIndex
<1> DEFINE released == IF ErrorMarker # InvalidIndex THEN ReleaseMarker(stream, ErrorMarker)
                                                     ELSE stream
<1>4. /\ StreamOK(released) /\ released.source = stream.source
      /\ GetTokenIndex(released) = GetTokenIndex(stream) /\ released.Pos = stream.Pos
      /\ Marked(released) = Marked(stream) \ {ErrorMarker}
  BY <1>1, ReleaseOK
<1>5. t = IF IsNewError THEN SetMarker(released, MarkedIndex) ELSE stream
  BY DEF MarkError
<1> HIDE DEF released
<1>6. CASE IsNewError
  <2>1. MarkedIndex \in Nat
    BY <1>2, <1>6 DEF MarkedIndex
  <2>2. /\ SamePlace(released, t) /\ StreamInv(t)
        /\ Marked(t) \subseteq Marked(released) \union {MarkedIndex}
    BY <1>4, <1>5, <1>6, <2>1, SetMarkerInv, SetMarkerWindow DEF StreamOK
  <2> QED BY <1>3, <1>4, <2>2 DEF SamePlace, StreamOK
<1>7. CASE ~ IsNewError
  BY <1>3, <1>5, <1>7 DEF MarkedIndex
<1> QED BY <1>6, <1>7

\* A stream without a source has buffered nothing, and can be given one.
LEMMA FirstSourceOK ==
  ASSUME NEW s, StreamOK(s), s.source = NullSource, NEW src \in Sources \union {NullSource},
         NEW t, t = ResetStream(s, src)
  PROVE  /\ StreamOK(t) /\ t.source = src /\ Marked(t) = {} /\ GetTokenIndex(t) = 0
<1>1. StreamInv(s) /\ s.last \in s.first .. s.last /\ s.Pos = 0
  BY CursorFacts DEF StreamOK, StreamInv, InStep
<1>2. s.blocks[s.last].Count = 0
  BY <1>1, BlockFacts
<1> QED BY <1>1, <1>2, ResetStreamInv, ResetStreamWindow DEF StreamOK

(***************************************************************************)
(* The stack                                                               *)
(***************************************************************************)

\* One marker released, if there is one.
Unmarked(s, m) == IF m = InvalidIndex THEN s ELSE ReleaseMarker(s, m)

\* ReleaseFrom releases one marker more than for one element less.
LEMMA ReleaseFromStep ==
  ASSUME NEW s, NEW sp, NEW n \in Nat
  PROVE  /\ ReleaseFrom(s, sp, 0) = s
         /\ ReleaseFrom(s, sp, n + 1)
              = Unmarked(ReleaseFrom(s, sp, n), stack[sp - (n + 1) + 1].TerminalMarker)
<1> DEFINE mark(k) == stack[sp - k + 1].TerminalMarker
           Steps(m, f) == f = [k \in 0 .. m |-> IF k = 0 THEN s ELSE Unmarked(f[k - 1], mark(k))]
           T == {m \in Nat : ~ \E f : Steps(m, f)}
<1>1. ASSUME NEW m \in Nat
      PROVE  ReleaseFrom(s, sp, m) = (CHOOSE f : Steps(m, f))[m]
  BY DEF ReleaseFrom, Unmarked
<1> HIDE DEF mark
<1>2. ASSUME NEW m \in Nat, NEW g, Steps(m, g)
      PROVE  \E f : Steps(m + 1, f)
  <2> DEFINE f == [k \in 0 .. (m + 1) |-> IF k = m + 1 THEN Unmarked(g[m], mark(k)) ELSE g[k]]
  <2>1. \A k \in 0 .. m : g[k] = IF k = 0 THEN s ELSE Unmarked(g[k - 1], mark(k))
    BY <1>2
  <2>2. ASSUME NEW k \in 0 .. (m + 1)
        PROVE  f[k] = IF k = 0 THEN s ELSE Unmarked(f[k - 1], mark(k))
    <3>1. CASE k = m + 1
      BY <3>1
    <3>2. CASE k # m + 1
      <4>1. k \in 0 .. m /\ f[k] = g[k] /\ (k # 0 => f[k - 1] = g[k - 1])
        BY <3>2
      <4> QED BY <2>1, <4>1
    <3> QED BY <3>1, <3>2
  <2>3. Steps(m + 1, f)
    BY <2>2
  <2> QED BY <2>3
<1>3. T = {}
  <2> SUFFICES ASSUME T # {} PROVE FALSE
    OBVIOUS
  <2>1. PICK m \in T : \A k \in T : m <= k
    <3>1. T \subseteq Nat
      OBVIOUS
    <3> HIDE DEF T
    <3> QED BY <3>1, NatMin
  <2>2. CASE m = 0
    <3>1. Steps(0, [k \in 0 .. 0 |-> s])
      OBVIOUS
    <3> HIDE DEF Steps
    <3> QED BY <2>1, <2>2, <3>1
  <2>3. CASE m # 0
    <3>1. m - 1 \in Nat /\ ~ (m <= m - 1) /\ (m - 1) + 1 = m
      BY <2>1, <2>3
    <3> HIDE DEF Steps
    <3>2. \E g : Steps(m - 1, g)
      BY <2>1, <3>1
    <3>3. \E f : Steps(m, f)
      BY <3>1, <3>2, <1>2
    <3> QED BY <2>1, <3>3
  <2> QED BY <2>2, <2>3
<1>4. ASSUME NEW m \in Nat
      PROVE  Steps(m, CHOOSE f : Steps(m, f))
  <2>1. \E f : Steps(m, f)
    <3> HIDE DEF Steps
    <3> QED BY <1>3
  <2> HIDE DEF Steps
  <2> QED BY <2>1
<1>5. ASSUME NEW m \in Nat, NEW g, Steps(m, g), NEW f, Steps(m + 1, f)
      PROVE  f[m] = g[m]
  <2> DEFINE D == {k \in 0 .. m : f[k] # g[k]}
  <2>1. /\ \A k \in 0 .. m : g[k] = IF k = 0 THEN s ELSE Unmarked(g[k - 1], mark(k))
        /\ \A k \in 0 .. m : f[k] = IF k = 0 THEN s ELSE Unmarked(f[k - 1], mark(k))
    BY <1>5
  <2> HIDE DEF Steps
  <2>2. D = {}
    <3> SUFFICES ASSUME D # {} PROVE FALSE
      OBVIOUS
    <3>1. PICK k \in D : \A j \in D : k <= j
      <4>1. D \subseteq Nat
        OBVIOUS
      <4> HIDE DEF D
      <4> QED BY <4>1, NatMin
    <3>2. k # 0
      BY <2>1, <3>1
    <3>3. k - 1 \in 0 .. m /\ k - 1 \notin D
      BY <3>1, <3>2
    <3> QED BY <2>1, <3>1, <3>2, <3>3
  <2> QED BY <2>2
<1>6. ReleaseFrom(s, sp, 0) = s
  <2> DEFINE g == CHOOSE f : Steps(0, f)
  <2>1. Steps(0, g) /\ ReleaseFrom(s, sp, 0) = g[0]
    <3> HIDE DEF Steps
    <3> QED BY <1>1, <1>4
  <2> HIDE DEF g
  <2>2. g = [k \in 0 .. 0 |-> IF k = 0 THEN s ELSE Unmarked(g[k - 1], mark(k))]
    BY <2>1
  <2>3. g[0] = s
    BY <2>2
  <2> QED BY <2>1, <2>3
<1>7. ReleaseFrom(s, sp, n + 1) = Unmarked(ReleaseFrom(s, sp, n), mark(n + 1))
  <2> DEFINE g == CHOOSE x : Steps(n, x)
             f == CHOOSE x : Steps(n + 1, x)
  <2>1. /\ Steps(n, g) /\ ReleaseFrom(s, sp, n) = g[n]
        /\ Steps(n + 1, f) /\ ReleaseFrom(s, sp, n + 1) = f[n + 1]
    <3> HIDE DEF Steps
    <3> QED BY <1>1, <1>4
  <2> HIDE DEF g, f
  <2>2. f[n + 1] = Unmarked(f[n], mark(n + 1))
    <3>1. f = [k \in 0 .. (n + 1) |-> IF k = 0 THEN s ELSE Unmarked(f[k - 1], mark(k))]
      BY <2>1
    <3>2. n + 1 \in 0 .. (n + 1) /\ n + 1 # 0 /\ (n + 1) - 1 = n
      OBVIOUS
    <3> QED BY <3>1, <3>2
  <2> HIDE DEF Steps
  <2>3. f[n] = g[n]
    BY <1>5, <2>1
  <2> QED BY <2>1, <2>2, <2>3
<1> QED BY <1>6, <1>7 DEF mark

\* The elements of a part of the stack lose their markers.
LEMMA ReleaseFromOK ==
  ASSUME NEW s, StreamOK(s), NEW sp \in Nat, NEW n \in Nat,
         NEW t, t = ReleaseFrom(s, sp, n)
  PROVE  /\ StreamOK(t) /\ t.source = s.source /\ t.Pos = s.Pos
         /\ GetTokenIndex(t) = GetTokenIndex(s)
         /\ Marked(t) = Marked(s) \ {stack[i].TerminalMarker : i \in (sp - n + 1) .. sp}
<1> DEFINE gone(m) == {stack[i].TerminalMarker : i \in (sp - m + 1) .. sp}
           Fine(m) == LET r == ReleaseFrom(s, sp, m)
                      IN  /\ StreamOK(r) /\ r.source = s.source /\ r.Pos = s.Pos
                          /\ GetTokenIndex(r) = GetTokenIndex(s)
                          /\ Marked(r) = Marked(s) \ gone(m)
           T == {m \in Nat : ~ Fine(m)}
<1>1. SUFFICES ASSUME T # {} PROVE FALSE
  OBVIOUS
<1>2. PICK m \in T : \A k \in T : m <= k
  <2>1. T \subseteq Nat
    OBVIOUS
  <2> HIDE DEF T
  <2> QED BY <1>1, <2>1, NatMin
<1>3. CASE m = 0
  <2>1. ReleaseFrom(s, sp, 0) = s /\ gone(0) = {}
    BY ReleaseFromStep
  <2> QED BY <1>2, <1>3, <2>1
<1>4. CASE m # 0
  <2> DEFINE p == sp - m + 1
             r == ReleaseFrom(s, sp, m - 1)
             q == Unmarked(r, stack[p].TerminalMarker)
  <2>1. m - 1 \in Nat /\ ~ (m <= m - 1) /\ (m - 1) + 1 = m
    BY <1>2, <1>4
  <2>2. Fine(m - 1)
    BY <1>2, <2>1
  <2>3. ReleaseFrom(s, sp, m) = q
    BY <2>1, ReleaseFromStep
  <2>4. gone(m) = gone(m - 1) \union {stack[p].TerminalMarker}
    <3>1. (sp - m + 1) .. sp = ((sp - (m - 1) + 1) .. sp) \union {p}
      BY <2>1
    <3> QED BY <3>1
  <2> HIDE DEF gone, r, p
  <2>5. /\ StreamOK(r) /\ r.source = s.source /\ r.Pos = s.Pos
        /\ GetTokenIndex(r) = GetTokenIndex(s)
        /\ Marked(r) = Marked(s) \ gone(m - 1)
    BY <2>2 DEF r
  <2>6. /\ StreamOK(q) /\ q.source = r.source /\ q.Pos = r.Pos
        /\ GetTokenIndex(q) = GetTokenIndex(r)
        /\ Marked(q) = Marked(r) \ {stack[p].TerminalMarker}
    <3>1. CASE stack[p].TerminalMarker = InvalidIndex
      BY <2>5, <3>1, IndexFacts DEF Unmarked
    <3>2. CASE stack[p].TerminalMarker # InvalidIndex
      BY <2>5, <3>2, ReleaseOK DEF Unmarked
    <3> QED BY <3>1, <3>2
  <2> HIDE DEF q
  <2>7. Fine(m)
    BY <2>3, <2>4, <2>5, <2>6
  <2> QED BY <1>2, <2>7
<1> QED BY <1>3, <1>4

\* Cleaning up elements leaves their states and markers.
LEMMA CleanedUpFacts ==
  ASSUME NEW stk \in Stacks, NEW positions
  PROVE  /\ CleanedUp(stk, positions) \in Stacks
         /\ \A i \in 0 .. (StackSize - 1) :
              /\ CleanedUp(stk, positions)[i].State = stk[i].State
              /\ CleanedUp(stk, positions)[i].TerminalMarker = stk[i].TerminalMarker
              /\ i \in positions => CleanedUp(stk, positions)[i].Held = FALSE
              /\ i \notin positions => CleanedUp(stk, positions)[i].Held = stk[i].Held
<1> DEFINE t == CleanedUp(stk, positions)
<1>1. ASSUME NEW i \in 0 .. (StackSize - 1)
      PROVE  /\ t[i] \in Elements
             /\ t[i].State = stk[i].State /\ t[i].TerminalMarker = stk[i].TerminalMarker
             /\ i \in positions => t[i].Held = FALSE
             /\ i \notin positions => t[i].Held = stk[i].Held
  <2>1. stk[i] \in Elements /\ DOMAIN stk = 0 .. (StackSize - 1)
    BY DEF Stacks
  <2>2. t[i] = IF i \in positions THEN [stk[i] EXCEPT !.Held = FALSE] ELSE stk[i]
    BY <2>1 DEF CleanedUp
  <2> HIDE DEF t
  <2> QED BY <2>1, <2>2 DEF Elements
<1>2. t = [i \in 0 .. (StackSize - 1) |-> t[i]]
  BY DEF CleanedUp, Stacks
<1>3. t \in Stacks
  <2> HIDE DEF t
  <2> QED BY <1>1, <1>2 DEF Stacks
<1> QED BY <1>1, <1>3

\* One element written.
Written(stk, p, e) == [stk EXCEPT ![p] = e]

\* The stack with it.
LEMMA WrittenElement ==
  ASSUME NEW stk \in Stacks, NEW p \in 0 .. (StackSize - 1), NEW e \in Elements,
         NEW t, t = Written(stk, p, e)
  PROVE  /\ t \in Stacks /\ t[p] = e
         /\ \A i \in 0 .. (StackSize - 1) : i # p => t[i] = stk[i]
BY DEF Stacks, Written

\* An element with another field is an element.
LEMMA ElementFields ==
  ASSUME NEW e \in Elements
  PROVE  /\ e.State \in StackStates
         /\ e.TerminalMarker \in 0 .. MaxSize /\ e.Held \in BOOLEAN
         /\ \A state \in StackStates :
              LET f == [e EXCEPT !.State = state]
              IN  /\ f \in Elements /\ f.State = state
                  /\ f.TerminalMarker = e.TerminalMarker /\ f.Held = e.Held
         /\ \A marker \in 0 .. MaxSize :
              LET f == [e EXCEPT !.TerminalMarker = marker]
              IN  /\ f \in Elements /\ f.State = e.State
                  /\ f.TerminalMarker = marker /\ f.Held = e.Held
         /\ \A held \in BOOLEAN :
              LET f == [e EXCEPT !.Held = held]
              IN  /\ f \in Elements /\ f.State = e.State
                  /\ f.TerminalMarker = e.TerminalMarker /\ f.Held = held
BY DEF Elements

\* The state and the marker of one element written.
Placing(stk, p, state, marker) ==
  [stk EXCEPT ![p].State = state, ![p].TerminalMarker = marker]

\* The stack with an element's state and marker written.
LEMMA WrittenStateAndMarker ==
  ASSUME NEW stk \in Stacks, NEW p \in 0 .. (StackSize - 1),
         NEW state \in StackStates, NEW marker \in 0 .. MaxSize,
         NEW t, t = Placing(stk, p, state, marker)
  PROVE  /\ t \in Stacks
         /\ t[p].State = state /\ t[p].TerminalMarker = marker /\ t[p].Held = stk[p].Held
         /\ \A i \in 0 .. (StackSize - 1) : i # p => t[i] = stk[i]
<1> DEFINE e == [stk[p] EXCEPT !.State = state]
           f == [e EXCEPT !.TerminalMarker = marker]
           u == Written(stk, p, e)
<1>1. stk[p] \in Elements
  BY DEF Stacks
<1>2. e \in Elements /\ e.State = state /\ e.Held = stk[p].Held
  BY <1>1, ElementFields
<1>3. f \in Elements /\ f.State = state /\ f.TerminalMarker = marker /\ f.Held = stk[p].Held
  <2> HIDE DEF e
  <2> QED BY <1>2, ElementFields
<1>4. u \in Stacks /\ u[p] = e /\ \A i \in 0 .. (StackSize - 1) : i # p => u[i] = stk[i]
  <2> HIDE DEF e
  <2> QED BY <1>2, WrittenElement
<1>5. t = Written(u, p, f)
  BY DEF Stacks, Placing, Written
<1> HIDE DEF e, f, u
<1>6. t \in Stacks /\ t[p] = f /\ \A i \in 0 .. (StackSize - 1) : i # p => t[i] = u[i]
  BY <1>3, <1>4, <1>5, WrittenElement
<1> QED BY <1>3, <1>4, <1>6

(***************************************************************************)
(* The table: where a state may stand on the stack                         *)
(***************************************************************************)

\* A start state stands at the bottom.
LEMMA StartDepth ==
  ASSUME NEW state \in States, state \in Starts
  PROVE  AtDepth(state, 0)
<1> DEFINE path == [i \in 0 .. 0 |-> state]
<1>1. path \in [0 .. 0 -> States] /\ path[0] = state
  OBVIOUS
<1>2. \A i \in 1 .. 0 : Leads(path[i - 1], path[i])
  OBVIOUS
<1> HIDE DEF path
<1> QED BY <1>1, <1>2 DEF AtDepth

\* A state another one leads to stands one higher.
LEMMA NextDepth ==
  ASSUME NEW n \in Nat, NEW state, AtDepth(state, n), NEW t \in States, Leads(state, t)
  PROVE  AtDepth(t, n + 1)
<1>1. PICK path \in [0 .. n -> States] :
        /\ path[0] \in Starts /\ path[n] = state
        /\ \A i \in 1 .. n : Leads(path[i - 1], path[i])
  BY DEF AtDepth
<1> DEFINE longer == [i \in 0 .. (n + 1) |-> IF i = n + 1 THEN t ELSE path[i]]
<1>2. longer \in [0 .. (n + 1) -> States]
  BY <1>1
<1>3. longer[0] \in Starts /\ longer[n + 1] = t
  BY <1>1
<1>4. ASSUME NEW i \in 1 .. (n + 1)
      PROVE  Leads(longer[i - 1], longer[i])
  <2>1. CASE i = n + 1
    <3>1. i - 1 = n /\ longer[i - 1] = path[n] /\ longer[i] = t
      BY <2>1
    <3> QED BY <1>1, <3>1
  <2>2. CASE i # n + 1
    <3>1. i \in 1 .. n /\ longer[i - 1] = path[i - 1] /\ longer[i] = path[i]
      BY <2>2
    <3> QED BY <1>1, <3>1
  <2> QED BY <2>1, <2>2
<1> HIDE DEF longer
<1> QED BY <1>2, <1>3, <1>4 DEF AtDepth

\* A goto entry leads from a state to a state.
LEMMA GotoLeads ==
  ASSUME NEW state, NEW left \in NonTerminals, NEW t, t = GetLeftReduceState(state, left)
  PROVE  /\ t \in States \union {InvalidState}
         /\ t # InvalidState => state \in States /\ t \in States /\ Leads(state, t)
BY TableAssumption DEF GetLeftReduceState, Leads

\* What an action of the table can be.
LEMMA ActionFacts ==
  ASSUME NEW state, NEW code \in Terminals, NEW entry, entry = GetAction(state, code)
  PROVE  /\ entry.kind \in ActionKinds
         /\ entry.kind # "none" => state \in States
         /\ entry.kind = "shift" => entry.arg \in States /\ Leads(state, entry.arg)
         /\ entry.kind = "reduce" =>
              /\ entry.arg \in Productions
              /\ ReduceProductions[entry.arg].Length \in Nat
              /\ ReduceProductions[entry.arg].Left \in NonTerminals
<1>1. CASE state \in States
  <2>1. entry = ActionTable[state][code] /\ entry \in [kind : ActionKinds, arg : Nat]
    BY <1>1, TableAssumption DEF GetAction
  <2>2. entry.kind = "shift" => entry.arg \in States
    BY <1>1, <2>1, TableAssumption
  <2>3. entry.kind = "shift" => Leads(state, entry.arg)
    BY <2>1 DEF Leads
  <2>4. entry.kind = "reduce" => entry.arg \in Productions
    BY <1>1, <2>1, TableAssumption
  <2>5. \A p \in Productions : /\ ReduceProductions[p].Length \in Nat
                               /\ ReduceProductions[p].Left \in NonTerminals
    BY TableAssumption
  <2> QED BY <1>1, <2>1, <2>2, <2>3, <2>4, <2>5
<1>2. CASE state \notin States
  BY <1>2 DEF GetAction, NoAction, ActionKinds
<1> QED BY <1>1, <1>2

\* The right hand side of a reduction is on the stack.
LEMMA RightHandSideFits ==
  ASSUME NEW state, NEW n \in Nat, AtDepth(state, n), NEW code \in Terminals,
         GetAction(state, code).kind = "reduce"
  PROVE  ReduceProductions[GetAction(state, code).arg].Length <= n
<1> DEFINE len == ReduceProductions[GetAction(state, code).arg].Length
<1>1. state \in States /\ len \in Nat
  BY ActionFacts
<1>2. GetAction(state, code) = ActionTable[state][code]
  BY <1>1 DEF GetAction
<1>3. \A k \in 0 .. (len - 1) : ~ AtDepth(state, k)
  BY <1>1, <1>2, ReductionsFit
<1> HIDE DEF len
<1>4. n \notin 0 .. (len - 1)
  BY <1>3
<1> QED BY <1>1, <1>4 DEF len

\* The topmost of some positions is one of them.
LEMMA TopmostFacts ==
  ASSUME NEW positions, NEW top \in Nat, positions \subseteq 0 .. top, positions # {}
  PROVE  Topmost(positions) \in positions
<1> DEFINE T == {top - p : p \in positions}
<1>1. T \subseteq Nat /\ T # {}
  OBVIOUS
<1>2. PICK m \in T : \A k \in T : m <= k
  <2> HIDE DEF T
  <2> QED BY <1>1, NatMin
<1>3. PICK p \in positions : m = top - p
  BY <1>2
<1>4. ASSUME NEW q \in positions
      PROVE  q <= p
  <2>1. q \in 0 .. top /\ p \in 0 .. top /\ top - q \in T
    OBVIOUS
  <2> HIDE DEF T
  <2>2. top - p <= top - q
    BY <1>2, <1>3, <2>1
  <2> QED BY <2>1, <2>2
<1>5. \E sp \in positions : \A other \in positions : other <= sp
  BY <1>4
<1> QED BY <1>5 DEF Topmost

(***************************************************************************)
(* The invariant                                                           *)
(***************************************************************************)

Typed ==
  /\ StreamOK(stream)
  /\ stack \in Stacks
  /\ StackPosition \in 0 .. (StackSize - 1)
  /\ TopState \in StackStates
  /\ NextTokenFlag \in BOOLEAN
  /\ Token \in Tokens /\ skipped \in Tokens
  /\ PrevTokenIndex \in 0 .. MaxSize /\ ErrorMarker \in 0 .. MaxSize
  /\ ReduceLeft \in NonTerminals /\ reducing \in Productions
  /\ errorCode \in ErrorTerminals
  /\ pc \in PcValues

\* Every state stands where the table can put it: as high as symbols lead to
\* it.  Old states above the top are no exception.
Placed ==
  /\ \A i \in 0 .. (StackSize - 1) : stack[i].State \in States => AtDepth(stack[i].State, i)
  /\ pc \in {"idle", "top", "handler", "reduced"} /\ TopState \in States
       => AtDepth(TopState, StackPosition)
  /\ pc \in {"handler", "reduced"} => StackPosition > 0

\* A parser at work has tokens to parse.
Attached ==
  /\ pc \in {"act", "handler", "reduced", "error", "skip"} => stream.source # NullSource
  /\ pc \in {"idle", "top"} /\ TopState # InvalidState => stream.source # NullSource

Inv == Typed /\ Placed /\ Attached /\ OnlyAtBottom /\ ValuesOwned

\* The steps of a parser that has a start state keep EmptyGoto off the stack.
LEMMA StartKept ==
  ASSUME Inv, ~ NoStartState, TopState' # EmptyGoto,
         \A i \in 0 .. (StackSize - 1) :
           stack'[i].State = stack[i].State \/ stack'[i].State # EmptyGoto
  PROVE  OnlyAtBottom' /\ ~ NoStartState'
BY DEF Inv, OnlyAtBottom, NoStartState

\* The numbers that are no states.
LEMMA NoStates == /\ InvalidState \notin States /\ EmptyGoto \notin States
                  /\ InvalidState # EmptyGoto
BY TableAssumption DEF InvalidState, EmptyGoto

\* What the invariant says of the top of the stack and its action.
LEMMA TopFacts ==
  ASSUME Inv
  PROVE  /\ StackSize \in Nat /\ StackPosition \in Nat /\ StackPosition < StackSize
         /\ TopElement \in Elements
         /\ Token.Code \in Terminals
         /\ Action.kind # "none" => /\ TopElement.State \in States /\ ~ NoStartState
                                    /\ AtDepth(TopElement.State, StackPosition)
         /\ Action.kind = "shift" =>
              /\ Action.arg \in States /\ AtDepth(Action.arg, StackPosition + 1)
         /\ Action.kind = "reduce" =>
              /\ Action.arg \in Productions
              /\ ReducedProd.Length \in Nat /\ ReducedProd.Length <= StackPosition
              /\ ReducedProd.Left \in NonTerminals
<1>1. StackSize \in Nat /\ StackPosition \in Nat /\ StackPosition < StackSize
  BY StackAssumption DEF Inv, Typed
<1>2. TopElement \in Elements
  BY DEF Inv, Typed, Stacks, TopElement
<1>3. Token.Code \in Terminals
  BY DEF Inv, Typed, Tokens
<1>4. Action.kind # "none" => TopElement.State \in States
  BY <1>3, ActionFacts DEF Action
<1>5. TopElement.State \in States => AtDepth(TopElement.State, StackPosition)
  BY DEF Inv, Typed, Placed, TopElement
<1>6. Action.kind = "shift" => Action.arg \in States /\ AtDepth(Action.arg, StackPosition + 1)
  <2> SUFFICES ASSUME Action.kind = "shift"
               PROVE  Action.arg \in States /\ AtDepth(Action.arg, StackPosition + 1)
    OBVIOUS
  <2>1. Action.arg \in States /\ Leads(TopElement.State, Action.arg)
    BY <1>3, ActionFacts DEF Action
  <2> QED BY <1>1, <1>4, <1>5, <2>1, NextDepth
<1>7. Action.kind = "reduce" =>
        /\ Action.arg \in Productions
        /\ ReducedProd.Length \in Nat /\ ReducedProd.Length <= StackPosition
        /\ ReducedProd.Left \in NonTerminals
  <2> SUFFICES ASSUME Action.kind = "reduce"
               PROVE  /\ Action.arg \in Productions
                      /\ ReducedProd.Length \in Nat /\ ReducedProd.Length <= StackPosition
                      /\ ReducedProd.Left \in NonTerminals
    OBVIOUS
  <2>1. /\ Action.arg \in Productions
        /\ ReducedProd.Length \in Nat /\ ReducedProd.Left \in NonTerminals
    BY <1>3, ActionFacts DEF Action, ReducedProd
  <2>2. ReducedProd.Length <= StackPosition
    BY <1>1, <1>3, <1>4, <1>5, RightHandSideFits DEF Action, ReducedProd
  <2> QED BY <2>1, <2>2
<1>8. TopElement.State \in States => ~ NoStartState
  BY <1>1, NoStates DEF Inv, OnlyAtBottom, TopElement
<1> QED BY <1>1, <1>2, <1>3, <1>4, <1>5, <1>6, <1>7, <1>8

\* A new parser.
LEMMA InitInv == Init => Inv
<1> SUFFICES ASSUME Init PROVE Inv
  OBVIOUS
<1>1. StreamOK(stream) /\ stream.source = NullSource
  BY NewStreamInv DEF Init, StreamOK, NewStream
<1>2. EmptyElement \in Elements
  BY MaxSizeAssumption DEF EmptyElement, Elements, StackStates, InvalidIndex
<1>3. stack \in Stacks /\ \A i \in 0 .. (StackSize - 1) : stack[i] = EmptyElement
  BY <1>2 DEF Init, Stacks
<1>4. NoToken \in Tokens
  BY TableAssumption DEF NoToken, Tokens, TokenValues
<1>5. Typed
  <2>1. StackPosition \in 0 .. (StackSize - 1)
    BY StackAssumption DEF Init
  <2>2. PrevTokenIndex \in 0 .. MaxSize /\ ErrorMarker \in 0 .. MaxSize
    BY MaxSizeAssumption DEF Init, InvalidIndex
  <2>3. ReduceLeft \in NonTerminals /\ reducing \in Productions /\ errorCode \in ErrorTerminals
    BY TableAssumption DEF Init
  <2> QED BY <1>1, <1>3, <1>4, <2>1, <2>2, <2>3 DEF Init, Typed, StackStates, PcValues
<1>6. Placed
  BY <1>3, TableAssumption DEF Init, Placed, EmptyElement
<1>7. Attached /\ ValuesOwned
  BY <1>3, StackAssumption DEF Init, Attached, ValuesOwned, EmptyElement
<1>8. OnlyAtBottom
  BY <1>3, NoStates DEF Init, OnlyAtBottom, NoStartState, EmptyElement
<1> QED BY <1>5, <1>6, <1>7, <1>8 DEF Inv

\* A source is attached: the initial state stands at the bottom.
LEMMA SetTokenStreamInv ==
  ASSUME Inv, NEW src \in Sources \union {NullSource}, stream.source = NullSource,
         pc = "idle", SetTokenStream(src)
  PROVE  Inv'
<1> DEFINE flushed == ReleaseFrom(stream, StackPosition, StackPosition)
           reset   == ResetStream(flushed, src)
           state   == IF src = NullSource THEN InvalidState ELSE InitialState
           popped  == 1 .. StackPosition
           clean   == CleanedUp(stack, popped)
           marker  == IF src = NullSource THEN clean[0].TerminalMarker ELSE MarkerFor(reset, state)
<1>1. StreamOK(flushed) /\ flushed.source = NullSource
  <2>1. StreamOK(stream) /\ StackPosition \in Nat
    BY TopFacts DEF Inv, Typed
  <2> HIDE DEF flushed
  <2>2. PICK t : t = flushed
    OBVIOUS
  <2>3. t = ReleaseFrom(stream, StackPosition, StackPosition)
    BY <2>2 DEF flushed
  <2>4. StreamOK(t) /\ t.source = stream.source
    BY <2>1, <2>3, ReleaseFromOK
  <2> QED BY <2>2, <2>4
<1>2. StreamOK(reset) /\ reset.source = src /\ GetTokenIndex(reset) \in 0 .. MaxSize
  <2> HIDE DEF flushed
  <2> QED BY <1>1, FirstSourceOK, IndexFacts
<1>3. /\ stream' = Recording(reset, state) /\ TopState' = state
      /\ PrevTokenIndex' = GetTokenIndex(reset)
      /\ stack' = Placing(clean, 0, state, marker)
  BY DEF SetTokenStream, Placing
<1>4. stack \in Stacks
  BY DEF Inv, Typed
<1> HIDE DEF reset, popped
<1>5. /\ clean \in Stacks
      /\ \A i \in 0 .. (StackSize - 1) :
           /\ clean[i].State = stack[i].State
           /\ i \in popped => clean[i].Held = FALSE
           /\ i \notin popped => clean[i].Held = stack[i].Held
  BY <1>4, CleanedUpFacts
<1> HIDE DEF clean
<1>6. /\ StreamOK(stream') /\ stream'.source = src
      /\ MarkerFor(reset, state) \in 0 .. MaxSize
  BY <1>2, <1>3, RecordingOK
<1>7. /\ 0 \in 0 .. (StackSize - 1) /\ clean[0] \in Elements
      /\ state \in StackStates /\ state # EmptyGoto
  BY <1>5, StackAssumption, TableAssumption, NoStates DEF Stacks, StackStates
<1>8. marker \in 0 .. MaxSize
  BY <1>6, <1>7 DEF Elements
<1> HIDE DEF marker
<1>9. /\ stack' \in Stacks /\ stack'[0].State = state /\ stack'[0].Held = clean[0].Held
      /\ \A i \in 0 .. (StackSize - 1) : i # 0 => stack'[i] = clean[i]
  <2> HIDE DEF state
  <2> QED BY <1>3, <1>5, <1>7, <1>8, WrittenStateAndMarker
<1>10. Typed'
  BY <1>2, <1>3, <1>6, <1>7, <1>9 DEF Inv, Typed, SetTokenStream, PcValues
<1>11. Placed'
  <2>1. InitialState \in States => AtDepth(InitialState, 0)
    BY StartDepth DEF Starts
  <2>2. state \in States => AtDepth(state, 0)
    BY <2>1, TableAssumption
  <2> QED BY <1>3, <1>5, <1>9, <2>2 DEF Inv, Placed, SetTokenStream
<1>12. Attached'
  BY <1>3, <1>6 DEF Attached, SetTokenStream
<1>13. ValuesOwned'
  BY <1>5, <1>9, TopFacts DEF Inv, ValuesOwned, SetTokenStream, popped
<1>14. OnlyAtBottom'
  <2>1. TopState' # EmptyGoto
    BY <1>3, <1>7
  <2>2. \A i \in 0 .. (StackSize - 1) : stack'[i].State # EmptyGoto
    BY <1>5, <1>7, <1>9 DEF Inv, OnlyAtBottom
  <2> QED BY <2>1, <2>2 DEF OnlyAtBottom, NoStartState
<1> QED BY <1>10, <1>11, <1>12, <1>13, <1>14 DEF Inv

\* What SetStartingProduction does to the stream and the bottom of the stack.
LEMMA StartChosen ==
  ASSUME NEW left \in NonTerminals, SetStartingProduction(left), NEW state, state = StartStates[left]
  PROVE  /\ pc = "idle" /\ pc' \in {"idle", "crashed"} /\ StackPosition = 0
         /\ TopState # InvalidState /\ TopState' = state
         /\ state \in StackStates /\ state # InvalidState
         /\ state \in States => state \in Starts /\ pc' = "idle"
         /\ state \notin States => state = EmptyGoto
         /\ \E record \in BOOLEAN :
              /\ state \in States => record = (state \in RecordStates)
              /\ stack' = Placing(stack, 0, state, IF record THEN GetTokenIndex(stream)
                                                             ELSE InvalidIndex)
              /\ stream' = IF record THEN SetMarker(stream, GetTokenIndex(stream)) ELSE stream
<1>1. GetStartState(left) = state
  BY DEF GetStartState
<1>2. state \in States \union {EmptyGoto}
  BY TableAssumption
<1>3. state \in StackStates /\ state # InvalidState /\ (state \notin States => state = EmptyGoto)
  BY <1>2, NoStates DEF StackStates
<1>4. state \in States => state \in Starts
  BY NoStates DEF Starts
<1>5. \A record \in RecordsRead(state) :
        record \in BOOLEAN /\ (state \in States => record = (state \in RecordStates))
  BY DEF RecordsRead
<1>6. /\ pc = "idle" /\ StackPosition = 0 /\ TopState # InvalidState /\ TopState' = state
      /\ pc' \in IF state \in States THEN {"idle"} ELSE {"idle", "crashed"}
  BY <1>1 DEF SetStartingProduction
<1>7. PICK record \in RecordsRead(state) :
        /\ stack' = Placing(stack, 0, state, IF record THEN GetTokenIndex(stream)
                                                       ELSE InvalidIndex)
        /\ stream' = IF record THEN SetMarker(stream, GetTokenIndex(stream)) ELSE stream
  <2>1. \E record \in RecordsRead(GetStartState(left)) :
          /\ stack' = Placing(stack, 0, GetStartState(left),
                              IF record THEN GetTokenIndex(stream) ELSE InvalidIndex)
          /\ stream' = IF record THEN SetMarker(stream, GetTokenIndex(stream)) ELSE stream
    BY DEF SetStartingProduction, Placing
  <2> QED BY <1>1, <2>1
<1>8. record \in BOOLEAN /\ (state \in States => record = (state \in RecordStates))
  BY <1>5, <1>7
<1> QED BY <1>3, <1>4, <1>6, <1>7, <1>8

\* A start state chosen instead.
LEMMA SetStartingProductionInv ==
  ASSUME Inv, NEW left \in NonTerminals, SetStartingProduction(left)
  PROVE  Inv'
<1> DEFINE state  == StartStates[left]
<1>1. /\ pc = "idle" /\ pc' \in {"idle", "crashed"} /\ StackPosition = 0
      /\ TopState # InvalidState /\ TopState' = state
      /\ state \in StackStates /\ state # InvalidState
      /\ state \in States => state \in Starts
      /\ state \notin States => state = EmptyGoto
  BY StartChosen
<1>2. PICK record \in BOOLEAN :
        /\ stack' = Placing(stack, 0, state, IF record THEN GetTokenIndex(stream) ELSE InvalidIndex)
        /\ stream' = IF record THEN SetMarker(stream, GetTokenIndex(stream)) ELSE stream
  BY StartChosen
<1> DEFINE marker == IF record THEN GetTokenIndex(stream) ELSE InvalidIndex
<1>3. stack \in Stacks /\ StreamOK(stream) /\ 0 \in 0 .. (StackSize - 1)
  BY StackAssumption DEF Inv, Typed
<1>4. StreamOK(stream') /\ stream'.source = stream.source /\ marker \in 0 .. MaxSize
  BY <1>2, <1>3, MarkedHere, IndexFacts
<1> HIDE DEF state
<1>10. stack' = Placing(stack, 0, state, marker)
  BY <1>2
<1> HIDE DEF marker
<1>5. /\ stack' \in Stacks /\ stack'[0].State = state /\ stack'[0].Held = stack[0].Held
      /\ \A i \in 0 .. (StackSize - 1) : i # 0 => stack'[i] = stack[i]
  BY <1>1, <1>3, <1>4, <1>10, WrittenStateAndMarker
<1>6. Typed'
  BY <1>1, <1>4, <1>5 DEF Inv, Typed, SetStartingProduction, PcValues
<1>7. Placed'
  BY <1>1, <1>5, StartDepth DEF Inv, Placed, SetStartingProduction
<1>8. Attached'
  BY <1>1, <1>4 DEF Inv, Attached, SetStartingProduction
<1>9. ValuesOwned'
  BY <1>1, <1>5 DEF Inv, ValuesOwned, SetStartingProduction
<1>11. OnlyAtBottom'
  BY <1>1, <1>5 DEF Inv, OnlyAtBottom, NoStartState, SetStartingProduction
<1> QED BY <1>6, <1>7, <1>8, <1>9, <1>11 DEF Inv

\* The steps that change where the parser is, and at most the error's code.
LEMMA ControlInv ==
  ASSUME Inv, DoParse \/ NotReady \/ ReadsOutOfRange \/ Accept \/ SyntaxError
  PROVE  Inv'
<1>1. /\ UNCHANGED <<stream, stack, StackPosition, TopState, NextTokenFlag, Token,
                    PrevTokenIndex, ErrorMarker, ReduceLeft, reducing, skipped>>
      /\ errorCode' \in ErrorTerminals
      /\ pc' \in PcValues
  BY TableAssumption
  DEF Inv, Typed, DoParse, NotReady, ReadsOutOfRange, Accept, SyntaxError, parserVars, PcValues
<1>2. Typed'
  BY <1>1 DEF Inv, Typed
<1>3. Placed'
  BY <1>1 DEF Inv, Placed, DoParse, NotReady, ReadsOutOfRange, Accept, SyntaxError
<1>4. Attached'
  BY <1>1 DEF Inv, Attached, DoParse, NotReady, ReadsOutOfRange, Accept, SyntaxError
<1>5. ValuesOwned'
  BY <1>1 DEF Inv, ValuesOwned, DoParse, NotReady, ReadsOutOfRange, Accept, SyntaxError
<1>6. OnlyAtBottom'
  <2>1. CASE NoStartState
    <3>1. StackPosition = 0 /\ TopElement.State = EmptyGoto /\ Action.kind = "none"
      <4>1. StackPosition = 0 /\ 0 \in 0 .. (StackSize - 1)
        BY <2>1, StackAssumption DEF Inv, OnlyAtBottom
      <4>2. TopElement.State = EmptyGoto
        BY <2>1, <4>1 DEF Inv, OnlyAtBottom, TopElement
      <4> QED BY <4>1, <4>2, NoStates, TopFacts
    <3>2. pc' \in {"top", "crashed"}
      BY <2>1, <3>1, NoStates
      DEF DoParse, NotReady, ReadsOutOfRange, Accept, SyntaxError, NoStartState
    <3> QED BY <1>1, <2>1, <3>1, <3>2 DEF Inv, OnlyAtBottom, NoStartState
  <2>2. CASE ~ NoStartState
    BY <1>1, <2>2, StartKept DEF NoStartState
  <2> QED BY <2>1, <2>2
<1> QED BY <1>2, <1>3, <1>4, <1>5, <1>6 DEF Inv

\* The state of the top is stored, and a token read.
LEMMA StoreTopStateInv ==
  ASSUME Inv, StoreTopState
  PROVE  Inv'
<1> DEFINE e == [stack[StackPosition] EXCEPT !.State = TopState]
<1>1. /\ pc = "top" /\ TopState # InvalidState /\ pc' = "act"
      /\ stack' = Written(stack, StackPosition, e)
      /\ Token' = IF NextTokenFlag THEN Read(stream) ELSE Token
      /\ stream' = IF NextTokenFlag THEN AfterNextToken(stream) ELSE stream
  BY DEF StoreTopState, Written
<1>2. /\ stack \in Stacks /\ StackPosition \in 0 .. (StackSize - 1)
      /\ stack[StackPosition] \in Elements /\ StreamOK(stream)
      /\ TopState \in StackStates
  BY <1>1 DEF Inv, Typed, Stacks
<1>3. e \in Elements /\ e.State = TopState /\ e.Held = stack[StackPosition].Held
  BY <1>2, ElementFields
<1> HIDE DEF e
<1>4. /\ stack' \in Stacks /\ stack'[StackPosition] = e
      /\ \A i \in 0 .. (StackSize - 1) : i # StackPosition => stack'[i] = stack[i]
  BY <1>1, <1>2, <1>3, WrittenElement
<1>5. StreamOK(stream') /\ stream'.source = stream.source /\ Token' \in Tokens
  BY <1>1, <1>2, ReadOK DEF Inv, Typed, SameTokens
<1>6. Typed'
  BY <1>1, <1>4, <1>5 DEF Inv, Typed, StoreTopState, PcValues
<1>7. Placed'
  BY <1>1, <1>2, <1>3, <1>4 DEF Inv, Placed, StoreTopState
<1>8. Attached'
  BY <1>1, <1>5 DEF Inv, Attached
<1>9. ValuesOwned'
  BY <1>1, <1>2, <1>3, <1>4 DEF Inv, ValuesOwned, StoreTopState
<1>10. OnlyAtBottom'
  BY <1>1, <1>2, <1>3, <1>4 DEF Inv, OnlyAtBottom, NoStartState, StoreTopState
<1> QED BY <1>6, <1>7, <1>8, <1>9, <1>10 DEF Inv

\* A symbol is pushed, and the token after it read.
LEMMA PushInv ==
  ASSUME Inv, NEW s, StreamOK(s), s.source = stream.source, pc = "act",
         NEW state \in States, AtDepth(state, StackPosition + 1), Push(s, state),
         ~ NoStartState
  PROVE  Inv'
<1> DEFINE p == StackPosition + 1
           e == [State |-> state, TerminalMarker |-> MarkerFor(s, state), Held |-> TRUE]
           recording == Recording(s, state)
<1>1. /\ p < StackSize /\ StackPosition' = p /\ pc' = pc
      /\ stack' = Written(stack, p, e)
      /\ stream' = AfterNextToken(recording) /\ Token' = Read(recording)
  BY DEF Push, Written
<1>2. /\ StreamOK(recording) /\ recording.source = s.source
      /\ MarkerFor(s, state) \in 0 .. MaxSize
  BY RecordingOK
<1>3. e \in Elements /\ e.State = state
  BY <1>2 DEF Elements, StackStates
<1> HIDE DEF e, recording
<1>4. StreamOK(stream') /\ stream'.source = stream.source /\ Token' \in Tokens
  BY <1>1, <1>2, ReadOK DEF SameTokens
<1>5. stack \in Stacks /\ p \in 0 .. (StackSize - 1)
  BY <1>1, TopFacts DEF Inv, Typed
<1>6. /\ stack' \in Stacks /\ stack'[p] = e
      /\ \A i \in 0 .. (StackSize - 1) : i # p => stack'[i] = stack[i]
  BY <1>1, <1>3, <1>5, WrittenElement
<1>7. Typed'
  BY <1>1, <1>4, <1>5, <1>6 DEF Inv, Typed, Push
<1>8. Placed'
  BY <1>1, <1>3, <1>5, <1>6 DEF Inv, Placed
<1>9. Attached'
  BY <1>1, <1>4 DEF Inv, Attached
<1>10. ValuesOwned'
  <2>1. \A i \in (p + 1) .. (StackSize - 1) :
          i \in (StackPosition + 1) .. (StackSize - 1) /\ i \in 0 .. (StackSize - 1) /\ i # p
    BY <1>5, TopFacts
  <2> QED BY <1>1, <1>6, <2>1 DEF Inv, ValuesOwned
<1>11. OnlyAtBottom'
  BY <1>3, <1>5, <1>6, NoStates, StartKept DEF Push, NoStartState
<1> QED BY <1>7, <1>8, <1>9, <1>10, <1>11 DEF Inv

\* A token shifted.
LEMMA ShiftInv ==
  ASSUME Inv, Shift
  PROVE  Inv'
<1>1. Action.kind = "shift" /\ pc = "act" /\ Push(stream, Action.arg) /\ StreamOK(stream)
  BY DEF Shift, Inv, Typed
<1>2. Action.arg \in States /\ AtDepth(Action.arg, StackPosition + 1) /\ ~ NoStartState
  BY <1>1, TopFacts
<1> QED BY <1>1, <1>2, PushInv

\* An error shifted, after its handler has read some of the tokens recorded.
LEMMA ShiftErrorInv ==
  ASSUME Inv, NEW n \in Nat, ShiftError(n)
  PROVE  Inv'
<1> DEFINE aside == AfterErrorData(n, Action.arg)
<1>1. Action.kind = "shift" /\ pc = "act" /\ Push(aside, Action.arg) /\ StreamOK(stream)
  BY DEF ShiftError, Inv, Typed
<1>2. StreamOK(aside) /\ aside.source = stream.source
  BY <1>1, AfterErrorDataOK DEF SameTokens
<1>3. Action.arg \in States /\ AtDepth(Action.arg, StackPosition + 1) /\ ~ NoStartState
  BY <1>1, TopFacts
<1> HIDE DEF aside
<1> QED BY <1>1, <1>2, <1>3, PushInv

\* A reduction: the right hand side stays above the new top.
LEMMA ReduceInv ==
  ASSUME Inv, Reduce
  PROVE  Inv'
<1> DEFINE len == ReducedProd.Length
           p   == ReducedPosition
           marker == MarkerFor(stream, ReducedState)
           e   == [stack[p] EXCEPT !.TerminalMarker = marker]
<1>1. /\ pc = "act" /\ Action.kind = "reduce" /\ ReducedState # InvalidState
      /\ p < StackSize /\ StackPosition' = p /\ TopState' = ReducedState
      /\ reducing' = Action.arg /\ pc' \in {"reduced", "handler"}
      /\ NextTokenFlag' = FALSE /\ ReduceLeft' = ReducedProd.Left
      /\ len = 0 => /\ stream' = Recording(stream, ReducedState)
                    /\ stack' = Written(stack, p, e)
      /\ len # 0 => /\ stream' = ReleaseFrom(stream, StackPosition, len)
                    /\ stack' = stack
  BY DEF Reduce, Written, MarkersReleased
<1>2. /\ Action.arg \in Productions /\ len \in Nat /\ len <= StackPosition
      /\ ReducedProd.Left \in NonTerminals /\ ~ NoStartState
      /\ StackPosition \in Nat /\ StackPosition < StackSize /\ StackSize \in Nat
  BY <1>1, TopFacts
<1>3. p = StackPosition + 1 - len /\ p \in 0 .. (StackSize - 1) /\ p > 0
      /\ p - 1 \in 0 .. (StackSize - 1) /\ p - 1 <= StackPosition
  BY <1>1, <1>2 DEF ReducedPosition
<1>4. StreamOK(stream) /\ stack \in Stacks /\ stack[p] \in Elements
  BY <1>3 DEF Inv, Typed, Stacks
<1>5. /\ ReducedState \in States /\ AtDepth(ReducedState, p)
  <2>1. /\ stack[p - 1].State \in States /\ ReducedState \in States
        /\ Leads(stack[p - 1].State, ReducedState)
    BY <1>1, <1>2, GotoLeads DEF ReducedState
  <2>2. AtDepth(stack[p - 1].State, p - 1)
    BY <1>3, <2>1 DEF Inv, Placed
  <2>3. p - 1 \in Nat /\ (p - 1) + 1 = p
    BY <1>3
  <2> QED BY <2>1, <2>2, <2>3, NextDepth
<1>6. marker \in 0 .. MaxSize
  BY <1>4, RecordingOK
<1>7. e \in Elements /\ e.State = stack[p].State /\ e.Held = stack[p].Held
  BY <1>4, <1>6, ElementFields
<1> HIDE DEF e, marker, p, len
<1>8. StreamOK(stream') /\ stream'.source = stream.source
  <2>1. CASE len = 0
    <3>1. stream' = Recording(stream, ReducedState)
      BY <1>1, <2>1
    <3> QED BY <1>4, <3>1, RecordingOK
  <2>2. CASE len # 0
    <3>1. stream' = ReleaseFrom(stream, StackPosition, len)
      BY <1>1, <2>2
    <3> QED BY <1>2, <1>4, <3>1, ReleaseFromOK
  <2> QED BY <2>1, <2>2
<1>9. /\ stack' \in Stacks
      /\ \A i \in 0 .. (StackSize - 1) :
           stack'[i].State = stack[i].State /\ stack'[i].Held = stack[i].Held
  <2>1. CASE len = 0
    <3>1. /\ stack' \in Stacks /\ stack'[p] = e
          /\ \A i \in 0 .. (StackSize - 1) : i # p => stack'[i] = stack[i]
      BY <1>1, <1>3, <1>4, <1>7, <2>1, WrittenElement
    <3> QED BY <1>7, <3>1
  <2>2. CASE len # 0
    BY <1>1, <1>4, <2>2
  <2> QED BY <2>1, <2>2
<1>10. Typed'
  BY <1>1, <1>2, <1>3, <1>5, <1>8, <1>9 DEF Inv, Typed, Reduce, PcValues, StackStates
<1>11. Placed'
  BY <1>1, <1>3, <1>5, <1>9 DEF Inv, Placed
<1>12. Attached'
  BY <1>1, <1>8 DEF Inv, Attached
<1>13. ValuesOwned'
  <2>1. reducing' \in Productions /\ ReduceProductions[reducing'].Length = len
    BY <1>1, <1>2 DEF ReducedProd, len
  <2>2. ASSUME NEW i \in (p + 1) .. (StackSize - 1), stack'[i].Held
        PROVE  i < p + len
    <3>1. i \in 0 .. (StackSize - 1) /\ stack[i].Held
      BY <1>3, <1>9, <2>2
    <3>2. i \notin (StackPosition + 1) .. (StackSize - 1)
      BY <1>1, <3>1 DEF Inv, ValuesOwned
    <3> QED BY <1>2, <1>3, <2>2, <3>2
  <2>3. \A i \in (p + 1) .. (StackSize - 1) : i \in 0 .. (StackSize - 1) /\ p < i
    BY <1>2, <1>3
  <2> QED BY <1>1, <2>1, <2>2, <2>3 DEF ValuesOwned, Remains
<1>14. OnlyAtBottom'
  BY <1>1, <1>2, <1>5, <1>9, NoStates, StartKept
<1> QED BY <1>10, <1>11, <1>12, <1>13, <1>14 DEF Inv

\* A reduction that leads nowhere: the right hand side is gone at once.
LEMMA RejectReduceInv ==
  ASSUME Inv, Disciplined, RejectReduce
  PROVE  Inv'
<1> DEFINE len == ReducedProd.Length
           p   == ReducedPosition
           popped == p .. (p + len)
           released == MarkersReleased
<1>1. /\ pc = "act" /\ pc' = "act" /\ Action.kind = "reduce" /\ ReducedState = InvalidState
      /\ stack' = CleanedUp(stack, popped) /\ StackPosition' = p - 1
      /\ Token' = [Token EXCEPT !.Code = TokenError] /\ TopState' = InvalidState
      /\ PrevTokenIndex' = GetTokenIndex(released) /\ stream' = SeekBack(released, 1)
  BY DEF RejectReduce
<1>2. /\ len \in Nat /\ len <= StackPosition /\ ~ NoStartState
      /\ StackPosition \in Nat /\ StackPosition < StackSize /\ StackSize \in Nat
  BY <1>1, TopFacts
<1>3. p = StackPosition + 1 - len /\ p - 1 \in 0 .. (StackSize - 1)
  BY <1>1, <1>2 DEF ReducedPosition
<1>4. StreamOK(stream) /\ stack \in Stacks
  BY DEF Inv, Typed
<1>5. GetTokenIndex(stream) > 0
  BY <1>1 DEF Disciplined, GoesBack
<1>6. /\ StreamOK(released) /\ released.source = stream.source
      /\ GetTokenIndex(released) = GetTokenIndex(stream)
  <2>1. released = ReleaseFrom(stream, StackPosition, len)
    BY DEF MarkersReleased
  <2> HIDE DEF released, len
  <2> QED BY <1>2, <1>4, <2>1, ReleaseFromOK
<1> HIDE DEF released, p, len
<1>7. /\ StreamOK(stream') /\ stream'.source = stream.source
      /\ PrevTokenIndex' \in 0 .. MaxSize
  BY <1>1, <1>5, <1>6, SeekBackOK, IndexFacts DEF SameTokens
<1>8. Token' \in Tokens
  BY <1>1, TableAssumption DEF Inv, Typed, Tokens
<1> HIDE DEF popped
<1>9. /\ stack' \in Stacks
      /\ \A i \in 0 .. (StackSize - 1) :
           /\ stack'[i].State = stack[i].State
           /\ i \in popped => stack'[i].Held = FALSE
           /\ i \notin popped => stack'[i].Held = stack[i].Held
  <2>1. stack' = CleanedUp(stack, popped)
    BY <1>1
  <2> QED BY <1>4, <2>1, CleanedUpFacts
<1>10. Typed'
  BY <1>1, <1>3, <1>7, <1>8, <1>9 DEF Inv, Typed, RejectReduce, PcValues, StackStates
<1>11. Placed'
  BY <1>1, <1>9 DEF Inv, Placed
<1>12. Attached'
  BY <1>1, <1>7 DEF Inv, Attached
<1>13. ValuesOwned'
  <2>1. ASSUME NEW i \in (p - 1 + 1) .. (StackSize - 1)
        PROVE  ~ stack'[i].Held
    <3>1. i \in 0 .. (StackSize - 1)
      BY <1>3, <2>1
    <3>2. CASE i \in popped
      BY <1>9, <3>1, <3>2
    <3>3. CASE i \notin popped
      <4>1. i \in (StackPosition + 1) .. (StackSize - 1)
        BY <1>2, <1>3, <2>1, <3>3 DEF popped
      <4> QED BY <1>1, <1>9, <3>1, <3>3, <4>1 DEF Inv, ValuesOwned
    <3> QED BY <3>2, <3>3
  <2> QED BY <1>1, <2>1 DEF ValuesOwned
<1>14. OnlyAtBottom'
  BY <1>1, <1>2, <1>9, NoStates, StartKept
<1> QED BY <1>10, <1>11, <1>12, <1>13, <1>14 DEF Inv

\* The handler picks another left hand side.
LEMMA SetReduceNonterminalInv ==
  ASSUME Inv, NEW left \in NonTerminals, SetReduceNonterminal(left)
  PROVE  Inv'
<1> DEFINE below == stack[StackPosition - 1].State
           state == GetLeftReduceState(below, left)
<1>1. /\ pc = "handler" /\ pc' = pc /\ state # InvalidState /\ TopState' = state
      /\ ReduceLeft' = left /\ stack' = stack /\ stream' = stream
      /\ StackPosition' = StackPosition /\ reducing' = reducing
  BY DEF SetReduceNonterminal
<1>2. StackPosition > 0 /\ StackPosition \in Nat /\ StackPosition - 1 \in 0 .. (StackSize - 1)
  BY <1>1, TopFacts DEF Inv, Placed
<1>3. below \in States /\ state \in States /\ Leads(below, state)
  BY <1>1, GotoLeads
<1>4. AtDepth(below, StackPosition - 1)
  BY <1>2, <1>3 DEF Inv, Placed
<1> HIDE DEF state, below
<1>5. AtDepth(state, StackPosition)
  <2>1. StackPosition - 1 \in Nat /\ (StackPosition - 1) + 1 = StackPosition
    BY <1>2
  <2> QED BY <1>3, <1>4, <2>1, NextDepth
<1>6. Typed'
  BY <1>1, <1>3 DEF Inv, Typed, SetReduceNonterminal, StackStates
<1>7. Placed' /\ Attached' /\ ValuesOwned'
  BY <1>1, <1>5 DEF Inv, Placed, Attached, ValuesOwned, Remains
<1>8. OnlyAtBottom'
  BY <1>1, <1>3, NoStates DEF Inv, OnlyAtBottom, NoStartState
<1> QED BY <1>6, <1>7, <1>8 DEF Inv

\* The handler leaves the value of the left hand side.
LEMMA HandlerSucceedsInv ==
  ASSUME Inv, HandlerSucceeds
  PROVE  Inv'
<1> DEFINE e == [stack[StackPosition] EXCEPT !.Held = TRUE]
<1>1. /\ pc = "handler" /\ pc' = "reduced" /\ stack' = Written(stack, StackPosition, e)
      /\ UNCHANGED <<stream, StackPosition, TopState, reducing>>
  BY DEF HandlerSucceeds, Written
<1>2. /\ stack \in Stacks /\ StackPosition \in 0 .. (StackSize - 1)
      /\ stack[StackPosition] \in Elements
  BY DEF Inv, Typed, Stacks
<1>3. e \in Elements /\ e.State = stack[StackPosition].State
  BY <1>2, ElementFields
<1> HIDE DEF e
<1>4. /\ stack' \in Stacks /\ stack'[StackPosition] = e
      /\ \A i \in 0 .. (StackSize - 1) : i # StackPosition => stack'[i] = stack[i]
  BY <1>1, <1>2, <1>3, WrittenElement
<1>5. Typed'
  BY <1>1, <1>4 DEF Inv, Typed, HandlerSucceeds, PcValues
<1>6. Placed'
  BY <1>1, <1>3, <1>4 DEF Inv, Placed
<1>7. Attached'
  BY <1>1 DEF Inv, Attached
<1>8. ValuesOwned'
  <2>1. \A i \in (StackPosition + 1) .. (StackSize - 1) : i \in 0 .. (StackSize - 1) /\ i # StackPosition
    BY <1>2
  <2>2. Remains' = Remains
    BY <1>1 DEF Remains
  <2> QED BY <1>1, <1>4, <2>1, <2>2 DEF Inv, ValuesOwned
<1>9. OnlyAtBottom'
  BY <1>1, <1>2, <1>3, <1>4 DEF Inv, OnlyAtBottom, NoStartState
<1> QED BY <1>5, <1>6, <1>7, <1>8, <1>9 DEF Inv

\* The right hand side is cleaned up; the left hand side may be an error.
LEMMA FinishReduceInv ==
  ASSUME Inv, FinishReduce
  PROVE  Inv'
<1> DEFINE len == ReduceProductions[reducing].Length
           popped == (StackPosition + 1) .. (StackPosition + len)
<1>1. /\ pc = "reduced" /\ pc' \in {"error", "top"} /\ stack' = CleanedUp(stack, popped)
      /\ UNCHANGED <<stream, StackPosition, TopState, reducing>>
  BY DEF FinishReduce
<1>2. stack \in Stacks /\ reducing \in Productions /\ len \in Nat
  BY TableAssumption DEF Inv, Typed
<1>3. errorCode' \in ErrorTerminals
  BY TableAssumption DEF Inv, Typed, FinishReduce
<1> HIDE DEF len, popped
<1>4. /\ stack' \in Stacks
      /\ \A i \in 0 .. (StackSize - 1) :
           /\ stack'[i].State = stack[i].State
           /\ i \in popped => stack'[i].Held = FALSE
           /\ i \notin popped => stack'[i].Held = stack[i].Held
  BY <1>1, <1>2, CleanedUpFacts
<1>5. Typed'
  BY <1>1, <1>3, <1>4 DEF Inv, Typed, FinishReduce, PcValues
<1>6. Placed'
  BY <1>1, <1>4 DEF Inv, Placed
<1>7. Attached'
  BY <1>1 DEF Inv, Attached
<1>8. ValuesOwned'
  <2>1. ASSUME NEW i \in (StackPosition + 1) .. (StackSize - 1)
        PROVE  ~ stack'[i].Held
    <3>1. i \in 0 .. (StackSize - 1) /\ i \in Nat /\ i >= StackPosition + 1
      BY <2>1, TopFacts
    <3>2. CASE i \in popped
      BY <1>4, <3>1, <3>2
    <3>3. CASE i \notin popped
      <4>1. ~ (i < StackPosition + len)
        BY <1>2, <3>1, <3>3, TopFacts DEF popped
      <4> QED BY <1>1, <1>4, <2>1, <3>1, <3>3, <4>1 DEF Inv, ValuesOwned, Remains, len
    <3> QED BY <3>2, <3>3
  <2> QED BY <1>1, <2>1 DEF ValuesOwned
<1>9. OnlyAtBottom'
  BY <1>1, <1>4 DEF Inv, OnlyAtBottom, NoStartState
<1> QED BY <1>5, <1>6, <1>7, <1>8, <1>9 DEF Inv

\* A parse that ends in an error flushes the stack.
LEMMA FailInv ==
  ASSUME Inv, NEW s, StreamOK(s), Fail(s), ErrorMarker' \in 0 .. MaxSize,
         pc \in {"handler", "error", "skip"},
         UNCHANGED <<TopState, NextTokenFlag, Token, PrevTokenIndex, ReduceLeft,
                     reducing, errorCode, skipped>>
  PROVE  Inv'
<1> DEFINE popped == (0 + 1) .. StackPosition
<1>1. /\ pc' = "failed" /\ StackPosition' = 0 /\ stack' = CleanedUp(stack, popped)
      /\ stream' = ReleaseFrom(s, StackPosition, StackPosition - 0)
  BY DEF Fail, FlushStack
<1>2. stack \in Stacks /\ StackPosition \in Nat /\ StackPosition - 0 \in Nat
  BY TopFacts DEF Inv, Typed
<1>3. StreamOK(stream')
  BY <1>1, <1>2, ReleaseFromOK
<1> HIDE DEF popped
<1>4. /\ stack' \in Stacks
      /\ \A i \in 0 .. (StackSize - 1) : stack'[i].State = stack[i].State
  BY <1>1, <1>2, CleanedUpFacts
<1>5. Typed'
  BY <1>1, <1>3, <1>4, StackAssumption DEF Inv, Typed, PcValues
<1>6. Placed' /\ Attached' /\ ValuesOwned'
  BY <1>1, <1>4 DEF Inv, Placed, Attached, ValuesOwned
<1>7. OnlyAtBottom'
  BY <1>4 DEF Inv, OnlyAtBottom, NoStartState
<1> QED BY <1>5, <1>6, <1>7 DEF Inv

\* An error presented at a position of the stack.
LEMMA RecoverAtInv ==
  ASSUME Inv, NEW s, StreamOK(s), s.source = stream.source, GetTokenIndex(s) > 0,
         NEW sp \in 0 .. StackPosition, pc \in {"error", "skip"}, RecoverAt(s, sp),
         ErrorMarker' \in 0 .. MaxSize, skipped' \in Tokens,
         UNCHANGED <<TopState, NextTokenFlag, ReduceLeft, reducing, errorCode>>
  PROVE  Inv'
<1> DEFINE popped == (sp + 1) .. StackPosition
           flushed == IF ReducesOnError THEN s
                      ELSE ReleaseFrom(s, StackPosition, StackPosition - sp)
<1>1. /\ pc' = "act" /\ Token' = [Token EXCEPT !.Code = errorCode]
      /\ PrevTokenIndex' = GetTokenIndex(flushed) /\ stream' = SeekBack(flushed, 1)
  BY DEF RecoverAt
<1>2. /\ ReducesOnError => stack' = stack /\ StackPosition' = StackPosition
      /\ ~ ReducesOnError => stack' = CleanedUp(stack, popped) /\ StackPosition' = sp
  BY DEF RecoverAt
<1>3. /\ stack \in Stacks /\ StackPosition \in Nat /\ StackPosition < StackSize
      /\ StackSize \in Nat /\ sp \in Nat /\ sp <= StackPosition
  BY TopFacts DEF Inv, Typed
<1>4. /\ StreamOK(flushed) /\ flushed.source = s.source
      /\ GetTokenIndex(flushed) = GetTokenIndex(s)
  <2> DEFINE n == StackPosition - sp
             released == ReleaseFrom(s, StackPosition, n)
  <2>1. n \in Nat
    BY <1>3
  <2> HIDE DEF n
  <2>2. /\ StreamOK(released) /\ released.source = s.source
        /\ GetTokenIndex(released) = GetTokenIndex(s)
    <3>1. StackPosition \in Nat /\ StreamOK(s)
      BY <1>3
    <3>2. PICK r : r = released
      OBVIOUS
    <3>3. StreamOK(r) /\ r.source = s.source /\ GetTokenIndex(r) = GetTokenIndex(s)
      BY <2>1, <3>1, <3>2, ReleaseFromOK
    <3> QED BY <3>2, <3>3
  <2> HIDE DEF released
  <2> QED BY <2>2 DEF released, n
<1> HIDE DEF flushed, popped
<1>5. /\ StreamOK(stream') /\ stream'.source = stream.source
      /\ PrevTokenIndex' \in 0 .. MaxSize
  BY <1>1, <1>4, SeekBackOK, IndexFacts DEF SameTokens
<1>6. Token' \in Tokens
  BY <1>1, TableAssumption DEF Inv, Typed, Tokens
<1>7. /\ stack' \in Stacks
      /\ \A i \in 0 .. (StackSize - 1) : stack'[i].State = stack[i].State
      /\ \A i \in 0 .. (StackSize - 1) :
           stack'[i].Held => stack[i].Held /\ (ReducesOnError \/ i \notin popped)
  <2>1. CASE ReducesOnError
    BY <1>2, <1>3, <2>1
  <2>2. CASE ~ ReducesOnError
    <3>1. stack' = CleanedUp(stack, popped)
      BY <1>2, <2>2
    <3>2. /\ stack' \in Stacks
          /\ \A i \in 0 .. (StackSize - 1) :
               /\ stack'[i].State = stack[i].State
               /\ i \in popped => stack'[i].Held = FALSE
               /\ i \notin popped => stack'[i].Held = stack[i].Held
      <4>1. stack \in Stacks
        BY <1>3
      <4> DEFINE clean == CleanedUp(stack, popped)
      <4> HIDE DEF clean
      <4>2. /\ clean \in Stacks
            /\ \A i \in 0 .. (StackSize - 1) :
                 /\ clean[i].State = stack[i].State
                 /\ i \in popped => clean[i].Held = FALSE
                 /\ i \notin popped => clean[i].Held = stack[i].Held
        BY <4>1, CleanedUpFacts DEF clean
      <4> QED BY <3>1, <4>2 DEF clean
    <3> QED BY <3>2
  <2> QED BY <2>1, <2>2
<1>8. StackPosition' \in 0 .. (StackSize - 1)
  BY <1>2, <1>3
<1>9. Typed'
  BY <1>1, <1>5, <1>6, <1>7, <1>8 DEF Inv, Typed, PcValues
<1>10. Placed'
  BY <1>1, <1>7 DEF Inv, Placed
<1>11. Attached'
  BY <1>1, <1>5 DEF Inv, Attached
<1>12. ValuesOwned'
  <2>1. ASSUME NEW i \in 0 .. (StackSize - 1), i > StackPosition', stack'[i].Held
        PROVE  FALSE
    <3>1. i \in 0 .. (StackSize - 1)
      BY <2>1
    <3>2. stack[i].Held /\ (ReducesOnError \/ i \notin popped)
      BY <1>7, <2>1, <3>1
    <3>3. i \in (StackPosition + 1) .. (StackSize - 1)
      BY <1>2, <1>3, <2>1, <3>2 DEF popped
    <3> QED BY <3>2, <3>3 DEF Inv, ValuesOwned
  <2>2. \A i \in (StackPosition' + 1) .. (StackSize - 1) :
          i \in 0 .. (StackSize - 1) /\ i > StackPosition'
    <3> DEFINE p == StackPosition'
    <3>1. p \in 0 .. (StackSize - 1) /\ StackSize \in Nat
      BY <1>3, <1>8
    <3> HIDE DEF p
    <3>2. \A i \in (p + 1) .. (StackSize - 1) : i \in 0 .. (StackSize - 1) /\ i > p
      BY <3>1
    <3> QED BY <3>2 DEF p
  <2> QED BY <2>1, <2>2 DEF ValuesOwned
<1>13. OnlyAtBottom'
  BY <1>7 DEF Inv, OnlyAtBottom, NoStartState
<1> QED BY <1>9, <1>10, <1>11, <1>12, <1>13 DEF Inv

\* The handler fails.
LEMMA HandlerFailsInv ==
  ASSUME Inv, HandlerFails
  PROVE  Inv'
<1>1. Fail(stream) /\ StreamOK(stream) /\ ErrorMarker' \in 0 .. MaxSize /\ pc = "handler"
  BY DEF HandlerFails, Inv, Typed
<1> QED BY <1>1, FailInv DEF HandlerFails

\* Nothing on the stack can take the error.
LEMMA GiveUpInv ==
  ASSUME Inv, GiveUp
  PROVE  Inv'
<1> DEFINE marked == MarkError
<1>1. StreamOK(marked) /\ ErrorMarker' \in 0 .. MaxSize
  BY MarkErrorOK DEF GiveUp, Inv, Typed
<1>2. Fail(marked) /\ pc = "error"
  BY DEF GiveUp
<1> HIDE DEF marked
<1> QED BY <1>1, <1>2, FailInv DEF GiveUp

\* Skipping tokens would not help.
LEMMA StopSkippingInv ==
  ASSUME Inv, StopSkipping
  PROVE  Inv'
<1>1. Fail(stream) /\ StreamOK(stream) /\ ErrorMarker' \in 0 .. MaxSize /\ pc = "skip"
  BY DEF StopSkipping, Inv, Typed
<1> QED BY <1>1, FailInv DEF StopSkipping

\* An error that can be handled without skipping a token.
LEMMA RecoverAtOnceInv ==
  ASSUME Inv, Disciplined, RecoverAtOnce
  PROVE  Inv'
<1> DEFINE marked == MarkError
           sp == Topmost(RecoveringPositions)
<1>1. /\ StreamOK(marked) /\ marked.source = stream.source
      /\ GetTokenIndex(marked) = GetTokenIndex(stream)
      /\ ErrorMarker' \in 0 .. MaxSize
  BY MarkErrorOK DEF RecoverAtOnce, Inv, Typed
<1>2. pc = "error" /\ RecoveringPositions # {} /\ RecoverAt(marked, sp)
  BY DEF RecoverAtOnce
<1>3. sp \in 0 .. StackPosition
  <2>1. RecoveringPositions \subseteq 0 .. StackPosition /\ StackPosition \in Nat
    BY TopFacts DEF RecoveringPositions, ErrorPositions
  <2>2. sp \in RecoveringPositions
    BY <1>2, <2>1, TopmostFacts
  <2> QED BY <2>1, <2>2
<1>4. GetTokenIndex(marked) > 0
  BY <1>1, <1>2 DEF Disciplined, GoesBack
<1>5. skipped' \in Tokens
  BY DEF RecoverAtOnce, Inv, Typed
<1> HIDE DEF marked, sp
<1> QED BY <1>1, <1>2, <1>3, <1>4, <1>5, RecoverAtInv DEF RecoverAtOnce

\* The error is marked before tokens are skipped.
LEMMA StartSkippingInv ==
  ASSUME Inv, StartSkipping
  PROVE  Inv'
<1>1. /\ StreamOK(stream') /\ stream'.source = stream.source
      /\ ErrorMarker' \in 0 .. MaxSize
  BY MarkErrorOK DEF StartSkipping, Inv, Typed
<1>2. pc = "error" /\ pc' = "skip" /\ skipped' = Token
      /\ UNCHANGED <<stack, StackPosition, TopState, reducing>>
  BY DEF StartSkipping
<1>3. Typed'
  BY <1>1, <1>2 DEF Inv, Typed, StartSkipping, PcValues
<1>4. Placed' /\ Attached' /\ ValuesOwned' /\ OnlyAtBottom'
  BY <1>1, <1>2 DEF Inv, Placed, Attached, ValuesOwned, OnlyAtBottom, NoStartState
<1> QED BY <1>3, <1>4 DEF Inv

\* A token skipped, after which the error may be presented.
LEMMA SkipTokenInv ==
  ASSUME Inv, SkipToken
  PROVE  Inv'
<1> DEFINE read == AfterNextToken(stream)
           positions == ValidPositions(skipped'.Code)
           sp == Topmost(positions)
<1>1. /\ pc = "skip" /\ skipped' = Read(stream) /\ ErrorMarker' = ErrorMarker
      /\ UNCHANGED <<TopState, NextTokenFlag, ReduceLeft, reducing, errorCode>>
      /\ positions = {} => /\ stream' = read
                           /\ UNCHANGED <<stack, StackPosition, PrevTokenIndex, Token, pc>>
      /\ positions # {} => RecoverAt(read, sp)
  BY DEF SkipToken
<1>2. StreamOK(stream) /\ stream.source # NullSource /\ ErrorMarker' \in 0 .. MaxSize
  BY <1>1 DEF Inv, Typed, Attached
<1>3. /\ StreamOK(read) /\ read.source = stream.source /\ GetTokenIndex(read) > 0
      /\ skipped' \in Tokens
  BY <1>1, <1>2, ReadOK DEF SameTokens
<1>4. positions \subseteq 0 .. StackPosition /\ StackPosition \in Nat
  BY TopFacts DEF ValidPositions, ErrorPositions
<1> HIDE DEF read, positions
<1>5. CASE positions = {}
  <2>1. Typed'
    BY <1>1, <1>2, <1>3, <1>5 DEF Inv, Typed
  <2>2. Placed' /\ Attached' /\ ValuesOwned' /\ OnlyAtBottom'
    BY <1>1, <1>3, <1>5 DEF Inv, Placed, Attached, ValuesOwned, Remains, OnlyAtBottom, NoStartState
  <2> QED BY <2>1, <2>2 DEF Inv
<1>6. CASE positions # {}
  <2>1. sp \in positions
    BY <1>4, <1>6, TopmostFacts
  <2>2. sp \in 0 .. StackPosition
    BY <1>4, <2>1
  <2> HIDE DEF sp
  <2> QED BY <1>1, <1>2, <1>3, <1>6, <2>2, RecoverAtInv
<1> QED BY <1>5, <1>6

(***************************************************************************)
(* The theorems                                                            *)
(***************************************************************************)

\* Every step of the parser, of its client and of the handlers keeps the
\* invariant.
LEMMA NextInv == Inv /\ Disciplined /\ [Next]_vars => Inv'
<1> SUFFICES ASSUME Inv, Disciplined, [Next]_vars
             PROVE  Inv'
  OBVIOUS
<1>1. CASE Client
  BY <1>1, SetTokenStreamInv, SetStartingProductionInv, ControlInv DEF Client
<1>2. CASE Handler
  <2>1. Lefts[reducing] \subseteq NonTerminals
    BY TableAssumption DEF Inv, Typed
  <2>2. ASSUME NEW left \in Lefts[reducing], SetReduceNonterminal(left)
        PROVE  Inv'
    BY <2>1, <2>2, SetReduceNonterminalInv
  <2> QED BY <1>2, <2>2, HandlerSucceedsInv, HandlerFailsInv DEF Handler
<1>3. CASE Parser
  <2>1. CASE NotReady \/ ReadsOutOfRange \/ StoreTopState \/ Shift \/ Accept
    BY <2>1, ControlInv, StoreTopStateInv, ShiftInv
  <2>2. CASE Reduce \/ RejectReduce \/ FinishReduce
    BY <2>2, ReduceInv, RejectReduceInv, FinishReduceInv
  <2>3. CASE SyntaxError \/ GiveUp \/ RecoverAtOnce
    BY <2>3, ControlInv, GiveUpInv, RecoverAtOnceInv
  <2>4. CASE StartSkipping \/ StopSkipping \/ SkipToken
    BY <2>4, StartSkippingInv, StopSkippingInv, SkipTokenInv
  <2> QED BY <1>3, <2>1, <2>2, <2>3, <2>4 DEF Parser
<1>4. CASE ShiftErrors
  BY <1>4, ShiftErrorInv DEF ShiftErrors
<1>5. CASE UNCHANGED vars
  <2>1. UNCHANGED <<stream, stack, StackPosition, TopState, NextTokenFlag, Token,
                    PrevTokenIndex, ErrorMarker, ReduceLeft, reducing, errorCode, skipped, pc>>
    BY <1>5 DEF vars, parserVars
  <2>2. Typed'
    BY <2>1 DEF Inv, Typed
  <2>3. Placed' /\ Attached' /\ ValuesOwned' /\ OnlyAtBottom'
    BY <2>1 DEF Inv, Placed, Attached, ValuesOwned, Remains, OnlyAtBottom, NoStartState
  <2> QED BY <2>2, <2>3 DEF Inv
<1> QED BY <1>1, <1>2, <1>3, <1>4, <1>5 DEF Next

\* The invariant always holds, if the parser never goes back from the first
\* token.
THEOREM Invariance == Spec /\ []Disciplined => []Inv
<1>1. Init => Inv
  BY InitInv
<1>2. Inv /\ Disciplined /\ [Next]_vars => Inv'
  BY NextInv
<1> QED BY <1>1, <1>2, PTL DEF Spec

\* The stack is never left at either end, whatever the table reduces and the
\* error handling flushes, and every number on it is that of a state of the table,
\* or of none where nothing was stored yet.  Only a parser given a nonterminal
\* without start state has EmptyGoto, at the bottom of its stack, and it does not
\* get beyond looking for its first action.
THEOREM TypeCorrect == Spec /\ []Disciplined => []TypeOK
<1>1. Inv => TypeOK
  <2> SUFFICES ASSUME Inv PROVE TypeOK
    OBVIOUS
  <2>1. StreamType(stream)
    BY DEF Inv, Typed, StreamOK, StreamInv
  <2> QED BY <2>1 DEF Inv, Typed, TypeOK, Stacks, Elements, Tokens
<1> QED BY <1>1, Invariance, PTL

\* The parser's marks, releases, backtracks and seeks always find the buffer's
\* list whole, its tokens in place and its markers and cursor inside it.
THEOREM StreamStaysSound == Spec /\ []Disciplined => []StreamSound
<1>1. Inv /\ Disciplined => StreamSound
  BY DEF Inv, Typed, StreamOK, StreamInv, StreamSound
<1> QED BY <1>1, Invariance, PTL

\* The steps on which a parse ends in an error.
LEMMA FailingSteps ==
  ASSUME Inv, Next, pc # "failed", pc' = "failed"
  PROVE  \/ NotReady
         \/ pc \in {"handler", "error", "skip"} /\ \E s : Fail(s)
<1>1. CASE Client
  BY <1>1 DEF Client, SetTokenStream, SetStartingProduction, DoParse
<1>2. CASE Handler
  <2>1. HandlerFails
    BY <1>2 DEF Handler, SetReduceNonterminal, HandlerSucceeds
  <2> QED BY <2>1 DEF HandlerFails
<1>3. CASE Parser
  <2>1. \/ NotReady \/ ReadsOutOfRange \/ StoreTopState \/ Shift \/ Accept
        \/ Reduce \/ RejectReduce \/ FinishReduce \/ SyntaxError
        \/ GiveUp \/ RecoverAtOnce \/ StartSkipping \/ StopSkipping \/ SkipToken
    BY <1>3 DEF Parser
  <2>2. ~ (ReadsOutOfRange \/ StoreTopState \/ Shift \/ Accept)
    BY DEF ReadsOutOfRange, StoreTopState, Shift, Push, Accept
  <2>3. ~ (Reduce \/ RejectReduce \/ FinishReduce \/ SyntaxError \/ StartSkipping)
    BY DEF Reduce, RejectReduce, FinishReduce, SyntaxError, StartSkipping
  <2>4. ~ (RecoverAtOnce \/ SkipToken)
    BY DEF RecoverAtOnce, SkipToken, RecoverAt
  <2>5. GiveUp \/ StopSkipping => pc \in {"error", "skip"} /\ \E s : Fail(s)
    BY DEF GiveUp, StopSkipping
  <2> QED BY <2>1, <2>2, <2>3, <2>4, <2>5
<1>4. CASE ShiftErrors
  BY <1>4 DEF ShiftErrors, ShiftError, Push
<1> QED BY <1>1, <1>2, <1>3, <1>4 DEF Next

\* What is left above the top when a parse ends in an error.
LEMMA FailuresCleanUp == Inv /\ [Next]_vars => [FailureCleansUp]_vars
<1> SUFFICES ASSUME Inv, Next, pc # "failed", pc' = "failed",
                    NEW i \in (StackPosition' + 1) .. (StackSize - 1), stack'[i].Held
             PROVE  pc = "handler" /\ i \in Remains
  BY DEF FailureCleansUp
<1>1. CASE NotReady
  <2>1. pc = "top" /\ stack' = stack /\ StackPosition' = StackPosition
    BY <1>1 DEF NotReady, parserVars
  <2> QED BY <2>1 DEF Inv, ValuesOwned
<1>2. CASE pc \in {"handler", "error", "skip"} /\ \E s : Fail(s)
  <2> DEFINE popped == (0 + 1) .. StackPosition
  <2>1. StackPosition' = 0 /\ stack' = CleanedUp(stack, popped)
    BY <1>2 DEF Fail, FlushStack
  <2>2. stack \in Stacks /\ StackPosition \in Nat /\ StackSize \in Nat
    BY TopFacts DEF Inv, Typed
  <2>3. i \in 0 .. (StackSize - 1) /\ i >= 1
    BY <2>1, <2>2
  <2> HIDE DEF popped
  <2>4. i \notin popped /\ stack[i].Held
    BY <2>1, <2>2, <2>3, CleanedUpFacts
  <2>5. i \in (StackPosition + 1) .. (StackSize - 1)
    BY <2>2, <2>3, <2>4 DEF popped
  <2> QED BY <1>2, <2>4, <2>5 DEF Inv, ValuesOwned
<1> QED BY <1>1, <1>2, FailingSteps

\* Whatever is reduced, flushed or thrown, every value of the user's above the
\* top of the stack has been cleaned up, also when the parse fails; only where
\* the handler fails is the rest of the right hand side forgotten.
THEOREM NoValueForgotten == Spec /\ []Disciplined => NoValueLeaks
<1>1. Inv => ValuesOwned
  BY DEF Inv
<1>2. Inv /\ [Next]_vars => [FailureCleansUp]_vars
  BY FailuresCleanUp
<1> QED BY <1>1, <1>2, Invariance, PTL DEF Spec, NoValueLeaks

----------------------------------------------------------------------------
(***************************************************************************)
(* The parser gives back every marker it sets: NoMarkerLeaks, for every    *)
(* table whose start states record alike.  SetStartingProduction replaces  *)
(* the marker of the initial state without releasing it, so where one      *)
(* start state records and another does not, the old marker stays behind;  *)
(* and so it may where it is given a nonterminal without a start state.    *)
(***************************************************************************)

\* Before parsing, only the bottom of the stack has marked a token, and only
\* where it would mark again.
IdleMarks ==
  pc = "idle" => \A m \in Marked(stream) : /\ stack[0].State \in Starts
                                           /\ m = MarkerFor(stream, stack[0].State)

MarkInv == MarkersHaveOwners /\ IdleMarks

\* A step takes owned markers to owned markers, if those of the elements that
\* leave the stack go and every new one has an owner.
LEMMA OwnersFollow ==
  ASSUME Inv, MarkInv, pc' # "idle", NEW sp \in 0 .. StackPosition, StackPosition' \in Nat,
         sp <= StackPosition',
         \A i \in 0 .. sp : stack'[i].TerminalMarker = stack[i].TerminalMarker,
         ErrorMarker \in Marked(stream') => ErrorMarker' = ErrorMarker,
         \A m \in Marked(stream') :
           \/ m \in Marked(stream) /\ m \notin {stack[i].TerminalMarker : i \in (sp + 1) .. StackPosition}
           \/ m = ErrorMarker'
           \/ \E i \in 0 .. StackPosition' : stack'[i].TerminalMarker = m
  PROVE  MarkInv'
<1> SUFFICES ASSUME NEW m \in Marked(stream')
             PROVE  m = ErrorMarker' \/ \E i \in 0 .. StackPosition' : stack'[i].TerminalMarker = m
  BY DEF MarkInv, MarkersHaveOwners, IdleMarks
<1>1. StackPosition \in Nat
  BY TopFacts
<1>2. CASE /\ m \in Marked(stream)
           /\ m \notin {stack[i].TerminalMarker : i \in (sp + 1) .. StackPosition}
  <2>1. m = ErrorMarker \/ \E i \in 0 .. StackPosition : stack[i].TerminalMarker = m
    BY <1>2 DEF MarkInv, MarkersHaveOwners
  <2>2. CASE m = ErrorMarker
    BY <2>2
  <2>3. CASE \E i \in 0 .. StackPosition : stack[i].TerminalMarker = m
    <3>1. PICK i \in 0 .. StackPosition : stack[i].TerminalMarker = m
      BY <2>3
    <3>2. i \notin (sp + 1) .. StackPosition
      BY <1>2, <3>1
    <3>3. i \in 0 .. sp
      BY <1>1, <3>1, <3>2
    <3>4. stack'[i].TerminalMarker = m
      BY <3>1, <3>3
    <3> DEFINE top == StackPosition'
    <3>5. top \in Nat /\ sp <= top
      OBVIOUS
    <3> HIDE DEF top
    <3>6. i \in 0 .. top
      BY <1>1, <3>3, <3>5
    <3> QED BY <3>4, <3>6 DEF top
  <2> QED BY <2>1, <2>2, <2>3
<1> QED BY <1>2

\* Steps that leave the top where it is and add no marker.
LEMMA OwnersStay ==
  ASSUME Inv, MarkInv, pc' # "idle", StackPosition' = StackPosition, ErrorMarker' = ErrorMarker,
         \A i \in 0 .. StackPosition : stack'[i].TerminalMarker = stack[i].TerminalMarker,
         Marked(stream') \subseteq Marked(stream)
  PROVE  MarkInv'
<1>1. StackPosition \in Nat
  BY TopFacts
<1>2. (StackPosition + 1) .. StackPosition = {} /\ StackPosition \in 0 .. StackPosition
  BY <1>1
<1>3. \A m \in Marked(stream') : m \in Marked(stream)
        /\ m \notin {stack[i].TerminalMarker : i \in (StackPosition + 1) .. StackPosition}
  BY <1>2
<1> QED BY <1>1, <1>2, <1>3, OwnersFollow

(***************************************************************************)
(* The steps                                                               *)
(***************************************************************************)

\* A parser that has not been used has no marker.
LEMMA InitMarks == Init => MarkInv
BY DEF Init, NewStream, NoMarkers, Marked, MarkInv, MarkersHaveOwners, IdleMarks

\* The first source: at most the initial state marks the first token.
LEMMA SetTokenStreamMarks ==
  ASSUME Inv, NEW src \in Sources \union {NullSource}, stream.source = NullSource,
         pc = "idle", SetTokenStream(src)
  PROVE  MarkInv'
<1> DEFINE flushed == ReleaseFrom(stream, StackPosition, StackPosition)
           reset   == ResetStream(flushed, src)
           state   == IF src = NullSource THEN InvalidState ELSE InitialState
           popped  == 1 .. StackPosition
           clean   == CleanedUp(stack, popped)
           marker  == IF src = NullSource THEN clean[0].TerminalMarker ELSE MarkerFor(reset, state)
<1>1. StreamOK(flushed) /\ flushed.source = NullSource
  <2>1. StreamOK(stream) /\ StackPosition \in Nat
    BY TopFacts DEF Inv, Typed
  <2> HIDE DEF flushed
  <2>2. PICK t : t = flushed
    OBVIOUS
  <2>3. t = ReleaseFrom(stream, StackPosition, StackPosition)
    BY <2>2 DEF flushed
  <2>4. StreamOK(t) /\ t.source = stream.source
    BY <2>1, <2>3, ReleaseFromOK
  <2> QED BY <2>2, <2>4
<1>2. StreamOK(reset) /\ Marked(reset) = {}
  <2> HIDE DEF flushed
  <2> QED BY <1>1, FirstSourceOK
<1>3. /\ stream' = Recording(reset, state) /\ StackPosition' = 0
      /\ stack' = Placing(clean, 0, state, marker)
  BY DEF SetTokenStream, Placing
<1>4. clean \in Stacks
  <2>1. stack \in Stacks
    BY DEF Inv, Typed
  <2> HIDE DEF popped
  <2> QED BY <2>1, CleanedUpFacts
<1> HIDE DEF reset, clean
<1>5. /\ MarkerFor(reset, state) \in 0 .. MaxSize
      /\ StreamOK(stream') /\ MarkerFor(stream', state) = MarkerFor(reset, state)
      /\ Marked(stream') \subseteq {MarkerFor(reset, state)}
  BY <1>2, <1>3, RecordingOK
<1>6. /\ 0 \in 0 .. (StackSize - 1) /\ state \in StackStates
      /\ marker \in 0 .. MaxSize
  BY <1>4, <1>5, StackAssumption, TableAssumption DEF Stacks, Elements, StackStates
<1>7. CASE src = NullSource
  <2>1. MarkerFor(reset, state) = InvalidIndex
    BY <1>7, TableAssumption DEF MarkerFor
  <2>2. Marked(stream') = {}
    BY <1>5, <2>1, IndexFacts
  <2> QED BY <2>2 DEF MarkInv, MarkersHaveOwners, IdleMarks
<1>8. CASE src # NullSource
  <2>1. state = InitialState /\ marker = MarkerFor(reset, state)
    BY <1>8
  <2> HIDE DEF state, marker
  <2>2. stack'[0].State = state /\ stack'[0].TerminalMarker = marker
    BY <1>3, <1>4, <1>6, WrittenStateAndMarker
  <2>3. 0 \in 0 .. StackPosition'
    BY <1>3
  <2>4. MarkersHaveOwners'
    BY <1>5, <2>1, <2>2, <2>3 DEF MarkersHaveOwners
  <2>5. IdleMarks'
    BY <1>5, <2>1, <2>2 DEF IdleMarks, Starts
  <2> QED BY <2>4, <2>5 DEF MarkInv
<1> QED BY <1>7, <1>8

\* Another start state marks where the initial one did, or neither marks.
LEMMA SetStartingProductionMarks ==
  ASSUME Inv, MarkInv, StartsRecordAlike, ~ NoStartState',
         NEW left \in NonTerminals, SetStartingProduction(left)
  PROVE  MarkInv'
<1> DEFINE state  == StartStates[left]
           marker == MarkerFor(stream, state)
<1>1. state \in States /\ state \in Starts
  <2>1. TopState' # EmptyGoto
    BY DEF NoStartState
  <2> QED BY <2>1, StartChosen
<1>2. /\ pc = "idle" /\ StackPosition' = 0
      /\ stack' = Placing(stack, 0, state, marker)
      /\ stream' = Recording(stream, state)
  <2>1. pc = "idle" /\ StackPosition' = 0
    BY DEF SetStartingProduction
  <2> QED BY <1>1, <2>1, StartChosen DEF MarkerFor, Recording
<1>3. stack \in Stacks /\ StreamOK(stream) /\ 0 \in 0 .. (StackSize - 1)
  BY StackAssumption DEF Inv, Typed
<1> HIDE DEF state
<1>4. /\ marker \in 0 .. MaxSize /\ MarkerFor(stream', state) = marker
      /\ Marked(stream') \subseteq Marked(stream) \union {marker}
      /\ StreamOK(stream')
  BY <1>2, <1>3, RecordingOK
<1>5. \A m \in Marked(stream') : m = marker
  <2> SUFFICES ASSUME NEW m \in Marked(stream'), m \in Marked(stream)
               PROVE  m = marker
    BY <1>4
  <2>1. stack[0].State \in Starts /\ m = MarkerFor(stream, stack[0].State)
    BY <1>2 DEF MarkInv, IdleMarks
  <2>2. stack[0].State \in RecordStates
    BY <1>3, <2>1, IndexFacts DEF MarkerFor
  <2>3. state \in RecordStates
    BY <1>1, <2>1, <2>2, TableAssumption DEF StartsRecordAlike
  <2> QED BY <2>1, <2>2, <2>3 DEF MarkerFor
<1> HIDE DEF marker
<1>6. stack'[0].State = state /\ stack'[0].TerminalMarker = marker
  BY <1>2, <1>1, <1>3, <1>4, WrittenStateAndMarker DEF StackStates
<1>7. 0 \in 0 .. StackPosition'
  BY <1>2
<1> QED BY <1>1, <1>4, <1>5, <1>6, <1>7 DEF MarkInv, MarkersHaveOwners, IdleMarks

\* Steps that set and release no marker.
LEMMA ControlMarks ==
  ASSUME Inv, MarkInv, DoParse \/ NotReady \/ ReadsOutOfRange \/ Accept \/ SyntaxError
                       \/ HandlerSucceeds \/ \E left \in NonTerminals : SetReduceNonterminal(left)
  PROVE  MarkInv'
<1>1. /\ pc' # "idle" /\ UNCHANGED <<stream, StackPosition, ErrorMarker>>
      /\ \/ stack' = stack
         \/ stack' = Written(stack, StackPosition, [stack[StackPosition] EXCEPT !.Held = TRUE])
  BY DEF DoParse, NotReady, ReadsOutOfRange, Accept, SyntaxError, HandlerSucceeds,
         SetReduceNonterminal, parserVars, Written
<1> DEFINE e == [stack[StackPosition] EXCEPT !.Held = TRUE]
<1>2. /\ stack \in Stacks /\ StackPosition \in 0 .. (StackSize - 1)
      /\ stack[StackPosition] \in Elements
  BY DEF Inv, Typed, Stacks
<1>3. e \in Elements /\ e.TerminalMarker = stack[StackPosition].TerminalMarker
  BY <1>2, ElementFields
<1>4. stack' = stack \/ stack' = Written(stack, StackPosition, e)
  BY <1>1
<1> HIDE DEF e
<1>5. \A i \in 0 .. (StackSize - 1) : stack'[i].TerminalMarker = stack[i].TerminalMarker
  <2>1. CASE stack' = stack
    BY <2>1
  <2>2. CASE stack' = Written(stack, StackPosition, e)
    <3>1. /\ stack'[StackPosition] = e
          /\ \A i \in 0 .. (StackSize - 1) : i # StackPosition => stack'[i] = stack[i]
      BY <1>2, <1>3, <2>2, WrittenElement
    <3> QED BY <1>3, <3>1
  <2> QED BY <1>4, <2>1, <2>2
<1>6. \A i \in 0 .. StackPosition : i \in 0 .. (StackSize - 1)
  BY <1>2, TopFacts
<1> QED BY <1>1, <1>5, <1>6, OwnersStay

\* The state of the top is stored, and a token read.
LEMMA StoreTopStateMarks ==
  ASSUME Inv, MarkInv, StoreTopState
  PROVE  MarkInv'
<1> DEFINE e == [stack[StackPosition] EXCEPT !.State = TopState]
<1>1. /\ pc = "top" /\ TopState # InvalidState /\ pc' = "act"
      /\ StackPosition' = StackPosition /\ ErrorMarker' = ErrorMarker
      /\ stack' = Written(stack, StackPosition, e)
      /\ stream' = IF NextTokenFlag THEN AfterNextToken(stream) ELSE stream
  BY DEF StoreTopState, Written
<1>2. /\ stack \in Stacks /\ StackPosition \in 0 .. (StackSize - 1)
      /\ stack[StackPosition] \in Elements /\ StreamOK(stream) /\ TopState \in StackStates
  BY <1>1 DEF Inv, Typed, Stacks
<1>3. e \in Elements /\ e.TerminalMarker = stack[StackPosition].TerminalMarker
  BY <1>2, ElementFields
<1> HIDE DEF e
<1>4. /\ stack'[StackPosition] = e
      /\ \A i \in 0 .. (StackSize - 1) : i # StackPosition => stack'[i] = stack[i]
  BY <1>1, <1>2, <1>3, WrittenElement
<1>5. \A i \in 0 .. StackPosition : stack'[i].TerminalMarker = stack[i].TerminalMarker
  <2>1. \A i \in 0 .. StackPosition : i \in 0 .. (StackSize - 1)
    BY <1>2, TopFacts
  <2> QED BY <1>3, <1>4, <2>1
<1>6. Marked(stream') = Marked(stream)
  BY <1>1, <1>2, ReadOK DEF SameTokens
<1> QED BY <1>1, <1>5, <1>6, OwnersStay

\* The new top owns the marker set for it.
LEMMA PushMarks ==
  ASSUME Inv, MarkInv, NEW s, StreamOK(s), SameTokens(stream, s), stream.source # NullSource,
         pc = "act", NEW state \in States, Push(s, state)
  PROVE  MarkInv'
<1> DEFINE p == StackPosition + 1
           e == [State |-> state, TerminalMarker |-> MarkerFor(s, state), Held |-> TRUE]
           recording == Recording(s, state)
<1>1. /\ p < StackSize /\ StackPosition' = p /\ pc' # "idle" /\ ErrorMarker' = ErrorMarker
      /\ stack' = Written(stack, p, e)
      /\ stream' = AfterNextToken(recording)
  BY DEF Push, Written
<1>2. /\ StreamOK(recording) /\ recording.source = s.source
      /\ MarkerFor(s, state) \in 0 .. MaxSize
      /\ Marked(recording) \subseteq Marked(stream) \union {MarkerFor(s, state)}
  BY RecordingOK DEF SameTokens
<1>3. e \in Elements /\ e.TerminalMarker = MarkerFor(s, state)
  BY <1>2 DEF Elements, StackStates
<1> HIDE DEF e, recording
<1>4. Marked(stream') = Marked(recording)
  BY <1>1, <1>2, ReadOK DEF SameTokens
<1>5. stack \in Stacks /\ p \in 0 .. (StackSize - 1) /\ StackPosition \in Nat
  BY <1>1, TopFacts DEF Inv, Typed
<1>6. /\ stack'[p] = e
      /\ \A i \in 0 .. (StackSize - 1) : i # p => stack'[i] = stack[i]
  BY <1>1, <1>3, <1>5, WrittenElement
<1>7. \A i \in 0 .. StackPosition : stack'[i].TerminalMarker = stack[i].TerminalMarker
  <2>1. \A i \in 0 .. StackPosition : i \in 0 .. (StackSize - 1) /\ i # p
    BY <1>5, TopFacts
  <2> QED BY <1>6, <2>1
<1>8. p \in 0 .. StackPosition' /\ p \in Nat
  BY <1>1, <1>5
<1>9. ASSUME NEW m \in Marked(stream')
      PROVE  \/ m \in Marked(stream)
             \/ \E i \in 0 .. StackPosition' : stack'[i].TerminalMarker = m
  <2>1. CASE m \in Marked(stream)
    BY <2>1
  <2>2. CASE m = MarkerFor(s, state)
    <3>1. stack'[p].TerminalMarker = m
      BY <1>3, <1>6, <2>2
    <3> QED BY <1>8, <3>1
  <2> QED BY <1>2, <1>4, <2>1, <2>2
<1>10. (StackPosition + 1) .. StackPosition = {} /\ StackPosition \in 0 .. StackPosition
  BY <1>5
<1>11. StackPosition <= StackPosition' /\ StackPosition' \in Nat
  BY <1>1, <1>5
<1> QED BY <1>1, <1>7, <1>9, <1>10, <1>11, OwnersFollow

\* A token or an error shifted.
LEMMA ShiftMarks ==
  ASSUME Inv, MarkInv, Shift \/ \E n \in Nat : ShiftError(n)
  PROVE  MarkInv'
<1>1. pc = "act" /\ Action.kind = "shift" /\ StreamOK(stream)
  BY DEF Shift, ShiftError, Inv, Typed
<1>2. Action.arg \in States /\ stream.source # NullSource
  BY <1>1, TopFacts DEF Inv, Attached
<1>3. CASE Shift
  BY <1>1, <1>2, <1>3, PushMarks DEF Shift, SameTokens
<1>4. CASE \E n \in Nat : ShiftError(n)
  <2>1. PICK n \in Nat : ShiftError(n)
    BY <1>4
  <2> DEFINE aside == AfterErrorData(n, Action.arg)
  <2>2. Push(aside, Action.arg)
    BY <2>1 DEF ShiftError
  <2>3. StreamOK(aside) /\ SameTokens(stream, aside)
    BY <1>1, AfterErrorDataOK
  <2> HIDE DEF aside
  <2> QED BY <1>1, <1>2, <2>2, <2>3, PushMarks
<1> QED BY <1>3, <1>4

\* What the elements of a right hand side marked is released with them; an
\* empty one leaves the mark to its left hand side.
LEMMA ReduceMarks ==
  ASSUME Inv, MarkInv, Reduce
  PROVE  MarkInv'
<1> DEFINE len == ReducedProd.Length
           p   == ReducedPosition
           marker == MarkerFor(stream, ReducedState)
           e   == [stack[p] EXCEPT !.TerminalMarker = marker]
           sp  == p - 1
<1>1. /\ pc = "act" /\ Action.kind = "reduce" /\ p < StackSize /\ StackPosition' = p
      /\ pc' # "idle" /\ ErrorMarker' = ErrorMarker
      /\ len = 0 => /\ stream' = Recording(stream, ReducedState)
                    /\ stack' = Written(stack, p, e)
      /\ len # 0 => /\ stream' = ReleaseFrom(stream, StackPosition, len)
                    /\ stack' = stack
  BY DEF Reduce, Written, MarkersReleased
<1>2. /\ len \in Nat /\ len <= StackPosition
      /\ StackPosition \in Nat /\ StackPosition < StackSize /\ StackSize \in Nat
  BY <1>1, TopFacts
<1>3. /\ p = StackPosition + 1 - len /\ p \in 0 .. (StackSize - 1) /\ p \in Nat
      /\ sp \in 0 .. StackPosition /\ sp <= p
      /\ \A i \in 0 .. sp : i \in 0 .. (StackSize - 1) /\ i # p
  BY <1>1, <1>2 DEF ReducedPosition
<1>4. StreamOK(stream) /\ stack \in Stacks /\ stack[p] \in Elements
  BY <1>3 DEF Inv, Typed, Stacks
<1>5. marker \in 0 .. MaxSize
  BY <1>4, RecordingOK
<1>6. e \in Elements /\ e.TerminalMarker = marker
  BY <1>4, <1>5, ElementFields
<1> HIDE DEF e, p, len
<1>7. CASE len = 0
  <2>1. /\ stack' \in Stacks /\ stack'[p] = e
        /\ \A i \in 0 .. (StackSize - 1) : i # p => stack'[i] = stack[i]
    BY <1>1, <1>3, <1>4, <1>6, <1>7, WrittenElement
  <2>2. stream' = Recording(stream, ReducedState)
    BY <1>1, <1>7
  <2>3. Marked(stream') \subseteq Marked(stream) \union {marker}
    BY <1>4, <2>2, RecordingOK
  <2> HIDE DEF marker
  <2>4. (sp + 1) .. StackPosition = {}
    BY <1>2, <1>3, <1>7
  <2>5. stack'[p].TerminalMarker = marker /\ p \in 0 .. StackPosition'
    BY <1>1, <1>3, <1>6, <2>1
  <2>6. \A i \in 0 .. sp : stack'[i].TerminalMarker = stack[i].TerminalMarker
    BY <1>3, <2>1
  <2> HIDE DEF sp
  <2> QED BY <1>1, <1>3, <2>3, <2>4, <2>5, <2>6, OwnersFollow
<1>8. CASE len # 0
  <2>1. stream' = ReleaseFrom(stream, StackPosition, len)
    BY <1>1, <1>8
  <2>2. Marked(stream') = Marked(stream)
                            \ {stack[i].TerminalMarker : i \in (StackPosition - len + 1) .. StackPosition}
    BY <1>2, <1>4, <2>1, ReleaseFromOK
  <2>3. StackPosition - len + 1 = p /\ sp + 1 = p
    BY <1>2, <1>3
  <2>4. \A i \in 0 .. sp : stack'[i].TerminalMarker = stack[i].TerminalMarker
    BY <1>1, <1>8
  <2> HIDE DEF sp
  <2> QED BY <1>1, <1>3, <2>2, <2>3, <2>4, OwnersFollow
<1> QED BY <1>7, <1>8

\* A reduction that leads nowhere releases the marks of its right hand side.
LEMMA RejectReduceMarks ==
  ASSUME Inv, MarkInv, Disciplined, RejectReduce
  PROVE  MarkInv'
<1> DEFINE len == ReducedProd.Length
           p   == ReducedPosition
           sp  == p - 1
           popped == p .. (p + len)
           released == MarkersReleased
<1>1. /\ pc = "act" /\ pc' = "act" /\ Action.kind = "reduce" /\ ReducedState = InvalidState
      /\ stack' = CleanedUp(stack, popped) /\ StackPosition' = sp
      /\ ErrorMarker' = ErrorMarker /\ stream' = SeekBack(released, 1)
  BY DEF RejectReduce
<1>2. /\ len \in Nat /\ len <= StackPosition
      /\ StackPosition \in Nat /\ StackPosition < StackSize /\ StackSize \in Nat
  BY <1>1, TopFacts
<1>3. /\ StackPosition - len + 1 = sp + 1 /\ sp \in 0 .. StackPosition /\ sp \in Nat /\ sp <= sp
      /\ \A i \in 0 .. sp : i \in 0 .. (StackSize - 1)
  BY <1>1, <1>2 DEF ReducedPosition
<1>4. StreamOK(stream) /\ stack \in Stacks
  BY DEF Inv, Typed
<1>5. GetTokenIndex(stream) > 0
  BY <1>1 DEF Disciplined, GoesBack
<1>6. /\ StreamOK(released) /\ GetTokenIndex(released) = GetTokenIndex(stream)
      /\ Marked(released) = Marked(stream)
           \ {stack[i].TerminalMarker : i \in (StackPosition - len + 1) .. StackPosition}
  <2>1. released = ReleaseFrom(stream, StackPosition, len)
    BY DEF MarkersReleased
  <2> HIDE DEF released, len
  <2> QED BY <1>2, <1>4, <2>1, ReleaseFromOK
<1> HIDE DEF released, sp, len, popped
<1>7. Marked(stream') = Marked(released)
  BY <1>1, <1>5, <1>6, SeekBackOK DEF SameTokens
<1>8. stack' = CleanedUp(stack, popped) /\ stack \in Stacks
  BY <1>1, <1>4
<1>9. \A i \in 0 .. (StackSize - 1) : stack'[i].TerminalMarker = stack[i].TerminalMarker
  BY <1>8, CleanedUpFacts
<1>10. \A i \in 0 .. sp : stack'[i].TerminalMarker = stack[i].TerminalMarker
  BY <1>3, <1>9
<1> QED BY <1>1, <1>3, <1>6, <1>7, <1>10, OwnersFollow

\* The right hand side is cleaned up.
LEMMA FinishReduceMarks ==
  ASSUME Inv, MarkInv, FinishReduce
  PROVE  MarkInv'
<1> DEFINE popped == (StackPosition + 1) .. (StackPosition + ReduceProductions[reducing].Length)
<1>1. /\ pc' # "idle" /\ stack' = CleanedUp(stack, popped)
      /\ UNCHANGED <<stream, StackPosition, ErrorMarker>>
  BY DEF FinishReduce
<1>2. stack \in Stacks /\ stack' = CleanedUp(stack, popped)
  BY <1>1 DEF Inv, Typed
<1> HIDE DEF popped
<1>3. \A i \in 0 .. (StackSize - 1) : stack'[i].TerminalMarker = stack[i].TerminalMarker
  BY <1>2, CleanedUpFacts
<1>4. \A i \in 0 .. StackPosition : i \in 0 .. (StackSize - 1)
  BY TopFacts
<1> QED BY <1>1, <1>3, <1>4, OwnersStay

\* After MarkError or no change, the marks of a stream s follow the error
\* marker.
ErrorMarked(s) ==
  /\ StreamOK(s)
  /\ Marked(s) \subseteq Marked(stream) \union {ErrorMarker'}
  /\ ErrorMarker \in Marked(s) => ErrorMarker' = ErrorMarker

\* Flushing the stack to sp takes the marks of what is above with it.
LEMMA FlushMarks ==
  ASSUME Inv, MarkInv, NEW s, ErrorMarked(s), NEW sp \in 0 .. StackPosition, pc' # "idle",
         StackPosition' = sp, NEW popped, stack' = CleanedUp(stack, popped),
         NEW n \in Nat, StackPosition - n = sp, NEW t, t = ReleaseFrom(s, StackPosition, n),
         Marked(stream') = Marked(t)
  PROVE  MarkInv'
<1>1. /\ StackPosition \in Nat /\ StackPosition - n + 1 = sp + 1
      /\ sp \in Nat /\ sp <= sp /\ \A i \in 0 .. sp : i \in 0 .. (StackSize - 1)
  BY TopFacts
<1>2. stack \in Stacks /\ StreamOK(s)
  BY DEF Inv, Typed, ErrorMarked
<1>3. Marked(t) = Marked(s) \ {stack[i].TerminalMarker : i \in (sp + 1) .. StackPosition}
  <2>1. Marked(t) = Marked(s)
          \ {stack[i].TerminalMarker : i \in (StackPosition - n + 1) .. StackPosition}
    BY <1>1, <1>2, ReleaseFromOK
  <2> QED BY <1>1, <2>1
<1>4. \A i \in 0 .. (StackSize - 1) : stack'[i].TerminalMarker = stack[i].TerminalMarker
  BY <1>2, CleanedUpFacts
<1>5. \A i \in 0 .. sp : stack'[i].TerminalMarker = stack[i].TerminalMarker
  BY <1>1, <1>4
<1> QED BY <1>1, <1>3, <1>5, OwnersFollow DEF ErrorMarked

\* Marking an error, or not.
LEMMA ErrorIsMarked ==
  ASSUME Inv
  PROVE  /\ ErrorMarker' = MarkedIndex => ErrorMarked(MarkError)
         /\ ErrorMarker' = ErrorMarker => ErrorMarked(stream)
BY MarkErrorOK DEF Inv, Typed, ErrorMarked

\* A parse that ends in an error flushes the whole stack.
LEMMA FailMarks ==
  ASSUME Inv, MarkInv, NEW s, ErrorMarked(s), Fail(s)
  PROVE  MarkInv'
<1> DEFINE n == StackPosition - 0
           popped == (0 + 1) .. StackPosition
           t == ReleaseFrom(s, StackPosition, n)
<1>1. /\ pc' # "idle" /\ StackPosition' = 0 /\ stack' = CleanedUp(stack, popped)
      /\ stream' = t
  BY DEF Fail, FlushStack
<1>2. n \in Nat /\ StackPosition - n = 0 /\ 0 \in 0 .. StackPosition
  BY TopFacts
<1> HIDE DEF n, popped
<1>3. t = ReleaseFrom(s, StackPosition, n)
  OBVIOUS
<1> HIDE DEF t
<1> QED BY <1>1, <1>2, <1>3, FlushMarks

\* An error presented at a position of the stack.
LEMMA RecoverAtMarks ==
  ASSUME Inv, MarkInv, NEW s, ErrorMarked(s), GetTokenIndex(s) > 0,
         NEW sp \in 0 .. StackPosition, RecoverAt(s, sp)
  PROVE  MarkInv'
<1> DEFINE n == StackPosition - sp
           popped == (sp + 1) .. StackPosition
           t == ReleaseFrom(s, StackPosition, n)
<1>1. pc' # "idle" /\ StreamOK(s)
  BY DEF RecoverAt, ErrorMarked
<1>2. /\ ReducesOnError =>
           UNCHANGED <<stack, StackPosition>> /\ stream' = SeekBack(s, 1)
      /\ ~ ReducesOnError =>
           /\ stack' = CleanedUp(stack, popped) /\ StackPosition' = sp
           /\ stream' = SeekBack(t, 1)
  BY DEF RecoverAt
<1>3. n \in Nat /\ StackPosition - n = sp /\ StackPosition \in Nat
  BY TopFacts
<1> HIDE DEF n, popped
<1>4. t = ReleaseFrom(s, StackPosition, n)
  OBVIOUS
<1> HIDE DEF t
<1>5. CASE ReducesOnError
  <2>1. Marked(stream') = Marked(s)
    BY <1>1, <1>2, <1>5, SeekBackOK DEF SameTokens
  <2>2. (StackPosition + 1) .. StackPosition = {} /\ StackPosition \in 0 .. StackPosition
        /\ StackPosition <= StackPosition
    BY <1>3
  <2> QED BY <1>1, <1>2, <1>3, <1>5, <2>1, <2>2, OwnersFollow DEF ErrorMarked
<1>6. CASE ~ ReducesOnError
  <2>1. StreamOK(t) /\ GetTokenIndex(t) = GetTokenIndex(s)
    BY <1>1, <1>3, <1>4, ReleaseFromOK
  <2>2. Marked(stream') = Marked(t)
    BY <1>2, <1>6, <2>1, SeekBackOK DEF SameTokens
  <2>3. stack' = CleanedUp(stack, popped) /\ StackPosition' = sp
    BY <1>2, <1>6
  <2> QED BY <1>1, <1>3, <1>4, <2>2, <2>3, FlushMarks
<1> QED BY <1>5, <1>6

\* The error handling that starts with MarkError.
LEMMA ErrorMarks ==
  ASSUME Inv, MarkInv, Disciplined, GiveUp \/ RecoverAtOnce \/ StartSkipping
  PROVE  MarkInv'
<1> DEFINE marked == MarkError
<1>1. ErrorMarked(marked) /\ GetTokenIndex(marked) = GetTokenIndex(stream)
  BY ErrorIsMarked, MarkErrorOK DEF GiveUp, RecoverAtOnce, StartSkipping, Inv, Typed
<1>2. CASE GiveUp
  <2>1. Fail(marked)
    BY <1>2 DEF GiveUp
  <2> HIDE DEF marked
  <2> QED BY <1>1, <2>1, FailMarks
<1>3. CASE RecoverAtOnce
  <2> DEFINE sp == Topmost(RecoveringPositions)
  <2>1. pc = "error" /\ RecoveringPositions # {} /\ RecoverAt(marked, sp)
    BY <1>3 DEF RecoverAtOnce
  <2>2. sp \in 0 .. StackPosition
    <3>1. RecoveringPositions \subseteq 0 .. StackPosition /\ StackPosition \in Nat
      BY TopFacts DEF RecoveringPositions, ErrorPositions
    <3>2. sp \in RecoveringPositions
      BY <2>1, <3>1, TopmostFacts
    <3> QED BY <3>1, <3>2
  <2>3. GetTokenIndex(marked) > 0
    BY <1>1, <2>1 DEF Disciplined, GoesBack
  <2> HIDE DEF marked, sp
  <2> QED BY <1>1, <2>1, <2>2, <2>3, RecoverAtMarks
<1>4. CASE StartSkipping
  <2>1. stream' = marked /\ UNCHANGED <<stack, StackPosition>> /\ pc' # "idle"
    BY <1>4 DEF StartSkipping
  <2> HIDE DEF marked
  <2>2. StackPosition \in Nat
    BY TopFacts
  <2>3. (StackPosition + 1) .. StackPosition = {} /\ StackPosition \in 0 .. StackPosition
        /\ StackPosition <= StackPosition
    BY <2>2
  <2> QED BY <1>1, <2>1, <2>2, <2>3, OwnersFollow DEF ErrorMarked
<1> QED BY <1>2, <1>3, <1>4

\* The handler fails, or skipping would not help.
LEMMA StopMarks ==
  ASSUME Inv, MarkInv, HandlerFails \/ StopSkipping
  PROVE  MarkInv'
<1>1. Fail(stream) /\ ErrorMarked(stream)
  BY ErrorIsMarked DEF HandlerFails, StopSkipping
<1> QED BY <1>1, FailMarks

\* A token skipped, after which the error may be presented.
LEMMA SkipTokenMarks ==
  ASSUME Inv, MarkInv, SkipToken
  PROVE  MarkInv'
<1> DEFINE read == AfterNextToken(stream)
           positions == ValidPositions(skipped'.Code)
           sp == Topmost(positions)
<1>1. /\ pc = "skip" /\ ErrorMarker' = ErrorMarker
      /\ positions = {} => stream' = read /\ UNCHANGED <<stack, StackPosition, pc>>
      /\ positions # {} => RecoverAt(read, sp)
  BY DEF SkipToken
<1>2. /\ StreamOK(read) /\ GetTokenIndex(read) > 0 /\ Marked(read) = Marked(stream)
  BY <1>1, ReadOK DEF SameTokens, Inv, Typed, Attached
<1>3. positions \subseteq 0 .. StackPosition /\ StackPosition \in Nat
  BY TopFacts DEF ValidPositions, ErrorPositions
<1> HIDE DEF read, positions
<1>4. ErrorMarked(read)
  BY <1>1, <1>2 DEF ErrorMarked
<1>5. CASE positions = {}
  BY <1>1, <1>2, <1>5, OwnersStay
<1>6. CASE positions # {}
  <2>1. sp \in 0 .. StackPosition
    BY <1>3, <1>6, TopmostFacts
  <2> HIDE DEF sp
  <2> QED BY <1>1, <1>2, <1>4, <1>6, <2>1, RecoverAtMarks
<1> QED BY <1>5, <1>6

(***************************************************************************)
(* The theorem                                                             *)
(***************************************************************************)

\* Every step keeps the markers owned.
LEMMA NextMarks ==
  StartsRecordAlike =>
    (Inv /\ MarkInv /\ Disciplined /\ ~ NoStartState' /\ [Next]_vars => MarkInv')
<1> SUFFICES ASSUME StartsRecordAlike, Inv, MarkInv, Disciplined, ~ NoStartState', [Next]_vars
             PROVE  MarkInv'
  OBVIOUS
<1>1. CASE Client
  BY <1>1, SetTokenStreamMarks, SetStartingProductionMarks, ControlMarks DEF Client
<1>2. CASE Handler
  <2>1. Lefts[reducing] \subseteq NonTerminals
    BY TableAssumption DEF Inv, Typed
  <2> QED BY <1>2, <2>1, ControlMarks, StopMarks DEF Handler
<1>3. CASE Parser
  <2>1. CASE NotReady \/ ReadsOutOfRange \/ StoreTopState \/ Shift \/ Accept
    BY <2>1, ControlMarks, StoreTopStateMarks, ShiftMarks
  <2>2. CASE Reduce \/ RejectReduce \/ FinishReduce
    BY <2>2, ReduceMarks, RejectReduceMarks, FinishReduceMarks
  <2>3. CASE SyntaxError \/ GiveUp \/ RecoverAtOnce
    BY <2>3, ControlMarks, ErrorMarks
  <2>4. CASE StartSkipping \/ StopSkipping \/ SkipToken
    BY <2>4, ErrorMarks, StopMarks, SkipTokenMarks
  <2> QED BY <1>3, <2>1, <2>2, <2>3, <2>4 DEF Parser
<1>4. CASE ShiftErrors
  BY <1>4, ShiftMarks DEF ShiftErrors
<1>5. CASE UNCHANGED vars
  BY <1>5 DEF vars, parserVars, MarkInv, MarkersHaveOwners, IdleMarks, MarkerFor
<1> QED BY <1>1, <1>2, <1>3, <1>4, <1>5 DEF Next

\* No marker outlives what it was set for, whatever is shifted, reduced,
\* flushed or presented as an error: each belongs to an element of the stack or
\* to the error being handled.  SetStartingProduction keeps it so only where
\* the start states record alike, and for nonterminals that have one.
THEOREM MarkersOwned ==
  ASSUME StartsRecordAlike
  PROVE  Spec /\ []Disciplined => NoMarkerLeaks
<1>1. Init => MarkInv
  BY InitMarks
<1>2. Inv /\ MarkInv /\ Disciplined /\ ~ NoStartState' /\ [Next]_vars => MarkInv'
  BY NextMarks
<1>3. MarkInv => MarkersHaveOwners
  BY DEF MarkInv
<1> QED BY <1>1, <1>2, <1>3, Invariance, PTL DEF Spec, NoMarkerLeaks
=============================================================================
