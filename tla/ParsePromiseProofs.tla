------------------------- MODULE ParsePromiseProofs -------------------------
(***************************************************************************)
(* A proof that the parser implements ShiftReduce: for every table of a    *)
(* grammar, every stack and block size and every input.                    *)
(*                                                                         *)
(* What is taken of the table is TableOfGrammar, which TLC evaluates for   *)
(* the tables of the runs, and that no state backtracks: those would have  *)
(* tokens read twice, and no generated table has any.  The stream has to   *)
(* remember a token, as the parser's does.                                 *)
(***************************************************************************)
EXTENDS ParseProofs, SequenceTheorems

Suitable == TableOfGrammar /\ BacktrackStates = {} /\ RememberLength > 0

(***************************************************************************)
(* The cursor                                                              *)
(***************************************************************************)

\* An error stands for the token after the cursor of s.
PresentedIn(s, previous) == previous # InvalidIndex /\ GetTokenIndex(s) < previous

\* The cursor is after the last token read, or one before it for an error.
PlacedIn(s, previous) ==
  IF PresentedIn(s, previous) THEN previous = s.Pos /\ GetTokenIndex(s) + 1 = s.Pos
                              ELSE GetTokenIndex(s) = s.Pos

\* How many tokens are behind the one looked at.
Behind(s) == IF s.Pos = 0 THEN 0 ELSE s.Pos - 1

TokenAt(src, i) == Code(SourceToken(src, i))

\* What the numbers of a stream are.
LEMMA PlaceFacts ==
  ASSUME NEW s, StreamOK(s)
  PROVE  /\ s.Pos \in Nat /\ s.Pos < MaxSize /\ MaxSize \in Nat
         /\ GetTokenIndex(s) \in Nat /\ GetTokenIndex(s) <= s.Pos
         /\ Floor(s) \in Nat
         /\ RememberLength > 0 => Floor(s) <= Behind(s)
         /\ s.source # NullSource => /\ s.source \in Sources /\ s.LengthLeft = MaxSize
                                     /\ SourceLength[s.source] \in Nat
                                     /\ s.Pos <= SourceLength[s.source] + 1
<1>1. StreamInv(s) /\ MaxSize \in Nat /\ RememberLength \in Nat
  BY MaxSizeAssumption, RememberAssumption DEF StreamOK
<1>2. /\ GetTokenIndex(s) \in Nat /\ s.Pos \in Nat /\ GetTokenIndex(s) <= s.Pos
      /\ Floor(s) \in Nat
  BY <1>1, FloorFacts
<1>3. s.source # NullSource => /\ s.source \in Sources /\ s.LengthLeft = MaxSize
                               /\ SourceLength[s.source] \in Nat
                               /\ s.Pos <= SourceLength[s.source] + 1
  BY <1>1, SourceAssumption DEF StreamOK, StreamInv, StreamType, InStep
<1>4. s.Pos < MaxSize
  <2>1. CASE s.source = NullSource
    BY <1>1, <2>1, MaxSizeAssumption DEF StreamInv, InStep
  <2>2. CASE s.source # NullSource
    <3>1. SourceLength[s.source] + 1 < MaxSize
      BY <1>3, <2>2, MaxSizeAssumption
    <3> QED BY <1>1, <1>2, <1>3, <2>2, <3>1
  <2> QED BY <2>1, <2>2
<1>5. RememberLength > 0 => Floor(s) <= Behind(s)
  <2>1. Floor(s) <= RememberedIndex(s)
    BY <1>1 DEF StreamInv, Remembers, Floor
  <2> QED BY <1>1, <1>2, <2>1 DEF RememberedIndex, Behind
<1> QED BY <1>1, <1>2, <1>3, <1>4, <1>5

\* The code of a token of a source.
LEMMA CodeAt ==
  ASSUME NEW src \in Sources, NEW i \in 1 .. (SourceLength[src] + 1)
  PROVE  /\ SourceCodes[src] \in Seq(Terminals)
         /\ Len(SourceCodes[src]) = SourceLength[src] /\ SourceLength[src] \in Nat
         /\ TokenAt(src, i) = IF i = SourceLength[src] + 1 THEN TokenEOF ELSE SourceCodes[src][i]
<1>1. /\ SourceCodes[src] \in Seq(Terminals) /\ Len(SourceCodes[src]) = SourceLength[src]
      /\ SourceLength[src] \in Nat /\ src # NullSource
  BY CodesAssumption, SourceAssumption
<1> DEFINE tok == SourceToken(src, i)
<1>2. tok[1] = src /\ tok[2] = i /\ tok # EofToken
  BY <1>1 DEF SourceToken, EofToken
<1> HIDE DEF tok
<1>3. IsEOF(tok) <=> i = SourceLength[src] + 1
  BY <1>2 DEF IsEOF
<1>4. TokenAt(src, i) = IF IsEOF(tok) THEN TokenEOF ELSE SourceCodes[tok[1]][tok[2]]
  BY DEF TokenAt, Code, tok
<1> QED BY <1>1, <1>2, <1>3, <1>4

\* Going back one token, for an error.
LEMMA GoneBack ==
  ASSUME NEW s, StreamOK(s), RememberLength > 0, GetTokenIndex(s) = s.Pos, s.Pos > 0,
         NEW t, t = SeekBack(s, 1)
  PROVE  /\ t.source = s.source /\ t.Pos = s.Pos
         /\ PresentedIn(t, GetTokenIndex(s)) /\ PlacedIn(t, GetTokenIndex(s))
<1> DEFINE i == IndexBack(s, 1)
<1>1. StreamInv(s) /\ s.Pos \in Nat /\ s.Pos < MaxSize /\ MaxSize \in Nat /\ Floor(s) \in Nat
      /\ Floor(s) <= s.Pos - 1
  BY PlaceFacts DEF StreamOK, Behind
<1>2. i = s.Pos - 1
  BY <1>1, IndexBackFacts
<1> HIDE DEF i
<1>3. t = SeekTo(s, i)
  BY DEF SeekBack, i
<1>4. i \in Nat /\ i <= s.Pos /\ i \in Floor(s) .. s.Pos
  BY <1>1, <1>2
<1>5. t.source = s.source /\ t.Pos = s.Pos /\ GetTokenIndex(t) = i
  BY <1>1, <1>3, <1>4, SeekToWindow
<1> QED BY <1>1, <1>2, <1>5 DEF PresentedIn, PlacedIn, InvalidIndex

\* Reading on from the last token.
LEMMA ReadOn ==
  ASSUME NEW s, StreamOK(s), s.source # NullSource, NEW previous,
         ~ PresentedIn(s, previous), PlacedIn(s, previous), previous \in Nat,
         s.Pos <= SourceLength[s.source], NEW t, t = AfterNextToken(s)
  PROVE  /\ t.source = s.source /\ t.Pos = s.Pos + 1
         /\ ~ PresentedIn(t, previous) /\ PlacedIn(t, previous)
         /\ Read(s).Code = TokenAt(t.source, t.Pos)
<1>1. /\ StreamInv(s) /\ s.LengthLeft = MaxSize /\ MaxSize \in Nat /\ s.Pos \in Nat
      /\ s.source \in Sources /\ SourceLength[s.source] \in Nat
      /\ GetTokenIndex(s) = s.Pos /\ s.LengthLeft # 0
  BY PlaceFacts DEF StreamOK, PlacedIn
<1>2. ~ Replays(s)
  BY <1>1, AfterReplayWindow
<1>3. ~ s.SourceEOFFlag
  BY <1>1 DEF StreamInv, InStep
<1>4. t = AfterRead(s) /\ NextToken(s) = SourceNext(s)
  BY <1>1, <1>2 DEF AfterNextToken, NextToken
<1>5. /\ t.source = s.source /\ t.Pos = s.Pos + 1 /\ GetTokenIndex(t) = s.Pos + 1
      /\ SourceNext(s) = SourceToken(s.source, s.Pos + 1)
  BY <1>1, <1>2, <1>3, <1>4, ReadFreshWindow
<1>6. ~ PresentedIn(t, previous)
  BY <1>1, <1>5 DEF PresentedIn
<1> QED BY <1>4, <1>5, <1>6 DEF PlacedIn, Read, TokenAt

\* Reading the token again that an error stood for.
LEMMA ReadAgain ==
  ASSUME NEW s, StreamOK(s), s.source # NullSource, NEW previous,
         PresentedIn(s, previous), PlacedIn(s, previous), NEW t, t = AfterNextToken(s)
  PROVE  /\ t.source = s.source /\ t.Pos = s.Pos
         /\ ~ PresentedIn(t, previous) /\ PlacedIn(t, previous)
         /\ Read(s).Code = TokenAt(t.source, t.Pos)
<1>1. /\ StreamInv(s) /\ s.LengthLeft = MaxSize /\ MaxSize \in Nat /\ s.Pos \in Nat
      /\ GetTokenIndex(s) \in Nat /\ GetTokenIndex(s) + 1 = s.Pos /\ previous = s.Pos
      /\ s.LengthLeft # 0
  BY PlaceFacts DEF StreamOK, PlacedIn
<1>2. Replays(s)
  BY <1>1, ReadsAtEnd
<1>3. t = AfterReplay(s) /\ NextToken(s) = s.blocks[s.this].Tokens[s.ThisPos]
  BY <1>1, <1>2 DEF AfterNextToken, NextToken
<1>4. /\ t.source = s.source /\ t.Pos = s.Pos /\ GetTokenIndex(t) = s.Pos
      /\ NextToken(s) = SourceToken(s.source, s.Pos)
  BY <1>1, <1>2, <1>3, AfterReplayWindow
<1>5. ~ PresentedIn(t, previous)
  BY <1>1, <1>4 DEF PresentedIn
<1> QED BY <1>4, <1>5 DEF PlacedIn, Read, TokenAt

\* Reads of tokens in the buffer move the cursor only.
LEMMA Replayed ==
  ASSUME NEW s, StreamInv(s), s.LengthLeft # 0, NEW n \in Nat, GetTokenIndex(s) + n <= s.Pos,
         NEW t, t = ReadTokens(s, n)
  PROVE  /\ StreamInv(t) /\ t.source = s.source /\ t.Pos = s.Pos /\ Floor(t) = Floor(s)
         /\ t.LengthLeft = s.LengthLeft /\ GetTokenIndex(t) = GetTokenIndex(s) + n
<1> DEFINE Fine(m) == LET r == ReadTokens(s, m)
                      IN  /\ StreamInv(r) /\ r.source = s.source /\ r.Pos = s.Pos
                          /\ Floor(r) = Floor(s) /\ r.LengthLeft = s.LengthLeft
                          /\ GetTokenIndex(r) = GetTokenIndex(s) + m
           T == {m \in 0 .. n : ~ Fine(m)}
<1>1. SUFFICES ASSUME T # {} PROVE FALSE
  <2>1. n \in 0 .. n
    OBVIOUS
  <2> QED BY <2>1
<1>2. PICK m \in T : \A k \in T : m <= k
  <2>1. T \subseteq Nat
    OBVIOUS
  <2> HIDE DEF T
  <2> QED BY <1>1, <2>1, NatMin
<1>3. GetTokenIndex(s) \in Nat /\ s.Pos \in Nat
  BY FloorFacts
<1>4. CASE m = 0
  <2>1. ReadTokens(s, 0) = s
    BY ReadTokensStep
  <2> QED BY <1>2, <1>3, <1>4, <2>1
<1>5. CASE m # 0
  <2> DEFINE r == ReadTokens(s, m - 1)
             q == AfterNextToken(r)
  <2>1. m - 1 \in 0 .. n /\ ~ (m <= m - 1) /\ (m - 1) + 1 = m /\ m \in Nat /\ m <= n
    BY <1>2, <1>5
  <2>2. Fine(m - 1)
    BY <1>2, <2>1
  <2>3. ReadTokens(s, m) = q
    BY <2>1, ReadTokensStep
  <2> HIDE DEF r
  <2>4. /\ StreamInv(r) /\ r.source = s.source /\ r.Pos = s.Pos /\ Floor(r) = Floor(s)
        /\ r.LengthLeft = s.LengthLeft /\ GetTokenIndex(r) = GetTokenIndex(s) + (m - 1)
    BY <2>2 DEF r
  <2>5. Replays(r)
    BY <1>3, <2>1, <2>4, ReadsAtEnd
  <2>6. q = AfterReplay(r)
    BY <2>4, <2>5 DEF AfterNextToken
  <2>7. /\ StreamInv(q) /\ q.source = r.source /\ q.Pos = r.Pos /\ Floor(q) = Floor(r)
        /\ q.LengthLeft = r.LengthLeft /\ GetTokenIndex(q) = GetTokenIndex(r) + 1
    BY <2>4, <2>5, <2>6, AfterReplayInv, AfterReplayWindow
  <2> HIDE DEF q
  <2>8. Fine(m)
    BY <1>3, <2>1, <2>3, <2>4, <2>7
  <2> QED BY <1>2, <2>8
<1> QED BY <1>4, <1>5

\* Whatever SetErrorData reads of what was recorded, the cursor is put back.
LEMMA PutBack ==
  ASSUME StreamOK(stream), stream.source # NullSource, NEW n \in 0 .. RecordedLength,
         NEW state, state \notin BacktrackStates, NEW t, t = AfterErrorData(n, state)
  PROVE  t.Pos = stream.Pos /\ GetTokenIndex(t) = GetTokenIndex(stream)
<1> DEFINE len    == RecordedLength
           replay == BacktrackToMarker(stream, RecordingMarker, len)
           read   == ReadTokens(replay, n)
           back   == SeekTo(read, GetTokenIndex(stream))
<1>1. StreamInv(stream) /\ len \in Nat /\ MaxSize \in Nat
  BY BufferedLengthType, MaxSizeAssumption DEF StreamOK, RecordedLength
<1>2. /\ GetTokenIndex(stream) \in Nat /\ stream.Pos \in Nat /\ Floor(stream) \in Nat
      /\ GetTokenIndex(stream) <= stream.Pos /\ Floor(stream) <= GetTokenIndex(stream)
      /\ \A m \in Marked(stream) : m \in Nat /\ m <= stream.Pos
  BY <1>1, FloorFacts
<1>3. t = SetMaxStreamLength(back, MaxSize)
  BY DEF AfterErrorData
<1>4. len = IF RecordingMarker \in Marked(stream) THEN stream.Pos - RecordingMarker ELSE 0
  BY DEF RecordedLength, GetBufferedLength
<1> HIDE DEF len
<1>5. /\ StreamInv(replay) /\ replay.Pos = stream.Pos /\ Floor(replay) = Floor(stream)
      /\ n # 0 => replay.LengthLeft # 0 /\ GetTokenIndex(replay) + n <= replay.Pos
  <2>1. CASE RecordingMarker \in Marked(stream)
    <3>1. /\ StreamInv(replay) /\ replay.Pos = stream.Pos /\ Floor(replay) = Floor(stream)
          /\ GetTokenIndex(replay) = RecordingMarker
          /\ replay.LengthLeft = LengthFor(stream, len)
      BY <1>1, <2>1, BacktrackToMarkerInv, BacktrackWindow
    <3> HIDE DEF replay
    <3>2. RecordingMarker \in Nat /\ n \in 0 .. len /\ len = stream.Pos - RecordingMarker
      BY <1>2, <1>4, <2>1 DEF len
    <3>3. n # 0 => replay.LengthLeft # 0
      BY <1>1, <3>1, <3>2 DEF LengthFor
    <3> QED BY <1>2, <3>1, <3>2, <3>3
  <2>2. CASE RecordingMarker \notin Marked(stream)
    <3>1. replay = stream
      BY <2>2 DEF BacktrackToMarker
    <3>2. n = 0
      BY <1>4, <2>2 DEF len
    <3> QED BY <1>1, <3>1, <3>2
  <2> QED BY <2>1, <2>2
<1> HIDE DEF replay
<1>6. StreamInv(read) /\ read.Pos = stream.Pos /\ Floor(read) = Floor(stream)
  <2>1. CASE n = 0
    BY <1>5, <2>1, ReadTokensStep
  <2>2. CASE n # 0
    <3>1. n \in Nat
      BY <1>1 DEF len
    <3>2. PICK r : r = read
      OBVIOUS
    <3>3. StreamInv(r) /\ r.Pos = replay.Pos /\ Floor(r) = Floor(replay)
      BY <1>5, <2>2, <3>1, <3>2, Replayed
    <3> QED BY <1>5, <3>2, <3>3
  <2> QED BY <2>1, <2>2
<1> HIDE DEF read
<1>7. StreamInv(back) /\ back.Pos = stream.Pos /\ GetTokenIndex(back) = GetTokenIndex(stream)
  <2>1. GetTokenIndex(stream) \in Floor(read) .. read.Pos
    BY <1>2, <1>6
  <2> QED BY <1>2, <1>6, <2>1, SeekToInv, SeekToWindow
<1> HIDE DEF back
<1> QED BY <1>1, <1>3, <1>7, SetMaxStreamLengthWindow

(***************************************************************************)
(* The word on the stack                                                   *)
(***************************************************************************)

Symbols == {EntrySymbol[state] : state \in States}

\* A walk of n steps through the automaton, from a start state.
Walk(path, n) ==
  /\ path \in [0 .. n -> States] /\ path[0] \in Starts
  /\ \A i \in 1 .. n : Leads(path[i - 1], path[i])

\* The symbols the walk is on.
Word(path, n) == [i \in 1 .. n |-> EntrySymbol[path[i]]]

\* The states of the elements that stand for symbols.
Path == [i \in 0 .. Depth |-> StateAt(i)]

\* What the stack spells is the word of its path.
LEMMA SpelledIsWord ==
  ASSUME Depth \in Nat
  PROVE  Spelled = Word(Path, Depth)
<1>1. \A i \in 1 .. Depth : i \in 0 .. Depth /\ Path[i] = StateAt(i)
  BY DEF Path
<1> QED BY <1>1 DEF Spelled, Word

\* After a step too.
LEMMA SpelledIsWordThen ==
  ASSUME Depth' \in Nat
  PROVE  Spelled' = Word(Path', Depth')
<1>1. \A i \in 1 .. Depth' : i \in 0 .. Depth' /\ Path'[i] = StateAt(i)'
  BY DEF Path
<1> QED BY <1>1 DEF Spelled, Word

\* A word is a sequence of symbols.
LEMMA WordType ==
  ASSUME NEW n \in Nat, NEW path, Walk(path, n)
  PROVE  /\ Word(path, n) \in Seq(Symbols) /\ Len(Word(path, n)) = n
         /\ \A i \in 1 .. n : Word(path, n)[i] = EntrySymbol[path[i]]
<1>1. \A i \in 1 .. n : EntrySymbol[path[i]] \in Symbols
  BY DEF Walk, Symbols
<1> DEFINE e(i) == EntrySymbol[path[i]]
           w == [i \in 1 .. n |-> e(i)]
<1>2. w \in [1 .. n -> Symbols]
  BY <1>1
<1> HIDE DEF e
<1>3. w \in Seq(Symbols) /\ Len(w) = n /\ \A i \in 1 .. n : w[i] = e(i)
  BY <1>2
<1>4. Word(path, n) = w
  BY DEF Word, e
<1> QED BY <1>3, <1>4 DEF e

\* The beginning of a walk is a walk.
LEMMA Shortened ==
  ASSUME NEW n \in Nat, NEW path, Walk(path, n), NEW m \in 0 .. n,
         NEW q, q = [i \in 0 .. m |-> path[i]]
  PROVE  /\ Walk(q, m)
         /\ m \in 0 .. Len(Word(path, n))
         /\ Word(q, m) = SubSeq(Word(path, n), 1, m)
<1>1. Walk(q, m)
  <2>1. \A i \in 0 .. m : i \in 0 .. n /\ q[i] = path[i] /\ q[i] \in States
    BY DEF Walk
  <2>2. \A i \in 1 .. m : i \in 1 .. n /\ i \in 0 .. m /\ i - 1 \in 0 .. m
    OBVIOUS
  <2>3. \A i \in 1 .. m : Leads(q[i - 1], q[i])
    BY <2>1, <2>2 DEF Walk
  <2>4. q \in [0 .. m -> States]
    BY <2>1
  <2> QED BY <2>1, <2>3, <2>4 DEF Walk
<1> DEFINE w == Word(path, n)
           v == Word(q, m)
<1>2. w \in Seq(Symbols) /\ Len(w) = n /\ \A i \in 1 .. n : w[i] = EntrySymbol[path[i]]
  BY WordType
<1>3. v \in Seq(Symbols) /\ Len(v) = m /\ \A i \in 1 .. m : v[i] = EntrySymbol[q[i]]
  <2>1. m \in Nat
    OBVIOUS
  <2> QED BY <1>1, <2>1, WordType
<1> HIDE DEF w, v
<1>4. ASSUME NEW i \in 1 .. m PROVE v[i] = w[i]
  <2>1. i \in 0 .. m /\ i \in 1 .. n /\ q[i] = path[i]
    OBVIOUS
  <2> QED BY <1>2, <1>3, <2>1
<1>5. v = SubSeq(w, 1, m)
  <2>1. /\ SubSeq(w, 1, m) \in Seq(Symbols) /\ Len(SubSeq(w, 1, m)) = m
        /\ \A i \in 1 .. m : SubSeq(w, 1, m)[i] = w[i]
    BY <1>2
  <2> QED BY <1>3, <1>4, <2>1, SeqEqual
<1> QED BY <1>1, <1>2, <1>5 DEF w, v

\* The first steps of a walk, and one to another state.
Grown(path, m, state) == [i \in 0 .. (m + 1) |-> IF i = m + 1 THEN state ELSE path[i]]

\* A beginning with one symbol more.
LEMMA Extended ==
  ASSUME NEW n \in Nat, NEW path, Walk(path, n), NEW m \in 0 .. n,
         NEW state \in States, Leads(path[m], state),
         NEW q, q = Grown(path, m, state)
  PROVE  /\ Walk(q, m + 1)
         /\ Word(q, m + 1) = Append(SubSeq(Word(path, n), 1, m), EntrySymbol[state])
<1>0. q = [i \in 0 .. (m + 1) |-> IF i = m + 1 THEN state ELSE path[i]]
  BY DEF Grown
<1>1. Walk(q, m + 1)
  <2>1. /\ \A i \in 0 .. m : i \in 0 .. (m + 1) /\ i \in 0 .. n /\ q[i] = path[i] /\ q[i] \in States
        /\ q[m + 1] = state
    BY <1>0 DEF Walk
  <2>2. q \in [0 .. (m + 1) -> States]
    <3>1. ASSUME NEW i \in 0 .. (m + 1) PROVE q[i] \in States
      <4>1. i = m + 1 \/ i \in 0 .. m
        OBVIOUS
      <4> QED BY <2>1, <4>1
    <3> QED BY <1>0, <3>1
  <2>3. ASSUME NEW i \in 1 .. (m + 1)
        PROVE  Leads(q[i - 1], q[i])
    <3>1. CASE i = m + 1
      <4>1. q[i - 1] = path[m] /\ q[i] = state
        BY <2>1, <3>1
      <4> QED BY <4>1
    <3>2. CASE i # m + 1
      <4>1. i \in 1 .. n /\ q[i - 1] = path[i - 1] /\ q[i] = path[i]
        BY <2>1, <3>2
      <4> QED BY <4>1 DEF Walk
    <3> QED BY <3>1, <3>2
  <2>4. q[0] \in Starts
    BY <2>1 DEF Walk
  <2> QED BY <2>2, <2>3, <2>4 DEF Walk
<1> DEFINE w == Word(path, n)
           v == Word(q, m + 1)
           e == EntrySymbol[state]
           u == SubSeq(w, 1, m)
<1>2. w \in Seq(Symbols) /\ Len(w) = n /\ \A i \in 1 .. n : w[i] = EntrySymbol[path[i]]
  BY WordType
<1>3. /\ v \in Seq(Symbols) /\ Len(v) = m + 1
      /\ \A i \in 1 .. (m + 1) : v[i] = EntrySymbol[q[i]]
  <2>1. m + 1 \in Nat
    OBVIOUS
  <2> QED BY <1>1, <2>1, WordType
<1>4. e \in Symbols
  BY DEF Symbols
<1> HIDE DEF w, v, e
<1>5. u \in Seq(Symbols) /\ Len(u) = m /\ \A i \in 1 .. m : u[i] = w[i]
  BY <1>2
<1>6. (\A i \in 1 .. m : v[i] = w[i]) /\ v[m + 1] = e
  <2>1. ASSUME NEW i \in 1 .. m PROVE v[i] = w[i]
    <3>1. i \in 1 .. (m + 1) /\ i \in 1 .. n /\ i \in 0 .. (m + 1) /\ i # m + 1
      OBVIOUS
    <3>2. q[i] = path[i]
      BY <1>0, <3>1
    <3> QED BY <1>2, <1>3, <3>1, <3>2
  <2>2. m + 1 \in 1 .. (m + 1) /\ q[m + 1] = state
    BY <1>0
  <2> QED BY <1>3, <2>1, <2>2 DEF e
<1> HIDE DEF u
<1>7. v = Append(u, e)
  <2>1. Append(u, e) \in Seq(Symbols) /\ Len(Append(u, e)) = m + 1
    BY <1>4, <1>5
  <2>2. \A i \in 1 .. (m + 1) : Append(u, e)[i] = IF i = m + 1 THEN e ELSE u[i]
    BY <1>4, <1>5
  <2>3. \A i \in 1 .. Len(v) : v[i] = Append(u, e)[i]
    BY <1>3, <1>5, <1>6, <2>2
  <2> QED BY <1>3, <2>1, <2>3, SeqEqual
<1> QED BY <1>1, <1>7 DEF v, u, w, e

\* A symbol more at the end.
LEMMA ExtendedAtEnd ==
  ASSUME NEW n \in Nat, NEW path, Walk(path, n), NEW state \in States, Leads(path[n], state),
         NEW q, q = Grown(path, n, state)
  PROVE  Walk(q, n + 1) /\ Word(q, n + 1) = Append(Word(path, n), EntrySymbol[state])
<1>1. /\ Walk(q, n + 1)
      /\ Word(q, n + 1) = Append(SubSeq(Word(path, n), 1, n), EntrySymbol[state])
  BY Extended
<1>2. Word(path, n) \in Seq(Symbols) /\ Len(Word(path, n)) = n
  BY WordType
<1>3. SubSeq(Word(path, n), 1, n) = Word(path, n)
  BY <1>2, SubSeqFull
<1> QED BY <1>1, <1>3

\* The last states of a walk.
LEMMA WalkBehind ==
  ASSUME NEW n \in Nat, NEW path, Walk(path, n), NEW m \in Nat, m <= n + 1,
         NEW walk, walk = [i \in 1 .. m |-> path[n - m + i]]
  PROVE  walk \in PathsTo(path[n], m)
<1>1. \A i \in 1 .. m : n - m + i \in 0 .. n
  OBVIOUS
<1>2. walk \in [1 .. m -> States]
  BY <1>1 DEF Walk
<1>3. m > 0 => walk[m] = path[n]
  OBVIOUS
<1>4. ASSUME NEW i \in 1 .. (m - 1)
      PROVE  Leads(walk[i], walk[i + 1])
  <2>1. i \in 1 .. m /\ i + 1 \in 1 .. m /\ n - m + (i + 1) \in 1 .. n
        /\ (n - m + (i + 1)) - 1 = n - m + i
    OBVIOUS
  <2>2. Leads(path[n - m + i], path[n - m + (i + 1)])
    BY <2>1 DEF Walk
  <2> QED BY <2>1, <2>2
<1> QED BY <1>2, <1>3, <1>4 DEF PathsTo

\* A state that reduces is reached over the right hand side.
LEMMA SpellsRightHandSide ==
  ASSUME TableOfGrammar, NEW n \in Nat, NEW path, Walk(path, n), NEW code \in Terminals,
         NEW entry, entry = GetAction(path[n], code), entry.kind = "reduce",
         ReduceProductions[entry.arg].Length <= n
  PROVE  /\ entry.arg \in Productions
         /\ ReduceProductions[entry.arg].Length = Len(Rhs[entry.arg])
         /\ Len(Rhs[entry.arg]) \in Nat
         /\ ReduceProductions[entry.arg].Left \in Lefts[entry.arg]
         /\ Promise!EndsWith(Word(path, n), Rhs[entry.arg])
<1> DEFINE p == entry.arg
           s == path[n]
           len == Len(Rhs[p])
<1>1. s \in States /\ n \in 0 .. n
  BY DEF Walk
<1>2. entry = ActionTable[s][code]
  BY <1>1 DEF GetAction
<1>3. p \in Productions /\ Rhs[p] \in Seq([terminal : BOOLEAN, id : Nat])
  BY <1>1, <1>2, TableAssumption DEF TableOfGrammar
<1>4. /\ ReduceProductions[p].Length = len /\ ReduceProductions[p].Left \in Lefts[p]
      /\ \A walk \in PathsTo(s, len) : \A i \in DOMAIN walk : EntrySymbol[walk[i]] = Rhs[p][i]
  BY <1>1, <1>2 DEF TableOfGrammar, ReducesWhatItSpells
<1>5. len \in Nat /\ len <= n
  BY <1>3, <1>4
<1> HIDE DEF p
<1> DEFINE walk == [i \in 1 .. len |-> path[n - len + i]]
<1>6. \A i \in 1 .. len : n - len + i \in 1 .. n /\ n - len + i \in 0 .. n
  BY <1>5
<1>7. walk \in PathsTo(s, len)
  <2>1. len <= n + 1
    BY <1>5
  <2> HIDE DEF len
  <2> QED BY <1>5, <2>1, WalkBehind
<1>8. \A i \in 1 .. len : EntrySymbol[path[n - len + i]] = Rhs[p][i]
  BY <1>4, <1>7
<1> DEFINE w == Word(path, n)
<1>9. w \in Seq(Symbols) /\ Len(w) = n /\ \A i \in 1 .. n : w[i] = EntrySymbol[path[i]]
  BY WordType
<1> HIDE DEF w
<1>10. SubSeq(w, n - len + 1, n) = Rhs[p]
  <2> DEFINE u == SubSeq(w, n - len + 1, n)
             S == Symbols \union [terminal : BOOLEAN, id : Nat]
  <2>1. n - len + 1 \in Int /\ \A i \in (n - len + 1) .. n : w[i] \in S
    BY <1>5, <1>9
  <2> HIDE DEF S
  <2> DEFINE m == n - len + 1
  <2>2. m \in Int /\ n - m + 1 = len /\ len = IF m <= n THEN n - m + 1 ELSE 0
    <3>1. n \in Nat /\ len \in Nat /\ len <= n
      BY <1>5
    <3> HIDE DEF len
    <3> QED BY <3>1
  <2>3. u \in Seq(S) /\ Len(u) = len /\ \A i \in 1 .. len : u[i] = w[m + i - 1]
    <3> HIDE DEF m, len
    <3>1. /\ SubSeq(w, m, n) \in Seq(S)
          /\ Len(SubSeq(w, m, n)) = IF m <= n THEN n - m + 1 ELSE 0
          /\ \A i \in 1 .. n - m + 1 : SubSeq(w, m, n)[i] = w[m + i - 1]
      <4>1. \A i \in m .. n : w[i] \in S
        BY <2>1 DEF m
      <4> QED BY <2>2, <4>1, SubSeqProperties
    <3> QED BY <2>2, <3>1 DEF m
  <2>4. ASSUME NEW i \in 1 .. len PROVE u[i] = Rhs[p][i]
    <3>1. m + i - 1 = n - len + i
      BY <1>5
    <3>2. m + i - 1 \in 1 .. n
      BY <1>5
    <3>3. u[i] = w[n - len + i] /\ w[n - len + i] = EntrySymbol[path[n - len + i]]
      BY <1>9, <2>3, <3>1, <3>2
    <3> QED BY <1>8, <3>3
  <2>5. Rhs[p] \in Seq(S)
    <3>1. [terminal : BOOLEAN, id : Nat] \subseteq S
      BY DEF S
    <3> HIDE DEF S
    <3> QED BY <1>3, <3>1, SeqMonotonic
  <2> HIDE DEF u, S
  <2> QED BY <2>3, <2>4, <2>5, SeqEqual DEF u
<1>11. Promise!EndsWith(w, Rhs[p])
  BY <1>5, <1>9, <1>10 DEF Promise!EndsWith
<1> QED BY <1>3, <1>4, <1>5, <1>11 DEF w, p

\* What a state is entered on.
LEMMA EnteredOn ==
  ASSUME TableOfGrammar
  PROVE  /\ \A s : \A code \in Terminals : GetAction(s, code).kind = "shift" =>
              EntrySymbol[GetAction(s, code).arg] = TerminalSymbol(code)
         /\ \A s : \A left \in NonTerminals : GetLeftReduceState(s, left) # InvalidState =>
              EntrySymbol[GetLeftReduceState(s, left)] = NonTerminalSymbol(left)
<1>1. ASSUME NEW s, NEW code \in Terminals, GetAction(s, code).kind = "shift"
      PROVE  EntrySymbol[GetAction(s, code).arg] = TerminalSymbol(code)
  <2>1. s \in States /\ GetAction(s, code) = ActionTable[s][code]
    BY <1>1 DEF GetAction, NoAction
  <2> QED BY <1>1, <2>1 DEF TableOfGrammar, EnteredOnOneSymbol
<1>2. ASSUME NEW s, NEW left \in NonTerminals, GetLeftReduceState(s, left) # InvalidState
      PROVE  EntrySymbol[GetLeftReduceState(s, left)] = NonTerminalSymbol(left)
  <2>1. s \in States /\ GetLeftReduceState(s, left) = GotoTable[s][left]
    BY <1>2 DEF GetLeftReduceState
  <2> QED BY <1>2, <2>1 DEF TableOfGrammar, EnteredOnOneSymbol
<1> QED BY <1>1, <1>2

\* A state that accepts is one step from a start state: the word is a start symbol.
LEMMA AcceptsWord ==
  ASSUME TableOfGrammar, NEW n \in Nat, NEW path, Walk(path, n), NEW code \in Terminals,
         GetAction(path[n], code).kind = "accept"
  PROVE  /\ code = TokenEOF
         /\ \E start \in StartSymbols : Word(path, n) = <<NonTerminalSymbol(start)>>
<1> DEFINE s == path[n]
<1>1. s \in States /\ n \in 0 .. n /\ path[0] \in Starts
  BY DEF Walk
<1>2. ActionTable[s][code].kind = "accept"
  BY <1>1 DEF GetAction
<1>3. /\ code = TokenEOF /\ s \notin Starts
      /\ EntrySymbol[s] \in {NonTerminalSymbol(start) : start \in StartSymbols}
      /\ \A r \in States : Leads(r, s) => r \in Starts
  BY <1>1, <1>2 DEF TableOfGrammar, AcceptsStartSymbol
<1>4. n # 0
  BY <1>1, <1>3
<1>5. n - 1 \in 0 .. n /\ n \in 1 .. n
  BY <1>4
<1>6. path[n - 1] \in States /\ Leads(path[n - 1], s)
  BY <1>5 DEF Walk
<1>7. path[n - 1] \in Starts
  BY <1>3, <1>6
<1>8. n = 1
  <2> SUFFICES ASSUME n # 1 PROVE FALSE
    OBVIOUS
  <2>1. n - 1 \in 1 .. n /\ (n - 1) - 1 \in 0 .. n
    BY <1>4
  <2>2. Leads(path[(n - 1) - 1], path[n - 1]) /\ path[(n - 1) - 1] \in States
    BY <2>1 DEF Walk
  <2> QED BY <1>6, <1>7, <2>2 DEF TableOfGrammar, AcceptsStartSymbol
<1>9. PICK start \in StartSymbols : EntrySymbol[s] = NonTerminalSymbol(start)
  BY <1>3
<1>10. Word(path, n) = <<NonTerminalSymbol(start)>>
  <2> DEFINE w == Word(path, n)
             S == Symbols \union {NonTerminalSymbol(start)}
  <2>1. w \in Seq(Symbols) /\ Len(w) = 1 /\ w[1] = EntrySymbol[path[1]]
    <3>1. /\ w \in Seq(Symbols) /\ Len(w) = n
          /\ \A i \in 1 .. n : w[i] = EntrySymbol[path[i]]
      BY WordType
    <3>2. 1 \in 1 .. n
      BY <1>5, <1>8
    <3> HIDE DEF w
    <3> QED BY <1>8, <3>1, <3>2
  <2> HIDE DEF w
  <2>2. w \in Seq(S) /\ <<NonTerminalSymbol(start)>> \in Seq(S)
    BY <2>1
  <2>3. w[1] = NonTerminalSymbol(start)
    BY <1>8, <1>9, <2>1
  <2> QED BY <2>1, <2>2, <2>3, SeqEqual DEF w
<1> QED BY <1>3, <1>10

(***************************************************************************)
(* The invariant                                                           *)
(***************************************************************************)

\* Nothing is parsed yet.
Waits == pc = "idle" \/ (pc = "top" /\ (NextTokenFlag \/ TopState = InvalidState \/ NoStartState))

Begun == pc \notin {"idle", "accepted", "failed", "crashed"} /\ ~ Waits /\ ~ NoStartState

LookedAt == IF pc = "skip" THEN skipped.Code ELSE Token.Code

\* The start state is all there is, or what is put in the place of one.
AtStart ==
  Waits => /\ stream.Pos = 0 /\ StackPosition = 0
           /\ TopState # InvalidState => NextTokenFlag /\ TopState \in Starts \union {EmptyGoto}

\* The token looked at is the one before the cursor, or an error in front of it.
Sees ==
  Begun => /\ stream.Pos > 0
           /\ IF PresentedIn(stream, PrevTokenIndex)
                THEN LookedAt \in ErrorTerminals
                ELSE LookedAt = TokenAt(stream.source, stream.Pos)

\* The stack is a walk through the automaton.
OnWalk == Begun => Depth \in Nat /\ Walk(Path, Depth)

\* A left hand side found has a state to go to.
GoesTo == (Begun /\ Reduced) \/ pc = "handler" =>
            StackPosition > 0 /\ ~ NextTokenFlag /\ TopState # InvalidState

\* While the handler runs its production is still spelled, and the state is
\* that of the left hand side it has picked.
InHand ==
  pc = "handler" =>
    /\ TopState = GetLeftReduceState(stack[StackPosition - 1].State, ReduceLeft)
    /\ ReduceLeft \in Lefts[reducing]
    /\ ReduceProductions[reducing].Length = Len(Rhs[reducing]) /\ Len(Rhs[reducing]) \in Nat
    /\ Promise!EndsWith(Spelled, Rhs[reducing])

Following ==
  /\ PlacedIn(stream, PrevTokenIndex)
  /\ AtStart /\ Sees /\ OnWalk /\ GoesTo /\ InHand

\* The input and the outcome, as ShiftReduce has them.
Input == IF stream.source = NullSource THEN <<>> ELSE SourceCodes[stream.source]

Outcome == IF pc \in {"accepted", "failed"} THEN pc ELSE "parsing"

\* Where the cursor shows it, as many tokens are consumed as are behind the
\* one looked at.
LEMMA BehindFacts ==
  ASSUME NEW s, StreamOK(s), NEW previous, PlacedIn(s, previous)
  PROVE  /\ (IF s.Pos = 0 \/ PresentedIn(s, previous) THEN GetTokenIndex(s)
                                                      ELSE GetTokenIndex(s) - 1) = Behind(s)
         /\ s.Pos = 0 => ~ PresentedIn(s, previous)
BY PlaceFacts DEF PlacedIn, Behind

LEMMA ConsumedNow ==
  ASSUME StreamOK(stream), PlacedIn(stream, PrevTokenIndex)
  PROVE  /\ Consumed = Behind(stream) /\ ErrorPresented = PresentedIn(stream, PrevTokenIndex)
         /\ stream.Pos = 0 => ~ ErrorPresented
<1>1. ErrorPresented = PresentedIn(stream, PrevTokenIndex)
  BY DEF ErrorPresented, PresentedIn
<1> QED BY <1>1, BehindFacts DEF Consumed

LEMMA ConsumedThen ==
  ASSUME StreamOK(stream'), PlacedIn(stream', PrevTokenIndex')
  PROVE  /\ Consumed' = Behind(stream')
         /\ ErrorPresented' = PresentedIn(stream', PrevTokenIndex')
         /\ stream'.Pos = 0 => ~ ErrorPresented'
<1>1. ErrorPresented' = PresentedIn(stream', PrevTokenIndex')
  BY DEF ErrorPresented, PresentedIn
<1>2. Consumed' = IF stream'.Pos = 0 \/ PresentedIn(stream', PrevTokenIndex')
                    THEN GetTokenIndex(stream') ELSE GetTokenIndex(stream') - 1
  BY <1>1 DEF Consumed
<1> QED BY <1>1, <1>2, BehindFacts

\* A stream with the cursor where it was.
SameCursor(s, t) ==
  t.source = s.source /\ t.Pos = s.Pos /\ GetTokenIndex(t) = GetTokenIndex(s)

LEMMA CursorKept ==
  ASSUME NEW s, NEW t, SameCursor(s, t), NEW previous
  PROVE  /\ PresentedIn(t, previous) = PresentedIn(s, previous)
         /\ PlacedIn(t, previous) = PlacedIn(s, previous)
         /\ Behind(t) = Behind(s)
BY DEF SameCursor, PresentedIn, PlacedIn, Behind

\* Releasing markers moves nothing.
LEMMA ReleasedCursor ==
  ASSUME NEW s, StreamOK(s), NEW sp \in Nat, NEW n \in Nat, NEW t, t = ReleaseFrom(s, sp, n)
  PROVE  StreamOK(t) /\ SameCursor(s, t)
<1>1. /\ StreamOK(t) /\ t.source = s.source /\ t.Pos = s.Pos
      /\ GetTokenIndex(t) = GetTokenIndex(s)
      /\ Marked(t) = Marked(s) \ {stack[i].TerminalMarker : i \in (sp - n + 1) .. sp}
  BY ReleaseFromOK
<1> QED BY <1>1 DEF SameCursor

\* Before parsing.
LEMMA WaitingNow ==
  ASSUME StreamOK(stream), Following, Waits
  PROVE  /\ Consumed = 0 /\ Spelled = <<>> /\ Recovering = FALSE /\ Outcome = "parsing"
         /\ stream.Pos = 0
<1>1. stream.Pos = 0 /\ StackPosition = 0 /\ PlacedIn(stream, PrevTokenIndex)
  BY DEF Following, AtStart
<1>2. Consumed = 0 /\ ~ ErrorPresented
  BY <1>1, ConsumedNow DEF Behind
<1>3. Depth = 0
  BY <1>1 DEF Depth, Thrown, Waits
<1>4. Spelled = <<>>
  BY <1>3 DEF Spelled
<1>5. Recovering = FALSE /\ Outcome = "parsing"
  BY <1>2 DEF Recovering, Outcome, Waits
<1> QED BY <1>1, <1>2, <1>4, <1>5

LEMMA WaitingThen ==
  ASSUME StreamOK(stream'), PlacedIn(stream', PrevTokenIndex'), Waits',
         stream'.Pos = 0, StackPosition' = 0,
         TopState' # InvalidState => NextTokenFlag' /\ TopState' \in Starts \union {EmptyGoto}
  PROVE  /\ Consumed' = 0 /\ Spelled' = <<>> /\ Recovering' = FALSE /\ Outcome' = "parsing"
         /\ Following'
<1>1. Consumed' = 0 /\ ~ ErrorPresented'
  BY ConsumedThen DEF Behind
<1>2. Depth' = 0
  BY DEF Depth, Thrown, Waits
<1>3. Spelled' = <<>>
  BY <1>2 DEF Spelled
<1>4. Recovering' = FALSE /\ Outcome' = "parsing"
  BY <1>1 DEF Recovering, Outcome, Waits
<1>5. Following'
  <2>1. ~ Begun' /\ pc' # "handler"
    BY DEF Begun, Waits
  <2> QED BY <2>1 DEF Following, AtStart, Sees, OnWalk, GoesTo, InHand
<1> QED BY <1>1, <1>3, <1>4, <1>5

\* A parser without a start state: at most the first token is read.
LEMMA LostThen ==
  ASSUME StreamOK(stream'), PlacedIn(stream', PrevTokenIndex'), NoStartState',
         pc' \in {"act", "crashed"}, StackPosition' = 0, stream'.Pos \in {0, 1},
         ~ PresentedIn(stream', PrevTokenIndex')
  PROVE  /\ Consumed' = 0 /\ Spelled' = <<>> /\ Recovering' = FALSE /\ Outcome' = "parsing"
         /\ ~ ErrorPresented' /\ Following'
<1>1. Consumed' = 0 /\ ~ ErrorPresented'
  BY ConsumedThen DEF Behind
<1>2. Depth' = 0
  BY DEF Depth, Thrown
<1>3. Spelled' = <<>>
  BY <1>2 DEF Spelled
<1>4. Recovering' = FALSE /\ Outcome' = "parsing"
  BY <1>1 DEF Recovering, Outcome
<1>5. Following'
  <2>1. ~ Waits' /\ ~ Begun' /\ pc' # "handler"
    BY DEF Begun, Waits
  <2> QED BY <2>1 DEF Following, AtStart, Sees, OnWalk, GoesTo, InHand
<1> QED BY <1>1, <1>3, <1>4, <1>5

\* While parsing.
LEMMA BegunNow ==
  ASSUME Inv, Following, Begun
  PROVE  /\ StreamOK(stream) /\ stream.source \in Sources /\ stream.source # NullSource
         /\ Input = SourceCodes[stream.source] /\ Len(Input) \in Nat
         /\ SourceLength[stream.source] = Len(Input)
         /\ stream.Pos \in Nat /\ stream.Pos > 0 /\ stream.Pos <= Len(Input) + 1
         /\ Consumed = stream.Pos - 1
         /\ ErrorPresented = PresentedIn(stream, PrevTokenIndex)
         /\ PlacedIn(stream, PrevTokenIndex)
         /\ PrevTokenIndex \in Nat
         /\ Outcome = "parsing" /\ Recovering \in BOOLEAN
         /\ Depth \in Nat /\ Walk(Path, Depth) /\ Spelled = Word(Path, Depth)
         /\ Spelled \in Seq(Symbols) /\ Len(Spelled) = Depth
         /\ ErrorPresented => LookedAt \in ErrorTerminals
         /\ ~ ErrorPresented => LookedAt = TokenAt(stream.source, stream.Pos)
         /\ ~ ErrorPresented /\ LookedAt # TokenEOF =>
              stream.Pos <= Len(Input) /\ LookedAt = Input[stream.Pos]
         /\ ~ ErrorPresented /\ LookedAt = TokenEOF /\ TableOfGrammar =>
              stream.Pos = Len(Input) + 1
<1>1. StreamOK(stream) /\ PlacedIn(stream, PrevTokenIndex) /\ stream.Pos > 0
  BY DEF Inv, Typed, Following, Sees
<1>2. stream.source # NullSource
  BY DEF Inv, Attached, Begun, Waits, Typed, PcValues
<1>3. /\ stream.source \in Sources /\ SourceLength[stream.source] \in Nat
      /\ stream.Pos \in Nat /\ stream.Pos <= SourceLength[stream.source] + 1
  BY <1>1, <1>2, PlaceFacts
<1>4. /\ Input = SourceCodes[stream.source] /\ Len(Input) = SourceLength[stream.source]
      /\ TokenAt(stream.source, stream.Pos) =
           IF stream.Pos = SourceLength[stream.source] + 1 THEN TokenEOF ELSE Input[stream.Pos]
  <2>1. stream.Pos \in 1 .. (SourceLength[stream.source] + 1)
    BY <1>1, <1>3
  <2>2. Input = SourceCodes[stream.source]
    BY <1>2 DEF Input
  <2> QED BY <1>3, <2>1, <2>2, CodeAt
<1>5. Consumed = stream.Pos - 1 /\ ErrorPresented = PresentedIn(stream, PrevTokenIndex)
  BY <1>1, <1>3, ConsumedNow DEF Behind
<1>6. /\ Depth \in Nat /\ Walk(Path, Depth) /\ Spelled = Word(Path, Depth)
      /\ Spelled \in Seq(Symbols) /\ Len(Spelled) = Depth
  BY SpelledIsWord, WordType DEF Following, OnWalk
<1>7. /\ ErrorPresented => LookedAt \in ErrorTerminals
      /\ ~ ErrorPresented => LookedAt = TokenAt(stream.source, stream.Pos)
  BY <1>5 DEF Following, Sees
<1>8. Outcome = "parsing" /\ Recovering \in BOOLEAN
  BY DEF Outcome, Recovering, Begun
<1>9. PrevTokenIndex \in Nat
  BY MaxSizeAssumption DEF Inv, Typed
<1>10. ~ ErrorPresented /\ LookedAt # TokenEOF =>
         stream.Pos <= Len(Input) /\ LookedAt = Input[stream.Pos]
  BY <1>3, <1>4, <1>7
<1>11. ~ ErrorPresented /\ LookedAt = TokenEOF /\ TableOfGrammar =>
         stream.Pos = Len(Input) + 1
  <2>1. TableOfGrammar => \A i \in DOMAIN SourceCodes[stream.source] :
                            SourceCodes[stream.source][i] # TokenEOF
    BY <1>3 DEF TableOfGrammar, EndIsNoSymbol
  <2>2. SourceCodes[stream.source] \in Seq(Terminals)
    BY <1>3, CodesAssumption
  <2>3. stream.Pos \in 1 .. Len(Input) => stream.Pos \in DOMAIN SourceCodes[stream.source]
    BY <1>4, <2>2
  <2> QED BY <1>1, <1>3, <1>4, <1>7, <2>1, <2>3
<1> QED BY <1>1, <1>2, <1>3, <1>4, <1>5, <1>6, <1>7, <1>8, <1>9, <1>10, <1>11

\* The parts of the invariant, after a step of a parse that goes on.
LEMMA BegunThen ==
  ASSUME Begun', StreamOK(stream'), PlacedIn(stream', PrevTokenIndex'), stream'.Pos > 0,
         IF PresentedIn(stream', PrevTokenIndex') THEN LookedAt' \in ErrorTerminals
                         ELSE LookedAt' = TokenAt(stream'.source, stream'.Pos),
         Depth' \in Nat, Walk(Path', Depth'), GoesTo', InHand'
  PROVE  /\ Following' /\ Outcome' = "parsing"
         /\ Consumed' = Behind(stream')
         /\ ErrorPresented' = PresentedIn(stream', PrevTokenIndex')
         /\ Spelled' = Word(Path', Depth')
<1>1. ~ Waits' /\ pc' \notin {"accepted", "failed"}
  BY DEF Begun
<1>2. Following'
  BY <1>1 DEF Following, AtStart, Sees, OnWalk
<1> QED BY <1>1, <1>2, ConsumedThen, SpelledIsWordThen DEF Outcome

\* The path after a step.
LEMMA PathThen ==
  ASSUME NEW n, Depth' = n, NEW q, q = [i \in 0 .. n |-> q[i]],
         \A i \in 0 .. n : StateAt(i)' = q[i]
  PROVE  Path' = q
<1>1. Path' = [i \in 0 .. n |-> StateAt(i)']
  BY DEF Path
<1> QED BY <1>1

\* A parser that has done more than look for its first action has a start state.
Working == {"handler", "reduced", "error", "skip"}

LEMMA WorkingNow == Inv /\ pc \in Working => ~ NoStartState
BY DEF Inv, OnlyAtBottom, Working

LEMMA WorkingThen == Inv' /\ pc' \in Working => ~ NoStartState'
BY DEF Inv, OnlyAtBottom, Working

\* Where DoParse looks for an action the whole stack is spelled.
LEMMA ActNow ==
  ASSUME pc = "act", ~ NoStartState
  PROVE  /\ Begun /\ Depth = StackPosition /\ LookedAt = Token.Code
         /\ Recovering = ErrorPresented /\ ErrorPresented \in BOOLEAN
         /\ \A i \in 0 .. StackPosition : Path[i] = stack[i].State
<1>1. Depth = StackPosition /\ ~ Reduced
  BY DEF Depth, Thrown, Reduced
<1>2. \A i : StateAt(i) = stack[i].State
  BY <1>1 DEF StateAt
<1> QED BY <1>1, <1>2 DEF Begun, Waits, LookedAt, Recovering, ErrorPresented, Path

LEMMA ActThen ==
  ASSUME pc' = "act"
  PROVE  /\ ~ NoStartState' => Begun'
         /\ Depth' = StackPosition' /\ LookedAt' = Token'.Code
         /\ Recovering' = ErrorPresented' /\ GoesTo' /\ InHand'
         /\ \A i : StateAt(i)' = stack'[i].State
<1>1. Depth' = StackPosition' /\ ~ Reduced' /\ (~ NoStartState' => Begun')
  BY DEF Depth, Thrown, Reduced, Begun, Waits
<1>2. \A i : StateAt(i)' = stack'[i].State
  BY <1>1 DEF StateAt
<1> QED BY <1>1, <1>2 DEF LookedAt, Recovering, ErrorPresented, GoesTo, InHand

\* A step that moves nothing that is seen.
LEMMA StaysOnWalk ==
  ASSUME Inv, Inv', Following, Begun, Begun', GoesTo', Spelled' = Spelled => InHand',
         SameCursor(stream, stream'), PrevTokenIndex' = PrevTokenIndex, LookedAt' = LookedAt,
         Depth' = Depth, \A i \in 0 .. Depth : StateAt(i)' = StateAt(i)
  PROVE  /\ Following' /\ Consumed' = Consumed /\ Spelled' = Spelled
         /\ ErrorPresented' = ErrorPresented
         /\ Input' = Input /\ Outcome' = Outcome
<1>1. /\ StreamOK(stream) /\ PlacedIn(stream, PrevTokenIndex) /\ stream.Pos > 0
      /\ Consumed = Behind(stream) /\ ErrorPresented = PresentedIn(stream, PrevTokenIndex)
      /\ Depth \in Nat /\ Walk(Path, Depth) /\ Spelled = Word(Path, Depth)
      /\ IF PresentedIn(stream, PrevTokenIndex) THEN LookedAt \in ErrorTerminals
                          ELSE LookedAt = TokenAt(stream.source, stream.Pos)
      /\ Outcome = "parsing"
  BY BegunNow, ConsumedNow
<1>2. StreamOK(stream') /\ stream'.Pos = stream.Pos /\ stream'.source = stream.source
  BY DEF Inv, Typed, SameCursor
<1>3. /\ PresentedIn(stream', PrevTokenIndex') = PresentedIn(stream, PrevTokenIndex)
      /\ PlacedIn(stream', PrevTokenIndex') = PlacedIn(stream, PrevTokenIndex)
      /\ Behind(stream') = Behind(stream)
  BY CursorKept
<1>4. Path' = Path /\ Spelled' = Spelled
  <2>1. \A i \in 1 .. Depth : i \in 0 .. Depth
    BY <1>1
  <2> QED BY <2>1 DEF Path, Spelled
<1>5. /\ Following' /\ Outcome' = "parsing" /\ Consumed' = Behind(stream')
      /\ ErrorPresented' = PresentedIn(stream', PrevTokenIndex')
  BY <1>1, <1>2, <1>3, <1>4, BegunThen
<1> QED BY <1>1, <1>2, <1>3, <1>4, <1>5 DEF Input

(***************************************************************************)
(* The steps of ShiftReduce                                                *)
(***************************************************************************)

SameOutside == Input' = Input /\ Outcome' = Outcome

LEMMA Stutters ==
  ASSUME SameOutside, Consumed' = Consumed, Spelled' = Spelled, Recovering' = Recovering
  PROVE  UNCHANGED Promise!vars
BY DEF SameOutside, Input, Outcome, Promise!vars

LEMMA Attaches ==
  ASSUME Consumed = 0, Spelled = <<>>, Outcome = "parsing", Outcome' = "parsing",
         stream'.source \in Sources \union {NullSource},
         Consumed' = Consumed, Spelled' = Spelled, Recovering' = Recovering
  PROVE  Promise!Next
<1>1. Input' \in {SourceCodes[src] : src \in Sources} \union {<<>>}
  BY DEF Input
<1>2. Promise!Attach
  BY <1>1 DEF Promise!Attach, Input, Outcome
<1> QED BY <1>2 DEF Promise!Next

LEMMA Shifts ==
  ASSUME SameOutside, Outcome = "parsing", ~ Recovering, Recovering' = Recovering,
         Consumed < Len(Input), Consumed' = Consumed + 1,
         Spelled' = Append(Spelled, TerminalSymbol(Input[Consumed + 1]))
  PROVE  Promise!Next
<1>1. Promise!Shift
  BY DEF SameOutside, Input, Outcome, Promise!Shift, Promise!TerminalSymbol, TerminalSymbol
<1> QED BY <1>1 DEF Promise!Next

LEMMA Rewrites ==
  ASSUME SameOutside, Outcome = "parsing", Recovering' = Recovering, Consumed' = Consumed,
         NEW prod \in Productions, NEW left \in Lefts[prod],
         Promise!EndsWith(Spelled, Rhs[prod]),
         Spelled' = Append(SubSeq(Spelled, 1, Len(Spelled) - Len(Rhs[prod])),
                           NonTerminalSymbol(left))
  PROVE  Promise!Next
<1> DEFINE G == {[lefts |-> Lefts[p], rhs |-> Rhs[p]] : p \in Productions}
           g == [lefts |-> Lefts[prod], rhs |-> Rhs[prod]]
<1>1. g \in G /\ left \in g.lefts /\ g.rhs = Rhs[prod]
  OBVIOUS
<1> HIDE DEF g
<1>2. Promise!NonTerminalSymbol(left) = NonTerminalSymbol(left)
  BY DEF Promise!NonTerminalSymbol, NonTerminalSymbol
<1>3. \E p \in G : \E n \in p.lefts :
        /\ Promise!EndsWith(Spelled, p.rhs)
        /\ Spelled' = Append(SubSeq(Spelled, 1, Len(Spelled) - Len(p.rhs)),
                             Promise!NonTerminalSymbol(n))
  BY <1>1, <1>2
<1>4. Promise!Rewrite
  BY <1>3 DEF SameOutside, Input, Outcome, Promise!Rewrite
<1> QED BY <1>4 DEF Promise!Next

\* An error is found, or more is given up for it.
LEMMA GivesUpSome ==
  ASSUME SameOutside, Outcome = "parsing", Recovering \in BOOLEAN, Recovering' = TRUE,
         Consumed \in Nat, Len(Input) \in Nat, Consumed' \in Consumed .. Len(Input),
         Recovering \/ Consumed' = Consumed,
         NEW n \in 0 .. Len(Spelled), Spelled' = SubSeq(Spelled, 1, n)
  PROVE  Promise!Next
<1>1. CASE Recovering
  <2>1. Promise!Discard
    BY <1>1 DEF SameOutside, Input, Outcome, Promise!Discard
  <2> QED BY <2>1 DEF Promise!Next
<1>2. CASE ~ Recovering
  <2>1. Promise!FindError
    BY <1>2 DEF SameOutside, Input, Outcome, Promise!FindError
  <2> QED BY <2>1 DEF Promise!Next
<1> QED BY <1>1, <1>2

LEMMA Replaces ==
  ASSUME SameOutside, Outcome = "parsing", Recovering, Recovering' = FALSE,
         Consumed' = Consumed, NEW code \in ErrorTerminals,
         Spelled' = Append(Spelled, TerminalSymbol(code))
  PROVE  Promise!Next
<1>1. Promise!ReplaceByError
  BY DEF SameOutside, Input, Outcome, Promise!ReplaceByError, Promise!TerminalSymbol, TerminalSymbol
<1> QED BY <1>1 DEF Promise!Next

LEMMA Accepts ==
  ASSUME Input' = Input, Outcome = "parsing", Outcome' = "accepted", ~ Recovering,
         Recovering' = Recovering, Consumed = Len(Input), Consumed' = Consumed,
         NEW start \in StartSymbols, Spelled = <<NonTerminalSymbol(start)>>, Spelled' = Spelled
  PROVE  Promise!Next
<1>1. Promise!Accept
  BY DEF Input, Outcome, Promise!Accept, Promise!NonTerminalSymbol, NonTerminalSymbol
<1> QED BY <1>1 DEF Promise!Next

LEMMA Fails ==
  ASSUME Input' = Input, Outcome = "parsing", Outcome' = "failed",
         Recovering' = FALSE, Consumed' = Consumed, Spelled' = <<>>
  PROVE  Promise!Next
<1>1. Promise!Fail
  BY DEF Input, Outcome, Promise!Fail
<1> QED BY <1>1 DEF Promise!Next

(***************************************************************************)
(* The parser's steps                                                      *)
(***************************************************************************)

\* A step of the parser that ShiftReduce has too, or does not see.
Follows == Following' /\ (Promise!Next \/ UNCHANGED Promise!vars)

\* The input is that of the source.
LEMMA InputKept ==
  ASSUME stream'.source = stream.source
  PROVE  Input' = Input
BY DEF Input

\* A new parser.
LEMMA InitFollows == Init => Following /\ Promise!Init
<1> SUFFICES ASSUME Init PROVE Following /\ Promise!Init
  OBVIOUS
<1>1. StreamOK(stream) /\ stream.source = NullSource /\ stream.Pos = 0
  <2>1. NewStream(NullSource).source = NullSource /\ NewStream(NullSource).Pos = 0
    BY DEF NewStream
  <2> QED BY <2>1, InitInv DEF Init, Inv, Typed
<1>2. GetTokenIndex(stream) = 0
  BY <1>1, PlaceFacts
<1>3. PlacedIn(stream, PrevTokenIndex)
  BY <1>1, <1>2 DEF PlacedIn, PresentedIn, Init
<1>4. Waits /\ ~ Begun /\ pc # "handler"
  BY DEF Waits, Begun, Init
<1>5. Following
  BY <1>1, <1>3, <1>4 DEF Following, AtStart, Sees, OnWalk, GoesTo, InHand, Init
<1>6. /\ Consumed = 0 /\ Spelled = <<>> /\ Recovering = FALSE /\ Outcome = "parsing"
      /\ Input = <<>>
  BY <1>1, <1>4, <1>5, WaitingNow DEF Input
<1>7. Promise!Init
  BY <1>6 DEF Promise!Init, Outcome, Input
<1> QED BY <1>5, <1>7

\* A source is attached.
LEMMA SetTokenStreamFollows ==
  ASSUME Inv, Inv', Following, NEW src \in Sources \union {NullSource},
         stream.source = NullSource, pc = "idle", SetTokenStream(src)
  PROVE  Follows
<1> DEFINE flushed == ReleaseFrom(stream, StackPosition, StackPosition)
           state   == IF src = NullSource THEN InvalidState ELSE InitialState
<1>1. PICK reset : reset = ResetStream(flushed, src)
  OBVIOUS
<1>2. /\ stream' = Recording(reset, state) /\ TopState' = state /\ pc' = "idle"
      /\ PrevTokenIndex' = GetTokenIndex(reset) /\ StackPosition' = 0 /\ NextTokenFlag'
  BY <1>1 DEF SetTokenStream
<1>3. StreamOK(reset) /\ reset.Pos = 0 /\ GetTokenIndex(reset) = 0 /\ reset.source = src
  <2>1. StreamOK(stream) /\ StackPosition \in Nat
    BY TopFacts DEF Inv, Typed
  <2>2. PICK t : t = flushed
    OBVIOUS
  <2>3. StreamOK(t) /\ t.source = NullSource
    BY <2>1, <2>2, ReleasedCursor DEF SameCursor
  <2>4. StreamInv(t) /\ reset = ResetStream(t, src)
    BY <1>1, <2>2, <2>3 DEF StreamOK
  <2> QED BY <2>3, <2>4, FirstSourceOK, ResetStreamWindow
<1>4. state # InvalidState => state \in Starts
  BY DEF Starts
<1> HIDE DEF state, flushed
<1>5. /\ StreamOK(stream') /\ stream'.Pos = 0 /\ GetTokenIndex(stream') = 0
      /\ stream'.source = src
  BY <1>2, <1>3, RecordingOK
<1>6. PlacedIn(stream', PrevTokenIndex')
  BY <1>2, <1>3, <1>5 DEF PlacedIn, PresentedIn
<1>7. Waits /\ Waits'
  BY <1>2 DEF Waits
<1>8. /\ Consumed = 0 /\ Spelled = <<>> /\ Recovering = FALSE /\ Outcome = "parsing"
      /\ Consumed' = 0 /\ Spelled' = <<>> /\ Recovering' = FALSE /\ Outcome' = "parsing"
      /\ Following'
  BY <1>2, <1>4, <1>5, <1>6, <1>7, WaitingNow, WaitingThen DEF Inv, Typed
<1>9. Promise!Next
  BY <1>5, <1>8, Attaches
<1> QED BY <1>8, <1>9 DEF Follows

\* A start state chosen instead, and the call of DoParse.
LEMMA StartFollows ==
  ASSUME Inv, Inv', Following,
         DoParse \/ \E left \in NonTerminals : SetStartingProduction(left)
  PROVE  Follows
<1>1. StreamOK(stream) /\ StreamOK(stream') /\ pc = "idle" /\ Waits
  BY DEF Inv, Typed, DoParse, SetStartingProduction, Waits
<1>2. /\ Consumed = 0 /\ Spelled = <<>> /\ Recovering = FALSE /\ Outcome = "parsing"
      /\ stream.Pos = 0
  BY <1>1, WaitingNow
<1> DEFINE Chosen == /\ SameCursor(stream, stream') /\ PrevTokenIndex' = PrevTokenIndex
                     /\ StackPosition' = StackPosition /\ NextTokenFlag' = NextTokenFlag
                     /\ \/ TopState' = TopState
                        \/ TopState # InvalidState /\ TopState' \in Starts \union {EmptyGoto}
                     /\ \/ pc' = "idle" \/ (pc' = "top" /\ TopState' = TopState)
                        \/ pc' = "crashed" /\ TopState' = EmptyGoto
<1>3. Chosen
  <2>1. CASE DoParse
    BY <2>1 DEF DoParse, parserVars, SameCursor
  <2>2. ASSUME NEW left \in NonTerminals, SetStartingProduction(left)
        PROVE  Chosen
    <3> DEFINE state == StartStates[left]
    <3>1. /\ pc' \in {"idle", "crashed"} /\ TopState # InvalidState /\ TopState' = state
          /\ state \in States => state \in Starts /\ pc' = "idle"
          /\ state \notin States => state = EmptyGoto
      BY <2>2, StartChosen
    <3>2. stream' \in {stream, SetMarker(stream, GetTokenIndex(stream))}
      BY <2>2, StartChosen
    <3>3. UNCHANGED <<StackPosition, NextTokenFlag, PrevTokenIndex>>
      BY <2>2 DEF SetStartingProduction
    <3>4. SameCursor(stream, stream')
      BY <1>1, <3>2, MarkedHere DEF SameCursor
    <3> HIDE DEF state
    <3> QED BY <3>1, <3>3, <3>4
  <2> QED BY <2>1, <2>2
<1>4. PlacedIn(stream', PrevTokenIndex') /\ stream'.Pos = 0
  BY <1>2, <1>3, CursorKept DEF Following, SameCursor
<1>5. /\ StackPosition' = 0 /\ (pc' # "crashed" => Waits')
      /\ TopState' # InvalidState => NextTokenFlag' /\ TopState' \in Starts \union {EmptyGoto}
  <2>1. /\ StackPosition = 0
        /\ TopState # InvalidState => NextTokenFlag /\ TopState \in Starts \union {EmptyGoto}
    BY <1>1 DEF Following, AtStart
  <2> QED BY <1>3, <2>1 DEF Waits
<1>6. /\ Consumed' = 0 /\ Spelled' = <<>> /\ Recovering' = FALSE /\ Outcome' = "parsing"
      /\ Following'
  <2>1. CASE pc' = "crashed"
    <3>1. NoStartState'
      BY <1>3, <2>1 DEF NoStartState
    <3>2. ~ PresentedIn(stream', PrevTokenIndex')
      BY <1>1, <1>4, BehindFacts
    <3>3. pc' \in {"act", "crashed"} /\ stream'.Pos \in {0, 1}
      BY <1>4, <2>1
    <3> HIDE DEF Chosen
    <3> QED BY <1>1, <1>4, <1>5, <3>1, <3>2, <3>3, LostThen
  <2>2. CASE pc' # "crashed"
    <3> HIDE DEF Chosen
    <3> QED BY <1>1, <1>4, <1>5, <2>2, WaitingThen
  <2> QED BY <2>1, <2>2
<1>7. UNCHANGED Promise!vars
  BY <1>2, <1>3, <1>6, Stutters, InputKept DEF SameOutside, SameCursor
<1> QED BY <1>6, <1>7 DEF Follows

\* A parse that ends: whatever is left is forgotten.
LEMMA EndThen ==
  ASSUME StreamOK(stream'), PlacedIn(stream', PrevTokenIndex'), pc' \in {"accepted", "failed"}
  PROVE  /\ Following' /\ Outcome' = pc' /\ Consumed' = Behind(stream')
         /\ pc' = "failed" => Spelled' = <<>> /\ Recovering' = FALSE
<1>1. ~ Begun' /\ ~ Waits' /\ pc' # "handler"
  BY DEF Begun, Waits
<1>2. Following'
  BY <1>1 DEF Following, AtStart, Sees, OnWalk, GoesTo, InHand
<1>3. pc' = "failed" => Depth' = 0 /\ Recovering' = FALSE
  BY DEF Depth, Thrown, Recovering
<1>4. pc' = "failed" => Spelled' = <<>>
  BY <1>3 DEF Spelled
<1> QED BY <1>2, <1>3, <1>4, ConsumedThen DEF Outcome

\* A parser without tokens.
LEMMA NotReadyFollows ==
  ASSUME Inv, Inv', Following, NotReady
  PROVE  Follows
<1>1. /\ Waits /\ pc' = "failed" /\ stream' = stream /\ PrevTokenIndex' = PrevTokenIndex
      /\ StreamOK(stream) /\ StreamOK(stream')
  BY DEF NotReady, Waits, parserVars, Inv, Typed
<1>2. Outcome = "parsing" /\ Consumed = 0 /\ stream.Pos = 0
  BY <1>1, WaitingNow
<1>3. PlacedIn(stream', PrevTokenIndex')
  BY <1>1 DEF Following
<1>4. /\ Following' /\ Outcome' = "failed" /\ Consumed' = Behind(stream')
      /\ Spelled' = <<>> /\ Recovering' = FALSE
  BY <1>1, <1>3, EndThen
<1>5. Consumed' = Consumed /\ Input' = Input
  BY <1>1, <1>2, <1>4, InputKept DEF Behind
<1>6. Promise!Next
  BY <1>2, <1>4, <1>5, Fails
<1> QED BY <1>4, <1>6 DEF Follows

\* The state of the top is stored, and a token read.
LEMMA StoreTopStateFollows ==
  ASSUME Inv, Inv', Following, StoreTopState
  PROVE  /\ Follows
         /\ NextTokenFlag => ~ ErrorPresented'
         /\ ~ NextTokenFlag => ErrorPresented' = ErrorPresented
<1>1. /\ pc = "top" /\ TopState # InvalidState /\ pc' = "act"
      /\ stack' = [stack EXCEPT ![StackPosition].State = TopState]
      /\ StackPosition' = StackPosition /\ PrevTokenIndex' = PrevTokenIndex
      /\ Token' = IF NextTokenFlag THEN Read(stream) ELSE Token
      /\ stream' = IF NextTokenFlag THEN AfterNextToken(stream) ELSE stream
  BY DEF StoreTopState
<1>2. /\ ~ NoStartState' => Begun'
      /\ Depth' = StackPosition' /\ LookedAt' = Token'.Code
      /\ Recovering' = ErrorPresented' /\ GoesTo' /\ InHand'
      /\ \A i : StateAt(i)' = stack'[i].State
  BY <1>1, ActThen
<1>3. /\ stack \in Stacks /\ StackPosition \in 0 .. (StackSize - 1)
      /\ TopState \in States \union {EmptyGoto}
      /\ StreamOK(stream) /\ StreamOK(stream') /\ PrevTokenIndex \in Nat
      /\ TopState' = TopState
  BY <1>1, MaxSizeAssumption DEF Inv, Typed, StackStates, StoreTopState
<1>4. \A i \in 0 .. (StackSize - 1) :
        stack'[i].State = IF i = StackPosition THEN TopState ELSE stack[i].State
  BY <1>1, <1>3 DEF Stacks, Elements, StackStates
<1>5. CASE NextTokenFlag
  <2>1. Waits
    BY <1>1, <1>5 DEF Waits
  <2>2. /\ Consumed = 0 /\ Spelled = <<>> /\ Recovering = FALSE /\ Outcome = "parsing"
        /\ stream.Pos = 0 /\ StackPosition = 0 /\ TopState \in Starts \union {EmptyGoto}
    BY <1>1, <1>3, <2>1, WaitingNow DEF Following, AtStart
  <2>3. /\ PlacedIn(stream, PrevTokenIndex) /\ ~ PresentedIn(stream, PrevTokenIndex)
        /\ stream.source # NullSource /\ stream.Pos <= SourceLength[stream.source]
    <3>1. PlacedIn(stream, PrevTokenIndex) /\ stream.source # NullSource
      BY <1>1 DEF Following, Inv, Attached
    <3> QED BY <1>3, <2>2, <3>1, PlaceFacts, BehindFacts
  <2>4. stream' = AfterNextToken(stream) /\ Token' = Read(stream)
    BY <1>1, <1>5
  <2>5. /\ stream'.source = stream.source /\ stream'.Pos = 1
        /\ ~ PresentedIn(stream', PrevTokenIndex') /\ PlacedIn(stream', PrevTokenIndex')
        /\ Token'.Code = TokenAt(stream'.source, stream'.Pos)
    BY <1>1, <1>3, <2>2, <2>3, <2>4, ReadOn
  <2>6. /\ Consumed' = 0 /\ Spelled' = <<>> /\ Recovering' = FALSE /\ Outcome' = "parsing"
        /\ ~ ErrorPresented' /\ Following'
    <3>1. StackPosition' = 0 /\ Depth' = 0
      BY <1>1, <1>2, <2>2
    <3>2. CASE NoStartState'
      <4>1. stream'.Pos \in {0, 1} /\ pc' \in {"act", "crashed"}
        BY <1>1, <2>5
      <4> QED BY <1>3, <2>5, <3>1, <3>2, <4>1, LostThen
    <3>3. CASE ~ NoStartState'
      <4>1. TopState \in States /\ TopState \in Starts /\ Begun'
        BY <1>2, <1>3, <2>2, <3>3 DEF NoStartState
      <4> DEFINE q == [i \in 0 .. 0 |-> TopState]
      <4>2. \A i \in 0 .. 0 : StateAt(i)' = q[i]
        BY <1>2, <1>3, <1>4, <2>2
      <4>3. q = [i \in 0 .. 0 |-> q[i]]
        OBVIOUS
      <4>4. Walk(q, 0)
        BY <4>1 DEF Walk
      <4> HIDE DEF q
      <4>5. Path' = q
        BY <3>1, <4>2, <4>3, PathThen
      <4>6. /\ Following' /\ Outcome' = "parsing" /\ Consumed' = Behind(stream')
            /\ ErrorPresented' = PresentedIn(stream', PrevTokenIndex')
        BY <1>2, <1>3, <2>5, <3>1, <4>1, <4>4, <4>5, BegunThen
      <4> QED BY <1>2, <2>5, <3>1, <4>6 DEF Behind, Spelled
    <3> QED BY <3>2, <3>3
  <2>7. UNCHANGED Promise!vars
    BY <2>2, <2>5, <2>6, Stutters, InputKept DEF SameOutside
  <2> QED BY <1>5, <2>6, <2>7 DEF Follows
<1>6. CASE ~ NextTokenFlag
  <2>7. ~ NoStartState
    <3>1. NoStartState => Waits
      BY <1>1 DEF Waits
    <3> QED BY <1>1, <1>6, <3>1 DEF Following, AtStart
  <2>1. Begun /\ Reduced
    BY <1>1, <1>6, <2>7 DEF Begun, Waits, Reduced
  <2>2. Depth = StackPosition /\ LookedAt = Token.Code /\ Recovering = ErrorPresented
    BY <1>1 DEF Depth, Thrown, LookedAt, Recovering, ErrorPresented
  <2>3. ASSUME NEW i \in 0 .. Depth
        PROVE  StateAt(i)' = StateAt(i)
    <3>1. StateAt(i) = IF i = StackPosition THEN TopState ELSE stack[i].State
      BY <2>1 DEF StateAt
    <3>2. i \in 0 .. (StackSize - 1)
      BY <1>3, <2>2, StackAssumption
    <3> QED BY <1>2, <1>4, <3>1, <3>2
  <2>4. SameCursor(stream, stream') /\ LookedAt' = LookedAt /\ Depth' = Depth
    BY <1>1, <1>2, <1>6, <2>2 DEF SameCursor
  <2>5. /\ Following' /\ Consumed' = Consumed /\ Spelled' = Spelled
        /\ ErrorPresented' = ErrorPresented /\ Input' = Input /\ Outcome' = Outcome
    <3>1. ~ NoStartState'
      BY <1>3, <2>7 DEF NoStartState
    <3> QED BY <1>1, <1>2, <2>1, <2>3, <2>4, <3>1, StaysOnWalk
  <2>6. UNCHANGED Promise!vars
    BY <1>2, <2>2, <2>5, Stutters DEF SameOutside
  <2> QED BY <1>6, <2>5, <2>6 DEF Follows
<1> QED BY <1>5, <1>6

\* No start state: the parser gets no further.
LEMMA ReadsOutOfRangeFollows ==
  ASSUME Inv, Inv', Following, ReadsOutOfRange
  PROVE  Follows
<1>1. /\ pc = "act" /\ pc' = "crashed"
      /\ UNCHANGED <<stream, stack, StackPosition, TopState, PrevTokenIndex>>
  BY DEF ReadsOutOfRange, parserVars
<1>2. Input' = Input /\ Consumed' = Consumed /\ ErrorPresented' = ErrorPresented
  BY <1>1, InputKept DEF Consumed, ErrorPresented
<1>3. /\ Depth' = Depth
      /\ \A i : StateAt(i)' = StateAt(i)
  BY <1>1 DEF Depth, Thrown, StateAt, Reduced
<1>4. Spelled' = Spelled
  BY <1>3 DEF Spelled
<1>5. Recovering' = Recovering /\ Outcome' = Outcome
  BY <1>1, <1>2 DEF Recovering, Outcome
<1>6. UNCHANGED Promise!vars
  BY <1>2, <1>4, <1>5, Stutters DEF SameOutside
<1>7. Following'
  <2>1. ~ Waits' /\ ~ Begun' /\ pc' # "handler"
    BY <1>1 DEF Begun, Waits
  <2>2. PlacedIn(stream', PrevTokenIndex')
    BY <1>1 DEF Following
  <2> QED BY <2>1, <2>2 DEF Following, AtStart, Sees, OnWalk, GoesTo, InHand
<1> QED BY <1>6, <1>7 DEF Follows

\* A symbol is pushed, and the token after it read: the next one, or the one
\* again that an error stood for.
LEMMA PushFollows ==
  ASSUME Inv, Inv', Following, pc = "act", NEW s, StreamOK(s), SameCursor(stream, s),
         NEW state \in States, Leads(TopElement.State, state), Push(s, state),
         ErrorPresented \/ stream.Pos <= Len(Input), ~ NoStartState
  PROVE  /\ Following' /\ Outcome' = Outcome /\ Input' = Input /\ Recovering' = FALSE
         /\ ~ ErrorPresented'
         /\ ErrorPresented => Consumed' = Consumed
         /\ ~ ErrorPresented => Consumed' = Consumed + 1
         /\ Spelled' = Append(Spelled, EntrySymbol[state])
<1> DEFINE p == StackPosition + 1
           e == [State |-> state, TerminalMarker |-> MarkerFor(s, state), Held |-> TRUE]
<1>0. ~ NoStartState /\ ~ NoStartState'
  BY DEF Push, NoStartState
<1>1. PICK r : r = Recording(s, state)
  OBVIOUS
<1>2. /\ p < StackSize /\ StackPosition' = p /\ pc' = "act"
      /\ stack' = Written(stack, p, e) /\ PrevTokenIndex' = PrevTokenIndex
      /\ stream' = AfterNextToken(r) /\ Token' = Read(r)
  BY <1>1 DEF Push, Written
<1>3. StreamOK(r) /\ SameCursor(stream, r) /\ MarkerFor(s, state) \in 0 .. MaxSize
  BY <1>1, RecordingOK DEF SameCursor
<1>4. /\ Begun /\ Depth = StackPosition /\ LookedAt = Token.Code
      /\ \A i \in 0 .. StackPosition : Path[i] = stack[i].State
  BY <1>0, ActNow
<1>5. /\ StreamOK(stream) /\ stream.source \in Sources /\ stream.source # NullSource
      /\ SourceLength[stream.source] = Len(Input) /\ Len(Input) \in Nat
      /\ stream.Pos \in Nat /\ stream.Pos > 0 /\ Consumed = stream.Pos - 1
      /\ ErrorPresented = PresentedIn(stream, PrevTokenIndex)
      /\ PlacedIn(stream, PrevTokenIndex) /\ PrevTokenIndex \in Nat
      /\ Outcome = "parsing"
      /\ Depth \in Nat /\ Walk(Path, Depth) /\ Spelled = Word(Path, Depth)
  BY <1>4, BegunNow
<1>6. /\ PresentedIn(r, PrevTokenIndex) = ErrorPresented /\ PlacedIn(r, PrevTokenIndex)
      /\ r.source = stream.source /\ r.Pos = stream.Pos
  BY <1>3, <1>5, CursorKept DEF SameCursor
<1>7. /\ stream'.source = stream.source
      /\ stream'.Pos = IF ErrorPresented THEN stream.Pos ELSE stream.Pos + 1
      /\ ~ PresentedIn(stream', PrevTokenIndex') /\ PlacedIn(stream', PrevTokenIndex')
      /\ Token'.Code = TokenAt(stream'.source, stream'.Pos)
  <2>1. CASE ErrorPresented
    <3>1. r.source # NullSource /\ PresentedIn(r, PrevTokenIndex) /\ PlacedIn(r, PrevTokenIndex)
      BY <1>5, <1>6, <2>1
    <3>2. PICK t : t = AfterNextToken(r)
      OBVIOUS
    <3>3. /\ t.source = r.source /\ t.Pos = r.Pos
          /\ ~ PresentedIn(t, PrevTokenIndex) /\ PlacedIn(t, PrevTokenIndex)
          /\ Read(r).Code = TokenAt(t.source, t.Pos)
      BY <1>3, <3>1, <3>2, ReadAgain
    <3> QED BY <1>2, <1>6, <2>1, <3>2, <3>3
  <2>2. CASE ~ ErrorPresented
    <3>1. r.Pos <= SourceLength[r.source]
      BY <1>5, <1>6, <2>2
    <3> QED BY <1>2, <1>3, <1>5, <1>6, <2>2, <3>1, ReadOn
  <2> QED BY <2>1, <2>2
<1>8. /\ Begun' /\ Depth' = StackPosition' /\ LookedAt' = Token'.Code
      /\ Recovering' = ErrorPresented' /\ GoesTo' /\ InHand'
      /\ \A i : StateAt(i)' = stack'[i].State
  BY <1>0, <1>2, ActThen
<1>9. stack'[p] = e /\ \A i \in 0 .. (StackSize - 1) : i # p => stack'[i] = stack[i]
  <2>1. e \in Elements
    BY <1>3 DEF Elements, StackStates
  <2>2. stack \in Stacks /\ p \in 0 .. (StackSize - 1)
    BY <1>2, TopFacts DEF Inv, Typed
  <2> HIDE DEF e, p
  <2> QED BY <1>2, <2>1, <2>2, WrittenElement
<1> DEFINE n == Depth
           q == [i \in 0 .. (n + 1) |-> IF i = n + 1 THEN state ELSE Path[i]]
<1>10. Walk(q, n + 1) /\ Word(q, n + 1) = Append(Spelled, EntrySymbol[state])
  <2>1. n \in Nat /\ Walk(Path, n) /\ n \in 0 .. StackPosition
    BY <1>4, <1>5
  <2>2. Leads(Path[n], state)
    BY <1>4, <2>1 DEF TopElement
  <2> HIDE DEF n
  <2>3. PICK r1 : r1 = q
    OBVIOUS
  <2>4. Walk(r1, n + 1) /\ Word(r1, n + 1) = Append(Word(Path, n), EntrySymbol[state])
    BY <2>1, <2>2, <2>3, ExtendedAtEnd DEF Grown
  <2> QED BY <1>5, <2>3, <2>4 DEF n
<1>11. Depth' = n + 1 /\ n + 1 \in Nat /\ Path' = q
  <2>1. Depth' = n + 1 /\ n + 1 \in Nat
    BY <1>2, <1>4, <1>5, <1>8
  <2>2. ASSUME NEW i \in 0 .. (n + 1) PROVE StateAt(i)' = q[i]
    <3>1. CASE i = n + 1
      BY <1>4, <1>8, <1>9, <3>1
    <3>2. CASE i # n + 1
      <4>1. i \in 0 .. StackPosition /\ i # p /\ i \in 0 .. (StackSize - 1)
        BY <1>2, <1>4, <1>5, <3>2, TopFacts
      <4> QED BY <1>4, <1>8, <1>9, <3>2, <4>1
    <3> QED BY <3>1, <3>2
  <2>3. q = [i \in 0 .. (n + 1) |-> q[i]]
    OBVIOUS
  <2> HIDE DEF q, n
  <2> QED BY <2>1, <2>2, <2>3, PathThen
<1>12. stream'.Pos > 0 /\ StreamOK(stream')
  BY <1>5, <1>7 DEF Inv, Typed
<1> HIDE DEF q, n, e, p
<1>13. /\ Following' /\ Outcome' = "parsing" /\ Consumed' = Behind(stream')
       /\ ErrorPresented' = PresentedIn(stream', PrevTokenIndex')
       /\ Spelled' = Word(Path', Depth')
  BY <1>7, <1>8, <1>10, <1>11, <1>12, BegunThen
<1>14. Consumed' = IF ErrorPresented THEN Consumed ELSE Consumed + 1
  BY <1>5, <1>7, <1>13 DEF Behind
<1> QED BY <1>5, <1>7, <1>8, <1>10, <1>11, <1>13, <1>14, InputKept

\* What a shift is on.
LEMMA ShiftEntry ==
  ASSUME TableOfGrammar, Inv, Action.kind = "shift"
  PROVE  /\ Token.Code \in Terminals /\ Action.arg \in States
         /\ Leads(TopElement.State, Action.arg)
         /\ EntrySymbol[Action.arg] = TerminalSymbol(Token.Code)
<1>1. Token.Code \in Terminals /\ GetAction(TopElement.State, Token.Code).kind = "shift"
  BY TopFacts DEF Action
<1>2. Action.arg \in States /\ Leads(TopElement.State, Action.arg)
  BY <1>1, ActionFacts DEF Action
<1>3. EntrySymbol[Action.arg] = TerminalSymbol(Token.Code)
  BY <1>1, EnteredOn DEF Action
<1> QED BY <1>1, <1>2, <1>3

\* A token shifted.
LEMMA ShiftFollows ==
  ASSUME Suitable, Inv, Inv', Following, Shift
  PROVE  Follows /\ ~ ErrorPresented'
<1>1. /\ pc = "act" /\ Action.kind = "shift" /\ Push(stream, Action.arg)
      /\ Token.Code \notin ErrorTerminals
  BY DEF Shift
<1>2. /\ Begun /\ LookedAt = Token.Code
      /\ Recovering = ErrorPresented /\ ErrorPresented \in BOOLEAN
  BY <1>1, ActNow, TopFacts
<1>3. /\ Token.Code \in Terminals /\ Action.arg \in States
      /\ Leads(TopElement.State, Action.arg)
      /\ EntrySymbol[Action.arg] = TerminalSymbol(Token.Code)
  BY <1>1, ShiftEntry DEF Suitable
<1>4. Token.Code # TokenEOF
  BY <1>1, <1>3, ActionFacts DEF Action, GetAction, Suitable, TableOfGrammar, EndIsNoSymbol
<1>5. /\ ~ ErrorPresented /\ stream.Pos <= Len(Input) /\ LookedAt = Input[stream.Pos]
      /\ Consumed = stream.Pos - 1 /\ stream.Pos \in Nat /\ Len(Input) \in Nat
      /\ StreamOK(stream) /\ Outcome = "parsing"
  BY <1>1, <1>2, <1>4, BegunNow
<1>6. SameCursor(stream, stream)
  BY DEF SameCursor
<1>7. /\ Following' /\ Outcome' = Outcome /\ Input' = Input /\ Recovering' = FALSE
      /\ ~ ErrorPresented' /\ Consumed' = Consumed + 1
      /\ Spelled' = Append(Spelled, EntrySymbol[Action.arg])
  BY <1>1, <1>3, <1>5, <1>6, PushFollows, TopFacts
<1>8. Spelled' = Append(Spelled, TerminalSymbol(Input[Consumed + 1])) /\ Consumed < Len(Input)
  <2>1. Consumed + 1 = stream.Pos /\ stream.Pos - 1 < Len(Input)
    BY <1>5
  <2>2. Token.Code = Input[Consumed + 1]
    BY <1>2, <1>5, <2>1
  <2> QED BY <1>3, <1>5, <1>7, <2>1, <2>2
<1>9. Promise!Next
  <2>1. Recovering = FALSE
    BY <1>2, <1>5
  <2> QED BY <1>5, <1>7, <1>8, <2>1, Shifts DEF SameOutside
<1> QED BY <1>7, <1>9 DEF Follows

\* An error shifted, or a token whose code is an error's.
LEMMA ShiftErrorFollows ==
  ASSUME Suitable, Inv, Inv', Following, NEW n \in 0 .. RecordedLength, ShiftError(n)
  PROVE  Follows /\ ~ ErrorPresented'
<1>1. PICK s : s = AfterErrorData(n, Action.arg)
  OBVIOUS
<1>2. /\ pc = "act" /\ Action.kind = "shift" /\ Push(s, Action.arg)
      /\ Token.Code \in ErrorTerminals
  BY <1>1 DEF ShiftError
<1>3. /\ Begun /\ LookedAt = Token.Code
      /\ Recovering = ErrorPresented /\ ErrorPresented \in BOOLEAN
  BY <1>2, ActNow, TopFacts
<1>4. /\ Token.Code \in Terminals /\ Action.arg \in States
      /\ Leads(TopElement.State, Action.arg)
      /\ EntrySymbol[Action.arg] = TerminalSymbol(Token.Code)
  BY <1>2, ShiftEntry DEF Suitable
<1>5. Token.Code # TokenEOF
  BY <1>2 DEF Suitable, TableOfGrammar, EndIsNoSymbol
<1>6. /\ ~ ErrorPresented => stream.Pos <= Len(Input) /\ LookedAt = Input[stream.Pos]
      /\ Consumed = stream.Pos - 1 /\ stream.Pos \in Nat /\ Len(Input) \in Nat
      /\ StreamOK(stream) /\ stream.source # NullSource /\ Outcome = "parsing"
  BY <1>3, <1>5, BegunNow
<1>7. StreamOK(s) /\ SameCursor(stream, s)
  <2>1. n \in Nat
    <3>1. RecordedLength \in Nat
      BY <1>6, BufferedLengthType DEF RecordedLength, StreamOK
    <3> QED BY <3>1
  <2>2. StreamOK(s) /\ s.source = stream.source
    BY <1>1, <1>6, <2>1, AfterErrorDataOK DEF SameTokens
  <2>3. s.Pos = stream.Pos /\ GetTokenIndex(s) = GetTokenIndex(stream)
    BY <1>1, <1>6, PutBack DEF Suitable
  <2> QED BY <2>2, <2>3 DEF SameCursor
<1>8. /\ Following' /\ Outcome' = Outcome /\ Input' = Input /\ Recovering' = FALSE
      /\ ~ ErrorPresented'
      /\ ErrorPresented => Consumed' = Consumed
      /\ ~ ErrorPresented => Consumed' = Consumed + 1
      /\ Spelled' = Append(Spelled, EntrySymbol[Action.arg])
  BY <1>2, <1>4, <1>6, <1>7, PushFollows, TopFacts
<1>9. CASE ErrorPresented
  <2>1. Promise!Next
    BY <1>2, <1>3, <1>4, <1>6, <1>8, <1>9, Replaces DEF SameOutside
  <2> QED BY <1>8, <2>1 DEF Follows
<1>10. CASE ~ ErrorPresented
  <2>1. Spelled' = Append(Spelled, TerminalSymbol(Input[Consumed + 1])) /\ Consumed < Len(Input)
    <3>1. Consumed + 1 = stream.Pos
      BY <1>6
    <3> QED BY <1>3, <1>4, <1>6, <1>8, <1>10, <3>1
  <2>2. Promise!Next
    <3>1. Recovering = FALSE
      BY <1>3, <1>10
    <3> QED BY <1>6, <1>8, <1>10, <2>1, <3>1, Shifts DEF SameOutside
  <2> QED BY <1>8, <2>2 DEF Follows
<1> QED BY <1>9, <1>10

\* The parse accepts.
LEMMA AcceptFollows ==
  ASSUME Suitable, Inv, Inv', Following, Accept
  PROVE  Follows
<1>1. /\ pc = "act" /\ Action.kind = "accept" /\ pc' = "accepted"
      /\ UNCHANGED <<stream, stack, StackPosition, TopState, NextTokenFlag, PrevTokenIndex>>
  BY DEF Accept, parserVars
<1>2. /\ Begun /\ Depth = StackPosition /\ LookedAt = Token.Code
      /\ Recovering = ErrorPresented /\ ErrorPresented \in BOOLEAN
      /\ \A i \in 0 .. StackPosition : Path[i] = stack[i].State
  BY <1>1, ActNow, TopFacts
<1>3. /\ StreamOK(stream) /\ PlacedIn(stream, PrevTokenIndex) /\ Outcome = "parsing"
      /\ Depth \in Nat /\ Walk(Path, Depth) /\ Spelled = Word(Path, Depth)
      /\ Consumed = stream.Pos - 1 /\ stream.Pos \in Nat /\ Len(Input) \in Nat
      /\ ErrorPresented => LookedAt \in ErrorTerminals
      /\ ~ ErrorPresented /\ LookedAt = TokenEOF => stream.Pos = Len(Input) + 1
  BY <1>2, BegunNow DEF Suitable
<1>4. Token.Code \in Terminals /\ GetAction(Path[Depth], Token.Code).kind = "accept"
  <2>1. StackPosition \in 0 .. StackPosition
    BY TopFacts
  <2> QED BY <1>1, <1>2, <2>1, TopFacts DEF Action, TopElement
<1>5. PICK start \in StartSymbols : Spelled = <<NonTerminalSymbol(start)>>
  BY <1>3, <1>4, AcceptsWord DEF Suitable
<1>6. LookedAt = TokenEOF
  BY <1>2, <1>3, <1>4, AcceptsWord DEF Suitable
<1>7. ~ ErrorPresented /\ Consumed = Len(Input)
  BY <1>3, <1>6 DEF Suitable, TableOfGrammar, EndIsNoSymbol
<1>8. StreamOK(stream') /\ PlacedIn(stream', PrevTokenIndex')
  BY <1>1, <1>3
<1>9. /\ Following' /\ Outcome' = "accepted" /\ Consumed' = Behind(stream')
  BY <1>1, <1>8, EndThen
<1>10. Spelled' = Spelled /\ Recovering' = FALSE /\ Consumed' = Consumed /\ Input' = Input
  <2>1. Depth' = Depth /\ \A i : StateAt(i)' = StateAt(i)
    BY <1>1 DEF Depth, Thrown, StateAt, Reduced
  <2>2. ErrorPresented' = ErrorPresented
    BY <1>1 DEF ErrorPresented
  <2> QED BY <1>1, <1>7, <2>1, <2>2 DEF Spelled, Recovering, Consumed, Input
<1>11. Promise!Next
  <2>1. Recovering = FALSE
    BY <1>2, <1>7
  <2> QED BY <1>3, <1>5, <1>7, <1>9, <1>10, <2>1, Accepts
<1> QED BY <1>9, <1>11 DEF Follows

\* What a reduction is of.
LEMMA ReduceEntry ==
  ASSUME TableOfGrammar, Inv, Following, pc = "act", Action.kind = "reduce"
  PROVE  /\ Action.arg \in Productions
         /\ ReducedProd.Length = Len(Rhs[Action.arg])
         /\ ReducedProd.Length \in Nat /\ ReducedProd.Length <= StackPosition
         /\ ReducedProd.Left \in Lefts[Action.arg]
         /\ Promise!EndsWith(Spelled, Rhs[Action.arg])
<1>1. /\ Begun /\ Depth = StackPosition
      /\ \A i \in 0 .. StackPosition : Path[i] = stack[i].State
  BY ActNow, TopFacts
<1>2. Depth \in Nat /\ Walk(Path, Depth) /\ Spelled = Word(Path, Depth)
  BY <1>1, BegunNow
<1>3. /\ Token.Code \in Terminals /\ ReducedProd.Length \in Nat
      /\ ReducedProd.Length <= StackPosition
  BY TopFacts
<1>4. GetAction(Path[Depth], Token.Code) = Action
  <2>1. StackPosition \in 0 .. StackPosition
    BY TopFacts
  <2> QED BY <1>1, <2>1 DEF Action, TopElement
<1>5. ReduceProductions[Action.arg].Length <= Depth
  BY <1>1, <1>3 DEF ReducedProd
<1>6. /\ Action.arg \in Productions
      /\ ReduceProductions[Action.arg].Length = Len(Rhs[Action.arg])
      /\ ReduceProductions[Action.arg].Left \in Lefts[Action.arg]
      /\ Promise!EndsWith(Word(Path, Depth), Rhs[Action.arg])
  <2>1. PICK n, path, entry : n = Depth /\ path = Path /\ entry = Action
    OBVIOUS
  <2>2. /\ n \in Nat /\ Walk(path, n) /\ entry = GetAction(path[n], Token.Code)
        /\ entry.kind = "reduce" /\ ReduceProductions[entry.arg].Length <= n
    BY <1>2, <1>4, <1>5, <2>1
  <2>3. /\ entry.arg \in Productions
        /\ ReduceProductions[entry.arg].Length = Len(Rhs[entry.arg])
        /\ ReduceProductions[entry.arg].Left \in Lefts[entry.arg]
        /\ Promise!EndsWith(Word(path, n), Rhs[entry.arg])
    BY <1>3, <2>2, SpellsRightHandSide
  <2> QED BY <2>1, <2>3
<1> QED BY <1>2, <1>3, <1>6 DEF ReducedProd

\* A right hand side becomes a left hand side.
LEMMA RewrittenFollows ==
  ASSUME Suitable, Inv, Inv', Following, Begun, Recovering = ErrorPresented,
         NEW prod \in Productions, NEW left \in Lefts[prod],
         Promise!EndsWith(Spelled, Rhs[prod]), Len(Rhs[prod]) \in Nat,
         NEW m \in Nat, m = Depth - Len(Rhs[prod]),
         pc' = "reduced", SameCursor(stream, stream'), PrevTokenIndex' = PrevTokenIndex,
         LookedAt' = LookedAt, StackPosition' = m + 1, ~ NextTokenFlag',
         TopState' # InvalidState, TopState' = GetLeftReduceState(Path[m], left),
         \A i \in 0 .. m : stack'[i].State = Path[i]
  PROVE  Follows
<1>1. /\ StreamOK(stream) /\ PlacedIn(stream, PrevTokenIndex) /\ stream.Pos > 0
      /\ Consumed = Behind(stream) /\ ErrorPresented = PresentedIn(stream, PrevTokenIndex)
      /\ Depth \in Nat /\ Walk(Path, Depth) /\ Spelled = Word(Path, Depth)
      /\ Len(Spelled) = Depth
      /\ IF PresentedIn(stream, PrevTokenIndex) THEN LookedAt \in ErrorTerminals
                          ELSE LookedAt = TokenAt(stream.source, stream.Pos)
      /\ Outcome = "parsing"
  BY BegunNow, ConsumedNow
<1>2. /\ StreamOK(stream') /\ stream'.Pos = stream.Pos /\ stream'.source = stream.source
      /\ PresentedIn(stream', PrevTokenIndex') = PresentedIn(stream, PrevTokenIndex)
      /\ PlacedIn(stream', PrevTokenIndex') = PlacedIn(stream, PrevTokenIndex)
      /\ Behind(stream') = Behind(stream)
  BY CursorKept DEF Inv, Typed, SameCursor
<1>3. left \in NonTerminals
  BY TableAssumption
<1>4. /\ TopState' \in States /\ Leads(Path[m], TopState')
      /\ EntrySymbol[TopState'] = NonTerminalSymbol(left)
  BY <1>3, GotoLeads, EnteredOn DEF Suitable
<1> DEFINE n == Depth
           q == [i \in 0 .. (m + 1) |-> IF i = m + 1 THEN TopState' ELSE Path[i]]
<1>5. /\ Walk(q, m + 1)
      /\ Word(q, m + 1) = Append(SubSeq(Spelled, 1, m), NonTerminalSymbol(left))
  <2>1. n \in Nat /\ Walk(Path, n) /\ m \in 0 .. n
    BY <1>1
  <2>2. PICK r : r = q
    OBVIOUS
  <2>3. PICK state : state = TopState'
    OBVIOUS
  <2>4. PICK path : path = Path
    OBVIOUS
  <2>5. PICK k : k = n
    OBVIOUS
  <2>6. r = Grown(path, m, state)
    BY <2>2, <2>3, <2>4 DEF Grown
  <2>7. k \in Nat /\ Walk(path, k) /\ m \in 0 .. k /\ state \in States /\ Leads(path[m], state)
    BY <1>4, <2>1, <2>3, <2>4, <2>5
  <2> HIDE DEF q, n
  <2>8. Walk(r, m + 1) /\ Word(r, m + 1) = Append(SubSeq(Word(path, k), 1, m), EntrySymbol[state])
    BY <2>6, <2>7, Extended
  <2> QED BY <1>1, <1>4, <2>2, <2>3, <2>4, <2>5, <2>8 DEF n
<1>6. Begun' /\ Reduced' /\ Depth' = m + 1 /\ InHand'
  BY WorkingThen DEF Working, Begun, Waits, Reduced, Depth, Thrown, InHand
<1>7. GoesTo'
  BY DEF GoesTo
<1>8. Path' = q
  <2>1. ASSUME NEW i \in 0 .. (m + 1) PROVE StateAt(i)' = q[i]
    <3>1. CASE i = m + 1
      BY <1>6, <3>1 DEF StateAt
    <3>2. CASE i # m + 1
      <4>1. i \in 0 .. m
        BY <3>2
      <4> QED BY <3>2, <4>1 DEF StateAt
    <3> QED BY <3>1, <3>2
  <2>2. q = [i \in 0 .. (m + 1) |-> q[i]]
    OBVIOUS
  <2> HIDE DEF q
  <2>3. PICK top : top = m + 1
    OBVIOUS
  <2>4. Depth' = top /\ q = [i \in 0 .. top |-> q[i]] /\ \A i \in 0 .. top : StateAt(i)' = q[i]
    BY <1>6, <2>1, <2>2, <2>3
  <2> QED BY <2>4, PathThen
<1> HIDE DEF q, n
<1>9. /\ Following' /\ Outcome' = "parsing" /\ Consumed' = Behind(stream')
      /\ ErrorPresented' = PresentedIn(stream', PrevTokenIndex')
      /\ Spelled' = Word(Path', Depth')
  <2>1. Depth' \in Nat /\ Walk(Path', Depth')
    BY <1>5, <1>6, <1>8
  <2>2. IF PresentedIn(stream', PrevTokenIndex') THEN LookedAt' \in ErrorTerminals
                            ELSE LookedAt' = TokenAt(stream'.source, stream'.Pos)
    BY <1>1, <1>2
  <2>3. PlacedIn(stream', PrevTokenIndex') /\ stream'.Pos > 0 /\ StreamOK(stream')
    BY <1>1, <1>2
  <2> QED BY <1>6, <1>7, <2>1, <2>2, <2>3, BegunThen
<1>10. Recovering' = Recovering
  <2>1. Recovering' = ErrorPresented'
    BY DEF Recovering, ErrorPresented
  <2> QED BY <1>1, <1>2, <1>9, <2>1
<1>11. Spelled' = Append(SubSeq(Spelled, 1, Len(Spelled) - Len(Rhs[prod])), NonTerminalSymbol(left))
  BY <1>1, <1>5, <1>6, <1>8, <1>9
<1>12. Promise!Next
  BY <1>1, <1>2, <1>9, <1>10, <1>11, Rewrites, InputKept DEF SameOutside
<1> QED BY <1>9, <1>12 DEF Follows

\* A reduction neither moves the cursor nor changes a state.
LEMMA ReduceKeeps ==
  ASSUME Inv, Reduce
  PROVE  /\ SameCursor(stream, stream')
         /\ \A i \in 0 .. StackPosition : stack'[i].State = stack[i].State
<1> DEFINE len == ReducedProd.Length
           p   == ReducedPosition
<1>1. /\ len = 0 => /\ stream' = Recording(stream, ReducedState)
                    /\ stack' = [stack EXCEPT ![p].TerminalMarker =
                                                MarkerFor(stream, ReducedState)]
      /\ len # 0 => /\ stream' = ReleaseFrom(stream, StackPosition, len)
                    /\ stack' = stack
  BY DEF Reduce, MarkersReleased
<1>2. /\ len \in Nat /\ StackPosition \in Nat /\ StackPosition < StackSize
      /\ StackSize \in Nat /\ p = StackPosition + 1 - len /\ p < StackSize
  BY TopFacts DEF Reduce, ReducedPosition
<1> HIDE DEF len, p
<1>3. StreamOK(stream) /\ stack \in Stacks
  BY DEF Inv, Typed
<1>4. CASE len = 0
  <2>1. stream' = Recording(stream, ReducedState)
    BY <1>1, <1>4
  <2>2. SameCursor(stream, stream')
    BY <1>3, <2>1, RecordingOK DEF SameCursor
  <2>3. \A i \in 0 .. StackPosition : i \in 0 .. (StackSize - 1)
    BY <1>2
  <2>4. \A i \in 0 .. StackPosition : stack'[i].State = stack[i].State
    BY <1>1, <1>2, <1>3, <1>4, <2>3 DEF Stacks, Elements
  <2> QED BY <2>2, <2>4
<1>5. CASE len # 0
  <2>1. PICK r : r = ReleaseFrom(stream, StackPosition, len)
    OBVIOUS
  <2>2. SameCursor(stream, r)
    BY <1>2, <1>3, <2>1, ReleasedCursor
  <2> QED BY <1>1, <1>5, <2>1, <2>2
<1> QED BY <1>4, <1>5

\* A reduction: done, or in the hands of the handler.
LEMMA ReduceFollows ==
  ASSUME Suitable, Inv, Inv', Following, Reduce
  PROVE  Follows
<1> DEFINE len == ReducedProd.Length
           p   == ReducedPosition
           m   == StackPosition - len
<1>1. /\ pc = "act" /\ Action.kind = "reduce" /\ ReducedState # InvalidState
      /\ p < StackSize /\ StackPosition' = p /\ TopState' = ReducedState
      /\ reducing' = Action.arg /\ ReduceLeft' = ReducedProd.Left /\ NextTokenFlag' = FALSE
      /\ pc' = IF ReducedProd.NotReported THEN "reduced" ELSE "handler"
      /\ Token' = Token /\ PrevTokenIndex' = PrevTokenIndex
      /\ len = 0 => /\ stream' = Recording(stream, ReducedState)
                    /\ stack' = [stack EXCEPT ![p].TerminalMarker =
                                                MarkerFor(stream, ReducedState)]
      /\ len # 0 => /\ stream' = ReleaseFrom(stream, StackPosition, len)
                    /\ stack' = stack
  BY DEF Reduce, MarkersReleased
<1>2. /\ Begun /\ Depth = StackPosition /\ LookedAt = Token.Code
      /\ Recovering = ErrorPresented
      /\ \A i \in 0 .. StackPosition : Path[i] = stack[i].State
  BY <1>1, ActNow, TopFacts
<1>3. /\ Action.arg \in Productions /\ len = Len(Rhs[Action.arg]) /\ len \in Nat
      /\ len <= StackPosition /\ ReducedProd.Left \in Lefts[Action.arg]
      /\ Promise!EndsWith(Spelled, Rhs[Action.arg])
  BY <1>1, ReduceEntry DEF Suitable
<1>4. StackPosition \in Nat /\ StackPosition < StackSize /\ StackSize \in Nat
  BY TopFacts
<1>5. /\ m \in Nat /\ p = m + 1 /\ p - 1 = m
      /\ \A i \in 0 .. m : i \in 0 .. StackPosition
      /\ \A i \in 0 .. StackPosition : i \in 0 .. (StackSize - 1)
  BY <1>3, <1>4 DEF ReducedPosition
<1>6. ReducedState = GetLeftReduceState(stack[m].State, ReducedProd.Left)
  BY <1>5 DEF ReducedState
<1> HIDE DEF len, p, m
<1>7. SameCursor(stream, stream')
  BY ReduceKeeps
<1>8. \A i \in 0 .. StackPosition : stack'[i].State = stack[i].State
  BY ReduceKeeps
<1>9. CASE ReducedProd.NotReported
  <2>1. pc' = "reduced" /\ LookedAt' = LookedAt
    BY <1>1, <1>2, <1>9 DEF LookedAt
  <2>2. m = Depth - Len(Rhs[Action.arg]) /\ StackPosition' = m + 1
    BY <1>1, <1>2, <1>3, <1>5 DEF m
  <2>3. /\ TopState' # InvalidState
        /\ TopState' = GetLeftReduceState(Path[m], ReducedProd.Left)
        /\ \A i \in 0 .. m : stack'[i].State = Path[i]
    <3>1. m \in 0 .. StackPosition
      BY <1>5
    <3> QED BY <1>1, <1>2, <1>5, <1>6, <1>8, <3>1
  <2> QED BY <1>1, <1>2, <1>3, <1>5, <1>7, <2>1, <2>2, <2>3, RewrittenFollows
<1>10. CASE ~ ReducedProd.NotReported
  <2>1. pc' = "handler" /\ Begun' /\ ~ Reduced' /\ LookedAt' = LookedAt /\ GoesTo'
    BY <1>1, <1>2, <1>5, <1>10, WorkingThen
       DEF Working, Begun, Waits, Reduced, LookedAt, GoesTo
  <2>2. ReduceProductions[reducing'].Length = len
    BY <1>1 DEF ReducedProd, len
  <2>3. Depth' = Depth
    <3>1. Depth' = StackPosition' + ReduceProductions[reducing'].Length - 1
      BY <2>1 DEF Depth, Thrown
    <3> QED BY <1>1, <1>2, <1>3, <1>4, <1>5, <2>2, <3>1 DEF m
  <2>4. \A i \in 0 .. Depth : StateAt(i)' = StateAt(i)
    <3>1. ~ Reduced
      BY <1>1 DEF Reduced
    <3> QED BY <1>2, <1>8, <2>1, <3>1 DEF StateAt
  <2>5. Spelled' = Spelled => InHand'
    <3>1. stack'[StackPosition' - 1].State = stack[m].State
      <4>1. m \in 0 .. StackPosition /\ StackPosition' - 1 = m
        BY <1>1, <1>5
      <4> QED BY <1>8, <4>1
    <3> QED BY <1>1, <1>3, <1>6, <2>2, <3>1 DEF InHand
  <2>6. /\ Following' /\ Consumed' = Consumed /\ Spelled' = Spelled
        /\ ErrorPresented' = ErrorPresented /\ Input' = Input /\ Outcome' = Outcome
    BY <1>1, <1>2, <1>7, <2>1, <2>3, <2>4, <2>5, StaysOnWalk
  <2>7. Recovering' = Recovering
    <3>1. Recovering' = ErrorPresented'
      BY <2>1 DEF Recovering, ErrorPresented
    <3> QED BY <1>2, <2>6, <3>1
  <2>8. UNCHANGED Promise!vars
    BY <2>6, <2>7, Stutters DEF SameOutside
  <2> QED BY <2>6, <2>8 DEF Follows
<1> QED BY <1>9, <1>10

\* The handler picks another left hand side.
LEMMA SetReduceNonterminalFollows ==
  ASSUME Inv, Inv', Following, NEW left \in Lefts[reducing], SetReduceNonterminal(left)
  PROVE  Follows
<1>1. /\ pc = "handler" /\ pc' = pc /\ ReduceLeft' = left
      /\ TopState' = GetLeftReduceState(stack[StackPosition - 1].State, left)
      /\ TopState' # InvalidState
      /\ UNCHANGED <<stream, stack, StackPosition, NextTokenFlag, Token, PrevTokenIndex, reducing>>
  BY DEF SetReduceNonterminal
<1>2. /\ Begun /\ Begun' /\ ~ Reduced /\ ~ Reduced' /\ LookedAt' = LookedAt
      /\ Depth' = Depth
  BY <1>1, WorkingNow, WorkingThen DEF Working, Begun, Waits, Reduced, LookedAt, Depth, Thrown
<1>3. GoesTo' /\ SameCursor(stream, stream') /\ \A i \in 0 .. Depth : StateAt(i)' = StateAt(i)
  BY <1>1, <1>2 DEF Following, GoesTo, SameCursor, StateAt
<1>4. Spelled' = Spelled => InHand'
  BY <1>1 DEF Following, InHand
<1>5. /\ Following' /\ Consumed' = Consumed /\ Spelled' = Spelled
      /\ ErrorPresented' = ErrorPresented /\ Input' = Input /\ Outcome' = Outcome
  BY <1>1, <1>2, <1>3, <1>4, StaysOnWalk
<1>6. Recovering' = Recovering
  BY <1>1, <1>5 DEF Recovering
<1>7. UNCHANGED Promise!vars
  BY <1>5, <1>6, Stutters DEF SameOutside
<1> QED BY <1>5, <1>7 DEF Follows

\* The handler leaves the left hand side it has picked.
LEMMA HandlerSucceedsFollows ==
  ASSUME Suitable, Inv, Inv', Following, HandlerSucceeds
  PROVE  Follows
<1> DEFINE m == StackPosition - 1
<1>1. /\ pc = "handler" /\ pc' = "reduced"
      /\ stack' = [stack EXCEPT ![StackPosition].Held = TRUE]
      /\ UNCHANGED <<stream, StackPosition, TopState, NextTokenFlag, Token, PrevTokenIndex>>
  BY DEF HandlerSucceeds
<1>2. /\ Begun /\ ~ Reduced /\ LookedAt' = LookedAt
      /\ Depth = StackPosition + ReduceProductions[reducing].Length - 1
  BY <1>1, WorkingNow, WorkingThen DEF Working, Begun, Waits, Reduced, LookedAt, Depth, Thrown
<1>3. Recovering = ErrorPresented
  BY <1>1 DEF Recovering, ErrorPresented
<1>4. /\ StackPosition > 0 /\ ~ NextTokenFlag /\ TopState # InvalidState
      /\ TopState = GetLeftReduceState(stack[m].State, ReduceLeft)
      /\ ReduceLeft \in Lefts[reducing]
      /\ ReduceProductions[reducing].Length = Len(Rhs[reducing]) /\ Len(Rhs[reducing]) \in Nat
      /\ Promise!EndsWith(Spelled, Rhs[reducing])
  BY <1>1 DEF Following, GoesTo, InHand
<1>5. /\ StackPosition \in Nat /\ StackPosition < StackSize /\ StackSize \in Nat
      /\ stack \in Stacks /\ reducing \in Productions
  BY TopFacts DEF Inv, Typed
<1>6. m \in Nat /\ m + 1 = StackPosition /\ m = Depth - Len(Rhs[reducing])
  BY <1>2, <1>4, <1>5
<1>7. \A i \in 0 .. m : i \in 0 .. Depth /\ i \in 0 .. (StackSize - 1) /\ i # StackPosition
  BY <1>2, <1>4, <1>5
<1>8. \A i \in 0 .. m : stack'[i].State = Path[i] /\ stack[i].State = Path[i]
  BY <1>1, <1>2, <1>5, <1>7 DEF Path, StateAt, Stacks
<1>9. m \in 0 .. m
  BY <1>6
<1> HIDE DEF m
<1>10. SameCursor(stream, stream') /\ TopState' = GetLeftReduceState(Path[m], ReduceLeft)
  BY <1>1, <1>4, <1>8, <1>9 DEF SameCursor
<1> QED BY <1>1, <1>2, <1>3, <1>4, <1>5, <1>6, <1>8, <1>10, RewrittenFollows

\* An error is found or waited for: the word gets shorter, and tokens may be
\* skipped.
LEMMA GivesUpFollows ==
  ASSUME Inv, Inv', Following, Begun, pc' \in {"act", "error", "skip"},
         TopState' \in {TopState, InvalidState}, stream'.source = stream.source, stream.Pos <= stream'.Pos,
         Recovering \/ stream'.Pos = stream.Pos,
         PlacedIn(stream', PrevTokenIndex'),
         IF PresentedIn(stream', PrevTokenIndex') THEN LookedAt' \in ErrorTerminals
                         ELSE LookedAt' = TokenAt(stream'.source, stream'.Pos),
         pc' = "act" => PresentedIn(stream', PrevTokenIndex'),
         NEW n \in 0 .. Depth, Depth' = n, \A i \in 0 .. n : StateAt(i)' = StateAt(i)
  PROVE  Follows
<1>1. /\ stream.source # NullSource /\ stream.Pos \in Nat /\ stream.Pos > 0
      /\ SourceLength[stream.source] = Len(Input) /\ Len(Input) \in Nat
      /\ Consumed = stream.Pos - 1 /\ Outcome = "parsing" /\ Recovering \in BOOLEAN
      /\ Depth \in Nat /\ Walk(Path, Depth) /\ Spelled = Word(Path, Depth)
      /\ Len(Spelled) = Depth
  BY BegunNow
<1>2. StreamOK(stream')
  BY DEF Inv, Typed
<1>3. stream'.Pos \in Nat /\ stream'.Pos <= Len(Input) + 1 /\ stream'.Pos > 0
  <2>1. PICK t : t = stream'
    OBVIOUS
  <2>2. /\ t.Pos \in Nat
        /\ t.source # NullSource => t.Pos <= SourceLength[t.source] + 1
    BY <1>2, <2>1, PlaceFacts
  <2> QED BY <1>1, <2>1, <2>2
<1>4. n \in Nat /\ \A i \in 0 .. n : i \in 0 .. Depth
  BY <1>1
<1> DEFINE d == Depth
           q == [i \in 0 .. n |-> Path[i]]
<1>5. Walk(q, n) /\ n \in 0 .. Len(Spelled) /\ Word(q, n) = SubSeq(Spelled, 1, n)
  <2>1. d \in Nat /\ Walk(Path, d) /\ n \in 0 .. d
    BY <1>1
  <2> HIDE DEF d
  <2>2. PICK r : r = q
    OBVIOUS
  <2>3. /\ Walk(r, n) /\ n \in 0 .. Len(Word(Path, d))
        /\ Word(r, n) = SubSeq(Word(Path, d), 1, n)
    BY <2>1, <2>2, Shortened
  <2> QED BY <1>1, <2>2, <2>3 DEF d
<1>6. Path' = q
  <2>1. \A i \in 0 .. n : StateAt(i)' = q[i]
    BY <1>4 DEF Path
  <2>2. q = [i \in 0 .. n |-> q[i]]
    OBVIOUS
  <2> HIDE DEF q
  <2> QED BY <2>1, <2>2, PathThen
<1> HIDE DEF q, d
<1>7. Begun' /\ GoesTo' /\ InHand'
  BY NoStates DEF Begun, Waits, GoesTo, Reduced, InHand, NoStartState
<1>8. /\ Following' /\ Outcome' = "parsing" /\ Consumed' = Behind(stream')
      /\ ErrorPresented' = PresentedIn(stream', PrevTokenIndex')
      /\ Spelled' = Word(Path', Depth')
  <2>1. Depth' \in Nat /\ Walk(Path', Depth')
    BY <1>4, <1>5, <1>6
  <2> QED BY <1>2, <1>3, <1>7, <2>1, BegunThen
<1>9. Recovering' = TRUE
  BY <1>8 DEF Recovering
<1>10. Consumed' \in Consumed .. Len(Input) /\ (Recovering \/ Consumed' = Consumed)
  BY <1>1, <1>3, <1>8 DEF Behind
<1>11. Promise!Next
  <2>1. Consumed \in Nat
    BY <1>1
  <2>2. Spelled' = SubSeq(Spelled, 1, n)
    BY <1>5, <1>6, <1>8
  <2> QED BY <1>1, <1>5, <1>8, <1>9, <1>10, <2>1, <2>2, GivesUpSome, InputKept DEF SameOutside
<1> QED BY <1>8, <1>11 DEF Follows

\* No action for the token.
LEMMA SyntaxErrorFollows ==
  ASSUME Inv, Inv', Following, SyntaxError
  PROVE  Follows
<1>1. /\ pc = "act" /\ pc' = "error" /\ errorCode' = TokenError
      /\ UNCHANGED <<stream, stack, StackPosition, TopState, Token, PrevTokenIndex>>
  BY DEF SyntaxError
<1>2. Begun /\ Depth = StackPosition /\ LookedAt = Token.Code
  <2>1. ~ NoStartState
    <3>1. NoStartState => StackPosition = 0 /\ stack[0].State = EmptyGoto
      BY StackAssumption DEF Inv, OnlyAtBottom
    <3> QED BY <3>1 DEF SyntaxError, TopElement
  <2> QED BY <1>1, <2>1, ActNow
<1>3. /\ StreamOK(stream) /\ stream.Pos \in Nat /\ Depth \in Nat
      /\ PlacedIn(stream, PrevTokenIndex)
      /\ IF PresentedIn(stream, PrevTokenIndex) THEN LookedAt \in ErrorTerminals
                          ELSE LookedAt = TokenAt(stream.source, stream.Pos)
  BY <1>2, BegunNow
<1>4. Depth' = Depth /\ LookedAt' = LookedAt /\ \A i \in 0 .. Depth : StateAt(i)' = StateAt(i)
  BY <1>1, <1>2 DEF Depth, Thrown, LookedAt, StateAt, Reduced
<1>5. Depth \in 0 .. Depth
  BY <1>3
<1> QED BY <1>1, <1>2, <1>3, <1>4, <1>5, GivesUpFollows

\* A left hand side that may not follow becomes an error, one token back.
LEMMA RejectReduceFollows ==
  ASSUME Suitable, Inv, Inv', Following, OneTokenBack, RejectReduce
  PROVE  Follows
<1> DEFINE len == ReducedProd.Length
           m   == StackPosition - len
           popped == ReducedPosition .. (ReducedPosition + len)
<1>1. PICK s : s = MarkersReleased
  OBVIOUS
<1>2. /\ pc = "act" /\ pc' = "act" /\ Action.kind = "reduce" /\ ReducedState = InvalidState
      /\ stack' = CleanedUp(stack, popped) /\ StackPosition' = ReducedPosition - 1
      /\ Token' = [Token EXCEPT !.Code = TokenError] /\ TopState' = InvalidState
      /\ PrevTokenIndex' = GetTokenIndex(s) /\ stream' = SeekBack(s, 1)
  BY <1>1 DEF RejectReduce
<1>3. Begun /\ Depth = StackPosition
  BY <1>2, ActNow, TopFacts
<1>4. ~ ErrorPresented
  BY <1>2 DEF OneTokenBack, GoesBack
<1>5. /\ StreamOK(stream) /\ stream.Pos \in Nat /\ stream.Pos > 0 /\ Depth \in Nat
      /\ GetTokenIndex(stream) = stream.Pos
  BY <1>3, <1>4, BegunNow DEF PlacedIn
<1>6. len \in Nat /\ len <= StackPosition
  BY <1>2, ReduceEntry DEF Suitable
<1>7. m \in 0 .. Depth /\ StackPosition' = m
  BY <1>2, <1>3, <1>5, <1>6 DEF ReducedPosition
<1>8. StreamOK(s) /\ SameCursor(stream, s)
  <2>1. s = ReleaseFrom(stream, StackPosition, len)
    BY <1>1 DEF MarkersReleased
  <2>2. StackPosition \in Nat /\ len \in Nat /\ StreamOK(stream)
    BY <1>5, <1>6, TopFacts
  <2> HIDE DEF len
  <2> QED BY <2>1, <2>2, ReleasedCursor
<1>9. /\ stream'.source = stream.source /\ stream'.Pos = stream.Pos
      /\ PresentedIn(stream', PrevTokenIndex') /\ PlacedIn(stream', PrevTokenIndex')
  BY <1>2, <1>5, <1>8, GoneBack DEF Suitable, SameCursor
<1>10. LookedAt' \in ErrorTerminals
  <2>1. Token'.Code = TokenError
    BY <1>2 DEF Inv, Typed, Tokens
  <2> QED BY <1>2, <2>1, TableAssumption DEF LookedAt
<1>11. Depth' = m /\ \A i \in 0 .. m : StateAt(i)' = StateAt(i)
  <2>1. Depth' = StackPosition' /\ \A i : StateAt(i)' = stack'[i].State
    BY <1>2, ActThen
  <2>2. \A i : StateAt(i) = stack[i].State
    BY <1>2 DEF StateAt, Reduced
  <2>3. \A i \in 0 .. (StackSize - 1) : stack'[i].State = stack[i].State
    <3>1. stack \in Stacks
      BY DEF Inv, Typed
    <3> HIDE DEF popped
    <3> QED BY <1>2, <3>1, CleanedUpFacts
  <2>4. \A i \in 0 .. m : i \in 0 .. (StackSize - 1)
    BY <1>3, <1>5, <1>7, TopFacts
  <2> QED BY <1>7, <2>1, <2>2, <2>3, <2>4
<1> HIDE DEF m
<1> QED BY <1>2, <1>3, <1>5, <1>7, <1>9, <1>10, <1>11, GivesUpFollows

\* The reduction is finished: the left hand side stands for a symbol, or it
\* was thrown.
LEMMA FinishReduceFollows ==
  ASSUME Suitable, Inv, Inv', Following, FinishReduce
  PROVE  Follows
<1> DEFINE throws == /\ ReduceProductions[reducing].ErrorTerminalFlag
                     /\ <<reducing, ReduceLeft>> \in DOMAIN ThrownTerminal
           popped == (StackPosition + 1) .. (StackPosition + ReduceProductions[reducing].Length)
<1>1. /\ pc = "reduced" /\ stack' = CleanedUp(stack, popped)
      /\ pc' = IF throws THEN "error" ELSE "top"
      /\ errorCode' = IF throws THEN ThrownTerminal[<<reducing, ReduceLeft>>] ELSE errorCode
      /\ UNCHANGED <<stream, StackPosition, TopState, NextTokenFlag, Token, PrevTokenIndex>>
  BY DEF FinishReduce
<1>2. /\ Begun /\ Reduced /\ LookedAt = Token.Code /\ Depth = StackPosition
      /\ Recovering = ErrorPresented
  BY <1>1, WorkingNow
     DEF Working, Begun, Waits, Reduced, LookedAt, Depth, Thrown, Recovering, ErrorPresented
<1>3. StackPosition > 0 /\ ~ NextTokenFlag /\ TopState # InvalidState
  BY <1>2 DEF Following, GoesTo
<1>4. /\ StreamOK(stream) /\ stream.Pos \in Nat /\ Depth \in Nat
      /\ PlacedIn(stream, PrevTokenIndex)
      /\ IF PresentedIn(stream, PrevTokenIndex) THEN LookedAt \in ErrorTerminals
                          ELSE LookedAt = TokenAt(stream.source, stream.Pos)
  BY <1>2, BegunNow
<1>5. \A i \in 0 .. StackPosition : stack'[i].State = stack[i].State
  <2>1. stack \in Stacks /\ \A i \in 0 .. StackPosition : i \in 0 .. (StackSize - 1)
    BY TopFacts DEF Inv, Typed
  <2> HIDE DEF popped
  <2> QED BY <1>1, <2>1, CleanedUpFacts
<1>6. CASE throws
  <2>1. errorCode' # TokenError /\ pc' = "error"
    BY <1>1, <1>6 DEF Suitable, TableOfGrammar, ErrorsThrownHaveNames
  <2>2. Depth' = StackPosition - 1 /\ LookedAt' = LookedAt /\ ~ Reduced'
    BY <1>1, <1>2, <2>1 DEF Depth, Thrown, LookedAt, Reduced
  <2> DEFINE n == StackPosition - 1
  <2>3. n \in 0 .. Depth /\ \A i \in 0 .. n : i \in 0 .. StackPosition /\ i # StackPosition
    BY <1>2, <1>3, <1>4
  <2>4. \A i \in 0 .. n : StateAt(i)' = StateAt(i)
    BY <1>5, <2>2, <2>3 DEF StateAt
  <2> HIDE DEF n
  <2>5. Depth' = n
    BY <2>2 DEF n
  <2> QED BY <1>1, <1>2, <1>4, <2>1, <2>2, <2>3, <2>4, <2>5, GivesUpFollows
<1>7. CASE ~ throws
  <2>1. pc' = "top" /\ Begun' /\ Reduced' /\ GoesTo' /\ InHand' /\ LookedAt' = LookedAt
    BY <1>1, <1>2, <1>3, <1>7, WorkingNow
       DEF Working, Begun, Waits, Reduced, GoesTo, InHand, LookedAt, NoStartState
  <2>2. Depth' = Depth /\ SameCursor(stream, stream')
    BY <1>1, <1>2, <2>1 DEF Depth, Thrown, SameCursor
  <2>3. \A i \in 0 .. Depth : StateAt(i)' = StateAt(i)
    BY <1>1, <1>2, <1>5, <2>1 DEF StateAt
  <2>4. /\ Following' /\ Consumed' = Consumed /\ Spelled' = Spelled
        /\ ErrorPresented' = ErrorPresented /\ Input' = Input /\ Outcome' = Outcome
    BY <1>1, <1>2, <2>1, <2>2, <2>3, StaysOnWalk
  <2>5. Recovering' = Recovering
    <3>1. Recovering' = ErrorPresented'
      BY <2>1 DEF Recovering, ErrorPresented
    <3> QED BY <1>2, <2>4, <3>1
  <2>6. UNCHANGED Promise!vars
    BY <2>4, <2>5, Stutters DEF SameOutside
  <2> QED BY <2>4, <2>6 DEF Follows
<1> QED BY <1>6, <1>7

\* The error is marked before tokens are skipped.
LEMMA StartSkippingFollows ==
  ASSUME Inv, Inv', Following, StartSkipping
  PROVE  Follows
<1>1. /\ pc = "error" /\ pc' = "skip" /\ stream' = MarkError /\ skipped' = Token
      /\ UNCHANGED <<stack, StackPosition, TopState, errorCode, PrevTokenIndex>>
  BY DEF StartSkipping
<1>2. Begun /\ LookedAt' = LookedAt
  BY <1>1, WorkingNow DEF Working, Begun, Waits, LookedAt
<1>3. /\ StreamOK(stream) /\ stream.Pos \in Nat /\ Depth \in Nat
      /\ PlacedIn(stream, PrevTokenIndex)
      /\ IF PresentedIn(stream, PrevTokenIndex) THEN LookedAt \in ErrorTerminals
                          ELSE LookedAt = TokenAt(stream.source, stream.Pos)
  BY <1>2, BegunNow
<1>4. SameCursor(stream, stream')
  BY <1>1, <1>3, MarkErrorOK DEF SameCursor
<1>5. /\ PresentedIn(stream', PrevTokenIndex') = PresentedIn(stream, PrevTokenIndex)
      /\ PlacedIn(stream', PrevTokenIndex') = PlacedIn(stream, PrevTokenIndex)
      /\ stream'.Pos = stream.Pos /\ stream'.source = stream.source
  BY <1>1, <1>4, CursorKept DEF SameCursor
<1>6. Depth' = Depth /\ \A i \in 0 .. Depth : StateAt(i)' = StateAt(i)
  BY <1>1 DEF Depth, Thrown, StateAt, Reduced
<1>7. Depth \in 0 .. Depth
  BY <1>3
<1> QED BY <1>1, <1>2, <1>3, <1>5, <1>6, <1>7, GivesUpFollows

\* The error presented at a position of the stack.
LEMMA RecoverAtFollows ==
  ASSUME Suitable, Inv, Inv', Following, OneTokenBack, pc \in {"error", "skip"},
         NEW s, StreamOK(s), s.source = stream.source, stream.Pos <= s.Pos,
         GetTokenIndex(s) = s.Pos, s.Pos > 0,
         NEW sp \in ErrorPositions, RecoverAt(s, sp), TopState' = TopState
  PROVE  Follows
<1> DEFINE popped == (sp + 1) .. StackPosition
<1>1. PICK flushed : flushed = IF ReducesOnError THEN s
                               ELSE ReleaseFrom(s, StackPosition, StackPosition - sp)
  OBVIOUS
<1>2. /\ pc' = "act" /\ Token' = [Token EXCEPT !.Code = errorCode]
      /\ PrevTokenIndex' = GetTokenIndex(flushed) /\ stream' = SeekBack(flushed, 1)
      /\ ReducesOnError => stack' = stack /\ StackPosition' = StackPosition
      /\ ~ ReducesOnError => stack' = CleanedUp(stack, popped) /\ StackPosition' = sp
  BY <1>1 DEF RecoverAt
<1>3. Begun /\ ~ Reduced /\ Recovering
  BY WorkingNow DEF Working, Begun, Waits, Reduced, Recovering
<1>4. /\ stack \in Stacks /\ StackPosition \in Nat /\ StackPosition < StackSize
      /\ StackSize \in Nat /\ sp \in 0 .. StackPosition /\ sp \in Nat
  BY TopFacts DEF ErrorPositions, Inv, Typed
<1>5. StreamOK(flushed) /\ SameCursor(s, flushed)
  <2>1. CASE ReducesOnError
    BY <1>1, <2>1 DEF SameCursor
  <2>2. CASE ~ ReducesOnError
    <3> DEFINE n == StackPosition - sp
    <3>1. n \in Nat /\ flushed = ReleaseFrom(s, StackPosition, n)
      BY <1>1, <1>4, <2>2
    <3>2. StackPosition \in Nat
      BY <1>4
    <3> HIDE DEF n
    <3> QED BY <3>1, <3>2, ReleasedCursor
  <2> QED BY <2>1, <2>2
<1>6. /\ stream'.source = stream.source /\ stream'.Pos = s.Pos
      /\ PresentedIn(stream', PrevTokenIndex') /\ PlacedIn(stream', PrevTokenIndex')
  BY <1>2, <1>5, GoneBack DEF Suitable, SameCursor
<1>7. LookedAt' \in ErrorTerminals
  <2>1. Token'.Code = errorCode
    BY <1>2 DEF Inv, Typed, Tokens
  <2> QED BY <1>2, <2>1 DEF LookedAt, Inv, Typed
<1>8. Depth = IF Thrown THEN StackPosition - 1 ELSE StackPosition
  BY DEF Depth
<1>9. StackPosition' \in 0 .. Depth
  <2>1. Thrown => StackPosition \notin ErrorPositions
    BY DEF OneTokenBack
  <2>2. CASE ReducesOnError
    <3>1. StackPosition \in ErrorPositions
      BY <1>4, <2>2 DEF ReducesOnError, ErrorPositions, TopElement
    <3> QED BY <1>2, <1>4, <1>8, <2>1, <2>2, <3>1
  <2>3. CASE ~ ReducesOnError
    BY <1>2, <1>4, <1>8, <2>1, <2>3
  <2> QED BY <2>2, <2>3
<1>10. PICK n : n = StackPosition'
  OBVIOUS
<1>11. Depth' = n /\ \A i \in 0 .. n : StateAt(i)' = StateAt(i)
  <2>1. Depth' = StackPosition' /\ \A i : StateAt(i)' = stack'[i].State
    BY <1>2, ActThen
  <2>2. \A i : StateAt(i) = stack[i].State
    BY <1>3 DEF StateAt
  <2>3. \A i \in 0 .. (StackSize - 1) : stack'[i].State = stack[i].State
    <3> HIDE DEF popped
    <3>1. CASE ReducesOnError
      BY <1>2, <3>1
    <3>2. CASE ~ ReducesOnError
      <4>1. stack' = CleanedUp(stack, popped) /\ stack \in Stacks
        BY <1>2, <1>4, <3>2
      <4> QED BY <4>1, CleanedUpFacts
    <3> QED BY <3>1, <3>2
  <2>4. \A i \in 0 .. n : i \in 0 .. (StackSize - 1)
    BY <1>4, <1>8, <1>9, <1>10
  <2> QED BY <1>10, <2>1, <2>2, <2>3, <2>4
<1>12. n \in 0 .. Depth
  BY <1>9, <1>10
<1> QED BY <1>2, <1>3, <1>6, <1>7, <1>11, <1>12, GivesUpFollows

\* An error that can be handled at once.
LEMMA RecoverAtOnceFollows ==
  ASSUME Suitable, Inv, Inv', Following, OneTokenBack, RecoverAtOnce
  PROVE  Follows
<1>1. PICK s : s = MarkError
  OBVIOUS
<1>2. PICK sp : sp = Topmost(RecoveringPositions)
  OBVIOUS
<1>3. pc = "error" /\ RecoveringPositions # {} /\ RecoverAt(s, sp) /\ TopState' = TopState
  BY <1>1, <1>2 DEF RecoverAtOnce
<1>4. Begun /\ ~ ErrorPresented
  BY <1>3, WorkingNow DEF Working, Begun, Waits, OneTokenBack, GoesBack
<1>5. /\ StreamOK(stream) /\ stream.Pos \in Nat /\ stream.Pos > 0
      /\ GetTokenIndex(stream) = stream.Pos
  BY <1>4, BegunNow DEF PlacedIn
<1>6. StreamOK(s) /\ SameCursor(stream, s)
  BY <1>1, <1>5, MarkErrorOK DEF SameCursor
<1>7. sp \in ErrorPositions
  <2>1. RecoveringPositions \subseteq 0 .. StackPosition /\ StackPosition \in Nat
    BY TopFacts DEF RecoveringPositions, ErrorPositions
  <2>2. sp \in RecoveringPositions
    BY <1>2, <1>3, <2>1, TopmostFacts
  <2> QED BY <2>2 DEF RecoveringPositions
<1>8. stream.Pos <= s.Pos /\ GetTokenIndex(s) = s.Pos /\ s.Pos > 0 /\ s.source = stream.source
  BY <1>5, <1>6 DEF SameCursor
<1> QED BY <1>3, <1>6, <1>7, <1>8, RecoverAtFollows

\* A token skipped, after which the error may be presented.
LEMMA SkipTokenFollows ==
  ASSUME Suitable, Inv, Inv', Following, OneTokenBack, SkipToken
  PROVE  Follows
<1>1. PICK read : read = AfterNextToken(stream)
  OBVIOUS
<1>2. PICK positions : positions = ValidPositions(skipped'.Code)
  OBVIOUS
<1>3. /\ pc = "skip" /\ ~ NoUseSkipping /\ skipped' = Read(stream)
      /\ errorCode' = errorCode /\ TopState' = TopState
      /\ positions = {} => /\ stream' = read
                           /\ UNCHANGED <<stack, StackPosition, PrevTokenIndex, Token, pc>>
      /\ positions # {} => RecoverAt(read, Topmost(positions))
  BY <1>1, <1>2 DEF SkipToken
<1>4. Begun /\ LookedAt = skipped.Code /\ Recovering
  BY <1>3, WorkingNow DEF Working, Begun, Waits, LookedAt, Recovering
<1>5. /\ StreamOK(stream) /\ stream.source # NullSource /\ stream.Pos \in Nat /\ stream.Pos > 0
      /\ SourceLength[stream.source] = Len(Input) /\ Len(Input) \in Nat
      /\ ErrorPresented = PresentedIn(stream, PrevTokenIndex)
      /\ PlacedIn(stream, PrevTokenIndex) /\ PrevTokenIndex \in Nat /\ Depth \in Nat
      /\ ~ ErrorPresented /\ LookedAt # TokenEOF => stream.Pos <= Len(Input)
  BY <1>4, BegunNow
<1>6. LookedAt # TokenEOF
  BY <1>3, <1>4 DEF NoUseSkipping
<1>7. /\ read.source = stream.source /\ stream.Pos <= read.Pos /\ read.Pos > 0
      /\ ~ PresentedIn(read, PrevTokenIndex) /\ PlacedIn(read, PrevTokenIndex)
      /\ skipped'.Code = TokenAt(read.source, read.Pos)
  <2>1. CASE ErrorPresented
    <3>1. /\ read.source = stream.source /\ read.Pos = stream.Pos
          /\ ~ PresentedIn(read, PrevTokenIndex) /\ PlacedIn(read, PrevTokenIndex)
          /\ Read(stream).Code = TokenAt(read.source, read.Pos)
      BY <1>1, <1>5, <2>1, ReadAgain
    <3> QED BY <1>3, <1>5, <3>1
  <2>2. CASE ~ ErrorPresented
    <3>1. stream.Pos <= SourceLength[stream.source]
      BY <1>5, <1>6, <2>2
    <3>2. /\ read.source = stream.source /\ read.Pos = stream.Pos + 1
          /\ ~ PresentedIn(read, PrevTokenIndex) /\ PlacedIn(read, PrevTokenIndex)
          /\ Read(stream).Code = TokenAt(read.source, read.Pos)
      BY <1>1, <1>5, <2>2, <3>1, ReadOn
    <3> QED BY <1>3, <1>5, <3>2
  <2> QED BY <2>1, <2>2
<1>8. CASE positions = {}
  <2>1. pc' = "skip" /\ stream' = read /\ PrevTokenIndex' = PrevTokenIndex
    BY <1>3, <1>8
  <2>2. LookedAt' = skipped'.Code
    BY <2>1 DEF LookedAt
  <2>3. Depth' = Depth /\ \A i \in 0 .. Depth : StateAt(i)' = StateAt(i)
    BY <1>3, <1>8, <2>1 DEF Depth, Thrown, StateAt, Reduced
  <2>4. Depth \in 0 .. Depth
    BY <1>5
  <2> QED BY <1>3, <1>4, <1>7, <2>1, <2>2, <2>3, <2>4, GivesUpFollows
<1>9. CASE positions # {}
  <2>1. PICK sp : sp = Topmost(positions)
    OBVIOUS
  <2>2. sp \in ErrorPositions
    <3>1. positions \subseteq 0 .. StackPosition /\ StackPosition \in Nat
      BY <1>2, TopFacts DEF ValidPositions, ErrorPositions
    <3>2. sp \in positions
      BY <1>9, <2>1, <3>1, TopmostFacts
    <3> QED BY <1>2, <3>2 DEF ValidPositions
  <2>3. StreamOK(read) /\ GetTokenIndex(read) = read.Pos
    BY <1>1, <1>5, <1>7, ReadOK DEF PlacedIn
  <2> QED BY <1>3, <1>7, <1>9, <2>1, <2>2, <2>3, RecoverAtFollows
<1> QED BY <1>8, <1>9

\* A parse that fails flushes the stack.
LEMMA FailFollows ==
  ASSUME Inv, Inv', Following, Begun, NEW s, StreamOK(s), SameCursor(stream, s), Fail(s),
         PrevTokenIndex' = PrevTokenIndex
  PROVE  Follows
<1> DEFINE n == StackPosition - 0
<1>1. pc' = "failed" /\ stream' = ReleaseFrom(s, StackPosition, n)
  BY DEF Fail, FlushStack
<1>2. StackPosition \in Nat /\ n \in Nat
  BY TopFacts
<1> HIDE DEF n
<1>3. SameCursor(stream, stream')
  <2>1. PICK t : t = ReleaseFrom(s, StackPosition, n)
    OBVIOUS
  <2>2. SameCursor(s, t)
    BY <1>2, <2>1, ReleasedCursor
  <2> QED BY <1>1, <2>1, <2>2 DEF SameCursor
<1>4. /\ StreamOK(stream) /\ Consumed = Behind(stream) /\ PlacedIn(stream, PrevTokenIndex)
      /\ Outcome = "parsing"
  BY BegunNow, ConsumedNow
<1>5. /\ StreamOK(stream') /\ PlacedIn(stream', PrevTokenIndex')
      /\ Behind(stream') = Behind(stream) /\ stream'.source = stream.source
  BY <1>3, <1>4, CursorKept DEF Inv, Typed, SameCursor
<1>6. /\ Following' /\ Outcome' = "failed" /\ Consumed' = Behind(stream')
      /\ Spelled' = <<>> /\ Recovering' = FALSE
  BY <1>1, <1>5, EndThen
<1>7. Promise!Next
  BY <1>4, <1>5, <1>6, Fails, InputKept
<1> QED BY <1>6, <1>7 DEF Follows

\* The handler fails, nothing can take the error, or skipping would not help.
LEMMA EndsFollow ==
  ASSUME Inv, Inv', Following, HandlerFails \/ GiveUp \/ StopSkipping
  PROVE  Follows
<1>1. Begun /\ StreamOK(stream) /\ PrevTokenIndex' = PrevTokenIndex
  BY WorkingNow DEF Working, HandlerFails, GiveUp, StopSkipping, Begun, Waits, Inv, Typed
<1>2. CASE HandlerFails \/ StopSkipping
  <2>1. Fail(stream) /\ SameCursor(stream, stream)
    BY <1>2 DEF HandlerFails, StopSkipping, SameCursor
  <2> QED BY <1>1, <2>1, FailFollows
<1>3. CASE GiveUp
  <2>1. PICK s : s = MarkError
    OBVIOUS
  <2>2. Fail(s) /\ StreamOK(s) /\ SameCursor(stream, s)
    BY <1>1, <1>3, <2>1, MarkErrorOK DEF GiveUp, SameCursor
  <2> QED BY <1>1, <2>2, FailFollows
<1> QED BY <1>2, <1>3

(***************************************************************************)
(* The refinement                                                          *)
(***************************************************************************)

\* A cursor that goes back one token at a time has one to go back to.
LEMMA HasTokenBehind == Inv /\ Following /\ OneTokenBack => Disciplined
<1> SUFFICES ASSUME Inv, Following, OneTokenBack, GoesBack
             PROVE  GetTokenIndex(stream) > 0
  BY DEF Disciplined
<1>1. Begun /\ ~ ErrorPresented
  BY WorkingNow, TopFacts DEF Working, GoesBack, Begun, Waits, OneTokenBack
<1> QED BY <1>1, BegunNow DEF PlacedIn

\* Every step keeps both invariants, and is one of ShiftReduce or none.
LEMMA NextFollows ==
  ASSUME Suitable, Inv, Following, OneTokenBack, [Next]_vars
  PROVE  Inv' /\ Follows
<1>1. Inv'
  BY HasTokenBehind, NextInv
<1>2. CASE Client
  <2>1. ASSUME NEW src \in Sources \union {NullSource}, stream.source = NullSource,
               pc = "idle", SetTokenStream(src)
        PROVE  Follows
    BY <1>1, <2>1, SetTokenStreamFollows
  <2> QED BY <1>1, <1>2, <2>1, StartFollows DEF Client
<1>3. CASE Handler
  <2>1. ASSUME NEW left \in Lefts[reducing], SetReduceNonterminal(left)
        PROVE  Follows
    BY <1>1, <2>1, SetReduceNonterminalFollows
  <2> QED BY <1>1, <1>3, <2>1, HandlerSucceedsFollows, EndsFollow DEF Handler
<1>4. CASE Parser
  <2>1. CASE NotReady \/ StoreTopState \/ ReadsOutOfRange \/ Shift \/ Accept
    BY <1>1, <2>1, NotReadyFollows, StoreTopStateFollows, ReadsOutOfRangeFollows, ShiftFollows,
       AcceptFollows
  <2>2. CASE Reduce \/ RejectReduce \/ FinishReduce
    BY <1>1, <2>2, ReduceFollows, RejectReduceFollows, FinishReduceFollows
  <2>3. CASE SyntaxError \/ GiveUp \/ RecoverAtOnce
    BY <1>1, <2>3, SyntaxErrorFollows, EndsFollow, RecoverAtOnceFollows
  <2>4. CASE StartSkipping \/ StopSkipping \/ SkipToken
    BY <1>1, <2>4, StartSkippingFollows, EndsFollow, SkipTokenFollows
  <2> QED BY <1>4, <2>1, <2>2, <2>3, <2>4 DEF Parser
<1>5. CASE ShiftErrors
  BY <1>1, <1>5, ShiftErrorFollows DEF ShiftErrors
<1>6. CASE UNCHANGED vars
  <2>1. UNCHANGED <<stream, stack, StackPosition, TopState, NextTokenFlag, Token,
                    PrevTokenIndex, ErrorMarker, ReduceLeft, reducing, errorCode, skipped, pc>>
    BY <1>6 DEF vars, parserVars
  <2>2. Depth' = Depth /\ Path' = Path /\ Spelled' = Spelled /\ LookedAt' = LookedAt
    BY <2>1 DEF Depth, Thrown, Path, Spelled, StateAt, Reduced, LookedAt
  <2>3. Following'
    <3>1. PlacedIn(stream', PrevTokenIndex')
      BY <2>1 DEF Following
    <3>2. AtStart' /\ Sees' /\ OnWalk' /\ GoesTo' /\ InHand'
      BY <2>1, <2>2 DEF Following, AtStart, Sees, OnWalk, GoesTo, InHand, Begun, Waits, Reduced,
                        NoStartState
    <3> QED BY <3>1, <3>2 DEF Following
  <2>4. Consumed' = Consumed /\ Recovering' = Recovering
    BY <2>1 DEF Consumed, Recovering, ErrorPresented
  <2>5. UNCHANGED Promise!vars
    BY <2>1, <2>2, <2>4, Stutters DEF SameOutside, Input, Outcome
  <2> QED BY <1>1, <2>3, <2>5 DEF Follows
<1> QED BY <1>1, <1>2, <1>3, <1>4, <1>5, <1>6 DEF Next

\* The parser rewrites its input by the productions of the grammar only, and
\* every token is shifted, in order, or falls into a stretch that an error
\* replaced: as long as it goes back one token at a time.
THEOREM ParsesTheGrammar ==
  ASSUME Suitable
  PROVE  Spec /\ []OneTokenBack => PromiseSpec
<1>1. Init => Inv /\ Following /\ Promise!Init
  BY InitInv, InitFollows
<1>2. Inv /\ Following /\ OneTokenBack /\ [Next]_vars => (Inv /\ Following)'
  BY NextFollows DEF Follows
<1>3. Inv /\ Following /\ OneTokenBack /\ [Next]_vars => [Promise!Next]_(Promise!vars)
  BY NextFollows DEF Follows
<1> QED BY <1>1, <1>2, <1>3, PTL DEF Spec, PromiseSpec, Promise!Spec

\* Such a parser never goes back from the first token: what is proved of
\* disciplined behaviours holds of it.
THEOREM StaysDisciplined ==
  ASSUME Suitable
  PROVE  Spec /\ []OneTokenBack => []Disciplined
<1>1. Init => Inv /\ Following
  BY InitInv, InitFollows
<1>2. Inv /\ Following /\ OneTokenBack /\ [Next]_vars => (Inv /\ Following)'
  BY NextFollows DEF Follows
<1>3. Inv /\ Following /\ OneTokenBack => Disciplined
  BY HasTokenBehind
<1> QED BY <1>1, <1>2, <1>3, PTL DEF Spec

(***************************************************************************)
(* One error at a time                                                     *)
(*                                                                         *)
(* Where the table has a place for every error (ErrorsFindPlace), that the *)
(* parser goes back one token at a time need not be assumed.               *)
(***************************************************************************)

\* An error is handled only once the one before it was shifted.
ErrorIsNew == pc = "error" => ~ ErrorPresented

\* One that is presented has its place: here, behind the left hand side just
\* found, or behind any other that the handler may pick.
PlaceHere == pc = "act" /\ ErrorPresented => Action.kind # "none"

PlaceAhead ==
  Begun /\ Reduced /\ ErrorPresented => GetAction(TopState, Token.Code).kind # "none"

Picked(left) == GetLeftReduceState(stack[StackPosition - 1].State, left)

PlacePicked ==
  pc = "handler" /\ ErrorPresented =>
    \A left \in Lefts[reducing] :
      Picked(left) # InvalidState => GetAction(Picked(left), Token.Code).kind # "none"

\* The element at the top, for an error that may be thrown there.
NotShiftedHere(code) == GetAction(stack[StackPosition].State, code).kind = "none"

MayThrow ==
  pc \in {"handler", "reduced"} =>
    \A thrown \in DOMAIN ThrownTerminal :
      thrown[1] = reducing => ~ ErrorPresented /\ NotShiftedHere(ThrownTerminal[thrown])

HasThrown == Thrown => NotShiftedHere(errorCode)

OneByOne ==
  ErrorIsNew /\ PlaceHere /\ PlaceAhead /\ PlacePicked /\ MayThrow /\ HasThrown

\* What the table says of the reduction the parser is at: its stack is a path
\* of the automaton that ends in the right hand side.
LEMMA WhereReduces ==
  ASSUME Suitable, ErrorsFindPlace, Inv, Following, pc = "act", Action.kind = "reduce",
         NEW below, below = stack[ReducedPosition - 1].State
  PROVE  /\ ReducedState # InvalidState
         /\ Token.Code \in ErrorTerminals =>
              /\ \A thrown \in DOMAIN ThrownTerminal : thrown[1] # Action.arg
              /\ \A left \in Lefts[Action.arg] : GetLeftReduceState(below, left) # InvalidState =>
                   GetAction(GetLeftReduceState(below, left), Token.Code).kind # "none"
         /\ \A thrown \in DOMAIN ThrownTerminal : thrown[1] = Action.arg =>
              /\ ReducedProd.Length > 0
              /\ GetAction(stack[ReducedPosition].State, ThrownTerminal[thrown]).kind = "none"
<1>1. /\ Begun /\ Depth = StackPosition
      /\ \A i \in 0 .. StackPosition : Path[i] = stack[i].State
  BY ActNow, TopFacts
<1>2. Depth \in Nat /\ Walk(Path, Depth)
  BY <1>1, BegunNow
<1>3. PICK n : n = Depth
  OBVIOUS
<1>4. PICK len : len = ReducedProd.Length
  OBVIOUS
<1>5. PICK p : p = Action.arg
  OBVIOUS
<1>6. PICK s : s = Path[n]
  OBVIOUS
<1>7. /\ p \in Productions /\ len = Len(Rhs[p]) /\ len \in Nat /\ len <= n
      /\ ReducedProd.Left \in Lefts[p] /\ n \in Nat /\ Walk(Path, n)
  BY <1>1, <1>2, <1>3, <1>4, <1>5, ReduceEntry DEF Suitable
<1>8. s \in States /\ Token.Code \in Terminals /\ Action = ActionTable[s][Token.Code]
  <2>1. n \in 0 .. n /\ n \in 0 .. StackPosition
    BY <1>1, <1>3, <1>7
  <2>2. s \in States /\ s = TopElement.State
    BY <1>1, <1>3, <1>6, <1>7, <2>1 DEF Walk, TopElement
  <2> QED BY <2>2, TopFacts DEF Action, GetAction
<1>9. ReducedPosition = n + 1 - len
  BY <1>1, <1>3, <1>4 DEF ReducedPosition
<1> DEFINE k == len + 1
           far == [i \in 1 .. k |-> Path[n - k + i]]
           near == [i \in 1 .. len |-> Path[n - len + i]]
<1>10. far \in PathsTo(s, k) /\ far[1] = below
  <2>1. k \in Nat /\ k <= n + 1 /\ 1 \in 1 .. k /\ n - k + 1 = n - len
        /\ n - len \in 0 .. StackPosition /\ ReducedPosition - 1 = n - len
    BY <1>1, <1>3, <1>7, <1>9
  <2> HIDE DEF k
  <2>2. far \in PathsTo(s, k)
    BY <1>6, <1>7, <2>1, WalkBehind
  <2>3. far[1] = Path[n - len]
    BY <2>1
  <2> QED BY <1>1, <2>1, <2>2, <2>3
<1>11. near \in PathsTo(s, len) /\ (len > 0 => near[1] = stack[ReducedPosition].State)
  <2>1. len <= n + 1 /\ (len > 0 => /\ 1 \in 1 .. len /\ n - len + 1 = ReducedPosition
                                    /\ ReducedPosition \in 0 .. StackPosition)
    BY <1>1, <1>3, <1>7, <1>9
  <2>2. near \in PathsTo(s, len)
    BY <1>6, <1>7, <2>1, WalkBehind
  <2>3. len > 0 => near[1] = Path[ReducedPosition]
    BY <2>1
  <2> HIDE DEF near
  <2> QED BY <1>1, <2>1, <2>2, <2>3
<1> HIDE DEF far, near
<1>12. k = Len(Rhs[p]) + 1
  BY <1>7
<1> HIDE DEF k
<1>13. below \in States
  <2>1. 1 \in 1 .. k
    BY <1>7 DEF k
  <2> QED BY <1>10, <2>1 DEF PathsTo
<1>14. ReducedState # InvalidState
  <2>1. \A path \in PathsTo(s, k) : GotoTable[path[1]][ReduceProductions[p].Left] # InvalidState
    BY <1>5, <1>8, <1>12 DEF ErrorsFindPlace, GotosDefined
  <2> QED BY <1>5, <1>10, <1>13, <2>1 DEF ReducedState, ReducedProd, GetLeftReduceState
<1>15. ASSUME Token.Code \in ErrorTerminals
       PROVE  /\ \A thrown \in DOMAIN ThrownTerminal : thrown[1] # p
              /\ \A left \in Lefts[p] : GetLeftReduceState(below, left) # InvalidState =>
                   GetAction(GetLeftReduceState(below, left), Token.Code).kind # "none"
  <2>1. /\ \A thrown \in DOMAIN ThrownTerminal : thrown[1] # p
        /\ \A path \in PathsTo(s, k), left \in Lefts[p] :
             GotoTable[path[1]][left] # InvalidState =>
               ActionTable[GotoTable[path[1]][left]][Token.Code].kind # "none"
    <3>1. PICK t \in ErrorTerminals : t = Token.Code
      BY <1>15
    <3>2. ActionTable[s][t].kind = "reduce" /\ ActionTable[s][t].arg = p
      BY <1>5, <1>8, <3>1
    <3>3. \E q \in {ActionTable[s][t].arg} :
            /\ \A thrown \in DOMAIN ThrownTerminal : thrown[1] # q
            /\ \A path \in PathsTo(s, Len(Rhs[q]) + 1), left \in Lefts[q] :
                 GotoTable[path[1]][left] # InvalidState =>
                   ActionTable[GotoTable[path[1]][left]][t].kind # "none"
      BY <1>8, <3>2 DEF ErrorsFindPlace, ErrorsGetShifted
    <3> QED BY <1>12, <3>1, <3>2, <3>3
  <2>2. ASSUME NEW left \in Lefts[p], GetLeftReduceState(below, left) # InvalidState
        PROVE  GetAction(GetLeftReduceState(below, left), Token.Code).kind # "none"
    <3>1. GetLeftReduceState(below, left) = GotoTable[below][left]
      BY <1>13 DEF GetLeftReduceState
    <3>2. GotoTable[below][left] \in States
      <4>1. left \in NonTerminals
        BY <1>7, TableAssumption
      <4> QED BY <2>2, <4>1, GotoLeads, <3>1
    <3>3. ActionTable[GotoTable[below][left]][Token.Code].kind # "none"
      BY <1>10, <2>1, <2>2, <3>1
    <3> QED BY <3>1, <3>2, <3>3 DEF GetAction
  <2> QED BY <2>1, <2>2
<1>16. ASSUME NEW thrown \in DOMAIN ThrownTerminal, thrown[1] = p
       PROVE  /\ len > 0
              /\ GetAction(stack[ReducedPosition].State, ThrownTerminal[thrown]).kind = "none"
  <2>1. /\ Len(Rhs[p]) > 0
        /\ \A path \in PathsTo(s, Len(Rhs[p])) :
             ActionTable[path[1]][ThrownTerminal[thrown]].kind = "none"
    BY <1>5, <1>8, <1>16 DEF ErrorsFindPlace, ThrownElsewhere
  <2>2. ActionTable[near[1]][ThrownTerminal[thrown]].kind = "none"
    BY <1>7, <1>11, <2>1
  <2> QED BY <1>7, <1>11, <2>1, <2>2 DEF GetAction, NoAction
<1> QED BY <1>4, <1>5, <1>14, <1>15, <1>16

\* No error waits.
LEMMA RestKeeps ==
  ASSUME ~ Begun', pc' \notin {"act", "handler", "reduced", "error", "skip"}
  PROVE  OneByOne'
BY DEF OneByOne, ErrorIsNew, PlaceHere, PlaceAhead, PlacePicked, MayThrow,
       HasThrown, Thrown

\* An error presented is looked at.
LEMMA ActKeeps ==
  ASSUME pc' = "act", ErrorPresented' => Action'.kind # "none"
  PROVE  OneByOne'
BY DEF OneByOne, ErrorIsNew, PlaceHere, PlaceAhead, Reduced, PlacePicked, MayThrow,
       HasThrown, Thrown

\* An error is found where none is waiting.
LEMMA ErrorKeeps ==
  ASSUME pc' \in {"error", "skip"}, pc' = "error" => ~ ErrorPresented', HasThrown'
  PROVE  OneByOne'
BY DEF OneByOne, ErrorIsNew, PlaceHere, PlaceAhead, Reduced, PlacePicked, MayThrow

\* The state of the left hand side, at the top now, is where the error has its place.
LEMMA StoreTopStateKeeps ==
  ASSUME Inv, Inv', Following, OneByOne, StoreTopState
  PROVE  OneByOne'
<1>1. /\ pc = "top" /\ TopState # InvalidState /\ pc' = "act"
      /\ stack' = [stack EXCEPT ![StackPosition].State = TopState]
      /\ StackPosition' = StackPosition
      /\ ~ NextTokenFlag => Token' = Token
  BY DEF StoreTopState
<1>2. ErrorPresented' => ~ NextTokenFlag /\ ErrorPresented
  BY StoreTopStateFollows
<1>3. ErrorPresented' => GetAction(TopState, Token.Code).kind # "none"
  <2>1. NoStartState => Waits
    BY <1>1 DEF Waits
  <2>2. ErrorPresented' => ~ NoStartState
    BY <1>1, <1>2, <2>1 DEF Following, AtStart
  <2> QED BY <1>1, <1>2, <2>2 DEF OneByOne, PlaceAhead, Begun, Waits, Reduced
<1>4. stack'[StackPosition'].State = TopState
  BY <1>1 DEF Inv, Typed, Stacks, Elements
<1>5. ErrorPresented' => Action' = GetAction(TopState, Token.Code)
  BY <1>1, <1>2, <1>4 DEF Action, TopElement
<1> QED BY <1>1, <1>3, <1>5, ActKeeps

\* After a reduction an error still has its place, and one that may be thrown
\* has its own.
LEMMA ReduceKeepsPlace ==
  ASSUME Suitable, ErrorsFindPlace, Inv, Following, Reduce
  PROVE  OneByOne'
<1>1. PICK below : below = stack[ReducedPosition - 1].State
  OBVIOUS
<1>2. /\ pc = "act" /\ Action.kind = "reduce" /\ ReducedState # InvalidState
      /\ StackPosition' = ReducedPosition /\ TopState' = ReducedState
      /\ reducing' = Action.arg /\ pc' \in {"reduced", "handler"}
      /\ Token' = Token /\ PrevTokenIndex' = PrevTokenIndex
  BY DEF Reduce
<1>3. /\ SameCursor(stream, stream')
      /\ \A i \in 0 .. StackPosition : stack'[i].State = stack[i].State
  BY ReduceKeeps
<1>4. ErrorPresented' = ErrorPresented /\ (ErrorPresented => Token.Code \in ErrorTerminals)
  <2>1. Begun /\ LookedAt = Token.Code
    BY <1>2, ActNow, TopFacts
  <2>2. ErrorPresented => LookedAt \in ErrorTerminals
    BY <2>1, BegunNow
  <2> QED BY <1>2, <1>3, <2>1, <2>2 DEF ErrorPresented, SameCursor
<1>5. /\ Token.Code \in ErrorTerminals =>
           /\ \A thrown \in DOMAIN ThrownTerminal : thrown[1] # Action.arg
           /\ \A left \in Lefts[Action.arg] : GetLeftReduceState(below, left) # InvalidState =>
                GetAction(GetLeftReduceState(below, left), Token.Code).kind # "none"
      /\ \A thrown \in DOMAIN ThrownTerminal : thrown[1] = Action.arg =>
           /\ ReducedProd.Length > 0
           /\ GetAction(stack[ReducedPosition].State, ThrownTerminal[thrown]).kind = "none"
  BY <1>1, <1>2, WhereReduces
<1>6. /\ ReducedProd.Length \in Nat /\ ReducedProd.Length <= StackPosition
      /\ StackPosition \in Nat /\ ReducedProd.Left \in Lefts[Action.arg]
      /\ ReducedPosition = StackPosition + 1 - ReducedProd.Length
  BY <1>2, ReduceEntry, TopFacts DEF Suitable, ReducedPosition
<1>7. /\ ReducedState = GetLeftReduceState(below, ReducedProd.Left)
      /\ stack'[StackPosition' - 1].State = below
      /\ ReducedProd.Length > 0 =>
           stack'[StackPosition'].State = stack[ReducedPosition].State
  <2>1. ReducedPosition - 1 \in 0 .. StackPosition
    BY <1>6
  <2>2. ReducedProd.Length > 0 => ReducedPosition \in 0 .. StackPosition
    BY <1>6
  <2> QED BY <1>1, <1>2, <1>3, <2>1, <2>2 DEF ReducedState
<1>8. PlaceAhead' /\ PlacePicked'
  <2>1. ErrorPresented' => GetAction(TopState', Token'.Code).kind # "none"
    BY <1>2, <1>4, <1>5, <1>6, <1>7
  <2>2. ErrorPresented' => \A left \in Lefts[reducing'] :
          GetLeftReduceState(below, left) # InvalidState =>
            GetAction(GetLeftReduceState(below, left), Token'.Code).kind # "none"
    BY <1>2, <1>4, <1>5
  <2>3. \A left : Picked(left)' = GetLeftReduceState(below, left)
    BY <1>7 DEF Picked
  <2> QED BY <2>1, <2>2, <2>3 DEF PlaceAhead, PlacePicked
<1>9. MayThrow'
  <2>1. ASSUME NEW thrown \in DOMAIN ThrownTerminal, thrown[1] = reducing'
        PROVE  ~ ErrorPresented' /\ NotShiftedHere(ThrownTerminal[thrown])'
    BY <1>2, <1>4, <1>5, <1>7, <2>1 DEF NotShiftedHere
  <2> QED BY <2>1 DEF MayThrow
<1>10. ErrorIsNew' /\ PlaceHere' /\ HasThrown'
  BY <1>2 DEF ErrorIsNew, PlaceHere, HasThrown, Thrown
<1> QED BY <1>8, <1>9, <1>10 DEF OneByOne

\* What the handler picks has a place for the error too.
LEMMA HandlerKeeps ==
  ASSUME Inv, Following, OneByOne,
         \/ \E left \in Lefts[reducing] : SetReduceNonterminal(left)
         \/ HandlerSucceeds
  PROVE  OneByOne'
<1>1. /\ pc = "handler" /\ pc' \in {"handler", "reduced"}
      /\ UNCHANGED <<stream, StackPosition, Token, PrevTokenIndex, reducing>>
      /\ pc' = "reduced" => TopState' = TopState
  BY DEF SetReduceNonterminal, HandlerSucceeds
<1>2. \A i \in 0 .. (StackSize - 1) : stack'[i].State = stack[i].State
  <2>1. stack' = stack \/ stack' = [stack EXCEPT ![StackPosition].Held = TRUE]
    BY DEF SetReduceNonterminal, HandlerSucceeds
  <2>2. stack \in Stacks /\ StackPosition \in 0 .. (StackSize - 1)
    BY DEF Inv, Typed
  <2>3. ASSUME stack' = [stack EXCEPT ![StackPosition].Held = TRUE], NEW i \in 0 .. (StackSize - 1)
        PROVE  stack'[i].State = stack[i].State
    <3>1. CASE i = StackPosition
      <4>1. stack[i] \in Elements /\ stack'[i] = [stack[i] EXCEPT !.Held = TRUE]
        BY <2>2, <2>3, <3>1 DEF Stacks
      <4> QED BY <4>1 DEF Elements
    <3>2. CASE i # StackPosition
      BY <2>2, <2>3, <3>2 DEF Stacks
    <3> QED BY <3>1, <3>2
  <2> QED BY <2>1, <2>3
<1>3. ErrorPresented' = ErrorPresented
  BY <1>1 DEF ErrorPresented
<1>4. /\ stack'[StackPosition'].State = stack[StackPosition].State
      /\ stack'[StackPosition' - 1].State = stack[StackPosition - 1].State
  <2>1. StackPosition > 0
    BY <1>1 DEF Following, GoesTo
  <2>2. StackPosition \in 0 .. (StackSize - 1) /\ StackPosition - 1 \in 0 .. (StackSize - 1)
    BY <2>1, TopFacts
  <2> QED BY <1>1, <1>2, <2>2
<1>5. \A left : Picked(left)' = Picked(left)
  BY <1>4 DEF Picked
<1>6. PlacePicked'
  BY <1>1, <1>3, <1>5 DEF OneByOne, PlacePicked
<1>7. PlaceAhead'
  <2>1. /\ TopState = Picked(ReduceLeft) /\ ReduceLeft \in Lefts[reducing]
        /\ TopState # InvalidState
    BY <1>1 DEF Following, InHand, GoesTo, Picked
  <2>2. ErrorPresented => GetAction(TopState, Token.Code).kind # "none"
    BY <1>1, <2>1 DEF OneByOne, PlacePicked
  <2> QED BY <1>1, <1>3, <2>2 DEF PlaceAhead, Reduced
<1>8. MayThrow'
  <2>1. \A code : NotShiftedHere(code)' = NotShiftedHere(code)
    BY <1>4 DEF NotShiftedHere
  <2> QED BY <1>1, <1>3, <2>1 DEF OneByOne, MayThrow
<1>9. ErrorIsNew' /\ PlaceHere' /\ HasThrown'
  BY <1>1 DEF ErrorIsNew, PlaceHere, HasThrown, Thrown
<1> QED BY <1>6, <1>7, <1>8, <1>9 DEF OneByOne

\* An error is thrown where none is presented.
LEMMA FinishReduceKeeps ==
  ASSUME Inv, Following, OneByOne, FinishReduce
  PROVE  OneByOne'
<1> DEFINE throws == /\ ReduceProductions[reducing].ErrorTerminalFlag
                     /\ <<reducing, ReduceLeft>> \in DOMAIN ThrownTerminal
           popped == (StackPosition + 1) .. (StackPosition + ReduceProductions[reducing].Length)
<1>1. /\ pc = "reduced" /\ stack' = CleanedUp(stack, popped)
      /\ pc' = IF throws THEN "error" ELSE "top"
      /\ errorCode' = IF throws THEN ThrownTerminal[<<reducing, ReduceLeft>>] ELSE errorCode
      /\ UNCHANGED <<stream, StackPosition, TopState, NextTokenFlag, Token, PrevTokenIndex>>
  BY DEF FinishReduce
<1>2. ErrorPresented' = ErrorPresented
  BY <1>1 DEF ErrorPresented
<1>3. CASE throws
  <2>1. ~ ErrorPresented /\ NotShiftedHere(ThrownTerminal[<<reducing, ReduceLeft>>])
    BY <1>1, <1>3 DEF OneByOne, MayThrow
  <2>2. stack'[StackPosition'].State = stack[StackPosition].State
    <3>1. stack \in Stacks /\ StackPosition \in 0 .. (StackSize - 1)
      BY DEF Inv, Typed
    <3> HIDE DEF popped
    <3> QED BY <1>1, <3>1, CleanedUpFacts
  <2>3. HasThrown'
    BY <1>1, <1>3, <2>1, <2>2 DEF HasThrown, NotShiftedHere
  <2> QED BY <1>1, <1>2, <1>3, <2>1, <2>3, ErrorKeeps
<1>4. CASE ~ throws
  <2>1. Begun /\ Reduced
    BY <1>1, WorkingNow DEF Working, Begun, Waits, Reduced
  <2>2. ErrorPresented => GetAction(TopState, Token.Code).kind # "none"
    BY <2>1 DEF OneByOne, PlaceAhead
  <2>3. PlaceAhead' /\ pc' = "top"
    BY <1>1, <1>2, <1>4, <2>2 DEF PlaceAhead
  <2> QED BY <2>3 DEF OneByOne, ErrorIsNew, PlaceHere, PlacePicked, MayThrow, HasThrown, Thrown
<1> QED BY <1>3, <1>4

\* Where an error is presented there is an action on it.
LEMMA RecoverAtKeeps ==
  ASSUME Inv, Inv', NEW s, NEW sp \in ErrorPositions, RecoverAt(s, sp), errorCode' = errorCode
  PROVE  OneByOne'
<1> DEFINE popped == (sp + 1) .. StackPosition
<1>1. /\ pc' = "act" /\ Token' = [Token EXCEPT !.Code = errorCode]
      /\ ReducesOnError => stack' = stack /\ StackPosition' = StackPosition
      /\ ~ ReducesOnError => stack' = CleanedUp(stack, popped) /\ StackPosition' = sp
  BY DEF RecoverAt
<1>2. /\ stack \in Stacks /\ sp \in 0 .. (StackSize - 1)
      /\ GetAction(stack[sp].State, errorCode).kind # "none"
  BY TopFacts DEF ErrorPositions, Inv, Typed
<1>3. Token'.Code = errorCode
  BY <1>1 DEF Inv, Typed, Tokens
<1>4. Action'.kind # "none"
  <2>1. CASE ReducesOnError
    BY <1>1, <1>3, <2>1 DEF ReducesOnError, Action, TopElement
  <2>2. CASE ~ ReducesOnError
    <3>1. stack'[sp].State = stack[sp].State /\ StackPosition' = sp
      <4>1. stack' = CleanedUp(stack, popped) /\ StackPosition' = sp
        BY <1>1, <2>2
      <4> HIDE DEF popped
      <4> QED BY <1>2, <4>1, CleanedUpFacts
    <3> QED BY <1>2, <1>3, <3>1 DEF Action, TopElement
  <2> QED BY <2>1, <2>2
<1> QED BY <1>1, <1>4, ActKeeps

\* No error is found, skipped over or presented while another one waits.
LEMMA ErrorStepsKeep ==
  ASSUME Inv, Inv', OneByOne, SyntaxError \/ RecoverAtOnce \/ StartSkipping \/ SkipToken
  PROVE  OneByOne'
<1>1. CASE SyntaxError
  <2>1. /\ pc = "act" /\ Action.kind = "none" /\ pc' = "error" /\ errorCode' = TokenError
        /\ UNCHANGED <<stream, PrevTokenIndex>>
    BY <1>1 DEF SyntaxError
  <2>2. ~ ErrorPresented'
    BY <2>1 DEF OneByOne, PlaceHere, ErrorPresented
  <2>3. HasThrown'
    BY <2>1 DEF HasThrown, Thrown
  <2> QED BY <2>1, <2>2, <2>3, ErrorKeeps
<1>2. CASE RecoverAtOnce
  <2>1. PICK s : s = MarkError
    OBVIOUS
  <2>2. PICK sp : sp = Topmost(RecoveringPositions)
    OBVIOUS
  <2>3. RecoveringPositions # {} /\ RecoverAt(s, sp) /\ errorCode' = errorCode
    BY <1>2, <2>1, <2>2 DEF RecoverAtOnce
  <2>4. sp \in RecoveringPositions
    <3>1. RecoveringPositions \subseteq 0 .. StackPosition /\ StackPosition \in Nat
      BY TopFacts DEF RecoveringPositions, ErrorPositions
    <3> QED BY <2>2, <2>3, <3>1, TopmostFacts
  <2>5. sp \in ErrorPositions
    BY <2>4 DEF RecoveringPositions
  <2> QED BY <2>3, <2>5, RecoverAtKeeps
<1>3. CASE StartSkipping
  <2>1. /\ pc = "error" /\ pc' = "skip"
        /\ UNCHANGED <<stack, StackPosition, errorCode>>
    BY <1>3 DEF StartSkipping
  <2>2. HasThrown'
    BY <2>1 DEF OneByOne, HasThrown, Thrown, NotShiftedHere
  <2> QED BY <2>1, <2>2, ErrorKeeps
<1>4. CASE SkipToken
  <2>1. PICK read : read = AfterNextToken(stream)
    OBVIOUS
  <2>2. PICK positions : positions = ValidPositions(skipped'.Code)
    OBVIOUS
  <2>3. /\ pc = "skip" /\ errorCode' = errorCode
        /\ positions = {} => UNCHANGED <<stack, StackPosition, pc>>
        /\ positions # {} => RecoverAt(read, Topmost(positions))
    BY <1>4, <2>1, <2>2 DEF SkipToken
  <2>4. CASE positions = {}
    <3>1. pc' = "skip" /\ HasThrown'
      BY <2>3, <2>4 DEF OneByOne, HasThrown, Thrown, NotShiftedHere
    <3> QED BY <3>1, ErrorKeeps
  <2>5. CASE positions # {}
    <3>1. PICK sp : sp = Topmost(positions)
      OBVIOUS
    <3>2. positions \subseteq 0 .. StackPosition /\ StackPosition \in Nat
      BY <2>2, TopFacts DEF ValidPositions, ErrorPositions
    <3>3. sp \in positions
      BY <2>5, <3>1, <3>2, TopmostFacts
    <3>4. sp \in ErrorPositions
      BY <2>2, <3>3 DEF ValidPositions
    <3> QED BY <2>3, <2>5, <3>1, <3>4, RecoverAtKeeps
  <2> QED BY <2>4, <2>5
<1> QED BY <1>1, <1>2, <1>3, <1>4

\* One error at a time is one token back at a time.
LEMMA OneErrorOneToken ==
  ASSUME Suitable, ErrorsFindPlace, Inv, Following, OneByOne
  PROVE  OneTokenBack
<1>1. GoesBack => ~ ErrorPresented
  <2>1. ~ (pc = "act" /\ Action.kind = "reduce" /\ ReducedState = InvalidState)
    <3>1. PICK below : below = stack[ReducedPosition - 1].State
      OBVIOUS
    <3> QED BY <3>1, WhereReduces
  <2> QED BY <2>1 DEF GoesBack, OneByOne, ErrorIsNew
<1>2. Thrown => StackPosition \notin ErrorPositions
  BY DEF OneByOne, HasThrown, NotShiftedHere, ErrorPositions
<1> QED BY <1>1, <1>2 DEF OneTokenBack

\* A parse that has not begun, cannot, or is over.
LEMMA OutsideKeeps ==
  ASSUME Following,
         \/ \E src \in Sources \union {NullSource} : pc = "idle" /\ SetTokenStream(src)
         \/ \E nonTerminal \in NonTerminals : SetStartingProduction(nonTerminal)
         \/ DoParse \/ NotReady \/ ReadsOutOfRange
         \/ Accept \/ HandlerFails \/ GiveUp \/ StopSkipping
  PROVE  ~ Begun' /\ pc' \notin {"act", "handler", "reduced", "error", "skip"}
<1>1. CASE DoParse
  <2>1. pc = "idle" /\ pc' = "top" /\ TopState' = TopState /\ NextTokenFlag' = NextTokenFlag
    BY <1>1 DEF DoParse, parserVars
  <2>2. TopState # InvalidState => NextTokenFlag
    BY <2>1 DEF Following, AtStart, Waits
  <2> QED BY <2>1, <2>2 DEF Begun, Waits
<1>2. CASE ~ DoParse
  <2>1. pc' \in {"idle", "accepted", "failed", "crashed"}
    BY <1>2 DEF SetTokenStream, SetStartingProduction, NotReady, ReadsOutOfRange, Accept,
                HandlerFails, GiveUp, StopSkipping, Fail
  <2> QED BY <2>1 DEF Begun
<1> QED BY <1>1, <1>2

\* Every step keeps all three invariants.
LEMMA NextKeeps ==
  ASSUME Suitable, ErrorsFindPlace, Inv, Following, OneByOne, [Next]_vars
  PROVE  (Inv /\ Following /\ OneByOne)'
<1>1. OneTokenBack
  BY OneErrorOneToken
<1>2. Inv' /\ Following'
  BY <1>1, NextFollows DEF Follows
<1> SUFFICES OneByOne'
  BY <1>2
<1>3. CASE Client \/ NotReady \/ ReadsOutOfRange \/ Accept \/ HandlerFails \/ GiveUp \/ StopSkipping
  BY <1>3, OutsideKeeps, RestKeeps DEF Client
<1>4. CASE StoreTopState
  BY <1>2, <1>4, StoreTopStateKeeps
<1>5. CASE Shift \/ ShiftErrors
  <2>1. ~ ErrorPresented' /\ pc' = "act"
    <3>1. CASE Shift
      BY <1>2, <3>1, ShiftFollows DEF Shift, Push
    <3>2. CASE ShiftErrors
      BY <1>2, <3>2, ShiftErrorFollows DEF ShiftErrors, ShiftError, Push
    <3> QED BY <1>5, <3>1, <3>2
  <2> QED BY <2>1, ActKeeps
<1>6. CASE Reduce
  BY <1>6, ReduceKeepsPlace
<1>7. CASE RejectReduce
  <2>1. PICK below : below = stack[ReducedPosition - 1].State
    OBVIOUS
  <2>2. pc = "act" /\ Action.kind = "reduce" /\ ReducedState = InvalidState
    BY <1>7 DEF RejectReduce
  <2> QED BY <2>1, <2>2, WhereReduces
<1>8. CASE \/ \E left \in Lefts[reducing] : SetReduceNonterminal(left)
           \/ HandlerSucceeds
  BY <1>8, HandlerKeeps
<1>9. CASE FinishReduce
  BY <1>9, FinishReduceKeeps
<1>10. CASE SyntaxError \/ RecoverAtOnce \/ StartSkipping \/ SkipToken
  BY <1>2, <1>10, ErrorStepsKeep
<1>11. CASE UNCHANGED vars
  <2>1. UNCHANGED <<stream, stack, StackPosition, TopState, NextTokenFlag, Token,
                    PrevTokenIndex, reducing, errorCode, pc>>
    BY <1>11 DEF vars, parserVars
  <2>2. \A code : NotShiftedHere(code)' = NotShiftedHere(code)
    BY <2>1 DEF NotShiftedHere
  <2>3. \A left : Picked(left)' = Picked(left)
    BY <2>1 DEF Picked
  <2>4. ErrorPresented' = ErrorPresented /\ Action' = Action /\ Begun' = Begun
        /\ Reduced' = Reduced /\ Thrown' = Thrown
    BY <2>1 DEF ErrorPresented, Action, TopElement, Begun, Waits, Reduced, Thrown, NoStartState
  <2> QED BY <2>1, <2>2, <2>3, <2>4 DEF OneByOne, ErrorIsNew, PlaceHere, PlaceAhead, PlacePicked,
                                        MayThrow, HasThrown
<1> QED BY <1>2, <1>3, <1>4, <1>5, <1>6, <1>7, <1>8, <1>9, <1>10, <1>11
        DEF Next, Handler, Parser

\* A new parser has no error.
LEMMA InitKeeps == Init => OneByOne
<1> SUFFICES ASSUME Init PROVE OneByOne
  OBVIOUS
<1>1. pc = "idle"
  BY DEF Init
<1> QED BY <1>1 DEF OneByOne, ErrorIsNew, PlaceHere, PlaceAhead, Begun, PlacePicked, MayThrow,
                    HasThrown, Thrown

\* Where the table has a place for every error, DoParse never goes back from an
\* error that is not shifted yet, whatever the handler picks.
THEOREM GoesBackOnce ==
  ASSUME Suitable, ErrorsFindPlace
  PROVE  Spec => []OneTokenBack
<1>1. Init => Inv /\ Following /\ OneByOne
  BY InitInv, InitFollows, InitKeeps
<1>2. Inv /\ Following /\ OneByOne /\ [Next]_vars => (Inv /\ Following /\ OneByOne)'
  BY NextKeeps
<1>3. Inv /\ Following /\ OneByOne => OneTokenBack
  BY OneErrorOneToken
<1> QED BY <1>1, <1>2, <1>3, PTL DEF Spec

\* So every parse with such a table rewrites its input by the productions of the
\* grammar: nothing is asked of the behaviour.
THEOREM FollowsTheGrammar ==
  ASSUME Suitable, ErrorsFindPlace
  PROVE  Spec => PromiseSpec
BY GoesBackOnce, ParsesTheGrammar, PTL

\* And DoParse asks nothing of its stream that it cannot serve, and never leaves
\* the stack.  It forgets no value but where a handler fails: there the rest of
\* the right hand side.
THEOREM AlwaysSound ==
  ASSUME Suitable, ErrorsFindPlace
  PROVE  Spec => [](TypeOK /\ StreamSound) /\ NoValueLeaks
BY GoesBackOnce, StaysDisciplined, TypeCorrect, StreamStaysSound, NoValueForgotten, PTL

\* Nor does it forget a marker, if the start states record alike and it was never
\* given a nonterminal without one.
THEOREM NoMarkerForgotten ==
  ASSUME Suitable, ErrorsFindPlace, StartsRecordAlike
  PROVE  Spec => NoMarkerLeaks
BY GoesBackOnce, StaysDisciplined, MarkersOwned, PTL

=============================================================================
