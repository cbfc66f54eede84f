---------------------------- MODULE TokenizerProofs ----------------------------
(***************************************************************************)
(* Proofs about the tokenizer: for every automaton, every size of block    *)
(* and every stream.                                                       *)
(***************************************************************************)
EXTENDS TokenizerProperties, FiniteSetTheorems, SequenceTheorems, WellFoundedInduction, TLAPS

(***************************************************************************)
(* The bytes of a chain of blocks                                          *)
(***************************************************************************)

\* Numbers have a least one among them.
LEMMA LeastNat ==
  ASSUME NEW T, T \subseteq Nat, T # {}
  PROVE  \E m \in T : \A k \in T : m <= k
<1> DEFINE R == OpToRel(<, Nat)
<1>1. IsWellFoundedOn(R, Nat)
  BY NatLessThanWellFounded
<1>2. PICK x \in T : \A y \in T : ~ (<<y, x>> \in R)
  <2> HIDE DEF R
  <2> QED BY <1>1, WFMin
<1>3. \A y \in T : ~ (y < x)
  BY <1>2 DEF OpToRel
<1> QED
  <2> HIDE DEF R
  <2> QED BY <1>2, <1>3

\* The concatenations of the beginnings of a chain, as FlattenSeq finds them.
Flattens(c, m, f) == f = [i \in 1 .. m |-> IF i = 1 THEN c[i] ELSE f[i - 1] \o c[i]]

\* They exist.
LEMMA FlattensExist ==
  ASSUME NEW c, NEW n \in Nat
  PROVE  \E f : Flattens(c, n, f)
<1> DEFINE T == {m \in Nat : ~ \E f : Flattens(c, m, f)}
<1>1. SUFFICES ASSUME T # {} PROVE FALSE
  OBVIOUS
<1>2. PICK m \in T : \A k \in T : m <= k
  <2>1. T \subseteq Nat
    OBVIOUS
  <2> HIDE DEF T
  <2> QED BY <1>1, <2>1, LeastNat
<1>3. CASE m = 0
  <2>1. Flattens(c, 0, [i \in 1 .. 0 |-> c])
    BY DEF Flattens
  <2> QED BY <1>2, <1>3, <2>1
<1>4. CASE m # 0
  <2>1. m - 1 \in Nat /\ ~ (m <= m - 1)
    BY <1>2, <1>4
  <2>2. PICK g : Flattens(c, m - 1, g)
    BY <1>2, <2>1
  <2> DEFINE f == [i \in 1 .. m |-> IF i = m THEN (IF i = 1 THEN c[i] ELSE g[i - 1] \o c[i])
                                             ELSE g[i]]
  <2>3. ASSUME NEW i \in 1 .. m
        PROVE  f[i] = IF i = 1 THEN c[i] ELSE f[i - 1] \o c[i]
    <3>1. \A j \in 1 .. (m - 1) : g[j] = IF j = 1 THEN c[j] ELSE g[j - 1] \o c[j]
      BY <2>2 DEF Flattens
    <3>2. i # 1 => i - 1 \in 1 .. (m - 1) /\ f[i - 1] = g[i - 1]
      BY <2>3
    <3>3. i # m => i \in 1 .. (m - 1) /\ f[i] = g[i]
      BY <2>3
    <3>4. i = m => f[i] = IF i = 1 THEN c[i] ELSE g[i - 1] \o c[i]
      BY <2>3
    <3> HIDE DEF f
    <3> QED BY <3>1, <3>2, <3>3, <3>4
  <2>4. Flattens(c, m, f)
    BY <2>3 DEF Flattens
  <2> QED BY <1>2, <2>4
<1> QED BY <1>3, <1>4

\* They are alike where the chains are.
LEMMA FlattensAgree ==
  ASSUME NEW c, NEW d, NEW m \in Nat, NEW n \in Nat, m <= n, \A i \in 1 .. m : c[i] = d[i],
         NEW f, Flattens(c, m, f), NEW g, Flattens(d, n, g)
  PROVE  \A i \in 1 .. m : f[i] = g[i]
<1> DEFINE T == {i \in 1 .. m : f[i] # g[i]}
<1>1. /\ \A i \in 1 .. m : f[i] = IF i = 1 THEN c[i] ELSE f[i - 1] \o c[i]
      /\ \A i \in 1 .. n : g[i] = IF i = 1 THEN d[i] ELSE g[i - 1] \o d[i]
  BY DEF Flattens
<1>2. SUFFICES ASSUME T # {} PROVE FALSE
  OBVIOUS
<1>3. PICK k \in T : \A j \in T : k <= j
  <2>1. T \subseteq Nat
    OBVIOUS
  <2> HIDE DEF T
  <2> QED BY <1>2, <2>1, LeastNat
<1>4. k \in 1 .. m /\ k \in 1 .. n /\ c[k] = d[k]
  BY <1>3
<1>5. k # 1 => k - 1 \in 1 .. m /\ k - 1 \notin T
  BY <1>3, <1>4
<1> QED BY <1>1, <1>3, <1>4, <1>5

\* A block more at the end.
LEMMA FlattenAppend ==
  ASSUME NEW S, NEW c \in Seq(Seq(S)), NEW e \in Seq(S)
  PROVE  FlattenSeq(Append(c, e)) = FlattenSeq(c) \o e
<1> DEFINE d == Append(c, e)
           n == Len(c)
           m == Len(d)
           f == CHOOSE h : Flattens(c, n, h)
           g == CHOOSE h : Flattens(d, m, h)
<1>1. /\ n \in Nat /\ m \in Nat /\ m = n + 1 /\ m - 1 = n /\ n <= m /\ d[m] = e
      /\ \A i \in 1 .. n : d[i] = c[i]
  BY AppendProperties, LenProperties
<1>2. /\ FlattenSeq(c) = IF n = 0 THEN c ELSE f[n]
      /\ FlattenSeq(d) = IF m = 0 THEN d ELSE g[m]
  BY DEF FlattenSeq, Flattens
<1> HIDE DEF d, n, m
<1>3. Flattens(c, n, f) /\ Flattens(d, m, g)
  <2>1. (\E h : Flattens(c, n, h)) /\ (\E h : Flattens(d, m, h))
    BY <1>1, FlattensExist
  <2> QED BY <2>1
<1> HIDE DEF f, g
<1>4. g[m] = IF m = 1 THEN e ELSE g[n] \o e
  <2>1. \A i \in 1 .. m : g[i] = IF i = 1 THEN d[i] ELSE g[i - 1] \o d[i]
    BY <1>3 DEF Flattens
  <2>2. m \in 1 .. m
    BY <1>1
  <2> QED BY <1>1, <2>1, <2>2
<1>5. \A i \in 1 .. n : c[i] = d[i]
  BY <1>1
<1>6. \A i \in 1 .. n : f[i] = g[i]
  <2>1. n \in Nat /\ m \in Nat /\ n <= m
    BY <1>1
  <2> QED BY <1>3, <1>5, <2>1, FlattensAgree, SMTT(20)
<1>7. CASE n = 0
  <2>1. c = <<>>
    BY <1>7, EmptySeq DEF n
  <2>2. FlattenSeq(c) \o e = e
    BY <1>2, <1>7, <2>1, ConcatEmptySeq
  <2> QED BY <1>1, <1>2, <1>4, <1>7, <2>2 DEF d
<1>8. CASE n # 0
  <2>1. n \in 1 .. n /\ m # 0 /\ m # 1
    BY <1>1, <1>8
  <2>2. FlattenSeq(d) = g[n] \o e /\ FlattenSeq(c) = f[n] /\ f[n] = g[n]
    BY <1>2, <1>4, <1>6, <1>8, <2>1
  <2> QED BY <2>2 DEF d
<1> QED BY <1>7, <1>8

\* No block.
LEMMA FlattenEmpty == FlattenSeq(<< >>) = << >>
BY DEF FlattenSeq

\* A part of a sequence grows by its next element.
LEMMA SubSeqStep ==
  ASSUME NEW S, NEW c \in Seq(S), NEW k \in Nat, NEW n \in Nat, k <= n, n < Len(c)
  PROVE  /\ SubSeq(c, k + 1, n) \in Seq(S)
         /\ SubSeq(c, k + 1, n + 1) = Append(SubSeq(c, k + 1, n), c[n + 1])
         /\ c[n + 1] \in S
<1>1. \A i \in 1 .. Len(c) : c[i] \in S
  BY ElementOfSeq
<1>2. n + 1 \in 1 .. Len(c) /\ k + 1 \in Int /\ n \in Int /\ n + 1 \in Int
  BY LenProperties
<1>3. SubSeq(c, k + 1, n) \in Seq(S)
  BY <1>1, <1>2, SubSeqProperties
<1>4. SubSeq(c, k + 1, n + 1) = Append(SubSeq(c, k + 1, n), c[n + 1])
  BY <1>1, <1>2, <1>3
<1> QED BY <1>1, <1>2, <1>3, <1>4

\* What a chain of blocks of bytes flattens to.
LEMMA FlattenType ==
  ASSUME NEW S, NEW c \in Seq(Seq(S))
  PROVE  FlattenSeq(c) \in Seq(S)
<1> DEFINE T == {n \in 0 .. Len(c) : FlattenSeq(SubSeq(c, 1, n)) \notin Seq(S)}
<1>1. Len(c) \in Nat /\ SubSeq(c, 1, Len(c)) = c
  BY LenProperties, SubSeqFull
<1>2. SUFFICES ASSUME T # {} PROVE FALSE
  <2>1. Len(c) \in 0 .. Len(c)
    BY <1>1
  <2> QED BY <1>1, <2>1
<1>3. PICK n \in T : \A k \in T : n <= k
  <2>1. T \subseteq Nat
    OBVIOUS
  <2> HIDE DEF T
  <2> QED BY <1>2, <2>1, LeastNat
<1>4. CASE n = 0
  <2>1. SubSeq(c, 1, 0) = << >>
    BY SubSeqEmpty
  <2> QED BY <1>3, <1>4, <2>1, FlattenEmpty, EmptySeq
<1>5. CASE n # 0
  <2> DEFINE m == n - 1
  <2>1. m \in 0 .. Len(c) /\ m \in Nat /\ m < Len(c) /\ m + 1 = n /\ m \notin T /\ 0 <= m
    BY <1>1, <1>3, <1>5
  <2>2. FlattenSeq(SubSeq(c, 1, m)) \in Seq(S)
    BY <2>1
  <2> HIDE DEF m
  <2>3. /\ SubSeq(c, 0 + 1, m) \in Seq(Seq(S)) /\ c[m + 1] \in Seq(S)
        /\ SubSeq(c, 0 + 1, m + 1) = Append(SubSeq(c, 0 + 1, m), c[m + 1])
    BY <2>1, SubSeqStep
  <2>4. FlattenSeq(SubSeq(c, 1, n)) = FlattenSeq(SubSeq(c, 1, m)) \o c[m + 1]
    <3>1. 0 + 1 = 1
      OBVIOUS
    <3>2. /\ SubSeq(c, 1, m) \in Seq(Seq(S)) /\ c[m + 1] \in Seq(S)
          /\ SubSeq(c, 1, n) = Append(SubSeq(c, 1, m), c[m + 1])
      BY <2>1, <2>3, <3>1
    <3> QED BY <3>2, FlattenAppend
  <2>5. FlattenSeq(SubSeq(c, 1, n)) \in Seq(S)
    BY <2>2, <2>3, <2>4, ConcatProperties
  <2> QED BY <1>3, <2>5
<1> QED BY <1>4, <1>5

\* A chain cut in two.
LEMMA FlattenCut ==
  ASSUME NEW S, NEW c \in Seq(Seq(S)), NEW k \in 0 .. Len(c)
  PROVE  FlattenSeq(c) = FlattenSeq(SubSeq(c, 1, k)) \o FlattenSeq(SubSeq(c, k + 1, Len(c)))
<1> DEFINE whole(n) == FlattenSeq(SubSeq(c, 1, n))
           rest(n) == FlattenSeq(SubSeq(c, k + 1, n))
           T == {n \in k .. Len(c) : whole(n) # whole(k) \o rest(n)}
<1>1. /\ Len(c) \in Nat /\ SubSeq(c, 1, Len(c)) = c /\ k \in Nat
      /\ Len(c) \in k .. Len(c)
  BY LenProperties, SubSeqFull
<1>2. SUFFICES ASSUME T # {} PROVE FALSE
  BY <1>1
<1>3. PICK n \in T : \A j \in T : n <= j
  <2>1. T \subseteq Nat
    BY <1>1
  <2> HIDE DEF T
  <2> QED BY <1>2, <2>1, LeastNat
<1>4. ASSUME NEW m \in 0 .. Len(c)
      PROVE  SubSeq(c, 1, m) \in Seq(Seq(S)) /\ SubSeq(c, k + 1, m) \in Seq(Seq(S))
  <2>1. \A i \in 1 .. Len(c) : c[i] \in Seq(S)
    BY ElementOfSeq
  <2>2. \A i \in (k + 1) .. m : c[i] \in Seq(S)
    BY <1>1, <2>1
  <2>3. \A i \in 1 .. m : c[i] \in Seq(S)
    BY <1>1, <2>1
  <2> QED BY <1>1, <2>2, <2>3, SubSeqProperties
<1>5. ASSUME NEW m \in 0 .. Len(c)
      PROVE  whole(m) \in Seq(S) /\ rest(m) \in Seq(S)
  BY <1>4, FlattenType
<1>6. CASE n = k
  <2>1. SubSeq(c, k + 1, k) = << >>
    BY <1>1, SubSeqEmpty
  <2>2. rest(k) = << >>
    BY <2>1, FlattenEmpty
  <2>3. whole(k) \in Seq(S)
    BY <1>5
  <2> HIDE DEF whole, rest
  <2> QED BY <1>3, <1>6, <2>2, <2>3, ConcatEmptySeq
<1>7. CASE n # k
  <2> DEFINE m == n - 1
  <2>1. /\ m \in k .. Len(c) /\ m \in Nat /\ m < Len(c) /\ m + 1 = n /\ m \notin T
        /\ 0 <= m /\ k <= m /\ m \in 0 .. Len(c)
    <3>1. n \in k .. Len(c) /\ k \in 0 .. Len(c)
      BY <1>3
    <3>2. m \notin T
      <4>1. ~ (n <= m)
        BY <1>1, <3>1
      <4> HIDE DEF T, m
      <4> QED BY <1>3, <4>1
    <3> HIDE DEF T
    <3> QED BY <1>1, <1>7, <3>1, <3>2
  <2>2. whole(m) = whole(k) \o rest(m)
    BY <2>1
  <2> HIDE DEF m
  <2>3. /\ SubSeq(c, 0 + 1, m) \in Seq(Seq(S)) /\ c[m + 1] \in Seq(S)
        /\ SubSeq(c, 0 + 1, m + 1) = Append(SubSeq(c, 0 + 1, m), c[m + 1])
        /\ SubSeq(c, k + 1, m) \in Seq(Seq(S))
        /\ SubSeq(c, k + 1, m + 1) = Append(SubSeq(c, k + 1, m), c[m + 1])
    <3>1. 0 \in Nat
      OBVIOUS
    <3>2. /\ SubSeq(c, 0 + 1, m) \in Seq(Seq(S)) /\ c[m + 1] \in Seq(S)
          /\ SubSeq(c, 0 + 1, m + 1) = Append(SubSeq(c, 0 + 1, m), c[m + 1])
      BY <2>1, <3>1, SubSeqStep
    <3>3. /\ SubSeq(c, k + 1, m) \in Seq(Seq(S))
          /\ SubSeq(c, k + 1, m + 1) = Append(SubSeq(c, k + 1, m), c[m + 1])
      <4>1. k \in Nat /\ m \in Nat /\ k <= m /\ m < Len(c) /\ c \in Seq(Seq(S))
        BY <1>1, <2>1
      <4> HIDE DEF whole, rest, T
      <4> QED BY <4>1, SubSeqStep
    <3> QED BY <3>2, <3>3
  <2>4. whole(n) = whole(m) \o c[m + 1] /\ rest(n) = rest(m) \o c[m + 1]
    <3>1. 0 + 1 = 1
      OBVIOUS
    <3>2. /\ SubSeq(c, 1, m) \in Seq(Seq(S)) /\ c[m + 1] \in Seq(S)
          /\ SubSeq(c, 1, n) = Append(SubSeq(c, 1, m), c[m + 1])
          /\ SubSeq(c, k + 1, m) \in Seq(Seq(S))
          /\ SubSeq(c, k + 1, n) = Append(SubSeq(c, k + 1, m), c[m + 1])
      BY <2>1, <2>3, <3>1
    <3> QED BY <3>2, FlattenAppend
  <2>5. whole(k) \in Seq(S) /\ rest(m) \in Seq(S)
    BY <1>5, <2>1
  <2> HIDE DEF whole, rest
  <2>6. whole(n) = whole(k) \o rest(n)
    <3> DEFINE e == c[m + 1]
    <3>1. e \in Seq(S)
      BY <2>3
    <3> HIDE DEF e
    <3>2. (whole(k) \o rest(m)) \o e = whole(k) \o (rest(m) \o e)
      <4>1. PICK x \in Seq(S), y \in Seq(S) : x = whole(k) /\ y = rest(m)
        BY <2>5
      <4>2. (x \o y) \o e = x \o (y \o e)
        BY <3>1, ConcatAssociative, SMTT(30)
      <4> QED BY <4>1, <4>2
    <3> QED BY <2>2, <2>4, <3>2 DEF e
  <2> QED BY <1>3, <2>6
<1> QED BY <1>6, <1>7

(***************************************************************************)
(* What every buffer object satisfies                                      *)
(***************************************************************************)

Buffers(S) ==
  [Chain : Seq(Seq(S)), HeadAt : Nat, TailBlock : Nat, TailAt : Nat,
   Spare : BOOLEAN, Allocated : Nat, Left : Seq(S)]

\* A position the tail may have: at the end of a block only at the end of the
\* input, and not before the head.
PosOK(b, pos) ==
  /\ pos.Block \in 1 .. Len(b.Chain)
  /\ pos.At \in 0 .. Len(b.Chain[pos.Block])
  /\ pos.At = Len(b.Chain[pos.Block]) => pos.Block = Len(b.Chain) /\ b.Left = <<>>
  /\ pos.Block = 1 => b.HeadAt <= pos.At

\* Blocks are full but for the last one, which is not empty if it follows
\* another and is full unless the stream has ended; the head is in the first.
ChainOK(b) ==
  /\ \A i \in 1 .. (Len(b.Chain) - 1) : Len(b.Chain[i]) = BlockSize
  /\ \A i \in 2 .. Len(b.Chain) : b.Chain[i] # <<>>
  /\ Len(b.Chain[Len(b.Chain)]) # BlockSize => b.Left = <<>>
  /\ b.HeadAt <= Len(b.Chain[1])

\* No block is in use or spare that was deleted.
BufInv(S, b) ==
  /\ b \in Buffers(S)
  /\ Len(b.Chain) + SpareBlocks(b) <= b.Allocated
  /\ Ready(b) => ChainOK(b) /\ PosOK(b, GetTailPos(b))

\* What has been read from the head's block on and what is still to come.
Contents(b) == FlattenSeq(b.Chain) \o b.Left

\* The bytes before a position.
Before(b, pos) == Len(FlattenSeq(SubSeq(b.Chain, 1, pos.Block - 1))) + pos.At

\* The text from the head to a position.
TextTo(b, pos) == TokenText(SetTailPos(b, pos))

\* One Read takes a block from the front of what is left.
LEMMA ReadBlockFacts ==
  ASSUME NEW S, NEW left \in Seq(S)
  PROVE  /\ ReadBlock(left) \in Seq(S) /\ AfterBlock(left) \in Seq(S)
         /\ ReadBlock(left) \o AfterBlock(left) = left
         /\ Len(ReadBlock(left)) # BlockSize => AfterBlock(left) = <<>>
         /\ left # <<>> => ReadBlock(left) # <<>>
<1> DEFINE n == IF BlockSize <= Len(left) THEN BlockSize ELSE Len(left)
<1>1. Len(left) \in Nat /\ BlockSize \in Nat /\ BlockSize > 0 /\ n \in Nat /\ n <= Len(left)
  BY LenProperties, BlockSizeAssumption
<1>2. Min({BlockSize, Len(left)}) = n
  BY <1>1 DEF Min
<1>3. ReadBlock(left) = SubSeq(left, 1, n) /\ AfterBlock(left) = SubSeq(left, BlockSize + 1, Len(left))
  BY <1>2 DEF ReadBlock, AfterBlock
<1>4. \A i \in 1 .. Len(left) : left[i] \in S
  BY ElementOfSeq
<1>5. /\ ReadBlock(left) \in Seq(S) /\ Len(ReadBlock(left)) = n
      /\ AfterBlock(left) \in Seq(S)
  BY <1>1, <1>3, <1>4, SubSeqProperties
<1>6. n # BlockSize => AfterBlock(left) = <<>>
  BY <1>1, <1>3, SubSeqEmpty
<1>7. left # <<>> => n > 0
  BY <1>1, EmptySeq
<1>8. ReadBlock(left) \o AfterBlock(left) = left
  <2>1. CASE BlockSize <= Len(left)
    <3>1. SubSeq(left, 1, n) \o SubSeq(left, n + 1, Len(left)) = SubSeq(left, 1, Len(left))
      <4>1. 1 \in 1 .. Len(left) + 1 /\ n \in 1 - 1 .. Len(left) /\ Len(left) \in n .. Len(left)
        BY <1>1
      <4> HIDE DEF n
      <4> QED BY <4>1, ConcatAdjacentSubSeq
    <3> QED BY <1>3, <2>1, <3>1, SubSeqFull
  <2>2. CASE ~ (BlockSize <= Len(left))
    BY <1>3, <1>5, <1>6, <2>2, <1>1, SubSeqFull, ConcatEmptySeq
  <2> QED BY <2>1, <2>2
<1>9. Len(ReadBlock(left)) # BlockSize => AfterBlock(left) = <<>>
  BY <1>5, <1>6
<1>10. left # <<>> => ReadBlock(left) # <<>>
  <2>1. Len(<< >>) = 0
    OBVIOUS
  <2> HIDE DEF n
  <2> QED BY <1>1, <1>5, <1>7, <2>1
<1> QED BY <1>5, <1>8, <1>9, <1>10

\* Fields of a buffer object.
LEMMA BufferFields ==
  ASSUME NEW S, NEW b \in Buffers(S)
  PROVE  /\ b.Chain \in Seq(Seq(S)) /\ b.HeadAt \in Nat /\ b.TailBlock \in Nat
         /\ b.TailAt \in Nat /\ b.Spare \in BOOLEAN /\ b.Allocated \in Nat
         /\ b.Left \in Seq(S) /\ Len(b.Chain) \in Nat
         /\ \A i \in 1 .. Len(b.Chain) : b.Chain[i] \in Seq(S) /\ Len(b.Chain[i]) \in Nat
         /\ SpareBlocks(b) \in {0, 1}
         /\ Ready(b) <=> Len(b.Chain) > 0
<1>1. /\ b.Chain \in Seq(Seq(S)) /\ b.HeadAt \in Nat /\ b.TailBlock \in Nat
      /\ b.TailAt \in Nat /\ b.Spare \in BOOLEAN /\ b.Allocated \in Nat
      /\ b.Left \in Seq(S)
  BY DEF Buffers
<1> DEFINE c == b.Chain
<1>2. c \in Seq(Seq(S))
  BY <1>1
<1> HIDE DEF c
<1>3. Len(c) \in Nat /\ \A i \in 1 .. Len(c) : c[i] \in Seq(S)
  BY <1>2, LenProperties, ElementOfSeq
<1>4. \A i \in 1 .. Len(c) : Len(c[i]) \in Nat
  BY <1>3, LenProperties
<1>5. c # <<>> <=> Len(c) > 0
  <2>1. Len(<< >>) = 0
    OBVIOUS
  <2> QED BY <1>2, <1>3, <2>1, EmptySeq
<1> QED BY <1>1, <1>3, <1>4, <1>5 DEF c, SpareBlocks, Ready

\* The blocks before one, and what follows them.
LEMMA ChainParts ==
  ASSUME NEW S, NEW c \in Seq(Seq(S)), NEW p \in 1 .. Len(c)
  PROVE  LET before == FlattenSeq(SubSeq(c, 1, p - 1))
             after  == FlattenSeq(SubSeq(c, p + 1, Len(c)))
         IN  /\ before \in Seq(S) /\ c[p] \in Seq(S) /\ after \in Seq(S)
             /\ FlattenSeq(c) = (before \o c[p]) \o after
<1> DEFINE before == FlattenSeq(SubSeq(c, 1, p - 1))
           after  == FlattenSeq(SubSeq(c, p + 1, Len(c)))
           k == p - 1
<1>1. /\ Len(c) \in Nat /\ p \in 0 .. Len(c) /\ k \in Nat /\ k + 1 = p /\ 0 <= k /\ k < Len(c)
      /\ 0 \in Nat
  BY LenProperties
<1>2. SubSeq(c, 1, p) \in Seq(Seq(S)) /\ SubSeq(c, p + 1, Len(c)) \in Seq(Seq(S))
  <2>1. \A i \in 1 .. Len(c) : c[i] \in Seq(S)
    BY ElementOfSeq
  <2>2. (\A i \in 1 .. p : c[i] \in Seq(S)) /\ (\A i \in (p + 1) .. Len(c) : c[i] \in Seq(S))
    BY <1>1, <2>1
  <2> QED BY <1>1, <2>2, SubSeqProperties
<1>3. FlattenSeq(c) = FlattenSeq(SubSeq(c, 1, p)) \o after
  BY <1>1, FlattenCut
<1> HIDE DEF k
<1>4. /\ SubSeq(c, 0 + 1, k) \in Seq(Seq(S)) /\ c[k + 1] \in Seq(S)
      /\ SubSeq(c, 0 + 1, k + 1) = Append(SubSeq(c, 0 + 1, k), c[k + 1])
  BY <1>1, SubSeqStep
<1>5. /\ SubSeq(c, 1, k) \in Seq(Seq(S)) /\ c[p] \in Seq(S)
      /\ SubSeq(c, 1, p) = Append(SubSeq(c, 1, k), c[p])
  <2>1. 0 + 1 = 1
    OBVIOUS
  <2> QED BY <1>1, <1>4, <2>1
<1>6. FlattenSeq(SubSeq(c, 1, p)) = FlattenSeq(SubSeq(c, 1, k)) \o c[p]
  BY <1>5, FlattenAppend
<1>7. FlattenSeq(SubSeq(c, 1, k)) \in Seq(S) /\ after \in Seq(S)
  BY <1>2, <1>5, FlattenType
<1> QED BY <1>3, <1>5, <1>6, <1>7 DEF k

\* A position is one in the bytes kept, and the text up to it is there.
LEMMA TextInChain ==
  ASSUME NEW S, NEW b \in Buffers(S), NEW pos, PosOK(b, pos)
  PROVE  LET bytes == FlattenSeq(b.Chain)
             n     == Before(b, pos)
         IN  /\ bytes \in Seq(S)
             /\ n \in 0 .. Len(bytes)
             /\ TextTo(b, pos) = SubSeq(bytes, b.HeadAt + 1, n)
             /\ pos.At < Len(b.Chain[pos.Block]) =>
                  /\ n < Len(bytes)
                  /\ bytes[n + 1] = b.Chain[pos.Block][pos.At + 1]
<1> DEFINE c == b.Chain
           p == pos.Block
           e == c[p]
           before == FlattenSeq(SubSeq(c, 1, p - 1))
           after  == FlattenSeq(SubSeq(c, p + 1, Len(c)))
           bytes  == FlattenSeq(c)
           at == pos.At
           n  == Len(before) + at
           upTo == before \o SubSeq(e, 1, at)
<1>1. c \in Seq(Seq(S)) /\ p \in 1 .. Len(c) /\ at \in 0 .. Len(e) /\ b.HeadAt \in Nat
  BY BufferFields DEF PosOK
<1> HIDE DEF c, p
<1>2. /\ before \in Seq(S) /\ e \in Seq(S) /\ after \in Seq(S) /\ bytes \in Seq(S)
      /\ bytes = (before \o e) \o after
  BY <1>1, ChainParts, FlattenType
<1>3. TextTo(b, pos) = SubSeq(upTo, b.HeadAt + 1, Len(upTo))
  BY DEF TextTo, TokenText, SetTailPos, Buffers, c, p
<1>4. Before(b, pos) = n
  BY DEF Before, c, p
<1> HIDE DEF before, after, e, bytes, at
<1>5. /\ Len(before) \in Nat /\ Len(e) \in Nat /\ Len(after) \in Nat
      /\ before \o e \in Seq(S) /\ Len(before \o e) = Len(before) + Len(e)
      /\ \A i \in 1 .. Len(before) + Len(e) :
           (before \o e)[i] = IF i <= Len(before) THEN before[i] ELSE e[i - Len(before)]
      /\ at \in Nat /\ at <= Len(e)
  BY <1>1, <1>2, LenProperties, ConcatProperties
<1>6. /\ Len(bytes) = Len(before) + Len(e) + Len(after)
      /\ \A i \in 1 .. Len(before) + Len(e) : bytes[i] = (before \o e)[i]
  <2> DEFINE both == before \o e
  <2>1. both \in Seq(S) /\ bytes = both \o after /\ Len(both) = Len(before) + Len(e)
    BY <1>2, <1>5
  <2> HIDE DEF both
  <2>2. /\ Len(both \o after) = Len(both) + Len(after)
        /\ \A i \in 1 .. Len(both) + Len(after) :
             (both \o after)[i] = IF i <= Len(both) THEN both[i] ELSE after[i - Len(both)]
    <3>1. both \in Seq(S) /\ after \in Seq(S)
      BY <1>2, <2>1
    <3> QED BY <3>1, ConcatProperties
  <2> QED BY <1>5, <2>1, <2>2 DEF both
<1>7. /\ SubSeq(e, 1, at) \in Seq(S) /\ Len(SubSeq(e, 1, at)) = at
      /\ \A i \in 1 .. at : SubSeq(e, 1, at)[i] = e[i]
  <2>1. \A i \in 1 .. at : e[i] \in S
    BY <1>2, <1>5, ElementOfSeq
  <2>2. 1 \in Int /\ at \in Int
    BY <1>5
  <2>3. /\ SubSeq(e, 1, at) \in Seq(S)
        /\ Len(SubSeq(e, 1, at)) = IF 1 <= at THEN at - 1 + 1 ELSE 0
        /\ \A i \in 1 .. at - 1 + 1 : SubSeq(e, 1, at)[i] = e[1 + i - 1]
    BY <2>1, <2>2, SubSeqProperties
  <2> QED BY <1>5, <2>3
<1>8. /\ upTo \in Seq(S) /\ Len(upTo) = n
      /\ \A i \in 1 .. n : upTo[i] = bytes[i]
  <2> DEFINE part == SubSeq(e, 1, at)
  <2>1. part \in Seq(S) /\ Len(part) = at /\ \A i \in 1 .. at : part[i] = e[i]
    BY <1>7
  <2> HIDE DEF part
  <2>2. /\ before \o part \in Seq(S) /\ Len(before \o part) = Len(before) + at
        /\ \A i \in 1 .. Len(before) + at :
             (before \o part)[i] = IF i <= Len(before) THEN before[i] ELSE part[i - Len(before)]
    BY <1>2, <2>1, ConcatProperties
  <2>3. ASSUME NEW i \in 1 .. n
        PROVE  (before \o part)[i] = bytes[i]
    <3>1. /\ i \in 1 .. Len(before) + at /\ i \in 1 .. Len(before) + Len(e)
          /\ i > Len(before) => i - Len(before) \in 1 .. at
      BY <1>5
    <3>2. bytes[i] = IF i <= Len(before) THEN before[i] ELSE e[i - Len(before)]
      BY <1>5, <1>6, <3>1
    <3>3. (before \o part)[i] = IF i <= Len(before) THEN before[i] ELSE part[i - Len(before)]
      BY <2>2, <3>1
    <3>4. i > Len(before) => part[i - Len(before)] = e[i - Len(before)]
      BY <2>1, <3>1
    <3>5. i <= Len(before) \/ i > Len(before)
      BY <1>5
    <3> QED BY <3>2, <3>3, <3>4, <3>5
  <2> QED BY <2>2, <2>3 DEF part
<1>9. SubSeq(upTo, b.HeadAt + 1, n) = SubSeq(bytes, b.HeadAt + 1, n)
  <2> DEFINE h == b.HeadAt
             m == h + 1
  <2>1. h \in Nat /\ m \in Nat /\ m >= 1 /\ n \in Nat
    BY <1>1, <1>5
  <2> HIDE DEF h, m, upTo, n
  <2>2. \A i \in m .. n : upTo[i] \in S /\ bytes[i] \in S /\ upTo[i] = bytes[i]
    <3>1. \A i \in m .. n : i \in 1 .. n
      BY <2>1
    <3>2. \A i \in 1 .. n : upTo[i] \in S
      BY <1>8, ElementOfSeq
    <3> QED BY <1>8, <3>1, <3>2
  <2> DEFINE u == SubSeq(upTo, m, n)
             v == SubSeq(bytes, m, n)
             len == IF m <= n THEN n - m + 1 ELSE 0
  <2>3. /\ u \in Seq(S) /\ Len(u) = len /\ \A i \in 1 .. n - m + 1 : u[i] = upTo[m + i - 1]
        /\ v \in Seq(S) /\ Len(v) = len /\ \A i \in 1 .. n - m + 1 : v[i] = bytes[m + i - 1]
    BY <2>1, <2>2, SubSeqProperties
  <2> HIDE DEF u, v
  <2>4. \A i \in 1 .. Len(u) : u[i] = v[i]
    <3>1. \A i \in 1 .. Len(u) : i \in 1 .. n - m + 1 /\ m + i - 1 \in m .. n
      BY <2>1, <2>3
    <3> QED BY <2>2, <2>3, <3>1
  <2>5. u = v
    BY <2>3, <2>4, SeqEqual
  <2> QED BY <2>5 DEF u, v, m, h
<1>10. n \in 0 .. Len(bytes)
  BY <1>5, <1>6
<1>11. at < Len(e) => n < Len(bytes) /\ bytes[n + 1] = e[at + 1]
  <2> SUFFICES ASSUME at < Len(e) PROVE n < Len(bytes) /\ bytes[n + 1] = e[at + 1]
    OBVIOUS
  <2>1. n < Len(bytes) /\ n + 1 \in 1 .. Len(before) + Len(e) /\ ~ (n + 1 <= Len(before))
        /\ (n + 1) - Len(before) = at + 1
    BY <1>5, <1>6
  <2> HIDE DEF n
  <2> QED BY <1>5, <1>6, <2>1
<1>12. TextTo(b, pos) = SubSeq(bytes, b.HeadAt + 1, n)
  BY <1>3, <1>8, <1>9
<1> QED BY <1>2, <1>4, <1>10, <1>11, <1>12 DEF bytes, c, p, e, at

\* t is the buffer b, possibly with another block read.
Extends(S, b, t) ==
  /\ t \in Buffers(S)
  /\ Len(t.Chain) + SpareBlocks(t) <= t.Allocated
  /\ ChainOK(t) /\ Ready(t)
  /\ t.HeadAt = b.HeadAt /\ Len(t.Chain[1]) = Len(b.Chain[1])
  /\ Contents(t) = Contents(b)
  /\ \A pos : PosOK(b, pos) =>
       /\ PosOK(t, pos) /\ TextTo(t, pos) = TextTo(b, pos)
       /\ t.Chain[pos.Block] = b.Chain[pos.Block]

\* The head is not beyond a position.
LEMMA HeadBefore ==
  ASSUME NEW S, NEW b \in Buffers(S), ChainOK(b), NEW pos, PosOK(b, pos)
  PROVE  b.HeadAt <= Before(b, pos)
<1> DEFINE c == b.Chain
           p == pos.Block
           d == SubSeq(c, 1, p - 1)
<1>1. /\ c \in Seq(Seq(S)) /\ p \in 1 .. Len(c) /\ Len(c) \in Nat
      /\ b.HeadAt \in Nat /\ pos.At \in Nat
      /\ p = 1 => b.HeadAt <= pos.At
      /\ b.HeadAt <= Len(c[1])
      /\ Before(b, pos) = Len(FlattenSeq(d)) + pos.At
  BY BufferFields DEF PosOK, ChainOK, Before
<1> HIDE DEF c, p
<1>2. d \in Seq(Seq(S)) /\ Len(d) = p - 1 /\ (p > 1 => d[1] = c[1])
  <2>1. \A i \in 1 .. (p - 1) : c[i] \in Seq(S)
    <3>1. \A i \in 1 .. (p - 1) : i \in 1 .. Len(c)
      BY <1>1
    <3> QED BY <1>1, <3>1, ElementOfSeq
  <2>2. 1 \in Int /\ p - 1 \in Int
    BY <1>1
  <2>3. /\ d \in Seq(Seq(S)) /\ Len(d) = IF 1 <= p - 1 THEN (p - 1) - 1 + 1 ELSE 0
        /\ \A i \in 1 .. (p - 1) - 1 + 1 : d[i] = c[1 + i - 1]
    BY <2>1, <2>2, SubSeqProperties
  <2> QED BY <1>1, <2>3
<1> HIDE DEF d
<1>3. FlattenSeq(d) \in Seq(S) /\ Len(FlattenSeq(d)) \in Nat
  BY <1>2, FlattenType, LenProperties
<1>4. CASE p = 1
  BY <1>1, <1>3, <1>4
<1>5. CASE p # 1
  <2>1. 1 \in 1 .. Len(d) /\ d[1] = c[1] /\ p > 1
    BY <1>1, <1>2, <1>5
  <2> DEFINE before == FlattenSeq(SubSeq(d, 1, 1 - 1))
             after  == FlattenSeq(SubSeq(d, 1 + 1, Len(d)))
  <2>2. /\ before \in Seq(S) /\ d[1] \in Seq(S) /\ after \in Seq(S)
        /\ FlattenSeq(d) = (before \o d[1]) \o after
    BY <1>2, <2>1, ChainParts
  <2> HIDE DEF before, after
  <2>3. before \o d[1] \in Seq(S) /\ Len(before \o d[1]) = Len(before) + Len(d[1])
    BY <2>2, ConcatProperties
  <2>4. Len((before \o d[1]) \o after) = Len(before \o d[1]) + Len(after)
    BY <2>2, <2>3, ConcatProperties
  <2>5. Len(before) \in Nat /\ Len(d[1]) \in Nat /\ Len(after) \in Nat
    BY <2>2, LenProperties
  <2> QED BY <1>1, <2>1, <2>2, <2>3, <2>4, <2>5
<1> QED BY <1>4, <1>5

\* A block is read where the chain ends, or kept to be used later.
LEMMA LoadNewBufferExtends ==
  ASSUME NEW S, NEW b \in Buffers(S), Len(b.Chain) + SpareBlocks(b) <= b.Allocated,
         Ready(b), ChainOK(b), NEW t, t = LoadNewBuffer(b, TRUE)
  PROVE  /\ Extends(S, b, t)
         /\ t.TailBlock = b.TailBlock /\ t.TailAt = b.TailAt
         /\ b.Left = <<>> => t.Chain = b.Chain /\ t.Left = <<>>
         /\ b.Left # <<>> => /\ Len(t.Chain) = Len(b.Chain) + 1
                             /\ t.Chain[Len(t.Chain)] # <<>>
                             /\ SubSeq(t.Chain, 1, Len(b.Chain)) = b.Chain
<1> DEFINE c == b.Chain
           n == Len(c)
           e == ReadBlock(b.Left)
           taken == TakeBlock(b)
<1>1. /\ c \in Seq(Seq(S)) /\ n \in Nat /\ n > 0 /\ b.HeadAt \in Nat /\ b.TailBlock \in Nat
      /\ b.TailAt \in Nat /\ b.Spare \in BOOLEAN /\ b.Allocated \in Nat /\ b.Left \in Seq(S)
      /\ \A i \in 1 .. n : c[i] \in Seq(S) /\ Len(c[i]) \in Nat
      /\ b.Chain = c /\ Len(c) = n
  BY BufferFields
<1>2. /\ taken \in Buffers(S) /\ taken.Spare = FALSE
      /\ taken.Chain = c /\ taken.Left = b.Left /\ taken.HeadAt = b.HeadAt
      /\ taken.TailBlock = b.TailBlock /\ taken.TailAt = b.TailAt
      /\ n + 1 <= taken.Allocated
  <2>1. CASE b.Spare
    BY <1>1, <2>1 DEF TakeBlock, Buffers, SpareBlocks
  <2>2. CASE ~ b.Spare
    <3> DEFINE m == b.Allocated + 1
    <3>1. n + 1 <= m /\ m \in Nat
      BY <1>1, <2>2 DEF SpareBlocks
    <3>2. taken = [b EXCEPT !.Allocated = m] /\ b.Spare = FALSE
      BY <1>1, <2>2 DEF TakeBlock
    <3> HIDE DEF m, n
    <3>3. /\ taken \in Buffers(S) /\ taken.Spare = FALSE /\ taken.Allocated = m
          /\ taken.Chain = b.Chain /\ taken.Left = b.Left /\ taken.HeadAt = b.HeadAt
          /\ taken.TailBlock = b.TailBlock /\ taken.TailAt = b.TailAt
      BY <3>1, <3>2 DEF Buffers
    <3> HIDE DEF taken
    <3> QED BY <3>1, <3>3
  <2> QED BY <2>1, <2>2
<1> HIDE DEF taken, c, e, n
<1>3. CASE b.Left = <<>>
  <2>1. t = [taken EXCEPT !.Spare = TRUE]
    BY <1>3 DEF LoadNewBuffer, taken
  <2>2. /\ t \in Buffers(S) /\ t.Chain = c /\ t.Left = <<>> /\ t.HeadAt = b.HeadAt
        /\ t.TailBlock = b.TailBlock /\ t.TailAt = b.TailAt
        /\ t.Spare = TRUE /\ t.Allocated = taken.Allocated
    BY <1>2, <1>3, <2>1 DEF Buffers
  <2>3. Len(t.Chain) + SpareBlocks(t) <= t.Allocated
    BY <1>1, <1>2, <2>2 DEF SpareBlocks
  <2>4. ChainOK(t) /\ Ready(t) /\ Contents(t) = Contents(b)
    BY <1>1, <1>3, <2>2 DEF ChainOK, Ready, Contents
  <2>5. ASSUME NEW pos, PosOK(b, pos)
        PROVE  PosOK(t, pos) /\ TextTo(t, pos) = TextTo(b, pos)
    BY <1>1, <1>3, <2>2, <2>5 DEF PosOK, TextTo, TokenText, SetTailPos, Buffers
  <2> QED BY <1>1, <1>3, <2>2, <2>3, <2>4, <2>5 DEF Extends
<1>4. CASE b.Left # <<>>
  <2> DEFINE d == Append(c, e)
             rest == AfterBlock(b.Left)
  <2>1. t = [taken EXCEPT !.Chain = d, !.Left = rest]
    BY <1>2, <1>4 DEF LoadNewBuffer, taken, e
  <2>2. /\ e \in Seq(S) /\ rest \in Seq(S) /\ e \o rest = b.Left
        /\ Len(e) # BlockSize => rest = <<>>
        /\ e # <<>>
    BY <1>1, <1>4, ReadBlockFacts DEF e
  <2>3. /\ d \in Seq(Seq(S)) /\ Len(d) = n + 1 /\ d[n + 1] = e
        /\ \A i \in 1 .. n : d[i] = c[i]
    <3>1. c \in Seq(Seq(S)) /\ n = Len(c) /\ e \in Seq(S)
      BY <1>1, <2>2
    <3> HIDE DEF c, n, e
    <3> QED BY <3>1, AppendProperties
  <2>4. FlattenSeq(d) = FlattenSeq(c) \o e
    BY <1>1, <2>2, FlattenAppend
  <2>5. \A k \in 0 .. n : SubSeq(d, 1, k) = SubSeq(c, 1, k)
    BY <1>1, <2>2, <2>3
  <2> HIDE DEF d, rest
  <2>6. /\ t \in Buffers(S) /\ t.Chain = d /\ t.Left = rest /\ t.HeadAt = b.HeadAt
        /\ t.TailBlock = b.TailBlock /\ t.TailAt = b.TailAt
        /\ t.Spare = FALSE /\ t.Allocated = taken.Allocated
    BY <1>2, <2>1, <2>2, <2>3 DEF Buffers
  <2>7. Len(t.Chain) + SpareBlocks(t) <= t.Allocated
    <3>1. SpareBlocks(t) = 0 /\ Len(t.Chain) = n + 1 /\ t.Allocated = taken.Allocated
      BY <2>3, <2>6 DEF SpareBlocks
    <3>2. Len(t.Chain) + SpareBlocks(t) = (n + 1) + 0
      BY <3>1
    <3>3. (n + 1) + 0 = n + 1
      BY <1>1
    <3> QED BY <1>2, <3>1, <3>2, <3>3
  <2>8. /\ \A i \in 1 .. n : Len(c[i]) = BlockSize
        /\ \A i \in 2 .. n : c[i] # <<>>
        /\ c[1] = d[1] /\ b.HeadAt <= Len(c[1])
    <3>1. /\ \A i \in 1 .. (n - 1) : Len(c[i]) = BlockSize
          /\ \A i \in 2 .. n : c[i] # <<>>
          /\ Len(c[n]) = BlockSize /\ b.HeadAt <= Len(c[1])
      BY <1>1, <1>4 DEF ChainOK
    <3> QED BY <1>1, <2>3, <3>1
  <2>9. ChainOK(t)
    <3>1. \A i \in 1 .. (Len(d) - 1) : Len(d[i]) = BlockSize
      BY <1>1, <2>3, <2>8
    <3>2. \A i \in 2 .. Len(d) : d[i] # <<>>
      <4>1. ASSUME NEW i \in 2 .. Len(d) PROVE d[i] # <<>>
        <5>1. i \in 2 .. n \/ i = n + 1
          BY <1>1, <2>3
        <5>2. i \in 2 .. n => i \in 1 .. n
          OBVIOUS
        <5> QED BY <2>2, <2>3, <2>8, <5>1, <5>2
      <4> QED BY <4>1
    <3>3. Len(d[Len(d)]) # BlockSize => t.Left = <<>>
      BY <2>2, <2>3, <2>6
    <3> QED BY <2>6, <2>8, <3>1, <3>2, <3>3 DEF ChainOK
  <2>10. Ready(t)
    <3>1. Len(<< >>) = 0 /\ n + 1 # 0
      BY <1>1
    <3> QED BY <2>3, <2>6, <3>1 DEF Ready
  <2>11. Contents(t) = Contents(b)
    <3> DEFINE all == FlattenSeq(c)
    <3>1. all \in Seq(S)
      BY <1>1, FlattenType
    <3>2. Contents(b) = all \o b.Left /\ Contents(t) = (all \o e) \o rest
      BY <1>1, <2>4, <2>6 DEF Contents
    <3> HIDE DEF all
    <3>3. e \in Seq(S) /\ rest \in Seq(S)
      BY <2>2
    <3>4. (all \o e) \o rest = all \o (e \o rest)
      BY <3>1, <3>3, ConcatAssociative
    <3> QED BY <2>2, <3>2, <3>4
  <2>12. ASSUME NEW pos, PosOK(b, pos)
        PROVE  PosOK(t, pos) /\ TextTo(t, pos) = TextTo(b, pos)
               /\ t.Chain[pos.Block] = b.Chain[pos.Block]
    <3>1. /\ pos.Block \in 1 .. n /\ pos.At \in 0 .. Len(c[pos.Block])
          /\ pos.At # Len(c[pos.Block]) /\ (pos.Block = 1 => b.HeadAt <= pos.At)
      BY <1>1, <1>4, <2>12 DEF PosOK
    <3>2. d[pos.Block] = c[pos.Block] /\ pos.Block \in 1 .. n + 1
      BY <1>1, <2>3, <3>1
    <3>3. PosOK(t, pos)
      <4>1. /\ pos.Block \in 1 .. Len(t.Chain)
            /\ pos.At \in 0 .. Len(t.Chain[pos.Block])
            /\ pos.At # Len(t.Chain[pos.Block])
            /\ pos.Block = 1 => t.HeadAt <= pos.At
        BY <2>3, <2>6, <3>1, <3>2
      <4> QED BY <4>1 DEF PosOK
    <3>4. SubSeq(d, 1, pos.Block - 1) = SubSeq(c, 1, pos.Block - 1)
      <4> DEFINE i == pos.Block
      <4>1. i \in 1 .. n /\ n \in Nat
        BY <1>1, <3>1
      <4> HIDE DEF i, n
      <4>2. i - 1 \in 0 .. n
        BY <4>1
      <4> QED BY <2>5, <4>2 DEF i
    <3>5. TextTo(t, pos) = TextTo(b, pos)
      BY <1>1, <2>6, <3>2, <3>4 DEF TextTo, TokenText, SetTailPos, Buffers
    <3> QED BY <1>1, <2>6, <3>2, <3>3, <3>5
  <2>13. Extends(S, b, t)
    BY <1>1, <2>6, <2>7, <2>8, <2>9, <2>10, <2>11, <2>12 DEF Extends
  <2>14. SubSeq(d, 1, n) = c
    <3>1. SubSeq(c, 1, n) = c /\ n \in 0 .. n
      BY <1>1, SubSeqFull
    <3> QED BY <2>5, <3>1
  <2> QED BY <1>1, <1>4, <2>2, <2>3, <2>6, <2>13, <2>14
<1> QED BY <1>3, <1>4

\* Setting the tail back or on changes nothing but the tail.
LEMMA TailSet ==
  ASSUME NEW S, NEW b, NEW a, Extends(S, b, a), NEW pos, PosOK(a, pos),
         NEW t, t = SetTailPos(a, pos)
  PROVE  /\ Extends(S, b, t) /\ BufInv(S, t)
         /\ t.TailBlock = pos.Block /\ t.TailAt = pos.At
         /\ t.Chain = a.Chain /\ t.HeadAt = a.HeadAt /\ t.Left = a.Left
         /\ PosOK(t, GetTailPos(t)) /\ PosOK(t, pos)
         /\ TokenText(t) = TextTo(a, pos) /\ TokenText(t) = TextTo(t, GetTailPos(t))
<1>1. /\ a \in Buffers(S) /\ Len(a.Chain) + SpareBlocks(a) <= a.Allocated
      /\ ChainOK(a) /\ Ready(a)
  BY DEF Extends
<1>2. pos.Block \in Nat /\ pos.At \in Nat
  BY <1>1, BufferFields DEF PosOK
<1>3. /\ t \in Buffers(S) /\ t.TailBlock = pos.Block /\ t.TailAt = pos.At
      /\ t.Chain = a.Chain /\ t.HeadAt = a.HeadAt /\ t.Left = a.Left
      /\ t.Spare = a.Spare /\ t.Allocated = a.Allocated
  BY <1>1, <1>2 DEF SetTailPos, Buffers
<1>4. PosOK(t, pos) /\ PosOK(t, GetTailPos(t))
  BY <1>3 DEF PosOK, GetTailPos
<1>5. /\ Len(t.Chain) + SpareBlocks(t) <= t.Allocated /\ ChainOK(t) /\ Ready(t)
      /\ Contents(t) = Contents(a)
  BY <1>1, <1>3 DEF SpareBlocks, ChainOK, Ready, Contents
<1>6. ASSUME NEW p
      PROVE  (PosOK(t, p) <=> PosOK(a, p)) /\ TextTo(t, p) = TextTo(a, p)
  <2>1. PosOK(t, p) <=> PosOK(a, p)
    BY <1>3 DEF PosOK
  <2>2. TextTo(t, p) = TextTo(a, p)
    BY <1>1, <1>3 DEF TextTo, TokenText, SetTailPos, Buffers
  <2> QED BY <2>1, <2>2
<1>7. Extends(S, b, t)
  BY <1>3, <1>5, <1>6 DEF Extends
<1>8. BufInv(S, t)
  BY <1>3, <1>4, <1>5 DEF BufInv
<1>9. TokenText(t) = TextTo(a, pos) /\ TokenText(t) = TextTo(t, GetTailPos(t))
  <2>1. TokenText(t) = TextTo(a, pos)
    BY DEF TextTo
  <2>2. TextTo(t, GetTailPos(t)) = TokenText(t)
    BY <1>1, <1>3 DEF TextTo, TokenText, SetTailPos, GetTailPos, Buffers
  <2> QED BY <2>1, <2>2
<1> QED BY <1>3, <1>4, <1>7, <1>8, <1>9

\* A buffer extends itself.
LEMMA ExtendsItself ==
  ASSUME NEW S, NEW b, BufInv(S, b), Ready(b)
  PROVE  Extends(S, b, b)
BY DEF BufInv, Extends

\* Where the tail is, in numbers.
LEMMA TailFacts ==
  ASSUME NEW S, NEW b \in Buffers(S), PosOK(b, GetTailPos(b)),
         NEW m, m = Len(b.Chain[b.TailBlock])
  PROVE  /\ b.TailBlock \in 1 .. Len(b.Chain) /\ Len(b.Chain) \in Nat /\ m \in Nat
         /\ b.TailBlock \in Nat /\ b.TailAt \in Nat /\ b.TailAt <= m
         /\ b.TailAt = m => b.TailBlock = Len(b.Chain) /\ b.Left = <<>>
         /\ b.TailBlock = 1 => b.HeadAt <= b.TailAt
         /\ GetTailPos(b) = [Block |-> b.TailBlock, At |-> b.TailAt]
<1>1. GetTailPos(b) = [Block |-> b.TailBlock, At |-> b.TailAt]
  BY DEF GetTailPos
<1>2. /\ b.TailBlock \in 1 .. Len(b.Chain) /\ b.TailAt \in 0 .. m
      /\ b.TailAt = m => b.TailBlock = Len(b.Chain) /\ b.Left = <<>>
      /\ b.TailBlock = 1 => b.HeadAt <= b.TailAt
  BY <1>1 DEF PosOK
<1>3. /\ Len(b.Chain) \in Nat /\ b.TailBlock \in Nat /\ b.TailAt \in Nat
      /\ \A i \in 1 .. Len(b.Chain) : Len(b.Chain[i]) \in Nat
  BY BufferFields
<1>4. m \in Nat
  BY <1>2, <1>3
<1>5. b.TailAt <= m
  BY <1>2, <1>4
<1> QED BY <1>1, <1>2, <1>3, <1>4, <1>5

\* The text grows by the byte passed.
LEMMA TextGrows ==
  ASSUME NEW S, NEW b \in Buffers(S), ChainOK(b),
         NEW pos, PosOK(b, pos), pos.At < Len(b.Chain[pos.Block]),
         NEW next, PosOK(b, next), Before(b, next) = Before(b, pos) + 1
  PROVE  /\ TextTo(b, next) = Append(TextTo(b, pos), b.Chain[pos.Block][pos.At + 1])
         /\ TextTo(b, pos) \in Seq(S)
         /\ b.Chain[pos.Block][pos.At + 1] \in S
<1> DEFINE bytes == FlattenSeq(b.Chain)
           n == Before(b, pos)
           h == b.HeadAt
<1>1. /\ bytes \in Seq(S) /\ n \in 0 .. Len(bytes) /\ n < Len(bytes)
      /\ TextTo(b, pos) = SubSeq(bytes, h + 1, n)
      /\ bytes[n + 1] = b.Chain[pos.Block][pos.At + 1]
  BY TextInChain
<1>2. TextTo(b, next) = SubSeq(bytes, h + 1, n + 1)
  BY TextInChain
<1>3. h \in Nat /\ n \in Nat /\ h <= n
  BY <1>1, HeadBefore, BufferFields
<1> HIDE DEF bytes, n, h
<1>4. /\ SubSeq(bytes, h + 1, n) \in Seq(S)
      /\ SubSeq(bytes, h + 1, n + 1) = Append(SubSeq(bytes, h + 1, n), bytes[n + 1])
      /\ bytes[n + 1] \in S
  BY <1>1, <1>3, SubSeqStep
<1> QED BY <1>1, <1>2, <1>4

\* The end of a block is the start of the next.
LEMMA NextBlock ==
  ASSUME NEW S, NEW b \in Buffers(S), NEW p, NEW q, p \in 1 .. Len(b.Chain), q = p + 1,
         NEW n, n = Len(b.Chain[p])
  PROVE  Before(b, [Block |-> q, At |-> 0]) = Before(b, [Block |-> p, At |-> n])
<1> DEFINE c == b.Chain
           k == p - 1
           before == FlattenSeq(SubSeq(c, 1, k))
<1>1. /\ c \in Seq(Seq(S)) /\ Len(c) \in Nat /\ k \in Nat /\ k < Len(c) /\ 0 \in Nat /\ 0 <= k
      /\ k + 1 = p /\ q - 1 = p /\ 0 + 1 = 1 /\ c[p] \in Seq(S) /\ n \in Nat /\ b.Chain = c
      /\ p - 1 = k /\ n = Len(c[p])
  BY BufferFields
<1> HIDE DEF c, k
<1>2. /\ SubSeq(c, 0 + 1, k) \in Seq(Seq(S)) /\ c[k + 1] \in Seq(S)
      /\ SubSeq(c, 0 + 1, k + 1) = Append(SubSeq(c, 0 + 1, k), c[k + 1])
  BY <1>1, SubSeqStep
<1>3. /\ SubSeq(c, 1, k) \in Seq(Seq(S)) /\ SubSeq(c, 1, p) = Append(SubSeq(c, 1, k), c[p])
  BY <1>1, <1>2
<1>4. FlattenSeq(SubSeq(c, 1, p)) = before \o c[p] /\ before \in Seq(S)
  BY <1>1, <1>3, FlattenAppend, FlattenType
<1> HIDE DEF before
<1>5. Len(before \o c[p]) = Len(before) + n /\ Len(before) \in Nat
  BY <1>1, <1>4, ConcatProperties, LenProperties
<1>6. Before(b, [Block |-> q, At |-> 0]) = Len(before \o c[p]) + 0
  BY <1>1, <1>4 DEF Before
<1>7. Before(b, [Block |-> p, At |-> n]) = Len(before) + n
  BY <1>1 DEF Before, before
<1> QED BY <1>1, <1>5, <1>6, <1>7

\* A buffer whose tail has moved extends the same ones.
LEMMA TailMoved ==
  ASSUME NEW S, NEW b \in Buffers(S), NEW n \in Nat, NEW t, t = [b EXCEPT !.TailAt = n]
  PROVE  /\ t \in Buffers(S) /\ t.TailAt = n /\ t.TailBlock = b.TailBlock
         /\ t.Chain = b.Chain /\ t.Left = b.Left /\ t.HeadAt = b.HeadAt
         /\ t.Spare = b.Spare /\ t.Allocated = b.Allocated
         /\ \A a : Extends(S, t, a) => Extends(S, b, a)
<1>1. /\ t \in Buffers(S) /\ t.TailAt = n /\ t.TailBlock = b.TailBlock
      /\ t.Chain = b.Chain /\ t.Left = b.Left /\ t.HeadAt = b.HeadAt
      /\ t.Spare = b.Spare /\ t.Allocated = b.Allocated
  BY DEF Buffers
<1>2. Contents(t) = Contents(b)
  BY <1>1 DEF Contents
<1>3. ASSUME NEW p
      PROVE  (PosOK(t, p) <=> PosOK(b, p)) /\ TextTo(t, p) = TextTo(b, p)
  <2>1. PosOK(t, p) <=> PosOK(b, p)
    BY <1>1 DEF PosOK
  <2>2. TextTo(t, p) = TextTo(b, p)
    BY <1>1 DEF TextTo, TokenText, SetTailPos, Buffers
  <2> QED BY <2>1, <2>2
<1>4. ASSUME NEW a, Extends(S, t, a)
      PROVE  Extends(S, b, a)
  BY <1>1, <1>2, <1>3, <1>4 DEF Extends
<1> QED BY <1>1, <1>4

\* Where the tail has come to, as a position of the buffer it left.
LEMMA AdvanceTailLands ==
  ASSUME NEW S, NEW b, BufInv(S, b), Ready(b), ~ IsEOF(b), NEW t, t = AdvanceTail(b)
  PROVE  \E a, next : /\ Extends(S, b, a) /\ PosOK(a, next) /\ t = SetTailPos(a, next)
                      /\ Before(a, next) = Before(a, GetTailPos(b)) + 1
<1> DEFINE p == b.TailBlock
           at == b.TailAt
           c == b.Chain
           m == at + 1
           moved == [b EXCEPT !.TailAt = m]
           pos == GetTailPos(b)
<1>1. /\ b \in Buffers(S) /\ ChainOK(b) /\ PosOK(b, pos)
      /\ Len(c) + SpareBlocks(b) <= b.Allocated
  BY DEF BufInv
<1>2. /\ p \in 1 .. Len(c) /\ Len(c) \in Nat /\ at \in Nat /\ m \in Nat /\ p \in Nat
      /\ Len(c[p]) \in Nat /\ at < Len(c[p]) /\ pos = [Block |-> p, At |-> at]
      /\ b.Chain = c /\ b.TailBlock = p /\ b.TailAt = at
      /\ m <= Len(c[p]) /\ (p = 1 => b.HeadAt <= at) /\ b.HeadAt \in Nat
  <2> DEFINE k == Len(c[p])
  <2>1. k = Len(b.Chain[b.TailBlock]) /\ b.HeadAt \in Nat
    BY <1>1, BufferFields
  <2> HIDE DEF k
  <2>2. /\ p \in 1 .. Len(c) /\ Len(c) \in Nat /\ k \in Nat /\ p \in Nat /\ at \in Nat
        /\ at <= k /\ (p = 1 => b.HeadAt <= at) /\ pos = [Block |-> p, At |-> at]
    BY <1>1, <2>1, TailFacts
  <2>3. at # k
    BY <2>1 DEF IsEOF
  <2>4. at < k /\ m \in Nat /\ m <= k
    BY <2>2, <2>3
  <2> QED BY <2>1, <2>2, <2>4 DEF k
<1>3. /\ moved \in Buffers(S) /\ moved.TailAt = m /\ moved.TailBlock = p
      /\ moved.Chain = c /\ moved.Left = b.Left /\ moved.HeadAt = b.HeadAt
      /\ moved.Spare = b.Spare /\ moved.Allocated = b.Allocated
      /\ \A a : Extends(S, moved, a) => Extends(S, b, a)
  BY <1>1, <1>2, TailMoved
<1>4. t = IF m >= Len(c[p]) THEN ReloadBuffer(moved) ELSE moved
  BY <1>3 DEF AdvanceTail, IsEOF
<1>5. ChainOK(moved) /\ Ready(moved) /\ Len(moved.Chain) + SpareBlocks(moved) <= moved.Allocated
  BY <1>1, <1>3 DEF ChainOK, Ready, SpareBlocks
<1>6. Extends(S, b, b)
  BY ExtendsItself
<1> DEFINE here == [Block |-> p, At |-> m]
           q == p + 1
           there == [Block |-> q, At |-> 0]
<1>7. ASSUME NEW a, Extends(S, b, a)
      PROVE  Before(a, here) = Before(a, pos) + 1
  <2> DEFINE before == FlattenSeq(SubSeq(a.Chain, 1, p - 1))
  <2>1. a \in Buffers(S) /\ PosOK(a, pos)
    BY <1>1, <1>7 DEF Extends
  <2>2. a.Chain \in Seq(Seq(S)) /\ p \in 1 .. Len(a.Chain)
    BY <1>2, <2>1, BufferFields DEF PosOK
  <2>3. before \in Seq(S) /\ Len(before) \in Nat
    BY <2>2, ChainParts, LenProperties
  <2>4. Before(a, here) = Len(before) + m /\ Before(a, pos) = Len(before) + at
    BY <1>2 DEF Before
  <2> QED BY <1>2, <2>3, <2>4
<1>8. CASE ~ (m >= Len(c[p]))
  <2>1. t = SetTailPos(b, here)
    BY <1>1, <1>4, <1>8 DEF SetTailPos, Buffers
  <2>2. PosOK(b, here)
    BY <1>2, <1>8 DEF PosOK
  <2> QED BY <1>6, <1>7, <2>1, <2>2
<1>9. CASE m >= Len(c[p]) /\ p # Len(c)
  <2>1. m = Len(c[p]) /\ q \in 1 .. Len(c) /\ q # 1 /\ q \in 2 .. Len(c)
    <3> DEFINE n == Len(c)
               k == Len(c[p])
    <3>1. /\ p \in 1 .. n /\ n \in Nat /\ m \in Nat /\ k \in Nat /\ m <= k /\ m >= k
          /\ p # n
      BY <1>2, <1>9
    <3> HIDE DEF n, k, m, p
    <3>2. m = k /\ q \in 2 .. n
      BY <3>1
    <3> QED BY <3>1, <3>2 DEF n, k
  <2>2. t = SetTailPos(b, there)
    BY <1>1, <1>2, <1>3, <1>4, <1>9 DEF SetTailPos, ReloadBuffer, Buffers
  <2>3. c[q] # <<>> /\ Len(c[q]) \in Nat /\ c[q] \in Seq(S)
    BY <1>1, <1>2, <2>1, BufferFields DEF ChainOK
  <2>4. Len(c[q]) # 0
    BY <2>3, EmptySeq
  <2>5. PosOK(b, there)
    <3>1. q \in 1 .. Len(b.Chain) /\ 0 \in 0 .. Len(b.Chain[q]) /\ 0 # Len(b.Chain[q]) /\ q # 1
      BY <1>2, <2>1, <2>3, <2>4
    <3> QED BY <3>1 DEF PosOK
  <2>6. Before(b, there) = Before(b, here)
    BY <1>1, <1>2, <2>1, NextBlock
  <2>7. Before(b, there) = Before(b, pos) + 1
    BY <1>6, <1>7, <2>6
  <2> QED BY <1>6, <2>2, <2>5, <2>7
<1>10. CASE m >= Len(c[p]) /\ p = Len(c) /\ b.Left = <<>>
  <2> DEFINE loaded == LoadNewBuffer(moved, TRUE)
  <2>1. /\ Extends(S, moved, loaded)
        /\ loaded.TailBlock = p /\ loaded.TailAt = m
        /\ loaded.Chain = c /\ loaded.Left = <<>>
    <3> HIDE DEF moved, c, p, m
    <3>1. /\ moved \in Buffers(S) /\ ChainOK(moved) /\ Ready(moved)
          /\ Len(moved.Chain) + SpareBlocks(moved) <= moved.Allocated
          /\ moved.Left = <<>> /\ moved.Chain = c /\ moved.TailAt = m /\ moved.TailBlock = p
      BY <1>3, <1>5, <1>10
    <3> QED BY <3>1, LoadNewBufferExtends
  <2>2. t = IF p = Len(loaded.Chain)
            THEN [loaded EXCEPT !.TailAt = Len(c[p])]
            ELSE [loaded EXCEPT !.TailBlock = @ + 1, !.TailAt = 0]
    BY <1>3, <1>4, <1>10 DEF ReloadBuffer
  <2> HIDE DEF moved, loaded
  <2>3. /\ Extends(S, b, loaded) /\ loaded \in Buffers(S) /\ m = Len(c[p])
        /\ loaded.HeadAt = b.HeadAt
    BY <1>2, <1>3, <1>10, <2>1 DEF Extends
  <2>4. t = [loaded EXCEPT !.TailAt = m]
    BY <1>10, <2>1, <2>2, <2>3
  <2>5. t = SetTailPos(loaded, here)
    BY <2>1, <2>3, <2>4 DEF SetTailPos, Buffers
  <2>6. PosOK(loaded, here)
    BY <1>2, <1>10, <2>1, <2>3 DEF PosOK
  <2>7. Before(loaded, here) = Before(loaded, pos) + 1
    BY <1>7, <2>3
  <2> QED BY <2>3, <2>5, <2>6, <2>7
<1>11. CASE m >= Len(c[p]) /\ p = Len(c) /\ b.Left # <<>>
  <2> DEFINE loaded == LoadNewBuffer(moved, TRUE)
  <2>1. /\ Extends(S, moved, loaded)
        /\ loaded.TailBlock = p /\ loaded.TailAt = m
        /\ Len(loaded.Chain) = Len(c) + 1
        /\ loaded.Chain[Len(loaded.Chain)] # <<>>
    <3> HIDE DEF moved, c, p, m
    <3>1. /\ moved \in Buffers(S) /\ ChainOK(moved) /\ Ready(moved)
          /\ Len(moved.Chain) + SpareBlocks(moved) <= moved.Allocated
          /\ moved.Left # <<>> /\ moved.Chain = c /\ moved.TailAt = m /\ moved.TailBlock = p
      BY <1>3, <1>5, <1>11
    <3> QED BY <3>1, LoadNewBufferExtends
  <2>2. t = IF p = Len(loaded.Chain)
            THEN [loaded EXCEPT !.TailAt = Len(c[p])]
            ELSE [loaded EXCEPT !.TailBlock = @ + 1, !.TailAt = 0]
    BY <1>3, <1>4, <1>11 DEF ReloadBuffer
  <2> HIDE DEF moved, loaded
  <2>3. Extends(S, b, loaded) /\ loaded \in Buffers(S) /\ m = Len(c[p])
    <3>1. Extends(S, b, loaded) /\ loaded \in Buffers(S)
      BY <1>3, <2>1 DEF Extends
    <3>2. m \in Nat /\ Len(c[p]) \in Nat /\ m <= Len(c[p]) /\ m >= Len(c[p])
      BY <1>2, <1>11
    <3> HIDE DEF c, p, m
    <3> QED BY <3>1, <3>2
  <2>4. PosOK(loaded, pos) /\ loaded.Chain[p] = c[p]
    <3>1. loaded.Chain[pos.Block] = b.Chain[pos.Block]
      BY <1>1, <2>3 DEF Extends
    <3> QED BY <1>1, <1>2, <2>3, <3>1 DEF Extends
  <2>5. q = Len(loaded.Chain) /\ p # Len(loaded.Chain) /\ p \in 1 .. Len(loaded.Chain) /\ q # 1
    BY <1>2, <1>11, <2>1
  <2>6. t = SetTailPos(loaded, there)
    BY <2>1, <2>2, <2>3, <2>5 DEF SetTailPos, Buffers
  <2>7. q \in 1 .. Len(loaded.Chain) /\ loaded.Chain[q] # <<>> /\ loaded.Chain[q] \in Seq(S)
        /\ Len(loaded.Chain[q]) \in Nat
    <3>1. q \in 1 .. Len(loaded.Chain) /\ loaded.Chain[q] # <<>>
      BY <1>2, <2>1, <2>5
    <3> HIDE DEF q
    <3> QED BY <2>3, <3>1, BufferFields
  <2>8. PosOK(loaded, there)
    <3>1. Len(loaded.Chain[q]) # 0
      BY <2>7, EmptySeq
    <3>2. q \in 1 .. Len(loaded.Chain) /\ 0 \in 0 .. Len(loaded.Chain[q])
          /\ 0 # Len(loaded.Chain[q]) /\ q # 1
      BY <2>5, <2>7, <3>1
    <3> QED BY <3>2 DEF PosOK
  <2>9. m = Len(loaded.Chain[p])
    BY <2>3, <2>4
  <2>10. Before(loaded, there) = Before(loaded, here)
    BY <2>3, <2>5, <2>9, NextBlock
  <2>11. Before(loaded, there) = Before(loaded, pos) + 1
    BY <1>7, <2>3, <2>10
  <2> QED BY <2>3, <2>6, <2>8, <2>11
<1> QED BY <1>8, <1>9, <1>10, <1>11

\* The byte at the tail.
LEMMA ByteAtTail ==
  ASSUME NEW S, NEW b, BufInv(S, b), Ready(b)
  PROVE  GetByte(b) \in S \union {NoByte} /\ (~ IsEOF(b) => GetByte(b) \in S)
<1> DEFINE c == b.Chain
           e == c[b.TailBlock]
<1>1. /\ e \in Seq(S) /\ b.TailAt \in Nat /\ b.TailBlock \in 1 .. Len(c) /\ Len(e) \in Nat
      /\ b.Chain[b.TailBlock] = e
  BY BufferFields DEF BufInv, PosOK, GetTailPos
<1> HIDE DEF e
<1>2. ~ (b.TailAt >= Len(e)) => e[b.TailAt + 1] \in S
  <2>1. ~ (b.TailAt >= Len(e)) => b.TailAt + 1 \in 1 .. Len(e)
    BY <1>1
  <2> QED BY <1>1, <2>1, ElementOfSeq
<1> QED BY <1>1, <1>2 DEF GetByte, IsEOF

\* The tail goes one byte on, whether in its block, to the next one or to one
\* that is read now, and the text grows by that byte.
LEMMA AdvanceTailFacts ==
  ASSUME NEW S, NEW b, BufInv(S, b), Ready(b), ~ IsEOF(b), NEW t, t = AdvanceTail(b)
  PROVE  /\ Extends(S, b, t) /\ BufInv(S, t) /\ PosOK(t, GetTailPos(t))
         /\ TokenText(b) \in Seq(S)
         /\ TokenText(t) = Append(TokenText(b), GetByte(b))
         /\ TokenText(t) = TextTo(t, GetTailPos(t))
<1> DEFINE pos == GetTailPos(b)
<1>1. PICK a, next : /\ Extends(S, b, a) /\ PosOK(a, next) /\ t = SetTailPos(a, next)
                     /\ Before(a, next) = Before(a, pos) + 1
  BY AdvanceTailLands
<1>2. /\ Extends(S, b, t) /\ BufInv(S, t) /\ PosOK(t, GetTailPos(t))
      /\ TokenText(t) = TextTo(a, next) /\ TokenText(t) = TextTo(t, GetTailPos(t))
  BY <1>1, TailSet
<1>3. b \in Buffers(S) /\ PosOK(b, pos) /\ pos = [Block |-> b.TailBlock, At |-> b.TailAt]
  BY DEF BufInv, GetTailPos
<1>4. /\ a \in Buffers(S) /\ ChainOK(a) /\ PosOK(a, pos)
      /\ TextTo(a, pos) = TextTo(b, pos) /\ a.Chain[pos.Block] = b.Chain[pos.Block]
  BY <1>1, <1>3 DEF Extends
<1>5. /\ pos.At < Len(a.Chain[pos.Block])
      /\ GetByte(b) = a.Chain[pos.Block][pos.At + 1]
  <2>1. Len(b.Chain[b.TailBlock]) \in Nat /\ b.TailAt \in Nat
    BY <1>3, BufferFields DEF PosOK
  <2> QED BY <1>3, <1>4, <2>1 DEF IsEOF, GetByte
<1>6. TextTo(b, pos) = TokenText(b)
  <2>1. SetTailPos(b, pos) = b
    <3>1. pos.Block = b.TailBlock /\ pos.At = b.TailAt /\ b \in Buffers(S)
      BY <1>3
    <3> HIDE DEF pos
    <3> QED BY <3>1 DEF SetTailPos, Buffers
  <2> QED BY <2>1 DEF TextTo
<1> HIDE DEF pos
<1>7. /\ TextTo(a, next) = Append(TextTo(a, pos), a.Chain[pos.Block][pos.At + 1])
      /\ TextTo(a, pos) \in Seq(S)
  BY <1>1, <1>4, <1>5, TextGrows
<1> QED BY <1>2, <1>4, <1>5, <1>6, <1>7

\* t is b without the text up to the tail.
DropsText(S, b, t) ==
  /\ BufInv(S, t) /\ Ready(t)
  /\ \E text \in Seq(S) : /\ Contents(b) = text \o Contents(t)
                         /\ Before(b, GetTailPos(b)) = Len(text) + b.TailAt
  /\ t.TailBlock = 1 /\ t.HeadAt = b.TailAt /\ t.TailAt = b.TailAt
  /\ t.Chain[1] = b.Chain[b.TailBlock] /\ t.Left = b.Left
  /\ TokenText(t) = <<>>

\* The head comes to the tail, and no block is lost or freed twice.
LEMMA AdjustHeadDrops ==
  ASSUME NEW S, NEW b, BufInv(S, b), Ready(b), NEW t, t = AdjustHead(b)
  PROVE  DropsText(S, b, t)
<1> DEFINE c == b.Chain
           n == Len(c)
           p == b.TailBlock
           at == b.TailAt
           d == SubSeq(c, p, n)
           k == p - 1
           kept == IF k > 0 /\ ~ b.Spare THEN 1 ELSE 0
           left == b.Allocated - (k - kept)
           spare == b.Spare \/ k > 0
<1>1. /\ b \in Buffers(S) /\ ChainOK(b) /\ PosOK(b, GetTailPos(b))
      /\ n + SpareBlocks(b) <= b.Allocated
  BY DEF BufInv
<1>2. /\ c \in Seq(Seq(S)) /\ n \in Nat /\ p \in 1 .. n /\ at \in Nat /\ Len(c[p]) \in Nat
      /\ k \in 0 .. n /\ k + 1 = p /\ at <= Len(c[p])
      /\ at = Len(c[p]) => p = n /\ b.Left = <<>>
      /\ b.Spare \in BOOLEAN /\ b.Allocated \in Nat /\ b.Left \in Seq(S)
  <2> DEFINE m == Len(c[p])
  <2>1. /\ c \in Seq(Seq(S)) /\ m = Len(b.Chain[b.TailBlock])
        /\ b.Spare \in BOOLEAN /\ b.Allocated \in Nat /\ b.Left \in Seq(S)
    BY <1>1, BufferFields
  <2> HIDE DEF m
  <2>2. /\ p \in 1 .. n /\ n \in Nat /\ m \in Nat /\ at \in Nat /\ at <= m
        /\ at = m => p = n /\ b.Left = <<>>
    BY <1>1, <2>1, TailFacts
  <2>3. k \in 0 .. n /\ k + 1 = p
    BY <2>2
  <2> QED BY <2>1, <2>2, <2>3 DEF m
<1>3. t = [b EXCEPT !.HeadAt = at, !.Chain = d, !.TailBlock = 1, !.Spare = spare,
                    !.Allocated = left]
  BY DEF AdjustHead
<1>4. left \in Nat /\ spare \in BOOLEAN /\ (n - k) + (IF spare THEN 1 ELSE 0) <= left
  <2>1. n + (IF b.Spare THEN 1 ELSE 0) <= b.Allocated
    BY <1>1 DEF SpareBlocks
  <2> HIDE DEF n, k
  <2>2. n \in Nat /\ k \in 0 .. n /\ b.Spare \in BOOLEAN /\ b.Allocated \in Nat
    BY <1>2
  <2>3. CASE b.Spare
    BY <2>1, <2>2, <2>3
  <2>4. CASE ~ b.Spare
    BY <2>1, <2>2, <2>4
  <2> QED BY <2>3, <2>4
<1> HIDE DEF c, p, at, left, spare, kept
<1>5. /\ d \in Seq(Seq(S)) /\ Len(d) = n - k /\ \A i \in 1 .. (n - k) : d[i] = c[k + i]
  <2>1. \A i \in p .. n : c[i] \in Seq(S)
    <3>1. \A i \in p .. n : i \in 1 .. n
      BY <1>2
    <3> QED BY <1>2, <3>1, ElementOfSeq
  <2>2. p \in Int /\ n \in Int
    BY <1>2
  <2>3. /\ d \in Seq(Seq(S)) /\ Len(d) = IF p <= n THEN n - p + 1 ELSE 0
        /\ \A i \in 1 .. n - p + 1 : d[i] = c[p + i - 1]
    BY <2>1, <2>2, SubSeqProperties
  <2>4. n - p + 1 = n - k /\ p <= n /\ \A i \in 1 .. (n - k) : p + i - 1 = k + i
    BY <1>2
  <2> QED BY <2>3, <2>4
<1> HIDE DEF d
<1>6. /\ t \in Buffers(S) /\ t.HeadAt = at /\ t.Chain = d /\ t.TailBlock = 1 /\ t.TailAt = at
      /\ t.Spare = spare /\ t.Allocated = left /\ t.Left = b.Left
  <2>1. at \in Nat /\ left \in Nat /\ spare \in BOOLEAN /\ d \in Seq(Seq(S)) /\ b.TailAt = at
    BY <1>2, <1>4, <1>5 DEF at
  <2>2. t = [Chain |-> d, HeadAt |-> at, TailBlock |-> 1, TailAt |-> at,
             Spare |-> spare, Allocated |-> left, Left |-> b.Left]
    BY <1>1, <1>3, <2>1 DEF Buffers
  <2>3. b.Left \in Seq(S)
    BY <1>2
  <2> QED BY <2>1, <2>2, <2>3 DEF Buffers
<1>7. Len(t.Chain) + SpareBlocks(t) <= t.Allocated
  BY <1>4, <1>5, <1>6 DEF SpareBlocks
<1>8. /\ \A i \in 1 .. (n - 1) : Len(c[i]) = BlockSize
      /\ \A i \in 2 .. n : c[i] # <<>>
      /\ Len(c[n]) # BlockSize => b.Left = <<>>
  BY <1>1 DEF ChainOK, c
<1>9. d[1] = c[p] /\ d[Len(d)] = c[n] /\ 1 \in 1 .. Len(d)
  <2>1. 1 \in 1 .. (n - k) /\ (n - k) \in 1 .. (n - k) /\ k + (n - k) = n
    BY <1>2
  <2> QED BY <1>2, <1>5, <2>1
<1>10. ChainOK(t)
  <2>1. ASSUME NEW i \in 1 .. (Len(d) - 1) PROVE Len(d[i]) = BlockSize
    <3>1. i \in 1 .. (n - k) /\ k + i \in 1 .. (n - 1)
      BY <1>2, <1>5
    <3> QED BY <1>5, <1>8, <3>1
  <2>2. ASSUME NEW i \in 2 .. Len(d) PROVE d[i] # <<>>
    <3>1. i \in 1 .. (n - k) /\ k + i \in 2 .. n
      BY <1>2, <1>5
    <3> QED BY <1>5, <1>8, <3>1
  <2> QED BY <1>2, <1>6, <1>8, <1>9, <2>1, <2>2 DEF ChainOK
<1>11. PosOK(t, GetTailPos(t)) /\ GetTailPos(t) = [Block |-> 1, At |-> at]
  <2>1. at = Len(d[1]) => Len(d) = 1 /\ b.Left = <<>>
    BY <1>2, <1>5, <1>9
  <2> QED BY <1>2, <1>6, <1>9, <2>1 DEF PosOK, GetTailPos
<1>12. Ready(t)
  <2>1. Len(<< >>) = 0 /\ n - k # 0
    BY <1>2
  <2> QED BY <1>5, <1>6, <2>1 DEF Ready
<1>13. BufInv(S, t)
  BY <1>6, <1>7, <1>10, <1>11 DEF BufInv
<1>14. \E text \in Seq(S) : /\ Contents(b) = text \o Contents(t)
                            /\ Before(b, GetTailPos(b)) = Len(text) + b.TailAt
  <2> DEFINE text == FlattenSeq(SubSeq(c, 1, k))
             rest == FlattenSeq(d)
  <2>1. FlattenSeq(c) = text \o rest
    BY <1>2, FlattenCut DEF d
  <2>2. SubSeq(c, 1, k) \in Seq(Seq(S))
    <3>1. \A i \in 1 .. k : c[i] \in Seq(S)
      <4>1. \A i \in 1 .. k : i \in 1 .. n
        BY <1>2
      <4> QED BY <1>2, <4>1, ElementOfSeq
    <3>2. 1 \in Int /\ k \in Int
      BY <1>2
    <3> QED BY <3>1, <3>2, SubSeqProperties
  <2>3. text \in Seq(S) /\ rest \in Seq(S)
    BY <1>5, <2>2, FlattenType
  <2>4. Contents(b) = (text \o rest) \o b.Left /\ Contents(t) = rest \o b.Left
    BY <1>6, <2>1 DEF Contents, c
  <2>7. Before(b, GetTailPos(b)) = Len(text) + b.TailAt
    BY DEF Before, GetTailPos, c, p
  <2> HIDE DEF text, rest
  <2> DEFINE more == b.Left
  <2>5. more \in Seq(S)
    BY <1>2
  <2> HIDE DEF more
  <2>6. (text \o rest) \o more = text \o (rest \o more)
    BY <2>3, <2>5, ConcatAssociative
  <2> QED BY <2>3, <2>4, <2>6, <2>7 DEF more
<1>15. TokenText(t) = <<>>
  <2> DEFINE pos == GetTailPos(t)
             bytes == FlattenSeq(d)
  <2>1. TextTo(t, pos) = SubSeq(bytes, at + 1, Before(t, pos))
    BY <1>6, <1>11, TextInChain
  <2>2. TextTo(t, pos) = TokenText(t)
    BY <1>6 DEF TextTo, TokenText, SetTailPos, GetTailPos, Buffers
  <2>3. Before(t, pos) = at
    <3>1. 1 - 1 = 0 /\ SubSeq(d, 1, 0) = <<>> /\ Len(<< >>) = 0 /\ 0 + at = at
      BY <1>2, SubSeqEmpty
    <3>2. Before(t, pos) = Len(FlattenSeq(SubSeq(d, 1, 1 - 1))) + at
      BY <1>6, <1>11 DEF Before
    <3>3. Before(t, pos) = Len(FlattenSeq(<< >>)) + at
      BY <3>1, <3>2
    <3> QED BY <3>1, <3>3, FlattenEmpty
  <2> HIDE DEF bytes, pos
  <2>4. SubSeq(bytes, at + 1, at) = <<>>
    BY <1>2, SubSeqEmpty
  <2> QED BY <2>1, <2>2, <2>3, <2>4
<1> QED BY <1>6, <1>9, <1>12, <1>13, <1>14, <1>15 DEF DropsText, c, p, at

\* A chain of one block.
LEMMA OneBlock ==
  ASSUME NEW S, NEW e \in Seq(S)
  PROVE  <<e>> \in Seq(Seq(S)) /\ Len(<<e>>) = 1 /\ <<e>>[1] = e /\ FlattenSeq(<<e>>) = e
<1> DEFINE none == << >>
<1>1. none \in Seq(Seq(S)) /\ none \in Seq(S) /\ Append(none, e) = <<e>>
  BY EmptySeq
<1>2. FlattenSeq(Append(none, e)) = FlattenSeq(none) \o e
  <2> HIDE DEF none
  <2> QED BY <1>1, FlattenAppend
<1>3. FlattenSeq(<<e>>) = none \o e
  BY <1>1, <1>2, FlattenEmpty
<1>4. none \o e = e
  BY <1>1, ConcatEmptySeq
<1> QED BY <1>3, <1>4

\* There is no text at the head.
LEMMA TextAtHead ==
  ASSUME NEW S, NEW b \in Buffers(S), NEW pos, pos = GetHeadPos(b), PosOK(b, pos)
  PROVE  TextTo(b, pos) = <<>>
<1> DEFINE bytes == FlattenSeq(b.Chain)
           h == b.HeadAt
           c == b.Chain
<1>1. TextTo(b, pos) = SubSeq(bytes, h + 1, Before(b, pos)) /\ h \in Nat
  BY TextInChain, BufferFields
<1>2. pos.Block = 1 /\ pos.At = h
  BY DEF GetHeadPos
<1>3. Before(b, pos) = Len(FlattenSeq(SubSeq(c, 1, 1 - 1))) + h
  BY <1>2 DEF Before
<1> HIDE DEF bytes, h, c
<1>4. 1 - 1 = 0 /\ SubSeq(c, 1, 0) = <<>> /\ Len(<< >>) = 0 /\ 0 + h = h
  BY <1>1, SubSeqEmpty
<1>5. Before(b, pos) = Len(FlattenSeq(<< >>)) + h
  BY <1>3, <1>4
<1>6. Before(b, pos) = h
  BY <1>4, <1>5, FlattenEmpty
<1>7. SubSeq(bytes, h + 1, h) = <<>>
  BY <1>1, SubSeqEmpty
<1> QED BY <1>1, <1>6, <1>7

\* What a buffer object is that has just read the first block of a stream.
LEMMA FirstBlock ==
  ASSUME NEW S, NEW stream \in Seq(S), NEW allocated \in Nat, allocated >= 1, NEW t,
         t = [Chain |-> <<ReadBlock(stream)>>, HeadAt |-> 0, TailBlock |-> 1, TailAt |-> 0,
              Spare |-> FALSE, Allocated |-> allocated, Left |-> AfterBlock(stream)]
  PROVE  BufInv(S, t) /\ Ready(t) /\ Contents(t) = stream /\ t.HeadAt = 0 /\ TokenText(t) = <<>>
<1> DEFINE e == ReadBlock(stream)
           rest == AfterBlock(stream)
           c == <<e>>
<1>1. /\ e \in Seq(S) /\ rest \in Seq(S) /\ e \o rest = stream
      /\ Len(e) # BlockSize => rest = <<>>
  BY ReadBlockFacts
<1>2. /\ t.Chain = c /\ t.HeadAt = 0 /\ t.TailBlock = 1 /\ t.TailAt = 0
      /\ t.Spare = FALSE /\ t.Allocated = allocated /\ t.Left = rest
  OBVIOUS
<1> HIDE DEF e, rest
<1>3. c \in Seq(Seq(S)) /\ Len(c) = 1 /\ c[1] = e /\ FlattenSeq(c) = e /\ Len(e) \in Nat
  BY <1>1, OneBlock, LenProperties
<1>4. t \in Buffers(S)
  <2> HIDE DEF c
  <2>1. t = [Chain |-> c, HeadAt |-> 0, TailBlock |-> 1, TailAt |-> 0,
             Spare |-> FALSE, Allocated |-> allocated, Left |-> rest]
    BY DEF c, e, rest
  <2> QED BY <1>1, <1>3, <2>1 DEF Buffers
<1> HIDE DEF c
<1>5. ChainOK(t)
  BY <1>1, <1>2, <1>3 DEF ChainOK
<1>6. PosOK(t, GetTailPos(t))
  <2>1. 0 = Len(e) => rest = <<>>
    BY <1>1, BlockSizeAssumption
  <2> QED BY <1>2, <1>3, <2>1 DEF PosOK, GetTailPos
<1>7. Len(t.Chain) + SpareBlocks(t) <= t.Allocated
  <2>1. Len(t.Chain) + SpareBlocks(t) = 1 + 0
    BY <1>2, <1>3 DEF SpareBlocks
  <2> QED BY <1>2, <2>1
<1>8. Ready(t)
  <2>1. Len(<< >>) # 1
    OBVIOUS
  <2> QED BY <1>2, <1>3, <2>1 DEF Ready
<1>9. Contents(t) = stream
  BY <1>1, <1>2, <1>3 DEF Contents
<1>10. TokenText(t) = <<>>
  <2> DEFINE pos == GetTailPos(t)
  <2>1. pos = GetHeadPos(t)
    BY <1>2 DEF GetHeadPos, GetTailPos
  <2>2. SetTailPos(t, pos) = t
    BY <1>4 DEF SetTailPos, GetTailPos, Buffers
  <2>3. PosOK(t, pos)
    BY <1>6
  <2> HIDE DEF pos
  <2>4. TextTo(t, pos) = <<>>
    BY <1>4, <2>1, <2>3, TextAtHead
  <2> QED BY <2>2, <2>4 DEF TextTo
<1> QED BY <1>2, <1>4, <1>5, <1>6, <1>7, <1>8, <1>9, <1>10 DEF BufInv

\* A stream is set: its first block is read, or every block is given up.
LEMMA SetInputStreamFacts ==
  ASSUME NEW S, NEW b, BufInv(S, b), NEW stream, stream # NoStream => stream \in Seq(S),
         NEW t, t = SetInputStream(b, stream)
  PROVE  /\ BufInv(S, t)
         /\ Ready(t) => /\ stream # NoStream /\ StreamAccepted(b, stream) /\ Contents(t) = stream
                        /\ t.HeadAt = 0 /\ TokenText(t) = <<>>
<1>1. /\ b \in Buffers(S) /\ Len(b.Chain) + SpareBlocks(b) <= b.Allocated
      /\ Len(b.Chain) \in Nat /\ b.Allocated \in Nat /\ SpareBlocks(b) \in {0, 1}
      /\ b.Chain \in Seq(Seq(S)) /\ b.Spare \in BOOLEAN
  BY BufferFields DEF BufInv
<1>2. CASE stream = NoStream \/ ~ StreamAccepted(b, stream)
  <2> DEFINE left == b.Allocated - Len(b.Chain) - SpareBlocks(b)
  <2>1. left \in Nat
    BY <1>1
  <2>2. t = [NoBuffers EXCEPT !.Allocated = left]
    BY <1>2 DEF SetInputStream, FreeAllBuffers
  <2> HIDE DEF left
  <2>3. t = [Chain |-> <<>>, HeadAt |-> 0, TailBlock |-> 0, TailAt |-> 0,
             Spare |-> FALSE, Allocated |-> left, Left |-> <<>>]
    BY <2>2 DEF NoBuffers
  <2>4. t \in Buffers(S) /\ t.Chain = <<>> /\ t.Spare = FALSE /\ t.Allocated = left
    BY <2>1, <2>3 DEF Buffers
  <2>5. Len(t.Chain) + SpareBlocks(t) <= t.Allocated
    BY <2>1, <2>4 DEF SpareBlocks
  <2> QED BY <2>4, <2>5 DEF BufInv, Ready
<1>3. CASE ~ (stream = NoStream \/ ~ StreamAccepted(b, stream)) /\ Ready(b)
  <2> DEFINE head == AdjustHead(b)
             n == head.Allocated - (Len(head.Chain) - 1)
             e == <<ReadBlock(stream)>>
             rest == AfterBlock(stream)
  <2>1. BufInv(S, head)
    BY <1>3, AdjustHeadDrops DEF DropsText
  <2>2. stream \in Seq(S)
    BY <1>3
  <2>3. t = [[head EXCEPT !.Allocated = n, !.Chain = e, !.Left = rest]
               EXCEPT !.HeadAt = 0, !.TailBlock = 1, !.TailAt = 0, !.Spare = FALSE]
    BY <1>3 DEF SetInputStream, ReuseBlock
  <2>4. head \in Buffers(S) /\ n \in Nat /\ n >= 1
    <3> HIDE DEF head
    <3>1. /\ head \in Buffers(S) /\ Len(head.Chain) \in Nat /\ head.Allocated \in Nat
          /\ SpareBlocks(head) \in {0, 1}
          /\ Len(head.Chain) + SpareBlocks(head) <= head.Allocated
      BY <2>1, BufferFields DEF BufInv
    <3> QED BY <3>1
  <2> HIDE DEF head, n, e, rest
  <2>5. t = [Chain |-> e, HeadAt |-> 0, TailBlock |-> 1, TailAt |-> 0,
             Spare |-> FALSE, Allocated |-> n, Left |-> rest]
    BY <2>3, <2>4 DEF Buffers
  <2> QED BY <1>3, <2>2, <2>4, <2>5, FirstBlock DEF e, rest
<1>4. CASE ~ (stream = NoStream \/ ~ StreamAccepted(b, stream)) /\ ~ Ready(b)
  <2> DEFINE given == [b EXCEPT !.Left = stream]
             taken == TakeBlock(given)
             e == ReadBlock(stream)
             rest == AfterBlock(stream)
             n == taken.Allocated
  <2>1. stream \in Seq(S)
    BY <1>4
  <2>2. /\ given \in Buffers(S) /\ given.Left = stream /\ given.Chain = <<>>
        /\ given.Spare = b.Spare /\ given.Allocated = b.Allocated
    BY <1>1, <1>4, <2>1 DEF Buffers, Ready
  <2>3. t = [[taken EXCEPT !.Chain = Append(@, ReadBlock(given.Left)), !.Left = AfterBlock(@)]
               EXCEPT !.HeadAt = 0, !.TailBlock = 1, !.TailAt = 0, !.Spare = FALSE]
    BY <1>4 DEF SetInputStream, LoadNewBuffer
  <2> HIDE DEF given
  <2>4. /\ taken \in Buffers(S) /\ taken.Left = stream /\ taken.Chain = <<>> /\ n \in Nat /\ n >= 1
    <3>1. CASE b.Spare
      <4>1. b.Allocated >= 1
        BY <1>1, <3>1 DEF SpareBlocks
      <4>2. taken = [given EXCEPT !.Spare = FALSE]
        BY <2>2, <3>1 DEF TakeBlock
      <4> HIDE DEF taken
      <4> QED BY <1>1, <2>2, <4>1, <4>2 DEF Buffers
    <3>2. CASE ~ b.Spare
      <4> DEFINE m == b.Allocated + 1
      <4>1. m \in Nat /\ m >= 1
        BY <1>1
      <4>2. taken = [given EXCEPT !.Allocated = m]
        BY <2>2, <3>2 DEF TakeBlock
      <4> HIDE DEF m, taken
      <4> QED BY <2>2, <4>1, <4>2 DEF Buffers
    <3> QED BY <3>1, <3>2
  <2> HIDE DEF taken
  <2>5. t = [[taken EXCEPT !.Chain = <<e>>, !.Left = rest]
               EXCEPT !.HeadAt = 0, !.TailBlock = 1, !.TailAt = 0, !.Spare = FALSE]
    <3>1. Append(<< >>, e) = <<e>>
      OBVIOUS
    <3> HIDE DEF e, rest
    <3>2. /\ [taken EXCEPT !.Chain = Append(@, ReadBlock(given.Left)), !.Left = AfterBlock(@)]
             = [taken EXCEPT !.Chain = <<e>>, !.Left = rest]
      BY <2>2, <2>4, <3>1 DEF e, rest
    <3> QED BY <2>3, <3>2
  <2> HIDE DEF e, rest, n
  <2>6. t = [Chain |-> <<e>>, HeadAt |-> 0, TailBlock |-> 1, TailAt |-> 0,
             Spare |-> FALSE, Allocated |-> n, Left |-> rest]
    BY <2>4, <2>5 DEF Buffers, n
  <2> QED BY <1>4, <2>1, <2>4, <2>6, FirstBlock DEF e, rest
<1> QED BY <1>2, <1>3, <1>4

(***************************************************************************)
(* Types, and what the buffers keep of the input                           *)
(***************************************************************************)

\* Some bytes of the input were given up, the buffers have the rest.
KeptOf(b, text) ==
  /\ BufInv(Bytes, b)
  /\ text \in Seq(Bytes)
  /\ Ready(b) => \E given \in Seq(Bytes) : text = given \o Contents(b)

Kept == KeptOf(buffers, input)

Tokens == [Code : Nat, Str : Seq(Bytes), Pos : Positions]

Typed ==
  /\ HeadPos \in Positions /\ TailPos \in Positions /\ lastTailPos \in Positions
  /\ ExpressionStack \in Seq(Expressions)
  /\ Ready(buffers) => ExpressionStackTop \in Expressions
  /\ Character \in Bytes
  /\ state \in DFAStates \union {EmptyTransition}
  /\ lastLexemeID \in Lexemes \union {NoLexeme}
  /\ token \in Tokens
  /\ pc \in {"idle", "begin", "match"}
  /\ streams \in Nat

\* A match begins before the end of the input, and the end of the last lexeme
\* it has come past is in the blocks.
Matching ==
  /\ pc # "idle" => Ready(buffers)
  /\ pc = "match" =>
       /\ buffers.HeadAt < Len(buffers.Chain[1])
       /\ state \in DFAStates
       /\ lastLexemeID # NoLexeme => PosOK(buffers, lastTail)

Inv == Kept /\ Typed /\ Matching

\* The input is still kept when a block is read.
LEMMA KeptExtends ==
  ASSUME NEW b, NEW text, KeptOf(b, text), Ready(b), NEW t, Extends(Bytes, b, t), BufInv(Bytes, t)
  PROVE  KeptOf(t, text) /\ Ready(t)
BY DEF KeptOf, Extends

\* The input is still kept when the head moves.
LEMMA KeptDrops ==
  ASSUME NEW b, NEW text, KeptOf(b, text), Ready(b), NEW t, DropsText(Bytes, b, t)
  PROVE  KeptOf(t, text) /\ Ready(t)
<1>1. PICK given \in Seq(Bytes) : text = given \o Contents(b)
  BY DEF KeptOf
<1>2. PICK more \in Seq(Bytes) : Contents(b) = more \o Contents(t)
  BY DEF DropsText
<1> DEFINE rest == Contents(t)
<1>3. rest \in Seq(Bytes)
  <2>1. t \in Buffers(Bytes)
    BY DEF DropsText, BufInv
  <2>2. FlattenSeq(t.Chain) \in Seq(Bytes) /\ t.Left \in Seq(Bytes)
    BY <2>1, FlattenType, BufferFields
  <2> QED BY <2>2, ConcatProperties DEF Contents
<1> HIDE DEF rest
<1>4. text = given \o (more \o rest)
  BY <1>1, <1>2 DEF rest
<1>5. given \o more \in Seq(Bytes)
  BY <1>1, <1>2, ConcatProperties
<1>6. text = (given \o more) \o rest
  <2>1. given \in Seq(Bytes) /\ more \in Seq(Bytes)
    BY <1>1, <1>2
  <2>2. (given \o more) \o rest = given \o (more \o rest)
    BY <1>3, <2>1, ConcatAssociative
  <2> QED BY <1>4, <2>2
<1> QED BY <1>5, <1>6 DEF KeptOf, DropsText, rest

\* A text up to the tail is of bytes.
LEMMA TextType ==
  ASSUME NEW b, BufInv(Bytes, b), Ready(b)
  PROVE  TokenText(b) \in Seq(Bytes)
<1> DEFINE pos == GetTailPos(b)
           bytes == FlattenSeq(b.Chain)
           n == Before(b, pos)
           m == b.HeadAt + 1
<1>1. b \in Buffers(Bytes) /\ PosOK(b, pos) /\ b.HeadAt \in Nat /\ m \in Nat /\ m >= 1
  BY BufferFields DEF BufInv
<1>2. /\ bytes \in Seq(Bytes) /\ n \in 0 .. Len(bytes) /\ TextTo(b, pos) = SubSeq(bytes, m, n)
      /\ Len(bytes) \in Nat
  BY <1>1, TextInChain, LenProperties
<1>3. TextTo(b, pos) = TokenText(b)
  <2>1. SetTailPos(b, pos) = b
    BY <1>1 DEF SetTailPos, GetTailPos, Buffers
  <2> QED BY <2>1 DEF TextTo
<1> HIDE DEF bytes, n, m, pos
<1>4. \A i \in m .. n : bytes[i] \in Bytes
  <2>1. \A i \in m .. n : i \in 1 .. Len(bytes)
    BY <1>1, <1>2
  <2> QED BY <1>2, <2>1, ElementOfSeq
<1>5. m \in Int /\ n \in Int
  BY <1>1, <1>2
<1>6. SubSeq(bytes, m, n) \in Seq(Bytes)
  BY <1>4, <1>5, SubSeqProperties
<1> QED BY <1>2, <1>3, <1>6

\* A position moves to another.
LEMMA AdvanceCharType ==
  ASSUME NEW pos \in Positions, NEW ch
  PROVE  AdvanceChar(pos, ch) \in Positions
BY DEF AdvanceChar, Positions

\* Where the next byte is, when the tail is set back to the head of a match
\* that began before the end of the input, as after an error.
LEMMA BackToHead ==
  ASSUME NEW b, BufInv(Bytes, b), Ready(b), b.HeadAt < Len(b.Chain[1]),
         NEW t, t = SetTailPos(b, GetHeadPos(b))
  PROVE  /\ Extends(Bytes, b, t) /\ BufInv(Bytes, t) /\ Ready(t) /\ ~ IsEOF(t)
<1> DEFINE pos == GetHeadPos(b)
<1>1. b \in Buffers(Bytes) /\ Extends(Bytes, b, b)
  BY ExtendsItself DEF BufInv
<1>2. pos = [Block |-> 1, At |-> b.HeadAt]
  BY DEF GetHeadPos
<1>3. b.HeadAt \in Nat /\ Len(b.Chain) \in Nat /\ Len(b.Chain) > 0
  BY <1>1, BufferFields
<1>4. 1 \in 1 .. Len(b.Chain) /\ Len(b.Chain[1]) \in Nat
  BY <1>1, <1>3, BufferFields
<1>5. PosOK(b, pos)
  BY <1>2, <1>3, <1>4 DEF PosOK
<1> HIDE DEF pos
<1>6. /\ Extends(Bytes, b, t) /\ BufInv(Bytes, t)
      /\ t.TailBlock = pos.Block /\ t.TailAt = pos.At /\ t.Chain = b.Chain
  BY <1>1, <1>5, TailSet DEF pos
<1> QED BY <1>2, <1>3, <1>4, <1>6 DEF Ready, IsEOF, Extends

(***************************************************************************)
(* Every step keeps them                                                   *)
(***************************************************************************)

\* The first state has them.
LEMMA InitInv == Init => Inv
<1> SUFFICES ASSUME Init PROVE Inv
  OBVIOUS
<1>1. NoBuffers \in Buffers(Bytes) /\ ~ Ready(NoBuffers) /\ Len(NoBuffers.Chain) = 0
  BY DEF NoBuffers, Buffers, Ready
<1>2. KeptOf(NoBuffers, <<>>)
  BY <1>1 DEF KeptOf, BufInv, SpareBlocks, NoBuffers
<1>3. StartOfText \in Positions /\ NoToken \in Tokens /\ NoByte \in Bytes
  BY StreamsAssumption DEF StartOfText, Positions, NoToken, TokenEOF, Tokens
<1> QED BY <1>1, <1>2, <1>3 DEF Init, Inv, Kept, Typed, Matching

\* A token that Return makes.
LEMMA ReturnType ==
  ASSUME NEW code \in Nat, Typed, KeptOf(buffers', input'), Ready(buffers'),
         HeadPos' \in Positions, Return(code)
  PROVE  token' \in Tokens /\ pc' = "idle"
<1>1. TokenText(buffers') \in Seq(Bytes)
  BY TextType DEF KeptOf
<1> QED BY <1>1 DEF Return, Tokens

\* A stream is set.
LEMMA CreateInv ==
  ASSUME Inv, streams < MaxStreams,
         NEW stream \in Inputs[streams + 1] \union {NoStream}, Create(stream)
  PROVE  Inv'
<1> USE DEF Inv
<1>1. stream # NoStream => stream \in Seq(Bytes)
  <2> DEFINE n == streams + 1
  <2>1. Len(Inputs) \in Nat /\ streams \in Nat
    BY StreamsAssumption, LenProperties DEF Typed
  <2>2. n \in 1 .. Len(Inputs) /\ stream \in Inputs[n] \union {NoStream}
    BY <2>1 DEF MaxStreams
  <2> HIDE DEF n
  <2>3. Inputs[n] \in SUBSET Seq(Bytes)
    BY <2>2, StreamsAssumption, ElementOfSeq
  <2> QED BY <2>2, <2>3
<1>2. /\ BufInv(Bytes, buffers')
      /\ Ready(buffers') => /\ stream # NoStream /\ StreamAccepted(buffers, stream)
                            /\ Contents(buffers') = stream
  <2>1. PICK t : t = SetInputStream(buffers, stream) /\ t = buffers'
    BY DEF Create
  <2>2. BufInv(Bytes, buffers)
    BY DEF Kept, KeptOf
  <2> QED BY <1>1, <2>1, <2>2, SetInputStreamFacts
<1>3. Kept'
  <2>1. <<>> \in Seq(Bytes)
    BY EmptySeq
  <2>2. input' \in Seq(Bytes)
    BY <1>1, <1>2, <2>1 DEF Create
  <2>3. Ready(buffers') => input' = Contents(buffers') /\ input' = << >> \o input'
    BY <1>2, <2>2, ConcatEmptySeq DEF Create
  <2> QED BY <1>2, <2>1, <2>2, <2>3 DEF Kept, KeptOf
<1>4. Typed'
  <2>1. StartOfText \in Positions /\ NoToken \in Tokens
    BY DEF StartOfText, Positions, NoToken, TokenEOF, Tokens
  <2>2. /\ ExpressionStack' \in Seq(Expressions)
        /\ Ready(buffers') => ExpressionStackTop' \in Expressions
    <3>1. <<>> \in Seq(Expressions) /\ 0 \in Expressions
      BY DFAAssumption, EmptySeq
    <3> QED BY <1>2, <3>1 DEF Create, ResetExpressions, expressionVars, Typed
  <2> QED BY <2>1, <2>2 DEF Create, Typed
<1>5. Matching'
  BY DEF Create, Matching
<1> QED BY <1>3, <1>4, <1>5

\* The character reader takes its first byte.
LEMMA GetNextTokenInv ==
  ASSUME Inv, GetNextToken
  PROVE  Inv'
<1>1. GetByte(buffers) \in Bytes
  BY ByteAtTail, StreamsAssumption DEF Inv, Kept, KeptOf, GetNextToken
<1> QED BY <1>1 DEF Inv, Kept, Typed, Matching, GetNextToken, expressionVars, matchVars, streamVars

\* What the head leaves at the start of a lexeme.
LEMMA BeginDrops ==
  ASSUME Inv, BeginLexeme
  PROVE  DropsText(Bytes, buffers, buffers') /\ KeptOf(buffers', input) /\ Ready(buffers')
<1>1. PICK t : t = AdjustHead(buffers) /\ t = buffers'
  BY DEF BeginLexeme
<1>2. BufInv(Bytes, buffers) /\ Ready(buffers) /\ KeptOf(buffers, input)
  BY DEF Inv, Kept, KeptOf, Matching, BeginLexeme
<1>3. DropsText(Bytes, buffers, t)
  BY <1>1, <1>2, AdjustHeadDrops
<1>4. KeptOf(t, input) /\ Ready(t)
  BY <1>2, <1>3, KeptDrops
<1> QED BY <1>1, <1>3, <1>4

\* A lexeme begins, or the input has ended.
LEMMA BeginLexemeInv ==
  ASSUME Inv, BeginLexeme
  PROVE  Inv'
<1> USE DEF Inv
<1>1. /\ KeptOf(buffers', input') /\ Ready(buffers') /\ DropsText(Bytes, buffers, buffers')
      /\ input' = input /\ streams' = streams
  BY BeginDrops DEF BeginLexeme, streamVars
<1>2. /\ HeadPos' = TailPos /\ TailPos' = TailPos /\ Character' = Character
      /\ ExpressionStack' = ExpressionStack /\ ExpressionStackTop' = ExpressionStackTop
      /\ Ready(buffers) /\ HeadPos' \in Positions
  BY DEF BeginLexeme, expressionVars, Typed, Matching
<1>3. CASE IsEOF(buffers')
  <2>1. Return(TokenEOF) /\ UNCHANGED matchVars
    BY <1>3 DEF BeginLexeme
  <2>2. token' \in Tokens /\ pc' = "idle"
    BY <1>1, <1>2, <2>1, ReturnType DEF TokenEOF
  <2> QED BY <1>1, <1>2, <2>1, <2>2 DEF Kept, Typed, Matching, matchVars
<1>4. CASE ~ IsEOF(buffers')
  <2>1. /\ state' = StartState[ExpressionStackTop] /\ lastLexemeID' = NoLexeme
        /\ lastTailPos' = TailPos /\ pc' = "match" /\ token' = token
    BY <1>4 DEF BeginLexeme
  <2>2. state' \in DFAStates
    BY <1>2, <2>1, DFAAssumption DEF Typed
  <2>3. buffers'.HeadAt < Len(buffers'.Chain[1])
    <3>1. PICK t : t = buffers'
      OBVIOUS
    <3>2. t \in Buffers(Bytes) /\ t.TailBlock = 1 /\ t.HeadAt = t.TailAt
          /\ 1 \in 1 .. Len(t.Chain) /\ ~ (t.TailAt >= Len(t.Chain[1]))
      BY <1>1, <1>4, <3>1, BufferFields DEF DropsText, BufInv, IsEOF, PosOK, GetTailPos
    <3>3. Len(t.Chain[1]) \in Nat /\ t.TailAt \in Nat
      BY <3>2, BufferFields
    <3> QED BY <3>1, <3>2, <3>3
  <2> QED BY <1>1, <1>2, <2>1, <2>2, <2>3 DEF Kept, Typed, Matching
<1> QED BY <1>3, <1>4

\* What a byte matched does to the buffers.
LEMMA MatchExtends ==
  ASSUME Inv, MatchByte
  PROVE  /\ Extends(Bytes, buffers, buffers') /\ KeptOf(buffers', input) /\ Ready(buffers')
         /\ PosOK(buffers', GetTailPos(buffers'))
         /\ TokenText(buffers) \in Seq(Bytes)
         /\ TokenText(buffers') = Append(TokenText(buffers), GetByte(buffers))
         /\ TokenText(buffers') = TextTo(buffers', GetTailPos(buffers'))
<1>1. PICK t : t = AdvanceTail(buffers) /\ t = buffers'
  BY DEF MatchByte
<1>2. BufInv(Bytes, buffers) /\ Ready(buffers) /\ KeptOf(buffers, input) /\ ~ IsEOF(buffers)
  BY DEF Inv, Kept, KeptOf, Matching, MatchByte, MatchEnded
<1>3. /\ Extends(Bytes, buffers, t) /\ BufInv(Bytes, t) /\ PosOK(t, GetTailPos(t))
      /\ TokenText(buffers) \in Seq(Bytes)
      /\ TokenText(t) = Append(TokenText(buffers), GetByte(buffers))
      /\ TokenText(t) = TextTo(t, GetTailPos(t))
  BY <1>1, <1>2, AdvanceTailFacts
<1>4. KeptOf(t, input) /\ Ready(t)
  BY <1>2, <1>3, KeptExtends
<1> QED BY <1>1, <1>3, <1>4

\* The automaton moves on.
LEMMA NextStateType ==
  ASSUME Inv, MatchByte
  PROVE  /\ NextState \in DFAStates
         /\ AcceptState[NextState] # 0 => AcceptState[NextState] \in Lexemes
<1>1. state \in DFAStates /\ Character \in Bytes /\ NextState # EmptyTransition
  BY DEF Inv, Typed, Matching, MatchByte, MatchEnded
<1>2. NextState \in DFAStates
  BY <1>1, DFAAssumption DEF NextState
<1> QED BY <1>2, DFAAssumption

\* A byte is matched.
LEMMA MatchByteInv ==
  ASSUME Inv, MatchByte
  PROVE  Inv'
<1> USE DEF Inv
<1>1. /\ KeptOf(buffers', input') /\ Ready(buffers') /\ Extends(Bytes, buffers, buffers')
      /\ PosOK(buffers', GetTailPos(buffers'))
      /\ input' = input /\ streams' = streams
  BY MatchExtends DEF MatchByte, streamVars
<1>2. /\ TailPos' \in Positions /\ Character' \in Bytes /\ state' \in DFAStates
      /\ HeadPos' = HeadPos /\ token' = token /\ pc' = pc /\ pc = "match"
      /\ ExpressionStack' = ExpressionStack /\ ExpressionStackTop' = ExpressionStackTop
      /\ Ready(buffers)
  <2>1. GetByte(buffers') \in Bytes
    BY <1>1, ByteAtTail, StreamsAssumption DEF KeptOf
  <2> QED BY <2>1, AdvanceCharType, NextStateType DEF MatchByte, Typed, Matching, expressionVars
<1>3. /\ lastLexemeID' \in Lexemes \union {NoLexeme} /\ lastTailPos' \in Positions
      /\ lastLexemeID' # NoLexeme => PosOK(buffers', lastTail')
  <2>1. CASE AcceptState[NextState] # 0
    BY <1>1, <1>2, <2>1, NextStateType DEF MatchByte
  <2>2. CASE AcceptState[NextState] = 0
    <3>1. UNCHANGED <<lastLexemeID, lastTail, lastTailPos>>
      BY <2>2 DEF MatchByte
    <3>2. lastLexemeID # NoLexeme => PosOK(buffers, lastTail)
      BY <1>2 DEF Matching
    <3>3. PosOK(buffers, lastTail) => PosOK(buffers', lastTail)
      BY <1>1 DEF Extends
    <3> QED BY <3>1, <3>2, <3>3 DEF Typed
  <2> QED BY <2>1, <2>2
<1>4. buffers'.HeadAt < Len(buffers'.Chain[1])
  BY <1>1, <1>2 DEF Extends, Matching
<1> QED BY <1>1, <1>2, <1>3, <1>4 DEF Kept, Typed, Matching

\* Nothing was recognised.
LEMMA NothingRecognisedInv ==
  ASSUME Inv, NothingRecognised
  PROVE  Inv'
<1> USE DEF Inv
<1>1. /\ BufInv(Bytes, buffers) /\ Ready(buffers) /\ KeptOf(buffers, input)
      /\ buffers.HeadAt < Len(buffers.Chain[1])
      /\ HeadPos' = HeadPos /\ HeadPos' \in Positions /\ input' = input /\ streams' = streams
      /\ ExpressionStack' = ExpressionStack /\ ExpressionStackTop' = ExpressionStackTop
      /\ UNCHANGED matchVars
  BY DEF NothingRecognised, Kept, KeptOf, Typed, Matching, expressionVars, streamVars
<1>2. CASE IsEOF(buffers) /\ GetTailPos(buffers) = GetHeadPos(buffers)
  <2>1. Return(TokenEOF) /\ UNCHANGED <<buffers, TailPos, Character>>
    BY <1>2 DEF NothingRecognised
  <2>2. token' \in Tokens /\ pc' = "idle"
    BY <1>1, <2>1, ReturnType DEF TokenEOF
  <2> QED BY <1>1, <2>1, <2>2 DEF Kept, Typed, Matching, matchVars
<1>3. CASE ~ (IsEOF(buffers) /\ GetTailPos(buffers) = GetHeadPos(buffers))
  <2>1. /\ buffers' = AdvanceTail(StartOfMatch) /\ TailPos' = AdvanceChar(HeadPos, Character)
        /\ Character' = GetByte(buffers') /\ Return(TokenError)
    BY <1>3 DEF NothingRecognised, AfterError
  <2>2. PICK back : back = StartOfMatch
    OBVIOUS
  <2>3. /\ Extends(Bytes, buffers, back) /\ BufInv(Bytes, back) /\ Ready(back) /\ ~ IsEOF(back)
    BY <1>1, <2>2, BackToHead DEF StartOfMatch
  <2>4. PICK t : t = AdvanceTail(back) /\ t = buffers'
    BY <2>1, <2>2
  <2>5. KeptOf(back, input)
    BY <1>1, <2>3, KeptExtends
  <2>6. Extends(Bytes, back, t) /\ BufInv(Bytes, t)
    BY <2>3, <2>4, AdvanceTailFacts
  <2>7. KeptOf(t, input) /\ Ready(t)
    BY <2>3, <2>5, <2>6, KeptExtends
  <2>8. KeptOf(buffers', input') /\ Ready(buffers')
    BY <1>1, <2>4, <2>7
  <2>9. token' \in Tokens /\ pc' = "idle"
    BY <1>1, <2>1, <2>8, ReturnType DEF TokenError
  <2>10. GetByte(buffers') \in Bytes
    BY <2>8, ByteAtTail, StreamsAssumption DEF KeptOf
  <2>11. TailPos' \in Positions /\ Character' \in Bytes
    BY <2>1, <2>10, AdvanceCharType DEF Typed
  <2> QED BY <1>1, <2>8, <2>9, <2>11 DEF Kept, Typed, Matching, matchVars
<1> QED BY <1>2, <1>3

\* What the end of a lexeme does to the buffers.
LEMMA RecognisedExtends ==
  ASSUME Inv, Recognised
  PROVE  /\ Extends(Bytes, buffers, buffers') /\ KeptOf(buffers', input) /\ Ready(buffers')
         /\ TokenText(buffers') = TextTo(buffers, lastTail)
<1>1. PICK t : t = SetTailPos(buffers, lastTail) /\ t = buffers'
  BY DEF Recognised
<1>2. /\ BufInv(Bytes, buffers) /\ Ready(buffers) /\ KeptOf(buffers, input)
      /\ PosOK(buffers, lastTail) /\ Extends(Bytes, buffers, buffers)
  BY ExtendsItself DEF Inv, Kept, KeptOf, Matching, Recognised
<1>3. Extends(Bytes, buffers, t) /\ BufInv(Bytes, t) /\ TokenText(t) = TextTo(buffers, lastTail)
  <2>1. Extends(Bytes, buffers, buffers) /\ PosOK(buffers, lastTail)
    BY <1>2
  <2>2. t = SetTailPos(buffers, lastTail)
    BY <1>1
  <2> QED BY <2>1, <2>2, TailSet
<1>4. KeptOf(t, input) /\ Ready(t)
  BY <1>2, <1>3, KeptExtends
<1> QED BY <1>1, <1>3, <1>4

\* A lexeme was recognised.
LEMMA RecognisedInv ==
  ASSUME Inv, Recognised
  PROVE  Inv'
<1> USE DEF Inv
<1>1. /\ KeptOf(buffers', input') /\ Ready(buffers')
      /\ HeadPos' = HeadPos /\ HeadPos' \in Positions /\ TailPos' = lastTailPos
      /\ Character' = Character /\ UNCHANGED matchVars /\ input' = input /\ streams' = streams
      /\ Ready(buffers) /\ pc = "match"
  BY RecognisedExtends DEF Recognised, EndOfLexemePos, Typed, Matching, streamVars
<1> DEFINE lexinfo == LexemeInfo[lastLexemeID]
           Deliver == IF lexinfo.TokenCode = 0
                      THEN pc' = "begin" /\ UNCHANGED token
                      ELSE Return(lexinfo.TokenCode)
<1>2. /\ lexinfo.TokenCode \in Nat /\ lexinfo.Action \in {"none", "goto", "push", "pop"}
      /\ lexinfo.Value \in Expressions
  <2>1. lastLexemeID \in Lexemes
    BY DEF Recognised, Typed
  <2> QED BY <2>1, DFAAssumption
<1>3. Deliver => token' \in Tokens /\ pc' \in {"idle", "begin"}
  <2>1. CASE lexinfo.TokenCode = 0
    BY <2>1 DEF Typed
  <2>2. CASE lexinfo.TokenCode # 0
    <3> HIDE DEF lexinfo
    <3> QED BY <1>1, <1>2, <2>2, ReturnType
  <2> QED BY <2>1, <2>2
<1>4. Return(TokenError) => token' \in Tokens /\ pc' = "idle"
  BY <1>1, ReturnType DEF TokenError
<1>5. ExpressionStack \in Seq(Expressions) /\ ExpressionStackTop \in Expressions /\ 0 \in Expressions
  BY <1>1, DFAAssumption DEF Typed
<1>6. /\ ExpressionStack' \in Seq(Expressions) /\ ExpressionStackTop' \in Expressions
      /\ token' \in Tokens /\ pc' \in {"idle", "begin"}
  <2> HIDE DEF Deliver
  <2>1. CASE lexinfo.Action = "none"
    <3>1. Deliver /\ UNCHANGED expressionVars
      BY <2>1 DEF Recognised, Deliver
    <3> QED BY <1>3, <1>5, <3>1 DEF expressionVars
  <2>2. CASE lexinfo.Action = "goto"
    <3>1. Deliver /\ ExpressionStackTop' = lexinfo.Value /\ UNCHANGED ExpressionStack
      BY <2>2 DEF Recognised, Deliver
    <3> QED BY <1>2, <1>3, <1>5, <3>1
  <2>3. CASE lexinfo.Action = "push"
    <3>1. /\ Deliver /\ ExpressionStackTop' = lexinfo.Value
          /\ ExpressionStack' = Append(ExpressionStack, ExpressionStackTop)
      BY <2>3 DEF Recognised, Deliver
    <3> QED BY <1>2, <1>3, <1>5, <3>1, AppendProperties
  <2>4. CASE lexinfo.Action = "pop" /\ ExpressionStack # <<>>
    <3>1. /\ Deliver /\ ExpressionStackTop' = Last(ExpressionStack)
          /\ ExpressionStack' = Front(ExpressionStack)
      BY <2>4 DEF Recognised, Deliver
    <3>2. Last(ExpressionStack) \in Expressions /\ Front(ExpressionStack) \in Seq(Expressions)
      <4>1. Len(ExpressionStack) \in 1 .. Len(ExpressionStack)
        BY <1>5, <2>4, EmptySeq, LenProperties
      <4>2. \A i \in 1 .. Len(ExpressionStack) : ExpressionStack[i] \in Expressions
        BY <1>5, ElementOfSeq
      <4>3. \A i \in 1 .. Len(ExpressionStack) - 1 : i \in 1 .. Len(ExpressionStack)
        BY <4>1
      <4>4. 1 \in Int /\ Len(ExpressionStack) - 1 \in Int
        BY <4>1
      <4>5. \A i \in 1 .. Len(ExpressionStack) - 1 : ExpressionStack[i] \in Expressions
        BY <4>2, <4>3
      <4>6. SubSeq(ExpressionStack, 1, Len(ExpressionStack) - 1) \in Seq(Expressions)
        BY <4>4, <4>5, SubSeqProperties
      <4> QED BY <4>1, <4>2, <4>6 DEF Last, Front
    <3> QED BY <1>3, <3>1, <3>2
  <2>5. CASE lexinfo.Action = "pop" /\ ExpressionStack = <<>>
    <3>1. ExpressionStackTop' = 0 /\ UNCHANGED ExpressionStack /\ Return(TokenError)
      BY <2>5 DEF Recognised
    <3> QED BY <1>4, <1>5, <3>1
  <2> QED BY <1>2, <2>1, <2>2, <2>3, <2>4, <2>5
<1>7. lastTailPos \in Positions
  BY DEF Typed
<1> QED BY <1>1, <1>6, <1>7 DEF Kept, Typed, Matching, matchVars

\* Every step keeps what is kept.
LEMMA NextInv == Inv /\ [Next]_vars => Inv'
<1> SUFFICES ASSUME Inv, [Next]_vars
             PROVE  Inv'
  OBVIOUS
<1>1. CASE UNCHANGED vars
  BY <1>1 DEF Inv, Kept, Typed, Matching, vars, expressionVars, matchVars, streamVars
<1> QED BY <1>1, CreateInv, GetNextTokenInv, BeginLexemeInv, MatchByteInv, NothingRecognisedInv,
            RecognisedInv DEF Next

\* A text has another from a place on.
At(text, m, y) == \A i \in 1 .. Len(y) : text[m + i] = y[i]

\* Bytes in the middle of a sequence.
LEMMA Middle ==
  ASSUME NEW S, NEW x \in Seq(S), NEW y \in Seq(S), NEW z \in Seq(S),
         NEW m, m = Len(x), NEW n, n = Len(x) + Len(y)
  PROVE  /\ x \o (y \o z) \in Seq(S)
         /\ Len(x \o (y \o z)) = n + Len(z)
         /\ SubSeq(x \o (y \o z), m + 1, n) = y
         /\ At(x \o (y \o z), m, y)
<1> DEFINE yz == y \o z
           all == x \o yz
           part == SubSeq(all, m + 1, n)
<1>1. Len(x) \in Nat /\ Len(y) \in Nat /\ Len(z) \in Nat /\ m \in Nat /\ n \in Nat
  BY LenProperties
<1>2. /\ yz \in Seq(S) /\ Len(yz) = Len(y) + Len(z)
      /\ \A i \in 1 .. Len(y) + Len(z) : yz[i] = IF i <= Len(y) THEN y[i] ELSE z[i - Len(y)]
  BY ConcatProperties
<1> HIDE DEF yz
<1>3. /\ all \in Seq(S) /\ Len(all) = Len(x) + Len(yz)
      /\ \A i \in 1 .. Len(x) + Len(yz) : all[i] = IF i <= Len(x) THEN x[i] ELSE yz[i - Len(x)]
  <2>1. x \in Seq(S) /\ yz \in Seq(S)
    BY <1>2
  <2> QED BY <2>1, ConcatProperties
<1> HIDE DEF all
<1>4. \A i \in 1 .. Len(y) : all[m + i] = y[i]
  <2>1. ASSUME NEW i \in 1 .. Len(y) PROVE all[m + i] = y[i]
    <3>1. /\ m + i \in 1 .. Len(x) + Len(yz) /\ ~ (m + i <= Len(x)) /\ (m + i) - Len(x) = i
          /\ i \in 1 .. Len(y) + Len(z) /\ i <= Len(y)
      BY <1>1, <1>2
    <3> QED BY <1>2, <1>3, <3>1
  <2> QED BY <2>1
<1>5. /\ part \in Seq(S) /\ Len(part) = Len(y) /\ \A i \in 1 .. Len(y) : part[i] = all[m + i]
  <2> DEFINE k == m + 1
  <2>1. k \in Int /\ n \in Int /\ \A i \in k .. n : i \in 1 .. Len(all)
    BY <1>1, <1>2, <1>3
  <2>2. \A i \in k .. n : all[i] \in S
    BY <1>3, <2>1, ElementOfSeq
  <2>3. n - k + 1 = Len(y) /\ (k <= n <=> Len(y) > 0) /\ \A i \in 1 .. Len(y) : k + i - 1 = m + i
    BY <1>1 DEF k
  <2> HIDE DEF k
  <2>4. /\ SubSeq(all, k, n) \in Seq(S)
        /\ Len(SubSeq(all, k, n)) = IF k <= n THEN n - k + 1 ELSE 0
        /\ \A i \in 1 .. n - k + 1 : SubSeq(all, k, n)[i] = all[k + i - 1]
    BY <2>1, <2>2, SubSeqProperties
  <2> DEFINE p == SubSeq(all, k, n)
             l == Len(y)
  <2>5. l \in Nat
    BY <1>1
  <2>6. part = p
    BY DEF k
  <2> HIDE DEF p, l, part
  <2>7. p \in Seq(S) /\ Len(p) = l
    BY <2>3, <2>4, <2>5 DEF p, l
  <2>8. \A i \in 1 .. l : p[i] = all[m + i]
    BY <2>3, <2>4 DEF p, l
  <2> QED BY <2>6, <2>7, <2>8 DEF l
<1> HIDE DEF part
<1>6. part = y
  <2>1. \A i \in 1 .. Len(part) : part[i] = y[i]
    BY <1>4, <1>5
  <2> QED BY <1>5, <2>1, SeqEqual
<1>7. At(all, m, y)
  BY <1>4 DEF At
<1>8. Len(all) = n + Len(z)
  BY <1>1, <1>2, <1>3
<1> QED BY <1>3, <1>6, <1>7, <1>8 DEF part, all, yz

\* What is kept is what TextKept says.
LEMMA InvImpliesTextKept == Inv => TextKept
<1> SUFFICES ASSUME Inv, Ready(buffers) PROVE TextKept
  BY DEF TextKept
<1> USE DEF Inv, Kept, KeptOf
<1>1. PICK given \in Seq(Bytes) : input = given \o Contents(buffers)
  OBVIOUS
<1> DEFINE bytes == FlattenSeq(buffers.Chain)
           rest == buffers.Left
           m == Len(given)
           n == Len(given) + Len(bytes)
<1>2. buffers \in Buffers(Bytes) /\ ChainOK(buffers) /\ PosOK(buffers, GetTailPos(buffers))
  BY DEF BufInv
<1>3. bytes \in Seq(Bytes) /\ rest \in Seq(Bytes) /\ buffers.HeadAt \in Nat
  BY <1>2, BufferFields, FlattenType
<1>4. input = given \o (bytes \o rest)
  BY <1>1 DEF Contents
<1> HIDE DEF bytes, rest
<1>5. Len(input) = n + Len(rest) /\ SubSeq(input, m + 1, n) = bytes
  BY <1>3, <1>4, Middle
<1>6. Len(given) \in Nat /\ Len(bytes) \in Nat /\ Len(rest) \in Nat
  BY <1>1, <1>3, LenProperties
<1>7. Delivered = n /\ HeadOffset - buffers.HeadAt + 1 = m + 1
  <2>1. Delivered = n
    BY <1>5, <1>6 DEF Delivered, rest
  <2>2. HeadOffset = n - Len(bytes) + buffers.HeadAt
    BY <2>1 DEF HeadOffset, bytes
  <2> QED BY <1>3, <1>6, <2>1, <2>2
<1>8. FlattenSeq(buffers.Chain) = SubSeq(input, HeadOffset - buffers.HeadAt + 1, Delivered)
  BY <1>5, <1>7 DEF bytes
<1>9. IsEOF(buffers) => buffers.TailBlock = Len(buffers.Chain) /\ buffers.Left = <<>>
  <2>1. Len(buffers.Chain[buffers.TailBlock]) \in Nat
    BY <1>2, BufferFields DEF PosOK, GetTailPos
  <2> QED BY <1>2, <2>1 DEF PosOK, GetTailPos, IsEOF
<1> QED BY <1>2, <1>8, <1>9 DEF TextKept, ChainOK, PosOK, GetTailPos

\* Inv is an invariant.
THEOREM Invariance == Spec => []Inv
BY InitInv, NextInv, PTL DEF Spec

\* For every automaton, size of block and stream the tokenizer's components
\* have values of their types, and the tail is in one of the blocks.
THEOREM TypeCorrect == Spec => []TypeOK
<1>1. Inv => TypeOK
  <2> SUFFICES ASSUME Inv PROVE TypeOK
    OBVIOUS
  <2>1. buffers \in Buffers(Bytes) /\ Typed
    BY DEF Inv, Kept, KeptOf, BufInv
  <2>2. /\ buffers.Chain \in Seq(Seq(Bytes)) /\ buffers.Left \in Seq(Bytes)
        /\ {buffers.HeadAt, buffers.TailAt, buffers.Allocated} \subseteq Nat
        /\ buffers.Spare \in BOOLEAN
    BY <2>1, BufferFields
  <2>3. Ready(buffers) => buffers.TailBlock \in DOMAIN buffers.Chain
    <3>1. Ready(buffers) => buffers.TailBlock \in 1 .. Len(buffers.Chain)
      BY DEF Inv, Kept, KeptOf, BufInv, PosOK, GetTailPos
    <3>2. DOMAIN buffers.Chain = 1 .. Len(buffers.Chain)
      BY <2>2, LenProperties
    <3> QED BY <3>1, <3>2
  <2> QED BY <2>1, <2>2, <2>3 DEF Typed, TypeOK, Tokens
<1> QED BY Invariance, <1>1, PTL

\* However far matches look ahead and are set back, and wherever blocks end,
\* the blocks from the head on hold the input from some byte to the last one
\* read, in order: nothing is lost between AdjustHead, which frees blocks,
\* LoadNewBuffer, which appends them, and SetTailPos, which goes back.
THEOREM InputKept == Spec => []TextKept
BY Invariance, InvImpliesTextKept, PTL

(***************************************************************************)
(* The reader and the positions                                            *)
(***************************************************************************)

\* The reader's byte is the next one, and a match whose last lexeme has no
\* token has not gone beyond it.
Reader ==
  /\ pc # "idle" /\ ~ IsEOF(buffers) => Character = GetByte(buffers)
  /\ pc = "match" /\ lastLexemeID # NoLexeme /\ LexemeInfo[lastLexemeID].TokenCode = 0 =>
       AcceptState[state] = lastLexemeID /\ lastTail = GetTailPos(buffers)

\* A tail that is set where it is.
LEMMA TailSetSame ==
  ASSUME NEW b \in Buffers(Bytes)
  PROVE  SetTailPos(b, GetTailPos(b)) = b
BY DEF SetTailPos, GetTailPos, Buffers

\* Every step keeps the reader at the next byte.
LEMMA NextReader ==
  ASSUME IgnoredGoOn, Inv, Reader, [Next]_vars
  PROVE  Reader'
<1>1. ASSUME NEW stream, Create(stream) PROVE Reader'
  BY <1>1 DEF Create, Reader
<1>2. CASE GetNextToken
  BY <1>2 DEF GetNextToken, Reader
<1>3. CASE BeginLexeme
  <2>1. CASE IsEOF(buffers')
    <3>1. pc' = "idle"
      BY <1>3, <2>1 DEF BeginLexeme, Return
    <3> QED BY <3>1 DEF Reader
  <2>2. CASE ~ IsEOF(buffers')
    <3>1. /\ lastLexemeID' = NoLexeme /\ Character' = Character /\ pc # "idle"
      BY <1>3, <2>2 DEF BeginLexeme
    <3>2. GetByte(buffers') = GetByte(buffers) /\ ~ IsEOF(buffers)
      BY <1>3, <2>2, BeginDrops DEF DropsText, GetByte, IsEOF
    <3> QED BY <3>1, <3>2 DEF Reader
  <2> QED BY <2>1, <2>2
<1>4. CASE MatchByte
  <2>1. Character' = GetByte(buffers') /\ pc' = "match" /\ pc = "match" /\ state' = NextState
    BY <1>4 DEF MatchByte
  <2>2. CASE AcceptState[NextState] # 0
    BY <1>4, <2>1, <2>2 DEF MatchByte, Reader
  <2>3. CASE AcceptState[NextState] = 0
    <3>1. lastLexemeID' = lastLexemeID
      BY <1>4, <2>3 DEF MatchByte
    <3>2. ~ (lastLexemeID # NoLexeme /\ LexemeInfo[lastLexemeID].TokenCode = 0)
      <4>1. SUFFICES ASSUME lastLexemeID # NoLexeme, LexemeInfo[lastLexemeID].TokenCode = 0
                     PROVE  FALSE
        OBVIOUS
      <4>2. AcceptState[state] = lastLexemeID /\ lastLexemeID \in Lexemes /\ lastLexemeID # 0
        BY <2>1, <4>1, DFAAssumption DEF Reader, Inv, Typed
      <4>3. state \in DFAStates /\ Character \in Bytes /\ NextState # EmptyTransition
        BY <1>4 DEF Inv, Typed, Matching, MatchByte, MatchEnded
      <4> QED BY <2>3, <4>1, <4>2, <4>3 DEF IgnoredGoOn, NextState
    <3> QED BY <2>1, <3>1, <3>2 DEF Reader
  <2> QED BY <2>2, <2>3
<1>5. CASE NothingRecognised
  BY <1>5 DEF NothingRecognised, Return, Reader
<1>6. CASE Recognised
  <2>1. pc' = "idle" \/ (pc' = "begin" /\ LexemeInfo[lastLexemeID].TokenCode = 0)
    <3>1. LexemeInfo[lastLexemeID].Action \in {"none", "goto", "push", "pop"}
      <4>1. lastLexemeID \in Lexemes
        BY <1>6 DEF Recognised, Inv, Typed
      <4> QED BY <4>1, DFAAssumption
    <3> QED BY <1>6, <3>1 DEF Recognised, Return
  <2>2. CASE pc' = "begin" /\ LexemeInfo[lastLexemeID].TokenCode = 0
    <3>1. pc = "match" /\ lastLexemeID # NoLexeme /\ lastTail = GetTailPos(buffers)
      BY <1>6, <2>2 DEF Recognised, Reader
    <3>2. buffers' = buffers /\ Character' = Character
      <4>1. buffers \in Buffers(Bytes)
        BY DEF Inv, Kept, KeptOf, BufInv
      <4>2. SetTailPos(buffers, GetTailPos(buffers)) = buffers
        BY <4>1, TailSetSame
      <4> QED BY <1>6, <3>1, <4>2 DEF Recognised
    <3> QED BY <2>2, <3>1, <3>2 DEF Reader
  <2> QED BY <2>1, <2>2 DEF Reader
<1>7. CASE UNCHANGED vars
  BY <1>7 DEF vars, matchVars, Reader
<1> QED BY <1>1, <1>2, <1>3, <1>4, <1>5, <1>6, <1>7 DEF Next

\* The reader's byte is the one at the tail, "the first byte available", where
\* no match comes back to a lexeme without a token.
THEOREM ReaderCurrent ==
  ASSUME IgnoredGoOn
  PROVE  Spec => []CharacterIsCurrent
<1>1. Init => Reader
  BY DEF Init, Reader
<1>2. Inv /\ Reader /\ [Next]_vars => Reader'
  BY NextReader
<1>3. Reader => CharacterIsCurrent
  BY DEF Reader, CharacterIsCurrent
<1> QED BY Invariance, <1>1, <1>2, <1>3, PTL DEF Spec

\* A set of numbers up to one has a greatest.
LEMMA GreatestNat ==
  ASSUME NEW n \in Nat, NEW T, T \subseteq 1 .. n, T # {}
  PROVE  Max(T) \in T /\ \A k \in T : k <= Max(T)
<1> DEFINE below == {n - k : k \in T}
<1>1. below \subseteq Nat /\ below # {}
  BY SMT
<1>2. PICK m \in below : \A k \in below : m <= k
  <2> HIDE DEF below
  <2> QED BY <1>1, LeastNat
<1>3. PICK x \in T : m = n - x
  BY <1>2
<1>4. \A k \in T : x >= k
  <2>1. ASSUME NEW k \in T PROVE x >= k
    <3>1. n - k \in below
      OBVIOUS
    <3>2. m <= n - k
      BY <1>2, <3>1
    <3>3. x \in Nat /\ k \in Nat
      OBVIOUS
    <3> QED BY <1>3, <3>2, <3>3
  <2> QED BY <2>1
<1>5. \E y \in T : \A k \in T : y >= k
  BY <1>4
<1>6. Max(T) \in T /\ \A k \in T : Max(T) >= k
  BY <1>5 DEF Max
<1>7. Max(T) \in Nat /\ \A k \in T : k \in Nat
  <2>1. \A k \in 1 .. n : k \in Nat
    OBVIOUS
  <2> QED BY <1>6, <2>1
<1> QED BY <1>6, <1>7

\* Where a byte is in a text.
Places(text, which) == {i \in DOMAIN text : text[i] = which}

\* A text with a byte more.
Longer(t, text, ch) == t = Append(text, ch)

\* The places in a text where a byte is grow with it.
LEMMA PlacesGrow ==
  ASSUME NEW text \in Seq(Bytes), NEW ch \in Bytes, NEW which, NEW n, n = Len(text),
         NEW t, Longer(t, text, ch)
  PROVE  /\ ch = which => Places(t, which) = Places(text, which) \union {n + 1}
         /\ ch # which => Places(t, which) = Places(text, which)
         /\ IsFiniteSet(Places(text, which)) /\ Cardinality(Places(text, which)) \in Nat
         /\ Places(text, which) \subseteq 1 .. n
         /\ ch = which => Cardinality(Places(t, which)) = Cardinality(Places(text, which)) + 1
<1> DEFINE old == Places(text, which)
           new == Places(t, which)
<1>1. /\ n \in Nat /\ DOMAIN text = 1 .. n /\ DOMAIN t = 1 .. n + 1 /\ t[n + 1] = ch
      /\ \A i \in 1 .. n : t[i] = text[i]
  BY AppendProperties, LenProperties DEF Longer
<1>2. old \subseteq 1 .. n
  BY <1>1 DEF Places
<1>3. IsFiniteSet(old) /\ Cardinality(old) \in Nat
  <2> HIDE DEF old
  <2>1. IsFiniteSet(1 .. n)
    BY <1>1, FS_Interval
  <2> QED BY <1>2, <2>1, FS_Subset, FS_CardinalityType
<1>4. (ch = which => new = old \union {n + 1}) /\ (ch # which => new = old)
  <2>1. ASSUME NEW i
        PROVE  /\ ch = which => (i \in new <=> i \in old \union {n + 1})
               /\ ch # which => (i \in new <=> i \in old)
    <3>1. i \in 1 .. n + 1 <=> i \in 1 .. n \/ i = n + 1
      BY <1>1
    <3>2. ~ (n + 1 \in 1 .. n)
      BY <1>1
    <3> QED BY <1>1, <3>1, <3>2 DEF Places
  <2> HIDE DEF new, old
  <2> QED BY <2>1
<1>5. n + 1 \notin old
  <2>1. ~ (n + 1 \in 1 .. n)
    BY <1>1
  <2> QED BY <1>2, <2>1
<1>6. ch = which => Cardinality(new) = Cardinality(old) + 1
  <2> HIDE DEF old, new
  <2> DEFINE k == n + 1
  <2>1. Cardinality(old \union {k}) = Cardinality(old) + 1
    <3>1. k \notin old
      BY <1>5
    <3> HIDE DEF k
    <3> QED BY <1>3, <3>1, FS_AddElement
  <2> QED BY <1>3, <1>4, <2>1
<1> QED BY <1>2, <1>3, <1>4, <1>6

\* The width of a text: four columns for a tab.
Width(text) == Len(text) + 3 * Cardinality(Tabs(text))

\* A byte more is a column more, or four.
LEMMA WidthGrows ==
  ASSUME NEW text \in Seq(Bytes), NEW ch \in Bytes
  PROVE  Width(text) \in Nat /\ Width(Append(text, ch)) = Width(text) + (IF ch = Tab THEN 4 ELSE 1)
<1> DEFINE n == Len(text)
           t == Append(text, ch)
           x == Cardinality(Tabs(text))
           y == Cardinality(Tabs(t))
<1>1. n \in Nat /\ Len(t) = n + 1
  BY AppendProperties, LenProperties
<1>2. x \in Nat /\ (ch = Tab => y = x + 1) /\ (ch # Tab => y = x)
  <2>1. Tabs(text) = Places(text, Tab) /\ Tabs(t) = Places(t, Tab)
    BY DEF Tabs, Places
  <2>2. /\ Cardinality(Places(text, Tab)) \in Nat
        /\ ch = Tab => Cardinality(Places(t, Tab)) = Cardinality(Places(text, Tab)) + 1
        /\ ch # Tab => Places(t, Tab) = Places(text, Tab)
    <3>1. PICK w : w = Tab
      OBVIOUS
    <3>2. PICK u : u = Append(text, ch)
      OBVIOUS
    <3>3. PICK m : m = Len(text)
      OBVIOUS
    <3>4. /\ Cardinality(Places(text, w)) \in Nat
          /\ ch = w => Cardinality(Places(u, w)) = Cardinality(Places(text, w)) + 1
          /\ ch # w => Places(u, w) = Places(text, w)
      <4>1. text \in Seq(Bytes) /\ ch \in Bytes /\ m = Len(text) /\ Longer(u, text, ch)
        BY <3>2, <3>3 DEF Longer
      <4> QED BY <4>1, PlacesGrow
    <3> QED BY <3>1, <3>2, <3>4
  <2> QED BY <2>1, <2>2
<1> HIDE DEF x, y, n, t
<1>3. Width(text) = n + 3 * x /\ Width(t) = (n + 1) + 3 * y
  BY <1>1 DEF Width, n, x, y
<1> QED BY <1>1, <1>2, <1>3 DEF t

\* No text has no width.
LEMMA WidthOfNothing == Width(<< >>) = 0
<1> DEFINE none == << >>
<1>1. Tabs(none) = {} /\ Len(none) = 0
  BY DEF Tabs
<1> QED BY <1>1, FS_EmptySet DEF Width

\* The position after a text, in terms of its width.
LEMMA PositionIs ==
  ASSUME NEW start \in Positions, NEW text
  PROVE  /\ Breaks(text) = {} =>
              PositionAfter(start, text) = [Line   |-> start.Line,
                                            Offset |-> start.Offset + Width(text)]
         /\ Breaks(text) # {} =>
              PositionAfter(start, text)
                = [Line   |-> start.Line + Cardinality(Breaks(text)),
                   Offset |-> Width(SubSeq(text, Max(Breaks(text)) + 1, Len(text)))]
BY DEF PositionAfter, Width, Positions

\* The position after no text is that before it.
LEMMA PositionOfNothing ==
  ASSUME NEW start \in Positions
  PROVE  PositionAfter(start, <<>>) = start
<1> DEFINE none == << >>
<1>1. Breaks(none) = {}
  BY DEF Breaks
<1>2. Width(none) = 0
  BY WidthOfNothing
<1>3. PositionAfter(start, none) = [Line |-> start.Line, Offset |-> start.Offset + 0]
  <2> HIDE DEF none
  <2> QED BY <1>1, <1>2, PositionIs
<1>4. start.Offset \in Nat /\ start = [Line |-> start.Line, Offset |-> start.Offset]
  BY DEF Positions
<1> QED BY <1>3, <1>4

\* The position after a text with a byte more is that after the text moved on
\* by the byte.
LEMMA PositionGrows ==
  ASSUME NEW start \in Positions, NEW text \in Seq(Bytes), NEW ch \in Bytes,
         NEW t, Longer(t, text, ch)
  PROVE  PositionAfter(start, t) = AdvanceChar(PositionAfter(start, text), ch)
<1> DEFINE n == Len(text)
           lines == Cardinality(Breaks(text))
           line == start.Line
           offset == start.Offset
           columns == IF ch = Tab THEN 4 ELSE 1
<1>1. /\ n \in Nat /\ t \in Seq(Bytes) /\ Len(t) = n + 1 /\ t[n + 1] = ch
      /\ \A i \in 1 .. n : t[i] = text[i]
  BY AppendProperties, LenProperties DEF Longer
<1>2. line \in Nat /\ offset \in Nat /\ columns \in {1, 4} /\ LineFeed # Tab
  BY DEF Positions, LineFeed, Tab
<1>3. /\ ch = LineFeed => Breaks(t) = Breaks(text) \union {n + 1}
      /\ ch # LineFeed => Breaks(t) = Breaks(text)
      /\ IsFiniteSet(Breaks(text)) /\ lines \in Nat /\ Breaks(text) \subseteq 1 .. n
      /\ ch = LineFeed => Cardinality(Breaks(t)) = lines + 1
  <2>1. PICK w : w = LineFeed
    OBVIOUS
  <2>2. Breaks(text) = Places(text, w) /\ Breaks(t) = Places(t, w)
    BY <2>1 DEF Breaks, Places
  <2>3. PICK m : m = Len(text)
    OBVIOUS
  <2>4. /\ ch = w => Places(t, w) = Places(text, w) \union {m + 1}
        /\ ch # w => Places(t, w) = Places(text, w)
        /\ IsFiniteSet(Places(text, w)) /\ Cardinality(Places(text, w)) \in Nat
        /\ Places(text, w) \subseteq 1 .. m
        /\ ch = w => Cardinality(Places(t, w)) = Cardinality(Places(text, w)) + 1
    BY <2>3, PlacesGrow
  <2> QED BY <2>1, <2>2, <2>3, <2>4
<1>4. Width(text) \in Nat /\ Width(t) = Width(text) + columns
  BY WidthGrows DEF Longer
<1> HIDE DEF n, lines, columns, line, offset
<1>5. CASE ch = LineFeed
  <2>1. PICK P : P = PositionAfter(start, text)
    OBVIOUS
  <2>2. P.Line = line + lines
    <3>1. CASE Breaks(text) = {}
      <4>1. lines = 0
        BY <3>1, FS_EmptySet DEF lines
      <4> QED BY <1>2, <2>1, <3>1, <4>1, PositionIs DEF line
    <3>2. CASE Breaks(text) # {}
      BY <2>1, <3>2, PositionIs DEF line, lines
    <3> QED BY <3>1, <3>2
  <2>3. Max(Breaks(t)) = n + 1
    <3> DEFINE T == Breaks(t)
               m == n + 1
    <3>1. T \subseteq 1 .. m /\ m \in T /\ T # {} /\ m \in Nat
      BY <1>1, <1>3, <1>5
    <3> HIDE DEF T, m
    <3>2. Max(T) \in T /\ \A k \in T : k <= Max(T)
      BY <3>1, GreatestNat
    <3> QED BY <3>1, <3>2 DEF T, m
  <2>4. Width(SubSeq(t, (n + 1) + 1, n + 1)) = 0
    <3>1. SubSeq(t, (n + 1) + 1, n + 1) = <<>>
      BY <1>1, SubSeqEmpty
    <3> QED BY <3>1, WidthOfNothing
  <2>5. Breaks(t) # {}
    BY <1>3, <1>5
  <2>6. PositionAfter(start, t) = [Line |-> line + (lines + 1), Offset |-> 0]
    BY <1>1, <1>3, <1>5, <2>3, <2>4, <2>5, PositionIs DEF line
  <2>7. AdvanceChar(P, ch) = [Line |-> (line + lines) + 1, Offset |-> 0]
    BY <1>5, <2>2 DEF AdvanceChar
  <2> QED BY <1>2, <1>3, <2>1, <2>6, <2>7
<1>6. CASE ch # LineFeed /\ Breaks(text) = {}
  <2>1. PositionAfter(start, text) = [Line |-> line, Offset |-> offset + Width(text)]
    BY <1>6, PositionIs DEF line, offset
  <2>2. PositionAfter(start, t) = [Line |-> line, Offset |-> offset + (Width(text) + columns)]
    BY <1>3, <1>4, <1>6, PositionIs DEF line, offset
  <2>3. AdvanceChar(PositionAfter(start, text), ch)
          = [Line |-> line, Offset |-> (offset + Width(text)) + columns]
    BY <1>6, <2>1 DEF AdvanceChar, columns
  <2> QED BY <1>2, <1>4, <2>2, <2>3
<1>7. CASE ch # LineFeed /\ Breaks(text) # {}
  <2> DEFINE m == Max(Breaks(text))
             u == SubSeq(text, m + 1, n)
             v == SubSeq(t, m + 1, n + 1)
  <2>1. m \in Nat /\ m <= n
    <3>1. m \in Breaks(text)
      BY <1>1, <1>3, <1>7, GreatestNat
    <3> HIDE DEF m
    <3> QED BY <1>1, <1>3, <3>1
  <2> HIDE DEF m
  <2>2. u \in Seq(Bytes) /\ v = Append(u, ch)
    <3>1. SubSeq(text, m + 1, n) = SubSeq(t, m + 1, n)
      BY <1>1, <2>1 DEF n
    <3>2. n < Len(t)
      BY <1>1
    <3>3. /\ SubSeq(t, m + 1, n) \in Seq(Bytes)
          /\ SubSeq(t, m + 1, n + 1) = Append(SubSeq(t, m + 1, n), t[n + 1])
      BY <1>1, <2>1, <3>2, SubSeqStep
    <3> QED BY <1>1, <3>1, <3>3
  <2> HIDE DEF u, v
  <2>3. Width(u) \in Nat /\ Width(v) = Width(u) + columns
    BY <2>2, WidthGrows DEF columns
  <2>4. PositionAfter(start, text) = [Line |-> line + lines, Offset |-> Width(u)]
    BY <1>7, PositionIs DEF line, lines, u, m, n
  <2>5. PositionAfter(start, t) = [Line |-> line + lines, Offset |-> Width(v)]
    BY <1>1, <1>3, <1>7, PositionIs DEF line, lines, v, m
  <2> QED BY <1>7, <2>3, <2>4, <2>5 DEF AdvanceChar, columns
<1> QED BY <1>5, <1>6, <1>7

\* The tail's position is the head's moved on by the text between them, and the
\* position noted for the end of a lexeme is that of its text.
Placed ==
  /\ pc = "match" =>
       /\ TailPos = PositionAfter(HeadPos, TokenText(buffers))
       /\ lastLexemeID # NoLexeme =>
            lastTailPos = PositionAfter(HeadPos, TextTo(buffers, lastTail))
  /\ PositionFollowsText

\* Every step keeps the positions.
LEMMA NextPlaced ==
  ASSUME Inv, Reader, Placed, [Next]_vars
  PROVE  Placed'
<1>0. /\ HeadPos \in Positions /\ TailPos \in Positions
      /\ PositionFollowsText <=>
           (pc # "match" /\ lastLexemeID # NoLexeme =>
              TailPos = PositionAfter(HeadPos, TokenText(buffers)))
  BY DEF Inv, Typed, PositionFollowsText
<1>1. ASSUME NEW stream, Create(stream) PROVE Placed'
  BY <1>1 DEF Create, Placed, PositionFollowsText
<1>2. CASE GetNextToken
  BY <1>2 DEF GetNextToken, matchVars, Placed, PositionFollowsText
<1>3. CASE BeginLexeme
  <2>1. TokenText(buffers') = <<>> /\ HeadPos' = TailPos /\ TailPos' = TailPos
    BY <1>3, BeginDrops DEF DropsText, BeginLexeme
  <2>2. TailPos' = PositionAfter(HeadPos', TokenText(buffers'))
    BY <1>0, <2>1, PositionOfNothing
  <2>3. pc' = "idle" \/ lastLexemeID' = NoLexeme
    BY <1>3 DEF BeginLexeme, Return
  <2> QED BY <2>2, <2>3 DEF Placed, PositionFollowsText
<1>4. CASE MatchByte
  <2>1. /\ Extends(Bytes, buffers, buffers') /\ TokenText(buffers) \in Seq(Bytes)
        /\ TokenText(buffers') = Append(TokenText(buffers), GetByte(buffers))
        /\ TokenText(buffers') = TextTo(buffers', GetTailPos(buffers'))
    BY <1>4, MatchExtends
  <2>2. /\ pc = "match" /\ pc' = "match" /\ HeadPos' = HeadPos /\ ~ IsEOF(buffers)
        /\ TailPos' = AdvanceChar(TailPos, Character)
    BY <1>4 DEF MatchByte, MatchEnded
  <2>3. Character = GetByte(buffers) /\ Character \in Bytes
    BY <2>2 DEF Reader, Inv, Typed
  <2>4. PICK t, text : t = TokenText(buffers') /\ text = TokenText(buffers)
    OBVIOUS
  <2>5. Longer(t, text, Character) /\ text \in Seq(Bytes)
    BY <2>1, <2>3, <2>4 DEF Longer
  <2>6. PositionAfter(HeadPos, t) = AdvanceChar(PositionAfter(HeadPos, text), Character)
    BY <1>0, <2>3, <2>5, PositionGrows
  <2>7. TailPos' = PositionAfter(HeadPos', TokenText(buffers'))
    BY <2>2, <2>4, <2>6 DEF Placed
  <2>8. lastLexemeID' # NoLexeme =>
          lastTailPos' = PositionAfter(HeadPos', TextTo(buffers', lastTail'))
    <3>1. CASE AcceptState[NextState] # 0
      <4>1. lastTail' = GetTailPos(buffers') /\ lastTailPos' = TailPos'
        BY <1>4, <3>1 DEF MatchByte
      <4> QED BY <2>1, <2>7, <4>1
    <3>2. CASE AcceptState[NextState] = 0
      <4>1. UNCHANGED <<lastLexemeID, lastTail, lastTailPos>>
        BY <1>4, <3>2 DEF MatchByte
      <4>2. lastLexemeID # NoLexeme => PosOK(buffers, lastTail)
        BY <2>2 DEF Inv, Matching
      <4>3. PosOK(buffers, lastTail) => TextTo(buffers', lastTail) = TextTo(buffers, lastTail)
        BY <2>1 DEF Extends
      <4> QED BY <2>2, <4>1, <4>2, <4>3 DEF Placed
    <3> QED BY <3>1, <3>2
  <2> QED BY <2>2, <2>7, <2>8 DEF Placed, PositionFollowsText
<1>5. CASE NothingRecognised
  BY <1>5 DEF NothingRecognised, Return, matchVars, Placed, PositionFollowsText
<1>6. CASE Recognised
  <2>1. pc' # "match"
    <3>1. LexemeInfo[lastLexemeID].Action \in {"none", "goto", "push", "pop"}
      <4>1. lastLexemeID \in Lexemes
        BY <1>6 DEF Recognised, Inv, Typed
      <4> QED BY <4>1, DFAAssumption
    <3> QED BY <1>6, <3>1 DEF Recognised, Return
  <2>2. TokenText(buffers') = TextTo(buffers, lastTail)
    BY <1>6, RecognisedExtends
  <2>3. TailPos' = lastTailPos /\ HeadPos' = HeadPos /\ pc = "match" /\ lastLexemeID # NoLexeme
    BY <1>6 DEF Recognised, EndOfLexemePos
  <2>4. TailPos' = PositionAfter(HeadPos', TokenText(buffers'))
    BY <2>2, <2>3 DEF Placed
  <2> QED BY <2>1, <2>4 DEF Placed, PositionFollowsText
<1>7. CASE UNCHANGED vars
  BY <1>7 DEF vars, matchVars, Placed, PositionFollowsText
<1> QED BY <1>1, <1>2, <1>3, <1>4, <1>5, <1>6, <1>7 DEF Next

\* The position at which the next lexeme will be reported is that of the last
\* one moved on by its text, tabs and line feeds counted: what the match read
\* beyond the lexeme has no part in it, for TailPos goes back with the tail.
THEOREM PositionsFollow ==
  ASSUME IgnoredGoOn
  PROVE  Spec => []PositionFollowsText
<1>1. Init => Reader /\ Placed
  BY DEF Init, Reader, Placed, PositionFollowsText
<1>2. Inv /\ Reader /\ Placed /\ [Next]_vars => Reader' /\ Placed'
  BY NextReader, NextPlaced
<1>3. Placed => PositionFollowsText
  BY DEF Placed
<1> QED BY Invariance, <1>1, <1>2, <1>3, PTL DEF Spec

(***************************************************************************)
(* The tokenizer on its byte buffers implements MaximalMunch.              *)
(***************************************************************************)

(***************************************************************************)
(* Offsets in the input                                                    *)
(***************************************************************************)

\* Where the head and the tail of a buffer object are in a text.
HeadIn(b, text) == Len(text) - Len(Contents(b)) + b.HeadAt

TailIn(b, text) == HeadIn(b, text) + Len(TokenText(b))

\* What the buffers have of a text: the bytes given up, those of the blocks
\* and those still to be read.
LEMMA KeptParts ==
  ASSUME NEW b, NEW text, KeptOf(b, text), Ready(b)
  PROVE  \E given \in Seq(Bytes), bytes \in Seq(Bytes), left \in Seq(Bytes) :
           /\ bytes = FlattenSeq(b.Chain) /\ left = b.Left
           /\ text = given \o (bytes \o left)
           /\ Len(Contents(b)) = Len(bytes) + Len(left)
           /\ Len(text) = Len(given) + Len(bytes) + Len(left)
           /\ HeadIn(b, text) = Len(given) + b.HeadAt
<1>1. b \in Buffers(Bytes)
  BY DEF KeptOf, BufInv
<1>2. PICK given \in Seq(Bytes) : text = given \o Contents(b)
  BY DEF KeptOf
<1>3. PICK bytes \in Seq(Bytes), left \in Seq(Bytes) : bytes = FlattenSeq(b.Chain) /\ left = b.Left
  BY <1>1, BufferFields, FlattenType
<1>4. Contents(b) = bytes \o left
  BY <1>3 DEF Contents
<1>5. bytes \o left \in Seq(Bytes) /\ Len(bytes \o left) = Len(bytes) + Len(left)
  BY <1>3, ConcatProperties
<1>6. Len(text) = Len(given) + Len(Contents(b))
  <2> DEFINE rest == Contents(b)
  <2>1. rest \in Seq(Bytes) /\ text = given \o rest
    BY <1>2, <1>4, <1>5
  <2> HIDE DEF rest
  <2> QED BY <2>1, ConcatProperties DEF rest
<1>7. /\ Len(given) \in Nat /\ Len(bytes) \in Nat /\ Len(left) \in Nat /\ b.HeadAt \in Nat
  BY <1>1, <1>2, <1>3, LenProperties, BufferFields
<1>8. Len(Contents(b)) = Len(bytes) + Len(left)
  BY <1>4, <1>5
<1>9. Len(text) = Len(given) + Len(bytes) + Len(left)
  BY <1>6, <1>7, <1>8
<1>10. HeadIn(b, text) = Len(given) + b.HeadAt
  BY <1>6, <1>7, <1>8 DEF HeadIn
<1> QED BY <1>2, <1>3, <1>4, <1>8, <1>9, <1>10

\* The head is where the properties of the tokenizer have it.
LEMMA HeadOffsetIs ==
  ASSUME NEW b, NEW text, KeptOf(b, text), Ready(b)
  PROVE  Len(text) - Len(b.Left) - Len(FlattenSeq(b.Chain)) + b.HeadAt = HeadIn(b, text)
<1>1. PICK given \in Seq(Bytes), bytes \in Seq(Bytes), left \in Seq(Bytes) :
           /\ bytes = FlattenSeq(b.Chain) /\ left = b.Left
           /\ Len(Contents(b)) = Len(bytes) + Len(left)
           /\ Len(text) = Len(given) + Len(bytes) + Len(left)
  BY KeptParts
<1>2. /\ Len(given) \in Nat /\ Len(bytes) \in Nat /\ Len(left) \in Nat /\ b.HeadAt \in Nat
  BY <1>1, LenProperties, BufferFields DEF KeptOf, BufInv
<1>3. HeadIn(b, text) = Len(text) - (Len(bytes) + Len(left)) + b.HeadAt
  BY <1>1 DEF HeadIn
<1>4. Len(text) \in Nat
  <2>1. Len(given) \in Nat /\ Len(bytes) \in Nat /\ Len(left) \in Nat
    BY <1>2
  <2>2. Len(given) + Len(bytes) + Len(left) \in Nat
    BY <2>1
  <2> QED BY <1>1, <2>2
<1>5. Len(text) - Len(left) - Len(bytes) + b.HeadAt = Len(text) - (Len(bytes) + Len(left)) + b.HeadAt
  BY <1>2, <1>4
<1> QED BY <1>1, <1>3, <1>5

\* The blocks end with the last of them.
LEMMA EndOfChain ==
  ASSUME NEW b \in Buffers(Bytes), NEW pos, PosOK(b, pos), pos.Block = Len(b.Chain),
         pos.At = Len(b.Chain[pos.Block])
  PROVE  Before(b, pos) = Len(FlattenSeq(b.Chain))
<1> DEFINE c == b.Chain
           p == pos.Block
           before == FlattenSeq(SubSeq(c, 1, p - 1))
           after == FlattenSeq(SubSeq(c, p + 1, Len(c)))
<1>1. c \in Seq(Seq(Bytes)) /\ p \in 1 .. Len(c) /\ Len(c) \in Nat /\ p = Len(c)
  BY BufferFields DEF PosOK
<1>2. before \in Seq(Bytes) /\ c[p] \in Seq(Bytes) /\ FlattenSeq(c) = (before \o c[p]) \o after
  <2> HIDE DEF c, p
  <2> QED BY <1>1, ChainParts
<1>3. after = <<>>
  <2>1. SubSeq(c, p + 1, Len(c)) = <<>>
    <3> HIDE DEF c, p
    <3> QED BY <1>1, SubSeqEmpty
  <2> QED BY <2>1, FlattenEmpty
<1>4. Before(b, pos) = Len(before) + Len(c[p])
  BY DEF Before
<1> HIDE DEF before, after, c, p
<1>5. before \o c[p] \in Seq(Bytes) /\ Len(before \o c[p]) = Len(before) + Len(c[p])
  BY <1>2, ConcatProperties
<1>6. FlattenSeq(c) = before \o c[p]
  BY <1>2, <1>3, <1>5, ConcatEmptySeq
<1> QED BY <1>4, <1>5, <1>6 DEF c

\* The text is that of the input between the head and the tail, and the byte at
\* the tail is the next of the input.
LEMMA OffsetFacts ==
  ASSUME NEW b, NEW text, KeptOf(b, text), Ready(b)
  PROVE  /\ HeadIn(b, text) \in Nat /\ TailIn(b, text) \in Nat /\ Len(text) \in Nat
         /\ HeadIn(b, text) <= TailIn(b, text) /\ TailIn(b, text) <= Len(text)
         /\ TokenText(b) = SubSeq(text, HeadIn(b, text) + 1, TailIn(b, text))
         /\ ~ IsEOF(b) => TailIn(b, text) < Len(text) /\ GetByte(b) = text[TailIn(b, text) + 1]
         /\ IsEOF(b) => TailIn(b, text) = Len(text)
         /\ TailIn(b, text) = Len(text) - Len(Contents(b)) + Before(b, GetTailPos(b))
<1> DEFINE pos == GetTailPos(b)
           n == Before(b, pos)
           h == b.HeadAt
<1>1. /\ b \in Buffers(Bytes) /\ ChainOK(b) /\ PosOK(b, pos) /\ h \in Nat
      /\ pos.Block = b.TailBlock /\ pos.At = b.TailAt
  BY BufferFields DEF KeptOf, BufInv, GetTailPos
<1>2. PICK given \in Seq(Bytes), bytes \in Seq(Bytes), left \in Seq(Bytes) :
           /\ bytes = FlattenSeq(b.Chain) /\ left = b.Left
           /\ text = given \o (bytes \o left)
           /\ Len(Contents(b)) = Len(bytes) + Len(left)
           /\ Len(text) = Len(given) + Len(bytes) + Len(left)
           /\ HeadIn(b, text) = Len(given) + h
  BY KeptParts
<1>3. TokenText(b) = TextTo(b, pos)
  <2>1. SetTailPos(b, pos) = b
    BY <1>1, TailSetSame
  <2> QED BY <2>1 DEF TextTo
<1> HIDE DEF pos, n, h
<1>4. /\ n \in 0 .. Len(bytes) /\ TextTo(b, pos) = SubSeq(bytes, h + 1, n) /\ h <= n
      /\ pos.At < Len(b.Chain[pos.Block]) =>
           n < Len(bytes) /\ bytes[n + 1] = b.Chain[pos.Block][pos.At + 1]
  BY <1>1, <1>2, TextInChain, HeadBefore DEF n, h
<1> DEFINE g == Len(given)
<1>5. /\ g \in Nat /\ Len(bytes) \in Nat /\ Len(left) \in Nat /\ n \in Nat
      /\ text \in Seq(Bytes) /\ \A i \in 1 .. Len(bytes) : text[g + i] = bytes[i]
  <2>1. Len(given) \in Nat /\ Len(bytes) \in Nat /\ Len(left) \in Nat
    BY <1>2, LenProperties
  <2>2. PICK m : m = Len(given)
    OBVIOUS
  <2> DEFINE k == Len(given) + Len(bytes)
  <2>3. given \o (bytes \o left) \in Seq(Bytes) /\ At(given \o (bytes \o left), m, bytes)
    <3>1. k = Len(given) + Len(bytes)
      OBVIOUS
    <3> HIDE DEF k
    <3> QED BY <2>2, <3>1, Middle
  <2>4. text = given \o (bytes \o left) /\ m = g /\ n \in 0 .. Len(bytes)
    BY <1>2, <1>4, <2>2
  <2>5. text \in Seq(Bytes) /\ At(text, g, bytes)
    BY <2>3, <2>4
  <2> QED BY <2>1, <2>4, <2>5 DEF At
<1> HIDE DEF g
<1>a. /\ Len(text) = g + Len(bytes) + Len(left) /\ Len(text) \in Nat
      /\ HeadIn(b, text) = g + h /\ Len(Contents(b)) = Len(bytes) + Len(left)
      /\ h \in Nat /\ h <= n /\ n <= Len(bytes)
  <2>1. /\ Len(text) = g + Len(bytes) + Len(left)
        /\ HeadIn(b, text) = g + h /\ Len(Contents(b)) = Len(bytes) + Len(left)
    BY <1>2 DEF g
  <2>2. g \in Nat /\ Len(bytes) \in Nat /\ Len(left) \in Nat
    BY <1>5
  <2>3. g + Len(bytes) + Len(left) \in Nat
    BY <2>2
  <2>4. h \in Nat /\ h <= n /\ n <= Len(bytes)
    BY <1>1, <1>4, <1>5
  <2> QED BY <2>1, <2>3, <2>4
<1> DEFINE x == h + 1
           y == (g + h) + 1
           z == g + n
           u == SubSeq(bytes, x, n)
           v == SubSeq(text, y, z)
<1>6. /\ Len(u) = n - h /\ u = v
  <2>1. /\ x \in Int /\ y \in Int /\ z \in Int /\ n \in Int
        /\ \A i \in x .. n : i \in 1 .. Len(bytes)
        /\ \A i \in y .. z : i \in 1 .. Len(text)
        /\ n - x + 1 = n - h /\ z - y + 1 = n - h
        /\ (x <= n <=> n - h > 0) /\ (y <= z <=> n - h > 0) /\ n - h \in Nat
        /\ \A i \in 1 .. (n - h) : /\ x + i - 1 \in 1 .. Len(bytes)
                                   /\ y + i - 1 = g + (x + i - 1)
    <3>1. g \in Nat /\ h \in Nat /\ n \in Nat /\ Len(bytes) \in Nat /\ Len(left) \in Nat
          /\ h <= n /\ n <= Len(bytes) /\ Len(text) = g + Len(bytes) + Len(left)
      BY <1>5, <1>a
    <3> QED BY <3>1
  <2> HIDE DEF x, y, z
  <2>2. (\A i \in x .. n : bytes[i] \in Bytes) /\ (\A i \in y .. z : text[i] \in Bytes)
    BY <1>2, <1>5, <2>1, ElementOfSeq
  <2>3. /\ u \in Seq(Bytes) /\ Len(u) = IF x <= n THEN n - x + 1 ELSE 0
        /\ \A i \in 1 .. n - x + 1 : u[i] = bytes[x + i - 1]
    BY <2>1, <2>2, SubSeqProperties
  <2>4. /\ v \in Seq(Bytes) /\ Len(v) = IF y <= z THEN z - y + 1 ELSE 0
        /\ \A i \in 1 .. z - y + 1 : v[i] = text[y + i - 1]
    BY <2>1, <2>2, SubSeqProperties
  <2> HIDE DEF u, v
  <2>5. Len(u) = n - h /\ Len(v) = n - h
    BY <2>1, <2>3, <2>4
  <2>6. \A i \in 1 .. Len(u) : u[i] = v[i]
    <3>1. ASSUME NEW i \in 1 .. (n - h)
          PROVE  u[i] = v[i]
      <4>1. u[i] = bytes[x + i - 1] /\ v[i] = text[g + (x + i - 1)]
        BY <2>1, <2>3, <2>4
      <4>2. x + i - 1 \in 1 .. Len(bytes)
        BY <2>1
      <4> QED BY <1>5, <4>1, <4>2
    <3> QED BY <2>5, <3>1
  <2>7. u = v
    BY <2>3, <2>4, <2>5, <2>6, SeqEqual
  <2> QED BY <2>5, <2>7
<1>7. HeadIn(b, text) = g + h /\ TailIn(b, text) = g + n
  <2>1. HeadIn(b, text) = g + h /\ Len(TokenText(b)) = n - h
    BY <1>2, <1>3, <1>4, <1>6 DEF g
  <2> QED BY <1>1, <1>5, <2>1 DEF TailIn
<1>8. TokenText(b) = SubSeq(text, HeadIn(b, text) + 1, TailIn(b, text))
  BY <1>3, <1>4, <1>6, <1>7
<1>9. ~ IsEOF(b) => TailIn(b, text) < Len(text) /\ GetByte(b) = text[TailIn(b, text) + 1]
  <2>1. SUFFICES ASSUME ~ IsEOF(b)
                 PROVE  TailIn(b, text) < Len(text) /\ GetByte(b) = text[TailIn(b, text) + 1]
    OBVIOUS
  <2>2. pos.At < Len(b.Chain[pos.Block]) /\ GetByte(b) = b.Chain[pos.Block][pos.At + 1]
    <3>1. Len(b.Chain[pos.Block]) \in Nat /\ pos.At \in Nat
      BY <1>1, BufferFields DEF PosOK
    <3> QED BY <1>1, <2>1, <3>1 DEF IsEOF, GetByte
  <2>3. n < Len(bytes) /\ GetByte(b) = bytes[n + 1]
    BY <1>4, <2>2
  <2>4. n + 1 \in 1 .. Len(bytes) /\ (g + n) + 1 = g + (n + 1) /\ g + n < Len(text)
    <3>1. g \in Nat /\ n \in Nat /\ Len(bytes) \in Nat /\ Len(left) \in Nat
          /\ Len(text) = g + Len(bytes) + Len(left)
      BY <1>5, <1>a
    <3> QED BY <2>3, <3>1
  <2> QED BY <1>5, <1>7, <2>3, <2>4
<1>10. IsEOF(b) => TailIn(b, text) = Len(text)
  <2>1. SUFFICES ASSUME IsEOF(b) PROVE TailIn(b, text) = Len(text)
    OBVIOUS
  <2>2. pos.At = Len(b.Chain[pos.Block]) /\ pos.Block = Len(b.Chain) /\ left = <<>>
    <3>1. Len(b.Chain[pos.Block]) \in Nat /\ pos.At \in Nat
      BY <1>1, BufferFields DEF PosOK
    <3> QED BY <1>1, <1>2, <2>1, <3>1 DEF IsEOF, PosOK
  <2>3. n = Len(bytes)
    BY <1>1, <1>2, <2>2, EndOfChain DEF n
  <2>4. Len(left) = 0
    BY <2>2
  <2> QED BY <1>a, <1>5, <1>7, <2>3, <2>4
<1>11. TailIn(b, text) = Len(text) - Len(Contents(b)) + n
  <2>1. Len(text) - Len(Contents(b)) = g
    BY <1>a, <1>5
  <2> QED BY <1>7, <2>1
<1>12. /\ HeadIn(b, text) \in Nat /\ TailIn(b, text) \in Nat
       /\ HeadIn(b, text) <= TailIn(b, text) /\ TailIn(b, text) <= Len(text)
  <2>1. g \in Nat /\ n \in Nat /\ Len(bytes) \in Nat /\ Len(left) \in Nat /\ h \in Nat
        /\ h <= n /\ n <= Len(bytes) /\ Len(text) = g + Len(bytes) + Len(left)
    BY <1>5, <1>a
  <2> QED BY <1>7, <2>1
<1> QED BY <1>a, <1>8, <1>9, <1>10, <1>11, <1>12 DEF n, pos

\* A buffer that holds the same contents has its head at the same offset.
LEMMA HeadStays ==
  ASSUME NEW b, NEW text, NEW t, Extends(Bytes, b, t)
  PROVE  HeadIn(t, text) = HeadIn(b, text)
BY DEF Extends, HeadIn

\* When the head moves to the tail, both are where the tail was.
LEMMA HeadMoves ==
  ASSUME NEW b, NEW text, KeptOf(b, text), Ready(b), NEW t, DropsText(Bytes, b, t)
  PROVE  HeadIn(t, text) = TailIn(b, text) /\ TailIn(t, text) = TailIn(b, text)
<1>1. PICK passed \in Seq(Bytes) : /\ Contents(b) = passed \o Contents(t)
                                   /\ Before(b, GetTailPos(b)) = Len(passed) + b.TailAt
  BY DEF DropsText
<1>2. KeptOf(t, text) /\ Ready(t) /\ t.HeadAt = b.TailAt /\ Len(TokenText(t)) = 0
  BY KeptDrops DEF DropsText
<1> DEFINE x == Contents(b)
           y == Contents(t)
           n == Len(passed)
           at == b.TailAt
<1>3. Len(text) \in Nat /\ TailIn(b, text) \in Nat /\ HeadIn(t, text) \in Nat
      /\ TailIn(b, text) = Len(text) - Len(x) + Before(b, GetTailPos(b))
  BY <1>2, OffsetFacts
<1>4. at \in Nat /\ n \in Nat /\ y \in Seq(Bytes) /\ Len(y) \in Nat
  <2>1. at \in Nat /\ n \in Nat
    BY BufferFields, LenProperties DEF KeptOf, BufInv
  <2>2. PICK bytes, left : bytes = FlattenSeq(t.Chain) /\ left = t.Left
    OBVIOUS
  <2>3. bytes \in Seq(Bytes) /\ left \in Seq(Bytes)
    BY <1>2, <2>2, BufferFields, FlattenType DEF KeptOf, BufInv
  <2>4. bytes \o left \in Seq(Bytes)
    BY <2>3, ConcatProperties
  <2>5. y \in Seq(Bytes)
    BY <2>2, <2>4 DEF Contents
  <2> HIDE DEF y
  <2> QED BY <2>1, <2>5, LenProperties
<1>5. Len(x) = n + Len(y)
  <2> HIDE DEF y
  <2>1. passed \o y \in Seq(Bytes) /\ Len(passed \o y) = Len(passed) + Len(y)
    BY <1>4, ConcatProperties
  <2> QED BY <1>1, <2>1 DEF y
<1>6. HeadIn(t, text) = Len(text) - Len(y) + at
  BY <1>2 DEF HeadIn
<1>7. TailIn(b, text) = Len(text) - Len(x) + (n + at)
  BY <1>1, <1>3
<1>8. TailIn(t, text) = HeadIn(t, text) + 0
  BY <1>2 DEF TailIn
<1> HIDE DEF x, y, n, at
<1>9. HeadIn(t, text) = TailIn(b, text)
  BY <1>3, <1>4, <1>5, <1>6, <1>7
<1> QED BY <1>3, <1>8, <1>9

(***************************************************************************)
(* Runs of the automaton                                                   *)
(***************************************************************************)

\* The states the automaton is in between two offsets of a text.
IsRun(r, text, from, end, s) ==
  r = [n \in from .. end |->
         IF n = from THEN s
         ELSE IF r[n - 1] = EmptyTransition THEN EmptyTransition
         ELSE Transition[r[n - 1]][text[n]]]

\* There is a run from every state.
LEMMA RunsExist ==
  ASSUME NEW text, NEW from \in Nat, NEW end \in Nat, from <= end, NEW s
  PROVE  \E r : IsRun(r, text, from, end, s)
<1> DEFINE T == {m \in Nat : from <= m /\ ~ \E r : IsRun(r, text, from, m, s)}
<1>1. SUFFICES ASSUME T # {} PROVE FALSE
  OBVIOUS
<1>2. PICK m \in T : \A k \in T : m <= k
  <2>1. T \subseteq Nat
    OBVIOUS
  <2> HIDE DEF T
  <2> QED BY <1>1, <2>1, LeastNat
<1>3. m \in Nat /\ from <= m
  OBVIOUS
<1>4. CASE m = from
  <2>1. IsRun([n \in from .. m |-> s], text, from, m, s)
    BY <1>3, <1>4 DEF IsRun
  <2> QED BY <1>2, <2>1
<1>5. CASE m # from
  <2> DEFINE k == m - 1
  <2>1. k \in Nat /\ from <= k /\ ~ (m <= k)
    BY <1>3, <1>5
  <2>2. k \notin T
    <3> HIDE DEF T, k
    <3> QED BY <1>2, <2>1
  <2>3. PICK g : IsRun(g, text, from, k, s)
    BY <2>1, <2>2
  <2> DEFINE next(q, n) == IF q = EmptyTransition THEN EmptyTransition ELSE Transition[q][text[n]]
             f == [n \in from .. m |-> IF n = m THEN next(g[n - 1], n) ELSE g[n]]
  <2>4. ASSUME NEW n \in from .. m
        PROVE  f[n] = IF n = from THEN s ELSE next(f[n - 1], n)
    <3>1. \A j \in from .. k : g[j] = IF j = from THEN s ELSE next(g[j - 1], j)
      BY <2>3 DEF IsRun
    <3>2. n # from => n - 1 \in from .. k /\ f[n - 1] = g[n - 1]
      BY <1>3, <2>4
    <3>3. n # m => n \in from .. k /\ f[n] = g[n]
      BY <1>3, <2>4
    <3>4. n = m => f[n] = next(g[n - 1], n)
      BY <2>4
    <3> HIDE DEF f, next
    <3> QED BY <1>5, <3>1, <3>2, <3>3, <3>4
  <2>5. IsRun(f, text, from, m, s)
    <3>1. f = [n \in from .. m |-> f[n]]
      OBVIOUS
    <3>2. \A n \in from .. m : f[n] = IF n = from THEN s
                                      ELSE IF f[n - 1] = EmptyTransition THEN EmptyTransition
                                      ELSE Transition[f[n - 1]][text[n]]
      BY <2>4
    <3> HIDE DEF f
    <3> QED BY <3>1, <3>2 DEF IsRun
  <2> QED BY <1>2, <2>5
<1> QED BY <1>4, <1>5

\* One byte takes a run one step.
Moves(r, text, from, end) ==
  \A n \in from .. end, m \in from .. end : m = n + 1 =>
    /\ r[n] = EmptyTransition => r[m] = EmptyTransition
    /\ r[n] # EmptyTransition => r[m] = Transition[r[n]][text[m]]

\* Where a run starts, and its steps.
LEMMA RunSteps ==
  ASSUME NEW r, NEW text, NEW from \in Nat, NEW end \in Nat, from <= end, NEW s,
         IsRun(r, text, from, end, s)
  PROVE  r[from] = s /\ Moves(r, text, from, end)
<1>1. from \in from .. end
  OBVIOUS
<1>2. r[from] = s
  BY <1>1 DEF IsRun
<1>3. ASSUME NEW n \in from .. end, NEW m \in from .. end, m = n + 1
      PROVE  /\ r[n] = EmptyTransition => r[m] = EmptyTransition
             /\ r[n] # EmptyTransition => r[m] = Transition[r[n]][text[m]]
  <2>1. m # from /\ m - 1 = n
    BY <1>3
  <2>2. r[m] = IF r[m - 1] = EmptyTransition THEN EmptyTransition
               ELSE Transition[r[m - 1]][text[m]]
    BY <2>1 DEF IsRun
  <2> QED BY <2>1, <2>2
<1> QED BY <1>2, <1>3 DEF Moves

\* An automaton that is stuck stays so.
LEMMA Stuck ==
  ASSUME NEW r, NEW text, NEW from \in Nat, NEW end \in Nat, Moves(r, text, from, end),
         NEW k \in from .. end, r[k] = EmptyTransition
  PROVE  \A m \in k .. end : r[m] = EmptyTransition
<1> DEFINE T == {m \in k .. end : r[m] # EmptyTransition}
<1>1. SUFFICES ASSUME T # {} PROVE FALSE
  OBVIOUS
<1>2. T \subseteq Nat
  OBVIOUS
<1>3. PICK m \in T : \A i \in T : m <= i
  <2> HIDE DEF T
  <2> QED BY <1>1, <1>2, LeastNat
<1>4. m # k /\ m \in k .. end /\ r[m] # EmptyTransition
  OBVIOUS
<1> DEFINE n == m - 1
<1>5. n \in k .. end /\ n \in from .. end /\ m \in from .. end /\ m = n + 1 /\ ~ (m <= n)
  BY <1>4
<1>6. n \notin T
  <2> HIDE DEF T, n
  <2> QED BY <1>3, <1>5
<1>7. r[n] = EmptyTransition
  BY <1>5, <1>6
<1> QED BY <1>4, <1>5, <1>7 DEF Moves

\* What a match has found on the way: the automaton was never stuck, and the
\* last lexeme noted is that of the last place where it accepts one.
Scanned(r, from, to, last, noted) ==
  /\ \A m \in from .. to : r[m] \in DFAStates
  /\ last = NoLexeme => \A m \in (from + 1) .. to : AcceptState[r[m]] = 0
  /\ last # NoLexeme => /\ noted \in (from + 1) .. to
                        /\ AcceptState[r[noted]] = last
                        /\ \A m \in (noted + 1) .. to : AcceptState[r[m]] = 0

\* Where a run accepts.
AcceptedIn(r, from, end) ==
  {n \in (from + 1) .. end : r[n] # EmptyTransition /\ AcceptState[r[n]] # 0}

\* An element of a set of numbers that no other exceeds.
IsGreatest(T, e) == e \in T /\ \A m \in T : m <= e

\* What a match has noted is the last place at which the run accepts, and the
\* lexeme it accepts there; or it accepts nowhere.
Found(r, from, end, last, noted) ==
  /\ last = NoLexeme => AcceptedIn(r, from, end) = {}
  /\ last # NoLexeme => /\ IsGreatest(AcceptedIn(r, from, end), noted)
                        /\ AcceptState[r[noted]] = last

\* A byte more, in a state that accepts a lexeme or in one that does not.
LEMMA ScanStep ==
  ASSUME NEW r, NEW from \in Nat, NEW to \in Nat, from <= to, NEW next, next = to + 1,
         NEW last, NEW noted, Scanned(r, from, to, last, noted), r[next] \in DFAStates
  PROVE  /\ AcceptState[r[next]] # 0 => Scanned(r, from, next, AcceptState[r[next]], next)
         /\ AcceptState[r[next]] = 0 => Scanned(r, from, next, last, noted)
<1> DEFINE q == AcceptState[r[next]]
<1>1. /\ next \in (from + 1) .. next
      /\ \A m \in from .. next : m \in from .. to \/ m = next
      /\ \A m \in (next + 1) .. next : FALSE
      /\ \A m \in (from + 1) .. next : m \in (from + 1) .. to \/ m = next
      /\ \A m \in (from + 1) .. to : m \in (from + 1) .. next
  BY SMT
<1>2. \A m \in from .. next : r[m] \in DFAStates
  BY <1>1 DEF Scanned
<1>3. q # 0 => Scanned(r, from, next, q, next)
  <2>1. q # 0 => q # NoLexeme
    BY DFAAssumption DEF NoLexeme
  <2> HIDE DEF q
  <2> QED BY <1>1, <1>2, <2>1 DEF Scanned, q
<1>4. q = 0 => Scanned(r, from, next, last, noted)
  <2>1. SUFFICES ASSUME q = 0 PROVE Scanned(r, from, next, last, noted)
    OBVIOUS
  <2>2. last = NoLexeme => \A m \in (from + 1) .. next : AcceptState[r[m]] = 0
    BY <1>1, <2>1 DEF Scanned
  <2>3. last # NoLexeme => /\ noted \in (from + 1) .. next /\ AcceptState[r[noted]] = last
                           /\ \A m \in (noted + 1) .. next : AcceptState[r[m]] = 0
    <3>1. SUFFICES ASSUME last # NoLexeme
                   PROVE  /\ noted \in (from + 1) .. next /\ AcceptState[r[noted]] = last
                          /\ \A m \in (noted + 1) .. next : AcceptState[r[m]] = 0
      OBVIOUS
    <3>2. noted \in (from + 1) .. to /\ AcceptState[r[noted]] = last
          /\ \A m \in (noted + 1) .. to : AcceptState[r[m]] = 0
      BY <3>1 DEF Scanned
    <3>3. \A m \in (noted + 1) .. next : m \in (noted + 1) .. to \/ m = next
      BY <3>2
    <3> HIDE DEF q
    <3> QED BY <1>1, <2>1, <3>2, <3>3 DEF q
  <2> QED BY <1>2, <2>2, <2>3 DEF Scanned
<1> QED BY <1>3, <1>4

\* When the automaton is stuck or the text ends, the place noted is the last
\* of all at which the run accepts, or it accepts nowhere.
LEMMA ScanEnds ==
  ASSUME NEW r, NEW text, NEW from \in Nat, NEW end \in Nat, Moves(r, text, from, end),
         NEW to \in from .. end, NEW last, NEW noted, Scanned(r, from, to, last, noted),
         NEW next, next = to + 1, to = end \/ r[next] = EmptyTransition,
         last = NoLexeme \/ last # 0
  PROVE  Found(r, from, end, last, noted)
<1>1. ASSUME NEW m \in next .. end PROVE r[m] = EmptyTransition
  <2>1. next \in from .. end /\ r[next] = EmptyTransition
    BY <1>1
  <2>2. \A i \in next .. end : r[i] = EmptyTransition
    BY <2>1, Stuck
  <2> QED BY <1>1, <2>2
<1>2. \A m \in AcceptedIn(r, from, end) : m \in (from + 1) .. to
  <2>1. ASSUME NEW m \in AcceptedIn(r, from, end) PROVE m \in (from + 1) .. to
    <3>1. m \in (from + 1) .. end /\ r[m] # EmptyTransition
      BY <2>1 DEF AcceptedIn
    <3>2. ~ (m \in next .. end)
      BY <1>1, <3>1
    <3> QED BY <3>1, <3>2
  <2> QED BY <2>1
<1>3. last = NoLexeme => AcceptedIn(r, from, end) = {}
  <2>1. SUFFICES ASSUME last = NoLexeme, NEW m \in AcceptedIn(r, from, end) PROVE FALSE
    OBVIOUS
  <2>2. m \in (from + 1) .. to /\ AcceptState[r[m]] # 0
    BY <1>2 DEF AcceptedIn
  <2> QED BY <2>1, <2>2 DEF Scanned
<1>4. ASSUME last # NoLexeme
      PROVE  /\ IsGreatest(AcceptedIn(r, from, end), noted)
             /\ AcceptState[r[noted]] = last
  <2>1. /\ noted \in (from + 1) .. to /\ AcceptState[r[noted]] = last
        /\ \A m \in (noted + 1) .. to : AcceptState[r[m]] = 0
        /\ \A m \in from .. to : r[m] \in DFAStates
    BY <1>4 DEF Scanned
  <2>2. noted \in (from + 1) .. end /\ noted \in from .. to /\ noted \in Nat
    BY <2>1
  <2>3. r[noted] # EmptyTransition
    BY <2>1, <2>2, DFAAssumption
  <2>4. noted \in AcceptedIn(r, from, end)
    BY <1>4, <2>1, <2>2, <2>3 DEF AcceptedIn
  <2>5. ASSUME NEW m \in AcceptedIn(r, from, end) PROVE m <= noted
    <3>1. m \in (from + 1) .. to /\ AcceptState[r[m]] # 0
      BY <1>2 DEF AcceptedIn
    <3>2. ~ (m \in (noted + 1) .. to)
      BY <2>1, <3>1
    <3> QED BY <2>2, <3>1, <3>2
  <2> QED BY <2>1, <2>4, <2>5 DEF IsGreatest
<1> QED BY <1>3, <1>4 DEF Found

(***************************************************************************)
(* The match                                                               *)
(***************************************************************************)

\* Where a text up to a position ends.
EndIn(b, text, pos) == HeadIn(b, text) + Len(TextTo(b, pos))

\* A match has followed the run from its start: its state is that at the tail,
\* and what it has noted is what the run has accepted.
Matched ==
  pc = "match" =>
    \A r : IsRun(r, input, HeadIn(buffers, input), Len(input), StartState[ExpressionStackTop]) =>
      /\ r[TailIn(buffers, input)] = state
      /\ Scanned(r, HeadIn(buffers, input), TailIn(buffers, input), lastLexemeID,
                 EndIn(buffers, input, lastTail))

\* Where the match stands, in numbers.
LEMMA MatchOffsets ==
  ASSUME Inv, pc = "match"
  PROVE  /\ KeptOf(buffers, input) /\ Ready(buffers)
         /\ HeadIn(buffers, input) \in Nat /\ TailIn(buffers, input) \in Nat /\ Len(input) \in Nat
         /\ HeadIn(buffers, input) <= TailIn(buffers, input)
         /\ TailIn(buffers, input) <= Len(input) /\ HeadIn(buffers, input) <= Len(input)
         /\ ExpressionStackTop \in Expressions /\ StartState[ExpressionStackTop] \in DFAStates
<1>1. KeptOf(buffers, input) /\ Ready(buffers)
  BY DEF Inv, Kept, Matching
<1>2. ExpressionStackTop \in Expressions /\ StartState[ExpressionStackTop] \in DFAStates
  BY <1>1, DFAAssumption DEF Inv, Typed
<1>3. PICK h, t, n : h = HeadIn(buffers, input) /\ t = TailIn(buffers, input) /\ n = Len(input)
  OBVIOUS
<1>4. h \in Nat /\ t \in Nat /\ n \in Nat /\ h <= t /\ t <= n
  BY <1>1, <1>3, OffsetFacts
<1>5. h <= n
  BY <1>4
<1> QED BY <1>1, <1>2, <1>3, <1>4, <1>5

\* A match starts with the first state of its run.
LEMMA BeginMatched ==
  ASSUME Inv, BeginLexeme
  PROVE  Matched'
<1>1. SUFFICES ASSUME pc' = "match", NEW r, NEW h, h = HeadIn(buffers', input'),
                      IsRun(r, input', h, Len(input'), StartState[ExpressionStackTop'])
               PROVE  /\ r[TailIn(buffers', input')] = state'
                      /\ Scanned(r, h, TailIn(buffers', input'), lastLexemeID',
                                 EndIn(buffers', input', lastTail'))
  BY DEF Matched
<1>2. /\ input' = input /\ ExpressionStackTop' = ExpressionStackTop
      /\ state' = StartState[ExpressionStackTop] /\ lastLexemeID' = NoLexeme
  BY <1>1 DEF BeginLexeme, Return, streamVars, expressionVars
<1>3. DropsText(Bytes, buffers, buffers') /\ KeptOf(buffers', input) /\ Ready(buffers')
  BY BeginDrops
<1>4. TailIn(buffers', input) = h
  BY <1>1, <1>2, <1>3, HeadMoves DEF Inv, Kept, BeginLexeme, Matching
<1>5. PICK n : n = Len(input)
  OBVIOUS
<1>6. h \in Nat /\ n \in Nat /\ h <= n
  BY <1>1, <1>2, <1>3, <1>4, <1>5, OffsetFacts
<1>7. PICK s : s = StartState[ExpressionStackTop]
  OBVIOUS
<1>8. IsRun(r, input, h, n, s)
  BY <1>1, <1>2, <1>5, <1>7
<1>9. r[h] = s
  BY <1>6, <1>8, RunSteps
<1>10. s \in DFAStates
  BY <1>7, DFAAssumption DEF BeginLexeme, Inv, Typed, Matching
<1>11. PICK e : e = EndIn(buffers', input', lastTail')
  OBVIOUS
<1>12. Scanned(r, h, h, NoLexeme, e)
  <2>1. (\A m \in h .. h : m = h) /\ \A m \in (h + 1) .. h : FALSE
    BY <1>6
  <2> QED BY <1>9, <1>10, <2>1 DEF Scanned
<1> QED BY <1>2, <1>4, <1>7, <1>9, <1>11, <1>12

\* A byte more takes the run a step, as it does the match.
LEMMA ByteMatched ==
  ASSUME Inv, Reader, Matched, MatchByte
  PROVE  Matched'
<1>1. SUFFICES ASSUME NEW r, NEW h, h = HeadIn(buffers', input'),
                      IsRun(r, input', h, Len(input'), StartState[ExpressionStackTop'])
               PROVE  /\ r[TailIn(buffers', input')] = state'
                      /\ Scanned(r, h, TailIn(buffers', input'), lastLexemeID',
                                 EndIn(buffers', input', lastTail'))
  BY DEF Matched
<1>2. /\ pc = "match" /\ ~ IsEOF(buffers) /\ input' = input
      /\ ExpressionStackTop' = ExpressionStackTop /\ state' = NextState
  BY DEF MatchByte, MatchEnded, streamVars, expressionVars
<1>3. /\ Extends(Bytes, buffers, buffers') /\ KeptOf(buffers', input) /\ Ready(buffers')
      /\ TokenText(buffers) \in Seq(Bytes)
      /\ TokenText(buffers') = Append(TokenText(buffers), GetByte(buffers))
      /\ TokenText(buffers') = TextTo(buffers', GetTailPos(buffers'))
  BY MatchExtends
<1>4. h = HeadIn(buffers, input)
  BY <1>1, <1>2, <1>3, HeadStays
<1>5. PICK t, n, s, next : /\ t = TailIn(buffers, input) /\ n = Len(input)
                           /\ s = StartState[ExpressionStackTop]
                           /\ next = TailIn(buffers', input)
  OBVIOUS
<1>6. /\ h \in Nat /\ t \in Nat /\ n \in Nat /\ h <= t /\ t <= n /\ h <= n
      /\ KeptOf(buffers, input) /\ Ready(buffers)
  BY <1>2, <1>4, <1>5, MatchOffsets
<1>7. next = t + 1
  <2>1. PICK x, y, ch : /\ x = TokenText(buffers) /\ y = TokenText(buffers')
                        /\ ch = GetByte(buffers)
    OBVIOUS
  <2>2. Len(y) = Len(x) + 1 /\ Len(x) \in Nat
    <3>1. y = Append(x, ch) /\ x \in Seq(Bytes) /\ ch \in Bytes
      <4>1. GetByte(buffers) \in Bytes
        BY <1>2, <1>6, ByteAtTail DEF KeptOf
      <4> QED BY <1>3, <2>1, <4>1
    <3> QED BY <3>1, AppendProperties, LenProperties
  <2>3. t = h + Len(x) /\ next = h + Len(y)
    BY <1>1, <1>2, <1>4, <1>5, <2>1 DEF TailIn
  <2> QED BY <1>6, <2>2, <2>3
<1>8. next <= n /\ next \in Nat
  BY <1>3, <1>5, OffsetFacts
<1>9. IsRun(r, input, h, n, s)
  BY <1>1, <1>2, <1>5
<1>10. PICK last, e : last = lastLexemeID /\ e = EndIn(buffers, input, lastTail)
  OBVIOUS
<1>11. r[t] = state /\ Scanned(r, h, t, last, e)
  BY <1>2, <1>4, <1>5, <1>9, <1>10 DEF Matched
<1>12. NextState \in DFAStates /\ state \in DFAStates
  BY <1>2, NextStateType DEF Inv, Matching
<1>13. r[next] = NextState
  <2>1. Moves(r, input, h, n)
    BY <1>6, <1>9, RunSteps
  <2>2. t \in h .. n /\ next \in h .. n
    BY <1>6, <1>7, <1>8
  <2>3. r[t] # EmptyTransition => r[next] = Transition[r[t]][input[next]]
    BY <1>7, <2>1, <2>2 DEF Moves
  <2>4. Character = input[next]
    <3>1. Character = GetByte(buffers)
      BY <1>2 DEF Reader
    <3>2. GetByte(buffers) = input[t + 1]
      BY <1>2, <1>5, <1>6, OffsetFacts
    <3> QED BY <1>7, <3>1, <3>2
  <2> QED BY <1>11, <1>12, <2>3, <2>4, DFAAssumption DEF NextState
<1>14. /\ AcceptState[r[next]] # 0 => Scanned(r, h, next, AcceptState[r[next]], next)
       /\ AcceptState[r[next]] = 0 => Scanned(r, h, next, last, e)
  <2>1. r[next] \in DFAStates
    BY <1>12, <1>13
  <2> QED BY <1>6, <1>7, <1>11, <2>1, ScanStep
<1>15. CASE AcceptState[NextState] # 0
  <2>1. lastLexemeID' = AcceptState[NextState] /\ lastTail' = GetTailPos(buffers')
    BY <1>15 DEF MatchByte
  <2>2. EndIn(buffers', input', lastTail') = next
    BY <1>2, <1>3, <1>5, <2>1 DEF EndIn, TailIn
  <2> QED BY <1>2, <1>5, <1>13, <1>14, <1>15, <2>1, <2>2
<1>16. CASE AcceptState[NextState] = 0
  <2>1. lastLexemeID' = last /\ lastTail' = lastTail
    BY <1>10, <1>16 DEF MatchByte
  <2>2. Scanned(r, h, next, last, EndIn(buffers', input', lastTail'))
    <3>1. CASE last = NoLexeme
      BY <1>13, <1>14, <1>16, <3>1 DEF Scanned
    <3>2. CASE last # NoLexeme
      <4>1. PosOK(buffers, lastTail)
        BY <1>2, <1>10, <3>2 DEF Inv, Matching
      <4>2. TextTo(buffers', lastTail) = TextTo(buffers, lastTail)
        BY <1>3, <4>1 DEF Extends
      <4>3. EndIn(buffers', input', lastTail') = e
        BY <1>1, <1>2, <1>4, <1>10, <2>1, <4>2 DEF EndIn
      <4> QED BY <1>13, <1>14, <1>16, <4>3
    <3> QED BY <3>1, <3>2
  <2> QED BY <1>2, <1>5, <1>13, <2>1, <2>2
<1> QED BY <1>15, <1>16

\* The end of a match is not in another.
LEMMA RecognisedEnds ==
  ASSUME Inv, Recognised
  PROVE  pc' # "match"
<1>1. LexemeInfo[lastLexemeID].Action \in {"none", "goto", "push", "pop"}
  <2>1. lastLexemeID \in Lexemes
    BY DEF Recognised, Inv, Typed
  <2> QED BY <2>1, DFAAssumption
<1> QED BY <1>1 DEF Recognised, Return

\* Every step keeps the match to the run.
LEMMA NextMatched ==
  ASSUME Inv, Reader, Matched, [Next]_vars
  PROVE  Matched'
<1>1. ASSUME NEW stream, Create(stream) PROVE Matched'
  BY <1>1 DEF Create, Matched
<1>2. CASE GetNextToken
  BY <1>2 DEF GetNextToken, Matched
<1>3. CASE NothingRecognised
  BY <1>3 DEF NothingRecognised, Return, Matched
<1>4. CASE Recognised
  BY <1>4, RecognisedEnds DEF Matched
<1>5. CASE UNCHANGED vars
  BY <1>5 DEF vars, matchVars, expressionVars, streamVars, Matched
<1> QED BY <1>1, <1>2, <1>3, <1>4, <1>5, BeginMatched, ByteMatched DEF Next

\* What a run accepts when the match ends is what was noted.
LEMMA MatchEnds ==
  ASSUME Inv, Reader, Matched, pc = "match", MatchEnded,
         NEW h, h = HeadIn(buffers, input), NEW n, n = Len(input),
         NEW e, e = EndIn(buffers, input, lastTail),
         NEW r, IsRun(r, input, h, n, StartState[ExpressionStackTop])
  PROVE  Found(r, h, n, lastLexemeID, e)
<1>1. PICK t, s, next, last : /\ t = TailIn(buffers, input) /\ s = StartState[ExpressionStackTop]
                              /\ next = t + 1 /\ last = lastLexemeID
  OBVIOUS
<1>2. /\ h \in Nat /\ t \in Nat /\ n \in Nat /\ h <= t /\ t <= n /\ h <= n
      /\ KeptOf(buffers, input) /\ Ready(buffers)
  BY <1>1, MatchOffsets
<1>3. IsRun(r, input, h, n, s)
  BY <1>1
<1>4. r[t] = state /\ Scanned(r, h, t, last, e)
  BY <1>1 DEF Matched
<1>5. Moves(r, input, h, n)
  BY <1>2, <1>3, RunSteps
<1>6. t = n \/ r[next] = EmptyTransition
  <2>1. CASE IsEOF(buffers)
    BY <1>1, <1>2, <2>1, OffsetFacts
  <2>2. CASE ~ IsEOF(buffers)
    <3>1. t < n /\ GetByte(buffers) = input[t + 1]
      BY <1>1, <1>2, <2>2, OffsetFacts
    <3>2. Character = input[next] /\ NextState = EmptyTransition
      BY <1>1, <2>2, <3>1 DEF Reader, MatchEnded
    <3>3. t \in h .. n /\ next \in h .. n
      BY <1>1, <1>2, <3>1
    <3>4. r[t] # EmptyTransition
      BY <1>4, DFAAssumption DEF Inv, Matching
    <3>5. r[next] = Transition[r[t]][input[next]]
      BY <1>1, <1>5, <3>3, <3>4 DEF Moves
    <3> QED BY <1>4, <3>2, <3>5 DEF NextState
  <2> QED BY <2>1, <2>2
<1>7. t \in h .. n
  BY <1>2
<1>8. last = NoLexeme \/ last # 0
  BY <1>1, DFAAssumption DEF Inv, Typed
<1>9. next = t + 1 /\ h \in Nat /\ n \in Nat
  BY <1>1, <1>2
<1>10. PICK text : text = input
  OBVIOUS
<1>11. Moves(r, text, h, n) /\ Scanned(r, h, t, last, e)
  BY <1>4, <1>5, <1>10
<1>12. Found(r, h, n, last, e)
  BY <1>6, <1>7, <1>8, <1>9, <1>11, ScanEnds
<1> QED BY <1>1, <1>12

(***************************************************************************)
(* The steps of MaximalMunch                                               *)
(***************************************************************************)

\* How much of the input is taken.
Taken == IF ~ Ready(buffers) THEN 0
         ELSE IF pc = "match" THEN HeadIn(buffers, input) ELSE TailIn(buffers, input)

\* What MaximalMunch is instantiated with.
TakenBefore == IF ~ Ready(buffers) THEN 0 ELSE IF pc = "match" THEN HeadOffset ELSE TailOffset

\* The two are the same, before a step
LEMMA TakenIs ==
  ASSUME Inv
  PROVE  TakenBefore = Taken
<1>1. CASE Ready(buffers)
  <2>1. KeptOf(buffers, input)
    BY DEF Inv, Kept
  <2>2. HeadOffset = HeadIn(buffers, input)
    BY <1>1, <2>1, HeadOffsetIs DEF HeadOffset, Delivered
  <2> QED BY <1>1, <2>2 DEF Taken, TakenBefore, TailOffset, TailIn
<1>2. CASE ~ Ready(buffers)
  BY <1>2 DEF Taken, TakenBefore
<1> QED BY <1>1, <1>2

\* and after it.
LEMMA TakenIsThen ==
  ASSUME Inv'
  PROVE  TakenBefore' = Taken'
<1>1. CASE Ready(buffers')
  <2>1. KeptOf(buffers', input')
    BY DEF Inv, Kept
  <2>2. HeadOffset' = HeadIn(buffers', input')
    <3>1. PICK b, text : b = buffers' /\ text = input'
      OBVIOUS
    <3>2. Len(text) - Len(b.Left) - Len(FlattenSeq(b.Chain)) + b.HeadAt = HeadIn(b, text)
      BY <1>1, <2>1, <3>1, HeadOffsetIs
    <3> QED BY <3>1, <3>2 DEF HeadOffset, Delivered
  <2> QED BY <1>1, <2>2 DEF Taken, TakenBefore, TailOffset, TailIn
<1>2. CASE ~ Ready(buffers')
  BY <1>2 DEF Taken, TakenBefore
<1> QED BY <1>1, <1>2

\* The steps of MaximalMunch, on what is taken before and after.
LEMMA MunchSteps ==
  /\ Munch!Init <=> /\ input = <<>> /\ TakenBefore = 0 /\ ExpressionStack = <<>>
                    /\ ExpressionStackTop = EmptyTransition
                    /\ token.Code = 1 /\ token.Str = <<>>
  /\ Munch!Attach <=>
       /\ input' \in (UNION {Inputs[n] : n \in DOMAIN Inputs}) \union {<<>>}
       /\ TakenBefore' = 0
       /\ <<ExpressionStack', ExpressionStackTop'>>
            \in {<<ExpressionStack, ExpressionStackTop>>, << <<>>, 0 >>}
       /\ token'.Code = 1 /\ token'.Str = <<>>
  /\ Munch!EndOfInput <=>
       /\ TakenBefore = Len(input) /\ token'.Code = 1 /\ token'.Str = <<>>
       /\ input' = input /\ TakenBefore' = TakenBefore
       /\ UNCHANGED <<ExpressionStack, ExpressionStackTop>>
  /\ Munch!Unrecognised <=>
       /\ TakenBefore < Len(input) /\ Munch!Accepted = {}
       /\ token'.Code = 0 /\ token'.Str = SubSeq(input, TakenBefore + 1, TakenBefore + 1)
       /\ TakenBefore' = TakenBefore + 1
       /\ UNCHANGED <<input, ExpressionStack, ExpressionStackTop>>
<1>2. Munch!Init <=> /\ input = <<>> /\ TakenBefore = 0 /\ ExpressionStack = <<>>
                    /\ ExpressionStackTop = EmptyTransition
                    /\ token.Code = 1 /\ token.Str = <<>>
  BY DEF Munch!Init, Munch!NoToken, TakenBefore
<1>3. Munch!Attach <=>
       /\ input' \in (UNION {Inputs[n] : n \in DOMAIN Inputs}) \union {<<>>}
       /\ TakenBefore' = 0
       /\ <<ExpressionStack', ExpressionStackTop'>>
            \in {<<ExpressionStack, ExpressionStackTop>>, << <<>>, 0 >>}
       /\ token'.Code = 1 /\ token'.Str = <<>>
  <2>1. [Code |-> token'.Code, Str |-> token'.Str] = [Code |-> 1, Str |-> <<>>]
          <=> token'.Code = 1 /\ token'.Str = <<>>
    OBVIOUS
  <2> DEFINE Streams == UNION {Inputs[n] : n \in DOMAIN Inputs}
             Old == <<ExpressionStack, ExpressionStackTop>>
             New == <<ExpressionStack', ExpressionStackTop'>>
  <2>2. Munch!Attach <=> /\ input' \in Streams \union {<<>>}
                         /\ TakenBefore' = 0
                         /\ New \in {Old, << <<>>, 0 >>}
                         /\ [Code |-> token'.Code, Str |-> token'.Str] = [Code |-> 1, Str |-> <<>>]
    BY DEF Munch!Attach, Munch!NoToken, TakenBefore
  <2> QED BY <2>1, <2>2
<1>4. Munch!EndOfInput <=>
       /\ TakenBefore = Len(input) /\ token'.Code = 1 /\ token'.Str = <<>>
       /\ input' = input /\ TakenBefore' = TakenBefore
       /\ UNCHANGED <<ExpressionStack, ExpressionStackTop>>
  BY DEF Munch!EndOfInput, TakenBefore
<1>5. Munch!Unrecognised <=>
       /\ TakenBefore < Len(input) /\ Munch!Accepted = {}
       /\ token'.Code = 0 /\ token'.Str = SubSeq(input, TakenBefore + 1, TakenBefore + 1)
       /\ TakenBefore' = TakenBefore + 1
       /\ UNCHANGED <<input, ExpressionStack, ExpressionStackTop>>
  BY DEF Munch!Unrecognised, Munch!Piece, TakenBefore
<1> QED BY <1>2, <1>3, <1>4, <1>5

\* The states of MaximalMunch are a run, and it accepts where the run does.
LEMMA MunchRun ==
  ASSUME TakenBefore \in Nat, Len(input) \in Nat, TakenBefore <= Len(input)
  PROVE  /\ IsRun(Munch!StateAfter, input, TakenBefore, Len(input), StartState[ExpressionStackTop])
         /\ Munch!Accepted = AcceptedIn(Munch!StateAfter, TakenBefore, Len(input))
<1> DEFINE s == StartState[ExpressionStackTop]
           n == Len(input)
           f == CHOOSE r : IsRun(r, input, TakenBefore, n, s)
<1>1. Munch!StateAfter = f
  BY DEF Munch!StateAfter, IsRun, TakenBefore
<1>2. \E r : IsRun(r, input, TakenBefore, n, s)
  BY RunsExist
<1>3. IsRun(f, input, TakenBefore, n, s)
  BY <1>2
<1>4. Munch!Accepted = AcceptedIn(Munch!StateAfter, TakenBefore, n)
  BY DEF Munch!Accepted, AcceptedIn, TakenBefore
<1> QED BY <1>1, <1>3, <1>4

\* The longest piece is taken.
LEMMA MunchLongest ==
  ASSUME NEW e, IsGreatest(Munch!Accepted, e), TakenBefore' = e, input' = input,
         NEW lexeme, lexeme = LexemeInfo[AcceptState[Munch!StateAfter[e]]],
         NEW failed, failed = (lexeme.Action = "pop" /\ ExpressionStack = <<>>),
         ExpressionStack'
           = CASE lexeme.Action = "push" -> Append(ExpressionStack, ExpressionStackTop)
               [] lexeme.Action = "pop" /\ ~ failed ->
                    SubSeq(ExpressionStack, 1, Len(ExpressionStack) - 1)
               [] OTHER -> ExpressionStack,
         ExpressionStackTop'
           = CASE lexeme.Action \in {"push", "goto"} -> lexeme.Value
               [] lexeme.Action = "pop" -> IF failed THEN 0
                                           ELSE ExpressionStack[Len(ExpressionStack)]
               [] OTHER -> ExpressionStackTop,
         [Code |-> token'.Code, Str |-> token'.Str]
           = IF failed THEN [Code |-> 0, Str |-> SubSeq(input, TakenBefore + 1, e)]
             ELSE IF lexeme.TokenCode = 0 THEN [Code |-> token.Code, Str |-> token.Str]
             ELSE [Code |-> lexeme.TokenCode, Str |-> SubSeq(input, TakenBefore + 1, e)]
  PROVE  Munch!Longest
BY DEF IsGreatest, Munch!Longest, Munch!Piece, TakenBefore

\* A stutter of MaximalMunch.
LEMMA MunchStutters ==
  ASSUME input' = input, TakenBefore' = TakenBefore, token' = token,
         UNCHANGED <<ExpressionStack, ExpressionStackTop>>
  PROVE  UNCHANGED Munch!vars
BY DEF Munch!vars, TakenBefore

\* A tokenizer is attached to a stream at its first byte.
LEMMA CreateMunches ==
  ASSUME Inv, Inv', streams < MaxStreams,
         NEW stream \in Inputs[streams + 1] \union {NoStream}, Create(stream)
  PROVE  Munch!Attach
<1>1. /\ buffers' = SetInputStream(buffers, stream) /\ pc' = "idle"
      /\ input' = IF Ready(buffers') THEN stream ELSE <<>>
      /\ token' = NoToken
  BY DEF Create
<1>2. streams + 1 \in DOMAIN Inputs
  <2>1. Len(Inputs) \in Nat /\ DOMAIN Inputs = 1 .. Len(Inputs)
    BY StreamsAssumption, LenProperties
  <2> QED BY <2>1 DEF MaxStreams, Inv, Typed
<1>3. stream # NoStream => stream \in Seq(Bytes)
  <2>1. Inputs[streams + 1] \in SUBSET Seq(Bytes)
    BY <1>2, StreamsAssumption, ElementOfSeq
  <2> QED BY <2>1
<1>4. BufInv(Bytes, buffers)
  BY DEF Inv, Kept, KeptOf
<1>5. Ready(buffers') => /\ stream # NoStream /\ Contents(buffers') = stream
                         /\ buffers'.HeadAt = 0 /\ TokenText(buffers') = <<>>
  <2>1. PICK t : t = buffers'
    OBVIOUS
  <2>2. Ready(t) => /\ stream # NoStream /\ Contents(t) = stream
                    /\ t.HeadAt = 0 /\ TokenText(t) = <<>>
    BY <1>1, <1>3, <1>4, <2>1, SetInputStreamFacts
  <2> QED BY <2>1, <2>2
<1>6. Taken' = 0
  <2>1. CASE Ready(buffers')
    <3>1. PICK n : n = Len(stream)
      OBVIOUS
    <3>2. n \in Nat
      BY <1>3, <1>5, <2>1, <3>1, LenProperties
    <3>3. HeadIn(buffers', input') = n - n + 0 /\ Len(TokenText(buffers')) = 0
      BY <1>1, <1>5, <2>1, <3>1 DEF HeadIn
    <3>4. HeadIn(buffers', input') = 0
      BY <3>2, <3>3
    <3>5. TailIn(buffers', input') = 0
      BY <3>3, <3>4 DEF TailIn
    <3> QED BY <1>1, <2>1, <3>5 DEF Taken
  <2>2. CASE ~ Ready(buffers')
    BY <2>2 DEF Taken
  <2> QED BY <2>1, <2>2
<1>7. TakenBefore' = 0
  BY <1>6, TakenIsThen
<1>8. input' \in (UNION {Inputs[n] : n \in DOMAIN Inputs}) \union {<<>>}
  BY <1>1, <1>2, <1>5
<1>9. <<ExpressionStack', ExpressionStackTop'>>
        \in {<<ExpressionStack, ExpressionStackTop>>, << <<>>, 0 >>}
  BY DEF Create, ResetExpressions, expressionVars
<1>10. token'.Code = 1 /\ token'.Str = <<>>
  BY <1>1 DEF NoToken, TokenEOF
<1> QED BY <1>7, <1>8, <1>9, <1>10, MunchSteps

\* Asking for a token takes nothing.
LEMMA GetNextTokenMunches ==
  ASSUME Inv, Inv', GetNextToken
  PROVE  UNCHANGED Munch!vars
<1>1. /\ buffers' = buffers /\ input' = input /\ token' = token /\ pc = "idle" /\ pc' = "begin"
      /\ UNCHANGED <<ExpressionStack, ExpressionStackTop>>
  BY DEF GetNextToken, streamVars, expressionVars
<1>2. TakenBefore' = TakenBefore
  BY <1>1, TakenIs, TakenIsThen DEF Taken
<1> QED BY <1>1, <1>2, MunchStutters

\* A lexeme is begun where the last one ended, unless the input ends there.
LEMMA BeginMunches ==
  ASSUME Inv, Inv', BeginLexeme
  PROVE  Munch!EndOfInput \/ UNCHANGED Munch!vars
<1>1. /\ input' = input /\ pc = "begin" /\ Ready(buffers)
      /\ UNCHANGED <<ExpressionStack, ExpressionStackTop>>
  BY DEF BeginLexeme, streamVars, expressionVars, Inv, Matching
<1>2. DropsText(Bytes, buffers, buffers') /\ KeptOf(buffers', input) /\ Ready(buffers')
  BY BeginDrops
<1>3. /\ HeadIn(buffers', input) = TailIn(buffers, input)
      /\ TailIn(buffers', input) = TailIn(buffers, input)
  BY <1>1, <1>2, HeadMoves DEF Inv, Kept
<1>4. TakenBefore = TailIn(buffers, input) /\ TakenBefore' = TakenBefore
  BY <1>1, <1>2, <1>3, TakenIs, TakenIsThen DEF Taken
<1>5. CASE IsEOF(buffers')
  <2>1. TakenBefore = Len(input)
    BY <1>2, <1>3, <1>4, <1>5, OffsetFacts
  <2>2. token'.Code = 1 /\ token'.Str = <<>>
    BY <1>2, <1>5 DEF BeginLexeme, Return, TokenEOF, DropsText
  <2> QED BY <1>1, <1>4, <2>1, <2>2, MunchSteps
<1>6. CASE ~ IsEOF(buffers')
  <2>1. token' = token
    BY <1>6 DEF BeginLexeme
  <2> QED BY <1>1, <1>4, <2>1, MunchStutters
<1> QED BY <1>5, <1>6

\* A match takes nothing while it goes on.
LEMMA ByteMunches ==
  ASSUME Inv, Inv', MatchByte
  PROVE  UNCHANGED Munch!vars
<1>1. /\ input' = input /\ token' = token /\ pc = "match" /\ pc' = "match"
      /\ UNCHANGED <<ExpressionStack, ExpressionStackTop>> /\ Ready(buffers)
  BY DEF MatchByte, streamVars, expressionVars, Inv, Matching
<1>2. Extends(Bytes, buffers, buffers') /\ Ready(buffers')
  BY MatchExtends
<1>3. HeadIn(buffers', input) = HeadIn(buffers, input)
  BY <1>2, HeadStays
<1>4. TakenBefore' = TakenBefore
  BY <1>1, <1>2, <1>3, TakenIs, TakenIsThen DEF Taken
<1> QED BY <1>1, <1>4, MunchStutters

\* Where nothing is recognised one byte is taken.
LEMMA NothingMunches ==
  ASSUME Inv, Inv', Reader, Matched, NothingRecognised
  PROVE  Munch!Unrecognised
<1>1. /\ pc = "match" /\ MatchEnded /\ lastLexemeID = NoLexeme /\ input' = input
      /\ UNCHANGED <<ExpressionStack, ExpressionStackTop>>
      /\ BufInv(Bytes, buffers) /\ buffers.HeadAt < Len(buffers.Chain[1])
      /\ buffers \in Buffers(Bytes)
  BY DEF NothingRecognised, expressionVars, streamVars, Inv, Kept, KeptOf, Matching, BufInv
<1>2. PICK h, n, e : /\ h = HeadIn(buffers, input) /\ n = Len(input)
                     /\ e = EndIn(buffers, input, lastTail)
  OBVIOUS
<1>3. h \in Nat /\ n \in Nat /\ h <= n /\ KeptOf(buffers, input) /\ Ready(buffers)
  BY <1>1, <1>2, MatchOffsets
<1>4. TakenBefore = h
  BY <1>1, <1>2, <1>3, TakenIs DEF Taken
<1>5. Munch!Accepted = {}
  <2>1. PICK r : r = Munch!StateAfter
    OBVIOUS
  <2>2. /\ IsRun(r, input, h, n, StartState[ExpressionStackTop])
        /\ Munch!Accepted = AcceptedIn(r, h, n)
    BY <1>2, <1>3, <1>4, <2>1, MunchRun
  <2>3. Found(r, h, n, lastLexemeID, e)
    BY <1>1, <1>2, <2>2, MatchEnds
  <2> QED BY <1>1, <2>2, <2>3 DEF Found
<1>6. ~ (IsEOF(buffers) /\ GetTailPos(buffers) = GetHeadPos(buffers))
  <2>1. SUFFICES ASSUME IsEOF(buffers), GetTailPos(buffers) = GetHeadPos(buffers) PROVE FALSE
    OBVIOUS
  <2>2. buffers.TailBlock = 1 /\ buffers.TailAt = buffers.HeadAt
    BY <2>1 DEF GetTailPos, GetHeadPos
  <2>3. buffers.HeadAt \in Nat /\ Len(buffers.Chain[1]) \in Nat
    <3>1. 1 \in 1 .. Len(buffers.Chain)
      BY <1>1, <1>3, BufferFields
    <3> QED BY <1>1, <3>1, BufferFields
  <2> QED BY <1>1, <2>1, <2>2, <2>3 DEF IsEOF
<1>7. buffers' = AdvanceTail(StartOfMatch) /\ Return(TokenError)
  BY <1>6 DEF NothingRecognised, AfterError
<1>8. PICK back, t : back = StartOfMatch /\ t = AdvanceTail(back) /\ t = buffers'
  BY <1>7
<1>9. Extends(Bytes, buffers, back) /\ BufInv(Bytes, back) /\ Ready(back) /\ ~ IsEOF(back)
  BY <1>1, <1>3, <1>8, BackToHead DEF StartOfMatch
<1>10. /\ Extends(Bytes, back, t) /\ BufInv(Bytes, t)
       /\ TokenText(t) = Append(TokenText(back), GetByte(back))
  BY <1>8, <1>9, AdvanceTailFacts
<1>11. KeptOf(t, input) /\ Ready(t)
  BY <1>3, <1>9, <1>10, KeptExtends
<1>12. TokenText(back) = <<>>
  <2>1. PICK pos : pos = GetHeadPos(buffers)
    OBVIOUS
  <2>2. PosOK(buffers, pos)
    <3>1. 1 \in 1 .. Len(buffers.Chain)
      BY <1>1, <1>3, BufferFields
    <3>2. buffers.HeadAt \in Nat /\ Len(buffers.Chain[1]) \in Nat
      BY <1>1, <3>1, BufferFields
    <3>3. pos.Block = 1 /\ pos.At = buffers.HeadAt
      BY <2>1 DEF GetHeadPos
    <3> QED BY <1>1, <3>1, <3>2, <3>3 DEF PosOK
  <2>3. TextTo(buffers, pos) = <<>>
    BY <1>1, <2>1, <2>2, TextAtHead
  <2> QED BY <1>8, <2>1, <2>3 DEF TextTo, StartOfMatch
<1>13. HeadIn(t, input) = h /\ TailIn(t, input) = h + 1
  <2>1. HeadIn(t, input) = h
    BY <1>2, <1>9, <1>10, HeadStays
  <2>2. PICK ch : ch = GetByte(back)
    OBVIOUS
  <2>3. TokenText(t) = <<ch>>
    BY <1>10, <1>12, <2>2
  <2>4. Len(TokenText(t)) = 1
    BY <2>3
  <2> QED BY <2>1, <2>4 DEF TailIn
<1>14. h + 1 <= n /\ TokenText(t) = SubSeq(input, h + 1, h + 1)
  BY <1>2, <1>11, <1>13, OffsetFacts
<1>15. TakenBefore' = h + 1
  BY <1>1, <1>7, <1>8, <1>11, <1>13, TakenIsThen DEF Taken, Return
<1>16. token'.Code = 0 /\ token'.Str = SubSeq(input, h + 1, h + 1)
  BY <1>7, <1>8, <1>14 DEF Return, TokenError
<1>17. h < n
  BY <1>3, <1>14
<1> QED BY <1>1, <1>2, <1>4, <1>5, <1>15, <1>16, <1>17, MunchSteps

\* Where a lexeme is recognised it is the longest.
LEMMA RecognisedMunches ==
  ASSUME Inv, Inv', Reader, Matched, Recognised
  PROVE  Munch!Longest
<1>1. /\ pc = "match" /\ MatchEnded /\ lastLexemeID # NoLexeme /\ input' = input
      /\ HeadIn(buffers', input) = HeadIn(buffers, input)
      /\ KeptOf(buffers', input) /\ Ready(buffers')
      /\ TokenText(buffers') = TextTo(buffers, lastTail)
  BY RecognisedExtends, HeadStays DEF Recognised, streamVars
<1>2. PICK h, n, e : /\ h = HeadIn(buffers, input) /\ n = Len(input)
                     /\ e = EndIn(buffers, input, lastTail)
  OBVIOUS
<1>3. h \in Nat /\ n \in Nat /\ h <= n /\ KeptOf(buffers, input) /\ Ready(buffers)
  BY <1>1, <1>2, MatchOffsets
<1>4. TakenBefore = h
  BY <1>1, <1>2, <1>3, TakenIs DEF Taken
<1>5. IsGreatest(Munch!Accepted, e) /\ AcceptState[Munch!StateAfter[e]] = lastLexemeID
  <2>1. PICK r : r = Munch!StateAfter
    OBVIOUS
  <2>2. /\ IsRun(r, input, h, n, StartState[ExpressionStackTop])
        /\ Munch!Accepted = AcceptedIn(r, h, n)
    BY <1>2, <1>3, <1>4, <2>1, MunchRun
  <2>3. Found(r, h, n, lastLexemeID, e)
    BY <1>1, <1>2, <2>2, MatchEnds
  <2> QED BY <1>1, <2>1, <2>2, <2>3 DEF Found
<1>6. TailIn(buffers', input) = e /\ HeadIn(buffers', input) = h
  BY <1>1, <1>2 DEF EndIn, TailIn
<1>7. TokenText(buffers') = SubSeq(input, h + 1, e)
  BY <1>1, <1>6, OffsetFacts
<1>8. TakenBefore' = e
  BY <1>1, <1>6, RecognisedEnds, TakenIsThen DEF Taken
<1>9. PICK lexeme : lexeme = LexemeInfo[lastLexemeID]
  OBVIOUS
<1>10. /\ lexeme.Action \in {"none", "goto", "push", "pop"}
       /\ [Code |-> token'.Code, Str |-> token'.Str] = [Code |-> token.Code, Str |-> token.Str]
            <=> token'.Code = token.Code /\ token'.Str = token.Str
  <2>1. lastLexemeID \in Lexemes
    BY DEF Recognised, Inv, Typed
  <2> QED BY <1>9, <2>1, DFAAssumption
<1>11. PICK failed : failed = (lexeme.Action = "pop" /\ ExpressionStack = <<>>)
  OBVIOUS
<1> DEFINE Piece == SubSeq(input, TakenBefore + 1, e)
<1>12. /\ ~ failed => IF lexeme.TokenCode = 0 THEN token' = token
                      ELSE token'.Code = lexeme.TokenCode /\ token'.Str = Piece
       /\ failed => token'.Code = 0 /\ token'.Str = Piece
  <2>2. \A code : Return(code) => token'.Code = code /\ token'.Str = Piece
    <3>1. Piece = TokenText(buffers')
      BY <1>4, <1>7
    <3> HIDE DEF Piece
    <3> QED BY <3>1 DEF Return
  <2>3. CASE failed
    <3>1. lexeme.Action = "pop" /\ ExpressionStack = <<>>
      BY <1>11, <2>3
    <3>2. Return(0)
      BY <1>9, <3>1 DEF Recognised, TokenError
    <3> QED BY <2>2, <2>3, <3>2
  <2>4. CASE ~ failed
    <3>1. ~ (lexeme.Action = "pop" /\ ExpressionStack = <<>>)
      BY <1>11, <2>4
    <3>2. IF lexeme.TokenCode = 0 THEN pc' = "begin" /\ UNCHANGED token
          ELSE Return(lexeme.TokenCode)
      BY <1>9, <1>10, <3>1 DEF Recognised
    <3> QED BY <2>2, <2>4, <3>2
  <2> QED BY <2>3, <2>4
<1>13. ExpressionStack'
         = CASE lexeme.Action = "push" -> Append(ExpressionStack, ExpressionStackTop)
             [] lexeme.Action = "pop" /\ ~ failed ->
                  SubSeq(ExpressionStack, 1, Len(ExpressionStack) - 1)
             [] OTHER -> ExpressionStack
  BY <1>9, <1>10, <1>11 DEF Recognised, expressionVars, Front
<1>14. ExpressionStackTop'
         = CASE lexeme.Action \in {"push", "goto"} -> lexeme.Value
             [] lexeme.Action = "pop" -> IF failed THEN 0
                                         ELSE ExpressionStack[Len(ExpressionStack)]
             [] OTHER -> ExpressionStackTop
  BY <1>9, <1>10, <1>11 DEF Recognised, expressionVars, Last
<1>15. [Code |-> token'.Code, Str |-> token'.Str]
         = IF failed THEN [Code |-> 0, Str |-> Piece]
           ELSE IF lexeme.TokenCode = 0 THEN [Code |-> token.Code, Str |-> token.Str]
           ELSE [Code |-> lexeme.TokenCode, Str |-> Piece]
  <2> HIDE DEF Piece
  <2> QED BY <1>12
<1>16. lexeme = LexemeInfo[AcceptState[Munch!StateAfter[e]]]
  BY <1>5, <1>9
<1> QED BY <1>1, <1>5, <1>8, <1>11, <1>13, <1>14, <1>15, <1>16, MunchLongest

\* Each token is the longest piece of the input that the automaton accepts
\* where the one before it ended, or one byte where it accepts none, in the
\* expression on top of the stack: how GetNextToken cuts its input into blocks,
\* looks ahead and sets its tail back makes no difference to what it returns.
THEOREM LongestPieces ==
  ASSUME IgnoredGoOn
  PROVE  Spec => MunchSpec
<1>1. Init => Reader /\ Matched /\ Munch!Init
  <2>1. SUFFICES ASSUME Init PROVE Reader /\ Matched /\ Munch!Init
    OBVIOUS
  <2>2. Reader /\ Matched
    BY <2>1 DEF Init, Reader, Matched
  <2>3. ~ Ready(buffers)
    BY <2>1 DEF Init, NoBuffers, Ready
  <2>4. TakenBefore = 0
    BY <2>3 DEF TakenBefore
  <2>5. Munch!Init
    BY <2>1, <2>4, MunchSteps DEF Init, NoToken, TokenEOF
  <2> QED BY <2>2, <2>5
<1>2. Inv /\ Reader /\ Matched /\ [Next]_vars => Reader' /\ Matched'
  BY NextReader, NextMatched
<1>3. Inv /\ Inv' /\ Reader /\ Matched /\ [Next]_vars => [Munch!Next]_(Munch!vars)
  <2>1. SUFFICES ASSUME Inv, Inv', Reader, Matched, [Next]_vars
                 PROVE  Munch!Next \/ UNCHANGED Munch!vars
    OBVIOUS
  <2>2. CASE UNCHANGED vars
    <3>1. UNCHANGED <<buffers, pc, input, token, ExpressionStack, ExpressionStackTop>>
      BY <2>2 DEF vars, expressionVars, streamVars
    <3>2. TakenBefore' = TakenBefore
      BY <2>1, <3>1, TakenIs, TakenIsThen DEF Taken
    <3> QED BY <3>1, <3>2, MunchStutters
  <2> QED BY <2>1, <2>2, CreateMunches, GetNextTokenMunches, BeginMunches, ByteMunches,
             NothingMunches, RecognisedMunches DEF Next, Munch!Next
<1> QED BY Invariance, <1>1, <1>2, <1>3, PTL DEF Spec, MunchSpec, Munch!Spec
=============================================================================
