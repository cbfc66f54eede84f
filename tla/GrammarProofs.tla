---------------------------- MODULE GrammarProofs ----------------------------
(***************************************************************************)
(* What is proved of Grammar for every list of grammars and every type of  *)
(* table. The invariant GInv is inductive: InitGInv and one lemma Step...  *)
(* for every action show it, and the theorems at the end follow from it.   *)
(*                                                                         *)
(* Its parts lean on each other. That a lookahead finds the item it moves  *)
(* to needs MovedItems; that no state loses it while states are merged     *)
(* needs MovedOn, for the set a search has not placed yet; that a finished *)
(* state has the shifts of its items needs Shifts; and what the reduce     *)
(* actions make of these needs Decided, one item after another.            *)
(***************************************************************************)
EXTENDS GrammarInvariants, FiniteSetTheorems, SequenceTheorems, WellFoundedInduction, TLAPS

\* A set of numbers that is not empty has a least one.
LEMMA NatMin ==
  ASSUME NEW T, T \subseteq Nat, T # {}
  PROVE  /\ Min(T) \in T
         /\ \A k \in T : Min(T) <= k
<1> DEFINE R == OpToRel(<, Nat)
<1>1. IsWellFoundedOn(R, Nat)
  BY NatLessThanWellFounded
<1>2. \E x \in T : \A y \in T : ~ (<<y, x>> \in R)
  <2> HIDE DEF R
  <2> QED BY <1>1, WFMin
<1>3. PICK x \in T : \A y \in T : ~ (<<y, x>> \in R)
  BY <1>2
<1>4. \A y \in T : ~ (y < x)
  BY <1>3 DEF OpToRel
<1>5. \E m \in T : \A k \in T : m <= k
  <2> HIDE DEF R
  <2> QED BY <1>3, <1>4
<1> QED BY <1>5 DEF Min

\* What is arranged comes from the set, and all of it does.
LEMMA RankedSeq ==
  ASSUME NEW set, IsFiniteSet(set), NEW rank
  PROVE  /\ Ranked(set, rank) \in Seq(set)
         /\ ToSet(Ranked(set, rank)) = set
<1> DEFINE n == Cardinality(set)
           ranked == [k \in 1 .. n |-> CHOOSE x \in set : rank[x] = k - 1]
           chosen == CHOOSE seq \in [1 .. n -> set] : ToSet(seq) = set
<1>1. n \in Nat
  BY FS_CardinalityType
<1>2. ASSUME ToSet(ranked) = set
      PROVE  ranked \in Seq(set)
  <2>1. \A k \in 1 .. n : ranked[k] \in set
    BY <1>2 DEF ToSet
  <2>2. ranked \in [1 .. n -> set]
    BY <2>1
  <2> HIDE DEF ranked, n
  <2> QED BY <1>1, <2>2
<1>3. chosen \in [1 .. n -> set] /\ ToSet(chosen) = set
  <2>1. PICK f \in Bijection(1 .. n, set) : TRUE
    BY FS_CardinalityType DEF ExistsBijection
  <2>2. f \in [1 .. n -> set] /\ ToSet(f) = set
    BY <2>1 DEF Bijection, Surjection, Injection, ToSet
  <2> QED BY <2>2
<1>4. Ranked(set, rank) = IF ToSet(ranked) = set THEN ranked ELSE chosen
  BY DEF Ranked
<1> HIDE DEF ranked, chosen, n
<1>5. chosen \in Seq(set)
  BY <1>1, <1>3
<1> QED BY <1>2, <1>3, <1>4, <1>5

\* An element of a sequence is one of its set.
LEMMA ElementToSet ==
  ASSUME NEW s, NEW i \in DOMAIN s
  PROVE  s[i] \in ToSet(s)
BY DEF ToSet

\* The length of a table.
LEMMA TableLen ==
  ASSUME NEW n \in Nat, NEW f, f = [s \in 1 .. n |-> f[s]]
  PROVE  Len(f) = n /\ DOMAIN f = 1 .. n
<1> DEFINE S == {f[s] : s \in 1 .. n}
<1>1. f \in [1 .. n -> S]
  OBVIOUS
<1> HIDE DEF S
<1> QED BY <1>1

\* A row appended to a table.
LEMMA AppendTable ==
  ASSUME NEW n \in Nat, NEW f, f = [s \in 1 .. n |-> f[s]], NEW e
  PROVE  /\ Len(f) = n /\ DOMAIN f = 1 .. n
         /\ Append(f, e) = [s \in 1 .. n + 1 |-> IF s = n + 1 THEN e ELSE f[s]]
         /\ Len(Append(f, e)) = n + 1
<1> DEFINE S == {f[s] : s \in 1 .. n} \cup {e}
<1>1. f \in [1 .. n -> S]
  OBVIOUS
<1> HIDE DEF S
<1>2. f \in Seq(S) /\ e \in S
  BY <1>1 DEF S
<1>3. Len(f) = n
  BY <1>1, <1>2
<1>4. Append(f, e) \in Seq(S) /\ Len(Append(f, e)) = n + 1
  BY <1>2, <1>3
<1>5. \A s \in 1 .. n + 1 : Append(f, e)[s] = IF s = n + 1 THEN e ELSE f[s]
  BY <1>2, <1>3
<1>6. Append(f, e) = [s \in 1 .. n + 1 |-> Append(f, e)[s]]
  BY <1>4
<1> QED BY <1>1, <1>3, <1>4, <1>5, <1>6

----------------------------------------------------------------------------
\* Adding and checking productions

\* What the assumption says of the grammar that was chosen.
LEMMA InputType ==
  ASSUME input \in Inputs
  PROVE  /\ input.symbols \in Seq(Int) /\ input.starts \in Seq(Int)
         /\ AcceptingCount \in Nat \ {0}
         /\ input.decls \in Seq(Production)
<1>1. input.decls \in Seq(ToSet(input.decls)) /\ input.starts \in Seq(Int) /\ input.symbols \in Seq(Int)
  BY InputsAssumption DEF IsSymbolList
<1>2. \A d \in ToSet(input.decls) : d \in Production
  <2>1. SUFFICES ASSUME NEW d \in ToSet(input.decls) PROVE d \in Production
    OBVIOUS
  <2>2. d \in Declarations
    BY DEF Declarations
  <2>3. IsDeclaration(d)
    BY InputsAssumption
  <2>4. d.name \in DeclaredNames /\ d.actions \in DeclaredActions /\ d.overrides \in DeclaredOverrides
    BY <2>2 DEF DeclaredNames, DeclaredActions, DeclaredOverrides
  <2> QED BY <2>3, <2>4 DEF IsDeclaration, Production
<1>3. ToSet(input.decls) \subseteq Production
  BY <1>2
<1>4. AcceptingCount \in Nat \ {0}
  BY <1>1 DEF AcceptingCount
<1> QED BY <1>1, <1>3, <1>4, SeqMonotonic

\* The accepting productions.
LEMMA AcceptingType ==
  ASSUME input \in Inputs, NEW left \in Int
  PROVE  /\ CreateAcceptingProductions(left) \in Seq(Production)
         /\ Len(CreateAcceptingProductions(left)) = AcceptingCount
<1>1. AcceptingCount \in Nat \ {0} /\ input.starts \in Seq(Int)
  BY InputType
<1>2. ASSUME NEW k \in 1 .. AcceptingCount
      PROVE  AcceptingProduction(left, k) \in Production
  <2>1. (IF input.starts = <<>> THEN left ELSE input.starts[k]) \in Int
    BY <1>1 DEF AcceptingCount
  <2> DEFINE first == IF input.starts = <<>> THEN left ELSE input.starts[k]
  <2>2. first \in Int
    BY <2>1
  <2> HIDE DEF first
  <2>3. <<first>> \in Seq(Int) /\ k - 1 \in Nat /\ AcceptingMask + k - 1 \in Int
    BY <1>1, <2>2 DEF AcceptingMask
  <2>4. AcceptingProduction(left, k) =
          [name |-> "[Accept]", id |-> k - 1, left |-> AcceptingMask + k - 1, right |-> <<first>>,
           prec |-> 0, throws |-> 0, chain |-> <<>>, actions |-> <<>>, overrides |-> <<>>]
    BY DEF AcceptingProduction, first
  <2>5. <<>> \in Seq(Int) /\ <<>> \in DeclaredActions /\ <<>> \in DeclaredOverrides
    BY DEF DeclaredActions, DeclaredOverrides
  <2>6. "[Accept]" \in DeclaredNames
    BY DEF DeclaredNames
  <2> QED BY <2>3, <2>4, <2>5, <2>6 DEF Production
<1>3. CreateAcceptingProductions(left) \in [1 .. AcceptingCount -> Production]
  BY <1>2 DEF CreateAcceptingProductions
<1> QED BY <1>1, <1>3

\* Every declaration that is added stays one.
LEMMA AddedType ==
  ASSUME NEW prods \in Seq(Production), NEW count \in Nat, NEW decl \in Production
  PROVE  /\ AddProductionImpl(prods, count, decl).productions \in Seq(Production)
         /\ Len(AddProductionImpl(prods, count, decl).productions) = Len(prods) + 1
         /\ AddProductionImpl(prods, count, decl).count \in count .. count + 1
<1> DEFINE shared == SharedIds(prods, decl)
           id == IF shared = {} THEN count ELSE CHOOSE n \in shared : TRUE
<1>1. ASSUME NEW n \in shared
      PROVE  n \in Nat
  <2>1. PICK i \in DOMAIN prods : n = prods[i].id
    BY DEF SharedIds
  <2>2. prods[i] \in Production
    OBVIOUS
  <2> QED BY <2>1, <2>2 DEF Production
<1>2. id \in Nat
  <2> HIDE DEF shared
  <2> QED BY <1>1
<1>3. [decl EXCEPT !.id = id] \in Production
  BY <1>2 DEF Production
<1> HIDE DEF id
<1>4. AddProductionImpl(prods, count, decl) =
        [productions |-> Append(prods, [decl EXCEPT !.id = id]),
         count |-> IF shared = {} THEN count + 1 ELSE count]
  BY DEF AddProductionImpl, id
<1> QED BY <1>3, <1>4

----------------------------------------------------------------------------
\* Items

\* What is known of an item of a sequence, and of the symbol after its dot.
LEMMA ItemFacts ==
  ASSUME productions \in Seq(Production), NEW items, ItemsOK(items), NEW i \in DOMAIN items
  PROVE  /\ items[i] \in Item /\ items[i].prod \in DOMAIN productions /\ items[i].dot \in Nat
         /\ items[i].dot <= Len(Prod(items[i]).right) /\ items[i].la \subseteq Terminals
         /\ Prod(items[i]) \in Production
         /\ ~AtEnd(items[i]) => items[i].dot + 1 \in DOMAIN Prod(items[i]).right
         /\ ~AtEnd(items[i]) => AfterDot(items[i]) \in Int
<1>1. items[i] \in Item /\ items[i].dot <= Len(Prod(items[i]).right)
  BY DEF ItemsOK
<1>2. items[i].prod \in DOMAIN productions /\ items[i].dot \in Nat /\ items[i].la \subseteq Terminals
  BY <1>1 DEF Item
<1>3. Prod(items[i]) \in Production
  BY <1>2 DEF Prod
<1>4. Prod(items[i]).right \in Seq(Int)
  BY <1>3 DEF Production
<1> QED BY <1>1, <1>2, <1>3, <1>4 DEF AtEnd, AfterDot

\* The state that was found is one from searchIndex on, and is the set under
\* construction but for lookaheads.
LEMMA FoundFacts ==
  ASSUME canonicalSet \in Seq(Seq(Item)), searchIndex \in Nat \ {0}, FoundState # 0
  PROVE  /\ FoundState \in DOMAIN canonicalSet /\ FoundState >= searchIndex
         /\ SameSet(gotoSet, canonicalSet[FoundState], FALSE)
<1> DEFINE I == {i \in searchIndex .. Len(canonicalSet) : SameSet(gotoSet, canonicalSet[i], type = "LR")}
<1>1. FoundState = IF I # {} THEN Min(I) ELSE 0
  BY DEF FoundState, SelectInSubSeq
<1>2. I \subseteq Nat
  OBVIOUS
<1>3. FoundState \in I
  <2> HIDE DEF I
  <2> QED BY <1>1, <1>2, NatMin
<1>4. FoundState \in searchIndex .. Len(canonicalSet)
  BY <1>3
<1>5. SameSet(gotoSet, canonicalSet[FoundState], FALSE)
  BY <1>3 DEF SameSet
<1> HIDE DEF I
<1>6. FoundState \in DOMAIN canonicalSet /\ FoundState >= searchIndex
  BY <1>4
<1> QED BY <1>5, <1>6

\* The index of an item that is among those of a sequence.
LEMMA SelectFacts ==
  ASSUME NEW n \in Nat, NEW items, Len(items) = n, NEW item,
         \E j \in 1 .. n : SameCore(items[j], item)
  PROVE  Place(items, item) \in 1 .. n
<1> DEFINE I == {j \in 1 .. Len(items) : SameCore(items[j], item)}
<1>1. Place(items, item) = IF I # {} THEN Min(I) ELSE 0
  BY DEF Place, SelectInSeq
<1>2. I \subseteq Nat /\ I # {}
  OBVIOUS
<1> HIDE DEF I
<1>3. Min(I) \in I
  BY <1>2, NatMin
<1> QED BY <1>1, <1>2, <1>3 DEF I

\* Where every right side is of declared symbols, so is what First finds.
LEMMA FirstDeclared ==
  ASSUME \A i \in DOMAIN productions : ToSet(productions[i].right) \subseteq ToSet(symbolList),
         NEW symbols, ToSet(symbols) \subseteq ToSet(symbolList)
  PROVE  First(symbols).terminals \subseteq Terminals
<1>1. ASSUME NEW seq, ToSet(seq) \subseteq ToSet(symbolList)
      PROVE  Visible(seq) \subseteq ToSet(symbolList)
  BY <1>1 DEF Visible, ToSet
<1>2. FirstSymbols(symbols) \subseteq ToSet(symbolList)
  <2>1. \A i \in DOMAIN productions : Visible(productions[i].right) \subseteq ToSet(symbolList)
    BY <1>1
  <2>2. Visible(symbols) \subseteq ToSet(symbolList)
    BY <1>1
  <2>3. ASSUME NEW s \in FirstSymbols(symbols), s \notin Visible(symbols)
        PROVE  \E i \in DOMAIN productions : s \in Visible(productions[i].right)
    <3> DEFINE N == Reached(Visible(symbols), [i \in DOMAIN productions |-> Visible(productions[i].right)])
               of(n) == {j \in DOMAIN productions : productions[j].left = n}
               seen(n) == UNION {Visible(productions[i].right) : i \in of(n)}
    <3>1. FirstSymbols(symbols) = Visible(symbols) \cup UNION {seen(n) : n \in N}
      BY DEF FirstSymbols
    <3> HIDE DEF N, seen
    <3>2. PICK n \in N : s \in seen(n)
      BY <2>3, <3>1
    <3>3. PICK i \in of(n) : s \in Visible(productions[i].right)
      BY <3>2 DEF seen
    <3> QED BY <3>3
  <2> QED BY <2>1, <2>2, <2>3
<1> QED BY <1>2 DEF First, Terminals

\* The lookaheads of derived items are terminals.
LEMMA DerivedLookAheadType ==
  ASSUME productions \in Seq(Production), NEW items, ItemsOK(items), NEW i \in DOMAIN items,
         \A j \in DOMAIN productions : ToSet(productions[j].right) \subseteq ToSet(symbolList)
  PROVE  DerivedLookAhead(items[i]) \subseteq Terminals
<1> DEFINE right == Prod(items[i]).right
           behind == SubSeq(right, items[i].dot + 2, Len(right))
<1>1. items[i].prod \in DOMAIN productions /\ items[i].dot \in Nat /\ items[i].la \subseteq Terminals
      /\ Prod(items[i]) \in Production
  BY ItemFacts
<1>2. right \in Seq(Int)
  BY <1>1 DEF Production
<1>3. ToSet(right) \subseteq ToSet(symbolList)
  BY <1>1 DEF Prod
<1>4. DerivedLookAhead(items[i]) =
        First(behind).terminals \cup (IF First(behind).empty THEN items[i].la ELSE {})
  BY DEF DerivedLookAhead
<1>5. ToSet(behind) \subseteq ToSet(right)
  <2> DEFINE from == items[i].dot + 2
  <2>1. from \in Nat \ {0} /\ Len(right) \in Nat /\ DOMAIN right = 1 .. Len(right)
    <3> HIDE DEF right
    <3> QED BY <1>1, <1>2
  <2>2. \A k \in from .. Len(right) : right[k] \in ToSet(right)
    <3> HIDE DEF right
    <3> QED BY <2>1 DEF ToSet
  <2> HIDE DEF right
  <2>3. behind \in Seq(ToSet(right))
    <3> HIDE DEF from
    <3>1. SubSeq(right, from, Len(right)) \in Seq(ToSet(right))
      BY <2>1, <2>2, SubSeqProperties
    <3> QED BY <3>1 DEF from
  <2> HIDE DEF behind
  <2> QED BY <2>3 DEF ToSet
<1> HIDE DEF behind, right
<1>6. First(behind).terminals \subseteq Terminals
  BY <1>3, <1>5, FirstDeclared
<1> QED BY <1>1, <1>4, <1>6

\* The productions of a nonterminal that Closure adds.
LEMMA DerivedFacts ==
  ASSUME productions \in Seq(Production), NEW left, NEW T, T \subseteq Derived(left), NEW rank
  PROVE  /\ Ranked(T, rank) \in Seq(DOMAIN productions)
         /\ ToSet(Ranked(T, rank)) = T
<1>1. IsFiniteSet(DOMAIN productions)
  BY FS_Interval
<1>2. T \subseteq DOMAIN productions
  BY DEF Derived
<1>3. IsFiniteSet(T)
  BY <1>1, <1>2, FS_Subset
<1>4. Ranked(T, rank) \in Seq(T) /\ ToSet(Ranked(T, rank)) = T
  BY <1>3, RankedSeq
<1> QED BY <1>2, <1>4, SeqMonotonic

\* The items with a symbol after the dot.
ItemsAt(items, s) == {i \in DOMAIN items : ~AtEnd(items[i]) /\ AfterDot(items[i]) = s}

\* The items with a symbol after the dot, moved over it.
LEMMA KernelFacts ==
  ASSUME productions \in Seq(Production), NEW items, ItemsOK(items), NEW s,
         NEW shifted, shifted = ItemsAt(items, s)
  PROVE  /\ ItemsOK(Kernel(items, s))
         /\ Kernel(items, s) = <<>> <=> shifted = {}
         /\ \A i \in shifted : Moved(items[i], Kernel(items, s))
<1>0. shifted = {i \in DOMAIN items : ~AtEnd(items[i]) /\ AfterDot(items[i]) = s}
  BY DEF ItemsAt
<1> USE <1>0
<1> DEFINE before(i, j) == \/ ItemBelow(items[i], items[j])
                           \/ ~ItemBelow(items[j], items[i]) /\ i < j
           order == Ranked(shifted, [x \in shifted |-> Cardinality({y \in shifted : before(y, x)})])
           moved == [k \in DOMAIN order |-> [items[order[k]] EXCEPT !.dot = @ + 1]]
<1>1. Kernel(items, s) = moved
  BY DEF Kernel, InOrder
<1>2. items \in Seq(Item)
  BY DEF ItemsOK
<1>3. order \in Seq(shifted) /\ ToSet(order) = shifted
  <2>1. IsFiniteSet(DOMAIN items)
    BY <1>2, FS_Interval
  <2>2. IsFiniteSet(shifted)
    BY <2>1, FS_Subset
  <2> QED BY <2>2, RankedSeq
<1> HIDE DEF order
<1>4. ASSUME NEW k \in DOMAIN order
      PROVE  /\ order[k] \in shifted /\ moved[k] \in Item
             /\ moved[k] = [items[order[k]] EXCEPT !.dot = @ + 1]
             /\ moved[k].dot <= Len(Prod(moved[k]).right)
  <2>1. order[k] \in shifted
    BY <1>3
  <2> DEFINE item == items[order[k]]
  <2>2. order[k] \in DOMAIN items /\ ~AtEnd(item)
    BY <2>1
  <2>3. item \in Item /\ item.dot \in Nat /\ item.dot + 1 \in DOMAIN Prod(item).right /\ Prod(item) \in Production
    BY <2>2, ItemFacts
  <2>4. moved[k] = [item EXCEPT !.dot = @ + 1]
    OBVIOUS
  <2> HIDE DEF item, moved
  <2>5. moved[k] \in Item /\ moved[k].dot = item.dot + 1 /\ moved[k].prod = item.prod
    BY <2>3, <2>4 DEF Item
  <2>6. moved[k].dot <= Len(Prod(moved[k]).right)
    <3>1. Prod(moved[k]) = Prod(item)
      BY <2>5 DEF Prod
    <3>2. Prod(item).right \in Seq(Int)
      BY <2>3 DEF Production
    <3> QED BY <2>3, <2>5, <3>1, <3>2
  <2> QED BY <2>1, <2>4, <2>5, <2>6 DEF item
<1>5. DOMAIN moved = DOMAIN order /\ DOMAIN order = 1 .. Len(order) /\ Len(order) \in Nat
  BY <1>3
<1> HIDE DEF moved
<1>6. ItemsOK(moved)
  <2>1. moved = [k \in 1 .. Len(order) |-> moved[k]]
    BY <1>5 DEF moved
  <2>2. moved \in Seq(Item)
    BY <1>4, <1>5, <2>1
  <2> QED BY <1>4, <1>5, <2>2 DEF ItemsOK
<1>7. ASSUME NEW i \in shifted
      PROVE  Moved(items[i], moved)
  <2>1. PICK k \in DOMAIN order : order[k] = i
    BY <1>3 DEF ToSet
  <2>2. moved[k] = [items[i] EXCEPT !.dot = @ + 1]
    BY <1>4, <2>1
  <2>3. SameCore(moved[k], [items[i] EXCEPT !.dot = @ + 1])
    BY <2>2 DEF SameCore, SameRule
  <2> QED BY <1>5, <2>3 DEF Moved
<1>8. moved = <<>> <=> shifted = {}
  <2>1. order = <<>> <=> shifted = {}
    BY <1>3 DEF ToSet
  <2> QED BY <1>5, <1>6, <2>1, <1>3 DEF ItemsOK
<1> QED BY <1>1, <1>6, <1>7, <1>8

\* The lookaheads to move on are each for an item of the state found.
LEMMA NewLookAheadsFacts ==
  ASSUME symbolList \in Seq(Int), ItemsOK(gotoSet), NEW found \in Nat
  PROVE  /\ NewLookAheads(found) \in Seq(Nat \X Nat \X Terminals)
         /\ \A k \in DOMAIN NewLookAheads(found) :
              NewLookAheads(found)[k][1] = found /\ NewLookAheads(found)[k][2] \in DOMAIN gotoSet
<1> DEFINE new(i) == {<<found, i, t>> : t \in gotoSet[i].la \ canonicalSet[found][i].la}
           N == UNION {new(i) : i \in DOMAIN gotoSet}
           S == (DOMAIN gotoSet) \X ToSet(symbolList)
           P == {<<found, p[1], p[2]>> : p \in S}
<1>1. \E rank : NewLookAheads(found) = Ranked(N, rank)
  BY DEF NewLookAheads, InOrder
<1>2. gotoSet \in Seq(Item) /\ \A i \in DOMAIN gotoSet : gotoSet[i] \in Item
  BY DEF ItemsOK
<1>3. N \subseteq P /\ N \subseteq Nat \X Nat \X Terminals /\ \A x \in N : x[1] = found /\ x[2] \in DOMAIN gotoSet
  <2>1. SUFFICES ASSUME NEW x \in N
                 PROVE  x \in P /\ x \in Nat \X Nat \X Terminals /\ x[1] = found /\ x[2] \in DOMAIN gotoSet
    <3> HIDE DEF N, P
    <3> QED OBVIOUS
  <2>2. PICK i \in DOMAIN gotoSet : x \in new(i)
    OBVIOUS
  <2>3. PICK t \in gotoSet[i].la : x = <<found, i, t>>
    BY <2>2
  <2>4. t \in Terminals /\ i \in Nat
    BY <1>2 DEF Item
  <2>5. t \in ToSet(symbolList)
    BY <2>4 DEF Terminals
  <2>6. x \in P
    <3>1. <<i, t>> \in S
      BY <2>5
    <3>2. <<i, t>>[1] = i /\ <<i, t>>[2] = t
      OBVIOUS
    <3> HIDE DEF S
    <3> QED BY <2>3, <3>1, <3>2
  <2> HIDE DEF N, P, S, new
  <2>7. x \in Nat \X Nat \X Terminals
    BY <2>3, <2>4
  <2>8. x[1] = found /\ x[2] = i
    BY <2>3
  <2> QED BY <2>6, <2>7, <2>8
<1>4. IsFiniteSet(P)
  <2>1. IsFiniteSet(ToSet(symbolList))
    <3>1. IsFiniteSet(DOMAIN symbolList)
      BY FS_Interval
    <3>2. symbolList \in Surjection(DOMAIN symbolList, ToSet(symbolList))
      BY DEF Surjection, ToSet
    <3> QED BY <3>1, <3>2, FS_Surjection
  <2>2. IsFiniteSet(DOMAIN gotoSet)
    BY <1>2, FS_Interval
  <2>3. IsFiniteSet(S)
    BY <2>1, <2>2, FS_Product
  <2> DEFINE f == [p \in S |-> <<found, p[1], p[2]>>]
  <2>4. f \in Surjection(S, P)
    <3> HIDE DEF S
    <3> QED BY DEF Surjection
  <2> HIDE DEF S, P, f
  <2> QED BY <2>3, <2>4, FS_Surjection
<1>5. IsFiniteSet(N)
  <2> HIDE DEF N, P
  <2> QED BY <1>3, <1>4, FS_Subset
<1>6. PICK rank : NewLookAheads(found) = Ranked(N, rank)
  BY <1>1
<1> HIDE DEF N, P
<1>7. NewLookAheads(found) \in Seq(N)
  BY <1>5, <1>6, RankedSeq
<1>8. \A k \in DOMAIN NewLookAheads(found) : NewLookAheads(found)[k] \in N
  BY <1>7
<1> QED BY <1>3, <1>7, <1>8, SeqMonotonic

----------------------------------------------------------------------------
\* The steps

\* The invariant holds before the first production is added.
LEMMA InitGInv == Init => GInv
<1> SUFFICES ASSUME Init PROVE GInv
  OBVIOUS
<1>1. input.symbols \in Seq(Int) /\ AcceptingCount \in Nat \ {0}
  BY InputType DEF Init
<1>2. TypeOK
  BY DEF Init, TypeOK, TablesOK, ItemsOK
<1>3. Added
  BY <1>1 DEF Init, Added
<1>4. Tables
  BY DEF Init, Tables, ForStates
<1>5. Positions
  BY <1>1 DEF Init, Positions, Following, Starting
<1>6. MovedItems /\ MovedOn
  BY DEF Init, MovedItems, MovedOn, Making
<1>7. Shifts /\ AllDecided /\ NoneReported
  BY DEF Init, Shifts, AllDecided, NoneReported, Making
<1> QED BY <1>2, <1>3, <1>4, <1>5, <1>6, <1>7 DEF GInv

\* Before a state is made there is nothing to keep but the productions.
LEMMA NoStates ==
  ASSUME Added', phase' \in {"add", "start", "error"}, canonicalSet' = <<>>, sourceStates' = <<>>,
         actionTable' = <<>>, gotoTable' = <<>>, gotoSet' = <<>>, lookAt' = <<>>, spread' = <<>>,
         conflicts' = {}, terminalItems' = <<>>, searchIndex' \in Nat \ {0}, Starting',
         productionCount' \in Nat, productionCount' <= Len(productions'),
         phase' = "start" => state' = 1 /\ symbol' = 1
  PROVE  GInv'
<1>1. TypeOK'
  BY DEF TypeOK, TablesOK, ItemsOK
<1>2. Tables'
  BY DEF Tables, ForStates
<1>3. Positions'
  BY DEF Positions, Following
<1>4. MovedItems' /\ MovedOn'
  BY DEF MovedItems, MovedOn
<1>5. Shifts' /\ AllDecided' /\ NoneReported'
  BY DEF Shifts, AllDecided, NoneReported
<1> QED BY <1>1, <1>2, <1>3, <1>4, <1>5 DEF GInv

\* While productions are added there is no state.
LEMMA AddingFacts ==
  ASSUME GInv, phase = "add"
  PROVE  /\ canonicalSet = <<>> /\ sourceStates = <<>> /\ actionTable = <<>> /\ gotoTable = <<>>
         /\ gotoSet = <<>> /\ lookAt = <<>> /\ spread = <<>> /\ conflicts = {} /\ terminalItems = <<>>
         /\ searchIndex \in Nat \ {0} /\ AcceptingCount \in Nat \ {0} /\ Starting
<1>1. canonicalSet = <<>> /\ AcceptingCount \in Nat \ {0}
  BY InputType DEF GInv, Added
<1>2. sourceStates = <<>> /\ actionTable = <<>> /\ gotoTable = <<>>
  BY <1>1 DEF GInv, Tables, ForStates
<1>3. gotoSet = <<>> /\ spread = <<>> /\ searchIndex \in Nat \ {0}
  BY DEF GInv, Positions
<1>4. lookAt = <<>>
  BY <1>3 DEF GInv, TypeOK
<1> QED BY <1>1, <1>2, <1>3, <1>4 DEF GInv, NoneReported, Starting

\* A production is added: it is of the form declared, and no state is there yet.
LEMMA StepAddProduction == GInv /\ AddProduction => GInv'
<1> SUFFICES ASSUME GInv, AddProduction PROVE GInv'
  OBVIOUS
<1> DEFINE decl   == input.decls[state + 1]
           first  == productionCount = 0
           accept == IF first THEN CreateAcceptingProductions(decl.left) ELSE <<>>
           added  == AddProductionImpl(productions \o accept, productionCount + Len(accept), decl)
           lefts  == [k \in DOMAIN accept |-> accept[k].left]
           eof    == IF first THEN <<TokenEOF>> ELSE <<>>
<1>1. /\ phase = "add" /\ phase' = "add" /\ symbol' = symbol /\ state' = state + 1 /\ state < Len(input.decls)
      /\ productions' = added.productions /\ productionCount' = added.count
      /\ symbolList' = (symbolList \o lefts) \o eof
      /\ UNCHANGED <<input, type, canonicalSet, sourceStates, actionTable, gotoTable, gotoSet, lookAt,
                     spread, conflicts, terminalItems, searchIndex>>
  BY DEF AddProduction, tables, closing, reducing
<1>2. /\ input \in Inputs /\ type \in Types /\ productions \in Seq(Production) /\ symbolList \in Seq(Int)
      /\ productionCount # 0 => Len(productions) >= AcceptingCount /\ TokenEOF \in ToSet(symbolList)
      /\ state \in Nat /\ symbol = 1
      /\ productionCount \in Nat /\ productionCount <= Len(productions)
  BY <1>1 DEF GInv, Added, TypeOK
<1>3. decl \in Production /\ decl.left \in Int
  <2> DEFINE decls == input.decls
  <2>1. decls \in Seq(Production)
    BY <1>2, InputType
  <2>2. state < Len(decls)
    BY <1>1
  <2> HIDE DEF decls
  <2>3. state + 1 \in DOMAIN decls
    BY <1>2, <2>1, <2>2
  <2>4. decls[state + 1] \in Production
    BY <2>1, <2>3
  <2>5. decls[state + 1].left \in Int
    BY <2>4 DEF Production
  <2> QED BY <2>4, <2>5 DEF decls
<1> HIDE DEF decl
<1>4. /\ accept \in Seq(Production)
      /\ Len(accept) = IF first THEN AcceptingCount ELSE 0
  BY <1>2, <1>3, AcceptingType
<1>5. AcceptingCount \in Nat \ {0} /\ AcceptingCount' = AcceptingCount
  BY <1>1, <1>2, InputType DEF AcceptingCount
<1> HIDE DEF accept
<1>6. productions \o accept \in Seq(Production) /\ Len(productions \o accept) = Len(productions) + Len(accept)
      /\ Len(accept) \in Nat /\ productionCount + Len(accept) \in Nat
  <2>1. accept \in Seq(Production)
    BY <1>4
  <2> HIDE DEF first
  <2> QED BY <1>2, <2>1, ConcatProperties
<1>7. /\ productions' \in Seq(Production)
      /\ Len(productions') = Len(productions) + Len(accept) + 1
      /\ productionCount' \in productionCount + Len(accept) .. productionCount + Len(accept) + 1
  BY <1>1, <1>3, <1>6, AddedType
<1> HIDE DEF added
<1>8. productionCount' \in Nat /\ productionCount' <= Len(productions')
  BY <1>2, <1>4, <1>5, <1>7
<1>9. /\ symbolList' \in Seq(Int)
      /\ TokenEOF \in ToSet(symbolList')
  <2>1. lefts \in Seq(Int)
    <3>1. accept \in Seq(Production)
      BY <1>4
    <3>2. DOMAIN accept = 1 .. Len(accept) /\ \A k \in DOMAIN accept : accept[k] \in Production
      BY <3>1
    <3>3. \A k \in DOMAIN accept : accept[k].left \in Int
      BY <3>2 DEF Production
    <3> QED BY <1>6, <3>2, <3>3
  <2>2. eof \in Seq(Int) /\ (first => eof = <<TokenEOF>>)
    BY DEF TokenEOF, Terminal, TerminalMask
  <2> HIDE DEF lefts, eof
  <2>3. symbolList \o lefts \in Seq(Int)
    BY <1>2, <2>1
  <2>4. symbolList' \in Seq(Int)
    BY <1>1, <2>2, <2>3
  <2>5. CASE first
    <3> DEFINE before == symbolList \o lefts
    <3>1. before \in Seq(Int) /\ eof \in Seq(Int) /\ Len(eof) = 1 /\ eof[1] = TokenEOF /\ symbolList' = before \o eof
      BY <1>1, <2>2, <2>3, <2>5
    <3> HIDE DEF before, first
    <3> DEFINE last == Len(before) + 1
    <3>2. Len(before) \in Nat /\ before \o eof \in Seq(Int) /\ Len(before \o eof) = last
          /\ (before \o eof)[last] = eof[last - Len(before)]
      <4>1. Len(before) \in Nat /\ last \in 1 .. Len(before) + Len(eof) /\ ~(last <= Len(before))
        BY <3>1
      <4>2. before \o eof \in Seq(Int) /\ Len(before \o eof) = last
        <5>1. before \in Seq(Int) /\ eof \in Seq(Int) /\ Len(eof) = 1
          BY <3>1
        <5>2. before \o eof \in Seq(Int) /\ Len(before \o eof) = Len(before) + Len(eof)
          BY <5>1, ConcatProperties
        <5> QED BY <5>1, <5>2
      <4>3. (before \o eof)[last] = IF last <= Len(before) THEN before[last] ELSE eof[last - Len(before)]
        <5> HIDE DEF last
        <5> QED BY <3>1, <4>1, ConcatProperties
      <4> QED BY <4>1, <4>2, <4>3
    <3>3. last \in DOMAIN (before \o eof) /\ last - Len(before) = 1
      BY <3>2
    <3> HIDE DEF last
    <3> QED BY <2>4, <3>1, <3>2, <3>3, ElementToSet
  <2>6. CASE ~first
    <3>1. PICK k \in DOMAIN symbolList : symbolList[k] = TokenEOF
      BY <1>2, <2>6 DEF ToSet
    <3> DEFINE before == symbolList \o lefts
    <3> HIDE DEF first
    <3>2. symbolList \in Seq(Int) /\ k \in 1 .. Len(symbolList)
      BY <1>2, <3>1
    <3>3. k \in 1 .. Len(before) /\ before[k] = symbolList[k]
      BY <2>1, <3>2, ConcatProperties
    <3>4. before \in Seq(Int) /\ symbolList' = before \o eof
      BY <1>1, <2>3
    <3> HIDE DEF before
    <3>5. k \in 1 .. Len(symbolList') /\ symbolList'[k] = before[k]
      BY <2>2, <3>3, <3>4, ConcatProperties
    <3>6. k \in DOMAIN symbolList' /\ symbolList'[k] = TokenEOF
      BY <2>4, <3>1, <3>3, <3>5
    <3> QED BY <2>4, <3>6, ElementToSet
  <2> QED BY <2>4, <2>5, <2>6
<1>10. Len(productions') >= AcceptingCount'
  BY <1>2, <1>4, <1>5, <1>7
<1>11. Added'
  <2>1. canonicalSet' = <<>>
    BY <1>1, AddingFacts
  <2>2. state' \in Nat /\ symbol' = 1 /\ input' \in Inputs /\ type' \in Types /\ phase' = "add"
    BY <1>1, <1>2
  <2>3. productions' \in Seq(Production)
    BY <1>7
  <2> QED BY <1>9, <1>10, <2>1, <2>2, <2>3 DEF Added
<1>12. Starting'
  BY <1>1, <1>5, AddingFacts DEF Starting
<1> QED BY <1>1, <1>8, <1>11, <1>12, AddingFacts, NoStates

\* Without an error every symbol of a right side is one of the grammar.
LEMMA StepCheckProductions == GInv /\ CheckProductions => GInv'
<1> SUFFICES ASSUME GInv, CheckProductions PROVE GInv'
  OBVIOUS
<1>1. /\ phase = "add" /\ phase' = (IF Erroneous THEN "error" ELSE "start") /\ state' = 1
      /\ UNCHANGED <<input, type, symbolList, productions, productionCount, symbol, canonicalSet, sourceStates,
                     actionTable, gotoTable, gotoSet, lookAt, spread, conflicts, terminalItems, searchIndex>>
  BY DEF CheckProductions, tables, closing, reducing
<1>2. symbol = 1 /\ productionCount \in Nat /\ productionCount <= Len(productions)
  BY <1>1 DEF GInv, Added, TypeOK
<1>3. Starting' /\ AcceptingCount' = AcceptingCount
  BY <1>1, AddingFacts DEF Starting, AcceptingCount
<1>4. phase' # "error" => /\ productionCount # 0
                          /\ \A i \in DOMAIN productions : ToSet(productions[i].right) \subseteq ToSet(symbolList)
  BY <1>1 DEF Erroneous, Undefined, ToSet
<1>5. Added'
  BY <1>1, <1>3, <1>4, AddingFacts DEF GInv, Added
<1> QED BY <1>1, <1>2, <1>3, <1>5, AddingFacts, NoStates

\* What a step leaves alone while the states are made.
LEMMA Frame ==
  ASSUME GInv, Making, Making', UNCHANGED <<input, type, building, conflicts, terminalItems>>
  PROVE  /\ Added' /\ AllDecided' /\ NoneReported'
         /\ Item' = Item /\ Terminals' = Terminals
         /\ productions \in Seq(Production) /\ symbolList \in Seq(Int) /\ DOMAIN symbolList # {}
         /\ \A i \in DOMAIN productions : ToSet(productions[i].right) \subseteq ToSet(symbolList)
         /\ AcceptingCount \in Nat \ {0} /\ AcceptingCount' = AcceptingCount
         /\ AcceptingCount <= Len(productions) /\ TokenEOF \in Terminals
         /\ UNCHANGED <<symbolList, productions, productionCount>>
         /\ phase' \in {"add", "start", "closure", "goto", "merge", "reduce", "done", "error"}
         /\ productionCount' \in Nat /\ productionCount' <= Len(productions')
<1>1. UNCHANGED <<input, type, symbolList, productions, productionCount, conflicts, terminalItems>>
  BY DEF building
<1>2. /\ phase \notin {"add", "error", "reduce", "done"} /\ phase' \notin {"add", "error", "reduce", "done"}
      /\ phase' \in {"add", "start", "closure", "goto", "merge", "reduce", "done", "error"}
  BY DEF Making
<1>3. /\ productions \in Seq(Production) /\ symbolList \in Seq(Int) /\ TokenEOF \in ToSet(symbolList)
      /\ \A i \in DOMAIN productions : ToSet(productions[i].right) \subseteq ToSet(symbolList)
      /\ Len(productions) >= AcceptingCount /\ input \in Inputs /\ productionCount # 0
  BY <1>2 DEF GInv, Added
<1>4. AcceptingCount' = AcceptingCount
  BY <1>1 DEF AcceptingCount
<1>5. Added'
  BY <1>1, <1>2, <1>4 DEF GInv, Added
<1>6. AllDecided' /\ NoneReported'
  BY <1>1, <1>2 DEF GInv, NoneReported, AllDecided
<1>7. Item' = Item /\ Terminals' = Terminals
  BY <1>1 DEF Item, Terminals
<1>8. DOMAIN symbolList # {}
  BY <1>3 DEF ToSet
<1>9. TokenEOF \in Terminals
  BY <1>3 DEF Terminals, IsTerminal, TokenEOF, Terminal, TerminalMask
<1>10. productionCount' \in Nat /\ productionCount' <= Len(productions')
  BY <1>1 DEF GInv, TypeOK
<1>11. AcceptingCount \in Nat \ {0} /\ AcceptingCount <= Len(productions)
  BY <1>3, InputType
<1> QED BY <1>1, <1>2, <1>3, <1>4, <1>5, <1>6, <1>7, <1>8, <1>9, <1>10, <1>11

\* A step that only works on the set under construction leaves the tables alone.
LEMMA TablesFrame ==
  ASSUME GInv, Making, Making', UNCHANGED <<input, type, building, tables, conflicts, terminalItems>>
  PROVE  /\ TablesOK' /\ Tables' /\ MovedItems' /\ Starting' = Starting
         /\ UNCHANGED <<state, symbol>> => Shifts'
<1>1. UNCHANGED <<symbolList, productions, canonicalSet, sourceStates, actionTable, gotoTable>>
  BY DEF building, tables
<1>2. Item' = Item /\ AcceptingCount' = AcceptingCount
  BY Frame
<1>3. TablesOK'
  BY <1>1, <1>2 DEF GInv, TypeOK, TablesOK, ItemsOK, Prod
<1>4. Tables'
  BY <1>1 DEF GInv, Tables, ForStates
<1>5. Starting' = Starting
  BY <1>1, <1>2 DEF Starting
<1>6. MovedItems'
  <2>1. ASSUME NEW s \in DOMAIN canonicalSet, NEW i \in DOMAIN canonicalSet[s], NEW item, item = canonicalSet[s][i],
               ~AtEnd(item)', Successor(s, item)' # 0
        PROVE  Successor(s, item)' \in DOMAIN canonicalSet /\ Moved(item, canonicalSet[Successor(s, item)])'
    <3>1. AtEnd(item)' = AtEnd(item) /\ Successor(s, item)' = Successor(s, item)
      BY <1>1 DEF AtEnd, Prod, Successor, AfterDot, Entry
    <3>2. Successor(s, item) \in DOMAIN canonicalSet /\ Moved(item, canonicalSet[Successor(s, item)])
      BY <2>1, <3>1 DEF GInv, MovedItems
    <3> QED BY <1>1, <3>1, <3>2 DEF Moved, SameCore, SameRule, Prod
  <2> QED BY <1>1, <2>1 DEF MovedItems
<1>7. ASSUME UNCHANGED <<state, symbol>>
      PROVE  Shifts'
  <2>1. \A s, t : Shifters(s, t)' = Shifters(s, t)
    BY <1>1 DEF Shifters, AtEnd, AfterDot, Prod
  <2>2. \A s, k : Tried(s, k)' = Tried(s, k)
    BY <1>7 DEF Tried
  <2> QED BY <1>1, <2>1, <2>2 DEF GInv, Shifts
<1> QED BY <1>3, <1>4, <1>5, <1>6, <1>7

\* The item a start state is made of.
LEMMA StepStartItem == GInv /\ StartItem => GInv'
<1> SUFFICES ASSUME GInv, StartItem PROVE GInv'
  OBVIOUS
<1>1. /\ phase = "start" /\ phase' = "closure" /\ lookAt' = <<1>>
      /\ gotoSet' = <<[prod |-> Len(canonicalSet) + 1, dot |-> 0, la |-> {TokenEOF}]>>
      /\ UNCHANGED <<input, type, building, tables, conflicts, terminalItems, state, symbol, searchIndex, spread>>
  BY DEF StartItem, reducing
<1>2. Making /\ Making'
  BY <1>1 DEF Making
<1>3. Starting /\ Starting' /\ state = 1 /\ symbol = 1 /\ spread = <<>> /\ searchIndex \in Nat \ {0}
  BY <1>1, <1>2, TablesFrame DEF GInv, Positions
<1>4. ItemsOK(gotoSet)' /\ lookAt' \in Seq(DOMAIN gotoSet')
  <2> DEFINE item == [prod |-> Len(canonicalSet) + 1, dot |-> 0, la |-> {TokenEOF}]
  <2>1. Len(canonicalSet) \in Nat
    BY DEF GInv, TypeOK, TablesOK
  <2>2. /\ productions \in Seq(Production) /\ AcceptingCount \in Nat /\ AcceptingCount <= Len(productions)
        /\ TokenEOF \in Terminals /\ Item' = Item /\ productions' = productions
    BY <1>1, <1>2, Frame
  <2>3. Len(canonicalSet) + 1 \in DOMAIN productions
    BY <1>3, <2>1, <2>2 DEF Starting
  <2>4. item \in Item /\ 0 <= Len(Prod(item).right)
    <3>1. Prod(item) \in Production
      BY <2>2, <2>3 DEF Prod
    <3>2. Prod(item).right \in Seq(Int)
      BY <3>1 DEF Production
    <3> QED BY <2>2, <2>3, <3>2 DEF Item
  <2>5. gotoSet' = <<item>> /\ item.dot = 0 /\ item.prod = Len(canonicalSet) + 1
    BY <1>1
  <2> HIDE DEF item
  <2>6. ItemsOK(gotoSet)'
    BY <2>2, <2>4, <2>5 DEF ItemsOK, Prod
  <2> QED BY <1>1, <2>5, <2>6
<1>5. TypeOK'
  BY <1>1, <1>2, <1>4, Frame, TablesFrame DEF TypeOK
<1>6. Positions'
  BY <1>1, <1>3 DEF Positions, Following
<1>7. MovedOn'
  BY <1>1, <1>3 DEF MovedOn
<1> QED BY <1>1, <1>2, <1>5, <1>6, <1>7, Frame, TablesFrame DEF GInv

\* The set under construction keeps its items when others are derived from one of
\* them; their lookaheads grow.
LEMMA ClosureFacts ==
  ASSUME GInv, Closure
  PROVE  /\ ItemsOK(gotoSet)' /\ lookAt' \in Seq(DOMAIN gotoSet') /\ gotoSet # <<>> /\ gotoSet' # <<>>
         /\ \A k \in DOMAIN gotoSet : /\ k \in DOMAIN gotoSet'
                                      /\ gotoSet'[k].prod = gotoSet[k].prod /\ gotoSet'[k].dot = gotoSet[k].dot
<1>1. /\ phase = "closure" /\ lookAt # <<>>
      /\ UNCHANGED <<input, type, phase, building, tables, conflicts, terminalItems, state, symbol, searchIndex, spread>>
  BY DEF Closure, reducing
<1>2. Making /\ Making'
  BY <1>1 DEF Making
<1>3. /\ productions \in Seq(Production) /\ Item' = Item /\ productions' = productions
      /\ \A j \in DOMAIN productions : ToSet(productions[j].right) \subseteq ToSet(symbolList)
  BY <1>1, <1>2, Frame
<1>4. ItemsOK(gotoSet) /\ gotoSet \in Seq(Item) /\ lookAt \in Seq(DOMAIN gotoSet) /\ gotoSet # <<>>
  BY <1>1 DEF GInv, TypeOK, ItemsOK, Positions
<1> DEFINE item == gotoSet[Head(lookAt)]
           others == Tail(lookAt)
           terminals == DerivedLookAhead(item)
           derived == Derived(AfterDot(item))
           has(k, i) == gotoSet[k].dot = 0 /\ SameRule(Prod(gotoSet[k]), productions[i])
           missing == {i \in derived : \A k \in DOMAIN gotoSet : ~has(k, i)}
           added == InOrder(missing, <)
           grown == {k \in DOMAIN gotoSet : /\ \E i \in derived : has(k, i)
                                            /\ ~(terminals \subseteq gotoSet[k].la)}
           waiting == InOrder(grown \ ToSet(others), <)
           kept == [k \in DOMAIN gotoSet |->
                      [gotoSet[k] EXCEPT !.la = IF k \in grown THEN @ \cup terminals ELSE @]]
           new == [k \in DOMAIN added |-> [prod |-> added[k], dot |-> 0, la |-> terminals]]
           places == [k \in DOMAIN added |-> Len(gotoSet) + k]
<1>5. \/ lookAt' = others /\ gotoSet' = gotoSet
      \/ gotoSet' = kept \o new /\ lookAt' = (others \o waiting) \o places
  BY DEF Closure
<1>6. Head(lookAt) \in DOMAIN gotoSet /\ others \in Seq(DOMAIN gotoSet)
  BY <1>1, <1>4
<1>7. terminals \subseteq Terminals
  BY <1>3, <1>4, <1>6, DerivedLookAheadType
<1>8. added \in Seq(DOMAIN productions)
  <2>1. missing \subseteq Derived(AfterDot(item))
    OBVIOUS
  <2>2. \E rank : added = Ranked(missing, rank)
    BY DEF InOrder
  <2> HIDE DEF missing, added
  <2> QED BY <1>3, <2>1, <2>2, DerivedFacts
<1>9. waiting \in Seq(DOMAIN gotoSet)
  <2> DEFINE W == grown \ ToSet(others)
  <2>1. W \subseteq DOMAIN gotoSet
    OBVIOUS
  <2>2. \E rank : waiting = Ranked(W, rank)
    BY DEF InOrder
  <2> HIDE DEF W, waiting
  <2>3. IsFiniteSet(W)
    BY <1>4, <2>1, FS_Interval, FS_Subset
  <2> QED BY <2>1, <2>2, <2>3, RankedSeq, SeqMonotonic
<1> HIDE DEF added, waiting, terminals, grown, others
<1>10. /\ kept \in Seq(Item) /\ Len(kept) = Len(gotoSet)
       /\ \A k \in DOMAIN gotoSet : kept[k].prod = gotoSet[k].prod /\ kept[k].dot = gotoSet[k].dot
  <2>1. ASSUME NEW k \in DOMAIN gotoSet
        PROVE  kept[k] \in Item /\ kept[k].prod = gotoSet[k].prod /\ kept[k].dot = gotoSet[k].dot
    <3> DEFINE la == IF k \in grown THEN gotoSet[k].la \cup terminals ELSE gotoSet[k].la
    <3>1. gotoSet[k] \in Item
      BY <1>4
    <3>2. kept[k] = [gotoSet[k] EXCEPT !.la = la]
      OBVIOUS
    <3>3. la \subseteq Terminals
      BY <1>7, <3>1 DEF Item
    <3> HIDE DEF la, kept
    <3> QED BY <3>1, <3>2, <3>3 DEF Item
  <2>2. kept = [k \in 1 .. Len(gotoSet) |-> kept[k]]
    BY <1>4
  <2>3. DOMAIN gotoSet = 1 .. Len(gotoSet) /\ Len(gotoSet) \in Nat
    BY <1>4
  <2> HIDE DEF kept
  <2> QED BY <2>1, <2>2, <2>3
<1>11. new \in Seq(Item) /\ Len(new) = Len(added) /\ \A k \in DOMAIN new : new[k].dot = 0
  <2>1. ASSUME NEW k \in DOMAIN added
        PROVE  new[k] \in Item /\ new[k].dot = 0
    BY <1>7, <1>8 DEF Item
  <2>2. new = [k \in 1 .. Len(added) |-> new[k]]
    BY <1>8
  <2>3. DOMAIN added = 1 .. Len(added) /\ Len(added) \in Nat
    BY <1>8
  <2> HIDE DEF new
  <2> QED BY <2>1, <2>2, <2>3
<1> HIDE DEF kept, new
<1>12. CASE lookAt' = others /\ gotoSet' = gotoSet
  BY <1>3, <1>4, <1>6, <1>12 DEF ItemsOK, Prod
<1>13. CASE gotoSet' = kept \o new /\ lookAt' = (others \o waiting) \o places
  <2>1. /\ gotoSet' \in Seq(Item) /\ Len(gotoSet') = Len(gotoSet) + Len(added)
        /\ \A k \in 1 .. Len(gotoSet) + Len(added) :
             gotoSet'[k] = IF k <= Len(gotoSet) THEN kept[k] ELSE new[k - Len(gotoSet)]
    <3>1. kept \in Seq(Item) /\ new \in Seq(Item) /\ gotoSet' = kept \o new
          /\ Len(kept) = Len(gotoSet) /\ Len(new) = Len(added)
      BY <1>10, <1>11, <1>13
    <3>2. /\ kept \o new \in Seq(Item) /\ Len(kept \o new) = Len(kept) + Len(new)
          /\ \A k \in 1 .. Len(kept) + Len(new) :
               (kept \o new)[k] = IF k <= Len(kept) THEN kept[k] ELSE new[k - Len(kept)]
      BY <3>1, ConcatProperties
    <3> QED BY <3>1, <3>2
  <2>2. Len(gotoSet) \in Nat \ {0} /\ DOMAIN gotoSet = 1 .. Len(gotoSet) /\ Len(added) \in Nat
        /\ DOMAIN new = 1 .. Len(added) /\ DOMAIN gotoSet' = 1 .. Len(gotoSet) + Len(added)
    BY <1>4, <1>8, <1>11, <2>1
  <2>3. ASSUME NEW k \in DOMAIN gotoSet
        PROVE  k \in DOMAIN gotoSet' /\ gotoSet'[k].prod = gotoSet[k].prod /\ gotoSet'[k].dot = gotoSet[k].dot
    BY <1>10, <2>1, <2>2
  <2>4. ASSUME NEW k \in DOMAIN gotoSet'
        PROVE  gotoSet'[k].dot <= Len(Prod(gotoSet'[k]).right)
    <3>1. CASE k \in DOMAIN gotoSet
      BY <1>3, <1>4, <2>3, <3>1, ItemFacts DEF Prod
    <3>2. CASE k \notin DOMAIN gotoSet
      <4>1. gotoSet'[k].dot = 0
        <5>1. k - Len(gotoSet) \in DOMAIN new /\ ~(k <= Len(gotoSet)) /\ k \in 1 .. Len(gotoSet) + Len(added)
          BY <2>2, <3>2
        <5>2. gotoSet'[k] = new[k - Len(gotoSet)]
          BY <2>1, <5>1
        <5> QED BY <1>11, <5>1, <5>2
      <4>2. gotoSet'[k].prod \in DOMAIN productions
        <5>1. gotoSet'[k] \in Item
          BY <2>1
        <5> QED BY <5>1 DEF Item
      <4>3. Prod(gotoSet'[k]) \in Production
        BY <1>3, <4>2 DEF Prod
      <4>4. Prod(gotoSet'[k]).right \in Seq(Int)
        BY <4>3 DEF Production
      <4> QED BY <4>1, <4>4
    <3> QED BY <3>1, <3>2
  <2>5. ItemsOK(gotoSet)'
    BY <1>3, <2>1, <2>4 DEF ItemsOK, Prod
  <2>6. lookAt' \in Seq(DOMAIN gotoSet')
    <3>1. others \in Seq(DOMAIN gotoSet') /\ waiting \in Seq(DOMAIN gotoSet')
      BY <1>6, <1>9, <2>3, SeqMonotonic
    <3>2. places \in Seq(DOMAIN gotoSet')
      <4>1. DOMAIN added = 1 .. Len(added)
        BY <1>8
      <4>2. \A k \in 1 .. Len(added) : Len(gotoSet) + k \in DOMAIN gotoSet'
        BY <2>2
      <4> QED BY <2>2, <4>1, <4>2
    <3> HIDE DEF places
    <3> QED BY <1>13, <3>1, <3>2
  <2> QED BY <1>4, <2>2, <2>3, <2>5, <2>6
<1> QED BY <1>5, <1>12, <1>13

\* Items are derived from an item: the set keeps its form and what was moved into it.
LEMMA StepClosure == GInv /\ Closure => GInv'
<1> SUFFICES ASSUME GInv, Closure PROVE GInv'
  OBVIOUS
<1>1. /\ phase = "closure" /\ phase' = "closure"
      /\ UNCHANGED <<input, type, building, tables, conflicts, terminalItems, state, symbol, searchIndex, spread>>
  BY DEF Closure, reducing
<1>2. Making /\ Making'
  BY <1>1 DEF Making
<1>3. /\ Starting' = Starting
      /\ UNCHANGED <<canonicalSet, symbolList, productions>>
  BY <1>1, <1>2, TablesFrame DEF tables, building
<1>4. TypeOK'
  BY <1>1, <1>2, ClosureFacts, Frame, TablesFrame DEF TypeOK
<1>5. \A s, t : Shifters(s, t)' = Shifters(s, t)
  BY <1>3 DEF Shifters, AtEnd, AfterDot, Prod
<1>6. CurrentSymbol' = CurrentSymbol /\ Terminals' = Terminals
  BY <1>1, <1>2, <1>3, Frame DEF CurrentSymbol
<1>7. Positions'
  BY <1>1, <1>3, <1>5, <1>6, ClosureFacts DEF GInv, Positions, Following
<1>8. MovedOn'
  <2>1. ASSUME NEW item, Moved(item, gotoSet)
        PROVE  Moved(item, gotoSet)'
    <3>1. PICK j \in DOMAIN gotoSet : SameCore(gotoSet[j], [item EXCEPT !.dot = @ + 1])
      BY <2>1 DEF Moved
    <3> DEFINE moved == [item EXCEPT !.dot = @ + 1]
    <3>2. gotoSet[j].dot = moved.dot /\ SameRule(Prod(gotoSet[j]), Prod(moved))
      BY <3>1 DEF SameCore
    <3>3. j \in DOMAIN gotoSet' /\ gotoSet'[j].prod = gotoSet[j].prod /\ gotoSet'[j].dot = gotoSet[j].dot
      BY ClosureFacts
    <3> HIDE DEF moved
    <3>4. gotoSet'[j].dot = moved.dot /\ SameRule(Prod(gotoSet'[j]), Prod(moved))
      BY <3>2, <3>3 DEF Prod
    <3>5. \E k \in DOMAIN gotoSet' : SameCore(gotoSet'[k], moved)
      BY <3>3, <3>4 DEF SameCore
    <3> QED BY <1>3, <3>5 DEF Moved, SameCore, SameRule, Prod, moved
  <2> QED BY <1>1, <1>3, <1>5, <1>6, <2>1 DEF GInv, MovedOn
<1> QED BY <1>1, <1>2, <1>4, <1>7, <1>8, Frame, TablesFrame DEF GInv

\* A state that is added leaves the others as they are.
LEMMA NewStateFacts ==
  ASSUME GInv, gotoSet # <<>>, NEW sources, NewState(gotoSet, sources), UNCHANGED productions, Item' = Item,
         productions \in Seq(Production), NEW n, n = Len(canonicalSet)
  PROVE  /\ n \in Nat /\ DOMAIN canonicalSet = 1 .. n /\ DOMAIN canonicalSet' = 1 .. n + 1
         /\ canonicalSet' \in Seq(Seq(Item')) /\ Len(canonicalSet') = n + 1
         /\ \A s \in 1 .. n : canonicalSet'[s] = canonicalSet[s]
         /\ canonicalSet'[n + 1] = gotoSet
         /\ \A s \in DOMAIN canonicalSet' : ItemsOK(canonicalSet[s])' /\ canonicalSet'[s] # <<>>
         /\ ForStates(sourceStates)' /\ Len(sourceStates') = n + 1
         /\ \A s \in 1 .. n : \A t : Shifters(s, t)' = Shifters(s, t)
<1>1. canonicalSet \in Seq(Seq(Item)) /\ ItemsOK(gotoSet) /\ gotoSet \in Seq(Item)
      /\ \A s \in DOMAIN canonicalSet : ItemsOK(canonicalSet[s]) /\ canonicalSet[s] # <<>>
  BY DEF GInv, TypeOK, TablesOK, ItemsOK, Tables
<1>2. n \in Nat /\ DOMAIN canonicalSet = 1 .. n
  BY <1>1
<1>3. canonicalSet' = Append(canonicalSet, gotoSet) /\ sourceStates' = Append(sourceStates, sources)
  BY DEF NewState
<1>4. /\ canonicalSet' \in Seq(Seq(Item')) /\ Len(canonicalSet') = n + 1
      /\ \A s \in 1 .. n : canonicalSet'[s] = canonicalSet[s]
      /\ canonicalSet'[n + 1] = gotoSet
  BY <1>1, <1>3, AppendProperties
<1>5. DOMAIN canonicalSet' = 1 .. n + 1
  BY <1>4
<1>6. ASSUME NEW s \in DOMAIN canonicalSet'
      PROVE  ItemsOK(canonicalSet[s])' /\ canonicalSet'[s] # <<>>
  <2>1. ItemsOK(canonicalSet'[s]) /\ canonicalSet'[s] # <<>>
    <3>1. s \in 1 .. n \/ s = n + 1
      BY <1>2, <1>5
    <3> QED BY <1>1, <1>2, <1>4, <3>1
  <2> QED BY <2>1 DEF ItemsOK, Prod
<1>7. ForStates(sourceStates)' /\ Len(sourceStates') = n + 1
  <2>1. sourceStates = [s \in 1 .. n |-> sourceStates[s]]
    BY <1>2 DEF GInv, Tables, ForStates
  <2>2. /\ sourceStates' = [s \in 1 .. n + 1 |-> IF s = n + 1 THEN sources ELSE sourceStates[s]]
        /\ Len(sourceStates') = n + 1
    BY <1>2, <1>3, <2>1, AppendTable
  <2> QED BY <1>5, <2>2 DEF ForStates
<1>8. \A s \in 1 .. n : \A t : Shifters(s, t)' = Shifters(s, t)
  BY <1>4 DEF Shifters, AtEnd, AfterDot, Prod
<1> QED BY <1>2, <1>4, <1>5, <1>6, <1>7, <1>8

\* A start state has no actions yet, and so none of its symbols was tried.
LEMMA StepAddStartState == GInv /\ AddStartState => GInv'
<1> SUFFICES ASSUME GInv, AddStartState PROVE GInv'
  OBVIOUS
<1> DEFINE n == Len(canonicalSet)
<1>1. /\ phase = "closure" /\ lookAt = <<>> /\ Starting /\ NewState(gotoSet, {})
      /\ actionTable' = Append(actionTable, EmptyRow) /\ gotoTable' = Append(gotoTable, EmptyRow)
      /\ phase' = (IF n + 1 < AcceptingCount THEN "start" ELSE "goto")
      /\ gotoSet' = <<>>
      /\ UNCHANGED <<input, type, building, conflicts, terminalItems, state, symbol, lookAt, searchIndex, spread>>
  BY DEF AddStartState, reducing
<1>2. Making /\ Making'
  BY <1>1 DEF Making
<1>3. /\ productions \in Seq(Production) /\ Item' = Item /\ productions' = productions /\ symbolList' = symbolList
      /\ AcceptingCount' = AcceptingCount /\ AcceptingCount \in Nat \ {0} /\ DOMAIN symbolList # {}
      /\ symbolList \in Seq(Int)
  BY <1>1, <1>2, Frame
<1>4. gotoSet # <<>> /\ state = 1 /\ symbol = 1 /\ spread = <<>> /\ searchIndex \in Nat \ {0}
  BY <1>1 DEF GInv, Positions
<1>5. /\ n \in Nat /\ DOMAIN canonicalSet = 1 .. n /\ DOMAIN canonicalSet' = 1 .. n + 1
      /\ canonicalSet' \in Seq(Seq(Item')) /\ Len(canonicalSet') = n + 1
      /\ \A s \in 1 .. n : canonicalSet'[s] = canonicalSet[s]
      /\ canonicalSet'[n + 1] = gotoSet
      /\ \A s \in DOMAIN canonicalSet' : ItemsOK(canonicalSet[s])' /\ canonicalSet'[s] # <<>>
      /\ ForStates(sourceStates)' /\ Len(sourceStates') = n + 1
      /\ \A s \in 1 .. n : \A t : Shifters(s, t)' = Shifters(s, t)
  BY <1>1, <1>3, <1>4, NewStateFacts
<1>6. /\ actionTable' = [s \in 1 .. n + 1 |-> IF s = n + 1 THEN EmptyRow ELSE actionTable[s]]
      /\ gotoTable' = [s \in 1 .. n + 1 |-> IF s = n + 1 THEN EmptyRow ELSE gotoTable[s]]
      /\ Len(actionTable') = n + 1 /\ Len(gotoTable') = n + 1
      /\ DOMAIN actionTable = 1 .. n
  <2>1. actionTable = [s \in 1 .. n |-> actionTable[s]] /\ gotoTable = [s \in 1 .. n |-> gotoTable[s]]
    BY <1>5 DEF GInv, Tables, ForStates
  <2> QED BY <1>1, <1>5, <2>1, AppendTable
<1> HIDE DEF n
<1>7. TablesOK'
  <2>1. \A s \in DOMAIN actionTable' : \A t \in DOMAIN actionTable'[s] : actionTable'[s][t] \in Actions
    <3>1. \A s \in 1 .. n : \A t \in DOMAIN actionTable[s] : actionTable[s][t] \in Actions
      BY <1>6 DEF GInv, TypeOK, TablesOK
    <3>2. DOMAIN EmptyRow = {}
      BY DEF EmptyRow
    <3> QED BY <1>5, <1>6, <3>1, <3>2
  <2> QED BY <1>5, <1>6, <2>1 DEF TablesOK, Actions
<1>8. TypeOK'
  <2>1. ItemsOK(gotoSet)' /\ lookAt' \in Seq(DOMAIN gotoSet')
    BY <1>1 DEF ItemsOK
  <2> QED BY <1>1, <1>2, <1>7, <2>1, Frame DEF TypeOK
<1>9. Tables'
  BY <1>5, <1>6 DEF Tables, ForStates
<1>10. Starting' <=> phase' = "start"
  BY <1>1, <1>3, <1>5 DEF Starting, n
<1>11. Positions'
  <2>1. 1 \in DOMAIN symbolList
    BY <1>3
  <2>2. /\ phase' \in {"start", "goto"} /\ phase' # "closure" /\ phase' # "merge" /\ phase' # "reduce" /\ phase' # "done"
        /\ gotoSet' = <<>> /\ state' = 1 /\ symbol' = 1 /\ searchIndex' \in Nat \ {0} /\ spread' = <<>>
        /\ 1 \in DOMAIN symbolList' /\ (Starting' <=> phase' = "start")
    BY <1>1, <1>3, <1>4, <1>10, <2>1
  <2>3. spread' \in Seq(Nat \X Nat \X Terminals') /\ DOMAIN spread' = {}
    BY <2>2
  <2>4. /\ phase' \in {"start"} \/ (phase' = "closure" /\ Starting') => state' = 1 /\ symbol' = 1
        /\ phase' = "start" => Starting'
        /\ phase' = "closure" <=> gotoSet' # <<>>
        /\ phase' \in {"goto", "merge", "reduce", "done"} => ~Starting'
    BY <2>2
  <2>5. ~Following'
    BY <2>2 DEF Following
  <2>6. phase' = "goto" \/ Following' => state' \in Nat \ {0} /\ symbol' \in DOMAIN symbolList'
    BY <2>2
  <2> QED BY <2>2, <2>3, <2>4, <2>5, <2>6 DEF Positions
<1>12. MovedItems'
  <2>1. ASSUME NEW s \in DOMAIN canonicalSet', NEW i \in DOMAIN canonicalSet'[s], NEW item, item = canonicalSet'[s][i],
               ~AtEnd(item)', Successor(s, item)' # 0
        PROVE  Successor(s, item)' \in DOMAIN canonicalSet' /\ Moved(item, canonicalSet[Successor(s, item)])'
    <3>1. CASE s \in 1 .. n
      <4>1. item = canonicalSet[s][i] /\ actionTable'[s] = actionTable[s] /\ gotoTable'[s] = gotoTable[s]
            /\ s \in DOMAIN canonicalSet /\ i \in DOMAIN canonicalSet[s]
        BY <1>5, <1>6, <2>1, <3>1
      <4>2. AtEnd(item)' = AtEnd(item) /\ Successor(s, item)' = Successor(s, item)
        BY <1>3, <4>1 DEF AtEnd, Prod, Successor, AfterDot, Entry
      <4>3. Successor(s, item) \in DOMAIN canonicalSet /\ Moved(item, canonicalSet[Successor(s, item)])
        BY <1>2, <2>1, <4>1, <4>2 DEF GInv, MovedItems
      <4>4. canonicalSet'[Successor(s, item)'] = canonicalSet[Successor(s, item)]
            /\ Successor(s, item)' \in DOMAIN canonicalSet'
        BY <1>5, <4>2, <4>3
      <4> QED BY <1>3, <4>3, <4>4 DEF Moved, SameCore, SameRule, Prod
    <3>2. CASE s \notin 1 .. n
      <4>1. actionTable'[s] = EmptyRow /\ gotoTable'[s] = EmptyRow
        BY <1>5, <1>6, <3>2
      <4> QED BY <2>1, <4>1 DEF Successor, Entry, EmptyRow, NoAction
    <3> QED BY <3>1, <3>2
  <2> QED BY <2>1 DEF MovedItems
<1>13. MovedOn'
  BY <1>1 DEF MovedOn
<1>14. Shifts'
  <2>1. ASSUME NEW s \in DOMAIN canonicalSet', NEW t \in DOMAIN actionTable'[s]
        PROVE  Shifters(s, t)' # {} /\ \E j \in DOMAIN canonicalSet' : actionTable'[s][t] = ShiftTo(j)
    <3>1. s \in 1 .. n /\ actionTable'[s] = actionTable[s]
      BY <1>5, <1>6 DEF EmptyRow
    <3>2. Shifters(s, t) # {} /\ \E j \in DOMAIN canonicalSet : actionTable[s][t] = ShiftTo(j)
      BY <1>2, <1>5, <3>1 DEF GInv, Shifts
    <3> QED BY <1>5, <3>1, <3>2
  <2>2. ASSUME NEW s \in DOMAIN canonicalSet', NEW k \in DOMAIN symbolList
        PROVE  ~Tried(s, k)'
    BY <1>1, <1>3, <1>4, <1>5 DEF Tried
  <2> QED BY <1>3, <2>1, <2>2 DEF Shifts
<1> QED BY <1>1, <1>2, <1>8, <1>9, <1>11, <1>12, <1>13, <1>14, Frame DEF GInv

\* The loop over the symbols goes on: the current one has been tried.
LEMMA NextSymbolFacts ==
  ASSUME NextSymbol, state \in Nat \ {0}, symbolList \in Seq(Int), symbol \in DOMAIN symbolList
  PROVE  /\ state' \in Nat \ {0} /\ symbol' \in DOMAIN symbolList
         /\ \A s \in Nat, k \in DOMAIN symbolList :
              Tried(s, k)' <=> Tried(s, k) \/ (s = state /\ k = symbol)
<1>1. Len(symbolList) \in Nat /\ DOMAIN symbolList = 1 .. Len(symbolList)
  OBVIOUS
<1> QED BY <1>1 DEF NextSymbol, Tried

\* The set that follows a symbol holds the items of the state, moved on.
LEMMA StepGoto == GInv /\ Goto => GInv'
<1> SUFFICES ASSUME GInv, Goto PROVE GInv'
  OBVIOUS
<1> DEFINE items == canonicalSet[state]
           shifted == Shifters(state, CurrentSymbol)
<1>1. /\ phase = "goto" /\ state <= Len(canonicalSet) /\ gotoSet' = Kernel(items, CurrentSymbol)
      /\ lookAt' = [i \in DOMAIN gotoSet' |-> i] /\ searchIndex' = 1
      /\ IF gotoSet' = <<>> THEN NextSymbol /\ UNCHANGED phase
         ELSE phase' = "closure" /\ UNCHANGED <<state, symbol>>
      /\ UNCHANGED <<input, type, building, tables, conflicts, terminalItems, spread>>
  BY DEF Goto, reducing
<1>2. Making /\ Making'
  BY <1>1 DEF Making
<1>3. /\ UNCHANGED <<symbolList, productions, canonicalSet, actionTable, gotoTable>>
      /\ productions \in Seq(Production) /\ symbolList \in Seq(Int) /\ Item' = Item
  BY <1>1, <1>2, Frame DEF tables
<1>4. /\ state \in Nat \ {0} /\ symbol \in DOMAIN symbolList /\ spread = <<>> /\ ~Starting /\ ~Starting'
  BY <1>1, <1>2, TablesFrame DEF GInv, Positions
<1>5. canonicalSet \in Seq(Seq(Item)) /\ state \in DOMAIN canonicalSet /\ ItemsOK(items)
  <2>1. canonicalSet \in Seq(Seq(Item))
    BY DEF GInv, TypeOK, TablesOK
  <2>2. state \in DOMAIN canonicalSet
    BY <1>1, <1>4, <2>1
  <2> QED BY <2>1, <2>2 DEF GInv, TypeOK, TablesOK
<1>6. /\ ItemsOK(gotoSet')
      /\ gotoSet' = <<>> <=> shifted = {}
      /\ \A i \in shifted : Moved(items[i], gotoSet')
  <2>1. shifted = ItemsAt(items, CurrentSymbol)
    BY DEF Shifters, ItemsAt
  <2> HIDE DEF items, shifted
  <2>2. /\ ItemsOK(Kernel(items, CurrentSymbol))
        /\ Kernel(items, CurrentSymbol) = <<>> <=> shifted = {}
        /\ \A i \in shifted : Moved(items[i], Kernel(items, CurrentSymbol))
    <3> HIDE DEF CurrentSymbol
    <3> QED BY <1>3, <1>5, <2>1, KernelFacts
  <2> QED BY <1>1, <2>2
<1>7. ItemsOK(gotoSet)' /\ lookAt' \in Seq(DOMAIN gotoSet')
  <2>1. ItemsOK(gotoSet)'
    BY <1>3, <1>6 DEF ItemsOK, Prod
  <2>2. gotoSet' \in Seq(Item)
    BY <1>6 DEF ItemsOK
  <2>3. DOMAIN gotoSet' = 1 .. Len(gotoSet') /\ Len(gotoSet') \in Nat
    BY <2>2
  <2> QED BY <1>1, <2>1, <2>3
<1>8. TypeOK'
  BY <1>1, <1>2, <1>7, Frame, TablesFrame DEF TypeOK
<1>9. \A s, t : Shifters(s, t)' = Shifters(s, t)
  BY <1>3 DEF Shifters, AtEnd, AfterDot, Prod
<1>10. CASE gotoSet' = <<>>
  <2>1. /\ phase' = "goto" /\ state' \in Nat \ {0} /\ symbol' \in DOMAIN symbolList
        /\ \A s \in Nat, k \in DOMAIN symbolList :
              Tried(s, k)' <=> Tried(s, k) \/ (s = state /\ k = symbol)
    BY <1>1, <1>3, <1>4, <1>10, NextSymbolFacts
  <2>2. Positions'
    BY <1>1, <1>3, <1>4, <1>10, <2>1 DEF Positions, Following
  <2>3. MovedOn'
    BY <2>1 DEF MovedOn
  <2>4. Shifts'
    <3>1. shifted = {}
      BY <1>6, <1>10
    <3>2. ASSUME NEW s \in DOMAIN canonicalSet, NEW k \in DOMAIN symbolList,
                 Tried(s, k)', IsTerminal(symbolList[k]), Shifters(s, symbolList[k]) # {}
          PROVE  symbolList[k] \in DOMAIN actionTable[s]
      <4>1. s \in Nat /\ ~(s = state /\ k = symbol)
        <5>1. s \in Nat
          BY <1>5
        <5>2. symbolList[symbol] = CurrentSymbol
          BY DEF CurrentSymbol
        <5> QED BY <3>1, <3>2, <5>1, <5>2
      <4>2. Tried(s, k)
        BY <2>1, <3>2, <4>1
      <4> QED BY <1>2, <3>2, <4>2 DEF GInv, Shifts
    <3>3. \A s \in DOMAIN canonicalSet : \A t \in DOMAIN actionTable[s] :
             Shifters(s, t) # {} /\ \E j \in DOMAIN canonicalSet : actionTable[s][t] = ShiftTo(j)
      BY <1>2 DEF GInv, Shifts
    <3> QED BY <1>3, <1>9, <3>2, <3>3 DEF Shifts
  <2> QED BY <1>1, <1>2, <1>8, <2>2, <2>3, <2>4, Frame, TablesFrame DEF GInv
<1>11. CASE gotoSet' # <<>>
  <2>1. phase' = "closure" /\ UNCHANGED <<state, symbol>> /\ CurrentSymbol' = CurrentSymbol
    BY <1>1, <1>3, <1>11 DEF CurrentSymbol
  <2>2. Shifters(state, CurrentSymbol)' = shifted /\ shifted # {}
    BY <1>6, <1>9, <1>11, <2>1
  <2>3. Positions'
    BY <1>1, <1>3, <1>4, <1>5, <1>11, <2>1, <2>2 DEF Positions, Following
  <2>4. MovedOn'
    <3>1. ASSUME NEW i \in shifted
          PROVE  Moved(canonicalSet[state][i], gotoSet)'
      BY <1>3, <1>6, <2>1 DEF Moved, SameCore, SameRule, Prod
    <3> QED BY <2>1, <2>2, <3>1 DEF MovedOn
  <2> QED BY <1>1, <1>2, <1>8, <2>1, <2>3, <2>4, Frame, TablesFrame DEF GInv
<1> QED BY <1>10, <1>11

\* The search goes on behind a state that cannot be merged with.
LEMMA StepRefuseMerge == GInv /\ RefuseMerge => GInv'
<1> SUFFICES ASSUME GInv, RefuseMerge PROVE GInv'
  OBVIOUS
<1>1. /\ phase = "closure" /\ phase' = "closure" /\ ~Starting /\ FoundState # 0 /\ searchIndex' = FoundState + 1
      /\ UNCHANGED <<input, type, building, tables, conflicts, terminalItems, state, symbol, gotoSet, lookAt, spread>>
  BY DEF RefuseMerge, Searching, reducing, closing
<1>2. Making /\ Making'
  BY <1>1 DEF Making
<1>3. /\ UNCHANGED <<symbolList, productions, canonicalSet>> /\ Starting' = Starting
      /\ Item' = Item /\ Terminals' = Terminals
  BY <1>1, <1>2, Frame, TablesFrame DEF tables
<1>4. searchIndex' \in Nat \ {0}
  <2>1. canonicalSet \in Seq(Seq(Item)) /\ searchIndex \in Nat \ {0}
    BY DEF GInv, TypeOK, TablesOK, Positions
  <2>2. FoundState \in DOMAIN canonicalSet
    BY <1>1, <2>1, FoundFacts
  <2> QED BY <1>1, <2>1, <2>2
<1>5. TypeOK'
  <2>1. ItemsOK(gotoSet)' /\ lookAt' \in Seq(DOMAIN gotoSet')
    BY <1>1, <1>3 DEF GInv, TypeOK, ItemsOK, Prod
  <2> QED BY <1>1, <1>2, <2>1, Frame, TablesFrame DEF TypeOK
<1>6. \A s, t : Shifters(s, t)' = Shifters(s, t)
  BY <1>3 DEF Shifters, AtEnd, AfterDot, Prod
<1>7. CurrentSymbol' = CurrentSymbol
  BY <1>1, <1>3 DEF CurrentSymbol
<1>8. Positions'
  BY <1>1, <1>3, <1>4, <1>6, <1>7 DEF GInv, Positions, Following
<1>9. MovedOn'
  BY <1>1, <1>3, <1>6, <1>7 DEF GInv, MovedOn, Moved, SameCore, SameRule, Prod
<1> QED BY <1>1, <1>2, <1>5, <1>8, <1>9, Frame, TablesFrame DEF GInv

\* The state found has the cores of the set, and with them the items moved on.
LEMMA StepMergeState == GInv /\ MergeState => GInv'
<1> SUFFICES ASSUME GInv, MergeState PROVE GInv'
  OBVIOUS
<1>1. /\ phase = "closure" /\ phase' = "merge" /\ lookAt = <<>> /\ lookAt' = lookAt
      /\ ~Starting /\ FoundState # 0 /\ searchIndex' = FoundState /\ gotoSet' = <<>>
      /\ IF type = "LR" THEN UNCHANGED <<sourceStates, spread>>
         ELSE /\ sourceStates' = [sourceStates EXCEPT ![FoundState] = @ \cup {state}]
              /\ spread' = NewLookAheads(FoundState)
      /\ UNCHANGED <<input, type, building, conflicts, terminalItems, canonicalSet, actionTable, gotoTable,
                     state, symbol>>
  BY DEF MergeState, Searching, reducing
<1>2. Making /\ Making'
  BY <1>1 DEF Making
<1>3. /\ UNCHANGED <<symbolList, productions>> /\ Item' = Item /\ Terminals' = Terminals
      /\ AcceptingCount' = AcceptingCount /\ symbolList \in Seq(Int)
  BY <1>1, <1>2, Frame
<1>4. /\ canonicalSet \in Seq(Seq(Item)) /\ ItemsOK(gotoSet) /\ gotoSet \in Seq(Item)
      /\ searchIndex \in Nat \ {0} /\ spread = <<>>
  BY <1>1 DEF GInv, TypeOK, TablesOK, ItemsOK, Positions
<1>5. FoundState \in DOMAIN canonicalSet /\ SameSet(gotoSet, canonicalSet[FoundState], FALSE)
  BY <1>1, <1>4, FoundFacts
<1>6. /\ Len(gotoSet) = Len(canonicalSet[FoundState]) /\ DOMAIN gotoSet = DOMAIN canonicalSet[FoundState]
      /\ \A j \in DOMAIN gotoSet : SameCore(gotoSet[j], canonicalSet[FoundState][j])
  <2>1. canonicalSet[FoundState] \in Seq(Item)
    BY <1>4, <1>5
  <2>2. /\ Len(gotoSet) = Len(canonicalSet[FoundState])
        /\ \A j \in DOMAIN gotoSet : SameCore(gotoSet[j], canonicalSet[FoundState][j])
    BY <1>5 DEF SameSet
  <2> QED BY <1>4, <2>1, <2>2
<1>7. /\ spread' \in Seq(Nat \X Nat \X Terminals)
      /\ \A k \in DOMAIN spread' : /\ spread'[k][1] \in DOMAIN canonicalSet
                                   /\ spread'[k][2] \in DOMAIN canonicalSet[spread'[k][1]]
  <2>1. CASE type = "LR"
    BY <1>1, <1>4, <2>1
  <2>2. CASE type # "LR"
    <3>1. FoundState \in Nat
      BY <1>4, <1>5
    <3>2. /\ NewLookAheads(FoundState) \in Seq(Nat \X Nat \X Terminals)
          /\ \A k \in DOMAIN NewLookAheads(FoundState) :
               /\ NewLookAheads(FoundState)[k][1] = FoundState
               /\ NewLookAheads(FoundState)[k][2] \in DOMAIN gotoSet
      BY <1>3, <1>4, <3>1, NewLookAheadsFacts
    <3> QED BY <1>1, <1>5, <1>6, <2>2, <3>2
  <2> QED BY <2>1, <2>2
<1>8. ForStates(sourceStates)' /\ Len(sourceStates') = Len(canonicalSet)
  <2> DEFINE n == Len(canonicalSet)
  <2>1. sourceStates = [s \in 1 .. n |-> sourceStates[s]] /\ n \in Nat /\ DOMAIN canonicalSet = 1 .. n
    BY <1>4 DEF GInv, Tables, ForStates
  <2>2. sourceStates' = [s \in 1 .. n |-> sourceStates'[s]]
    BY <1>1, <2>1
  <2> HIDE DEF n
  <2>3. Len(sourceStates') = n
    BY <2>1, <2>2, TableLen
  <2> QED BY <1>1, <2>1, <2>2, <2>3 DEF ForStates, n
<1>9. TypeOK'
  <2>1. TablesOK'
    BY <1>1, <1>3, <1>8 DEF GInv, TypeOK, TablesOK, ItemsOK, Prod
  <2>2. ItemsOK(gotoSet)' /\ lookAt' \in Seq(DOMAIN gotoSet')
    BY <1>1 DEF ItemsOK
  <2> QED BY <1>1, <1>2, <2>1, <2>2, Frame DEF TypeOK
<1>10. Tables'
  BY <1>1, <1>8 DEF GInv, Tables, ForStates
<1>11. \A s, t : Shifters(s, t)' = Shifters(s, t)
  BY <1>1, <1>3 DEF Shifters, AtEnd, AfterDot, Prod
<1>12. CurrentSymbol' = CurrentSymbol /\ Starting' = Starting
  BY <1>1, <1>3 DEF CurrentSymbol, Starting
<1>13. Positions'
  <2>1. state \in Nat \ {0} /\ symbol \in DOMAIN symbolList /\ state \in DOMAIN canonicalSet
        /\ Shifters(state, CurrentSymbol) # {}
    BY <1>1 DEF GInv, Positions, Following
  <2>2. Shifters(state, CurrentSymbol)' # {}
    BY <1>1, <1>11, <1>12, <2>1
  <2>3. FoundState \in Nat \ {0}
    BY <1>4, <1>5
  <2> QED BY <1>1, <1>3, <1>5, <1>7, <1>12, <2>1, <2>2, <2>3 DEF Positions, Following
<1>14. MovedItems'
  <2>1. ASSUME NEW s \in DOMAIN canonicalSet, NEW i \in DOMAIN canonicalSet[s], NEW item, item = canonicalSet[s][i],
               ~AtEnd(item)', Successor(s, item)' # 0
        PROVE  Successor(s, item)' \in DOMAIN canonicalSet /\ Moved(item, canonicalSet[Successor(s, item)])'
    <3>1. AtEnd(item)' = AtEnd(item) /\ Successor(s, item)' = Successor(s, item)
      BY <1>1, <1>3 DEF AtEnd, Prod, Successor, AfterDot, Entry
    <3>2. Successor(s, item) \in DOMAIN canonicalSet /\ Moved(item, canonicalSet[Successor(s, item)])
      BY <1>2, <2>1, <3>1 DEF GInv, MovedItems
    <3> QED BY <1>1, <1>3, <3>1, <3>2 DEF Moved, SameCore, SameRule, Prod
  <2> QED BY <1>1, <2>1 DEF MovedItems
<1>15. MovedOn'
  <2>1. ASSUME NEW item, Moved(item, gotoSet)
        PROVE  Moved(item, canonicalSet[FoundState])
    <3> DEFINE moved == [item EXCEPT !.dot = @ + 1]
    <3>1. PICK j \in DOMAIN gotoSet : SameCore(gotoSet[j], moved)
      BY <2>1 DEF Moved
    <3> HIDE DEF moved
    <3>2. SameCore(canonicalSet[FoundState][j], moved)
      BY <1>6, <3>1 DEF SameCore, SameRule
    <3> QED BY <1>6, <3>2 DEF Moved, moved
  <2>2. ASSUME NEW i \in Shifters(state, CurrentSymbol)
        PROVE  Moved(canonicalSet[state][i], canonicalSet[FoundState])
    BY <1>1, <2>1, <2>2 DEF GInv, MovedOn
  <2>3. ASSUME NEW i \in Shifters(state, CurrentSymbol)
        PROVE  Moved(canonicalSet[state][i], canonicalSet[searchIndex])'
    BY <1>1, <1>3, <2>2 DEF Moved, SameCore, SameRule, Prod
  <2>4. Shifters(state, CurrentSymbol)' = Shifters(state, CurrentSymbol)
    BY <1>1, <1>11, <1>12
  <2> QED BY <1>1, <2>3, <2>4 DEF MovedOn
<1>16. Shifts'
  <2>1. \A s, k : Tried(s, k)' = Tried(s, k)
    BY <1>1 DEF Tried
  <2> QED BY <1>1, <1>2, <1>3, <1>11, <2>1 DEF GInv, Shifts
<1> QED BY <1>1, <1>2, <1>9, <1>10, <1>13, <1>14, <1>15, <1>16, Frame DEF GInv

\* Where a symbol leads from a state, by its rows.
Leads(actions, gotos, x) == IF IsTerminal(x) THEN Entry(actions, x, NoAction).arg ELSE Entry(gotos, x, 0)

\* There is one row for every state.
IsTable(f, n) == f = [s \in 1 .. n |-> f[s]]

\* The shift or goto that is set is that of the current symbol alone.
LEMMA TransitionFacts ==
  ASSUME NEW n \in Nat, state \in 1 .. n, NEW target \in Nat \ {0},
         NEW actions, IsTable(actions, n), NEW gotos, IsTable(gotos, n),
         SetTransition(target, actions, gotos)
  PROVE  /\ actionTable' = [s \in 1 .. n |-> actionTable'[s]] /\ Len(actionTable') = n
         /\ gotoTable' = [s \in 1 .. n |-> gotoTable'[s]] /\ Len(gotoTable') = n
         /\ \A s \in 1 .. n : s # state => actionTable'[s] = actions[s] /\ gotoTable'[s] = gotos[s]
         /\ DOMAIN actionTable'[state] =
              DOMAIN actions[state] \cup (IF IsTerminal(CurrentSymbol) THEN {CurrentSymbol} ELSE {})
         /\ \A t \in DOMAIN actionTable'[state] :
              actionTable'[state][t] = IF IsTerminal(CurrentSymbol) /\ t = CurrentSymbol
                                       THEN ShiftTo(target) ELSE actions[state][t]
         /\ \A x : Leads(actionTable'[state], gotoTable'[state], x) =
              IF x # CurrentSymbol THEN Leads(actions[state], gotos[state], x)
              ELSE IF IsTerminal(x) \/ ~IsAccepting(x) THEN target
              ELSE Leads(actions[state], gotos[state], x)
<1> DEFINE c == CurrentSymbol
           shift == [t \in {c} |-> ShiftTo(target)]
           goto  == [t \in {c} |-> target]
<1>0. actions = [s \in 1 .. n |-> actions[s]] /\ gotos = [s \in 1 .. n |-> gotos[s]]
  BY DEF IsTable
<1> USE <1>0
<1>1. CASE IsTerminal(c)
  <2>1. actionTable' = [actions EXCEPT ![state] = Over(@, shift)] /\ gotoTable' = gotos
    BY <1>1 DEF SetTransition
  <2>2. actionTable' = [s \in 1 .. n |-> IF s = state THEN Over(actions[state], shift) ELSE actions[s]]
    BY <2>1
  <2>3. /\ DOMAIN Over(actions[state], shift) = DOMAIN actions[state] \cup {c}
        /\ \A t \in DOMAIN Over(actions[state], shift) :
             Over(actions[state], shift)[t] = IF t = c THEN ShiftTo(target) ELSE actions[state][t]
    BY DEF Over
  <2> HIDE DEF shift
  <2>4. actionTable' = [s \in 1 .. n |-> actionTable'[s]] /\ actionTable'[state] = Over(actions[state], shift)
        /\ \A s \in 1 .. n : s # state => actionTable'[s] = actions[s] /\ gotoTable'[s] = gotos[s]
    BY <2>1, <2>2
  <2>5. Len(actionTable') = n /\ Len(gotoTable') = n
    BY <2>1, <2>4, TableLen
  <2>6. ASSUME NEW x
        PROVE  Leads(actionTable'[state], gotoTable'[state], x) =
                 IF x # c THEN Leads(actions[state], gotos[state], x)
                 ELSE IF IsTerminal(x) \/ ~IsAccepting(x) THEN target
                 ELSE Leads(actions[state], gotos[state], x)
    BY <1>1, <2>1, <2>3, <2>4 DEF Leads, Entry, ShiftTo
  <2> HIDE DEF c
  <2>7. c = CurrentSymbol
    BY DEF c
  <2> QED BY <1>1, <2>1, <2>3, <2>4, <2>5, <2>6, <2>7
<1>2. CASE ~IsTerminal(c)
  <2> DEFINE row == IF IsAccepting(c) THEN gotos[state] ELSE Over(gotos[state], goto)
  <2>1. actionTable' = actions /\ gotoTable' = [s \in 1 .. n |-> IF s = state THEN row ELSE gotos[s]]
    BY <1>2 DEF SetTransition
  <2>2. /\ DOMAIN Over(gotos[state], goto) = DOMAIN gotos[state] \cup {c}
        /\ \A t \in DOMAIN Over(gotos[state], goto) :
             Over(gotos[state], goto)[t] = IF t = c THEN target ELSE gotos[state][t]
    BY DEF Over
  <2> HIDE DEF goto
  <2>3. gotoTable' = [s \in 1 .. n |-> gotoTable'[s]] /\ gotoTable'[state] = row
        /\ \A s \in 1 .. n : s # state => actionTable'[s] = actions[s] /\ gotoTable'[s] = gotos[s]
    <3> HIDE DEF row
    <3> QED BY <2>1
  <2>4. Len(actionTable') = n /\ Len(gotoTable') = n
    BY <2>1, <2>3, TableLen
  <2>5. ASSUME NEW x
        PROVE  Leads(actionTable'[state], gotoTable'[state], x) =
                 IF x # c THEN Leads(actions[state], gotos[state], x)
                 ELSE IF IsTerminal(x) \/ ~IsAccepting(x) THEN target
                 ELSE Leads(actions[state], gotos[state], x)
    BY <1>2, <2>1, <2>2, <2>3 DEF Leads, Entry
  <2> HIDE DEF c, row
  <2>6. c = CurrentSymbol
    BY DEF c
  <2> QED BY <1>2, <2>1, <2>3, <2>4, <2>5, <2>6
<1> QED BY <1>1, <1>2

\* The state has the items of another that lead to it, moved on.
Follows(cs, n, actions, gotos) ==
  \A s \in 1 .. n : \A i \in DOMAIN cs[s] :
    LET next == Leads(actions[s], gotos[s], AfterDot(cs[s][i]))
    IN  ~AtEnd(cs[s][i]) /\ next # 0 => next \in 1 .. n /\ Moved(cs[s][i], cs[next])

\* The shifts of the symbols tried are those of the items.
Shifting(cs, n, actions) ==
  \A s \in 1 .. n :
    /\ \A t \in DOMAIN actions[s] : ItemsAt(cs[s], t) # {} /\ \E j \in 1 .. n : actions[s][t] = ShiftTo(j)
    /\ \A k \in DOMAIN symbolList :
         Tried(s, k) /\ IsTerminal(symbolList[k]) /\ ItemsAt(cs[s], symbolList[k]) # {} =>
           symbolList[k] \in DOMAIN actions[s]

\* The invariant says this of the tables.
LEMMA TablesFacts ==
  ASSUME GInv, Making, NEW n, n = Len(canonicalSet)
  PROVE  /\ n \in Nat /\ DOMAIN canonicalSet = 1 .. n
         /\ IsTable(actionTable, n) /\ IsTable(gotoTable, n)
         /\ \A s \in 1 .. n : \A t \in DOMAIN actionTable[s] : actionTable[s][t] \in Actions
         /\ Follows(canonicalSet, n, actionTable, gotoTable)
         /\ Shifting(canonicalSet, n, actionTable)
<1>1. n \in Nat /\ DOMAIN canonicalSet = 1 .. n
  BY DEF GInv, TypeOK, TablesOK
<1>2. actionTable = [s \in 1 .. n |-> actionTable[s]] /\ gotoTable = [s \in 1 .. n |-> gotoTable[s]]
  BY <1>1 DEF GInv, Tables, ForStates
<1>3. \A s \in 1 .. n : \A t \in DOMAIN actionTable[s] : actionTable[s][t] \in Actions
  BY <1>2 DEF GInv, TypeOK, TablesOK
<1>4. Follows(canonicalSet, n, actionTable, gotoTable)
  BY <1>1 DEF GInv, MovedItems, Follows, Successor, Leads
<1>5. Shifting(canonicalSet, n, actionTable)
  BY <1>1 DEF GInv, Shifts, Shifting, Shifters, ItemsAt
<1>6. IsTable(actionTable, n) /\ IsTable(gotoTable, n)
  BY <1>2 DEF IsTable
<1> QED BY <1>1, <1>3, <1>4, <1>5, <1>6

\* What follows from a transition that is set, for the tables.
LEMMA TransitionKeeps ==
  ASSUME NEW n \in Nat, state \in 1 .. n, NEW target \in 1 .. n,
         NEW actions, IsTable(actions, n), NEW gotos, IsTable(gotos, n),
         SetTransition(target, actions, gotos),
         NEW cs, canonicalSet' = cs, DOMAIN cs = 1 .. n, UNCHANGED <<productions, symbolList>>,
         Follows(cs, n, actions, gotos), Shifting(cs, n, actions),
         \A s \in 1 .. n : \A t \in DOMAIN actions[s] : actions[s][t] \in Actions,
         ItemsAt(cs[state], CurrentSymbol) # {},
         \A i \in ItemsAt(cs[state], CurrentSymbol) : Moved(cs[state][i], cs[target]),
         NextSymbol, symbolList \in Seq(Int), symbol \in DOMAIN symbolList
  PROVE  /\ MovedItems' /\ Shifts' /\ ForStates(actionTable)' /\ ForStates(gotoTable)'
         /\ Len(actionTable') = n /\ Len(gotoTable') = n
         /\ \A s \in DOMAIN actionTable' : \A t \in DOMAIN actionTable'[s] : actionTable'[s][t] \in Actions
         /\ state' \in Nat \ {0} /\ symbol' \in DOMAIN symbolList
<1>1. /\ actionTable' = [s \in 1 .. n |-> actionTable'[s]] /\ Len(actionTable') = n
      /\ gotoTable' = [s \in 1 .. n |-> gotoTable'[s]] /\ Len(gotoTable') = n
      /\ \A s \in 1 .. n : s # state => actionTable'[s] = actions[s] /\ gotoTable'[s] = gotos[s]
      /\ DOMAIN actionTable'[state] =
           DOMAIN actions[state] \cup (IF IsTerminal(CurrentSymbol) THEN {CurrentSymbol} ELSE {})
      /\ \A t \in DOMAIN actionTable'[state] :
           actionTable'[state][t] = IF IsTerminal(CurrentSymbol) /\ t = CurrentSymbol
                                    THEN ShiftTo(target) ELSE actions[state][t]
      /\ \A x : Leads(actionTable'[state], gotoTable'[state], x) =
           IF x # CurrentSymbol THEN Leads(actions[state], gotos[state], x)
           ELSE IF IsTerminal(x) \/ ~IsAccepting(x) THEN target
           ELSE Leads(actions[state], gotos[state], x)
  <2>1. target \in Nat \ {0}
    OBVIOUS
  <2> QED BY <2>1, TransitionFacts
<1>2. /\ state' \in Nat \ {0} /\ symbol' \in DOMAIN symbolList
      /\ \A s \in Nat, k \in DOMAIN symbolList :
           Tried(s, k)' <=> Tried(s, k) \/ (s = state /\ k = symbol)
  BY NextSymbolFacts
<1>3. ForStates(actionTable)' /\ ForStates(gotoTable)'
  BY <1>1 DEF ForStates
<1>4. DOMAIN actionTable' = 1 .. n
  BY <1>1
<1>5. ShiftTo(target) \in Actions
  BY DEF ShiftTo, Actions
<1>6. ASSUME NEW s \in 1 .. n, NEW t \in DOMAIN actionTable'[s]
      PROVE  /\ actionTable'[s][t] \in Actions /\ ItemsAt(cs[s], t) # {}
             /\ \E j \in 1 .. n : actionTable'[s][t] = ShiftTo(j)
  <2>1. \/ t \in DOMAIN actions[s] /\ actionTable'[s][t] = actions[s][t]
        \/ s = state /\ t = CurrentSymbol /\ actionTable'[s][t] = ShiftTo(target)
    BY <1>1
  <2>2. CASE t \in DOMAIN actions[s] /\ actionTable'[s][t] = actions[s][t]
    BY <2>2 DEF Shifting
  <2>3. CASE s = state /\ t = CurrentSymbol /\ actionTable'[s][t] = ShiftTo(target)
    BY <1>5, <2>3
  <2> QED BY <2>1, <2>2, <2>3
<1>7. Follows(cs, n, actionTable', gotoTable')
  <2>1. ASSUME NEW s \in 1 .. n, NEW i \in DOMAIN cs[s], ~AtEnd(cs[s][i]),
               NEW next, next = Leads(actionTable'[s], gotoTable'[s], AfterDot(cs[s][i])), next # 0
        PROVE  next \in 1 .. n /\ Moved(cs[s][i], cs[next])
    <3>1. \/ next = Leads(actions[s], gotos[s], AfterDot(cs[s][i]))
          \/ s = state /\ AfterDot(cs[s][i]) = CurrentSymbol /\ next = target
      BY <1>1, <2>1
    <3>2. CASE next = Leads(actions[s], gotos[s], AfterDot(cs[s][i]))
      BY <2>1, <3>2 DEF Follows
    <3>3. CASE s = state /\ AfterDot(cs[s][i]) = CurrentSymbol /\ next = target
      <4>1. i \in ItemsAt(cs[state], CurrentSymbol)
        BY <2>1, <3>3 DEF ItemsAt
      <4> QED BY <3>3, <4>1
    <3> QED BY <3>1, <3>2, <3>3
  <2> QED BY <2>1 DEF Follows
<1>8. MovedItems'
  <2>1. ASSUME NEW s \in 1 .. n, NEW i \in DOMAIN cs[s], NEW item, item = cs[s][i], ~AtEnd(item)', Successor(s, item)' # 0
        PROVE  Successor(s, item)' \in 1 .. n /\ Moved(item, canonicalSet[Successor(s, item)])'
    <3> DEFINE next == Leads(actionTable'[s], gotoTable'[s], AfterDot(cs[s][i]))
    <3>1. Successor(s, item)' = next /\ ~AtEnd(item)
      BY <2>1 DEF Successor, Leads, Entry, AfterDot, AtEnd, Prod
    <3>2. next \in 1 .. n /\ Moved(item, cs[next])
      BY <1>7, <2>1, <3>1 DEF Follows
    <3> HIDE DEF next
    <3> QED BY <3>1, <3>2 DEF Moved, SameCore, SameRule, Prod
  <2> QED BY <2>1 DEF MovedItems
<1>9. Shifts'
  <2>1. ASSUME NEW s \in 1 .. n, NEW t
        PROVE  Shifters(s, t)' = ItemsAt(cs[s], t)
    BY DEF Shifters, ItemsAt, AfterDot, AtEnd, Prod
  <2>2. ASSUME NEW s \in 1 .. n, NEW k \in DOMAIN symbolList, Tried(s, k)', IsTerminal(symbolList[k]),
               ItemsAt(cs[s], symbolList[k]) # {}
        PROVE  symbolList[k] \in DOMAIN actionTable'[s]
    <3>1. CASE s = state /\ k = symbol
      BY <1>1, <2>2, <3>1 DEF CurrentSymbol
    <3>2. CASE ~(s = state /\ k = symbol)
      <4>1. Tried(s, k)
        <5>1. s \in Nat
          OBVIOUS
        <5> QED BY <1>2, <2>2, <3>2, <5>1
      <4>2. symbolList[k] \in DOMAIN actions[s]
        BY <2>2, <4>1 DEF Shifting
      <4> QED BY <1>1, <4>2
    <3> QED BY <3>1, <3>2
  <2> QED BY <1>6, <2>1, <2>2 DEF Shifts
<1> QED BY <1>1, <1>2, <1>3, <1>4, <1>6, <1>8, <1>9

\* A state that was not found is added, with the transition that leads to it.
LEMMA StepAddState == GInv /\ AddState => GInv'
<1> SUFFICES ASSUME GInv, AddState PROVE GInv'
  OBVIOUS
<1> DEFINE n == Len(canonicalSet)
           actions == Append(actionTable, EmptyRow)
           gotos == Append(gotoTable, EmptyRow)
<1>1. /\ phase = "closure" /\ lookAt = <<>> /\ ~Starting /\ NewState(gotoSet, {state}) /\ NextSymbol
      /\ SetTransition(n + 1, actions, gotos)
      /\ phase' = "goto" /\ gotoSet' = <<>> /\ lookAt' = lookAt
      /\ UNCHANGED <<input, type, building, conflicts, terminalItems, searchIndex, spread>>
  BY DEF AddState, Searching, reducing
<1>2. Making /\ Making'
  BY <1>1 DEF Making
<1>3. /\ productions \in Seq(Production) /\ Item' = Item /\ productions' = productions /\ symbolList' = symbolList
      /\ AcceptingCount' = AcceptingCount /\ AcceptingCount \in Nat \ {0} /\ symbolList \in Seq(Int)
  BY <1>1, <1>2, Frame
<1>4. gotoSet # <<>> /\ spread = <<>> /\ searchIndex \in Nat \ {0}
  BY <1>1 DEF GInv, Positions
<1>5. /\ state \in Nat \ {0} /\ symbol \in DOMAIN symbolList /\ state \in DOMAIN canonicalSet
      /\ Shifters(state, CurrentSymbol) # {}
      /\ \A i \in Shifters(state, CurrentSymbol) : Moved(canonicalSet[state][i], gotoSet)
  BY <1>1 DEF GInv, Positions, Following, MovedOn
<1>6. /\ n \in Nat /\ DOMAIN canonicalSet = 1 .. n /\ DOMAIN canonicalSet' = 1 .. n + 1
      /\ canonicalSet' \in Seq(Seq(Item')) /\ Len(canonicalSet') = n + 1
      /\ \A s \in 1 .. n : canonicalSet'[s] = canonicalSet[s]
      /\ canonicalSet'[n + 1] = gotoSet
      /\ \A s \in DOMAIN canonicalSet' : ItemsOK(canonicalSet[s])' /\ canonicalSet'[s] # <<>>
      /\ ForStates(sourceStates)' /\ Len(sourceStates') = n + 1
  BY <1>1, <1>3, <1>4, NewStateFacts
<1>7. /\ IsTable(actionTable, n) /\ IsTable(gotoTable, n)
      /\ \A s \in 1 .. n : \A t \in DOMAIN actionTable[s] : actionTable[s][t] \in Actions
      /\ Follows(canonicalSet, n, actionTable, gotoTable)
      /\ Shifting(canonicalSet, n, actionTable)
  BY <1>2, TablesFacts
<1>8. /\ actions = [s \in 1 .. n + 1 |-> IF s = n + 1 THEN EmptyRow ELSE actionTable[s]]
      /\ gotos = [s \in 1 .. n + 1 |-> IF s = n + 1 THEN EmptyRow ELSE gotoTable[s]]
  BY <1>6, <1>7, AppendTable DEF IsTable
<1>9. PICK cs : canonicalSet' = cs
  OBVIOUS
<1> HIDE DEF actions, gotos, n
<1>10. /\ \A s \in 1 .. n : s \in 1 .. n + 1 /\ actions[s] = actionTable[s] /\ gotos[s] = gotoTable[s]
                            /\ cs[s] = canonicalSet[s]
       /\ actions[n + 1] = EmptyRow /\ gotos[n + 1] = EmptyRow
       /\ \A s \in 1 .. n + 1 : s \in 1 .. n \/ s = n + 1
       /\ state \in 1 .. n /\ n + 1 \in 1 .. n + 1
  BY <1>5, <1>6, <1>8, <1>9
<1>11. IsTable(actions, n + 1) /\ IsTable(gotos, n + 1)
  BY <1>8 DEF IsTable
<1>12. Follows(cs, n + 1, actions, gotos)
  <2>1. ASSUME NEW s \in 1 .. n + 1, NEW i \in DOMAIN cs[s], ~AtEnd(cs[s][i]),
               NEW next, next = Leads(actions[s], gotos[s], AfterDot(cs[s][i])), next # 0
        PROVE  next \in 1 .. n + 1 /\ Moved(cs[s][i], cs[next])
    <3>1. CASE s \in 1 .. n
      <4>1. next \in 1 .. n /\ Moved(canonicalSet[s][i], canonicalSet[next])
        BY <1>7, <1>10, <2>1, <3>1 DEF Follows
      <4> QED BY <1>10, <3>1, <4>1
    <3>2. CASE s = n + 1
      BY <1>10, <2>1, <3>2 DEF Leads, Entry, EmptyRow, NoAction
    <3> QED BY <1>10, <3>1, <3>2
  <2> QED BY <2>1 DEF Follows
<1>13. Shifting(cs, n + 1, actions)
  <2>1. ASSUME NEW s \in 1 .. n + 1, NEW t \in DOMAIN actions[s]
        PROVE  ItemsAt(cs[s], t) # {} /\ \E j \in 1 .. n + 1 : actions[s][t] = ShiftTo(j)
    <3>1. s \in 1 .. n /\ t \in DOMAIN actionTable[s]
      BY <1>10, <2>1 DEF EmptyRow
    <3>2. ItemsAt(canonicalSet[s], t) # {} /\ \E j \in 1 .. n : actionTable[s][t] = ShiftTo(j)
      BY <1>7, <3>1 DEF Shifting
    <3> QED BY <1>10, <3>1, <3>2
  <2>2. ASSUME NEW s \in 1 .. n + 1, NEW k \in DOMAIN symbolList,
               Tried(s, k), IsTerminal(symbolList[k]), ItemsAt(cs[s], symbolList[k]) # {}
        PROVE  symbolList[k] \in DOMAIN actions[s]
    <3>1. s \in 1 .. n
      BY <1>6, <1>10, <2>2 DEF Tried
    <3> QED BY <1>7, <1>10, <2>2, <3>1 DEF Shifting
  <2> QED BY <2>1, <2>2 DEF Shifting
<1>14. \A s \in 1 .. n + 1 : \A t \in DOMAIN actions[s] : actions[s][t] \in Actions
  BY <1>7, <1>10 DEF EmptyRow
<1>15. /\ ItemsAt(cs[state], CurrentSymbol) # {}
       /\ \A i \in ItemsAt(cs[state], CurrentSymbol) : Moved(cs[state][i], cs[n + 1])
  <2>1. ItemsAt(cs[state], CurrentSymbol) = Shifters(state, CurrentSymbol)
    BY <1>10 DEF ItemsAt, Shifters
  <2> QED BY <1>5, <1>6, <1>9, <1>10, <2>1
<1>16. /\ MovedItems' /\ Shifts' /\ ForStates(actionTable)' /\ ForStates(gotoTable)'
       /\ Len(actionTable') = n + 1 /\ Len(gotoTable') = n + 1
       /\ \A s \in DOMAIN actionTable' : \A t \in DOMAIN actionTable'[s] : actionTable'[s][t] \in Actions
       /\ state' \in Nat \ {0} /\ symbol' \in DOMAIN symbolList
  <2> DEFINE m == n + 1
  <2>1. m \in Nat /\ state \in 1 .. m /\ m \in 1 .. m /\ SetTransition(m, actions, gotos) /\ DOMAIN cs = 1 .. m
    BY <1>1, <1>6, <1>9, <1>10
  <2>2. /\ IsTable(actions, m) /\ IsTable(gotos, m) /\ Follows(cs, m, actions, gotos) /\ Shifting(cs, m, actions)
        /\ \A s \in 1 .. m : \A t \in DOMAIN actions[s] : actions[s][t] \in Actions
        /\ ItemsAt(cs[state], CurrentSymbol) # {}
        /\ \A i \in ItemsAt(cs[state], CurrentSymbol) : Moved(cs[state][i], cs[m])
    BY <1>11, <1>12, <1>13, <1>14, <1>15
  <2>3. UNCHANGED <<productions, symbolList>> /\ NextSymbol /\ symbolList \in Seq(Int) /\ symbol \in DOMAIN symbolList
    BY <1>1, <1>3, <1>5
  <2> HIDE DEF m
  <2>4. /\ MovedItems' /\ Shifts' /\ ForStates(actionTable)' /\ ForStates(gotoTable)'
        /\ Len(actionTable') = m /\ Len(gotoTable') = m
        /\ \A s \in DOMAIN actionTable' : \A t \in DOMAIN actionTable'[s] : actionTable'[s][t] \in Actions
        /\ state' \in Nat \ {0} /\ symbol' \in DOMAIN symbolList
    BY <1>9, <2>1, <2>2, <2>3, TransitionKeeps
  <2> QED BY <2>4 DEF m
<1>17. TablesOK'
  BY <1>6, <1>16 DEF TablesOK, Actions
<1>18. TypeOK'
  <2>1. ItemsOK(gotoSet)' /\ lookAt' \in Seq(DOMAIN gotoSet')
    BY <1>1 DEF ItemsOK
  <2> QED BY <1>1, <1>2, <1>17, <2>1, Frame DEF TypeOK
<1>19. Tables'
  BY <1>6, <1>16 DEF Tables
<1>20. Positions'
  <2>1. ~Starting'
    BY <1>1, <1>3, <1>6 DEF Starting, n
  <2> QED BY <1>1, <1>3, <1>4, <1>16, <2>1 DEF Positions, Following
<1>21. MovedOn'
  BY <1>1 DEF MovedOn
<1> QED BY <1>1, <1>2, <1>16, <1>18, <1>19, <1>20, <1>21, Frame DEF GInv

\* The transition leads to the state that was found.
LEMMA StepEndMerge == GInv /\ EndMerge => GInv'
<1> SUFFICES ASSUME GInv, EndMerge PROVE GInv'
  OBVIOUS
<1>1. /\ phase = "merge" /\ phase' = "goto" /\ spread = <<>> /\ NextSymbol
      /\ SetTransition(searchIndex, actionTable, gotoTable)
      /\ UNCHANGED <<input, type, building, conflicts, terminalItems, canonicalSet, sourceStates, gotoSet, lookAt,
                     searchIndex, spread>>
  BY DEF EndMerge, reducing, closing
<1>2. Making /\ Making'
  BY <1>1 DEF Making
<1>3. /\ productions \in Seq(Production) /\ Item' = Item /\ productions' = productions /\ symbolList' = symbolList
      /\ AcceptingCount' = AcceptingCount /\ symbolList \in Seq(Int)
  BY <1>1, <1>2, Frame
<1>4. /\ state \in DOMAIN canonicalSet /\ symbol \in DOMAIN symbolList /\ gotoSet = <<>> /\ ~Starting
      /\ searchIndex \in DOMAIN canonicalSet /\ searchIndex \in Nat \ {0}
      /\ Shifters(state, CurrentSymbol) # {}
      /\ \A i \in Shifters(state, CurrentSymbol) : Moved(canonicalSet[state][i], canonicalSet[searchIndex])
  BY <1>1 DEF GInv, Positions, Following, MovedOn
<1>5. PICK n : n = Len(canonicalSet)
  OBVIOUS
<1>6. /\ n \in Nat /\ DOMAIN canonicalSet = 1 .. n
      /\ IsTable(actionTable, n) /\ IsTable(gotoTable, n)
      /\ \A s \in 1 .. n : \A t \in DOMAIN actionTable[s] : actionTable[s][t] \in Actions
      /\ Follows(canonicalSet, n, actionTable, gotoTable)
      /\ Shifting(canonicalSet, n, actionTable)
  BY <1>2, <1>5, TablesFacts
<1>7. /\ ItemsAt(canonicalSet[state], CurrentSymbol) # {}
      /\ \A i \in ItemsAt(canonicalSet[state], CurrentSymbol) : Moved(canonicalSet[state][i], canonicalSet[searchIndex])
  BY <1>4 DEF ItemsAt, Shifters
<1>8. /\ MovedItems' /\ Shifts' /\ ForStates(actionTable)' /\ ForStates(gotoTable)'
      /\ Len(actionTable') = n /\ Len(gotoTable') = n
      /\ \A s \in DOMAIN actionTable' : \A t \in DOMAIN actionTable'[s] : actionTable'[s][t] \in Actions
      /\ state' \in Nat \ {0} /\ symbol' \in DOMAIN symbolList
  <2>1. PICK cs : canonicalSet' = cs /\ cs = canonicalSet
    BY <1>1
  <2>2. state \in 1 .. n /\ searchIndex \in 1 .. n /\ DOMAIN cs = 1 .. n /\ UNCHANGED <<productions, symbolList>>
        /\ Follows(cs, n, actionTable, gotoTable) /\ Shifting(cs, n, actionTable)
        /\ ItemsAt(cs[state], CurrentSymbol) # {}
        /\ \A i \in ItemsAt(cs[state], CurrentSymbol) : Moved(cs[state][i], cs[searchIndex])
    BY <1>3, <1>4, <1>6, <1>7, <2>1
  <2> QED BY <1>1, <1>3, <1>4, <1>6, <2>1, <2>2, TransitionKeeps
<1>9. TablesOK'
  BY <1>1, <1>3, <1>5, <1>8 DEF GInv, TypeOK, TablesOK, ItemsOK, Prod
<1>10. TypeOK'
  <2>1. ItemsOK(gotoSet)' /\ lookAt' \in Seq(DOMAIN gotoSet')
    BY <1>1, <1>4 DEF GInv, TypeOK, ItemsOK
  <2> QED BY <1>1, <1>2, <1>9, <2>1, Frame DEF TypeOK
<1>11. Tables'
  BY <1>1, <1>8 DEF GInv, Tables, ForStates
<1>12. Positions'
  <2>1. ~Starting'
    BY <1>1, <1>3, <1>4 DEF Starting
  <2> QED BY <1>1, <1>3, <1>4, <1>8, <2>1 DEF Positions, Following
<1>13. MovedOn'
  BY <1>1 DEF MovedOn
<1> QED BY <1>1, <1>2, <1>8, <1>10, <1>11, <1>12, <1>13, Frame DEF GInv

\* A lookahead that enters an item leaves the cores of all states, and what is
\* said of them.
LEMMA CoresKept ==
  ASSUME GInv, Making, Making', phase' = phase,
         UNCHANGED <<productions, symbolList, state, symbol, actionTable, gotoTable, searchIndex, gotoSet, input>>,
         DOMAIN canonicalSet' = DOMAIN canonicalSet, Len(canonicalSet') = Len(canonicalSet),
         \A s \in DOMAIN canonicalSet :
           /\ DOMAIN canonicalSet'[s] = DOMAIN canonicalSet[s]
           /\ \A i \in DOMAIN canonicalSet[s] : /\ canonicalSet'[s][i] \in Item
                                                /\ canonicalSet'[s][i].prod = canonicalSet[s][i].prod
                                                /\ canonicalSet'[s][i].dot = canonicalSet[s][i].dot
  PROVE  /\ MovedItems' /\ MovedOn' /\ Shifts'
         /\ \A s \in DOMAIN canonicalSet : \A t : Shifters(s, t)' = Shifters(s, t)
<1>1. \A s \in DOMAIN canonicalSet : \A t : Shifters(s, t)' = Shifters(s, t)
  BY DEF Shifters, AtEnd, AfterDot, Prod
<1>2. ASSUME NEW item, NEW s \in DOMAIN canonicalSet, Moved(item, canonicalSet[s])
      PROVE  Moved(item, canonicalSet[s])'
  <2> DEFINE moved == [item EXCEPT !.dot = @ + 1]
  <2>1. PICK j \in DOMAIN canonicalSet[s] : SameCore(canonicalSet[s][j], moved)
    BY <1>2 DEF Moved
  <2> HIDE DEF moved
  <2>2. canonicalSet[s][j].dot = moved.dot /\ SameRule(Prod(canonicalSet[s][j]), Prod(moved))
    BY <2>1 DEF SameCore
  <2>3. j \in DOMAIN canonicalSet'[s] /\ canonicalSet'[s][j].dot = moved.dot
        /\ SameRule(Prod(canonicalSet'[s][j]), Prod(moved))
    BY <2>2 DEF Prod
  <2>4. \E k \in DOMAIN canonicalSet'[s] : SameCore(canonicalSet'[s][k], moved)
    BY <2>3 DEF SameCore
  <2> QED BY <2>4 DEF Moved, SameCore, SameRule, Prod, moved
\* Only where an item stands matters.
<1>3. ASSUME NEW x, NEW y, NEW to, y.prod = x.prod, y.dot = x.dot, x \in Item, y \in Item,
             Moved(x, to)
      PROVE  Moved(y, to)
  <2> DEFINE mx == [x EXCEPT !.dot = @ + 1]
             my == [y EXCEPT !.dot = @ + 1]
  <2>1. PICK j \in DOMAIN to : SameCore(to[j], mx)
    BY <1>3 DEF Moved
  <2>2. mx.dot = my.dot /\ mx.prod = my.prod
    BY <1>3 DEF Item
  <2> HIDE DEF mx, my
  <2>3. SameCore(to[j], my)
    BY <2>1, <2>2 DEF SameCore, SameRule, Prod
  <2> QED BY <2>3 DEF Moved, my
<1>4. \A s \in DOMAIN canonicalSet : \A i \in DOMAIN canonicalSet[s] : canonicalSet[s][i] \in Item
  BY DEF GInv, TypeOK, TablesOK
<1>5. MovedItems'
  <2>1. ASSUME NEW s \in DOMAIN canonicalSet, NEW i \in DOMAIN canonicalSet[s], NEW item, item = canonicalSet'[s][i],
               ~AtEnd(item)', Successor(s, item)' # 0
        PROVE  Successor(s, item)' \in DOMAIN canonicalSet /\ Moved(item, canonicalSet[Successor(s, item)])'
    <3> DEFINE old == canonicalSet[s][i]
               next == Successor(s, old)
    <3>1. item \in Item /\ old \in Item /\ item.prod = old.prod /\ item.dot = old.dot
      BY <1>4, <2>1
    <3>2. ~AtEnd(old) /\ Successor(s, item)' = next
      BY <2>1, <3>1 DEF AtEnd, Successor, AfterDot, Entry, Prod
    <3>3. next \in DOMAIN canonicalSet /\ Moved(old, canonicalSet[next])
      BY <2>1, <3>2 DEF GInv, MovedItems
    <3> HIDE DEF old, next
    <3>4. Moved(item, canonicalSet[next])
      BY <1>3, <3>1, <3>3
    <3>5. PICK m : m = next
      OBVIOUS
    <3>6. Moved(item, canonicalSet[m])'
      BY <1>2, <3>3, <3>4, <3>5
    <3> QED BY <3>2, <3>3, <3>5, <3>6 DEF Moved, SameCore, SameRule, Prod
  <2> QED BY <2>1 DEF MovedItems
<1>6. CurrentSymbol' = CurrentSymbol /\ Starting' = Starting
  BY DEF CurrentSymbol, Starting, AcceptingCount
<1>7. MovedOn'
  <2>1. CASE phase = "closure" /\ ~Starting
    <3>1. state \in DOMAIN canonicalSet
      BY <2>1 DEF GInv, Positions, Following
    <3>2. ASSUME NEW i \in Shifters(state, CurrentSymbol), NEW item, item = canonicalSet'[state][i]
          PROVE  Moved(item, gotoSet)'
      <4>1. Moved(canonicalSet[state][i], gotoSet) /\ i \in DOMAIN canonicalSet[state]
        BY <2>1 DEF GInv, MovedOn, Shifters
      <4>2. Moved(item, gotoSet)
        BY <1>3, <1>4, <3>1, <3>2, <4>1
      <4> QED BY <4>2 DEF Moved, SameCore, SameRule, Prod
    <3> QED BY <1>1, <1>6, <2>1, <3>1, <3>2 DEF MovedOn
  <2>2. CASE phase = "merge"
    <3>1. state \in DOMAIN canonicalSet /\ searchIndex \in DOMAIN canonicalSet
      BY <2>2 DEF GInv, Positions, Following
    <3>2. ASSUME NEW i \in Shifters(state, CurrentSymbol), NEW item, item = canonicalSet'[state][i]
          PROVE  Moved(item, canonicalSet[searchIndex])'
      <4>1. Moved(canonicalSet[state][i], canonicalSet[searchIndex]) /\ i \in DOMAIN canonicalSet[state]
        BY <2>2 DEF GInv, MovedOn, Shifters
      <4>2. Moved(item, canonicalSet[searchIndex])
        BY <1>3, <1>4, <3>1, <3>2, <4>1
      <4>3. PICK m : m = searchIndex
        OBVIOUS
      <4>4. Moved(item, canonicalSet[m])'
        BY <1>2, <3>1, <4>2, <4>3
      <4> QED BY <4>3, <4>4 DEF Moved, SameCore, SameRule, Prod
    <3> QED BY <1>1, <1>6, <2>2, <3>1, <3>2 DEF MovedOn
  <2>3. CASE ~(phase = "closure" /\ ~Starting) /\ phase # "merge"
    BY <1>6, <2>3 DEF MovedOn
  <2> QED BY <2>1, <2>2, <2>3
<1>8. Shifts'
  <2>1. \A s, k : Tried(s, k)' = Tried(s, k)
    BY DEF Tried
  <2> QED BY <1>1, <2>1 DEF GInv, Shifts
<1> QED BY <1>1, <1>5, <1>7, <1>8

\* A lookahead that moves on finds the item it moves to.
LEMMA StepSpreadLookAhead == GInv /\ SpreadLookAhead => GInv'
<1> SUFFICES ASSUME GInv, SpreadLookAhead PROVE GInv'
  OBVIOUS
<1>1. PICK s, i, t, item, moved : /\ s = Head(spread)[1] /\ i = Head(spread)[2] /\ t = Head(spread)[3]
                                  /\ item = canonicalSet[s][i] /\ moved = [item EXCEPT !.dot = @ + 1]
  OBVIOUS
<1> DEFINE next == IF AtEnd(item) THEN 0 ELSE Successor(s, item)
           sel == Place(canonicalSet[next], moved)
           grown == [canonicalSet EXCEPT ![s][i].la = @ \cup {t}]
<1>2. /\ phase = "merge" /\ phase' = "merge" /\ spread # <<>>
      /\ \/ spread' = Tail(spread) /\ canonicalSet' = canonicalSet
         \/ /\ canonicalSet' = grown
            /\ spread' = IF next = 0 THEN Tail(spread) ELSE <<<<next, sel, t>>>> \o Tail(spread)
      /\ UNCHANGED <<input, type, building, conflicts, terminalItems, sourceStates, actionTable, gotoTable,
                     state, symbol, gotoSet, lookAt, searchIndex>>
  BY <1>1 DEF SpreadLookAhead, reducing, closing
<1>3. Making /\ Making'
  BY <1>2 DEF Making
<1>4. /\ productions \in Seq(Production) /\ Item' = Item /\ productions' = productions /\ symbolList' = symbolList
      /\ AcceptingCount' = AcceptingCount /\ Terminals' = Terminals
  BY <1>2, <1>3, Frame
<1>5. canonicalSet \in Seq(Seq(Item)) /\ \A q \in DOMAIN canonicalSet : ItemsOK(canonicalSet[q])
  BY DEF GInv, TypeOK, TablesOK
<1>6. /\ spread \in Seq(Nat \X Nat \X Terminals)
      /\ \A k \in DOMAIN spread : /\ spread[k][1] \in DOMAIN canonicalSet
                                   /\ spread[k][2] \in DOMAIN canonicalSet[spread[k][1]]
      /\ ~Starting /\ gotoSet = <<>>
  BY <1>2 DEF GInv, Positions
<1>7. s \in DOMAIN canonicalSet /\ i \in DOMAIN canonicalSet[s] /\ t \in Terminals
  <2>1. 1 \in DOMAIN spread /\ Head(spread) = spread[1] /\ spread[1] \in Nat \X Nat \X Terminals
    BY <1>2, <1>6
  <2> QED BY <1>1, <1>6, <2>1
<1>8. item \in Item
  BY <1>1, <1>5, <1>7
<1>9. /\ DOMAIN canonicalSet' = DOMAIN canonicalSet /\ canonicalSet' \in Seq(Seq(Item))
      /\ Len(canonicalSet') = Len(canonicalSet)
      /\ \A q \in DOMAIN canonicalSet :
           /\ DOMAIN canonicalSet'[q] = DOMAIN canonicalSet[q]
           /\ \A j \in DOMAIN canonicalSet[q] : /\ canonicalSet'[q][j] \in Item
                                                /\ canonicalSet'[q][j].prod = canonicalSet[q][j].prod
                                                /\ canonicalSet'[q][j].dot = canonicalSet[q][j].dot
  <2>1. CASE canonicalSet' = canonicalSet
    BY <1>5, <2>1
  <2>2. CASE canonicalSet' = grown
    <3> DEFINE new == [item EXCEPT !.la = @ \cup {t}]
               row == [canonicalSet[s] EXCEPT ![i] = new]
    <3>1. new \in Item /\ new.prod = item.prod /\ new.dot = item.dot
      BY <1>7, <1>8 DEF Item
    <3>2. canonicalSet' = [canonicalSet EXCEPT ![s] = row]
      BY <1>1, <2>2
    <3> HIDE DEF new
    <3>3. canonicalSet[s] \in Seq(Item)
      BY <1>5, <1>7
    <3>4. row \in Seq(Item) /\ DOMAIN row = DOMAIN canonicalSet[s]
          /\ \A j \in DOMAIN canonicalSet[s] : row[j] = IF j = i THEN new ELSE canonicalSet[s][j]
      BY <1>7, <3>1, <3>3
    <3> HIDE DEF row
    <3>5. /\ DOMAIN canonicalSet' = DOMAIN canonicalSet /\ canonicalSet' \in Seq(Seq(Item))
          /\ Len(canonicalSet') = Len(canonicalSet)
          /\ \A q \in DOMAIN canonicalSet : canonicalSet'[q] = IF q = s THEN row ELSE canonicalSet[q]
      BY <1>5, <1>7, <3>2, <3>4
    <3>6. ASSUME NEW q \in DOMAIN canonicalSet
          PROVE  /\ DOMAIN canonicalSet'[q] = DOMAIN canonicalSet[q]
                 /\ \A j \in DOMAIN canonicalSet[q] : /\ canonicalSet'[q][j] \in Item
                                                     /\ canonicalSet'[q][j].prod = canonicalSet[q][j].prod
                                                     /\ canonicalSet'[q][j].dot = canonicalSet[q][j].dot
      <4>1. canonicalSet[q] \in Seq(Item)
        BY <1>5
      <4>2. CASE q = s
        <5>1. canonicalSet'[q] = row /\ item = canonicalSet[q][i]
          BY <1>1, <3>5, <4>2
        <5>2. DOMAIN row = DOMAIN canonicalSet[q]
              /\ \A j \in DOMAIN canonicalSet[q] : row[j] = IF j = i THEN new ELSE canonicalSet[q][j]
          BY <3>4, <4>2
        <5> QED BY <3>1, <4>1, <5>1, <5>2
      <4>3. CASE q # s
        BY <3>5, <4>1, <4>3
      <4> QED BY <4>2, <4>3
    <3> QED BY <3>5, <3>6
  <2> QED BY <1>2, <2>1, <2>2
<1>10. MovedItems' /\ MovedOn' /\ Shifts' /\ \A q \in DOMAIN canonicalSet : \A x : Shifters(q, x)' = Shifters(q, x)
  BY <1>2, <1>3, <1>4, <1>9, CoresKept
<1>11. TablesOK'
  <2>1. ASSUME NEW q \in DOMAIN canonicalSet'
        PROVE  ItemsOK(canonicalSet[q])'
    <3>1. canonicalSet'[q] \in Seq(Item)
      BY <1>9
    <3>2. ASSUME NEW j \in DOMAIN canonicalSet'[q]
          PROVE  canonicalSet'[q][j].dot <= Len(Prod(canonicalSet'[q][j]).right)
      BY <1>5, <1>9, <2>1, <3>2 DEF ItemsOK, Prod
    <3> QED BY <1>4, <3>1, <3>2 DEF ItemsOK, Prod
  <2> QED BY <1>2, <1>4, <1>9, <2>1 DEF GInv, TypeOK, TablesOK, Actions
<1>12. TypeOK'
  <2>1. ItemsOK(gotoSet)' /\ lookAt' \in Seq(DOMAIN gotoSet')
    BY <1>2, <1>6 DEF GInv, TypeOK, ItemsOK
  <2> QED BY <1>2, <1>3, <1>11, <2>1, Frame DEF TypeOK
<1>13. Tables'
  <2>1. \A q \in DOMAIN canonicalSet' : canonicalSet'[q] # <<>>
    <3>1. \A q \in DOMAIN canonicalSet : canonicalSet[q] \in Seq(Item) /\ canonicalSet[q] # <<>>
      BY <1>5 DEF GInv, Tables
    <3>2. ASSUME NEW q \in DOMAIN canonicalSet
          PROVE  DOMAIN canonicalSet[q] # {}
      <4>1. PICK items : items = canonicalSet[q]
        OBVIOUS
      <4>2. items \in Seq(Item) /\ items # <<>>
        BY <3>1, <4>1
      <4>3. Len(items) \in Nat \ {0} /\ DOMAIN items = 1 .. Len(items)
        BY <4>2, EmptySeq
      <4>4. 1 \in DOMAIN items
        BY <4>3
      <4> QED BY <4>1, <4>4
    <3> QED BY <1>9, <3>2
  <2> QED BY <1>2, <1>9, <2>1 DEF GInv, Tables, ForStates
<1>14. /\ spread' \in Seq(Nat \X Nat \X Terminals)
       /\ \A k \in DOMAIN spread' : /\ spread'[k][1] \in DOMAIN canonicalSet
                                    /\ spread'[k][2] \in DOMAIN canonicalSet[spread'[k][1]]
  <2> DEFINE rest == Tail(spread)
             T == Nat \X Nat \X Terminals
             here(x) == x[1] \in DOMAIN canonicalSet /\ x[2] \in DOMAIN canonicalSet[x[1]]
  <2>1. rest \in Seq(T) /\ \A k \in DOMAIN rest : here(rest[k])
    <3>1. spread \in Seq(T) /\ spread # <<>>
      BY <1>2, <1>6
    <3> HIDE DEF T
    <3>2. rest \in Seq(T) /\ \A k \in DOMAIN rest : k + 1 \in DOMAIN spread /\ rest[k] = spread[k + 1]
      BY <3>1
    <3> QED BY <1>6, <3>2
  <2>2. CASE spread' = rest
    BY <2>1, <2>2
  <2>3. CASE next # 0 /\ spread' = <<<<next, sel, t>>>> \o rest
    <3>1. ~AtEnd(item) /\ next = Successor(s, item)
      BY <2>3
    <3>2. next \in DOMAIN canonicalSet /\ Moved(item, canonicalSet[next])
      BY <1>1, <1>3, <1>7, <2>3, <3>1 DEF GInv, MovedItems
    <3> HIDE DEF next
    <3>3. \E j \in DOMAIN canonicalSet[next] : SameCore(canonicalSet[next][j], moved)
      BY <1>1, <3>2 DEF Moved
    <3>4. sel \in DOMAIN canonicalSet[next]
      <4>1. canonicalSet[next] \in Seq(Item)
        BY <1>5, <3>2
      <4>2. PICK m : m = Len(canonicalSet[next])
        OBVIOUS
      <4>3. m \in Nat /\ DOMAIN canonicalSet[next] = 1 .. m
        BY <4>1, <4>2
      <4> QED BY <3>3, <4>2, <4>3, SelectFacts
    <3> HIDE DEF sel
    <3> DEFINE e == <<next, sel, t>>
    <3>5. e \in T /\ here(e)
      <4>1. next \in Nat /\ sel \in Nat
        <5>1. canonicalSet[next] \in Seq(Item)
          BY <1>5, <3>2
        <5> QED BY <1>5, <3>2, <3>4, <5>1
      <4> QED BY <1>7, <3>2, <3>4, <4>1
    <3> HIDE DEF e, T, here, rest
    <3>6. <<e>> \in Seq(T) /\ Len(<<e>>) = 1 /\ <<e>>[1] = e
      BY <3>5
    <3>7. /\ <<e>> \o rest \in Seq(T) /\ Len(<<e>> \o rest) = 1 + Len(rest)
          /\ \A k \in 1 .. 1 + Len(rest) : (<<e>> \o rest)[k] = IF k <= 1 THEN e ELSE rest[k - 1]
      BY <2>1, <3>6, ConcatProperties
    <3>8. spread' = <<e>> \o rest
      BY <2>3 DEF e, rest
    <3>9. ASSUME NEW k \in DOMAIN spread'
          PROVE  here(spread'[k])
      <4>1. k \in 1 .. 1 + Len(rest) /\ Len(rest) \in Nat /\ DOMAIN rest = 1 .. Len(rest)
        BY <2>1, <3>7, <3>8
      <4>2. CASE k = 1
        BY <3>5, <3>7, <3>8, <4>1, <4>2
      <4>3. CASE k # 1
        <5>1. k - 1 \in DOMAIN rest /\ spread'[k] = rest[k - 1]
          BY <3>7, <3>8, <4>1, <4>3
        <5> QED BY <2>1, <5>1
      <4> QED BY <4>2, <4>3
    <3> QED BY <3>7, <3>8, <3>9 DEF here, T
  <2> HIDE DEF next, sel
  <2> QED BY <1>2, <2>2, <2>3
<1>15. Positions'
  <2>1. ~Starting' /\ CurrentSymbol' = CurrentSymbol
    BY <1>2, <1>4, <1>6, <1>9 DEF Starting, CurrentSymbol
  <2>2. /\ state \in Nat \ {0} /\ symbol \in DOMAIN symbolList /\ state \in DOMAIN canonicalSet
        /\ Shifters(state, CurrentSymbol) # {} /\ searchIndex \in Nat \ {0} /\ searchIndex \in DOMAIN canonicalSet
    BY <1>2 DEF GInv, Positions, Following
  <2>3. Shifters(state, CurrentSymbol)' # {}
    BY <1>2, <1>10, <2>1, <2>2
  <2>4. \A k \in DOMAIN spread' : /\ spread'[k][1] \in DOMAIN canonicalSet'
                                  /\ spread'[k][2] \in DOMAIN canonicalSet'[spread'[k][1]]
    BY <1>9, <1>14
  <2>5. spread' \in Seq(Nat \X Nat \X Terminals')
    BY <1>4, <1>14
  <2> QED BY <1>2, <1>4, <1>6, <1>9, <2>1, <2>2, <2>3, <2>4, <2>5 DEF Positions, Following
<1> QED BY <1>2, <1>3, <1>10, <1>12, <1>13, <1>15, Frame DEF GInv

----------------------------------------------------------------------------
\* The reduce actions

\* What is left to keep once the states are made.
LEMMA ReducingFrame ==
  ASSUME GInv, phase \in {"goto", "reduce"}, phase' \in {"reduce", "done"},
         UNCHANGED <<input, type, building, canonicalSet, sourceStates, gotoTable, gotoSet, lookAt, searchIndex, spread>>,
         ForStates(actionTable)', Len(actionTable') = Len(canonicalSet),
         \A s \in DOMAIN actionTable' : \A t \in DOMAIN actionTable'[s] : actionTable'[s][t] \in Actions,
         phase' = "reduce" => state' \in DOMAIN canonicalSet /\ symbol' \in DOMAIN canonicalSet[state'],
         phase' = "done" => state' = Len(canonicalSet) + 1 /\ symbol' = 1,
         AllDecided'
  PROVE  GInv'
<1>1. UNCHANGED <<symbolList, productions, productionCount>>
  BY DEF building
<1>2. AcceptingCount' = AcceptingCount /\ Item' = Item /\ Terminals' = Terminals
  BY <1>1 DEF AcceptingCount, Item, Terminals
<1>3. Added'
  BY <1>1, <1>2 DEF GInv, Added
<1>4. TypeOK'
  <2>1. TablesOK'
    BY <1>1, <1>2 DEF GInv, TypeOK, TablesOK, ItemsOK, Prod, Actions
  <2>2. ItemsOK(gotoSet)' /\ lookAt' \in Seq(DOMAIN gotoSet')
    BY <1>1, <1>2 DEF GInv, TypeOK, ItemsOK, Prod
  <2> QED BY <1>1, <2>1, <2>2 DEF GInv, TypeOK
<1>5. Tables'
  BY DEF GInv, Tables, ForStates
<1>6. Positions'
  <2>1. ~Starting' /\ gotoSet = <<>> /\ spread = <<>> /\ searchIndex \in Nat \ {0}
    BY <1>2 DEF GInv, Positions, Starting
  <2> QED BY <2>1 DEF Positions, Following
<1>7. MovedItems' /\ MovedOn' /\ Shifts' /\ NoneReported'
  BY DEF MovedItems, MovedOn, Shifts, NoneReported, Making
<1> QED BY <1>3, <1>4, <1>5, <1>6, <1>7 DEF GInv

\* Who is in conflict and what settles it depends on the items and the grammar alone.
LEMMA RivalsKept ==
  ASSUME UNCHANGED <<input, productions, canonicalSet>>, NEW s, NEW t, NEW i
  PROVE  Rivals(s, t, i)' = Rivals(s, t, i) /\ Unsettled(s, t, i)' = Unsettled(s, t, i)
<1>1. Rivals(s, t, i)' = Rivals(s, t, i)
  BY DEF Rivals, Reducers, Shifters, AtEnd, AfterDot, Prod
<1>2. \A item : Told(item)' = Told(item) /\ AtEnd(item)' = AtEnd(item) /\ AfterDot(item)' = AfterDot(item)
                /\ Prod(item)' = Prod(item)
  BY DEF Told, Entry, Prod, AtEnd, AfterDot
<1>3. \A left : Telling(canonicalSet[s], t, left)' = Telling(canonicalSet[s], t, left)
  BY <1>2 DEF Telling
<1>4. ASSUME NEW j
      PROVE  Settled(s, t, j, i)' <=> Settled(s, t, j, i)
  BY <1>2, <1>3 DEF Settled
<1> QED BY <1>1, <1>4 DEF Unsettled

\* Every state has been followed over every symbol, so it has the shifts of its items:
\* before any reduction is looked at, that is what is to be decided.
LEMMA StepEndGoto == GInv /\ EndGoto => GInv'
<1> SUFFICES ASSUME GInv, EndGoto PROVE GInv'
  OBVIOUS
<1>1. /\ phase = "goto" /\ phase' = "reduce" /\ state > Len(canonicalSet) /\ state' = 1 /\ symbol' = 1
      /\ UNCHANGED <<input, type, building, canonicalSet, sourceStates, actionTable, gotoTable, gotoSet, lookAt,
                     searchIndex, spread, conflicts, symbolList, productions>>
  BY DEF EndGoto, tables, closing, building
<1>2. Making /\ conflicts = {}
  BY <1>1 DEF Making, GInv, NoneReported
<1>3. PICK n : n = Len(canonicalSet)
  OBVIOUS
<1>4. /\ n \in Nat /\ DOMAIN canonicalSet = 1 .. n /\ IsTable(actionTable, n)
      /\ \A s \in 1 .. n : \A t \in DOMAIN actionTable[s] : actionTable[s][t] \in Actions
      /\ Shifting(canonicalSet, n, actionTable)
  BY <1>2, <1>3, TablesFacts
<1>5. state \in Nat /\ ~Starting
  BY <1>1 DEF GInv, Positions
<1>6. 1 \in DOMAIN canonicalSet /\ 1 \in DOMAIN canonicalSet[1]
  <2>1. AcceptingCount \in Nat \ {0}
    BY <1>1, InputType DEF GInv, Added
  <2>2. 1 \in DOMAIN canonicalSet
    BY <1>3, <1>4, <1>5, <2>1 DEF Starting
  <2>3. canonicalSet[1] \in Seq(Item) /\ canonicalSet[1] # <<>>
    BY <2>2 DEF GInv, TypeOK, TablesOK, ItemsOK, Tables
  <2>4. PICK items : items = canonicalSet[1]
    OBVIOUS
  <2>5. Len(items) \in Nat \ {0} /\ DOMAIN items = 1 .. Len(items)
    BY <2>3, <2>4, EmptySeq
  <2>6. 1 \in DOMAIN items
    BY <2>5
  <2> QED BY <2>2, <2>4, <2>6
<1>7. ASSUME NEW s \in DOMAIN canonicalSet, NEW t \in Terminals
      PROVE  Decided(s, t)'
  <2>1. Seen(s, t)' = {}
    <3>1. s \in Nat \ {0} /\ canonicalSet[s] \in Seq(Item)
      BY <1>4 DEF GInv, TypeOK, TablesOK
    <3>2. \A i \in DOMAIN canonicalSet[s] : ~Tried(s, i)'
      BY <1>1, <3>1 DEF Tried
    <3> QED BY <1>1, <3>2 DEF Seen, Reducers
  <2>2. Shifters(s, t)' = Shifters(s, t) /\ Shifters(s, t) = ItemsAt(canonicalSet[s], t)
    BY <1>1 DEF Shifters, ItemsAt, AtEnd, AfterDot, Prod
  <2>3. ReportsAreTrue(s, t, {})'
    BY <1>1, <1>2 DEF Reports, ReportsAreTrue
  <2>4. CASE t \in DOMAIN actionTable[s]
    <3>1. PICK j \in DOMAIN canonicalSet : actionTable[s][t] = ShiftTo(j)
      BY <1>4, <2>4 DEF Shifting
    <3>2. Shifters(s, t) # {}
      BY <1>4, <2>2, <2>4 DEF Shifting
    <3>3. Entry(actionTable[s], t, NoAction)' = ShiftTo(j)
      BY <1>1, <2>4, <3>1 DEF Entry
    <3>4. ShiftTo(j).kind # "reduce" /\ ShiftTo(j) # NoAction
      BY DEF ShiftTo, NoAction
    <3> QED BY <1>1, <2>1, <2>2, <2>3, <3>2, <3>3, <3>4 DEF Decided
  <2>5. CASE t \notin DOMAIN actionTable[s]
    <3>1. PICK k \in DOMAIN symbolList : symbolList[k] = t
      BY DEF Terminals, ToSet
    <3>2. IsTerminal(t) /\ Tried(s, k)
      BY <1>1, <1>3, <1>4, <1>5 DEF Terminals, Tried
    <3>3. Shifters(s, t) = {}
      BY <1>4, <2>2, <2>5, <3>1, <3>2 DEF Shifting
    <3>4. Entry(actionTable[s], t, NoAction)' = NoAction
      BY <1>1, <2>5 DEF Entry
    <3>5. NoAction.kind # "reduce"
      BY DEF NoAction
    <3> QED BY <1>1, <2>1, <2>2, <2>3, <3>3, <3>4, <3>5 DEF Decided
  <2> QED BY <2>4, <2>5
<1>8. AllDecided'
  BY <1>1, <1>7 DEF AllDecided, Terminals
<1>9. ForStates(actionTable)' /\ Len(actionTable') = Len(canonicalSet)
      /\ \A s \in DOMAIN actionTable' : \A t \in DOMAIN actionTable'[s] : actionTable'[s][t] \in Actions
  BY <1>1 DEF GInv, TypeOK, TablesOK, Tables, ForStates
<1> QED BY <1>1, <1>6, <1>8, <1>9, ReducingFrame

\* One more item of a state has been looked at.
LEMMA EndItemFacts ==
  ASSUME GInv, phase = "reduce", EndItem
  PROVE  /\ phase' \in {"reduce", "done"}
         /\ state \in DOMAIN canonicalSet /\ symbol \in DOMAIN canonicalSet[state]
         /\ phase' = "reduce" => state' \in DOMAIN canonicalSet /\ symbol' \in DOMAIN canonicalSet[state']
         /\ phase' = "done" => state' = Len(canonicalSet) + 1 /\ symbol' = 1
         /\ state' = state => symbol # Len(canonicalSet[state])
         /\ state' # state => state' = state + 1
         /\ \A s \in DOMAIN canonicalSet : \A i \in DOMAIN canonicalSet[s] :
              Tried(s, i)' <=> Tried(s, i) \/ (s = state /\ i = symbol)
         /\ ~Tried(state, symbol)
<1>1. /\ state \in DOMAIN canonicalSet /\ symbol \in DOMAIN canonicalSet[state]
      /\ canonicalSet \in Seq(Seq(Item)) /\ \A s \in DOMAIN canonicalSet : canonicalSet[s] # <<>>
  BY DEF GInv, Positions, TypeOK, TablesOK, Tables
<1>2. PICK n : n = Len(canonicalSet) /\ n \in Nat /\ DOMAIN canonicalSet = 1 .. n
  <2>1. Len(canonicalSet) \in Nat /\ DOMAIN canonicalSet = 1 .. Len(canonicalSet)
    BY <1>1
  <2> QED BY <2>1
<1>3. ASSUME NEW s \in DOMAIN canonicalSet
      PROVE  /\ Len(canonicalSet[s]) \in Nat /\ DOMAIN canonicalSet[s] = 1 .. Len(canonicalSet[s])
             /\ 1 \in DOMAIN canonicalSet[s]
  <2>1. PICK items : items = canonicalSet[s]
    OBVIOUS
  <2>2. items \in Seq(Item) /\ items # <<>>
    BY <1>1, <2>1
  <2>3. Len(items) \in Nat \ {0} /\ DOMAIN items = 1 .. Len(items)
    BY <2>2, EmptySeq
  <2>4. 1 \in DOMAIN items
    BY <2>3
  <2> QED BY <2>1, <2>3, <2>4
<1>4. PICK m : m = Len(canonicalSet[state]) /\ m \in Nat /\ DOMAIN canonicalSet[state] = 1 .. m
  BY <1>1, <1>3
<1>5. \/ symbol < m /\ symbol' = symbol + 1 /\ state' = state /\ phase' = "reduce"
      \/ symbol = m /\ symbol' = 1 /\ state' = state + 1 /\ phase' = IF state = n THEN "done" ELSE "reduce"
  BY <1>1, <1>2, <1>4 DEF EndItem
<1>6. \A s \in DOMAIN canonicalSet : \A i \in DOMAIN canonicalSet[s] :
        Tried(s, i)' <=> Tried(s, i) \/ (s = state /\ i = symbol)
  <2>1. ASSUME NEW s \in 1 .. n, NEW i \in DOMAIN canonicalSet[s]
        PROVE  Tried(s, i)' <=> Tried(s, i) \/ (s = state /\ i = symbol)
    <3>1. i \in Nat \ {0} /\ s \in Nat /\ (s = state => i <= m) /\ state \in Nat /\ symbol \in Nat
      BY <1>1, <1>2, <1>3, <1>4
    <3> QED BY <1>4, <1>5, <3>1 DEF Tried
  <2> QED BY <1>2, <2>1
<1>7. phase' = "reduce" => state' \in DOMAIN canonicalSet /\ symbol' \in DOMAIN canonicalSet[state']
  BY <1>1, <1>2, <1>3, <1>4, <1>5
<1>8. ~Tried(state, symbol)
  BY <1>1, <1>2, <1>4 DEF Tried
<1>9. /\ phase' \in {"reduce", "done"}
      /\ phase' = "done" => state' = n + 1 /\ symbol' = 1
      /\ state' = state => symbol # m
      /\ state' # state => state' = state + 1
  BY <1>1, <1>2, <1>4, <1>5
<1> QED BY <1>1, <1>2, <1>4, <1>6, <1>7, <1>8, <1>9

\* What a declaration says about a reduction is to shift or to reduce.
LEMMA ToldFacts ==
  ASSUME productions \in Seq(Production), NEW item, item.prod \in DOMAIN productions, NEW left \in DOMAIN Told(item)
  PROVE  Told(item)[left] \in {"shift", "reduce"}
<1> DEFINE actions == Prod(item).actions
<1>1. actions \in DeclaredActions
  <2>1. Prod(item) \in Production
    BY DEF Prod
  <2> QED BY <2>1 DEF Production
<1>2. item.dot \in DOMAIN actions /\ Told(item) = actions[item.dot]
  <2>1. DOMAIN <<>> = {}
    OBVIOUS
  <2> QED BY <2>1 DEF Told, Entry
<1>3. actions # <<>>
  BY <1>2
<1> HIDE DEF actions
<1>4. PICK d \in Declarations : actions = d.actions
  BY <1>1, <1>3 DEF DeclaredActions
<1>5. PICK i \in Inputs : d \in ToSet(i.decls)
  BY DEF Declarations
<1>6. IsDeclaration(d)
  BY <1>5, InputsAssumption
<1> QED BY <1>2, <1>4, <1>6 DEF IsDeclaration

\* Neither action is left only of a shift, by a precedence; and a shift yields only
\* to what was declared.
LEMMA DecideFacts ==
  ASSUME productions \in Seq(Production), NEW items, ItemsOK(items), NEW i \in DOMAIN items, NEW t,
         NEW act \in Actions
  PROVE  /\ act = NoAction => Decide(items, i, t, act) = [decision |-> "reduce", report |-> {}]
         /\ Decide(items, i, t, act).decision = "neither" =>
              act.kind = "shift" /\ t \in DOMAIN input.prec /\ input.prec[t].assoc = "nonassoc"
         /\ act.kind = "shift" /\ Decide(items, i, t, act).decision # "shift" =>
              t \in DOMAIN input.prec \/ Telling(items, t, Prod(items[i]).left) # {}
         /\ act.kind = "accept" => Decide(items, i, t, act).decision = "keep"
         /\ Decide(items, i, t, act).report \subseteq {"S/R", "R/R"}
<1> DEFINE prod == Prod(items[i])
           other == Prod(items[terminalItems[t]])
<1>1. \A j \in DOMAIN items : items[j].prod \in DOMAIN productions /\ Prod(items[j]) \in Production
  BY ItemFacts
<1>2. act = NoAction => Decide(items, i, t, act) = [decision |-> "reduce", report |-> {}]
  BY DEF Decide
<1>3. LET res == ShiftReduceConflict(items, prod, t)
      IN  /\ res.decision = "neither" => t \in DOMAIN input.prec /\ input.prec[t].assoc = "nonassoc"
          /\ res.decision # "shift" => t \in DOMAIN input.prec \/ Telling(items, t, prod.left) # {}
          /\ res.report \subseteq {"S/R"}
  <2> DEFINE telling == Telling(items, t, prod.left)
             told == Told(items[Min(telling)])[prod.left]
  <2>1. CASE telling # {}
    <3>1. Min(telling) \in telling
      <4>1. telling \subseteq Nat
        BY DEF Telling, ItemsOK
      <4> HIDE DEF telling
      <4> QED BY <2>1, <4>1, NatMin
    <3>2. Min(telling) \in DOMAIN items /\ prod.left \in DOMAIN Told(items[Min(telling)])
      BY <3>1 DEF Telling
    <3>3. told \in {"shift", "reduce"}
      BY <1>1, <3>2, ToldFacts
    <3>4. ShiftReduceConflict(items, prod, t) = [decision |-> told, report |-> {}]
      BY <2>1 DEF ShiftReduceConflict
    <3> QED BY <2>1, <3>3, <3>4
  <2>2. CASE telling = {} /\ t \notin DOMAIN input.prec
    BY <2>2 DEF ShiftReduceConflict
  <2>3. CASE telling = {} /\ t \in DOMAIN input.prec
    BY <2>3 DEF ShiftReduceConflict
  <2> QED BY <2>1, <2>2, <2>3
<1>4. ReduceReduceConflict(other, prod, t).decision \in {"keep", "reduce"}
      /\ ReduceReduceConflict(other, prod, t).report \subseteq {"R/R"}
  BY DEF ReduceReduceConflict
<1>5. NoAction.kind = "none"
  BY DEF NoAction
<1>6. CASE act = NoAction
  BY <1>2, <1>5, <1>6
<1>7. CASE act # NoAction /\ act.kind = "shift"
  <2>1. Decide(items, i, t, act) = ShiftReduceConflict(items, prod, t)
    BY <1>7 DEF Decide
  <2> QED BY <1>3, <1>7, <2>1
<1>8. CASE act # NoAction /\ act.kind = "reduce"
  <2>1. Decide(items, i, t, act) = ReduceReduceConflict(other, prod, t)
    BY <1>8 DEF Decide
  <2> HIDE DEF prod, other
  <2> QED BY <1>4, <1>8, <2>1
<1>9. CASE act # NoAction /\ act.kind \notin {"shift", "reduce"}
  <2>1. Decide(items, i, t, act) = [decision |-> "keep", report |-> {"R/R"}]
    BY <1>9 DEF Decide
  <2> QED BY <1>9, <2>1
<1> QED BY <1>6, <1>7, <1>8, <1>9

\* A state that comes next has no reduce action yet.
LEMMA NothingSeen ==
  ASSUME GInv, phase = "reduce", EndItem, state' # state, NEW s \in DOMAIN canonicalSet, s = state',
         NEW t, Decided(s, t)
  PROVE  Entry(actionTable[s], t, NoAction).kind # "reduce"
<1> DEFINE act == Entry(actionTable[s], t, NoAction)
<1>1. Seen(s, t) = {}
  <2>1. state' = state + 1 /\ state \in Nat
    BY EndItemFacts DEF GInv, TypeOK, TablesOK
  <2> QED BY <2>1 DEF Seen, Tried
<1>2. act = NoAction \/ \E j \in DOMAIN canonicalSet : act = ShiftTo(j)
  BY <1>1 DEF Decided
<1>3. NoAction.kind = "none" /\ \A j : ShiftTo(j).kind = "shift"
  BY DEF NoAction, ShiftTo
<1> HIDE DEF act
<1>4. act.kind # "reduce"
  BY <1>2, <1>3
<1> QED BY <1>4 DEF act

\* A step that looks at an item that shifts decides nothing.
LEMMA StepShiftItem == GInv /\ ShiftItem => GInv'
<1> SUFFICES ASSUME GInv, ShiftItem PROVE GInv'
  OBVIOUS
<1>1. /\ phase = "reduce" /\ ~AtEnd(canonicalSet[state][symbol]) /\ EndItem
      /\ terminalItems' = IF symbol = Len(canonicalSet[state]) THEN <<>> ELSE terminalItems
      /\ UNCHANGED <<input, type, building, canonicalSet, sourceStates, actionTable, gotoTable, gotoSet, lookAt,
                     searchIndex, spread, conflicts, symbolList, productions>>
  BY DEF ShiftItem, tables, closing, building
<1>2. ASSUME NEW s \in DOMAIN canonicalSet, NEW t \in Terminals
      PROVE  Decided(s, t)'
  <2>1. Decided(s, t)
    BY <1>1 DEF GInv, AllDecided
  <2>2. Reducers(s, t)' = Reducers(s, t) /\ Shifters(s, t)' = Shifters(s, t)
    BY <1>1 DEF Reducers, Shifters, AtEnd, AfterDot, Prod
  <2>3. Seen(s, t)' = Seen(s, t)
    <3>1. \A i \in Reducers(s, t) : Tried(s, i)' <=> Tried(s, i)
      BY <1>1, EndItemFacts DEF Reducers
    <3> QED BY <2>2, <3>1 DEF Seen
  <2>4. Entry(actionTable[s], t, NoAction)' = Entry(actionTable[s], t, NoAction)
    BY <1>1 DEF Entry
  <2>5. \A i : Reduction(Prod(canonicalSet[s][i]), t)' = Reduction(Prod(canonicalSet[s][i]), t)
    BY <1>1 DEF Prod
  <2>6. ReportsAreTrue(s, t, Seen(s, t))'
    <3>1. ReportsAreTrue(s, t, Seen(s, t))
      BY <2>1 DEF Decided
    <3>2. /\ \A i : Rivals(s, t, i)' = Rivals(s, t, i) /\ Unsettled(s, t, i)' = Unsettled(s, t, i)
          /\ Reports(s, t)' = Reports(s, t) /\ \A j : Between(j)' = Between(j)
      BY <1>1, RivalsKept DEF Reports, Between
    <3> QED BY <2>3, <3>1, <3>2 DEF ReportsAreTrue
  <2> DEFINE act == Entry(actionTable[s], t, NoAction)
             by(i) == act = Reduction(Prod(canonicalSet[s][i]), t)
  <2>7. s = state' /\ act.kind = "reduce" =>
          t \in DOMAIN terminalItems' /\ terminalItems'[t] \in Seen(s, t) /\ by(terminalItems'[t])
    <3>1. CASE s = state' /\ state' = state
      <4>1. terminalItems' = terminalItems
        BY <1>1, <3>1, EndItemFacts
      <4> QED BY <2>1, <3>1, <4>1 DEF Decided
    <3>2. CASE s = state' /\ state' # state
      <4>1. act.kind # "reduce"
        BY <1>1, <2>1, <3>2, NothingSeen
      <4> QED BY <4>1
    <3> QED BY <3>1, <3>2
  <2> HIDE DEF act
  <2>8. act' = act
    BY <2>4 DEF act
  <2>9. terminalItems'[t] \in Seen(s, t) /\ by(terminalItems'[t]) <=>
          (terminalItems[t] \in Seen(s, t) /\ act = Reduction(Prod(canonicalSet[s][terminalItems[t]]), t))'
    BY <1>1, <2>3, <2>5, <2>8
  <2> QED BY <1>1, <2>1, <2>2, <2>3, <2>5, <2>6, <2>7, <2>8, <2>9 DEF Decided, act
<1>3. AllDecided'
  BY <1>1, <1>2 DEF AllDecided, Terminals
<1>4. ForStates(actionTable)' /\ Len(actionTable') = Len(canonicalSet)
      /\ \A s \in DOMAIN actionTable' : \A t \in DOMAIN actionTable'[s] : actionTable'[s][t] \in Actions
  BY <1>1 DEF GInv, TypeOK, TablesOK, Tables, ForStates
<1> QED BY <1>1, <1>3, <1>4, EndItemFacts, ReducingFrame

\* What looking at a finished item makes of the actions of its state.
LEMMA ReduceItemFacts ==
  ASSUME GInv, ReduceItem, NEW at, at = state, NEW item, item = canonicalSet[at][symbol]
  PROVE  LET act(t)    == Entry(actionTable[at], t, NoAction)
             result(t) == Decide(canonicalSet[state], symbol, t, act(t))
         IN
         /\ phase = "reduce" /\ AtEnd(item) /\ EndItem
         /\ UNCHANGED <<input, type, building, canonicalSet, sourceStates, gotoTable, gotoSet, lookAt,
                        searchIndex, spread, symbolList, productions>>
         /\ ForStates(actionTable)' /\ Len(actionTable') = Len(canonicalSet)
         /\ \A s \in DOMAIN canonicalSet : s # state => actionTable'[s] = actionTable[s]
         /\ \A s \in DOMAIN actionTable' : \A t \in DOMAIN actionTable'[s] : actionTable'[s][t] \in Actions
         /\ \A t : act(t)' = IF t \in item.la /\ result(t).decision = "reduce" THEN Reduction(Prod(item), t)
                             ELSE IF t \in item.la /\ result(t).decision = "neither" THEN NoAction
                             ELSE act(t)
         /\ \A s, t : Reports(s, t)' = Reports(s, t) \cup
              (IF s = state /\ t \in item.la THEN result(t).report \cap {"S/R", "R/R"} ELSE {})
         /\ state' = state =>
              \A t : \/ /\ t \in item.la /\ result(t).decision = "reduce"
                        /\ t \in DOMAIN terminalItems' /\ terminalItems'[t] = symbol
                     \/ ~(t \in item.la /\ result(t).decision = "reduce")
                          /\ (t \in DOMAIN terminalItems => t \in DOMAIN terminalItems'
                                                             /\ terminalItems'[t] = terminalItems[t])
<1> DEFINE act(t)    == Entry(actionTable[at], t, NoAction)
           result(t) == Decide(canonicalSet[state], symbol, t, act(t))
           taken     == {t \in item.la : result(t).decision = "reduce"}
           cleared   == {t \in item.la : result(t).decision = "neither"}
           new       == [t \in taken \cup cleared |-> IF t \in taken THEN Reduction(Prod(item), t) ELSE NoAction]
           items     == canonicalSet[state]
<1>1. /\ phase = "reduce" /\ AtEnd(item) /\ EndItem
      /\ actionTable' = [actionTable EXCEPT ![state] = Over(@, new)]
      /\ terminalItems' = IF symbol = Len(items) THEN <<>> ELSE Over(terminalItems, [t \in taken |-> symbol])
      /\ conflicts' = conflicts \cup UNION {{<<state, t, r>> : r \in result(t).report} : t \in item.la}
      /\ UNCHANGED <<input, type, building, canonicalSet, sourceStates, gotoTable, gotoSet, lookAt,
                     searchIndex, spread, symbolList, productions>>
  BY DEF ReduceItem, closing, building
<1>2. PICK n : n = Len(canonicalSet) /\ n \in Nat /\ DOMAIN canonicalSet = 1 .. n
  BY DEF GInv, TypeOK, TablesOK
<1>3. actionTable = [s \in 1 .. n |-> actionTable[s]] /\ state \in 1 .. n
  BY <1>1, <1>2, EndItemFacts DEF GInv, Tables, ForStates
<1> HIDE DEF result
<1>4. /\ DOMAIN Over(actionTable[state], new) = DOMAIN actionTable[state] \cup taken \cup cleared
      /\ \A t \in DOMAIN Over(actionTable[state], new) :
           Over(actionTable[state], new)[t] =
             IF t \in taken THEN Reduction(Prod(item), t) ELSE IF t \in cleared THEN NoAction
             ELSE actionTable[state][t]
  BY DEF Over
<1> HIDE DEF new
<1>5. /\ actionTable' = [s \in 1 .. n |-> actionTable'[s]] /\ actionTable'[state] = Over(actionTable[state], new)
      /\ \A s \in 1 .. n : s # state => actionTable'[s] = actionTable[s]
  BY <1>1, <1>3
<1>6. ForStates(actionTable)' /\ Len(actionTable') = n
  <2>1. ForStates(actionTable)'
    BY <1>1, <1>2, <1>5 DEF ForStates
  <2>2. PICK f : f = actionTable'
    OBVIOUS
  <2>3. Len(f) = n
    BY <1>2, <1>5, <2>2, TableLen
  <2> QED BY <2>1, <2>2, <2>3
<1>7. ASSUME NEW t
      PROVE  act(t)' = IF t \in taken THEN Reduction(Prod(item), t) ELSE IF t \in cleared THEN NoAction ELSE act(t)
  BY <1>4, <1>5 DEF Entry
<1>8. \A s \in 1 .. n : \A t \in DOMAIN actionTable'[s] : actionTable'[s][t] \in Actions
  <2>1. \A s \in 1 .. n : \A t \in DOMAIN actionTable[s] : actionTable[s][t] \in Actions
    BY <1>3 DEF GInv, TypeOK, TablesOK
  <2>2. ASSUME NEW t
        PROVE  Reduction(Prod(item), t) \in Actions
    <3>1. Prod(item) \in Production
      <4>1. productions \in Seq(Production) /\ ItemsOK(items) /\ symbol \in DOMAIN items
        BY <1>1, <1>2, <1>3, EndItemFacts DEF GInv, Added, TypeOK, TablesOK
      <4> QED BY <4>1, ItemFacts
    <3>2. Prod(item).id \in Nat
      BY <3>1 DEF Production
    <3> QED BY <3>2 DEF Reduction, Accept, ReduceBy, Actions
  <2>3. NoAction \in Actions
    BY DEF NoAction, Actions
  <2> HIDE DEF taken, cleared
  <2> QED BY <1>4, <1>5, <2>1, <2>2, <2>3
<1>9. \A s \in DOMAIN actionTable' : \A t \in DOMAIN actionTable'[s] : actionTable'[s][t] \in Actions
  BY <1>5, <1>8
<1>10. ASSUME NEW s, NEW t
       PROVE  Reports(s, t)' = Reports(s, t) \cup
                (IF s = state /\ t \in item.la THEN result(t).report \cap {"S/R", "R/R"} ELSE {})
  <2> DEFINE added(u) == {<<state, u, r>> : r \in result(u).report}
             more == UNION {added(u) : u \in item.la}
  <2>1. ASSUME NEW r
        PROVE  <<s, t, r>> \in more <=> s = state /\ t \in item.la /\ r \in result(t).report
    <3>1. ASSUME <<s, t, r>> \in more
          PROVE  s = state /\ t \in item.la /\ r \in result(t).report
      <4>1. PICK u \in item.la : <<s, t, r>> \in added(u)
        BY <3>1
      <4>2. PICK q \in result(u).report : <<s, t, r>> = <<state, u, q>>
        BY <4>1
      <4> QED BY <4>1, <4>2
    <3>2. ASSUME s = state, t \in item.la, r \in result(t).report
          PROVE  <<s, t, r>> \in more
      <4>1. <<state, t, r>> \in added(t)
        BY <3>2
      <4> QED BY <3>2, <4>1
    <3> QED BY <3>1, <3>2
  <2>2. conflicts' = conflicts \cup more
    BY <1>1
  <2> HIDE DEF more
  <2> QED BY <2>1, <2>2 DEF Reports
<1>11. ASSUME state' = state, NEW t
       PROVE  \/ t \in taken /\ t \in DOMAIN terminalItems' /\ terminalItems'[t] = symbol
              \/ t \notin taken /\ (t \in DOMAIN terminalItems =>
                                      t \in DOMAIN terminalItems' /\ terminalItems'[t] = terminalItems[t])
  <2>1. terminalItems' = Over(terminalItems, [u \in taken |-> symbol])
    BY <1>1, <1>11, EndItemFacts
  <2> QED BY <2>1 DEF Over
<1> HIDE DEF act
<1> QED BY <1>1, <1>2, <1>5, <1>6, <1>7, <1>9, <1>10, <1>11 DEF act, result

\* An action is what the reducers seen and the shifters make of it: Decided, in words
\* that do not depend on how the tables are kept.
AsDecided(act, seen, shifters, S, by, t) ==
  /\ act = NoAction \/ (act \in S /\ shifters # {}) \/ \E j \in seen : act = by[j]
  /\ seen = {} => IF shifters = {} THEN act = NoAction ELSE act \in S
  /\ shifters = {} => \A j \in seen : seen = {j} => act = by[j]
  /\ act = NoAction /\ seen # {} => t \in DOMAIN input.prec /\ shifters # {}

\* The action after item i of the state has been looked at.
After(items, i, t, act, by) ==
  IF Decide(items, i, t, act).decision = "reduce" THEN by[i]
  ELSE IF Decide(items, i, t, act).decision = "neither" THEN NoAction ELSE act

\* After one more reducer has been looked at the action is as decided.
LEMMA OneMoreReducer ==
  ASSUME productions \in Seq(Production), NEW items, ItemsOK(items), NEW i \in DOMAIN items, NEW t,
         NEW act \in Actions, NEW seen, i \notin seen, NEW shifters, NEW S, NEW by,
         NoAction \notin S, \A x \in S : x.kind = "shift",
         \A j \in seen \cup {i} : by[j].kind \in {"reduce", "accept"},
         AsDecided(act, seen, shifters, S, by, t)
  PROVE  AsDecided(After(items, i, t, act, by), seen \cup {i}, shifters, S, by, t)
<1> DEFINE seen2 == seen \cup {i}
           res   == Decide(items, i, t, act)
           act2  == After(items, i, t, act, by)
<1>0. /\ act = NoAction \/ (act \in S /\ shifters # {}) \/ \E j \in seen : act = by[j]
      /\ seen = {} => IF shifters = {} THEN act = NoAction ELSE act \in S
      /\ shifters = {} => \A j \in seen : seen = {j} => act = by[j]
      /\ act = NoAction /\ seen # {} => t \in DOMAIN input.prec /\ shifters # {}
  BY DEF AsDecided
<1>1. /\ act = NoAction => res.decision = "reduce"
      /\ res.decision = "neither" => t \in DOMAIN input.prec /\ act.kind = "shift"
  BY DecideFacts
<1>2. by[i] # NoAction
  BY DEF NoAction
<1> HIDE DEF res
<1>3. act2 = (IF res.decision = "reduce" THEN by[i] ELSE IF res.decision = "neither" THEN NoAction ELSE act)
  BY DEF res, After
<1> HIDE DEF act2
<1>4. act2 = NoAction \/ (act2 \in S /\ shifters # {}) \/ \E j \in seen2 : act2 = by[j]
  BY <1>0, <1>3
<1>5. shifters = {} => \A j \in seen2 : seen2 = {j} => act2 = by[j]
  <2>1. SUFFICES ASSUME shifters = {}, NEW j \in seen2, seen2 = {j} PROVE act2 = by[j]
    OBVIOUS
  <2>2. seen = {} /\ j = i
    BY <2>1
  <2> QED BY <1>0, <1>1, <1>3, <2>1, <2>2
<1>6. act2 = NoAction => t \in DOMAIN input.prec /\ shifters # {}
  <2>1. SUFFICES ASSUME act2 = NoAction PROVE t \in DOMAIN input.prec /\ shifters # {}
    OBVIOUS
  <2>2. t \in DOMAIN input.prec /\ act.kind = "shift"
    BY <1>1, <1>2, <1>3, <2>1
  <2>3. NoAction.kind = "none"
    BY DEF NoAction
  <2> QED BY <1>0, <2>2, <2>3
<1>7. seen2 # {}
  OBVIOUS
<1> QED BY <1>4, <1>5, <1>6, <1>7 DEF AsDecided, act2

\* What the next item has reported is unsettled, and what nothing settles is reported.
LEMMA ReportFacts ==
  ASSUME GInv, phase = "reduce", NEW s, s = state, NEW i, i = symbol, NEW t \in Terminals, i \in Reducers(s, t),
         NEW act, act = Entry(actionTable[s], t, NoAction)
  PROVE  LET report == Decide(canonicalSet[s], i, t, act).report
         IN  /\ report \subseteq {"S/R", "R/R"}
             /\ \A r \in report : \E j \in Unsettled(s, t, i) : r = Between(j)
             /\ Rivals(s, t, i) # {} /\ Unsettled(s, t, i) = Rivals(s, t, i) => report # {}
<1> DEFINE items  == canonicalSet[s]
           later  == Prod(items[i])
           by(j)  == Reduction(Prod(items[j]), t)
           result == Decide(items, i, t, act)
<1>1. /\ s \in DOMAIN canonicalSet /\ i \in DOMAIN items /\ Decided(s, t)
      /\ DOMAIN items \subseteq Nat \ {0}
  BY DEF GInv, Positions, AllDecided, TypeOK, TablesOK
<1>2. /\ act = NoAction \/ ((\E j \in DOMAIN canonicalSet : act = ShiftTo(j)) /\ Shifters(s, t) # {})
           \/ \E j \in Seen(s, t) : act = by(j)
      /\ Seen(s, t) = {} => IF Shifters(s, t) = {} THEN act = NoAction ELSE \E j \in DOMAIN canonicalSet : act = ShiftTo(j)
      /\ act = NoAction /\ Seen(s, t) # {} => t \in DOMAIN input.prec /\ Shifters(s, t) # {}
      /\ act.kind = "reduce" => terminalItems[t] \in Seen(s, t) /\ act = by(terminalItems[t])
  BY <1>1 DEF Decided
<1>3. \A j : j \in Seen(s, t) <=> j \in Reducers(s, t) /\ j < i
  <2>1. s \in Nat
    BY <1>1 DEF GInv, TypeOK, TablesOK
  <2> QED BY <2>1 DEF Seen, Tried
<1>4. /\ 0 \in Rivals(s, t, i) <=> Shifters(s, t) # {}
      /\ \A j : j # 0 => (j \in Rivals(s, t, i) <=> j \in Seen(s, t))
      /\ 0 \notin Seen(s, t)
  BY <1>1, <1>3 DEF Rivals, Reducers
<1>5. /\ NoAction.kind = "none" /\ (\A j : ShiftTo(j).kind = "shift" /\ ShiftTo(j) # NoAction)
      /\ \A j : (by(j) = Accept /\ by(j).kind = "accept") \/ by(j).kind = "reduce"
      /\ NoAction # Accept /\ Accept.kind = "accept"
  BY DEF NoAction, ShiftTo, Reduction, Accept, ReduceBy
<1>6. Between(0) = "S/R" /\ \A j : j # 0 => Between(j) = "R/R"
  BY DEF Between
<1>7. 0 \in Unsettled(s, t, i) <=>
        Shifters(s, t) # {} /\ t \notin DOMAIN input.prec /\ Telling(items, t, later.left) = {}
  BY <1>4 DEF Unsettled, Settled
<1>8. ASSUME NEW j, j # 0
      PROVE  j \in Unsettled(s, t, i) <=>
               /\ j \in Seen(s, t)
               /\ \/ by(j) = Accept
                  \/ /\ ~Overrides(Prod(items[j]), later.left, t) /\ ~Overrides(later, Prod(items[j]).left, t)
                     /\ later.left \notin ToSet(Prod(items[j]).chain)
  BY <1>4, <1>8 DEF Unsettled, Settled
<1> HIDE DEF by
<1>9. CASE act = NoAction
  <2>1. result.report = {}
    BY <1>9 DEF Decide
  <2>2. Rivals(s, t, i) = {} \/ (0 \in Rivals(s, t, i) /\ 0 \notin Unsettled(s, t, i))
    <3>1. CASE Seen(s, t) = {}
      BY <1>2, <1>4, <1>5, <1>9, <3>1
    <3>2. CASE Seen(s, t) # {}
      BY <1>2, <1>4, <1>7, <1>9, <3>2
    <3> QED BY <3>1, <3>2
  <2> HIDE DEF result
  <2> QED BY <2>1, <2>2 DEF result
<1>10. CASE act # NoAction /\ act.kind = "shift"
  <2>1. result = ShiftReduceConflict(items, later, t)
    BY <1>10 DEF Decide
  <2>2. Shifters(s, t) # {}
    BY <1>2, <1>5, <1>10
  <2>3. \/ result.report = {"S/R"} /\ 0 \in Unsettled(s, t, i)
        \/ result.report = {} /\ 0 \notin Unsettled(s, t, i)
    <3> DEFINE telling == Telling(items, t, later.left)
               told == Told(items[Min(telling)])[later.left]
    <3>1. CASE telling # {}
      <4>1. ShiftReduceConflict(items, later, t) = [decision |-> told, report |-> {}]
        BY <3>1 DEF ShiftReduceConflict
      <4> QED BY <1>7, <2>1, <3>1, <4>1
    <3>2. CASE telling = {} /\ t \notin DOMAIN input.prec
      <4>1. ShiftReduceConflict(items, later, t) = [decision |-> "shift", report |-> {"S/R"}]
        BY <3>2 DEF ShiftReduceConflict
      <4> QED BY <1>7, <2>1, <2>2, <3>2, <4>1
    <3>3. CASE telling = {} /\ t \in DOMAIN input.prec
      <4>1. ShiftReduceConflict(items, later, t).report = {}
        BY <3>3 DEF ShiftReduceConflict
      <4> QED BY <1>7, <2>1, <3>3, <4>1
    <3> QED BY <3>1, <3>2, <3>3
  <2> HIDE DEF result
  <2>4. 0 \in Rivals(s, t, i)
    BY <1>4, <2>2
  <2> QED BY <1>6, <2>3, <2>4 DEF result
<1>11. CASE act # NoAction /\ act.kind = "reduce"
  <2>1. PICK j : j = terminalItems[t]
    OBVIOUS
  <2>2. j \in Seen(s, t) /\ act = by(j) /\ j # 0
    BY <1>2, <1>4, <1>11, <2>1
  <2>3. by(j) # Accept
    BY <1>5, <1>11, <2>2
  <2> DEFINE earlier == Prod(items[j])
  <2>4. result = ReduceReduceConflict(earlier, later, t)
    BY <1>11, <2>1 DEF Decide
  <2>5. \/ result.report = {"R/R"} /\ j \in Unsettled(s, t, i)
        \/ result.report = {} /\ j \notin Unsettled(s, t, i)
    <3>1. j \in Unsettled(s, t, i) <=>
            /\ ~Overrides(earlier, later.left, t) /\ ~Overrides(later, earlier.left, t)
            /\ later.left \notin ToSet(earlier.chain)
      BY <1>8, <2>2, <2>3
    <3> HIDE DEF earlier, later, result
    <3> QED BY <2>4, <3>1 DEF ReduceReduceConflict
  <2>6. j \in Rivals(s, t, i)
    BY <1>4, <2>2
  <2> HIDE DEF result
  <2> QED BY <1>6, <2>2, <2>5, <2>6 DEF result
<1>12. CASE act # NoAction /\ act.kind \notin {"shift", "reduce"}
  <2>1. result.report = {"R/R"}
    BY <1>12 DEF Decide
  <2>2. PICK j \in Seen(s, t) : act = by(j)
    BY <1>2, <1>5, <1>12
  <2>3. j # 0 /\ by(j) = Accept
    BY <1>4, <1>5, <1>12, <2>2
  <2>4. j \in Unsettled(s, t, i)
    BY <1>8, <2>2, <2>3
  <2> HIDE DEF result
  <2> QED BY <1>6, <2>1, <2>3, <2>4 DEF result
<1> QED BY <1>9, <1>10, <1>11, <1>12

\* One more item that reduces is decided on each of its lookaheads.
LEMMA StepReduceItem == GInv /\ ReduceItem => GInv'
<1> SUFFICES ASSUME GInv, ReduceItem PROVE GInv'
  OBVIOUS
<1>1. PICK at, item : at = state /\ item = canonicalSet[at][symbol]
  OBVIOUS
<1> DEFINE act(t)    == Entry(actionTable[at], t, NoAction)
           result(t) == Decide(canonicalSet[state], symbol, t, act(t))
<1>2. /\ phase = "reduce" /\ AtEnd(item) /\ EndItem
      /\ UNCHANGED <<input, type, building, canonicalSet, sourceStates, gotoTable, gotoSet, lookAt,
                     searchIndex, spread, symbolList, productions>>
      /\ ForStates(actionTable)' /\ Len(actionTable') = Len(canonicalSet)
      /\ \A s \in DOMAIN canonicalSet : s # state => actionTable'[s] = actionTable[s]
      /\ \A s \in DOMAIN actionTable' : \A t \in DOMAIN actionTable'[s] : actionTable'[s][t] \in Actions
      /\ \A t : act(t)' = IF t \in item.la /\ result(t).decision = "reduce" THEN Reduction(Prod(item), t)
                          ELSE IF t \in item.la /\ result(t).decision = "neither" THEN NoAction
                          ELSE act(t)
      /\ \A s, t : Reports(s, t)' = Reports(s, t) \cup
           (IF s = state /\ t \in item.la THEN result(t).report \cap {"S/R", "R/R"} ELSE {})
      /\ state' = state =>
           \A t : \/ /\ t \in item.la /\ result(t).decision = "reduce"
                     /\ t \in DOMAIN terminalItems' /\ terminalItems'[t] = symbol
                  \/ ~(t \in item.la /\ result(t).decision = "reduce")
                       /\ (t \in DOMAIN terminalItems => t \in DOMAIN terminalItems'
                                                          /\ terminalItems'[t] = terminalItems[t])
  BY <1>1, ReduceItemFacts
<1>3. /\ state \in DOMAIN canonicalSet /\ symbol \in DOMAIN canonicalSet[state]
      /\ \A s \in DOMAIN canonicalSet : \A i \in DOMAIN canonicalSet[s] :
           Tried(s, i)' <=> Tried(s, i) \/ (s = state /\ i = symbol)
      /\ ~Tried(state, symbol)
      /\ state' = state => symbol # Len(canonicalSet[state])
  BY <1>2, EndItemFacts
<1> HIDE DEF result
<1>4. productions \in Seq(Production) /\ ItemsOK(canonicalSet[state])
  BY <1>2, <1>3 DEF GInv, Added, TypeOK, TablesOK
<1>5. ASSUME NEW s \in DOMAIN canonicalSet, NEW t \in Terminals
      PROVE  Decided(s, t)'
  <2> DEFINE a == Entry(actionTable[s], t, NoAction)
  <2>1. Decided(s, t)
    BY <1>2 DEF GInv, AllDecided
  <2>2. Reducers(s, t)' = Reducers(s, t) /\ Shifters(s, t)' = Shifters(s, t)
    BY <1>2 DEF Reducers, Shifters, AtEnd, AfterDot, Prod
  <2>3. \A i : Reduction(Prod(canonicalSet[s][i]), t)' = Reduction(Prod(canonicalSet[s][i]), t)
    BY <1>2 DEF Prod
  <2>4. \A i : Rivals(s, t, i)' = Rivals(s, t, i) /\ Unsettled(s, t, i)' = Unsettled(s, t, i)
    BY <1>2, RivalsKept
  <2>5. Seen(s, t)' = IF s = at /\ t \in item.la THEN Seen(s, t) \cup {symbol} ELSE Seen(s, t)
    <3>1. \A i \in Reducers(s, t) : Tried(s, i)' <=> Tried(s, i) \/ (s = state /\ i = symbol)
      BY <1>3 DEF Reducers
    <3>2. s = at => (symbol \in Reducers(s, t) <=> t \in item.la)
      BY <1>1, <1>2, <1>3 DEF Reducers
    <3> QED BY <1>1, <2>2, <3>1, <3>2 DEF Seen
  <2>6. CASE s # at \/ t \notin item.la
    <3>1. Seen(s, t)' = Seen(s, t) /\ a' = a /\ Reports(s, t)' = Reports(s, t)
      <4>1. a' = a
        <5>1. CASE s = at
          BY <1>2, <2>6, <5>1
        <5>2. CASE s # at
          BY <1>1, <1>2, <5>2 DEF Entry
        <5> QED BY <5>1, <5>2
      <4> QED BY <1>1, <1>2, <2>5, <2>6, <4>1
    <3>2. s = state' /\ a.kind = "reduce" =>
            /\ t \in DOMAIN terminalItems' /\ terminalItems'[t] \in Seen(s, t)
            /\ a = Reduction(Prod(canonicalSet[s][terminalItems'[t]]), t)
      <4>1. CASE s = state' /\ state' = state /\ a.kind = "reduce"
        <5>1. /\ t \in DOMAIN terminalItems /\ terminalItems[t] \in Seen(s, t)
              /\ a = Reduction(Prod(canonicalSet[s][terminalItems[t]]), t)
          BY <2>1, <4>1 DEF Decided
        <5>2. t \in DOMAIN terminalItems' /\ terminalItems'[t] = terminalItems[t]
          BY <1>1, <1>2, <2>6, <4>1, <5>1
        <5> HIDE DEF a
        <5> QED BY <5>1, <5>2
      <4>2. CASE s = state' /\ state' # state
        <5>1. a.kind # "reduce"
          BY <1>2, <2>1, <4>2, NothingSeen
        <5> QED BY <5>1
      <4> QED BY <4>1, <4>2
    <3> HIDE DEF a
    <3>3. /\ a = NoAction \/ (a \in {ShiftTo(j) : j \in DOMAIN canonicalSet} /\ Shifters(s, t) # {})
               \/ \E i \in Seen(s, t) : a = Reduction(Prod(canonicalSet[s][i]), t)
          /\ Seen(s, t) = {} =>
               IF Shifters(s, t) = {} THEN a = NoAction ELSE a \in {ShiftTo(j) : j \in DOMAIN canonicalSet}
          /\ Shifters(s, t) = {} =>
               \A i \in Seen(s, t) : Seen(s, t) = {i} => a = Reduction(Prod(canonicalSet[s][i]), t)
          /\ a = NoAction /\ Seen(s, t) # {} => t \in DOMAIN input.prec /\ Shifters(s, t) # {}
      BY <2>1 DEF Decided, a
    <3>4. ReportsAreTrue(s, t, Seen(s, t))'
      <4>1. ReportsAreTrue(s, t, Seen(s, t)) /\ \A j : Between(j)' = Between(j)
        BY <2>1 DEF Decided, Between
      <4> QED BY <2>4, <3>1, <4>1 DEF ReportsAreTrue
    <3> QED BY <1>2, <2>2, <2>3, <3>1, <3>2, <3>3, <3>4 DEF Decided, a
  <2>7. CASE s = at /\ t \in item.la
    <3> DEFINE S  == {ShiftTo(j) : j \in DOMAIN canonicalSet}
               by == [i \in DOMAIN canonicalSet[s] |-> Reduction(Prod(canonicalSet[s][i]), t)]
    <3>1. PICK items, cur, seen, sh : /\ items = canonicalSet[state] /\ cur = a
                                      /\ seen = Seen(s, t) /\ sh = Shifters(s, t)
      OBVIOUS
    <3>2. /\ ItemsOK(items) /\ symbol \in DOMAIN items /\ symbol \notin seen /\ seen \subseteq DOMAIN items
          /\ Seen(s, t)' = seen \cup {symbol}
      BY <1>1, <1>3, <1>4, <2>5, <2>7, <3>1 DEF Seen, Reducers
    <3>3. cur \in Actions
      <4>1. actionTable[s] = actionTable[at] /\ s \in DOMAIN actionTable
        BY <1>2, <2>7 DEF GInv, TypeOK, TablesOK, Tables
      <4>2. \A u \in DOMAIN actionTable[s] : actionTable[s][u] \in Actions
        BY <4>1 DEF GInv, TypeOK, TablesOK
      <4> QED BY <3>1, <4>2 DEF Entry, NoAction, Actions
    <3>4. NoAction \notin S /\ \A x \in S : x.kind = "shift"
      <4>1. NoAction.kind = "none" /\ \A j : ShiftTo(j).kind = "shift"
        BY DEF NoAction, ShiftTo
      <4> QED BY <4>1
    <3>5. \A j \in seen \cup {symbol} : by[j].kind \in {"reduce", "accept"}
      BY <1>1, <1>3, <2>7, <3>1, <3>2 DEF Reduction, Accept, ReduceBy
    <3>6. /\ AsDecided(cur, seen, sh, S, by, t)
          /\ cur.kind = "reduce" => t \in DOMAIN terminalItems /\ terminalItems[t] \in seen /\ cur = by[terminalItems[t]]
      <4>1. \A j \in seen : by[j] = Reduction(Prod(canonicalSet[s][j]), t)
        BY <1>1, <2>7, <3>1, <3>2
      <4>2. cur = Entry(actionTable[s], t, NoAction)
        BY <3>1
      <4> HIDE DEF by, a
      <4> QED BY <1>1, <2>1, <2>7, <3>1, <4>1, <4>2 DEF Decided, AsDecided
    <3>7. /\ a' = After(items, symbol, t, cur, by)
          /\ Reports(s, t)' = Reports(s, t) \cup (Decide(items, symbol, t, cur).report \cap {"S/R", "R/R"})
          /\ state' = state => \/ /\ Decide(items, symbol, t, cur).decision = "reduce"
                                  /\ t \in DOMAIN terminalItems' /\ terminalItems'[t] = symbol
                               \/ /\ Decide(items, symbol, t, cur).decision # "reduce"
                                  /\ t \in DOMAIN terminalItems => /\ t \in DOMAIN terminalItems'
                                                                   /\ terminalItems'[t] = terminalItems[t]
      <4>1. cur = act(t)
        BY <1>1, <2>7, <3>1 DEF a
      <4>2. result(t) = Decide(items, symbol, t, cur)
        BY <3>1, <4>1 DEF result
      <4>3. by[symbol] = Reduction(Prod(item), t)
        BY <1>1, <1>3, <2>7
      <4>4. a' = act(t)'
        BY <1>1, <1>2, <2>7 DEF Entry
      <4> QED BY <1>1, <1>2, <2>7, <4>1, <4>2, <4>3, <4>4 DEF After
    <3>8. PICK all : all = seen \cup {symbol}
      OBVIOUS
    <3>9. ReportsAreTrue(s, t, all)'
      <4>1. symbol \in Reducers(s, t) /\ items = canonicalSet[s] /\ s = state
        BY <1>1, <1>2, <1>3, <2>7, <3>1 DEF Reducers
      <4>2. PICK report : report = Decide(items, symbol, t, cur).report
        OBVIOUS
      <4>3. /\ report \subseteq {"S/R", "R/R"}
            /\ \A r \in report : \E j \in Unsettled(s, t, symbol) : r = Between(j)
            /\ Rivals(s, t, symbol) # {} /\ Unsettled(s, t, symbol) = Rivals(s, t, symbol) => report # {}
        BY <1>2, <3>1, <4>1, <4>2, ReportFacts
      <4>4. ReportsAreTrue(s, t, seen) /\ \A j : Between(j)' = Between(j)
        BY <2>1, <3>1 DEF Decided, Between
      <4>5. Reports(s, t)' = Reports(s, t) \cup report
        BY <3>7, <4>2, <4>3
      <4>6. /\ \A r \in Reports(s, t)' : \E i \in seen \cup {symbol} : \E j \in Unsettled(s, t, i) : r = Between(j)
            /\ \A i \in seen \cup {symbol} :
                 Rivals(s, t, i) # {} /\ Unsettled(s, t, i) = Rivals(s, t, i) => Reports(s, t)' # {}
        BY <4>3, <4>4, <4>5 DEF ReportsAreTrue
      <4> QED BY <2>4, <3>8, <4>4, <4>6 DEF ReportsAreTrue
    <3>10. AsDecided(After(items, symbol, t, cur, by), seen \cup {symbol}, sh, S, by, t)
      <4> HIDE DEF a, by, S
      <4> QED BY <1>4, <3>2, <3>3, <3>4, <3>5, <3>6, OneMoreReducer
    <3>11. s = state' /\ a'.kind = "reduce" =>
             /\ t \in DOMAIN terminalItems' /\ terminalItems'[t] \in seen \cup {symbol}
             /\ a' = by[terminalItems'[t]]
      <4>1. SUFFICES ASSUME s = state', a'.kind = "reduce"
                     PROVE  /\ t \in DOMAIN terminalItems' /\ terminalItems'[t] \in seen \cup {symbol}
                            /\ a' = by[terminalItems'[t]]
        BY <1>1, <2>7, <3>1
      <4>2. state' = state
        BY <1>1, <2>7, <4>1
      <4>3. CASE /\ Decide(items, symbol, t, cur).decision = "reduce"
                 /\ t \in DOMAIN terminalItems' /\ terminalItems'[t] = symbol
        BY <3>2, <3>7, <4>3 DEF After
      <4>4. CASE /\ Decide(items, symbol, t, cur).decision # "reduce"
                 /\ t \in DOMAIN terminalItems => /\ t \in DOMAIN terminalItems'
                                                  /\ terminalItems'[t] = terminalItems[t]
        <5>1. a' = NoAction \/ a' = cur
          BY <3>7, <4>4 DEF After
        <5>2. NoAction.kind = "none"
          BY DEF NoAction
        <5> HIDE DEF a, by, S
        <5>3. cur.kind = "reduce" /\ a' = cur
          BY <4>1, <5>1, <5>2
        <5>4. terminalItems[t] \in seen /\ cur = by[terminalItems[t]] /\ t \in DOMAIN terminalItems'
              /\ terminalItems'[t] = terminalItems[t]
          BY <3>6, <4>4, <5>3
        <5> QED BY <5>3, <5>4
      <4> QED BY <3>7, <4>2, <4>3, <4>4
    <3>12. \A j \in seen \cup {symbol} : by[j] = Reduction(Prod(canonicalSet[s][j]), t)
      BY <1>1, <2>7, <3>1, <3>2
    <3>13. S' = S /\ canonicalSet' = canonicalSet /\ input' = input
      BY <1>2
    <3>14. AsDecided(a', Seen(s, t)', sh, S, by, t)
      BY <3>2, <3>7, <3>10
    <3>15. sh = Shifters(s, t)' /\ Seen(s, t)' = seen \cup {symbol}
      BY <2>2, <3>1, <3>2
    <3>16. ReportsAreTrue(s, t, Seen(s, t))'
      BY <3>8, <3>9, <3>15
    <3> HIDE DEF by
    <3> QED BY <2>3, <3>11, <3>12, <3>13, <3>14, <3>15, <3>16 DEF Decided, AsDecided
  <2> QED BY <2>6, <2>7
<1>6. AllDecided'
  BY <1>2, <1>5 DEF AllDecided, Terminals
<1> QED BY <1>2, <1>6, EndItemFacts, ReducingFrame

----------------------------------------------------------------------------
\* The theorems

\* A step that changes nothing keeps the invariant.
LEMMA StutterGInv == GInv /\ UNCHANGED vars => GInv'
<1> SUFFICES ASSUME GInv, UNCHANGED vars PROVE GInv'
  OBVIOUS
<1>1. UNCHANGED <<input, type, phase, symbolList, productions, productionCount, warnings, canonicalSet,
                  sourceStates, actionTable, gotoTable, startStates, state, symbol, gotoSet, lookAt,
                  searchIndex, spread, terminalItems, stateInfos, conflicts>>
  BY DEF vars, building, tables, closing, reducing
<1>2. TypeOK'
  BY <1>1 DEF GInv, TypeOK, TablesOK, ItemsOK, Item, Terminals, Prod
<1>3. Added' /\ Tables'
  BY <1>1 DEF GInv, Added, Tables, ForStates, AcceptingCount
<1>4. Starting' = Starting /\ Making' = Making /\ Following' = Following
  BY <1>1 DEF Starting, AcceptingCount, Making, Following
<1>5. /\ CurrentSymbol' = CurrentSymbol /\ Terminals' = Terminals
      /\ \A s, t : Shifters(s, t)' = Shifters(s, t)
  BY <1>1 DEF CurrentSymbol, Terminals, Shifters, AtEnd, AfterDot, Prod
<1>6. Positions'
  BY <1>1, <1>4, <1>5 DEF GInv, Positions
<1>7. MovedItems' /\ MovedOn'
  <2>1. \A item, items : Moved(item, items)' = Moved(item, items)
    BY <1>1 DEF Moved, SameCore, SameRule, Prod
  <2>2. \A s, item : Successor(s, item)' = Successor(s, item) /\ AtEnd(item)' = AtEnd(item)
    BY <1>1 DEF Successor, AfterDot, AtEnd, Prod, Entry
  <2> QED BY <1>1, <1>4, <1>5, <2>1, <2>2 DEF GInv, MovedItems, MovedOn
<1>8. Shifts'
  BY <1>1, <1>4, <1>5 DEF GInv, Shifts, Tried
<1>9. AllDecided' /\ NoneReported'
  <2>1. \A s, t : Decided(s, t)' <=> Decided(s, t)
    <3>1. ASSUME NEW s, NEW t
          PROVE  /\ Seen(s, t)' = Seen(s, t) /\ Shifters(s, t)' = Shifters(s, t)
                 /\ ReportsAreTrue(s, t, Seen(s, t))' = ReportsAreTrue(s, t, Seen(s, t))
      <4>1. Seen(s, t)' = Seen(s, t) /\ Reports(s, t)' = Reports(s, t) /\ \A j : Between(j)' = Between(j)
        BY <1>1 DEF Seen, Tried, Reducers, AtEnd, Prod, Reports, Between
      <4>2. \A i : Rivals(s, t, i)' = Rivals(s, t, i) /\ Unsettled(s, t, i)' = Unsettled(s, t, i)
        BY <1>1, RivalsKept
      <4> QED BY <1>5, <4>1, <4>2 DEF ReportsAreTrue
    <3> QED BY <1>1, <3>1 DEF Decided, Entry, Prod
  <2> QED BY <1>1, <1>5, <2>1 DEF GInv, AllDecided, NoneReported
<1> QED BY <1>2, <1>3, <1>6, <1>7, <1>8, <1>9 DEF GInv

\* Every step of the generator keeps the invariant.
LEMMA StepGInv == GInv /\ [Next]_vars => GInv'
  BY StepAddProduction, StepCheckProductions, StepStartItem, StepClosure, StepAddStartState, StepGoto,
     StepAddState, StepRefuseMerge, StepMergeState, StepSpreadLookAhead, StepEndMerge, StepEndGoto,
     StepShiftItem, StepReduceItem, StutterGInv DEF Next

\* The invariant holds whatever the grammar and the type of the table.
THEOREM GInvInvariant == Spec => []GInv
  BY InitGInv, StepGInv, PTL DEF Spec

\* The tables keep their shape: one row for every state, dots within their
\* productions, lookaheads that are terminals, only actions in the action table
\* (Grammar.cpp, MakeParseTable).
THEOREM TypeCorrect == Spec => []TypeOK
<1>1. GInv => TypeOK
  BY DEF GInv
<1> QED BY <1>1, GInvInvariant, PTL

\* "Production HAS to be there, since a symbol lead us to this state"
\* (Grammar.cpp:874): the search for an item in the state its symbol leads to finds it,
\* also among states that were merged, as long as lookaheads are moved on.
THEOREM ProductionHasToBeThere == Spec => []MovedItems
<1>1. GInv => MovedItems
  BY DEF GInv
<1> QED BY <1>1, GInvInvariant, PTL

\* When all items of a state were looked at the action is what they want.
LEMMA DecidedTold ==
  ASSUME GInv, phase = "done", NEW s \in DOMAIN canonicalSet, NEW t \in Terminals
  PROVE  LET rivals == Cardinality(Reducers(s, t)) + (IF Shifters(s, t) = {} THEN 0 ELSE 1)
             act    == Entry(actionTable[s], t, NoAction)
         IN  /\ rivals = 0 => act = NoAction
             /\ rivals = 1 => act \in Wanted(s, t)
             /\ rivals > 1 /\ act # NoAction => act \in Wanted(s, t)
             /\ act = NoAction /\ rivals > 1 => t \in DOMAIN input.prec
             /\ ReportsAreTrue(s, t, Reducers(s, t))
<1> DEFINE R == Reducers(s, t)
           n == Cardinality(R)
           shifts == Shifters(s, t) # {}
           rivals == n + (IF Shifters(s, t) = {} THEN 0 ELSE 1)
           act == Entry(actionTable[s], t, NoAction)
           S == {ShiftTo(j) : j \in DOMAIN canonicalSet}
           by(i) == act = Reduction(Prod(canonicalSet[s][i]), t)
           two == (R # {} /\ shifts) \/ \E i, j \in R : i # j
<1>1. Seen(s, t) = R
  <2>1. state = Len(canonicalSet) + 1 /\ Len(canonicalSet) \in Nat /\ s \in 1 .. Len(canonicalSet)
    BY DEF GInv, Positions, TypeOK, TablesOK
  <2> QED BY <2>1 DEF Seen, Tried
<1>2. /\ act = NoAction \/ (act \in S /\ shifts) \/ \E i \in R : by(i)
      /\ R = {} => IF Shifters(s, t) = {} THEN act = NoAction ELSE act \in S
      /\ Shifters(s, t) = {} => \A i \in R : R = {i} => by(i)
      /\ act = NoAction /\ R # {} => t \in DOMAIN input.prec
      /\ ReportsAreTrue(s, t, R)
  <2>1. Decided(s, t)
    BY DEF GInv, AllDecided
  <2> HIDE DEF R
  <2> QED BY <1>1, <2>1 DEF Decided
<1>3. n \in Nat /\ (n = 0 <=> R = {}) /\ (n = 1 => \E i \in R : R = {i}) /\ ((\E i \in R : R = {i}) => n = 1)
  <2>1. IsFiniteSet(R)
    <3>1. canonicalSet[s] \in Seq(Item)
      BY DEF GInv, TypeOK, TablesOK, ItemsOK
    <3>2. R \subseteq 1 .. Len(canonicalSet[s]) /\ Len(canonicalSet[s]) \in Nat
      BY <3>1 DEF Reducers
    <3>3. IsFiniteSet(1 .. Len(canonicalSet[s]))
      BY <3>2, FS_Interval
    <3> QED BY <3>2, <3>3, FS_Subset
  <2> HIDE DEF R
  <2>2. n \in Nat /\ (n = 0 <=> R = {})
    BY <2>1, FS_CardinalityType, FS_EmptySet
  <2>3. n = 1 <=> \E i : R = {i}
    BY <2>1, FS_Singleton
  <2> QED BY <2>2, <2>3
<1>4. Wanted(s, t) = {Reduction(Prod(canonicalSet[s][i]), t) : i \in R} \cup
                       (IF Shifters(s, t) = {} THEN {} ELSE {act} \cap S)
  BY DEF Wanted
<1> HIDE DEF R, S, act
<1>5. rivals > 1 <=> two
  <2>1. n > 1 <=> \E i, j \in R : i # j
    BY <1>3
  <2> QED BY <1>3, <2>1
<1>6. act \in Wanted(s, t) <=> (shifts /\ act \in S) \/ \E i \in R : by(i)
  BY <1>4
<1>7. rivals = 0 => R = {} /\ ~shifts
  BY <1>3
<1>8. rivals = 1 => (R = {} /\ shifts) \/ (~shifts /\ \E i \in R : R = {i})
  BY <1>3
<1>9. rivals = 1 => act \in Wanted(s, t)
  BY <1>2, <1>6, <1>8
<1>10. rivals > 1 /\ act # NoAction => act \in Wanted(s, t)
  BY <1>2, <1>6
<1>11. act = NoAction /\ rivals > 1 => t \in DOMAIN input.prec
  BY <1>2, <1>5
<1> QED BY <1>2, <1>5, <1>7, <1>9, <1>10, <1>11 DEF act, R

\* A state does what its items want.  Whatever the grammar declares, a conflict reported
\* is one between two items that no declaration settles, and an item that nothing settles
\* against any of its rivals has its conflict reported (Grammar.cpp, the loop that sets
\* the reduce actions).
THEOREM ConflictsAreTold == Spec => []ConflictsTold
<1>1. GInv => ConflictsTold
  BY DecidedTold DEF ConflictsTold, Done
<1> QED BY <1>1, GInvInvariant, PTL

\* A step that leaves the states, their actions and their gotos alone.
LEMMA SameGrown == UNCHANGED <<canonicalSet, actionTable, gotoTable>> => Grown
  BY DEF Grown, ItemsKept, ActionsKept

\* No symbol is on the list twice when the generator has put its own ones behind.
LEMMA StepTriedAdd == GInv /\ TriedOnce /\ AddProduction => TriedOnce'
<1> SUFFICES ASSUME GInv, TriedOnce, AddProduction PROVE TriedOnce'
  OBVIOUS
<1> DEFINE decl   == input.decls[state + 1]
           first  == productionCount = 0
           accept == IF first THEN CreateAcceptingProductions(decl.left) ELSE <<>>
           added  == AddProductionImpl(productions \o accept, productionCount + Len(accept), decl)
           lefts  == [k \in DOMAIN accept |-> accept[k].left]
           eof    == IF first THEN <<TokenEOF>> ELSE <<>>
<1>1. /\ phase = "add" /\ phase' = phase /\ state < Len(input.decls) /\ input' = input
      /\ productionCount' = added.count
      /\ symbolList' = symbolList \o lefts \o eof
  BY DEF AddProduction
<1>2. input \in Inputs /\ productionCount \in Nat /\ productions \in Seq(Production) /\ state \in Nat
  BY <1>1 DEF GInv, TypeOK, Added
<1>3. decl \in Production /\ decl.left \in Int
  <2>1. PICK decls : decls = input.decls
    OBVIOUS
  <2>2. decls \in Seq(Production) /\ state < Len(decls)
    BY <1>1, <1>2, <2>1, InputType
  <2>3. state + 1 \in DOMAIN decls
    BY <1>2, <2>2
  <2>4. decl = decls[state + 1]
    BY <2>1
  <2> HIDE DEF decl
  <2>5. decl \in Production
    BY <2>2, <2>3, <2>4
  <2> QED BY <2>5 DEF Production
<1>4. ~Making'
  BY <1>1 DEF Making
<1>5. CASE ~first
  <2>1. lefts = <<>> /\ eof = <<>> /\ accept = <<>>
    BY <1>5
  <2>2. symbolList' = symbolList
    <3>1. symbolList \in Seq(Int)
      BY DEF GInv, Added
    <3> HIDE DEF lefts, eof
    <3>2. symbolList \o <<>> = symbolList
      BY <3>1
    <3> QED BY <1>1, <2>1, <3>2
  <2>3. productionCount' # 0
    <3>1. Len(accept) = 0 /\ productions \o accept \in Seq(Production)
      BY <1>2, <2>1
    <3>2. added.count \in productionCount + Len(accept) .. productionCount + Len(accept) + 1
      <4>1. productionCount + Len(accept) \in Nat
        BY <1>2, <3>1
      <4> HIDE DEF decl, accept
      <4> QED BY <1>3, <3>1, <4>1, AddedType
    <3> HIDE DEF added, accept
    <3> QED BY <1>1, <1>2, <1>5, <3>1, <3>2
  <2> QED BY <1>1, <1>4, <2>2, <2>3 DEF TriedOnce, Untried
<1>6. CASE first
  <2>1. symbolList = input.symbols /\ accept = CreateAcceptingProductions(decl.left) /\ eof = <<TokenEOF>>
    BY <1>1, <1>6 DEF TriedOnce
  <2> DEFINE n == AcceptingCount
             L == Len(symbolList)
  <2>2. IsSymbolList(symbolList) /\ n \in 1 .. TerminalMask - AcceptingMask
    <3>1. IsSymbolList(input.symbols) /\ input.starts \in Seq(Int) /\ Len(input.starts) <= TerminalMask - AcceptingMask
      BY <1>2, InputsAssumption
    <3>2. n \in Nat \ {0}
      BY <1>2, InputType
    <3>3. TerminalMask - AcceptingMask = 50
      BY DEF TerminalMask, AcceptingMask
    <3>4. n = 1 \/ n = Len(input.starts)
      BY DEF AcceptingCount
    <3> HIDE DEF n
    <3>5. n \in 1 .. 50
      BY <3>1, <3>2, <3>3, <3>4
    <3> QED BY <2>1, <3>1, <3>3, <3>5
  <2>3. symbolList \in Seq(Int) /\ L \in Nat /\ DOMAIN symbolList = 1 .. L /\ n \in Nat \ {0}
    BY <1>2, <2>2, InputType DEF IsSymbolList
  <2>4. /\ Len(accept) = n /\ accept \in Seq(Production)
        /\ DOMAIN accept = 1 .. n /\ \A k \in 1 .. n : accept[k].left = AcceptingMask + k - 1
    <3>1. Len(accept) = n /\ accept \in Seq(Production)
      BY <1>2, <1>3, <2>1, AcceptingType
    <3> QED BY <2>1, <3>1 DEF CreateAcceptingProductions, AcceptingProduction
  <2> HIDE DEF decl, accept, n, L
  <2>5. lefts = [k \in 1 .. n |-> AcceptingMask + k - 1] /\ lefts \in Seq(Int) /\ Len(lefts) = n
    <3>1. lefts = [k \in 1 .. n |-> AcceptingMask + k - 1]
      BY <2>4
    <3>2. \A k \in 1 .. n : AcceptingMask + k - 1 \in Int
      BY <2>2 DEF AcceptingMask
    <3>3. n \in Nat
      BY <2>2
    <3> HIDE DEF lefts
    <3>4. lefts \in [1 .. n -> Int]
      BY <3>1, <3>2
    <3> QED BY <3>1, <3>3, <3>4
  <2> HIDE DEF lefts
  <2>6. /\ eof \in Seq(Int) /\ Len(eof) = 1 /\ eof[1] = TokenEOF
    BY <2>1 DEF TokenEOF, Terminal, TerminalMask
  <2> HIDE DEF eof
  <2>7. PICK new : new = symbolList'
    OBVIOUS
  <2>8. /\ new \in Seq(Int) /\ Len(new) = L + n + 1
        /\ \A k \in 1 .. L : new[k] = symbolList[k]
        /\ \A k \in 1 .. n : new[L + k] = AcceptingMask + k - 1
        /\ new[L + n + 1] = TokenEOF
    <3>1. PICK mid : mid = symbolList \o lefts
      OBVIOUS
    <3>2. new = mid \o eof
      BY <1>1, <2>7, <3>1
    <3>3. /\ mid \in Seq(Int) /\ Len(mid) = L + n
          /\ \A k \in 1 .. L : mid[k] = symbolList[k]
          /\ \A k \in 1 .. n : mid[L + k] = lefts[k]
      <4>1. Len(symbolList) = L
        BY DEF L
      <4>2. mid \in Seq(Int) /\ Len(mid) = L + n
        BY <2>3, <2>5, <3>1, <4>1, ConcatProperties
      <4>3. \A k \in 1 .. L + n : mid[k] = IF k <= L THEN symbolList[k] ELSE lefts[k - L]
        BY <2>3, <2>5, <3>1, <4>1, ConcatProperties
      <4>4. \A k \in 1 .. L : k \in 1 .. L + n /\ k <= L
        BY <2>3
      <4>5. \A k \in 1 .. n : L + k \in 1 .. L + n /\ ~(L + k <= L) /\ (L + k) - L = k
        BY <2>3
      <4> QED BY <4>2, <4>3, <4>4, <4>5
    <3>4. /\ new \in Seq(Int) /\ Len(new) = L + n + 1
          /\ \A k \in 1 .. L + n + 1 : new[k] = IF k <= L + n THEN mid[k] ELSE eof[k - (L + n)]
      <4>1. eof \in Seq(Int) /\ Len(eof) = 1 /\ mid \in Seq(Int)
        BY <2>6, <3>3
      <4>2. PICK end : end = eof
        OBVIOUS
      <4>3. /\ mid \o end \in Seq(Int) /\ Len(mid \o end) = Len(mid) + Len(end)
            /\ \A k \in 1 .. Len(mid) + Len(end) :
                 (mid \o end)[k] = IF k <= Len(mid) THEN mid[k] ELSE end[k - Len(mid)]
        BY <4>1, <4>2, ConcatProperties
      <4> QED BY <3>2, <3>3, <4>1, <4>2, <4>3
    <3>6. \A k \in 1 .. L : k \in 1 .. L + n + 1 /\ k <= L + n
      BY <2>3
    <3>7. \A k \in 1 .. n : L + k \in 1 .. L + n + 1 /\ L + k <= L + n
      BY <2>3
    <3>8. L + n + 1 \in 1 .. L + n + 1 /\ ~(L + n + 1 <= L + n) /\ (L + n + 1) - (L + n) = 1
      BY <2>3
    <3> QED BY <2>5, <2>6, <3>3, <3>4, <3>6, <3>7, <3>8
  <2>9. DOMAIN new = 1 .. L + n + 1
    BY <2>2, <2>3, <2>8
  <2>10. ASSUME NEW k \in DOMAIN new
         PROVE  \/ k \in 1 .. L /\ new[k] = symbolList[k] /\ ~IsAccepting(new[k]) /\ new[k] # TokenEOF
                \/ k \in L + 1 .. L + n /\ new[k] = AcceptingMask + (k - L) - 1 /\ IsAccepting(new[k])
                \/ k = L + n + 1 /\ new[k] = TokenEOF /\ ~IsAccepting(new[k])
    <3>1. CASE k \in 1 .. L
      BY <2>2, <2>3, <2>8, <3>1 DEF IsSymbolList
    <3>2. CASE k \in L + 1 .. L + n
      <4>1. k - L \in 1 .. n /\ L + (k - L) = k
        BY <2>2, <2>3, <3>2
      <4>2. new[k] = AcceptingMask + (k - L) - 1
        BY <2>8, <4>1
      <4> QED BY <2>2, <3>2, <4>1, <4>2 DEF IsAccepting, AcceptingMask, TerminalMask
    <3>3. CASE k = L + n + 1
      BY <2>8, <3>3 DEF IsAccepting, AcceptingMask, TerminalMask, TokenEOF, Terminal
    <3> QED BY <2>2, <2>3, <2>9, <3>1, <3>2, <3>3
  <2>11. ASSUME NEW j \in DOMAIN new, NEW k \in DOMAIN new, new[j] = new[k]
         PROVE  j = k
    <3>1. CASE IsAccepting(new[k])
      <4>1. /\ j \in L + 1 .. L + n /\ new[j] = AcceptingMask + (j - L) - 1
            /\ k \in L + 1 .. L + n /\ new[k] = AcceptingMask + (k - L) - 1
        BY <2>10, <2>11, <3>1
      <4>2. AcceptingMask + (j - L) - 1 = AcceptingMask + (k - L) - 1
        BY <2>11, <4>1
      <4>3. j \in Int /\ k \in Int
        BY <2>3, <4>1
      <4> QED BY <2>3, <4>2, <4>3 DEF AcceptingMask
    <3>2. CASE new[k] = TokenEOF
      <4>1. ~IsAccepting(TokenEOF)
        BY DEF IsAccepting, AcceptingMask, TerminalMask, TokenEOF, Terminal
      <4> QED BY <2>10, <2>11, <3>2, <4>1
    <3>3. CASE ~IsAccepting(new[k]) /\ new[k] # TokenEOF
      <4>1. j \in 1 .. L /\ k \in 1 .. L /\ symbolList[j] = symbolList[k]
        BY <2>10, <2>11, <3>3
      <4> QED BY <2>3, <4>1 DEF TriedOnce, Distinct
    <3> QED BY <3>1, <3>2, <3>3
  <2>12. productionCount' # 0
    <3>1. productions \o accept \in Seq(Production) /\ productionCount + Len(accept) = n
      BY <1>2, <1>6, <2>2, <2>4
    <3>2. added.count \in n .. n + 1
      <4>1. n \in Nat
        BY <2>2
      <4> QED BY <1>3, <3>1, <4>1, AddedType
    <3> HIDE DEF added
    <3> QED BY <1>1, <2>2, <3>2
  <2> QED BY <1>4, <2>7, <2>11, <2>12 DEF TriedOnce, Untried, Distinct
<1> HIDE DEF first
<1> QED BY <1>5, <1>6

\* What the transition that is set, of a symbol not tried before, makes of the tables.
LEMMA TransitionOnce ==
  ASSUME NEW n \in Nat, state \in 1 .. n, NEW target \in Nat \ {0},
         NEW actions, IsTable(actions, n), NEW gotos, IsTable(gotos, n),
         SetTransition(target, actions, gotos), NextSymbol, Distinct(symbolList),
         symbolList \in Seq(Int), symbol \in DOMAIN symbolList, UNCHANGED symbolList,
         \A s \in 1 .. n : \A k \in DOMAIN symbolList :
           ~Tried(s, k) => symbolList[k] \notin DOMAIN actions[s] \cup DOMAIN gotos[s]
  PROVE  /\ \A s \in 1 .. n : \A t \in DOMAIN actions[s] :
              t \in DOMAIN actionTable'[s] /\ actionTable'[s][t] = actions[s][t]
         /\ \A s \in 1 .. n : \A x \in DOMAIN gotos[s] :
              x \in DOMAIN gotoTable'[s] /\ gotoTable'[s][x] = gotos[s][x]
         /\ \A s \in 1 .. n : \A k \in DOMAIN symbolList :
              ~Tried(s, k)' => symbolList[k] \notin DOMAIN actionTable'[s] \cup DOMAIN gotoTable'[s]
<1>1. /\ \A s \in 1 .. n : s # state => actionTable'[s] = actions[s] /\ gotoTable'[s] = gotos[s]
      /\ DOMAIN actionTable'[state] =
           DOMAIN actions[state] \cup (IF IsTerminal(CurrentSymbol) THEN {CurrentSymbol} ELSE {})
      /\ \A t \in DOMAIN actionTable'[state] :
           actionTable'[state][t] = IF IsTerminal(CurrentSymbol) /\ t = CurrentSymbol
                                    THEN ShiftTo(target) ELSE actions[state][t]
  BY TransitionFacts
<1>2. /\ DOMAIN gotoTable'[state] \subseteq DOMAIN gotos[state] \cup {CurrentSymbol}
      /\ \A x \in DOMAIN gotos[state] :
           x \in DOMAIN gotoTable'[state] /\ (x # CurrentSymbol => gotoTable'[state][x] = gotos[state][x])
  <2>1. gotos = [s \in 1 .. n |-> gotos[s]]
    BY DEF IsTable
  <2>2. PICK row : row = Over(gotos[state], [x \in {CurrentSymbol} |-> target])
    OBVIOUS
  <2>3. /\ DOMAIN row = DOMAIN gotos[state] \cup {CurrentSymbol}
        /\ \A x \in DOMAIN gotos[state] : x # CurrentSymbol => row[x] = gotos[state][x]
    BY <2>2 DEF Over
  <2>4. gotoTable'[state] = gotos[state] \/ gotoTable'[state] = row
    BY <2>1, <2>2 DEF SetTransition
  <2> QED BY <2>3, <2>4
<1>3. ~Tried(state, symbol) /\ state \in Nat
  <2>1. Len(symbolList) \in Nat /\ DOMAIN symbolList = 1 .. Len(symbolList)
    OBVIOUS
  <2> QED BY <2>1 DEF Tried
<1>4. CurrentSymbol \notin DOMAIN actions[state] \cup DOMAIN gotos[state]
  BY <1>3 DEF CurrentSymbol
<1>5. \A s \in Nat, k \in DOMAIN symbolList : Tried(s, k)' <=> Tried(s, k) \/ (s = state /\ k = symbol)
  <2>1. state \in Nat \ {0}
    OBVIOUS
  <2> QED BY <2>1, NextSymbolFacts
<1>6. ASSUME NEW s \in 1 .. n, NEW k \in DOMAIN symbolList, ~Tried(s, k)'
      PROVE  symbolList[k] \notin DOMAIN actionTable'[s] \cup DOMAIN gotoTable'[s]
  <2>1. ~Tried(s, k) /\ ~(s = state /\ k = symbol) /\ symbolList[k] \notin DOMAIN actions[s] \cup DOMAIN gotos[s]
    <3>1. s \in Nat
      OBVIOUS
    <3> QED BY <1>5, <1>6, <3>1
  <2>2. CASE s # state
    BY <1>1, <2>1, <2>2
  <2>3. CASE s = state
    <3>1. symbolList[k] # CurrentSymbol
      BY <2>1, <2>3 DEF Distinct, CurrentSymbol
    <3> QED BY <1>1, <1>2, <2>1, <2>3, <3>1
  <2> QED BY <2>2, <2>3
<1>7. ASSUME NEW s \in 1 .. n, NEW t \in DOMAIN actions[s]
      PROVE  t \in DOMAIN actionTable'[s] /\ actionTable'[s][t] = actions[s][t]
  BY <1>1, <1>4
<1>8. ASSUME NEW s \in 1 .. n, NEW x \in DOMAIN gotos[s]
      PROVE  x \in DOMAIN gotoTable'[s] /\ gotoTable'[s][x] = gotos[s][x]
  BY <1>1, <1>2, <1>4
<1> QED BY <1>6, <1>7, <1>8

\* A start state is added behind the others, with nothing tried in it.
LEMMA AddStartStateGrown == GInv /\ TriedOnce /\ AddStartState => Grown /\ TriedOnce'
<1> SUFFICES ASSUME GInv, TriedOnce, AddStartState PROVE Grown /\ TriedOnce'
  OBVIOUS
<1> DEFINE n == Len(canonicalSet)
<1>1. /\ phase = "closure" /\ Starting /\ NewState(gotoSet, {})
      /\ actionTable' = Append(actionTable, EmptyRow) /\ phase' \in {"start", "goto"}
      /\ gotoTable' = Append(gotoTable, EmptyRow)
      /\ UNCHANGED <<input, type, building, conflicts, terminalItems, state, symbol>>
  BY DEF AddStartState, reducing
<1>2. Making /\ productions \in Seq(Production) /\ Item' = Item /\ productions' = productions /\ gotoSet # <<>>
      /\ symbolList' = symbolList
  <2>1. Making /\ Making'
    BY <1>1 DEF Making
  <2> QED BY <1>1, <2>1, Frame DEF GInv, Positions, building
<1>3. n \in Nat /\ DOMAIN canonicalSet = 1 .. n /\ DOMAIN canonicalSet' = 1 .. n + 1
      /\ \A s \in 1 .. n : canonicalSet'[s] = canonicalSet[s]
  BY <1>1, <1>2, NewStateFacts
<1>4. actionTable = [s \in 1 .. n |-> actionTable[s]] /\ gotoTable = [s \in 1 .. n |-> gotoTable[s]]
  BY <1>3 DEF GInv, Tables, ForStates
<1>5. /\ actionTable' = [s \in 1 .. n + 1 |-> IF s = n + 1 THEN EmptyRow ELSE actionTable[s]]
      /\ gotoTable' = [s \in 1 .. n + 1 |-> IF s = n + 1 THEN EmptyRow ELSE gotoTable[s]]
  BY <1>1, <1>3, <1>4, AppendTable
<1> HIDE DEF n
<1>6. Grown
  BY <1>3, <1>4, <1>5 DEF Grown, ItemsKept, ActionsKept
<1>7. DOMAIN EmptyRow = {}
  BY DEF EmptyRow
<1>8. Untried'
  <2>1. ASSUME NEW s \in 1 .. n + 1, NEW k \in DOMAIN symbolList, ~Tried(s, k)'
        PROVE  symbolList[k] \notin DOMAIN actionTable'[s] \cup DOMAIN gotoTable'[s]
    <3>1. ~Tried(s, k)
      BY <1>1, <2>1 DEF Tried
    <3>2. CASE s \in 1 .. n
      <4>1. symbolList[k] \notin DOMAIN actionTable[s] \cup DOMAIN gotoTable[s]
        BY <1>2, <1>3, <3>1, <3>2 DEF TriedOnce, Untried
      <4>2. actionTable'[s] = actionTable[s] /\ gotoTable'[s] = gotoTable[s]
        BY <1>3, <1>5, <3>2
      <4> QED BY <4>1, <4>2
    <3>3. CASE s = n + 1
      BY <1>3, <1>5, <1>7, <3>3
    <3> QED BY <1>3, <3>2, <3>3
  <2> QED BY <1>2, <1>3, <2>1 DEF Untried
<1> QED BY <1>1, <1>2, <1>6, <1>8 DEF TriedOnce

\* A state that was not found is added behind the others, and led to.
LEMMA AddStateGrown == GInv /\ TriedOnce /\ AddState => Grown /\ TriedOnce'
<1> SUFFICES ASSUME GInv, TriedOnce, AddState PROVE Grown /\ TriedOnce'
  OBVIOUS
<1>1. PICK n, actions, gotos : /\ n = Len(canonicalSet)
                               /\ actions = Append(actionTable, EmptyRow)
                               /\ gotos = Append(gotoTable, EmptyRow)
  OBVIOUS
<1>2. /\ phase = "closure" /\ ~Starting /\ NewState(gotoSet, {state}) /\ phase' = "goto" /\ NextSymbol
      /\ SetTransition(n + 1, actions, gotos)
      /\ UNCHANGED <<input, type, building, conflicts, terminalItems>>
  BY <1>1 DEF AddState, Searching, reducing
<1>3. Making /\ Making' /\ symbolList' = symbolList
  BY <1>2 DEF Making, building
<1>4. /\ productions \in Seq(Production) /\ Item' = Item /\ productions' = productions /\ gotoSet # <<>>
      /\ state \in DOMAIN canonicalSet /\ symbolList \in Seq(Int) /\ symbol \in DOMAIN symbolList
  BY <1>2, <1>3, Frame DEF GInv, Positions, Following, Added
<1>5. n \in Nat /\ DOMAIN canonicalSet = 1 .. n /\ DOMAIN canonicalSet' = 1 .. n + 1
      /\ \A s \in 1 .. n : canonicalSet'[s] = canonicalSet[s]
  BY <1>1, <1>2, <1>4, NewStateFacts
<1>6. IsTable(actionTable, n) /\ IsTable(gotoTable, n)
  BY <1>1, <1>3, TablesFacts
<1>7. /\ actions = [s \in 1 .. n + 1 |-> IF s = n + 1 THEN EmptyRow ELSE actionTable[s]]
      /\ gotos = [s \in 1 .. n + 1 |-> IF s = n + 1 THEN EmptyRow ELSE gotoTable[s]]
  BY <1>1, <1>5, <1>6, AppendTable DEF IsTable
<1>8. IsTable(actions, n + 1) /\ IsTable(gotos, n + 1)
  BY <1>7 DEF IsTable
<1>9. n + 1 \in Nat /\ n + 1 \in Nat \ {0} /\ state \in 1 .. n + 1
  BY <1>4, <1>5
<1>10. ASSUME NEW s \in 1 .. n + 1, NEW k \in DOMAIN symbolList, ~Tried(s, k)
       PROVE  symbolList[k] \notin DOMAIN actions[s] \cup DOMAIN gotos[s]
  <2>1. CASE s = n + 1
    BY <1>7, <2>1 DEF EmptyRow
  <2>2. CASE s # n + 1
    <3>1. s \in 1 .. n /\ actions[s] = actionTable[s] /\ gotos[s] = gotoTable[s]
      BY <1>5, <1>7, <2>2
    <3> QED BY <1>3, <1>5, <1>10, <3>1 DEF TriedOnce, Untried
  <2> QED BY <2>1, <2>2
<1>11. /\ \A s \in 1 .. n + 1 : \A t \in DOMAIN actions[s] :
            t \in DOMAIN actionTable'[s] /\ actionTable'[s][t] = actions[s][t]
       /\ \A s \in 1 .. n + 1 : \A x \in DOMAIN gotos[s] :
            x \in DOMAIN gotoTable'[s] /\ gotoTable'[s][x] = gotos[s][x]
       /\ \A s \in 1 .. n + 1 : \A k \in DOMAIN symbolList :
            ~Tried(s, k)' => symbolList[k] \notin DOMAIN actionTable'[s] \cup DOMAIN gotoTable'[s]
  <2>1. Distinct(symbolList)
    BY DEF TriedOnce
  <2> QED BY <1>2, <1>3, <1>4, <1>8, <1>9, <1>10, <2>1, TransitionOnce
<1>12. \A s \in 1 .. n : s \in 1 .. n + 1 /\ actions[s] = actionTable[s] /\ gotos[s] = gotoTable[s]
  BY <1>5, <1>7
<1>13. DOMAIN actionTable = 1 .. n /\ DOMAIN gotoTable = 1 .. n
  BY <1>6 DEF IsTable
<1>14. Grown
  BY <1>5, <1>11, <1>12, <1>13 DEF Grown, ItemsKept, ActionsKept
<1>15. Untried'
  BY <1>3, <1>5, <1>11 DEF Untried
<1> QED BY <1>2, <1>3, <1>14, <1>15 DEF TriedOnce

\* After merging the transition is set.
LEMMA EndMergeGrown == GInv /\ TriedOnce /\ EndMerge => Grown /\ TriedOnce'
<1> SUFFICES ASSUME GInv, TriedOnce, EndMerge PROVE Grown /\ TriedOnce'
  OBVIOUS
<1>1. /\ phase = "merge" /\ phase' = "goto" /\ SetTransition(searchIndex, actionTable, gotoTable) /\ NextSymbol
      /\ canonicalSet' = canonicalSet /\ symbolList' = symbolList
  BY DEF EndMerge, building
<1>2. Making
  BY <1>1 DEF Making
<1>3. PICK n : n = Len(canonicalSet)
  OBVIOUS
<1>4. n \in Nat /\ DOMAIN canonicalSet = 1 .. n /\ IsTable(actionTable, n) /\ IsTable(gotoTable, n)
  BY <1>2, <1>3, TablesFacts
<1>5. state \in 1 .. n /\ searchIndex \in Nat \ {0} /\ symbol \in DOMAIN symbolList /\ symbolList \in Seq(Int)
  BY <1>1, <1>4 DEF GInv, Positions, Following, Added
<1>6. \A s \in 1 .. n : \A k \in DOMAIN symbolList :
        ~Tried(s, k) => symbolList[k] \notin DOMAIN actionTable[s] \cup DOMAIN gotoTable[s]
  BY <1>2, <1>4 DEF TriedOnce, Untried
<1>7. /\ \A s \in 1 .. n : \A t \in DOMAIN actionTable[s] :
           t \in DOMAIN actionTable'[s] /\ actionTable'[s][t] = actionTable[s][t]
      /\ \A s \in 1 .. n : \A x \in DOMAIN gotoTable[s] :
           x \in DOMAIN gotoTable'[s] /\ gotoTable'[s][x] = gotoTable[s][x]
      /\ \A s \in 1 .. n : \A k \in DOMAIN symbolList :
           ~Tried(s, k)' => symbolList[k] \notin DOMAIN actionTable'[s] \cup DOMAIN gotoTable'[s]
  <2>1. Distinct(symbolList)
    BY DEF TriedOnce
  <2> QED BY <1>1, <1>4, <1>5, <1>6, <2>1, TransitionOnce
<1>8. DOMAIN actionTable = 1 .. n /\ DOMAIN gotoTable = 1 .. n
  BY <1>4 DEF IsTable
<1>9. Grown
  BY <1>1, <1>7, <1>8 DEF Grown, ItemsKept, ActionsKept
<1>10. Untried'
  BY <1>1, <1>4, <1>7 DEF Untried
<1> QED BY <1>1, <1>9, <1>10 DEF TriedOnce

\* A lookahead that moves on enters one item and changes nothing else.
LEMMA SpreadLookAheadGrown == GInv /\ SpreadLookAhead => Grown
<1> SUFFICES ASSUME GInv, SpreadLookAhead PROVE Grown
  OBVIOUS
<1>1. PICK s, i, t : s = Head(spread)[1] /\ i = Head(spread)[2] /\ t = Head(spread)[3]
  OBVIOUS
<1>2. /\ canonicalSet' = canonicalSet \/ canonicalSet' = [canonicalSet EXCEPT ![s][i].la = @ \cup {t}]
      /\ actionTable' = actionTable /\ gotoTable' = gotoTable /\ phase = "merge" /\ spread # <<>>
  BY <1>1 DEF SpreadLookAhead
<1>3. canonicalSet \in Seq(Seq(Item))
  BY DEF GInv, TypeOK, TablesOK
<1>4. s \in DOMAIN canonicalSet /\ i \in DOMAIN canonicalSet[s]
  <2>1. /\ spread \in Seq(Nat \X Nat \X Terminals)
        /\ \A k \in DOMAIN spread : /\ spread[k][1] \in DOMAIN canonicalSet
                                     /\ spread[k][2] \in DOMAIN canonicalSet[spread[k][1]]
    BY DEF GInv, Positions
  <2>2. 1 \in DOMAIN spread /\ Head(spread) = spread[1]
    BY <1>2, <2>1
  <2> QED BY <1>1, <2>1, <2>2
<1>5. CASE canonicalSet' = [canonicalSet EXCEPT ![s][i].la = @ \cup {t}]
  <2>1. PICK item, new, row : /\ item = canonicalSet[s][i] /\ new = [item EXCEPT !.la = @ \cup {t}]
                              /\ row = [canonicalSet[s] EXCEPT ![i] = new]
    OBVIOUS
  <2>2. item \in Item
    BY <1>3, <1>4, <2>1
  <2>3. new.prod = item.prod /\ new.dot = item.dot /\ item.la \subseteq new.la
    BY <2>1, <2>2 DEF Item
  <2>4. \A q \in DOMAIN canonicalSet : q \in DOMAIN canonicalSet'
                                       /\ canonicalSet'[q] = IF q = s THEN row ELSE canonicalSet[q]
    BY <1>3, <1>4, <1>5, <2>1
  <2>5. Len(row) = Len(canonicalSet[s]) /\ \A j \in DOMAIN canonicalSet[s] : row[j] = IF j = i THEN new ELSE canonicalSet[s][j]
    <3>1. canonicalSet[s] \in Seq(Item)
      BY <1>3, <1>4
    <3> QED BY <1>4, <2>1, <3>1
  <2>6. ASSUME NEW q \in DOMAIN canonicalSet
        PROVE  /\ q \in DOMAIN canonicalSet' /\ Len(canonicalSet'[q]) = Len(canonicalSet[q])
               /\ \A j \in DOMAIN canonicalSet[q] :
                    /\ canonicalSet'[q][j].prod = canonicalSet[q][j].prod
                    /\ canonicalSet'[q][j].dot = canonicalSet[q][j].dot
                    /\ canonicalSet[q][j].la \subseteq canonicalSet'[q][j].la
    <3>1. CASE q = s
      BY <2>1, <2>3, <2>4, <2>5, <3>1
    <3>2. CASE q # s
      BY <2>4, <3>2
    <3> QED BY <3>1, <3>2
  <2> QED BY <1>2, <2>6 DEF Grown, ItemsKept, ActionsKept
<1> QED BY <1>2, <1>5, SameGrown

\* A reduction takes the place of an action only as GivenUp says.
LEMMA ReduceItemGrown == GInv /\ ReduceItem => Grown
<1> SUFFICES ASSUME GInv, ReduceItem PROVE Grown
  OBVIOUS
<1>1. PICK items, item : items = canonicalSet[state] /\ item = items[symbol]
  OBVIOUS
<1> DEFINE act(t)    == Entry(actionTable[state], t, NoAction)
           result(t) == Decide(items, symbol, t, act(t))
           taken     == {t \in item.la : result(t).decision = "reduce"}
           cleared   == {t \in item.la : result(t).decision = "neither"}
           new       == [t \in taken \cup cleared |-> IF t \in taken THEN Reduction(Prod(item), t) ELSE NoAction]
<1>2. /\ actionTable' = [actionTable EXCEPT ![state] = Over(@, new)] /\ AtEnd(item)
      /\ canonicalSet' = canonicalSet /\ gotoTable' = gotoTable /\ phase = "reduce" /\ EndItem
  BY <1>1 DEF ReduceItem
<1>3. actionTable = [s \in DOMAIN canonicalSet |-> actionTable[s]] /\ DOMAIN actionTable = DOMAIN canonicalSet
  BY DEF GInv, Tables, ForStates
<1>4. /\ state \in DOMAIN canonicalSet /\ symbol \in DOMAIN items /\ ItemsOK(items) /\ productions \in Seq(Production)
      /\ \A t \in DOMAIN actionTable[state] : actionTable[state][t] \in Actions
  BY <1>1, <1>2, <1>3 DEF GInv, Positions, TypeOK, TablesOK, Added
<1> HIDE DEF result
<1>5. /\ DOMAIN Over(actionTable[state], new) = DOMAIN actionTable[state] \cup taken \cup cleared
      /\ \A t \in DOMAIN actionTable[state] :
           Over(actionTable[state], new)[t] =
             IF t \in taken THEN Reduction(Prod(item), t) ELSE IF t \in cleared THEN NoAction
             ELSE actionTable[state][t]
  BY DEF Over
<1> HIDE DEF new
<1>6. \A s \in DOMAIN actionTable : actionTable'[s] = IF s = state THEN Over(actionTable[state], new) ELSE actionTable[s]
  BY <1>2, <1>3
<1>7. ASSUME NEW t \in DOMAIN actionTable[state], t \in taken \cup cleared
      PROVE  GivenUp(state, t)
  <2>1. PICK old : old = actionTable[state][t]
    OBVIOUS
  <2>2. old \in Actions /\ act(t) = old
    BY <1>4, <1>7, <2>1 DEF Entry
  <2>3. /\ result(t).decision = "neither" =>
             old.kind = "shift" /\ t \in DOMAIN input.prec /\ input.prec[t].assoc = "nonassoc"
        /\ old.kind = "shift" /\ result(t).decision # "shift" =>
             t \in DOMAIN input.prec \/ Telling(items, t, Prod(item).left) # {}
        /\ old.kind = "accept" => result(t).decision = "keep"
    <3>1. result(t) = Decide(items, symbol, t, old)
      BY <2>2 DEF result
    <3> QED BY <1>1, <1>4, <2>2, <3>1, DecideFacts
  <2>4. t \in item.la /\ result(t).decision \in {"reduce", "neither"}
    BY <1>7
  <2>5. symbol \in Reducers(state, t)
    BY <1>1, <1>2, <1>4, <2>4 DEF Reducers
  <2>6. old # Accept
    <3>1. Accept.kind = "accept"
      BY DEF Accept
    <3> QED BY <2>3, <2>4, <3>1
  <2>7. old.kind = "shift" => Settled(state, t, 0, symbol)
    BY <1>1, <2>3, <2>4 DEF Settled
  <2>8. actionTable'[state][t] = IF t \in taken THEN Reduction(Prod(item), t) ELSE NoAction
    BY <1>3, <1>4, <1>5, <1>6, <1>7
  <2>9. t \notin taken => result(t).decision = "neither"
    BY <1>7
  <2> HIDE DEF taken, cleared
  <2> QED BY <1>1, <1>2, <2>1, <2>3, <2>5, <2>6, <2>7, <2>8, <2>9 DEF GivenUp
<1>8. ASSUME NEW s \in DOMAIN actionTable, NEW t \in DOMAIN actionTable[s]
      PROVE  t \in DOMAIN actionTable'[s] /\ (actionTable'[s][t] = actionTable[s][t] \/ GivenUp(s, t))
  <2>1. CASE s = state
    <3>1. t \in DOMAIN actionTable'[s]
      BY <1>5, <1>6, <1>8, <2>1
    <3>2. t \notin taken \cup cleared => actionTable'[s][t] = actionTable[s][t]
      BY <1>5, <1>6, <1>8, <2>1
    <3> HIDE DEF taken, cleared
    <3> QED BY <1>7, <1>8, <2>1, <3>1, <3>2
  <2>2. CASE s # state
    BY <1>6, <1>8, <2>2
  <2> QED BY <2>1, <2>2
<1> QED BY <1>2, <1>8 DEF Grown, ItemsKept, ActionsKept

\* A step that sets no transition tries nothing again.
LEMMA SameTried ==
  ASSUME GInv, TriedOnce, UNCHANGED symbolList,
         phase' = "add" => phase = "add" /\ UNCHANGED <<productionCount, input>>,
         Making' => /\ Making /\ UNCHANGED <<actionTable, gotoTable>>
                    /\ DOMAIN canonicalSet' = DOMAIN canonicalSet
                    /\ \A s \in DOMAIN canonicalSet : \A k \in DOMAIN symbolList : Tried(s, k) => Tried(s, k)'
  PROVE  TriedOnce'
<1>1. Distinct(symbolList)' /\ (phase = "add" /\ productionCount = 0 => symbolList = input.symbols)'
  BY DEF TriedOnce
<1>2. Untried'
  BY DEF TriedOnce, Untried
<1> QED BY <1>1, <1>2 DEF TriedOnce

\* Every symbol is tried once in a state.
LEMMA StepTriedOnce == GInv /\ TriedOnce /\ [Next]_vars => TriedOnce'
<1> SUFFICES ASSUME GInv, TriedOnce, [Next]_vars PROVE TriedOnce'
  OBVIOUS
<1>1. CASE CheckProductions
  <2>1. phase = "add" /\ phase' \in {"error", "start"} /\ canonicalSet' = canonicalSet /\ symbolList' = symbolList
    BY <1>1 DEF CheckProductions, tables
  <2>2. canonicalSet = <<>>
    BY <2>1, AddingFacts
  <2>3. Untried'
    BY <2>1, <2>2 DEF Untried
  <2> QED BY <2>1, <2>3 DEF TriedOnce
<1>2. CASE StartItem \/ Closure \/ RefuseMerge \/ MergeState \/ SpreadLookAhead
  <2>1. /\ Making /\ Making' /\ UNCHANGED <<symbolList, actionTable, gotoTable, state, symbol>>
        /\ DOMAIN canonicalSet' = DOMAIN canonicalSet
    <3>1. CASE SpreadLookAhead
      <4>1. PICK s, i, t : s = Head(spread)[1] /\ i = Head(spread)[2] /\ t = Head(spread)[3]
        OBVIOUS
      <4>2. /\ phase = "merge" /\ phase' = phase /\ UNCHANGED <<symbolList, actionTable, gotoTable, state, symbol>>
            /\ canonicalSet' = canonicalSet \/ canonicalSet' = [canonicalSet EXCEPT ![s][i].la = @ \cup {t}]
        BY <3>1, <4>1 DEF SpreadLookAhead, building
      <4>3. DOMAIN canonicalSet' = DOMAIN canonicalSet
        BY <4>2
      <4> QED BY <4>2, <4>3 DEF Making
    <3> QED BY <1>2, <3>1 DEF StartItem, Closure, RefuseMerge, MergeState, Making, Searching, tables, building
  <2> QED BY <2>1, SameTried DEF Tried, Making
<1>3. CASE Goto
  <2>1. /\ phase = "goto" /\ phase' \in {"goto", "closure"} /\ UNCHANGED <<symbolList, canonicalSet, actionTable, gotoTable>>
        /\ NextSymbol \/ UNCHANGED <<state, symbol>>
    BY <1>3 DEF Goto, tables, building
  <2>2. Making /\ state \in Nat \ {0} /\ symbol \in DOMAIN symbolList /\ symbolList \in Seq(Int)
        /\ DOMAIN canonicalSet \subseteq Nat
    BY <2>1 DEF Making, GInv, Positions, Added, TypeOK, TablesOK
  <2>3. ASSUME NEW s \in DOMAIN canonicalSet, NEW k \in DOMAIN symbolList, Tried(s, k)
        PROVE  Tried(s, k)'
    <3>1. CASE NextSymbol
      <4>1. s \in Nat
        BY <2>2
      <4> QED BY <2>2, <2>3, <3>1, <4>1, NextSymbolFacts
    <3>2. CASE UNCHANGED <<state, symbol>>
      BY <2>3, <3>2 DEF Tried
    <3> QED BY <2>1, <3>1, <3>2
  <2> QED BY <2>1, <2>2, <2>3, SameTried
<1>4. CASE EndGoto \/ ShiftItem \/ ReduceItem
  <2>1. phase' \in {"reduce", "done"} /\ symbolList' = symbolList
    BY <1>4 DEF EndGoto, ShiftItem, ReduceItem, EndItem, building
  <2>2. ~Making' /\ phase' # "add"
    BY <2>1 DEF Making
  <2> QED BY <2>1, <2>2, SameTried
<1>5. CASE UNCHANGED vars
  BY <1>5, SameTried DEF vars, building, tables, Making, Tried
<1> QED BY <1>1, <1>2, <1>3, <1>4, <1>5, StepTriedAdd, AddStartStateGrown, AddStateGrown, EndMergeGrown DEF Next

\* The states are kept when one is added, whatever the symbols.
LEMMA ItemsOnlyGrow == GInv /\ (AddStartState \/ AddState \/ EndMerge) => ItemsKept
<1> SUFFICES ASSUME GInv, AddStartState \/ AddState \/ EndMerge PROVE ItemsKept
  OBVIOUS
<1>1. CASE EndMerge
  BY <1>1 DEF EndMerge, ItemsKept
<1>2. CASE AddStartState \/ AddState
  <2>1. PICK sources : NewState(gotoSet, sources)
    BY <1>2 DEF AddStartState, AddState
  <2>2. Making /\ Making' /\ UNCHANGED <<input, type, building, conflicts, terminalItems>> /\ phase = "closure"
    BY <1>2 DEF AddStartState, AddState, Searching, reducing, Making
  <2>3. productions \in Seq(Production) /\ Item' = Item /\ productions' = productions /\ gotoSet # <<>>
    BY <2>2, Frame DEF GInv, Positions, building
  <2>4. \A s \in DOMAIN canonicalSet : s \in DOMAIN canonicalSet' /\ canonicalSet'[s] = canonicalSet[s]
    <3>1. PICK n : n = Len(canonicalSet)
      OBVIOUS
    <3>2. /\ n \in Nat /\ DOMAIN canonicalSet = 1 .. n /\ DOMAIN canonicalSet' = 1 .. n + 1
          /\ \A s \in 1 .. n : canonicalSet'[s] = canonicalSet[s]
      BY <2>1, <2>3, <3>1, NewStateFacts
    <3> QED BY <3>2
  <2> QED BY <2>4 DEF ItemsKept
<1> QED BY <1>1, <1>2

\* No state is given two transitions on one symbol while the states are made, unless a
\* terminal goes by two names.
THEOREM SymbolsTriedOnce == Spec => [](NamedOnce => TriedOnce)
<1>1. Init => (NamedOnce => TriedOnce)
  <2>1. SUFFICES ASSUME Init, NamedOnce PROVE TriedOnce
    OBVIOUS
  <2>2. symbolList = input.symbols /\ phase = "add"
    BY <2>1 DEF Init
  <2>3. Distinct(symbolList)
    BY <2>1, <2>2 DEF NamedOnce
  <2>4. ~Making
    BY <2>2 DEF Making
  <2> QED BY <2>2, <2>3, <2>4 DEF TriedOnce, Untried
<1>2. GInv /\ (NamedOnce => TriedOnce) /\ [Next]_vars => (NamedOnce => TriedOnce)'
  <2>1. SUFFICES ASSUME GInv, NamedOnce => TriedOnce, [Next]_vars, NamedOnce' PROVE TriedOnce'
    OBVIOUS
  <2>2. input' = input
    BY <2>1 DEF Next, vars, AddProduction, CheckProductions, StartItem, Closure, AddStartState, Goto, AddState,
                RefuseMerge, MergeState, SpreadLookAhead, EndMerge, EndGoto, ShiftItem, ReduceItem
  <2>3. NamedOnce
    BY <2>1, <2>2 DEF NamedOnce
  <2> QED BY <2>1, <2>3, StepTriedOnce
<1> QED BY <1>1, <1>2, GInvInvariant, PTL DEF Spec

\* States are edited in place while others are made and compared with them, and still
\* no step changes the core of a state or takes a lookahead back, nor, if no terminal goes
\* by two names, leads a shift or a goto elsewhere.  Actions are then given up only to a
\* finished item whose turn it is to set its reductions, acceptance never, shifts only where
\* the grammar declares who wins, and only a shift on a terminal that does not associate is
\* lost to nothing (Grammar.cpp, the loop that merges states and the one that sets the
\* reduce actions).
THEOREM StatesOnlyGrow == Spec => SetsOnlyGrow
<1>1. GInv /\ (NamedOnce => TriedOnce) /\ Next => Grown
  <2>1. SUFFICES ASSUME GInv, NamedOnce => TriedOnce, Next PROVE Grown
    OBVIOUS
  <2>2. AddProduction \/ CheckProductions \/ StartItem \/ Closure \/ Goto \/ RefuseMerge \/ MergeState
          \/ EndGoto \/ ShiftItem => UNCHANGED <<canonicalSet, actionTable, gotoTable>>
    BY DEF AddProduction, CheckProductions, StartItem, Closure, Goto, RefuseMerge, MergeState, EndGoto,
           ShiftItem, tables
  <2>3. AddStartState \/ AddState \/ EndMerge => Grown
    BY <2>1, ItemsOnlyGrow, AddStartStateGrown, AddStateGrown, EndMergeGrown DEF Grown
  <2> QED BY <2>1, <2>2, <2>3, SameGrown, SpreadLookAheadGrown, ReduceItemGrown DEF Next
<1>2. GInv /\ (NamedOnce => TriedOnce) /\ [Next]_vars => [Grown]_vars
  BY <1>1
<1> QED BY <1>2, GInvInvariant, SymbolsTriedOnce, PTL DEF Spec, SetsOnlyGrow

=============================================================================
