-------------------------- MODULE GrammarInvariants --------------------------
(****************************************************************************)
(* The properties of Grammar that are proved in GrammarProofs, and its      *)
(* type.                                                                    *)
(****************************************************************************)
EXTENDS Grammar

Done == phase = "done"

----------------------------------------------------------------------------
Terminals == {t \in ToSet(symbolList) : IsTerminal(t)}

Actions == [kind : {"none", "shift", "reduce", "accept"}, arg : Nat]

Item == [prod : DOMAIN productions, dot : Nat, la : SUBSET Terminals]

\* A sequence of items, the dot of each within its production.
ItemsOK(items) ==
  items \in Seq(Item) /\ \A i \in DOMAIN items : items[i].dot <= Len(Prod(items[i]).right)

TablesOK ==
  /\ canonicalSet \in Seq(Seq(Item)) /\ \A s \in DOMAIN canonicalSet : ItemsOK(canonicalSet[s])
  /\ Len(sourceStates) = Len(canonicalSet) /\ Len(actionTable) = Len(canonicalSet)
  /\ Len(gotoTable) = Len(canonicalSet)
  /\ \A s \in DOMAIN actionTable : \A t \in DOMAIN actionTable[s] : actionTable[s][t] \in Actions

TypeOK ==
  /\ phase \in {"add", "start", "closure", "goto", "merge", "reduce", "done", "error"}
  /\ productionCount \in Nat /\ productionCount <= Len(productions)
  /\ TablesOK
  /\ ItemsOK(gotoSet) /\ lookAt \in Seq(DOMAIN gotoSet)

\* The items of a state that want an action on a terminal.
Reducers(s, t) == {i \in DOMAIN canonicalSet[s] : AtEnd(canonicalSet[s][i]) /\ t \in canonicalSet[s][i].la}
Shifters(s, t) == {i \in DOMAIN canonicalSet[s] : ~AtEnd(canonicalSet[s][i]) /\ AfterDot(canonicalSet[s][i]) = t}

Wanted(s, t) ==
  {Reduction(Prod(canonicalSet[s][i]), t) : i \in Reducers(s, t)}
    \cup (IF Shifters(s, t) = {} THEN {} ELSE {Entry(actionTable[s], t, NoAction)} \cap
            {ShiftTo(j) : j \in DOMAIN canonicalSet})

\* What item i, which reduces on a terminal, is in conflict with there: the shift,
\* which is 0 here, and the items before it.
Rivals(s, t, i) ==
  (IF Shifters(s, t) = {} THEN {} ELSE {0}) \cup {j \in Reducers(s, t) : j < i}

Between(j) == IF j = 0 THEN "S/R" ELSE "R/R"

\* The grammar declares who wins: a precedence of the terminal, or what an item
\* that shifts says of the left side; an override of either production, or the
\* chain of lefts of which the handler picks one.  Nothing settles acceptance.
Settled(s, t, j, i) ==
  LET later   == Prod(canonicalSet[s][i])
      earlier == Prod(canonicalSet[s][j])
  IN  IF j = 0 THEN t \in DOMAIN input.prec \/ Telling(canonicalSet[s], t, later.left) # {}
      ELSE /\ Reduction(earlier, t) # Accept
           /\ \/ Overrides(earlier, later.left, t) \/ Overrides(later, earlier.left, t)
              \/ later.left \in ToSet(earlier.chain)

Unsettled(s, t, i) == {j \in Rivals(s, t, i) : ~Settled(s, t, j, i)}

Reports(s, t) == {r \in {"S/R", "R/R"} : <<s, t, r>> \in conflicts}

\* A report is of two items that really are at odds on the terminal, and that no
\* declaration settles; and an item that nothing settles against any of its rivals
\* has the conflict reported.  With two rivals this is: reported exactly when not
\* settled.  With more, one that a declaration sets against some of the others may
\* stay unreported: the code asks only about the rival that won so far.
ReportsAreTrue(s, t, reducers) ==
  /\ \A r \in Reports(s, t) : \E i \in reducers : \E j \in Unsettled(s, t, i) : r = Between(j)
  /\ \A i \in reducers : Rivals(s, t, i) # {} /\ Unsettled(s, t, i) = Rivals(s, t, i) => Reports(s, t) # {}

\* A state does what its items want on a terminal, and nothing only where a
\* precedence was declared for it; and the conflicts reported are those that no
\* declaration settles, one by one, whatever else the grammar declares, in the
\* sense of ReportsAreTrue.  (Grammar.cpp, the loop that sets the reduce actions.)
ConflictsTold ==
  Done => \A s \in DOMAIN canonicalSet, t \in Terminals :
    LET rivals == Cardinality(Reducers(s, t)) + (IF Shifters(s, t) = {} THEN 0 ELSE 1)
        act    == Entry(actionTable[s], t, NoAction)
    IN  /\ rivals = 0 => act = NoAction
        /\ rivals = 1 => act \in Wanted(s, t)
        /\ rivals > 1 /\ act # NoAction => act \in Wanted(s, t)
        /\ act = NoAction /\ rivals > 1 => t \in DOMAIN input.prec
        /\ ReportsAreTrue(s, t, Reducers(s, t))

\* An action is given up: only to an item that ends, when it is its turn to set its
\* reductions, on one of its lookaheads.  Acceptance is never given up, a shift only
\* where the grammar declares who wins, and only a shift is lost to nothing, on a
\* terminal that does not associate.
GivenUp(s, t) ==
  LET item == canonicalSet[s][symbol]
      old  == actionTable[s][t]
      new  == actionTable'[s][t]
  IN  /\ phase = "reduce" /\ s = state /\ symbol \in Reducers(s, t)
      /\ old # Accept
      /\ old.kind = "shift" => Settled(s, t, 0, symbol)
      /\ \/ new = Reduction(Prod(item), t)
         \/ /\ new = NoAction /\ old.kind = "shift"
            /\ t \in DOMAIN input.prec /\ input.prec[t].assoc = "nonassoc"

\* The states after a step are those before it, each with its items and at least
\* their lookaheads.
ItemsKept ==
  \A s \in DOMAIN canonicalSet :
    /\ s \in DOMAIN canonicalSet' /\ Len(canonicalSet'[s]) = Len(canonicalSet[s])
    /\ \A i \in DOMAIN canonicalSet[s] :
         /\ canonicalSet'[s][i].prod = canonicalSet[s][i].prod
         /\ canonicalSet'[s][i].dot = canonicalSet[s][i].dot
         /\ canonicalSet[s][i].la \subseteq canonicalSet'[s][i].la

\* They have their gotos and, but for those given up, their actions.
ActionsKept ==
  /\ \A s \in DOMAIN actionTable : \A t \in DOMAIN actionTable[s] :
       t \in DOMAIN actionTable'[s] /\ (actionTable'[s][t] = actionTable[s][t] \/ GivenUp(s, t))
  /\ \A s \in DOMAIN gotoTable : \A n \in DOMAIN gotoTable[s] :
       n \in DOMAIN gotoTable'[s] /\ gotoTable'[s][n] = gotoTable[s][n]

Distinct(seq) == \A j, k \in DOMAIN seq : seq[j] = seq[k] => j = k

\* No terminal goes by two names.  One that does is tried twice in a state, and in a
\* compact table the second time may lead to a second copy of a state that conflicts
\* with itself.
NamedOnce == Distinct(input.symbols)

Grown == ItemsKept /\ (NamedOnce => ActionsKept)

\* No step changes the core of a state or takes a lookahead back, nor, if no terminal
\* goes by two names, leads a shift or a goto elsewhere: what was found equal, merged
\* or tried stays so while the states around it grow.  Only the last loop takes
\* actions from a state, shifts that the grammar declares to lose and reductions to
\* a later item.  (Grammar.cpp, the merging loop, which edits finished states in
\* place, and the loop that sets the reduce actions.)
SetsOnlyGrow == [][Grown]_vars

----------------------------------------------------------------------------
\* The inductive invariant

Declarations == UNION {ToSet(i.decls) : i \in Inputs}

DeclaredNames     == {"[Accept]"} \cup {d.name : d \in Declarations}
DeclaredActions   == {<<>>} \cup {d.actions : d \in Declarations}
DeclaredOverrides == {<<>>} \cup {d.overrides : d \in Declarations}

Production ==
  [name : DeclaredNames, id : Nat, left : Int, right : Seq(Int), prec : Int, throws : Int,
   chain : Seq(Int), actions : DeclaredActions, overrides : DeclaredOverrides]

\* There is one entry for every state.
ForStates(f) == f = [s \in DOMAIN canonicalSet |-> f[s]]

\* Adding productions, before any state is made.
Added ==
  /\ input \in Inputs /\ type \in Types
  /\ symbolList \in Seq(Int) /\ productions \in Seq(Production)
  /\ productionCount # 0 => Len(productions) >= AcceptingCount /\ TokenEOF \in ToSet(symbolList)
  /\ phase \in {"add", "error"} => canonicalSet = <<>>
  /\ phase = "add" => state \in Nat /\ symbol = 1
  /\ phase \notin {"add", "error"} =>
       /\ productionCount # 0
       /\ \A i \in DOMAIN productions : ToSet(productions[i].right) \subseteq ToSet(symbolList)

Tables ==
  /\ ForStates(sourceStates) /\ ForStates(actionTable) /\ ForStates(gotoTable)
  /\ \A s \in DOMAIN canonicalSet : canonicalSet[s] # <<>>

\* The states are being made.
Making == phase \in {"start", "closure", "goto", "merge"}

\* A state is being followed over a symbol.
Following == phase = "merge" \/ (phase = "closure" /\ ~Starting)

\* Where the loops are.
Positions ==
  /\ phase \in {"start"} \/ (phase = "closure" /\ Starting) => state = 1 /\ symbol = 1
  /\ phase = "start" => Starting
  /\ phase = "closure" <=> gotoSet # <<>>
  /\ phase \in {"goto", "merge", "reduce", "done"} => ~Starting
  /\ phase = "goto" \/ Following => state \in Nat \ {0} /\ symbol \in DOMAIN symbolList
  /\ Following => state \in DOMAIN canonicalSet /\ Shifters(state, CurrentSymbol) # {}
  /\ phase = "reduce" => state \in DOMAIN canonicalSet /\ symbol \in DOMAIN canonicalSet[state]
  /\ phase = "done" => state = Len(canonicalSet) + 1 /\ symbol = 1
  /\ searchIndex \in Nat \ {0}
  /\ phase = "merge" => searchIndex \in DOMAIN canonicalSet
  /\ phase # "merge" => spread = <<>>
  /\ spread \in Seq(Nat \X Nat \X Terminals)
  /\ \A k \in DOMAIN spread : /\ spread[k][1] \in DOMAIN canonicalSet
                               /\ spread[k][2] \in DOMAIN canonicalSet[spread[k][1]]

\* The item, its dot moved on, is among the items.
Moved(item, items) == \E j \in DOMAIN items : SameCore(items[j], [item EXCEPT !.dot = @ + 1])

\* "Production HAS to be there, since a symbol lead us to this state"
\* (Grammar.cpp:874): the state an item's next symbol leads to has the item with
\* its dot moved on, also after either was merged.
MovedItems ==
  Making =>
    \A s \in DOMAIN canonicalSet : \A i \in DOMAIN canonicalSet[s] :
      LET item == canonicalSet[s][i]
      IN  ~AtEnd(item) /\ Successor(s, item) # 0 =>
            Successor(s, item) \in DOMAIN canonicalSet /\ Moved(item, canonicalSet[Successor(s, item)])

\* The same of the state that is being looked for and of the one that was found.
MovedOn ==
  /\ phase = "closure" /\ ~Starting => \A i \in Shifters(state, CurrentSymbol) : Moved(canonicalSet[state][i], gotoSet)
  /\ phase = "merge" => \A i \in Shifters(state, CurrentSymbol) :
                          Moved(canonicalSet[state][i], canonicalSet[searchIndex])

\* Before the reduce actions a state has the shifts of its items for the terminals tried.
Tried(s, k) == s < state \/ (s = state /\ k < symbol)

Shifts ==
  Making =>
    \A s \in DOMAIN canonicalSet :
      /\ \A t \in DOMAIN actionTable[s] : /\ Shifters(s, t) # {}
                                          /\ \E j \in DOMAIN canonicalSet : actionTable[s][t] = ShiftTo(j)
      /\ \A k \in DOMAIN symbolList : LET t == symbolList[k] IN
           Tried(s, k) /\ IsTerminal(t) /\ Shifters(s, t) # {} => t \in DOMAIN actionTable[s]

\* Where symbols are listed once they are tried once in a state, and each has neither
\* a shift nor a goto before.
Untried ==
  Making =>
    \A s \in DOMAIN canonicalSet : \A k \in DOMAIN symbolList :
      ~Tried(s, k) => symbolList[k] \notin DOMAIN actionTable[s] \cup DOMAIN gotoTable[s]

TriedOnce ==
  /\ Distinct(symbolList) /\ (phase = "add" /\ productionCount = 0 => symbolList = input.symbols)
  /\ Untried

\* The reducers of a state that were looked at.
Seen(s, t) == {i \in Reducers(s, t) : Tried(s, i)}

\* After some of the items of a state have set their reduce actions: what the
\* properties say, of these items.
Decided(s, t) ==
  LET act    == Entry(actionTable[s], t, NoAction)
      shifts == act \in {ShiftTo(j) : j \in DOMAIN canonicalSet}
      by(i)  == act = Reduction(Prod(canonicalSet[s][i]), t)
  IN  /\ act = NoAction \/ (shifts /\ Shifters(s, t) # {}) \/ \E i \in Seen(s, t) : by(i)
      /\ Seen(s, t) = {} => IF Shifters(s, t) = {} THEN act = NoAction ELSE shifts
      /\ Shifters(s, t) = {} => \A i \in Seen(s, t) : Seen(s, t) = {i} => by(i)
      /\ act = NoAction /\ Seen(s, t) # {} => t \in DOMAIN input.prec /\ Shifters(s, t) # {}
      /\ ReportsAreTrue(s, t, Seen(s, t))
      /\ s = state /\ act.kind = "reduce" =>
           t \in DOMAIN terminalItems /\ terminalItems[t] \in Seen(s, t) /\ by(terminalItems[t])

AllDecided ==
  phase \in {"reduce", "done"} => \A s \in DOMAIN canonicalSet, t \in Terminals : Decided(s, t)

NoneReported == phase \notin {"reduce", "done"} => conflicts = {} /\ terminalItems = <<>>

GInv ==
  /\ TypeOK /\ Added /\ Tables /\ Positions
  /\ MovedItems /\ MovedOn /\ Shifts
  /\ AllDecided /\ NoneReported

=============================================================================
