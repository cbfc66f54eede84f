# A verification project for SGParser

SGParser is an LR parser library (`src/src/Parser`), a generator of parse tables and DFAs
(`src/src/ParserGen`) and a command line for it, sgyacc (`src/src/SGYacc`). This directory models
both halves. In the library: the tokenizer on its byte buffers, the table-driven parser with its
error recovery, and the token buffer the parser backtracks in. In the generator: the grammar and
its parse tables, the automata and the lexer tables, and the loading of a grammar file. TLC checks
the models, and TLAPS proves what matters most about the token buffer, the parser that uses it, the
tokenizer and the generation of parse tables.

## The system

| Component | State | Operations | Works with |
|---|---|---|---|
| Token buffer, `BacktrackingTokenStream.h` | list of blocks, cursor, `Pos`, `LengthLeft`, `Markers` (index to block), end-of-file flag | `SetMarker`, `ReleaseMarker`, `ResetMarkers`, `BacktrackToMarker`, `SeekTo`, `SeekBack`, `AdvanceToBufferEnd`, `SetMaxStreamLength`, `GetNextToken`, `ResetStream` | pulls tokens from a tokenizer, is driven by `Parse`, and is handed to the user's `ShiftToken` and `SetErrorData` |
| Parser, `Parser.h` | stack of states, values and markers; current token; `PrevTokenIndex`, `ErrorMarker`, `TopState`, `ReduceLeft` | `SetTokenStream`/`ResetParse`, `SetStartingProduction`, `DoParse`, `SetReduceNonterminal` | reads a `ParseTable`, calls the user's `ParseHandler::Reduce` back in the middle of a reduction |
| Parse table, `ParseTable.h` | action and goto tables, production lengths and flags, state infos | lookups | built by the generator or from static arrays |
| Tokenizer, `TokenizerBase`, `Tokenizer.h`, `DFATokenizer.h` | linked input buffers, head, tail, positions, expression stack | `GetNextToken`, `SetInputStream` | reads an input stream, walks a `DFA` |
| Grammar, `Grammar.cpp`, `Production.cpp` | productions, item sets with their lookaheads, action and goto tables, worklists of the closure and of the merge, conflicts | `AddProduction`, `CheckProductions`, `MakeParseTable` (`First`, `Closure`, `Goto`, merging, reduce actions) | fed by `ParseData`, feeds `ParseTable` |
| NFA, `NFA.cpp` | nodes on the heap, owned by the automaton they belong to | `Create`, `Concat`, `Or`, `Kleene`, `CombineNFAs`, copy, `Destroy` | built by the reductions of `Lex` |
| DFAGen, `DFAGen.cpp` | sets of nodes, transition table, accept values | subset construction, `Combine`, `Compress` | reads an NFA; the result is the tokenizer's `DFA` |
| Lex, `Lex.cpp` | macros, lexemes, expressions, automata on a parse stack | reductions of regular expressions, `MakeDFA`, `ConvertActionParam` | parses regular expressions with the library's own parser |
| ParseData, `ParseData.cpp` | the parse stack of a grammar file, lexemes, precedences, labels, symbol numbers | one handler for every production of the grammar of grammar files, `CreateSymbolMap`, `LoadGrammar`, `ClearGrammar` | fills `Lex` and `Grammar` |
| Table output, messages, file streams, kernel, command line, sample | | | |

Everything runs in one thread. What is hard is not concurrency but order: the parser calls user
code in the middle of a reduction, pushes errors back in front of a stream from which blocks are
being freed, keeps raw block pointers in a map, and takes its decisions after an error from state
that belongs to the symbol before it. The generator edits finished states in place while it makes
others, grows sets it has already expanded, decides conflicts over decisions made before, moves
nodes between automata by pointer, and hands names through numbers given in the order they are met.
`PROJECT.json` lists these hazards at their lines.

What makes each component correct:

- *Token buffer*: a token that is marked, or among the last `RememberLength`, can be returned to
  and is the token the source delivered; nothing else is kept for ever.
- *Parser*: the symbols on the stack and the tokens consumed always account for the input; an
  error is only found where there is one; recovery ends; values and markers are neither leaked
  nor lost.
- *Tokenizer*: the tokens are the longest matches of the input, wherever the buffer boundaries are;
  bytes read ahead are neither lost nor read twice, and positions follow the text.
- *Grammar*: the item sets are those of the LR(1) construction, the tables accept the language of
  the grammar, and every conflict is resolved as declared or reported.
- *NFA, DFAGen, Lex*: every automaton on the stack means the expression read so far, no node has
  two owners or none, and the table recognises the lexemes with the right priority.
- *ParseData*: what is loaded is what the file says, every name keeps one number, and a file with a mistake
  is refused (one with a warning is, too).

## Modules

| Module | What it is |
|---|---|
| `BacktrackingTokenStream` | every operation of the token buffer, as an operator from a stream object to the stream object after the call; what a stream object must be |
| `TokenStreamSpec` | a client calling the operations in any order, and the buffer's properties |
| `TokenWindow` | abstract specification: a log of tokens, a cursor, a floor and a set of marks |
| `BacktrackingTokenStreamProofs` | lemmas, one or more per operation: each takes a sound stream object to a sound one, and does what `TokenWindow` says |
| `TokenStreamProofs` | the theorems about `TokenStreamSpec` |
| `Parse` | the parser: one action per step of `DoParse`, using the operators of `BacktrackingTokenStream` for every call it makes to the stream |
| `ParseProperties` | the parser's properties |
| `ParseProofs`, `ParsePromiseProofs` | the theorems about `Parse`; the refinement in the second |
| `ShiftReduce` | abstract specification: a grammar, the input, what has been consumed and the symbols it was rewritten to |
| `TokenizerBase` | every operation of the byte buffers, as an operator from a buffer object to the buffer object after the call; the position tracker |
| `Tokenizer` | `DFATokenizer`: a client that creates it on one stream after another and asks for tokens |
| `MaximalMunch` | abstract specification: the input, how much of it was taken, the expression stack and the last token; no buffers |
| `TokenizerProperties` | the tokenizer's properties |
| `TokenizerProofs` | lemmas about the operations of the byte buffers; the theorems about `Tokenizer`, with the refinement |
| `Grammar` | the generation of parse tables, one action for every turn of a loop of `MakeParseTable` |
| `GrammarInvariants` | the properties of `Grammar` that are proved, and the inductive invariant |
| `GrammarProperties` | the properties of `Grammar` that need derivations or the canonical collection |
| `GrammarProofs` | the theorems about `Grammar` |
| `NFA`, `DFAGen` | automata on a heap of nodes and tables of states, as operators |
| `Lex` | a lexer being made: the reductions of its regular expressions, the subset construction, the joining of the expressions' tables |
| `LexInvariants` | who owns the nodes of the automata, and the inductive invariant |
| `LexProperties` | the lexer's other properties, against the languages of the expressions |
| `LexProofs` | the theorems about `Lex`, from the graph of a node up |
| `GrammarHandler` | the handler of grammar files: what every reduction does with its values |
| `ParseData` | loading and clearing grammars: the parse, the numbering of symbols, the check of what was loaded |
| `ParseDataInvariants` | its properties that need no tree, which are proved |
| `ParseDataProperties` | its properties, against the parse tree of the file |
| `ParseDataProofs` | the theorems about `ParseData` |
| `ParseTables` | the parse tables and productions of three small grammars |
| `MCTokenStream`, `MCTokenizer`, `MCParse`, `MCGrammar`, `MCLex`, `MCParseData` | bounds, automata, grammars, expressions and files for TLC |

The modules form two chains. `Parse` uses the operators of `BacktrackingTokenStream` and the tables
of `ParseTables`; `Lex` uses `NFA` and `DFAGen`; `ParseData` uses `GrammarHandler`. `MCGrammar` joins
the halves: it has `Grammar` generate the tables on which `Parse` is checked.

Operators named `Faulty...` take part in no specification. Each is what a plausible slip would
make of the operator after it, and each property is known to fail when one is put in its place
(`mutants` in `PROJECT.json`).

### How the models correspond to the code

*Blocks.* A block is a record with `Index`, `Count` and `Tokens`, and the list is the function
`blocks` over the numbers `first .. last`, in order of allocation, so that `pNext` is "one more" and
freeing a block takes it out of the function's domain: a pointer to a freed block is a number
outside the domain. `BufferSize` is a parameter.

*Tokens* are pairs of a source and a position, so that a property can tell which token is where;
`Parse` maps them to codes. A source delivers its tokens and then end of file as often as it is
asked, as `DFATokenizer::GetNextToken` does.

*Numbers.* Indexes are `size_t`: `IndexBack` subtracts modulo `MaxSize + 1`, and `MaxSize` is also
"no index" and "no limit", as in the code.

*The parser's program counter.* `DoParse` is one loop with jumps. `pc` names its labels: `top` (the
loop's head), `act` (`try_next_action`), `handler` (inside `Reduce`), `reduced` (after it), `error`
(`handle_error`), `skip` (the loop that skips tokens), `idle`, `accepted`, `failed`, `crashed`. A shift with
everything it does to the stream is one action; so are a reduction up to the call of the handler,
the handler's choice, what follows the call, the search for an error production with the recovery
it leads to, and each token skipped. A nonterminal that is no start symbol has the start state 65535
(`EmptyGoto`), which `SetStartingProduction` does not tell from a state: it goes on the stack, and
tables are read out of their range. What follows is undefined, and is `crashed` in the model: in
`SetStartingProduction` at once or not, as the build lays the table out, and at the latest where the
first action is looked up (`ReadsOutOfRange`).

*The user's code* is nondeterministic: `Reduce` succeeds or fails and, where the grammar gives a
production several left hand sides, picks one of them or keeps the default; `SetErrorData` reads
any number of the recorded tokens.

*Values* are reduced to whether a stack element holds one (`Held`), which is what `Cleanup` is for.
The cleanup loops of lines 511 and 544 of `Parser.h` also call `Cleanup` on one element above those
popped; that element holds no value, so the model does not show it.

*Byte buffers.* `Chain` is the list of blocks from `pHeadBuffer`, each the bytes read into it, so that
the end of a block is its `pBufferTail`. A pointer into a block is the number of the block and the
bytes before it. `Allocated` counts the blocks allocated and not deleted. A read of the stream fills
the block unless the stream ends, as `InputStream::Read` promises (`Kernel/SGStream.h`); a failed
read is the end, as in the code.

*The tokenizer's program counter.* A call of `GetNextToken` makes its character reader
(`GetNextToken`), and then, once for each lexeme passed over and for the one returned, starts a
match (`BeginLexeme`), follows the automaton byte by byte (`MatchByte`) and ends it
(`NothingRecognised`, `Recognised`). `pc` is `idle`, `begin` or `match`. `Character` is the
reader's, kept apart from the buffer as in the code. The automaton is a constant; `MCTokenizer` has
the two that sgyacc makes of small sets of expressions. The real `DFATokenizer`, compiled with blocks
of two bytes and run on the first of them, and `Tokenizer` give the same tokens, with code, text, line
and offset, for every input of up to four bytes over six and up to five over three (1919 inputs).

*What comes from outside the parser*: the tables. `ParseTables` holds the tables of three small
grammars; `ParserTablesGenerated` checks that they are those `Grammar` makes of the productions, and
`sgyacc -lalr` lists the same. Over all 341 inputs of up to four
tokens the outcome, every shift with its token and every reduction of the real `DoParse`, compiled with
blocks of two tokens, were compared with those of `Parse`, for each grammar and for error handlers
that read none and two of the recorded tokens; they agree.

*Making tables.* `MakeParseTable` is one function of 600 lines. `phase` names its loops: `add` and the
check, `start` and `closure` (one item of the worklist a step), `goto` (one symbol of one state a
step), `merge` (one lookahead a step), `reduce` (one item of one finished state a step), then `done` or
`error`. Symbols are numbers with a bit for terminals; states are numbered from 1. Where the code
keeps ordered sets of items the model keeps sequences in the same order (`ItemBelow`), since the
order decides which states are found equal. The recursion that spreads a lookahead is the worklist
`spread`. `First` is the least fixed point the code's recursion reaches (`Reached`).

*Automata.* A node's address is its place on `heap`; operations that rewire nodes and empty their
operand take and return the heap, so that a node with two owners shows. A regular expression is the
sequence of the reductions reported for it; one is one step, as is one move of the subset
construction. Characters are small numbers, and the highest is a constant.

*Grammar files.* A file is a parse tree and the sequence of shifts and reductions of its parse, with
the tokens of the error recovery where the file has a mistake. Every `case` of `Reduce` is an
operator that takes the values of the right hand side and gives the value of the left hand side and
the handler after it. A string is the sequence of the marks in front of a name and the name, as far
as the handlers look at it. Dereferencing a null pointer and an index out of range end in the phase
`crashed`.

## Runs

| Run | Question | Bounds |
|---|---|---|
| `TokenStream` | does the buffer keep what it promises, for any order of calls, and implement `TokenWindow`? | blocks of 2, a source of 5 tokens (with its end of file exactly three blocks), an empty one and none; all indexes 0..7 and "no index" |
| `Statements` | the parser with an empty production and `%error`: are errors real, does it go back one token at a time, does it end? | every input of up to 4 tokens over three terminals and unrecognised input |
| `Names` | named errors thrown by a reduction the user controls, with recording: is the token buffer used soundly, are markers released, does the parser implement `ShiftReduce`? | every such input of up to 5 tokens |
| `Parts` | two start symbols, reductions that lead nowhere, right recursion: does the stack spell a viable prefix, are values freed also when the parse fails? | every such input of up to 4 tokens |
| `Tokenizer` | longest match, whatever the block boundaries, errors and expression stack | blocks of 2 bytes; every stream of up to 4 bytes over six and up to 5 over line feed, `a` and `b`; then another stream, or none |
| `Tables` | are the item sets, languages, conflicts and trees those of the textbook? does the generator end? | 236 grammars, as LR, LALR and compact LR; words of up to 4 terminals, expressions of up to 3 operators |
| `Lexer` | do automata mean what was read, and does the table recognise the lexemes? | lexers of one or two expressions over four characters, with macros, classes, several expressions and mistakes; words of up to 3 characters |
| `GrammarFile` | is what is loaded what the file says, is no file with a mistake loaded, and is every file without mistakes and warnings? | grammar files of all kinds, sound and not, two loads with or without a clear between |
| `CharacterIsCurrent` | does a match start with the byte at the tail? (not after an ignored lexeme) | streams of up to 4 bytes; a second automaton, in which an ignored lexeme begins another one |
| `InputIsCurrent` | can a parser be used for a second input? (no) | as `Statements`, inputs of up to 2 tokens |
| `LookAheadsReachAll` | do merged LALR states get every lookahead? (no) | one grammar of four productions |
| `NamedErrorsCaught` | is an error thrown before the first `%error()` of its name caught? (no) | as `GrammarFile`, one load |

Why the bounds are enough for the cases that matter. Two tokens a block put block boundaries at
every other index: markers, seeks and the end of file fall on, before and after one, and the source
spans three blocks so that a block can be freed between two others. Four or five tokens give two
statements, an error in the first and a second error in or after the recovery from it, and end of
file at every point. The stack of `StackSize` is never full in the runs that pass: a `Shift` or
`Reduce` into a full stack would be disabled and `Terminates` would fail. `MaxSize` is above every
index a stream reaches and every sum of them. `Nesting` bounds derivations for `ViablePrefixes` and
is above what a word of `StackSize` symbols needs.

The automaton of `Tokenizer` has a lexeme of four bytes, so that a failed match runs two blocks ahead
and is taken back; inputs of five bytes are three blocks, and end before, at and after a boundary.
In it no ignored lexeme is the beginning of a longer one: where one is, `CharacterIsCurrent` shows
the tokens wrong, and `MunchSpec` fails for the same reason.

The grammars of `Tables` are all pairs of two of seven rules for one nonterminal with two of five for
another, which gives empty rules, left, right and middle recursion, ambiguity and unit rules in every
combination, and beside them one grammar for each branch of the conflict decisions: precedence and all
three associativities, shifts and reductions declared at a dot, overrides on one terminal and on
all, a reduction with two left sides, two rules that end alike (where compact LR must refuse a
merge), several start symbols and grammars with each of the errors and warnings. Some have a conflict that is
declared beside one that is not, in one state and of one item (`HalfDeclaredInput`, `MixedInputs`); in
some a terminal is listed twice, as one with an alias is (`AliasedInputs`). The four characters of
`Lexer` are two letters, one of which stands for the newline behind a backslash, the newline and the
return; they tell apart what `.`, classes, negated classes and escapes do; words of three characters pass
twice around every loop of the automata. Some sets of characters are empty, in lexemes and in a
macro that is copied: there `NodesOwnedOnce` claims less, and `CopyLost` is taken.

`ItemSetsExact` and `TablesParseTheLanguage` assume `FirstIsExact`: `First` takes a nonterminal for
empty only if it has an empty production itself (`Grammar.cpp`, `First`), and of grammars where it can
be empty in another way the code's lookaheads are too few. Where conflicts were reported neither the language nor the
trees of expressions are compared. For LALR and compact LR only the words accepted are claimed to be in the language:
`LookAheadsReachAll` shows why not the converse.

`Terminates` of `Grammar` is about grammars in which no set of items with a conflict of its own leads back to
the same set: compact LR takes such a set for another one each time and does not end
(`findings`, `Grammar.cpp:800`).

`Names` checks that no marker outlives its purpose, `Parts` that no value does: above the top of the stack is
nothing but the right hand side being reduced, nothing when the parse fails, and its rest where the handler
failed, which forgets it (`findings`).

The runs of the parser also call `SetStartingProduction` for nonterminals without a start state.
There `ViablePrefix` has nothing to say, as `NoMarkerLeaks` of a parser that was ever
given one, and `Terminates` allows `crashed`.

`SoundFilesLoad` says nothing of two kinds of files: one with nothing wrong but an undefined expression in
`%push` or `%goto`, which is loaded, and one with nothing but a warning, which is refused (`findings`). A third
choice in one right hand side is the one thing besides mistakes on which it lets the loader crash.

`ErrorsAreReal` is not checked on `Parts`: there a user-controlled reduction makes it false. Before
the handler is asked, `DoParse` looks up the default left hand side and treats the reduction as an
error if it cannot follow (lines 507-524), although another left hand side could. `Parts` exists to
exercise that path. `ShiftReduce` allows it, and errors in general, because an error may be found
anywhere as far as the symbols are concerned; what it does not allow is losing or repeating a token,
popping what is not the right hand side of a production, or accepting anything but a start symbol
with the whole input consumed. `PromiseSpec` is checked on `Names`. On `Statements` it follows from
`OneTokenBack`, by the theorem `ParsesTheGrammar`; on `Parts` neither is checked: there a reduction can
be rejected while an error is presented, and a token is taken a second time (`findings`,
`Parser.h:522`). With
`INVARIANT OneTokenBack` added, `Names` passes too. Of both tables it is proved (`GoesBackOnce`).

### Fairness

`FairSpec` is weak fairness of the parser's own steps, of the shift of an error and of the return
of the user's handlers. `DoParse` runs in its caller's thread until it returns, so a step that is
enabled is taken; handlers are assumed to return. Nothing is assumed about the caller of the parser:
`Terminates` starts when `DoParse` has been called. `SetReduceNonterminal` is not fair and cannot
delay the handler for ever, since returning stays enabled. The
tokenizer's `FairSpec` is weak fairness of its calls together: a call runs to its return, and
`ReachesEnd` is about a client that goes on asking, on the last of a bounded number of streams.
`FairSpec` of `Grammar` and of `Lex` is weak fairness of the next step: each is the run of one function
in its caller's thread, which nothing interrupts. `Terminates` then says that its worklists run
empty. `ParseData` needs no fairness.

Deadlock is not checked in the runs of the parser, which stops when it has accepted or failed, nor
in those of the tokenizer, whose client stops when its last stream is taken from it, nor in those of
the generator, which stops when its tables are made or refused.

### Disagreements with comments and documents

The runs that expect a violation each check one sentence of a comment or document that the code
does not keep; `findings` in `PROJECT.json` quotes it, and lists the other disagreements that were met,
in the parser (a token taken twice, values not freed by a failed handler, recording not started
after a goto, a valid token skipped, the start state 65535 of what is no start symbol), the generator
(merging by compact LR, which may lose lookaheads and may not end, the default of
reduce/reduce conflicts and of user-controlled reductions, the priority of lexemes) and the loader
(precedence lines, `|` groups, undefined `%push`, warnings that refuse a grammar, what `Clear` keeps).
Smaller ones:

- `ReleaseMarker` "removes one marker of this value" (line 247): `Markers` is a map and holds one
  per index, so the first release takes the marker from every holder.
- `SeekTo` checks its bounds only if the current block is full or the index is in it
  (`BacktrackingTokenStream.h:290`), so a seek beyond what was read may succeed.
- The length limit of `SetMaxStreamLength` is never counted down (`BacktrackingTokenStream.h:336`).
- `SetStartingProduction` leaves the marker of the initial state behind (`Parser.h:412`).
- After unrecognised input line and offset are moved on by the wrong character
  (`DFATokenizer.h:142`).
- An empty stream is accepted by a new tokenizer and refused by a used one (`TokenizerBase.cpp:31`).
- `ShiftToken` is told that "for error, the token data will be for first valid token after the
  error" (`Parser.h:48`): after skipping it is still the data of the token refused.
- `SG_ASSERT(StackPosition < StackSize)` (`Parser.h:456`) is all that bounds the stack.
- `%error_backtrack` never sets `BacktrackOnError`, so the branch of `ShiftError` for it is
  modelled and no generated table takes it.
- An action taken away because an operator is nonassociative leaves an empty entry, which a later
  reduction in the state fills again.
- A terminal known by a name and by an alias is listed twice in `GrammarSymbolList`; an alias and a
  nonterminal of the same name meet in one table of symbols.

## Proofs

### The token buffer

`TokenStreamProofs` proves, for every block size, remembered length, set of sources and choice of
indexes and limits, that `Spec` keeps `TypeOK`, `BufferFaithful`, `MarkersLive` and
`RememberedKept` (theorems `TypeCorrect`, `Faithful`, `MarkersStayLive`, `RememberedStay`), the
action property `BlocksReclaimed` (`Reclaimed`), and that it implements `TokenWindow` (`Refinement`).

Assumptions: a block holds at least one token; the lengths are natural numbers; and the tokens of a
source, with its end of file, can be counted in a `size_t` (`MaxSizeAssumption`): without it
`SeekBack` could wrap.

None of the invariants is inductive alone. `StreamInv` is their conjunction with two more:
`CursorInside`, without which `GetNextToken` could write a token where it does not belong, and
`InStep`, which ties `Pos` and the end-of-file flag to what the source has delivered. `Contiguous`
is stated between neighbouring blocks, which is what each operation changes. The lemmas, in
`BacktrackingTokenStreamProofs`, are about one stream object and one operation, so that the proofs of
the parser cite the same ones. The argument turns on three points:

- freeing (`ReleaseExtraBuffersInv`): a block is freed only if the next one starts at or before
  every marker, so the block of a marker, which by `MarkersHold` ends after it, stays;
- choosing the block of a marker or a seek (`MarkerBlockHolds`, `SeekBlockHolds`): the walks end
  at a block because a non-empty set of numbers has a least one (`NatMin`, from well-foundedness);
- reading (`CountedList`, `CountedInv`, `WithNewBlockInv`): the cursor is not at a buffered token
  only at the end of the last block.

For the refinement, the log of the window is what the source has delivered up to `Pos`, its cursor is
`GetTokenIndex`, its floor the index of the first block (`Floor`) and its marks the domain of
`Markers`. The lemmas `...Window` say of each operation what it does to these four: a seek moves the
cursor and nothing else (`SeekToWindow`), freeing raises the floor to no more than what is marked or
remembered (`ForgetsNoneNeeded`), and reading appends the source's next token at the end of the log,
or returns the one at the cursor. `WindowStep` maps every step of `TokenStreamSpec` to the step of
`TokenWindow` of the same name, or to a stutter.

The proofs say nothing of a client
that attaches a source to a stream with tokens in it, or seeks outside the tokens read: for those
`InputIsCurrent` shows the tokens wrong, and a seek may leave the cursor outside them.

### The parser

`ParseProofs` proves of `Parse`, for every table, stack size, block size and
set of inputs, the invariants `TypeOK` (`TypeCorrect`), `StreamSound` (`StreamStaysSound`),
`NoValueLeaks` (`NoValueForgotten`) and `NoMarkerLeaks` (`MarkersOwned`). `TypeOK` says that every state on
the stack is one of the table or none, but for `EmptyGoto`, which is only at the bottom of a stack with nothing else
on it, of a parser that does not get beyond its first action. `NoValueLeaks` is an invariant, of what is above
the top at any time, and an action property, of the steps on which a parse fails. `ParsePromiseProofs`
proves, for the tables of a grammar, that `Parse` implements `ShiftReduce` (`ParsesTheGrammar`).

They rest on the assumptions of `Parse`, which TLC evaluates for every table it is run on.
`TableAssumption` says what the form of a table is. `ReductionsFit` says that a state which reduces
a production is only reached over as many symbols as the production has; a generated table has this
because `Goto` moves a dot over one symbol at a time and a reduction is the action of an item with its
dot at the end (`Grammar.cpp`, the goto loop and the reduce loop of `MakeParseTable`). Without it
`DoParse` would pop below the bottom of the stack.

Two theorems' hypotheses are properties of the parser's user and not of every table:

- `[]Disciplined`. `DoParse` goes one token back when it presents an error (`SeekBack(1)`). If no token
  was consumed the index wraps, and the seek can leave the cursor outside what was read. That takes
  a reduction that leads nowhere, or an error handled again, before the first token has been passed:
  whether a table and the choices of a handler come to that depends on the language, not on one step.
  So the theorems have the form `Spec /\ []Disciplined => []...`: as long as the parser never goes
  back from the first token, everything else holds. `Disciplined` is a conjunct of `StreamSound`, which
  the run `Names` checks; with `INVARIANT Disciplined` added, `Statements` and `Parts` pass too. For the
  tables of a grammar it follows from `OneTokenBack` (`StaysDisciplined`, below), and where the table
  has a place for every error it need not be assumed at all (`AlwaysSound`).
- `StartsRecordAlike`, of `MarkersOwned` only. `SetStartingProduction` (`Parser.h:412-430`) overwrites the
  marker of the initial state and does not release it. If one start state records tokens and another
  does not, the marker is left behind and tokens are kept for ever. `MCParse` has TLC evaluate that the
  tables it uses are of the kind that the theorem is about. `NoMarkerLeaks` itself speaks of parsers that were
  never given a nonterminal without start state: whether such a state records is read out of range.

`Inv` is inductive and has five parts. `Typed` is the type of every variable, with the stream
satisfying `StreamInv`: the parser calls its operations in the orders that `DoParse` has, and the lemmas of the token buffer carry `StreamInv` across each of them. `Placed` says that a state
lies on the stack only as high as the table can put it. This is what makes `ReductionsFit` useful: the
production that the top state reduces is no longer than the stack. It is stated of old elements above
the top too, since the search for an error production and the backtracking after an error go through
elements which an earlier step left there. `Attached` says that a parser at work has a source, without
which its calls to the stream would be undefined. `OnlyAtBottom` says where `EmptyGoto` may be. `ValuesOwned` is
the fifth part; that failures clean up follows from it (`FailuresCleanUp`). Markers need
one more, `IdleMarks`: between `SetTokenStream` and `DoParse` the only marker is the one which
`SetStartingProduction` would set again. `OwnersFollow` is the step: what leaves the stack has
its marker released, and every marker set is given to an element or is the error marker.

#### The parser follows its grammar

`ParsesTheGrammar` is `Spec /\ []OneTokenBack => PromiseSpec` for every table that is `Suitable`: the
parser takes each token once and in order, replaces only what spells a right hand side, flushes only
to put an error there, and accepts a start symbol with nothing left. `Suitable` says three things.

- `TableOfGrammar`: the table is one of these productions. Every state is entered on one symbol, a state
  that reduces a production is reached only over its right hand side, the accepting state over a
  start symbol from its start state, and the end of file is no symbol of the grammar. A generated table
  is like this for the reasons given for `ReductionsFit`. `MCParse` has TLC evaluate it
  (`TablesOfGrammars`) for the three tables; `ParserTablesGenerated` checks that these are the tables
  that `Grammar` makes. Nothing is said of lookaheads: merged or incomplete ones, and actions
  which a conflict took away, change when the parser finds an error and not what it takes.
- No state is backtracked to, as in every table sgyacc writes (`BacktrackOnError` is never set).
- `RememberLength > 0`, which is 1 by default (`BacktrackingTokenStream.h:127`): without a remembered
  token the one to go back to may have been freed.

`OneTokenBack` is the hypothesis of the run. `DoParse` presents an error by going one token back, and
reads again the token refused after the error is shifted. If, while an error is presented and
not yet shifted, another reduction turns out to lead nowhere, it goes back a second token, and that one
was consumed. Its second conjunct is about named errors: the state of the left hand side that threw
one is not yet stored, and the search must not stop at the element. `Statements` checks it; the table
of `Parts` does not satisfy it, and `PromiseSpec` fails there in just this way. The theorem is
therefore as strong as the code allows, and says that this is the only way to lose step with the input.

The invariant `Following` stands on top of `Inv`. The states on the stack are a walk through the table
from a start state (`OnWalk`), of which `Spelled` is the word (`Word`); at the places where the
state of a left hand side is known and not yet stored, the walk ends in `TopState`, and that state is
where the one below leads on it (`GoesTo`, `InHand`). The cursor is at the end of what was read, or one
before it while an error is presented (`PlacedIn`), and the token in hand is then the error or
else the source's (`Sees`). With `TableOfGrammar` a walk of as many steps as a production is long, into a
state that reduces it, spells its right hand side (`SpellsRightHandSide`). This is where
`Rhs`, which the code does not have, meets the table.

There is a lemma `...Follows` for every action, which gives `Following'` and the step of `ShiftReduce`:
`Shift` is `Shift`; `HandlerSucceeds`, or `Reduce` where no handler is asked, is `Rewrite`, since up to
then the right hand side is in place; a syntax error, a rejected reduction and a thrown error are
`FindError`, or `Discard` where one is being handled, and so are flushing and skipping; `ShiftError` is
`ReplaceByError`. The rest are stutters. `StaysDisciplined` falls out of `PlacedIn` (`HasTokenBehind`): where the parser
goes back it has read a token, since what it looks at is one.

#### Tables on which that need not be assumed

`OneTokenBack` is about behaviours. `ErrorsFindPlace` is a condition on the table and its productions alone
that implies it (`GoesBackOnce`), so that for such a table the theorems speak of every behaviour:
`FollowsTheGrammar` is `Spec => PromiseSpec`, `AlwaysSound` is `Spec => [](TypeOK /\ StreamSound) /\ NoValueLeaks`,
and `NoMarkerForgotten` is `Spec => NoMarkerLeaks` (where the start states record alike). Its three parts are about what a state may find
below a right hand side, which is wherever a path of that length through the automaton begins:

- `GotosDefined`: every reduction has a goto for the default left hand side, so `RejectReduce` is never
  taken. An LR table is like this where no production has other left hand sides (user-controlled reductions).
- `ErrorsGetShifted`: what is reduced on an error, with whatever left hand side the handler picks, leads to
  a state with an action on the error, and throws no error of its own.
- `ThrownElsewhere`: what throws a named error is not empty, and the state of its first symbol, which is the
  one left at the top, has no action on the error: the search goes further down.

TLC evaluates `ErrorsFindPlace` with the runs (`TablesWithPlaces`): it is true of the tables of `Statements` and
`Names`, and false of the one of `Parts`, where the parser does lose step. It is sufficient and not
necessary. The invariant is `OneByOne`: an error that is presented has an action where the parser is, or
where the left hand side just found leads, or where any other the handler may pick leads
(`PlaceHere`, `PlaceAhead`, `PlacePicked`); so no other error is handled meanwhile (`ErrorIsNew`), and one that is
thrown finds none presented and no place at the top (`MayThrow`, `HasThrown`). It is inductive with `Inv` and
`Following`: that the stack is a walk through the automaton (`OnWalk`) is what turns the conditions on
paths into facts about the elements below the right hand side (`WhereReduces`).

### The tokenizer

`TokenizerProofs` proves of `Tokenizer`, for every automaton, block size and sequence of streams, the
invariants `TypeOK` (`TypeCorrect`) and `TextKept` (`InputKept`); and, for automata that satisfy
`IgnoredGoOn`, `CharacterIsCurrent` (`ReaderCurrent`) and `PositionFollowsText` (`PositionsFollow`).
For the same automata `Tokenizer` implements `MaximalMunch`
(`LongestPieces`): the tokens are the longest pieces the automaton accepts, wherever the blocks end.

The assumptions are that a block holds at least one byte and that the automaton has a row for every
state and an entry in it for every byte. `NoByte \in Bytes` is among them: at the end of the input the
reader's character is 0 (`Tokenizer.h:110`, `hasAdvanced ? Reader.GetByte() : 0u`), and rows are
indexed by any value of a byte. `IgnoredGoOn` says that no match reads beyond an ignored lexeme and comes
back to it. It is a hypothesis of the theorems and no assumption of the module, since the code
accepts automata without it: for these the run `CharacterIsCurrent` shows that the theorem is false.
`MCTokenizer` has TLC evaluate which of the two automata it uses satisfies it (`ModesGoOn`).

`Inv` is inductive. `BufInv` is its part about the buffers alone: blocks are full but for the last, the
tail is at the end of a block only at the end of the input, and it is not before the head. `KeptOf`
says that the input is what was given up, followed by the bytes of the blocks and those still to be read.
`Matching` says that the end which a match has noted is still in the blocks and after the head, so that
setting the tail back to it is safe. There is a lemma for each operation of the buffers; what most
of them need is how the bytes up to a position change when blocks are appended or dropped
(`Before`, `TextTo`). The list of blocks is flattened by a fold of the library, and what the fold
returns is stated by its partial results (`Flattens`). That these exist, and agree where the lists do, is
shown by taking the shortest list of which it fails, since a set of numbers has a least one
(`LeastNat`). Runs of the automaton are dealt with in the same way (`IsRun`).

`Reader` and `Placed` are invariants on top of `Inv`: the reader's character is the byte at the tail,
and the positions of the tail and of the noted end are those of the text before them.

`MaximalMunch` knows the whole input and the states of the automaton on it, from where the last token
ended; `Tokenizer` knows one state and the last lexeme accepted. `Matched` ties them: on every
run of the automaton from the head, the state at the tail is the match's, and what was noted is the
last place up to the tail where the run accepts (`Scanned`). A byte more keeps it (`ByteMatched`,
`ScanStep`). When the match ends, at the end of the input or in a stuck automaton, nothing is accepted
later (`Stuck`), so what was noted is the longest accepted piece (`ScanEnds`, `MatchEnds`). The mapping
of steps: `Create` is `Attach`; `GetNextToken` and `MatchByte` are stutters; `BeginLexeme` is
`EndOfInput` where the input ends and a stutter elsewhere; `NothingRecognised` is `Unrecognised`; and
`Recognised` is `Longest`, for ignored lexemes also.

### The generation of parse tables

`GrammarProofs` proves of `Grammar`, for every set of grammars and every type of table, that `Spec` keeps
`TypeOK` (`TypeCorrect`), `MovedItems` (`ProductionHasToBeThere`), `ConflictsTold`
(`ConflictsAreTold`), and the action property `SetsOnlyGrow` (`StatesOnlyGrow`). The only assumption,
`InputsAssumption`, says of what form a grammar is: symbols are numbers, none of those listed is the end of
file or an accepting nonterminal, there are no more start symbols than accepting nonterminals have numbers
for, and what is declared at a dot is to shift or to reduce. A symbol may be listed twice, as a
terminal with a name and an alias is.

`ProductionHasToBeThere` answers a comment of the code, "Production HAS to be there, since a symbol
lead us to this state" (`Grammar.cpp:874`): the loop before it has no other end, and reads past the
items of the state if the production is not there.

`ConflictsAreTold` says of every grammar what `Tables` checks of 236. On every terminal a finished state
does what one of its items wants, and does nothing only if none wants anything or the terminal has a
precedence. Reports are judged conflict by conflict, whatever else the grammar declares (`Settled`: a
precedence, an action at a dot, an override, a choice of left sides): every report is of two items that
are at odds on the terminal and that nothing settles (`ReportsAreTrue`), and an item that nothing settles
against any of its rivals has the conflict reported. Of two rivals this is "reported exactly if nothing
settles it". Of three or more, an item which a declaration sets against some of them may go unreported against
the others, since the code asks only about the one that won so far.

`StatesOnlyGrow` is about what a step may change of a state made before. Its items stay and their lookaheads
grow (`ItemsKept`). Its gotos and actions stay, if no terminal goes by two names (`NamedOnce`), but for
actions given up to a finished item that sets its reductions (`GivenUp`): acceptance never, a
shift only where a declaration says so, and to nothing only a shift on a terminal that does not associate.
A terminal with two names is tried twice, and in a compact table its second shift may lead elsewhere;
`TriedOnce` (`SymbolsTriedOnce`) is the invariant that excludes it.

`GInv` is the inductive invariant, with one lemma `Step...` for each action. None of the properties is
inductive alone, and the parts of `GInv` are what the loops hand to each other:

- `Added`: a symbol of a right side is in the list of symbols the goto loop goes through, which
  `CheckProductions` sees to. Without it an item could be waiting for a symbol never tried.
- `MovedItems` and `MovedOn`: a state that a symbol leads to has the items of the state it comes from
  with the dot moved on. `MovedOn` says it of the set that is searched for, through the closure, and
  of the state found, through the merge; when the transition is set it becomes `MovedItems`. It only
  depends on cores, which `CoresKept` shows to survive the lookaheads that enter items in place.
- `Shifts` and `Positions`: for the symbols tried, and only for these, the action table has the shifts
  of the items. At `EndGoto` all symbols were tried, and `Shifts` becomes what `Decided` says before any
  reduction was looked at.
- `Decided`: for the items looked at so far (`Seen`) what `ConflictsTold` says of all.
  `terminalItems`, the item that set an action, must be known for the current state only, and is why
  the invariant speaks of the state the loop is at. `OneMoreReducer` is the step, in terms that do
  not mention the tables.

Orders that the code takes from its ordered sets enter only through `RankedSeq`: what is arranged is
a sequence of exactly the elements of the set.

### The loading of grammar files

`ParseDataProofs` proves of `ParseData`, for every set of files and any number of loads, failures and
clears, `TokensNamed` (`LexemesNumbered`) and `SymbolsDistinct` (`SymbolsNumberedApart`). Both are about
a grammar that is loaded. `IInv` (`LoadingKeepsNumbers`) is what makes them so from the first token of
the file on, and across the loads, since a load that fails leaves its lexemes to the next one.

The only assumption, `FilesAssumption`, is about the order of the reductions in a file: behind a line of
an expression comes the end of an expression, an error, or the parser giving up. The grammar
of grammar files has a line in no other place than an expression's block (`ParseData.cpp:167-171`), so what follows is its
reduction `ExprSection`, or an error; and an error is reduced by one of the productions that
report, or the parse fails. It is used in one place: that a sound parse leaves no lexeme outside all
expressions (`Covered`). TLC evaluates it for every file of `MCParseData`.

`IInv` holds in every state; its parts are:

- `NamesApart`, `LexemesCoded`: the tables `LexemeNameToToken`, `LexemeAliasToToken` and
  `TokenLexemes` fit together and with the lexemes, although `ExprLine`, `ExprLineAlias` and
  `ExprLineIgnore` each fill some of them, and a name may be met any number of times. `LexemeAdded` is the step.
- `ExpressionsDivide` and `Parsing`: an expression begins where the one before ended, and lexemes that are in
  none yet have an end to come (`Closing`), or a mistake was reported, and the load will fail. An expression
  with a name that is taken is such a mistake; its lexemes fall to the next expression of a later load.
  This is why `clean` is in the property.
- `NonTerminalsApart`, `ErrorsBehind`, `SymbolsApart`: nonterminals have numbers below their counter, no two
  the same; errors with names are between the tokens and the terminal counter; and a symbol that is
  found for one name is not that of another. The symbol that was looked up is entered only when its actions have
  been read (`MapSymbol`), so `ReadApart` says it of the symbol in between, for which the counter has
  already moved. `KnownApart`, `NumbersKept` and `ErrorIdsGrow` are the steps.
- `ThrownApart`: what left hand sides and productions throw is one of these errors, or nothing.

The handlers that hand a value on, and those that report, leave all of this alone (`HandedKeeps`,
`QuietKeeps`); the lemmas sort the reductions into these, `SectionKeeps` and `LinesKeep`.

### The automata of the lexer generator

`LexProofs` proves `NodesOwnedOnce` of `Lex` (`NodesHaveOneOwner`), for all lexemes, macros and
alphabets. The operations of `NFA.cpp` pass nodes by pointers: `Concat` and `Or` empty their second
operand, `Kleene` rewires its only one, `CombineNFAs` takes a whole list, and `Destroy` deletes whatever
can be reached. A node left in two automata would be deleted twice, and one left in none never.

- An owner is an automaton with the place it is kept in: the parse stack, `macroNFAs`, `lexemeNFAs`, or
  the automaton of the expression (`Owners`). No two owners share a node and none has a freed one. This holds always.
- If every node leads on or accepts (`NoEmptySet`), the final states of an automaton are in its graph, so a
  macro is always copied whole and `CopyLost` is never taken. An empty set of characters (`[b-a]`, or `[^...]` of
  everything) makes a start node that leads nowhere, with a final state out of reach: `Destroy` does not find
  it, and copying a macro with one dereferences null (`findings`, `NFA.cpp:105`).
- If besides no expression failed, every node that is not freed has an owner, and when `MakeDFA` is done there
  is none. A failed expression forgets its stack (`Cleanup` is empty).

The only assumption, `InputsAssumption`, says which sequences of reductions the parser of regular expressions
can report (`WellFormed`): the values a production takes are on the stack, lists of characters are taken up by
the reduction behind them, and one automaton is left at the end unless the parse fails. It also says that macros have
names of their own and expressions are made of lexemes there are. The grammar of regular expressions and
the loader see to both. TLC evaluates it for every input of `MCLex`.

`IInv` (`AutomataStaySound`) is inductive. `StackShape` counts the automata on the stack from the reductions so
far (`AutomataAfter`). `Phases` says which owners there are while each loop runs. `Sound` is
stated over an automaton's `Claims`, its graph and its final states wherever they are, because `Retired`
writes to the final states: with graphs alone, the final state cut off by an empty set could be in another
automaton's graph. `OneFinal` holds until `CombineNFAs`, which is why `Concat` can overwrite the
accepting ids of its operands.

The argument goes in three layers. The graph of a node is the least set that holds it and is closed under
links (`GraphLeast`, `GraphClosed`), since `TraverseGraph` stops growing within as many rounds as there are nodes; so it
only depends on the nodes in it (`GraphAgrees`). `Concat`, `Or`, `Kleene` and `CreateChars` put two
nodes behind the heap and relink final states of their operands (`Glued`), and one lemma covers all four
(`MakesSound`); `Copy` (`CopySound`), `CombineNFAs` (`CombineSound`), `Destroy` (`DestroyedSound`) and `MoveData`
(`HandedOn`) have one each. Then a lemma per action says which owners go and which one comes.

### Only model-checked

- *Liveness*: `Terminates` (of the parser and the generators) and `ReachesEnd` are about fairness and
  `ENABLED`, which are out of the prover's reach.
- *What the tables mean*: `ViablePrefix` and `ErrorsAreReal` compare the stack with what the grammar
  derives, which is defined by recursive functions over lengths of derivations: induction over data.
  `ItemSetsExact`, `TablesParseTheLanguage`, `PrecedenceShapesTrees` and `ParserTablesGenerated` are about
  that: least fixed points and derivations, defined with `RECURSIVE` operators.
- *What the lexer's automata mean*: `StackMeansPrefix` and `TableRecognisesLexemes` compare them with
  languages, computed from the reductions by recursion. `TypeOK` of `LexProperties` stands beside them; its
  parts about the heap and the phases follow from `IInv`, those about the table's columns do not.
- *What a file says*: `ProductionsAsWritten`, `SoundFilesLoad` and `PrecedenceRises` read the tree of the
  file with `RECURSIVE` operators, and so does `TypeOK` of `ParseDataProperties`, which stands beside them.
  They are checked by `GrammarFile`. `TypeOK` is not proved: which types the values on the stack have follows
  from the grammar of grammar files, which the model does not know. `LexShape` and the other parts of `IInv`
  state the types that the numbering needs.

## Not modelled, and the plan

Parts of modelled components that are left out:

- *Grammar*: the conflict report, a search for an example of every conflict that only writes text;
  the dump of the item sets; `Clear`.
- *NFA, DFAGen, Lex*: the second way to an automaton, from syntax trees, which sgyacc does not take;
  the hand-written tokenizer of regular expressions; `CreateVectors` and `CreateLexemes`, which
  copy; printing.
- *ParseData*: the tokenizer and tables of grammar files, which are generated (a file is the sequence
  of the steps of its parse); the output of enumerations; a third group of `|` in one right hand side,
  on which the loader stops.
- *Parser*: `Create`, `Destroy`, `SetParseTable` on a parser in use, `PrintStack`.

Left out altogether: the output of tables (`ParseTableGen`) copies them into arrays of fixed widths,
14 bits for states and 8 for lengths, which nothing checks and small grammars do not reach; messages,
file streams, the kernel's strings, the command line and the sample decide nothing the properties
are about; memory allocation failure.

What comes next: *table output*, the widths of the fields, as a precondition the generator would have to check.
