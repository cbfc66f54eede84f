-------------------------------- MODULE MCLex --------------------------------
(****************************************************************************)
(* Small sets of lexemes for Lex.  The alphabet is a, n, newline and        *)
(* return.                                                                  *)
(****************************************************************************)
EXTENDS LexProperties

EscapedLetters == [c \in {2} |-> 3]

Plain(c)   == [escaped |-> FALSE, ch |-> c]
Escaped(c) == [escaped |-> TRUE, ch |-> c]

Reports(prod, chars) == <<[prod |-> prod, chars |-> chars]>>

\* Regular expressions as the parser reports them.
Char(c)      == Reports("CChar", <<Plain(c)>>)
Escape(c)    == Reports("CChar", <<Escaped(c)>>)
Dot          == Reports("CDot", <<>>)
Then(r, s)   == r \o s \o Reports("RegExpConcat", <<>>)
Either(r, s) == r \o s \o Reports("AOr", <<>>)
Many(r)      == r \o Reports("BStar", <<>>)
Some(r)      == r \o Reports("BPlus", <<>>)
Maybe(r)     == r \o Reports("BQuestion", <<>>)
Group(set)   == set \o Reports("CGroupSet", <<>>)
Not(set)     == set \o Reports("CNotGroupSet", <<>>)
One(c)       == Reports("GroupSetChar", <<c>>)
FromTo(c, d)  == Reports("GroupSetCharList", <<c, d>>)
Call(name)   == Reports("CharSet", <<Plain(name[1])>>)
                  \o FlattenSeq([k \in 1 .. Len(name) - 1 |-> Reports("CharSetChar", <<Plain(name[k + 1])>>)])
                  \o Reports("CCharSet", <<>>)
Broken(r)    == r \o Reports("error", <<>>)

Sets ==
  {Group(FromTo(Plain(1), Plain(2))), Not(One(Plain(1))),
   Not(FromTo(Plain(2), Plain(4)) \o Reports("GroupSetCharGroupSet", <<Escaped(2)>>)),
   Group(One(Plain(4)) \o Reports("GroupSetCharListGroupSet", <<Plain(1), Escaped(1)>>))}

Atoms == {Char(1), Escape(2), Dot} \cup Sets

Repeated(set) == set \cup {Many(r) : r \in set} \cup {Some(r) : r \in set} \cup {Maybe(r) : r \in set}

Pairs(A, B) == {Then(r, s) : r \in A, s \in B} \cup {Either(r, s) : r \in A, s \in B}

Few == {Char(1), Some(Char(2)), Maybe(Char(1))}

Expressions1 == Repeated(Pairs(Repeated(Few), Few)) \cup Repeated(Atoms)

Expressions2 == Pairs(Repeated({Then(Maybe(Char(1)), Char(2))}), Pairs({Many(Char(1))}, Few))

Lexeme(regexp) == [regexp |-> regexp, kind |-> "none", param |-> ""]

Plainly(macros, lexemes) ==
  [macros |-> macros, lexemes |-> lexemes, expressions |-> <<>>, names |-> <<>>]

\* A word and an identifier: both match "aa".
WithWord == {Plainly(<<>>, <<Lexeme(Then(Char(1), Char(1))), Lexeme(r)>>) : r \in Expressions1 \cup Expressions2}

Macros ==
  <<[name |-> <<1>>, regexp |-> Either(Char(1), Char(2))],
    [name |-> <<1, 2>>, regexp |-> Then(Call(<<1>>), Maybe(Call(<<1>>)))],
    [name |-> <<2>>, regexp |-> Call(<<4>>)],
    [name |-> <<3>>, regexp |-> Broken(Char(1))]>>

\* Macros that use macros, that are used twice, that do not exist and that failed.
WithMacros ==
  {Plainly(Macros, <<Lexeme(Then(Call(<<1>>), Call(<<1>>))), Lexeme(Many(Call(<<1, 2>>)))>>),
   Plainly(SubSeq(Macros, 1, 2), <<Lexeme(Either(Call(<<1>>), Call(<<1, 2>>)))>>),
   Plainly(SubSeq(Macros, 1, 1), <<Lexeme(Char(1)), Lexeme(Call(<<2>>))>>),
   Plainly(Macros, <<Lexeme(Char(1)), Lexeme(Call(<<3>>))>>),
   Plainly(<<>>, <<Lexeme(Char(1)), Lexeme(Broken(Char(2)))>>)}

\* Expressions that are entered, pushed and left.
Moving(param) ==
  [macros |-> SubSeq(Macros, 1, 1),
   lexemes |-> <<Lexeme(Char(1)),
                 [regexp |-> Char(2), kind |-> "push", param |-> param],
                 Lexeme(Some(Not(One(Plain(2))))),
                 [regexp |-> Then(Char(2), Call(<<1>>)), kind |-> "pop", param |-> ""],
                 [regexp |-> Char(3), kind |-> "goto", param |-> "main"]>>,
   expressions |-> <<[start |-> 0, count |-> 2], [start |-> 2, count |-> 2], [start |-> 4, count |-> 1]>>,
   names |-> [n \in {"main", "inner", "last"} |-> CASE n = "main" -> 0 [] n = "inner" -> 1 [] n = "last" -> 2]]

\* A set without characters: as a macro that a lexeme uses, and in lexemes of its own.
NoChars == Group(FromTo(Plain(2), Plain(1)))

EmptySet ==
  {Plainly(<<[name |-> <<1>>, regexp |-> NoChars]>>, <<Lexeme(Call(<<1>>))>>)}
    \cup {Plainly(<<>>, <<Lexeme(Char(1)), Lexeme(r)>>) :
            r \in Repeated({NoChars}) \cup Pairs({NoChars}, {Char(2)}) \cup Pairs({Char(2)}, {NoChars})}

AllInputs ==
  WithWord \cup WithMacros \cup {Moving("inner"), Moving("last"), Moving("none"), Plainly(<<>>, <<>>)}
    \cup EmptySet

=============================================================================
