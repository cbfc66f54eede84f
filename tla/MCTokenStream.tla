---------------------------- MODULE MCTokenStream ----------------------------
(***************************************************************************)
(* Bounds for TokenStreamSpec: blocks of two tokens, a source whose tokens *)
(* and end of file fill three blocks, and one shorter than a block.        *)
(***************************************************************************)
EXTENDS TokenStreamSpec, TLC

CONSTANTS Long, Short  \* the two sources

MCSourceLength == Long :> 5 @@ Short :> 0

\* Every index of a token of either source, one past the end, and InvalidIndex.
MCIndexes == 0 .. 7 \union {MaxSize}

\* Nothing more, or no limit.
MCLengths == {0, MaxSize}
=============================================================================
