---------------------------- MODULE TokenizerBase ----------------------------
(***************************************************************************)
(* The byte buffers between an input stream and a tokenizer                *)
(* (src/src/Parser/TokenizerBase.h and .cpp), and the position tracker and *)
(* character reader of src/src/Parser/Tokenizer.h.                         *)
(*                                                                         *)
(* Bytes are read a block at a time into a list of blocks that runs from   *)
(* the head, the first byte of the lexeme being matched, past the tail,    *)
(* the byte the match has reached.  When a match has looked too far the    *)
(* tail is set back and the blocks after it are kept for the next one.     *)
(*                                                                         *)
(* Every operation is an operator from a buffer object to the object after *)
(* the call.  Operators named Faulty... are mutants, as elsewhere.         *)
(***************************************************************************)
EXTENDS Integers, SequencesExt

CONSTANTS
  BlockSize,  \* TokenizerBuffer::BufferSize, 8192 bytes in the code
  NoStream    \* the null InputStream

ASSUME BlockSizeAssumption == BlockSize \in Nat \ {0}

(***************************************************************************)
(* Buffer objects.  Chain holds what has been read into each block from    *)
(* pHeadBuffer along pNext, so that the end of Chain[i] is the pBufferTail *)
(* of block i.  HeadAt and TailAt count the bytes before pHead and pTail   *)
(* in their blocks, the first one and the one numbered TailBlock.  Spare:  *)
(* pFreeBuffer points to a block.  Allocated counts the blocks that were   *)
(* allocated and not deleted.  Left is what pInputStream will still read.  *)
(***************************************************************************)
NoBuffers ==
  [Chain |-> <<>>, HeadAt |-> 0, TailBlock |-> 0, TailAt |-> 0,
   Spare |-> FALSE, Allocated |-> 0, Left |-> <<>>]

Ready(b) == b.Chain # <<>>

SpareBlocks(b) == IF b.Spare THEN 1 ELSE 0

\* One Read of the stream fills a block, unless the stream ends before.
ReadBlock(left) == SubSeq(left, 1, Min({BlockSize, Len(left)}))

AfterBlock(left) == SubSeq(left, BlockSize + 1, Len(left))

GetTailPos(b) == [Block |-> b.TailBlock, At |-> b.TailAt]

GetHeadPos(b) == [Block |-> 1, At |-> b.HeadAt]

SetTailPos(b, pos) == [b EXCEPT !.TailBlock = pos.Block, !.TailAt = pos.At]

\* ByteReader.
IsEOF(b) == b.TailAt >= Len(b.Chain[b.TailBlock])

\* At the end of the input the code reads the byte after the last, and drops it.
NoByte == 0

GetByte(b) == IF IsEOF(b) THEN NoByte ELSE b.Chain[b.TailBlock][b.TailAt + 1]

----------------------------------------------------------------------------
\* The spare block, or a new one.
TakeBlock(b) ==
  IF b.Spare THEN [b EXCEPT !.Spare = FALSE] ELSE [b EXCEPT !.Allocated = @ + 1]

\* LoadNewBuffer and the appending of the block by its callers; at the end of
\* the stream the block becomes the spare one if freeOnEmpty, else is empty.
LoadNewBuffer(b, freeOnEmpty) ==
  IF b.Left = <<>> /\ freeOnEmpty
  THEN [TakeBlock(b) EXCEPT !.Spare = TRUE]
  ELSE [TakeBlock(b) EXCEPT !.Chain = Append(@, ReadBlock(b.Left)), !.Left = AfterBlock(@)]

FaultyReloadBuffer(b) ==
  LET loaded == LoadNewBuffer(b, TRUE)
  IN  IF b.TailBlock = Len(loaded.Chain)
      THEN [loaded EXCEPT !.TailAt = Len(b.Chain[b.TailBlock])]
      ELSE [loaded EXCEPT !.TailBlock = Len(loaded.Chain), !.TailAt = 0]

\* The tail is at the end of its block or one further: it goes to the next
\* block, or back to the end if there is none.
ReloadBuffer(b) ==
  LET loaded == IF b.TailBlock = Len(b.Chain) THEN LoadNewBuffer(b, TRUE) ELSE b
  IN  IF b.TailBlock = Len(loaded.Chain)
      THEN [loaded EXCEPT !.TailAt = Len(b.Chain[b.TailBlock])]
      ELSE [loaded EXCEPT !.TailBlock = @ + 1, !.TailAt = 0]

\* The code also returns whether there was a next byte, which is ~ IsEOF after.
AdvanceTail(b) ==
  LET moved == [b EXCEPT !.TailAt = @ + 1]
  IN  IF IsEOF(moved) THEN ReloadBuffer(moved) ELSE moved

\* The head moves to the tail; one of the blocks passed becomes the spare one,
\* if there is none, the others are deleted.
FaultyAdjustHead(b) ==
  [b EXCEPT !.HeadAt    = b.TailAt,
            !.Chain     = SubSeq(@, b.TailBlock, b.TailBlock),
            !.TailBlock = 1,
            !.Spare     = @ \/ b.TailBlock > 1]

AdjustHead(b) ==
  LET passed == b.TailBlock - 1
      kept   == IF passed > 0 /\ ~ b.Spare THEN 1 ELSE 0
  IN  [b EXCEPT !.HeadAt    = b.TailAt,
                !.Chain     = SubSeq(@, b.TailBlock, Len(@)),
                !.TailBlock = 1,
                !.Spare     = @ \/ passed > 0,
                !.Allocated = @ - (passed - kept)]

FreeAllBuffers(b) ==
  [NoBuffers EXCEPT !.Allocated = b.Allocated - Len(b.Chain) - SpareBlocks(b)]

\* A stream without a byte is refused where there is a block to read it into,
\* and accepted where there is none.
StreamAccepted(b, stream) == stream = NoStream \/ stream # <<>> \/ ~ Ready(b)

\* The blocks before the tail and after it are given up, and the one that is
\* left is read into.
ReuseBlock(b, stream) ==
  LET head == AdjustHead(b)
  IN  [head EXCEPT !.Allocated = @ - (Len(head.Chain) - 1),
                   !.Chain     = <<ReadBlock(stream)>>,
                   !.Left      = AfterBlock(stream)]

\* pFreeBuffer is cleared without deleting the block it points to.
SetInputStream(b, stream) ==
  IF stream = NoStream \/ ~ StreamAccepted(b, stream)
  THEN FreeAllBuffers(b)
  ELSE LET loaded == IF Ready(b)
                     THEN ReuseBlock(b, stream)
                     ELSE LoadNewBuffer([b EXCEPT !.Left = stream], FALSE)
       IN  [loaded EXCEPT !.HeadAt = 0, !.TailBlock = 1, !.TailAt = 0, !.Spare = FALSE]

----------------------------------------------------------------------------
\* BufferRangeByteReader from the head to the tail.
TokenText(b) ==
  LET upToTail == FlattenSeq(SubSeq(b.Chain, 1, b.TailBlock - 1))
                    \o SubSeq(b.Chain[b.TailBlock], 1, b.TailAt)
  IN  SubSeq(upToTail, b.HeadAt + 1, Len(upToTail))

\* LineOffsetPosTracker.
StartOfText == [Line |-> 0, Offset |-> 0]

LineFeed == 10
Tab      == 9

AdvanceChar(pos, ch) ==
  IF ch = LineFeed
  THEN [Line |-> pos.Line + 1, Offset |-> 0]
  ELSE [pos EXCEPT !.Offset = @ + (IF ch = Tab THEN 4 ELSE 1)]
=============================================================================
