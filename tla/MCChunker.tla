------------------------------ MODULE MCChunker ------------------------------
(* Chunking on all short texts, with lengths that fall on both sides of    *)
(* every limit.                                                            *)
EXTENDS Chunker, TLC

CONSTANTS Lengths, MaxBlocks

MCBlocks == [kind : {"paragraph"}, len : Lengths] \cup [kind : {"heading", "clause"}, len : {1}]
MCTexts == UNION {[1 .. n -> MCBlocks] : n \in 0 .. MaxBlocks}
=============================================================================
