--------------------------- MODULE MCDocRangeLists ---------------------------
(* Two contexts or entries, one offset-array entry, RLE spans of up to    *)
(* three bytes and entries of one or two bytes: an RLE that ends exactly  *)
(* at endoffset, one that runs past it, and a context with no RLE.        *)
EXTENDS DocRangeLists

MCMaxCount == 2
MCMaxOffsets == 1
MCMaxSpan == 3
MCRleLengths == {1, 2}

=============================================================================
