--------------------------- MODULE MCDocLineTables ---------------------------
(* Up to two files and two lines: a failure at the first and at a later  *)
(* file, and an empty file list and line table.                           *)
EXTENDS DocLineTables

MCBothFns == {"examplec", "exampled"}
MCExampled == {"exampled"}
MCMaxCount == 2
(* Two offsets past linebuf: line runs past the last of two lines.       *)
MCLineBound == 3

=============================================================================
