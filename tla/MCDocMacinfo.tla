----------------------------- MODULE MCDocMacinfo -----------------------------
(* A .debug_macinfo of four bytes: every way to cut it into CU blocks,    *)
(* with any of them unreadable.                                            *)
EXTENDS DocMacinfo

MCSecLen == 4

=============================================================================
