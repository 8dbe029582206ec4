--------------------------- MODULE MCDocListDealloc ---------------------------
(* All twelve examples; lists of up to three records, *)
(* so that dwarf_whatattr can fail at the first, a middle or the last.    *)
EXTENDS DocListDealloc

MCFns == {"example1", "examplee", "examplef", "exampleg", "exampleh", "examplei",
          "examplej", "examplek", "examplel", "examplem", "examplen", "exampleo"}
MCMaxCount == 3

=============================================================================
