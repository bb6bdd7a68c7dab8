--------------------------- MODULE MCDocumentStore ---------------------------
(* Model-checking instance of DocumentSnapshots. *)
EXTENDS DocumentSnapshots, TLC

(* Texts are interchangeable, and so are the files below src/: only safety *)
(* properties are checked.                                                 *)
Symmetry == Permutations(Texts) \cup Permutations(SourceUris)
=============================================================================
