----------------------------- MODULE MCLspServer -----------------------------
(* Model-checking instance of LspServer. *)
EXTENDS LspServer, TLC

(* Cancel flags, queries, request ids and files are interchangeable.  Used *)
(* for safety properties only.                                             *)
Symmetry == Permutations(Flags) \cup Permutations(Queries) \cup Permutations(Ids)
            \cup Permutations(SourceUris)
=============================================================================
