-------------------------- MODULE MCDocumentStore --------------------------
(* Model values for DocumentStore.  Names are ordered, so only callers and   *)
(* documents are interchangeable.                                            *)
EXTENDS DocumentStore, TLC

Symmetry == Permutations(Caller) \cup Permutations(Doc)
=============================================================================
