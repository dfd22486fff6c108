--------------------------- MODULE MCClientStore ---------------------------
(* Model values for ClientStore.  The callers and the ids of each table are  *)
(* interchangeable, so the runs whose properties are safety use Symmetry.    *)
EXTENDS ClientStore, TLC

Symmetry == Permutations(Caller) \cup Permutations(Client)
            \cup Permutations(Contact) \cup Permutations(Interaction)
            \cup Permutations(Field) \cup Permutations(Email)
=============================================================================
