---------------------------- MODULE MCClientPages ----------------------------
(* Model values for ClientPages.  Clients are interchangeable, and so are    *)
(* contacts and interactions: a safety run may use Symmetry.                 *)
EXTENDS ClientPages, TLC

Fields == [name: Name, rest: Rest \cup {None}, owner: Owner \cup {None}]

Symmetry == Permutations(Client) \cup Permutations(Contact) \cup Permutations(Interaction)
=============================================================================
