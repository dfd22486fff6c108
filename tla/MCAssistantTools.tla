-------------------------- MODULE MCAssistantTools --------------------------
(* Model values for AssistantTools.  Contacts are interchangeable.           *)
EXTENDS AssistantTools, TLC

Fields == [name: Name, rest: Rest \cup {None}]

Symmetry == Permutations(Contact)
=============================================================================
