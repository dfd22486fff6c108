----------------------------- MODULE MCPalette -----------------------------
(* Model values for Palette: one preset that is not the shipped one.         *)
EXTENDS Palette, TLC

CONSTANTS ember, warm

Palettes == [p \in {ember} |-> warm]
Symmetry == Permutations(Tab)
=============================================================================
