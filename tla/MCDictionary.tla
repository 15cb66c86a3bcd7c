---------------------------- MODULE MCDictionary ----------------------------
(* A small instance of Dictionary for TLC.                                 *)
EXTENDS Dictionary, TLC

CONSTANTS a, b, c, x, y

(* Keys may be exchanged, and values: only the slots are ordered.          *)
Symmetry == Permutations({a, b, c}) \cup Permutations({x, y})

=============================================================================
