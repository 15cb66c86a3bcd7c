----------------------------- MODULE MCBitStore -----------------------------
(* Small instances of BitStore for TLC.                                    *)
EXTENDS BitStoreClaims, BitStoreInductive, TLC

CONSTANTS h1, h2, good, bad

(* Two calls of the same kind may be exchanged.                            *)
Symmetry == Permutations({h1, h2})

(* The kernel fails an I/O, moves too few bytes, or moves them all.        *)
MCResults == {-EIO, 1, 2}
MCTwoResults == {-EIO, 2}

=============================================================================
