-------------------------- MODULE MCMirroredRows --------------------------
(* Three callers about one row of each kind, with two contents. *)
EXTENDS MirroredRows, TLC

CONSTANTS a, b, c, x, i, j

MCCallers == {a, b, c}
MCContents == {Blank, x}
MCCerts == {i, j}

Symmetry == Permutations(MCCallers) \cup Permutations(MCCerts)

=============================================================================
