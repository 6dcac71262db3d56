------------------------------- MODULE MCFile -------------------------------
(* Small instances of FileBackend: two flags.                              *)
EXTENDS FileBackend, TLC

CONSTANTS k1, k2, r1, r2, r3

MCSymmetry == Permutations({r1, r2, r3}) \cup Permutations({k1, k2})
=============================================================================
