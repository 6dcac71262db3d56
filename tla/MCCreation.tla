----------------------------- MODULE MCCreation -----------------------------
(***************************************************************************)
(* Small instances of FlagCreation: two keys, and the files of one team    *)
(* and of the flags without a team.                                        *)
(***************************************************************************)
EXTENDS FlagCreation

CONSTANTS k1, k2, r1, r2, flags, growth

In(f, k) == [file |-> f, key |-> k]

MCAsked == {In(growth, k1), In(growth, k2), In(flags, k1)}
=============================================================================
