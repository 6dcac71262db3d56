------------------------------ MODULE MCWrite ------------------------------
(***************************************************************************)
(* Small instances of ConditionalWrite: two keys, one compared field and   *)
(* one that is not compared.                                               *)
(***************************************************************************)
EXTENDS ConditionalWrite, TLC

CONSTANTS k1, k2, t1, t2, r1, r2, off, on

MCKey == {k1, k2}
MCValue == {off, on}
MCField == {"enabled", "progressive"}
MCCompared == {"enabled"}

(* Each edit is fine alone; together they make a flag GOFF rejects.        *)
MCRejected == {[enabled |-> on, progressive |-> on]}

Holding(enabled, progressive) ==
    [fields |-> [enabled |-> enabled, progressive |-> progressive],
     updatedAt |-> t1]

Set(k, f, v) == [kind |-> "set", key |-> k, field |-> f, value |-> v]
Delete(k) == [kind |-> "delete", key |-> k]
Rename(k, to) == [kind |-> "rename", key |-> k, to |-> to]

MCAsked == {Set(k1, "enabled", on), Set(k1, "progressive", on),
            Set(k2, "enabled", off), Delete(k1), Rename(k1, k2)}

MCStartFile == (k1 :> Holding(off, off)) @@ (k2 :> NoFlag)
MCToggled   == (k1 :> Holding(on, off)) @@ (k2 :> NoFlag)
MCGone      == (k1 :> NoFlag) @@ (k2 :> Holding(off, off))

MCOutside == {MCStartFile, MCToggled, MCGone, Garbled}
=============================================================================
