----------------------------- MODULE MCEditing -----------------------------
(***************************************************************************)
(* Small instances of FlagEditing.  Toggling "enabled" looks the flag up   *)
(* before Get, setting "progressive" after it, as the handlers do.         *)
(***************************************************************************)
EXTENDS FlagEditing, TLC

CONSTANTS k1, k2, t1, r1, r2, n1, n2, off, on

MCKey == {k1, k2}
MCKeyOne == {k1}
MCField == {"enabled", "progressive"}
MCCompared == {"enabled"}
MCLookupFirst == {"enabled"}
MCValue == {off, on}

Holding(enabled, progressive) ==
    [fields |-> [enabled |-> enabled, progressive |-> progressive],
     updatedAt |-> t1]

Set(f, v) == [kind |-> "set", key |-> k1, field |-> f, value |-> v]

MCSets == {Set("enabled", on), Set("progressive", on)}
MCToggles == {Set("enabled", on), Set("enabled", off)}
MCTogglesAndSets == MCToggles \cup MCSets
MCAsked == {Set("progressive", on),
            [kind |-> "delete", key |-> k1],
            [kind |-> "rename", key |-> k1, to |-> k2]}

MCStart == [k \in Key |-> IF k = k1 THEN Holding(off, off) ELSE NoFlag]
MCToggled == [k \in Key |-> IF k = k1 THEN Holding(on, off) ELSE NoFlag]
MCGone == [k \in Key |-> IF k = k1 THEN NoFlag ELSE Holding(off, off)]

MCOutside == {MCStart, MCGone, Garbled}
MCOutsideKept == {MCStart, MCToggled}

MCSymmetry == Permutations({r1, r2})
=============================================================================
