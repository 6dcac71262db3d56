------------------------------- MODULE MCPages -------------------------------
(***************************************************************************)
(* What is behind the pages of flags, one part in each behaviour: the      *)
(* lists that Studio keeps (CachedLists, two environments), the rules that *)
(* a flag's page edits (RuleEdits, two named rules, or one between two     *)
(* without a name), and the promotion of a flag (Promotion).               *)
(***************************************************************************)
EXTENDS CachedLists, RuleEdits, Promotion, TLC

CONSTANTS e1, e2, r1, r2, r3, a, b, c, on, off

VARIABLE part

MCSymmetry == Permutations({r1, r2, r3}) \cup Permutations({e1, e2})

MCFirstRules == {<<a, b>>, <<Unnamed, a, Unnamed>>}

-----------------------------------------------------------------------------
(* Promotion: a ramp up and one down, a split and a single variation, and targets that lack *)
(* a variation or have another type.                                       *)
Flag(enabled, variations, default, rule, team) ==
    [type |-> "boolean", enabled |-> enabled, variations |-> variations,
     default |-> default, rule |-> rule, bucketingKey |-> team,
     metadata |-> [team |-> team, note |-> team]]

Ramping(low, high, start, end) ==
    [outcome |-> Split(<<>>),
     ramp |-> [from |-> off, to |-> on, low |-> low, high |-> high, start |-> start, end |-> end]]
Always(served) == [outcome |-> served, ramp |-> NoRamp]

MCSourceFlags ==
    {Flag(TRUE, {on, off}, Single(off), Ramping(0, 80, 1, 3), "s"),
     Flag(TRUE, {on, off}, Single(on), Ramping(90, 10, 1, 3), "s"),
     Flag(TRUE, {on, off}, Split((on :> 50) @@ (off :> 50)), Always(Single(on)), "s")}

MCTargetFlags ==
    {Flag(FALSE, {off}, Single(off), NoRule, "t"),
     Flag(TRUE, {on, off}, Single(off), Always(Single(off)), "t"),
     [Flag(FALSE, {on, off}, Single(on), Always(Single(on)), "t") EXCEPT !.type = "string"]}

MCFieldChoices ==
    {{"rules"}, {"default"}, {"variations"}, {"rules", "default", "bucketingKey"},
     {"enabled", "metadata"}, Fields}

-----------------------------------------------------------------------------
PagesInit ==
    /\ part \in {"lists", "rules", "promotion"}
    /\ Init
    /\ part # "lists" => dirs = {}
    /\ RulesInit
    /\ part # "rules" => Names(rules) = <<a, b>>
    /\ PromotionInit
    /\ part # "promotion" => source.default = Single(on) /\ target = Missing

PagesNext ==
    /\ UNCHANGED part
    /\ \/ part = "lists" /\ Next
       \/ part # "lists" /\ UNCHANGED lvars
    /\ \/ part = "rules" /\ RulesNext
       \/ part # "rules" /\ UNCHANGED rulesVars
    /\ \/ part = "promotion" /\ PromotionNext
       \/ part # "promotion" /\ UNCHANGED promotionVars

PagesSpec ==
    PagesInit /\ [][PagesNext]_<<part, lvars, rulesVars, promotionVars>>

\* The types of all parts, and with them that no list of rules has two with
\* the same name.
PagesTypeOK == ListsTypeOK /\ RulesTypeOK /\ PromotionTypeOK
=============================================================================
