------------------------------- MODULE Promotion -------------------------------
(***************************************************************************)
(* Promoting the settings of a flag from one environment to another        *)
(* (internal/server/promote.go and compare.go).  A promotion reads both    *)
(* flags and checks them against each other (planPromotion), and copies    *)
(* the settings it was asked for into what the target has become when the  *)
(* write takes effect (Save, AtomicEdits), or creates the flag there.  The *)
(* source is copied as it was read; a progressive rollout is frozen at the *)
(* share it has reached at the time of the write.                          *)
(***************************************************************************)
EXTENDS Integers, FiniteSets

CONSTANTS
    Promoters,
    Variations,
    NoVariation,   \* an outcome that is a split or left to a ramp
    NoRamp,        \* a rule without a progressive rollout
    NoRule,        \* the flag has no targeting rule
    Missing,       \* the environment does not have the flag
    SourceFlags,   \* what the flag may be in the source and in the target:
    TargetFlags,   \* chosen first, and by whoever edits it meanwhile
    FieldChoices,  \* the sets of settings to ask for
    MaxPromotionEdits,
    MaxPromotionTime,
    Unasked        \* no request, no page

Fields == {"variations", "default", "rules", "bucketingKey", "metadata", "enabled"}

VARIABLES
    date,
    source,
    target,
    promotion,  \* what each promoter asked for, with the page it was shown
    plan,       \* what planPromotion read
    step,       \* where its request is
    edits       \* how often somebody else has changed one of the flags

promotionVars == <<date, source, target, promotion, plan, step, edits>>

(***************************************************************************)
(* Flags.  One rule stands for all; experimentation is copied like the     *)
(* bucketing key, and metadata is one key of Studio's own, the team, and   *)
(* one of the user's.                                                      *)
(***************************************************************************)
Split(shares) == [variation |-> NoVariation, shares |-> shares]
Single(v) == [variation |-> v, shares |-> <<>>]

FlagParts ==
    {"type", "enabled", "variations", "default", "rule", "bucketingKey", "metadata"}

IsFlag(f) ==
    /\ f = [part \in FlagParts |-> f[part]]
    /\ f.metadata = [part \in {"team", "note"} |-> f.metadata[part]]

Serves(outcome) ==
    IF outcome.variation = NoVariation THEN DOMAIN outcome.shares ELSE {outcome.variation}

\* GO Feature Flag's validation: no reference to a variation that is not
\* there, and no split that is all zero.
ValidOutcome(outcome, variations) ==
    /\ Serves(outcome) \subseteq variations
    /\ outcome.variation = NoVariation => \E v \in DOMAIN outcome.shares : outcome.shares[v] > 0

Valid(f) ==
    /\ f.variations # {}
    /\ ValidOutcome(f.default, f.variations)
    /\ f.rule # NoRule /\ f.rule.ramp = NoRamp => ValidOutcome(f.rule.outcome, f.variations)

\* validateProgressive, but for the order of the dates.
IsRamp(ramp) ==
    /\ ramp.low \in 0..100 /\ ramp.high \in 0..100
    /\ ramp.start \in Int /\ ramp.end \in Int

ASSUME PromotionAssumption ==
    /\ FieldChoices \subseteq SUBSET Fields
    /\ \A f \in SourceFlags \cup TargetFlags : IsFlag(f) /\ Valid(f)
    /\ \A f \in SourceFlags :
         f.rule # NoRule /\ f.rule.ramp # NoRamp => IsRamp(f.rule.ramp)
    /\ Missing \notin SourceFlags \cup TargetFlags
    /\ MaxPromotionEdits \in Nat /\ MaxPromotionTime \in Nat

(***************************************************************************)
(* The freezing of a ramp.  The code's percentages are fractions; here     *)
(* they are rounded down.                                                  *)
(***************************************************************************)

(* SEEDED FAULT: a ramp is frozen at its end.                              *)
ReachedEnd(ramp, now) == ramp.high

Reached(ramp, now) ==
    IF ramp.end <= ramp.start \/ now > ramp.end THEN ramp.high
    ELSE IF now < ramp.start THEN ramp.low
    ELSE ramp.low + ((ramp.high - ramp.low) * (now - ramp.start)) \div (ramp.end - ramp.start)

FrozenOutcome(ramp, now) ==
    Split([v \in {ramp.from, ramp.to} |->
             IF v = ramp.to THEN Reached(ramp, now) ELSE 100 - Reached(ramp, now)])

FrozenRule(rule, now) ==
    IF rule = NoRule \/ rule.ramp = NoRamp THEN rule
    ELSE [outcome |-> FrozenOutcome(rule.ramp, now), ramp |-> NoRamp]

(***************************************************************************)
(* What a promotion makes of the target, and of no target.                 *)
(***************************************************************************)

(* SEEDED FAULT: Studio's own metadata is copied too.                      *)
MergedMetadataAll(from, to) == from

\* Studio's own keys stay the target's.
MergedMetadata(from, to) == [from EXCEPT !.team = to.team]

Promoted(to, from, fields, now) ==
    [to EXCEPT
       !.variations = IF "variations" \in fields THEN from.variations ELSE @,
       !.default = IF "default" \in fields THEN from.default ELSE @,
       !.rule = IF "rules" \in fields THEN FrozenRule(from.rule, now) ELSE @,
       !.bucketingKey = IF "bucketingKey" \in fields THEN from.bucketingKey ELSE @,
       !.metadata = IF "metadata" \in fields THEN MergedMetadata(from.metadata, @) ELSE @,
       !.enabled = IF "enabled" \in fields THEN from.enabled ELSE @]

\* createRequest: whatever was asked for, a new flag has the variations and
\* the default of the source, no rules, and is off.
Created(from) ==
    [type |-> from.type, variations |-> from.variations, default |-> Single(from.default.variation),
     rule |-> NoRule, bucketingKey |-> "", enabled |-> FALSE,
     metadata |-> [team |-> from.metadata.team, note |-> ""]]

(* SEEDED FAULT: the default is not checked.                               *)
CheckedRulesOnly(from, to, fields, now) ==
    \/ "variations" \in fields
    \/ "rules" \in fields /\ from.rule # NoRule =>
         Serves(FrozenRule(from.rule, now).outcome) \subseteq to.variations

\* checkPromotable: the rules and the default that are copied serve what the
\* target has, unless the variations come with them.
CheckPromotable(from, to, fields, now) ==
    \/ "variations" \in fields
    \/ /\ "rules" \in fields /\ from.rule # NoRule =>
            Serves(FrozenRule(from.rule, now).outcome) \subseteq to.variations
       /\ "default" \in fields => Serves(from.default) \subseteq to.variations

\* diffFields, of the settings Compare shows to differ.
SameMetadata(from, to) == from.note = to.note

DiffFields(from, to) ==
    {f \in Fields :
       CASE f = "rules" -> from.rule # to.rule
         [] f = "metadata" -> ~SameMetadata(from.metadata, to.metadata)
         [] OTHER -> from[f] # to[f]}

\* sameFlagState, which compares neither ramps nor bucketing key and team.  A
\* variation of another type has another value.
SameState(f, g) ==
    /\ f.enabled = g.enabled /\ f.default = g.default
    /\ f.variations = g.variations /\ f.type = g.type
    /\ f.rule = NoRule <=> g.rule = NoRule
    /\ f.rule # NoRule => f.rule.outcome = g.rule.outcome

-----------------------------------------------------------------------------
PromotionInit ==
    /\ date = 0
    /\ source \in SourceFlags
    /\ target \in TargetFlags \cup {Missing}
    /\ promotion = [p \in Promoters |-> Unasked]
    /\ plan = [p \in Promoters |-> Unasked]
    /\ step = [p \in Promoters |-> "new"]
    /\ edits = 0

Moves(p, there) == step' = [step EXCEPT ![p] = there]

(***************************************************************************)
(* The compare page shows both flags, and its user picks the settings.     *)
(* compares says whether snapshotPtr will find the page's version.         *)
(***************************************************************************)
AskPromotion(p) ==
    /\ step[p] = "new"
    /\ \E fields \in FieldChoices, compares \in BOOLEAN :
         promotion' = [promotion EXCEPT ![p] = [fields |-> fields, compares |-> compares,
                                                page |-> target, asked |-> date]]
    /\ Moves(p, "asked")
    /\ UNCHANGED <<date, source, target, plan, edits>>

Refuses(p) ==
    target # Missing /\ ( \/ source.type # target.type
                          \/ ~CheckPromotable(source, target, promotion[p].fields, date) )

PlanPromotion(p) ==
    /\ step[p] = "asked"
    /\ plan' = [plan EXCEPT ![p] = [source |-> source, target |-> target]]
    /\ Moves(p, IF Refuses(p) THEN "refused" ELSE "planned")
    /\ UNCHANGED <<date, source, target, promotion, edits>>

Result(p) == Promoted(target, plan[p].source, promotion[p].fields, date)

\* A page without the flag has no version of its file either.
Conflicts(p) ==
    /\ promotion[p].compares /\ promotion[p].page # Missing
    /\ ~SameState(target, promotion[p].page)

Commits(p) == target # Missing /\ ~Conflicts(p) /\ Valid(Result(p))

\* Save, when its write takes effect.
SavePromotion(p) ==
    /\ step[p] = "planned" /\ plan[p].target # Missing
    /\ target' = IF Commits(p) THEN Result(p) ELSE target
    /\ Moves(p, IF Commits(p) THEN "saved" ELSE "refused")
    /\ UNCHANGED <<date, source, promotion, plan, edits>>

\* Create, likewise; a default that is a split is no default for it.
CreatePromoted(p) ==
    /\ step[p] = "planned" /\ plan[p].target = Missing
    /\ LET creates == target = Missing /\ plan[p].source.default.variation # NoVariation
       IN  /\ target' = IF creates THEN Created(plan[p].source) ELSE target
           /\ Moves(p, IF creates THEN "saved" ELSE "refused")
    /\ UNCHANGED <<date, source, promotion, plan, edits>>

(***************************************************************************)
(* Other edits of the two flags, and time.                                 *)
(***************************************************************************)
EditFlags ==
    /\ edits < MaxPromotionEdits
    /\ edits' = edits + 1
    /\ \/ source' \in SourceFlags /\ target' = target
       \/ target' \in TargetFlags \cup {Missing} /\ source' = source
    /\ UNCHANGED <<date, promotion, plan, step>>

PassDate ==
    /\ date < MaxPromotionTime
    /\ date' = date + 1
    /\ UNCHANGED <<source, target, promotion, plan, step, edits>>

PromotionNext ==
    \/ \E p \in Promoters :
         AskPromotion(p) \/ PlanPromotion(p) \/ SavePromotion(p) \/ CreatePromoted(p)
    \/ EditFlags
    \/ PassDate

PromotionSpec == PromotionInit /\ [][PromotionNext]_promotionVars

(***************************************************************************)
(* Properties.                                                             *)
(***************************************************************************)
\* The types, and that the target is always a flag GO Feature Flag takes.
PromotionTypeOK ==
    /\ date \in 0..MaxPromotionTime /\ edits \in 0..MaxPromotionEdits
    /\ source \in SourceFlags
    /\ step \in [Promoters -> {"new", "asked", "planned", "refused", "saved"}]
    /\ \A p \in Promoters :
         /\ step[p] # "new" => promotion[p].fields \in SUBSET Fields
         /\ step[p] = "planned" => plan[p].source \in SourceFlags
    /\ target # Missing => IsFlag(target) /\ Valid(target)

SavesPromotion(p) == step[p] = "planned" /\ step'[p] = "saved"

(***************************************************************************)
(* README.md:463, "Promotion never turns a flag on by itself", whatever    *)
(* became of the target between the plan and the write.                    *)
(***************************************************************************)
NeverTurnedOn ==
    [][\A p \in Promoters :
         SavesPromotion(p) /\ target'.enabled =>
           /\ target # Missing
           /\ target.enabled \/ "enabled" \in promotion[p].fields]_promotionVars

(***************************************************************************)
(* A flag that exists gets the settings that were picked, and keeps the    *)
(* others and its team: Compare shows none of the picked ones to differ    *)
(* from the source that was read, its ramp frozen.  (A flag that is        *)
(* created gets variations and default only.)                              *)
(***************************************************************************)
PickedSettingsAreCopied ==
    [][\A p \in Promoters :
         SavesPromotion(p) /\ plan[p].target # Missing =>
           LET from == [plan[p].source EXCEPT !.rule = FrozenRule(@, date)]
               picked == promotion[p].fields
           IN  /\ DiffFields(from, target') \cap picked = {}
               /\ DiffFields(target, target') \subseteq picked
               /\ target'.metadata.team = target.metadata.team]_promotionVars

(***************************************************************************)
(* A promotion does what its user reviewed.                                *)
(***************************************************************************)
PromotionIsAsAsked == NeverTurnedOn /\ PickedSettingsAreCopied

(***************************************************************************)
(* README.md:468-470: promoting a ramp does not "fast-forward a            *)
(* half-finished rollout": the share the target gets lies between the one  *)
(* the ramp had reached when the page was shown and the one it has now,    *)
(* whether the ramp rises or falls (if its dates are in order, as          *)
(* validateOrder has it).                                                  *)
(***************************************************************************)
Due(ramp, now) ==
    IF now < ramp.start THEN ramp.low
    ELSE IF now > ramp.end THEN ramp.high
    ELSE (ramp.low * (ramp.end - now) + ramp.high * (now - ramp.start))
           \div (ramp.end - ramp.start)

FrozenBetween(rule, ramp, shown, now) ==
    LET share == rule.outcome.shares[ramp.to]
    IN  /\ rule.ramp = NoRamp
        /\ ramp.low <= ramp.high => Due(ramp, shown) <= share /\ share <= Due(ramp, now)
        /\ ramp.low > ramp.high => Due(ramp, shown) >= share /\ share >= Due(ramp, now)
        /\ \A v \in DOMAIN rule.outcome.shares : rule.outcome.shares[v] \in 0..100

RampsAreNotFastForwarded ==
    [][\A p \in Promoters :
         SavesPromotion(p) /\ plan[p].target # Missing /\ "rules" \in promotion[p].fields =>
           LET rule == plan[p].source.rule
           IN  rule # NoRule /\ rule.ramp # NoRamp /\ rule.ramp.start < rule.ramp.end =>
                 FrozenBetween(target'.rule, rule.ramp, promotion[p].asked, date)]_promotionVars

(***************************************************************************)
(* planPromotion's check is enough: a promotion that passed it and brings  *)
(* no variations makes a valid flag, whenever it is written, as long as    *)
(* the target has not changed since; so its user is not refused after the  *)
(* review.  (A promotion of variations alone may be, if the target's own   *)
(* rules serve one that goes; and so may a ramp from a variation to the    *)
(* same one, which may be frozen as a split that is all zero.)             *)
(***************************************************************************)
CheckIsEnough ==
    \A p \in Promoters :
      LET rule == plan[p].source.rule
      IN  /\ step[p] = "planned" /\ plan[p].target # Missing /\ target = plan[p].target
          /\ "variations" \notin promotion[p].fields
          /\ rule # NoRule /\ rule.ramp # NoRamp => rule.ramp.from # rule.ramp.to
          => Valid(Result(p))
================================================================================
