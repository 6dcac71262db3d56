SPECIFICATION PagesSpec
CONSTANTS
    e1 = e1  e2 = e2
    r1 = r1  r2 = r2  r3 = r3
    a = a  b = b  c = c
    on = on  off = off
    Env = {e1, e2}
    Request = {r1, r2, r3}
    Free = Free
    Nil = Nil
    NoJob = NoJob
    MaxEvents = 1
    Editors = {a, b}
    RuleNames = {a, b, c}
    Unnamed = Unnamed
    FirstRules <- MCFirstRules
    MaxElsewhere = 1
    Nowhere = Nowhere
    Promoters = {a}
    Variations = {on, off}
    NoVariation = NoVariation
    NoRamp = NoRamp
    NoRule = NoRule
    Missing = Missing
    SourceFlags <- MCSourceFlags
    TargetFlags <- MCTargetFlags
    FieldChoices <- MCFieldChoices
    MaxPromotionEdits = 2
    MaxPromotionTime = 4
    Unasked = Unasked
SYMMETRY MCSymmetry
INVARIANTS
    PagesTypeOK
    OwnChangesShow
    NoDeadlock
    SavedEditsAreThere
    CheckIsEnough
PROPERTIES
    EditsTouchOneRule
    ReordersKeepRules
    PromotionIsAsAsked
    RampsAreNotFastForwarded
CHECK_DEADLOCK FALSE
