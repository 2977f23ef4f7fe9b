SPECIFICATION Spec
CONSTANTS
    Signals = {s1, s2, s3}
    Tiers = {low}
    Tokens = {a}
    Rules <- MCRules
    MaxTemplates = 2
    Ttl = 1
    MaxVersion = 2
    Horizon = 2
INVARIANTS
    TemplatesInOrder
    JudgedByItsPolicy
    SignalsAreCounted
SYMMETRY Twins
CHECK_DEADLOCK FALSE
