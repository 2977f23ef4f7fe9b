SPECIFICATION FairAudits
CONSTANTS
    Tokens = {a}
    Monitor = monitor
    Seekers = {s}
    JettonTtl = 1
    AuditTtl = 1
    PoolTtl = 1
    VerdictTtl = 1
    MaxChanges = 2
    MaxFaults = 1
    MaxPlans = 1
INVARIANTS
    EvidenceIsRecent
    RiskOnlyLowersConfidence
PROPERTIES
    FaultsAreForgotten
CHECK_DEADLOCK FALSE
