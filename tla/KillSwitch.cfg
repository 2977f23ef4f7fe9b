\* The grace window and the halts, for every kind of URL.
SPECIFICATION FairSpec
CONSTANTS
    MaxMisses <- MCMaxMisses
    MissBound <- MCMissBound
    Urls <- MCUrls
    MaxRestarts = 1
INVARIANTS
    NoTradingInSilence
PROPERTIES
    HaltsEventually
