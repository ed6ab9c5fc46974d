SPECIFICATION Spec
CONSTANTS
    T <- MCThresholds
    ClearStreak = 10
    U32 = 1000
    Never = Never
    CdnDomains = {"cdn"}
    ChinaDomains = {"cdn", "cn"}
    ForeignDomains = {"intl"}
    ReservedIps = {"reserved"}
    PrivateIps = {"private"}
    ChinaIps = {"cn"}
    OtherIps = {"other"}
    Domains = {"cdn", "cn", "intl", "some"}
    Configs <- MCConfigs
    Replies <- MCReplies
    Served <- MCServed
    Inputs <- MCInputs
    MinTtl = 1
    MaxTtl = 3
    EnhancedTtl = 4
    MaxQueries = 3
    MaxTime = 2
    None = None
CHECK_DEADLOCK FALSE
INVARIANTS
    TypeOK
    UpstreamsForEveryRoute
    ScoresAreSymmetric
    MoreEvidenceNeverFlips
    PromotionTakesTwoAnswers
    OutlivesTtlOnlyInChina
