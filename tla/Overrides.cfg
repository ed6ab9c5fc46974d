SPECIFICATION Spec
CONSTANTS
    Files = 2
    Hostnames <- MCNames
    Inline <- MCInline
    Contents <- MCContents
    IPv4 = {"v4", "w4", "hole4"}
    IPv6 = {"v6", "hole6"}
    MaxEdits = 3
    Chars = {"a", "b"}
    Rules <- MCRules
    BlockedSuffixes <- MCSuffixes
    MaxRules = 2
    ServingRules <- MCServingRules
    Names <- MCNames
    SuppressQtypes = {"AAAA"}
    BlackholeV4 = "hole4"
    BlackholeV6 = "hole6"
CHECK_DEADLOCK FALSE
INVARIANTS
    TypeOK
    NothingMissed
    PlainRulesAreExact
    ReadFilesAreCurrent
    InlineEntriesKept
    RecordsFitTheirType
