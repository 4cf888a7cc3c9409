\* Two reporters, two windows, three kinds of evidence
SPECIFICATION FairSpec
CONSTANTS
    m1 = m1
    m2 = m2
    private = private
    shared = shared
    scan = scan
    login = login
    self = self
    attacker = attacker
    victim = victim
    Reporter = {m1, m2}
    ProfTW = {private, shared}
    Desc = {scan, login, self}
    IP = {attacker, victim}
    ProfileIP <- MCProfileIP
    Detection <- MCDetection
    InfoIP <- MCInfoIP
    Inside <- MCInside
    ThreatLevel <- MCThreatLevel
    Confidence <- MCConfidence
    Disabled = {}
    Whitelisted <- MCWhitelisted
    OurIPs = {attacker}
    Beat <- MCBeat
    PeerReports = TRUE
    Threshold = 100
    MaxID = 3
INVARIANTS
    TypeOK
    AlertJustified
    BlockedAfterAlert
    NothingLost
PROPERTY
    StoreAsPromised
    ThresholdRaisesAlert
\* the modules may stop reporting
CHECK_DEADLOCK FALSE
