SPECIFICATION MCFeedsSpec
CONSTANTS
    v4 = v4
    v6 = v6
    c1 = c1
    c2 = c2
    q1 = q1
    i1 = i1
    i2 = i2
    d1 = d1
    Ip = {i1, i2}
    Domain = {d1}
    Host = {v4, v6}
    OtherOf <- MCOtherOf
    Conn = {c1, c2}
    Saddr <- MCSaddr
    Daddr <- MCDaddr
    Login = {c1}
    Successful = {c1}
    Query = {q1}
    Asker <- MCAsker
    UidOf <- MCUidOf
    DomainOf <- MCDomainOf
    Answers <- MCAnswers
    WellKnown = {i2}
    Day = 2
    InterfaceWait = 1
    StartTime = 1
    MaxInternal = 1
    p = p
    a1 = a1
    a2 = a2
    Profile = {p}
    Flow <- MCFlow
    Address = {a1, a2}
    default_gateway = gateway
    NamedPort = {22}
    Port = {0, 22, 23, 40000, 40001}
    HighPort = {40000, 40001}
    OrgPort = {}
    FtpPort = {}
    Version = {v1, v2}
    Name = {n1, n2, n3}
    Young = {n1}
    Fingerprint = {k1, k2}
    Malicious = {k1}
    NxdomainsThreshold = 2
    NxdomainsStep = 2
    SmtpThreshold = 3
    SmtpSeconds = 2
    ArpaThreshold = 3
    ArpaSeconds = 1
    ReconnectionThreshold = 1
    P2pAddresses = 2
    P2pTries = 2
    LongConnection = 1
    ExfiltrationMinutes = 2
    ExfiltrationBytes = 3
    MaxNow = 3
    MaxQueries = 4
    h1 = h1
    h2 = h2
    h3 = h3
    h4 = h4
    m1 = m1
    m2 = m2
    ArpFlow <- MCArpFlow
    V4 = {h1, h2, h3, h4}
    V6 = {h5, h6}
    Mac = {m1, m2}
    Broadcast = broadcast
    Zero = zero
    Unspecified = h4
    gateway = gateway
    Local = {h1, h2}
    SameStart = {}
    arp_scan_threshold = 2
    ScanSeconds = 2
    Minute = 5
    TimeWindow = {1, 12}
    MaxArp = 4
    MaxMac = 1
    b1 = b1
    b2 = b2
    n1 = n1
    n2 = n2
    r1 = r1
    s1 = s1
    s2 = s2
    f1 = f1
    f2 = f2
    f3 = f3
    IocIp = {b1, b2}
    IocDomain = {n1, n2}
    IocRange = {r1}
    IocCert = {s1, s2}
    InRange <- MCInRange
    Under <- MCUnder
    LookedUp = {n1, n2}
    Feeds <- MCFeeds
    Format <- MCFormat
    Versions <- MCVersions
    LocalFile = "local"
    LocalVersions <- MCLocalVersions
    ThreatProfile = {p}
    MaxDay = 2
    MaxStarts = 2
    MaxLookups = 2
PROPERTY UpdatedByTimer
CHECK_DEADLOCK FALSE
