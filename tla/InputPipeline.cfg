\* Every kind of input; and what becomes of its lines
SPECIFICATION MCSpec
CONSTANTS
    conn = conn
    dns = dns
    File = {conn, dns}
    Given = conn
    Kind = {"folder", "pcap", "interface", "stdin", "argus", "suricata", "nfdump"}
    Stamp = {1, 2}
    Captured = {1}
    Skip = 0
    MaxLines = 2
    MaxGen = 2
    Ip4 = {"a", "b", "c", "d", "ab", "0.0.0.0"}
    Ip6 = {"v6", "w6"}
    Within <- MCWithin
    EndsWith <- MCEndsWith
    Sni <- MCSni
    Resolved <- MCResolved
    OrgRange <- MCOrgRange
    OrgAsn <- MCOrgAsn
    OrgDomain <- MCOrgDomain
    OrgInside <- MCOrgInside
    FlowInput <- MCFlowInput
    Conf <- MCConf
    Unfit = {"ff", "d"}
    home_net = {"a", "b", "ab", "v6"}
    direction = "all"
    MaxEdits = 1
INVARIANTS
    InputTypeOK
    FolderSorted
    SentPerGeneration
    NeverBehind
    NothingForeign
    WellFormedStored
    WhitelistFollowsFile
PROPERTY
    LinesArrive
\* The input ends
CHECK_DEADLOCK FALSE
