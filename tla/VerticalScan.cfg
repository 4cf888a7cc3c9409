SPECIFICATION MCSpec
CONSTANTS
    h0 = h0
    h1 = h1
    h2 = h2
    h3 = h3
    h6 = h6
    Flow <- MCFlow
    analysis_direction = "out"
    MaxFlows = 4
    Ip = {h0, h1, h2, h3, h6}
    Ipv6 = {h6}
    Port = {1, 2, 3, 9}
    Multicast = {}
    port_scan_minimum_dips_threshold = 2
    port_scan_minimum_dports_threshold = 2
    MaxMessages = 6
INVARIANT
    VerticalScanReported
CHECK_DEADLOCK FALSE
