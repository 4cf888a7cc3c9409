SPECIFICATION FairSpec
CONSTANTS
    input = input
    evidence = evidence
    arp = arp
    logs = logs
    Module = {input, evidence, arp}
    Optional = {}
    Subscribed = {evidence, arp}
    Core <- MCCore
    Finite = {input}
    Silent = {}
    MayCrash = {}
    Early = {}
    Port = {FALSE}
    MaxLoops = 4
    MaxStopSlips = 0
PROPERTY
    ShutdownTerminates
\* an exited or dead Main takes no step
CHECK_DEADLOCK FALSE
