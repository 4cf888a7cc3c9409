SPECIFICATION FairSpec
CONSTANTS
    input = input
    evidence = evidence
    arp = arp
    logs = logs
    Module = {input, evidence, arp, logs}
    Optional = {logs}
    Subscribed = {evidence, arp}
    Core <- MCCore
    Finite = {input}
    Silent = {logs}
    MayCrash = {evidence}
    Early = {evidence, arp}
    Port = {TRUE, FALSE}
    MaxLoops = 4
    MaxStopSlips = 1
INVARIANTS
    TypeOK
    NoOrphan
    KilledOnlyIfForced
PROPERTY
    ShutdownEnds
\* an exited or dead Main takes no step
CHECK_DEADLOCK FALSE
