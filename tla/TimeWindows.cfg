\* Flows in any order
SPECIFICATION Spec
CONSTANTS
    home = home
    outside = outside
    Address = {home, outside}
    Time <- MCTime
    Width <- MCWidth
    OnlyOneTW = 30
    Century = 15
    HomeNet <- MCHomeNet
    MaxFlows = 4
INVARIANTS
    TypeOK
    Contiguous
    FlowInWindow
    FlowsOfProfiles
PROPERTY
    WindowsNeverMove
\* the input may end
CHECK_DEADLOCK FALSE
