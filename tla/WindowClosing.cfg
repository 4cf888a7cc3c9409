\* One marker and Main, two windows, each marked at most twice
SPECIFICATION FairSpec
CONSTANTS
    profiler = profiler
    slips = slips
    tw1 = tw1
    tw2 = tw2
    ProfTW = {tw1, tw2}
    Marker = {profiler}
    Main = slips
    Age = 2
    Interval = 1
    Patience = 1
    Finite = {TRUE, FALSE}
    MaxTime = 5
    MaxMarks = 2
INVARIANTS
    TypeOK
    NoneForgotten
    ClosedOncePerMark
PROPERTY
    OldWindowsClose
\* Main may stop, and the clock is bounded
CHECK_DEADLOCK FALSE
