\* Two threads of a host on two clients, whose handles may share an address.
SPECIFICATION FairSpec
CONSTANTS
    Thread   = {t1, t2}
    Client   = {c1, c2}
    Address  = {a1}
    Nil      = Nil
    MaxItems = 1
INVARIANTS
    RunsOnlyLive
    ShellsOwned
    MisdirectedOnlyAfterFree
    StreamsCollected
    ResultsReleased
PROPERTIES
    FreeReturns
    FreedSessionEnds
CHECK_DEADLOCK FALSE
