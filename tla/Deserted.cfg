\* What hosts leave behind, and the end of a controller nobody uses any more.
SPECIFICATION FairManagedSpec
CONSTANTS
    Session        = {s1}
    Space          = {sp1}
    Identity       = {i1}
    Binding        = {b1}
    SqliteResource = {r1}
    LanceResource  = {l1}
    Config         = {g1}
    LockingConfig  = {g1}
    Handle         = {h1}
    Task           = {t1}
    MaxStreams     = 1
    MaxInflight    = 1
    Nil            = Nil
    Managed        = TRUE
PROPERTIES
    LapsedEventuallyEnds
    OrphanStreamsReclaimed
    DesertedStops
CHECK_DEADLOCK FALSE
