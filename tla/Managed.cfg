\* Two requests at a time, one of them possibly cancelled, and a controller that may stop.
SPECIFICATION ManagedSpec
CONSTANTS
    Session        = {s1}
    Space          = {sp1}
    Identity       = {i1}
    Binding        = {b1}
    SqliteResource = {r1}
    LanceResource  = {l1}
    Config         = {g1}
    LockingConfig  = {g1}
    Handle         = {h1, h2}
    Task           = {t1, t2}
    MaxStreams     = 1
    MaxInflight    = 2
    Nil            = Nil
    Managed        = TRUE
INVARIANTS
    InflightExact
PROPERTIES
    DecisionUnused
    SessionEndReclaims
    StreamRemovalJustified
CHECK_DEADLOCK FALSE
SYMMETRY Symmetry
