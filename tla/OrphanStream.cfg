\* A session ends between the two critical sections of an open.
SPECIFICATION Spec
CONSTANTS
    Session        = {s1, s2}
    Space          = {sp1}
    Identity       = {i1}
    Binding        = {b1}
    SqliteResource = {r1}
    LanceResource  = {}
    Config         = {g1}
    LockingConfig  = {g1}
    Handle         = {h1, h2}
    Task           = {t1}
    MaxStreams     = 1
    MaxInflight    = 0
    Nil            = Nil
INVARIANTS
    StreamsOwned
SYMMETRY Symmetry
