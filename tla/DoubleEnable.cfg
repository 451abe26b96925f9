\* A session enables its binding twice; then a second binding names the same database.
SPECIFICATION Spec
CONSTANTS
    Session        = {s1, s2}
    Space          = {sp1}
    Identity       = {i1}
    Binding        = {b1, b2}
    SqliteResource = {r1}
    LanceResource  = {}
    Config         = {g1, g2}
    LockingConfig  = {g1}
    Handle         = {h1, h2, h3}
    Task           = {}
    MaxStreams     = 0
    MaxInflight    = 0
    Nil            = Nil
INVARIANTS
    BackendShared
SYMMETRY Symmetry
