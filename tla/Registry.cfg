\* Three sessions over two spaces, two databases under two configurations.
SPECIFICATION Spec
CONSTANTS
    Session        = {s1, s2, s3}
    Space          = {sp1, sp2}
    Identity       = {i1}
    Binding        = {b1}
    SqliteResource = {r1, r2}
    LanceResource  = {}
    Config         = {g1, g2}
    LockingConfig  = {g1}
    Handle         = {h1, h2}
    Task           = {}
    MaxStreams     = 0
    MaxInflight    = 1
    Nil            = Nil
INVARIANTS
    AttachmentsConsistent
    OwnershipConsistent
    ResourcesConsistent
PROPERTIES
    SessionEndSparesOthers
    LapsedNeverRevived
    PooledWhileBound
    ImplementsRegistry
SYMMETRY Symmetry
