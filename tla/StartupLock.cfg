\* Two Rust hosts, one of them hasty, and a Go host, through two upsets.
SPECIFICATION FairSpec
CONSTANTS
    Host        = {h1, h2, g1}
    GoHost      = {g1}
    Hasty       = {h2}
    Ghost       = Ghost
    Nil         = Nil
    MaxStarting = 2
    MaxUpsets   = 2
INVARIANTS
    OneController
    NoLockLeft
PROPERTIES
    ControllerReturns
CHECK_DEADLOCK FALSE
