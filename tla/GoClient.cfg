\* Two goroutines on one client, through one upset.
SPECIFICATION Spec
CONSTANTS
    Goroutine  = {g1, g2}
    Connection = {k1, k2, k3}
    Session    = {s1, s2}
    Space      = {sp1}
    Binding    = {b1}
    Nil        = Nil
    MaxUpsets  = 1
    Suspends   = TRUE
INVARIANTS
    HoldsRemembered
    NoStraySession
    NoPanicAlone
CHECK_DEADLOCK FALSE
SYMMETRY Symmetry
