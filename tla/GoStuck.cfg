\* One goroutine that goes on calling, and a controller that restarts once.
SPECIFICATION FairSpec
CONSTANTS
    Goroutine  = {g1}
    Connection = {k1, k2}
    Session    = {s1, s2}
    Space      = {sp1}
    Binding    = {b1}
    Nil        = Nil
    MaxUpsets  = 1
    Suspends   = FALSE
PROPERTIES
    Replayed
CHECK_DEADLOCK FALSE
