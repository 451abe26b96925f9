\* A binding remembered late keeps the client from ever recovering.
SPECIFICATION FairSpec
CONSTANTS
    Task      = {t1, t2}
    Renewer   = Renewer
    Session   = {s1, s2}
    Space     = {sp1}
    Binding   = {b1}
    Nil       = Nil
    MaxUpsets = 1
    MaxShutdowns = 0
CHECK_DEADLOCK FALSE
PROPERTIES
    Recovers
