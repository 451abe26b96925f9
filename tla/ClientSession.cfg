\* Two tasks of the host and the renew task, through two upsets, one of them a shutdown at most.
SPECIFICATION FairSpec
CONSTANTS
    Task      = {t1, t2}
    Renewer   = Renewer
    Session   = {s1, s2, s3, s4}
    Space     = {sp1}
    Binding   = {b1}
    Nil       = Nil
    MaxUpsets = 2
    MaxShutdowns = 1
INVARIANTS
    OneSession
    ReplayUndisturbed
CHECK_DEADLOCK FALSE
PROPERTIES
    RestoresRemembered
