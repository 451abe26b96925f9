-------------------------- MODULE StartupLockProofs --------------------------
(***************************************************************************)
(* Proofs about StartupLock, for any number of hosts of either SDK, any of *)
(* them hasty, and any bounds.  LockInv is the inductive invariant: what a *)
(* host has at each place of ensure_ready, and, while nothing has          *)
(* disturbed the lock, whose the file is and how far the start has got.    *)
(***************************************************************************)
EXTENDS StartupLock, TLAPS, FiniteSetTheorems

\* A host spawns with a guard it has just taken, or with the Go SDK, and only once.
HostsRight ==
    \A h \in Host :
        /\ pc[h] \in {"acquiring", "judging", "removing"} => h \notin guards \cup spawned
        /\ pc[h] = "rechecking" => h \in guards /\ h \notin spawned
        /\ pc[h] = "spawning" => h \notin spawned /\ (h \in guards \/ h \in GoHost)
        /\ h \in GoHost =>
             h \notin guards /\ pc[h] \notin {"acquiring", "judging", "removing", "rechecking"}

\* While nothing has disturbed it, the lock file belongs to the one host with a guard; a
\* process that starts is that host's, and no other is there when it spawns.
Undisturbed ==
    ~disturbed =>
        /\ creator # Ghost
        /\ guards = (IF creator = Nil THEN {} ELSE {creator})
        /\ starting = 0 \/ (starting = 1 /\ ~serving /\ guards # {} /\ guards \subseteq spawned)
        /\ \A h \in Host \ GoHost : pc[h] = "spawning" => starting = 0 /\ ~serving

LockInv == TypeOK /\ HostsRight /\ NoLockLeft /\ Undisturbed

-----------------------------------------------------------------------------
(* A host at a time.                                                       *)

\* Only the host that moves is somewhere else afterwards.
LEMMA Goes ==
    ASSUME TypeOK, NEW h \in Host, NEW label \in Pc, Goto(h, label)
    PROVE  /\ pc' \in [Host -> Pc]
           /\ \A g \in Host : pc'[g] = (IF g = h THEN label ELSE pc[g])
  BY DEF TypeOK, Goto

\* A call that ends keeps the types.
LEMMA ReturnTypes ==
    ASSUME TypeOK, NEW h \in Host, Return(h)
    PROVE  /\ pc' \in [Host -> Pc]
           /\ {guards', spawned', late', retrying', stale'} \subseteq SUBSET Host
           /\ creator' \in Host \cup {Ghost, Nil}
<1>1. pc' \in [Host -> Pc]
  BY Goes DEF Return, Pc
<1>2. {guards', spawned', late', retrying'} \subseteq SUBSET Host
  BY DEF Return, Forget, TypeOK
<1>3. stale' \in SUBSET Host /\ creator' \in Host \cup {Ghost, Nil}
  BY DEF Return, DropGuard, file, TypeOK
<1> QED
  BY <1>1, <1>2, <1>3

\* What an upset counts is a number.
LEMMA UpsetType == ASSUME TypeOK, Upset PROVE upsets' \in Nat
  BY DEF TypeOK, Upset

\* The types are kept by every step.
LEMMA LockTypeStep == ASSUME TypeOK, [Next]_vars PROVE TypeOK'
<1> USE DEF locals, file
<1>1. CASE UNCHANGED vars
  BY <1>1 DEF vars, TypeOK
<1>2. ASSUME NEW h \in Host, Begin(h) \/ Restart(h) PROVE TypeOK'
  BY <1>2, Goes DEF Begin, Restart, TypeOK, Pc
<1>3. ASSUME NEW h \in Host, Probe(h) PROVE TypeOK'
  <2>1. CASE serving
    BY <1>3, <2>1, ReturnTypes DEF Probe, TypeOK
  <2>2. CASE ~serving
    <3>1. \E label \in Pc : Goto(h, label)
      BY <1>3, <2>2 DEF Probe, Pc
    <3> QED
      BY <1>3, <2>2, <3>1, Goes DEF Probe, TypeOK
  <2> QED
    BY <2>1, <2>2
<1>4. ASSUME NEW h \in Host, CreateLock(h) PROVE TypeOK'
  <2>1. \E label \in Pc : Goto(h, label)
    BY <1>4 DEF CreateLock, Pc
  <2>2. pc' \in [Host -> Pc]
    BY <2>1, Goes
  <2> QED
    BY <1>4, <2>2 DEF CreateLock, TypeOK
<1>5. ASSUME NEW h \in Host, JudgeLock(h) \/ RemoveStale(h) PROVE TypeOK'
  <2>1. \E label \in Pc : Goto(h, label)
    BY <1>5 DEF JudgeLock, RemoveStale, Pc
  <2>2. pc' \in [Host -> Pc]
    BY <2>1, Goes
  <2>3. CASE JudgeLock(h)
    BY <2>2, <2>3 DEF JudgeLock, TypeOK
  <2>4. CASE RemoveStale(h)
    <3>1. disturbed' \in BOOLEAN
      BY <2>4 DEF RemoveStale, TypeOK
    <3> QED
      BY <2>2, <2>4, <3>1 DEF RemoveStale, TypeOK
  <2> QED
    BY <1>5, <2>3, <2>4
<1>6. ASSUME NEW h \in Host, Recheck(h) PROVE TypeOK'
  BY <1>6, Goes, ReturnTypes DEF Recheck, TypeOK, Pc
<1>7. ASSUME NEW h \in Host, Spawn(h) PROVE TypeOK'
  <2>1. CASE Upset /\ Return(h) /\ UNCHANGED <<starting, disturbed>>
    BY <1>7, <2>1, ReturnTypes, UpsetType DEF Spawn, TypeOK
  <2>2. CASE /\ starting' = starting + 1 /\ spawned' = spawned \cup {h} /\ Goto(h, "waiting")
             /\ disturbed' = (disturbed \/ h \in GoHost)
             /\ UNCHANGED <<guards, late, retrying, file, upsets, serving>>
    <3>1. disturbed' \in BOOLEAN
      BY <2>2 DEF TypeOK
    <3>2. pc' \in [Host -> Pc]
      BY <2>2, Goes DEF Pc
    <3> QED
      BY <2>2, <3>1, <3>2 DEF TypeOK
  <2> QED
    BY <1>7, <2>1, <2>2 DEF Spawn
<1>8. ASSUME NEW h \in Host, Wait(h) PROVE TypeOK'
  <2>1. disturbed' \in BOOLEAN
    BY <1>8 DEF Wait, TypeOK
  <2>2. UNCHANGED <<starting, serving, upsets>>
    BY <1>8 DEF Wait
  <2>3. CASE h \in late
    BY <1>8, <2>1, <2>2, <2>3, ReturnTypes DEF Wait, TypeOK
  <2>4. CASE h \notin late
    BY <1>8, <2>1, <2>2, <2>4, Goes DEF Wait, TypeOK, Pc
  <2> QED
    BY <2>3, <2>4
<1>9. ASSUME NEW h \in Host, Expire(h) \/ Age(h) PROVE TypeOK'
  BY <1>9 DEF Expire, Age, TypeOK
<1>10. ASSUME NEW h \in Host, FailToLock(h) \/ Cancel(h) PROVE TypeOK'
  <2>1. disturbed' \in BOOLEAN
    BY <1>10 DEF FailToLock, Cancel, TypeOK
  <2> QED
    BY <1>10, <2>1, ReturnTypes, UpsetType DEF FailToLock, Cancel, TypeOK
<1>11. ASSUME NEW h \in Host, Crash(h) PROVE TypeOK'
  <2>1. pc' \in [Host -> Pc]
    BY <1>11, Goes DEF Crash, Pc
  <2> QED
    BY <1>11, <2>1, UpsetType DEF Crash, Forget, TypeOK
<1>12. CASE Bind \/ FailToStart \/ Stop
  <2>1. starting' \in Nat
    BY <1>12 DEF Bind, FailToStart, Stop, TypeOK
  <2>2. upsets' \in Nat
    BY <1>12, UpsetType DEF Bind, FailToStart, Stop, TypeOK
  <2>3. serving' \in BOOLEAN /\ UNCHANGED <<pc, locals, file, disturbed>>
    BY <1>12 DEF Bind, FailToStart, Stop, TypeOK
  <2> QED
    BY <2>1, <2>2, <2>3 DEF TypeOK
<1> QED
  BY <1>1, <1>2, <1>3, <1>4, <1>5, <1>6, <1>7, <1>8, <1>9, <1>10, <1>11, <1>12
     DEF Next, Step

\* A call that ends leaves its host with nothing, and the others with what they had.
LEMMA ReturnHosts == ASSUME TypeOK, HostsRight, NEW h \in Host, Return(h) PROVE HostsRight'
<1>1. \A g \in Host : pc'[g] = (IF g = h THEN "off" ELSE pc[g])
  BY Goes DEF Return, Pc
<1> QED
  BY <1>1 DEF Return, Forget, HostsRight

\* What a host has fits where it is, after every step.
LEMMA HostsStep == ASSUME TypeOK, HostsRight, [Next]_vars PROVE HostsRight'
<1> USE DEF locals, file
<1>1. CASE UNCHANGED vars
  BY <1>1 DEF vars, HostsRight
<1>2. ASSUME NEW h \in Host, Begin(h) \/ Restart(h) PROVE HostsRight'
  <2>1. PICK label \in {"probing", "off"} : Goto(h, label)
    BY <1>2 DEF Begin, Restart
  <2>2. \A g \in Host : pc'[g] = (IF g = h THEN label ELSE pc[g])
    BY <2>1, Goes DEF Pc
  <2> QED
    BY <1>2, <2>2 DEF Begin, Restart, HostsRight
<1>3. ASSUME NEW h \in Host, Probe(h) PROVE HostsRight'
  <2>1. CASE serving
    BY <1>3, <2>1, ReturnHosts DEF Probe
  <2>2. CASE ~serving
    <3>1. PICK label \in {"waiting", "spawning", "acquiring"} :
            /\ Goto(h, label)
            /\ label = "spawning" => h \in GoHost /\ h \notin spawned
            /\ label = "acquiring" => h \notin guards \cup spawned /\ h \notin GoHost
      BY <1>3, <2>2 DEF Probe
    <3>2. \A g \in Host : pc'[g] = (IF g = h THEN label ELSE pc[g])
      BY <3>1, Goes DEF Pc
    <3> QED
      BY <1>3, <2>2, <3>1, <3>2 DEF Probe, HostsRight
  <2> QED
    BY <2>1, <2>2
<1>4. ASSUME NEW h \in Host, CreateLock(h) PROVE HostsRight'
  <2>1. PICK label \in {"rechecking", "judging"} :
          /\ Goto(h, label)
          /\ guards' = IF label = "rechecking" THEN guards \cup {h} ELSE guards
    BY <1>4 DEF CreateLock
  <2>2. \A g \in Host : pc'[g] = (IF g = h THEN label ELSE pc[g])
    BY <2>1, Goes DEF Pc
  <2>3. pc[h] = "acquiring" /\ spawned' = spawned
    BY <1>4 DEF CreateLock, At
  <2> QED
    BY <2>1, <2>2, <2>3 DEF HostsRight
<1>5. ASSUME NEW h \in Host, JudgeLock(h) \/ RemoveStale(h) PROVE HostsRight'
  <2>1. PICK label \in {"removing", "waiting", "acquiring"} : Goto(h, label)
    BY <1>5 DEF JudgeLock, RemoveStale
  <2>2. \A g \in Host : pc'[g] = (IF g = h THEN label ELSE pc[g])
    BY <2>1, Goes DEF Pc
  <2>3. pc[h] \in {"judging", "removing"} /\ UNCHANGED <<guards, spawned>>
    BY <1>5 DEF JudgeLock, RemoveStale, At
  <2> QED
    BY <2>2, <2>3 DEF HostsRight
<1>6. ASSUME NEW h \in Host, Recheck(h) PROVE HostsRight'
  <2>1. CASE serving
    BY <1>6, <2>1, ReturnHosts DEF Recheck
  <2>2. CASE ~serving
    <3>1. \A g \in Host : pc'[g] = (IF g = h THEN "spawning" ELSE pc[g])
      BY <1>6, <2>2, Goes DEF Recheck, Pc
    <3> QED
      BY <1>6, <2>2, <3>1 DEF Recheck, At, HostsRight
  <2> QED
    BY <2>1, <2>2
<1>7. ASSUME NEW h \in Host, Spawn(h) PROVE HostsRight'
  <2>1. CASE Return(h)
    BY <2>1, ReturnHosts
  <2>2. CASE /\ spawned' = spawned \cup {h} /\ Goto(h, "waiting") /\ UNCHANGED guards
    <3>1. \A g \in Host : pc'[g] = (IF g = h THEN "waiting" ELSE pc[g])
      BY <2>2, Goes DEF Pc
    <3> QED
      BY <2>2, <3>1 DEF HostsRight
  <2> QED
    BY <1>7, <2>1, <2>2 DEF Spawn
<1>8. ASSUME NEW h \in Host, Wait(h) PROVE HostsRight'
  <2>1. CASE h \in late
    BY <1>8, <2>1, ReturnHosts DEF Wait
  <2>2. CASE h \notin late
    <3>1. \A g \in Host : pc'[g] = (IF g = h THEN "probing" ELSE pc[g])
      BY <1>8, <2>2, Goes DEF Wait, Pc
    <3> QED
      BY <1>8, <2>2, <3>1 DEF Wait, HostsRight
  <2> QED
    BY <2>1, <2>2
<1>9. ASSUME NEW h \in Host, Expire(h) \/ Age(h) PROVE HostsRight'
  BY <1>9 DEF Expire, Age, HostsRight
<1>10. ASSUME NEW h \in Host, FailToLock(h) \/ Cancel(h) PROVE HostsRight'
  BY <1>10, ReturnHosts DEF FailToLock, Cancel
<1>11. ASSUME NEW h \in Host, Crash(h) PROVE HostsRight'
  <2>1. \A g \in Host : pc'[g] = (IF g = h THEN "crashed" ELSE pc[g])
    BY <1>11, Goes DEF Crash, Pc
  <2> QED
    BY <1>11, <2>1 DEF Crash, Forget, HostsRight
<1>12. CASE Bind \/ FailToStart \/ Stop
  BY <1>12 DEF Bind, FailToStart, Stop, HostsRight
<1> QED
  BY <1>1, <1>2, <1>3, <1>4, <1>5, <1>6, <1>7, <1>8, <1>9, <1>10, <1>11, <1>12
     DEF Next, Step

-----------------------------------------------------------------------------
(* The lock file.                                                          *)

\* Every step leaves a file of a host with a guard, of a crashed one, or none.
LEMMA FileStep == ASSUME NoLockLeft, [Next]_vars PROVE NoLockLeft'
<1> USE DEF locals, file, NoLockLeft
<1>1. ASSUME NEW h \in Host, Return(h) PROVE NoLockLeft'
  BY <1>1 DEF Return, DropGuard, Forget
<1>2. CASE UNCHANGED vars
  BY <1>2 DEF vars
<1>3. ASSUME NEW h \in Host, UNCHANGED <<guards, creator>> PROVE NoLockLeft'
  BY <1>3
<1>4. ASSUME NEW h \in Host, CreateLock(h) PROVE NoLockLeft'
  BY <1>4 DEF CreateLock
<1>5. ASSUME NEW h \in Host, RemoveStale(h) PROVE NoLockLeft'
  BY <1>5 DEF RemoveStale
<1>6. ASSUME NEW h \in Host, Crash(h) PROVE NoLockLeft'
  BY <1>6 DEF Crash, Forget
<1>7. ASSUME NEW h \in Host,
             Begin(h) \/ Restart(h) \/ JudgeLock(h) \/ Expire(h) \/ Age(h)
      PROVE  NoLockLeft'
  BY <1>7 DEF Begin, Restart, JudgeLock, Expire, Age
<1>8. ASSUME NEW h \in Host,
             Probe(h) \/ Recheck(h) \/ Spawn(h) \/ Wait(h) \/ FailToLock(h) \/ Cancel(h)
      PROVE  NoLockLeft'
  BY <1>1, <1>3, <1>8 DEF Probe, Recheck, Spawn, Wait, FailToLock, Cancel
<1>9. CASE Bind \/ FailToStart \/ Stop
  BY <1>9 DEF Bind, FailToStart, Stop
<1> QED
  BY <1>2, <1>4, <1>5, <1>6, <1>7, <1>8, <1>9 DEF Next, Step

-----------------------------------------------------------------------------
(* While nothing has disturbed the lock.                                   *)

\* How far a start has got.
StartRight ==
    \/ starting = 0
    \/ starting = 1 /\ ~serving /\ guards # {} /\ guards \subseteq spawned

\* A host may end its call without its controller being left to start.
LEMMA ReturnUndisturbed ==
    ASSUME TypeOK, Undisturbed, NEW h \in Host, Return(h), UNCHANGED <<starting, serving>>,
           ~disturbed' => ~disturbed /\ ~(h \in guards /\ starting > 0)
    PROVE  Undisturbed'
<1> USE HostAssumption DEF file
<1> SUFFICES ASSUME ~disturbed'
             PROVE  /\ creator' # Ghost
                    /\ guards' = (IF creator' = Nil THEN {} ELSE {creator'})
                    /\ StartRight'
                    /\ \A g \in Host \ GoHost : pc'[g] = "spawning" => starting' = 0 /\ ~serving'
  BY DEF Undisturbed, StartRight
<1>1. /\ creator # Ghost /\ guards = (IF creator = Nil THEN {} ELSE {creator}) /\ StartRight
      /\ \A g \in Host \ GoHost : pc[g] = "spawning" => starting = 0 /\ ~serving
  BY DEF Undisturbed, StartRight
<1>2. \A g \in Host : pc'[g] = (IF g = h THEN "off" ELSE pc[g])
  BY Goes DEF Return, Pc
<1>3. creator' # Ghost /\ guards' = (IF creator' = Nil THEN {} ELSE {creator'})
  BY <1>1 DEF Return, DropGuard, Forget
<1>4. StartRight'
  <2>1. CASE starting = 0
    BY <2>1 DEF StartRight
  <2>2. CASE starting # 0
    <3>1. starting = 1 /\ ~serving /\ guards # {} /\ guards \subseteq spawned /\ h \notin guards
      BY <1>1, <2>2 DEF StartRight
    <3> QED
      BY <3>1 DEF StartRight, Return, Forget
  <2> QED
    BY <2>1, <2>2
<1> QED
  BY <1>1, <1>2, <1>3, <1>4

\* Every step that leaves the lock undisturbed leaves its file with the one host that has
\* a guard, and that host alone with a controller.
LEMMA UndisturbedStep ==
    ASSUME TypeOK, HostsRight, NoLockLeft, Undisturbed, [Next]_vars PROVE Undisturbed'
<1> USE HostAssumption DEF locals, file
<1> DEFINE FileRight  == creator # Ghost /\ guards = (IF creator = Nil THEN {} ELSE {creator})
           SpawnRight == \A g \in Host \ GoHost : pc[g] = "spawning" => starting = 0 /\ ~serving
<1>0. (Undisturbed' <=> (~disturbed' => FileRight' /\ StartRight' /\ SpawnRight'))
  BY DEF Undisturbed, StartRight
<1>a. ~disturbed => FileRight /\ StartRight /\ SpawnRight
  BY DEF Undisturbed, StartRight
<1>1. CASE UNCHANGED vars
  BY <1>1 DEF vars, Undisturbed
<1>2. ASSUME NEW h \in Host, NEW label \in Pc \ {"spawning"}, Goto(h, label),
             UNCHANGED <<guards, spawned, creator, starting, serving, disturbed>>
      PROVE  Undisturbed'
  <2>1. \A g \in Host : pc'[g] = (IF g = h THEN label ELSE pc[g])
    BY <1>2, Goes
  <2> QED
    BY <1>2, <2>1 DEF Undisturbed
<1>3. ASSUME NEW h \in Host,
             Begin(h) \/ Restart(h) \/ JudgeLock(h)
      PROVE  Undisturbed'
  <2>1. \E label \in Pc \ {"spawning"} : Goto(h, label)
    BY <1>3 DEF Begin, Restart, JudgeLock, Pc
  <2> QED
    BY <1>2, <1>3, <2>1 DEF Begin, Restart, JudgeLock
<1>4. ASSUME NEW h \in Host, Probe(h) PROVE Undisturbed'
  <2>1. CASE serving
    <3>1. Return(h) /\ UNCHANGED <<starting, serving, disturbed>>
      BY <1>4, <2>1 DEF Probe
    <3>2. ~disturbed => starting = 0
      BY <1>a, <2>1 DEF StartRight
    <3> QED
      BY <3>1, <3>2, ReturnUndisturbed
  <2>2. CASE ~serving
    <3>1. PICK label \in {"waiting", "spawning", "acquiring"} :
            Goto(h, label) /\ (label = "spawning" => h \in GoHost)
      BY <1>4, <2>2 DEF Probe
    <3>2. \A g \in Host : pc'[g] = (IF g = h THEN label ELSE pc[g])
      BY <3>1, Goes DEF Pc
    <3>3. UNCHANGED <<guards, spawned, creator, starting, serving, disturbed>>
      BY <1>4, <2>2 DEF Probe
    <3> QED
      BY <3>1, <3>2, <3>3 DEF Undisturbed
  <2> QED
    BY <2>1, <2>2
<1>5. ASSUME NEW h \in Host, CreateLock(h) PROVE Undisturbed'
  <2>1. CASE creator = Nil
    <3>1. /\ creator' = h /\ guards' = guards \cup {h} /\ Goto(h, "rechecking")
          /\ UNCHANGED <<spawned, starting, serving, disturbed>>
      BY <1>5, <2>1 DEF CreateLock
    <3>2. \A g \in Host : pc'[g] = (IF g = h THEN "rechecking" ELSE pc[g])
      BY <3>1, Goes DEF Pc
    <3>3. ~disturbed => guards = {} /\ starting = 0
      BY <1>a, <2>1 DEF StartRight
    <3>4. ~disturbed => FileRight' /\ StartRight' /\ SpawnRight'
      BY <1>a, <3>1, <3>2, <3>3 DEF StartRight
    <3> QED
      BY <1>0, <3>1, <3>4
  <2>2. CASE creator # Nil
    BY <1>2, <1>5, <2>2 DEF CreateLock, Pc
  <2> QED
    BY <2>1, <2>2
<1>6. ASSUME NEW h \in Host, RemoveStale(h) PROVE Undisturbed'
  <2>1. PICK label \in {"waiting", "acquiring"} : Goto(h, label)
    BY <1>6 DEF RemoveStale
  <2>2. \A g \in Host : pc'[g] = (IF g = h THEN label ELSE pc[g])
    BY <2>1, Goes DEF Pc
  <2>3. /\ creator' = Nil /\ UNCHANGED <<guards, spawned, starting, serving>>
        /\ ~disturbed' => ~disturbed /\ guards = {}
    BY <1>6 DEF RemoveStale
  <2>4. ~disturbed' => FileRight' /\ StartRight' /\ SpawnRight'
    BY <1>a, <2>2, <2>3 DEF StartRight
  <2> QED
    BY <1>0, <2>4
<1>7. ASSUME NEW h \in Host, Recheck(h) PROVE Undisturbed'
  <2>1. CASE serving
    <3>1. Return(h) /\ UNCHANGED <<starting, serving, disturbed>>
      BY <1>7, <2>1 DEF Recheck
    <3>2. ~disturbed => starting = 0
      BY <1>a, <2>1 DEF StartRight
    <3> QED
      BY <3>1, <3>2, ReturnUndisturbed
  <2>2. CASE ~serving
    <3>1. /\ pc[h] = "rechecking" /\ Goto(h, "spawning")
          /\ UNCHANGED <<guards, spawned, creator, starting, serving, disturbed>>
      BY <1>7, <2>2 DEF Recheck, At
    <3>2. \A g \in Host : pc'[g] = (IF g = h THEN "spawning" ELSE pc[g])
      BY <3>1, Goes DEF Pc
    <3>3. h \in guards /\ h \notin spawned
      BY <3>1 DEF HostsRight
    <3>4. ~disturbed => starting = 0
      BY <1>a, <3>3 DEF StartRight
    <3>5. ~disturbed => FileRight' /\ StartRight' /\ SpawnRight'
      BY <1>a, <2>2, <3>1, <3>2, <3>4 DEF StartRight
    <3> QED
      BY <1>0, <3>1, <3>5
  <2> QED
    BY <2>1, <2>2
<1>8. ASSUME NEW h \in Host, Spawn(h) PROVE Undisturbed'
  <2>1. pc[h] = "spawning" /\ serving' = serving
    BY <1>8 DEF Spawn, At
  <2>2. CASE Return(h) /\ UNCHANGED <<starting, disturbed>>
    <3>1. ~disturbed => ~(h \in guards /\ starting > 0)
      BY <1>a, <2>1 DEF HostsRight
    <3> QED
      BY <2>1, <2>2, <3>1, ReturnUndisturbed
  <2>3. CASE /\ starting' = starting + 1 /\ spawned' = spawned \cup {h} /\ Goto(h, "waiting")
             /\ disturbed' = (disturbed \/ h \in GoHost)
             /\ UNCHANGED <<guards, late, retrying, file, upsets>>
    <3>1. \A g \in Host : pc'[g] = (IF g = h THEN "waiting" ELSE pc[g])
      BY <2>3, Goes DEF Pc
    <3> SUFFICES ASSUME ~disturbed' PROVE FileRight' /\ StartRight' /\ SpawnRight'
      BY <1>0
    <3>2. ~disturbed /\ h \notin GoHost
      BY <2>3
    <3>3. h \in guards /\ starting = 0 /\ ~serving
      BY <1>a, <2>1, <3>2 DEF HostsRight
    <3>4. guards = {h}
      BY <1>a, <3>2, <3>3
    <3>5. StartRight'
      BY <2>1, <2>3, <3>3, <3>4 DEF StartRight
    <3>6. \A g \in Host \ GoHost : pc[g] = "spawning" => g = h
      BY <3>4 DEF HostsRight
    <3>7. SpawnRight'
      BY <3>1, <3>6
    <3> QED
      BY <1>a, <2>3, <3>2, <3>5, <3>7
  <2> QED
    BY <1>8, <2>2, <2>3 DEF Spawn
<1>9. ASSUME NEW h \in Host, Wait(h) PROVE Undisturbed'
  <2>1. CASE h \in late
    BY <1>9, <2>1, ReturnUndisturbed DEF Wait
  <2>2. CASE h \notin late
    BY <1>2, <1>9, <2>2 DEF Wait, Pc
  <2> QED
    BY <2>1, <2>2
<1>10. ASSUME NEW h \in Host, Expire(h) \/ Age(h) PROVE Undisturbed'
  BY <1>10 DEF Expire, Age, Undisturbed
<1>11. ASSUME NEW h \in Host, FailToLock(h) \/ Cancel(h) PROVE Undisturbed'
  <2>1. CASE FailToLock(h)
    BY <2>1, ReturnUndisturbed DEF FailToLock, At, HostsRight
  <2>2. CASE Cancel(h)
    BY <2>2, ReturnUndisturbed DEF Cancel
  <2> QED
    BY <1>11, <2>1, <2>2
<1>12. ASSUME NEW h \in Host, Crash(h) PROVE Undisturbed'
  BY <1>12 DEF Crash, Undisturbed
<1>13. CASE Bind
  <2>1. /\ starting > 0 /\ starting' = starting - 1 /\ serving' = TRUE
        /\ UNCHANGED <<pc, guards, spawned, creator, disturbed>>
    BY <1>13 DEF Bind
  <2>2. ~disturbed => starting = 1 /\ \A g \in Host \ GoHost : pc[g] # "spawning"
    BY <1>a, <2>1 DEF StartRight
  <2>3. ~disturbed => FileRight' /\ StartRight' /\ SpawnRight'
    BY <1>a, <2>1, <2>2 DEF StartRight
  <2> QED
    BY <1>0, <2>1, <2>3
<1>14. CASE FailToStart
  <2>1. /\ starting > 0 /\ starting' = starting - 1
        /\ UNCHANGED <<pc, guards, spawned, creator, serving, disturbed>>
    BY <1>14 DEF FailToStart
  <2>2. ~disturbed => starting = 1
    BY <1>a, <2>1 DEF StartRight
  <2>3. ~disturbed => FileRight' /\ StartRight' /\ SpawnRight'
    BY <1>a, <2>1, <2>2 DEF StartRight
  <2> QED
    BY <1>0, <2>1, <2>3
<1>15. CASE Stop
  BY <1>15 DEF Stop, Undisturbed
<1> QED
  BY <1>1, <1>3, <1>4, <1>5, <1>6, <1>7, <1>8, <1>9, <1>10, <1>11, <1>12, <1>13, <1>14, <1>15
     DEF Next, Step

-----------------------------------------------------------------------------
(* The theorems.                                                           *)

\* The inductive invariant holds throughout.
THEOREM LockSound == Spec => []LockInv
<1>1. ASSUME Init PROVE LockInv
  <2>1. pc \in [Host -> Pc] /\ \A h \in Host : pc[h] = "off"
    BY <1>1 DEF Init, Pc
  <2>2. TypeOK
    BY <1>1, <2>1 DEF Init, TypeOK
  <2>3. HostsRight
    BY <1>1, <2>1 DEF Init, HostsRight
  <2>4. NoLockLeft /\ Undisturbed
    BY <1>1, HostAssumption DEF Init, NoLockLeft, Undisturbed
  <2> QED
    BY <2>2, <2>3, <2>4 DEF LockInv
<1>2. LockInv /\ [Next]_vars => LockInv'
  BY LockTypeStep, HostsStep, FileStep, UndisturbedStep DEF LockInv
<1> QED
  BY <1>1, <1>2, PTL DEF Spec

\* The hosts, the lock file and the controller processes only take the values that the
\* code gives them.
THEOREM StartupTypes == Spec => []TypeOK
<1>1. LockInv => TypeOK
  BY DEF LockInv
<1> QED
  BY <1>1, LockSound, PTL

\* The Drop of StartupSpawnGuard leaves no lock file behind, for any number of hosts that
\* time out, are cancelled, or take each other's files: only a crash does.
THEOREM LockReleased == Spec => []NoLockLeft
<1>1. LockInv => NoLockLeft
  BY DEF LockInv
<1> QED
  BY <1>1, LockSound, PTL

\* While no host crashed, was hastier than another, went without the lock or gave up
\* with its controller starting, ensure_ready starts one controller for all of them.
THEOREM OneStart == Spec => []OneController
<1>1. ASSUME LockInv, ~disturbed PROVE Cardinality(guards) <= 1
  <2>1. guards = {} \/ guards = {creator}
    BY <1>1 DEF LockInv, Undisturbed
  <2>2. Cardinality({}) = 0 /\ Cardinality({creator}) = 1
    BY FS_EmptySet, FS_Singleton
  <2> QED
    BY <2>1, <2>2
<1>2. ASSUME LockInv, ~disturbed PROVE Processes <= 1
  BY <1>2 DEF LockInv, Undisturbed, Processes, TypeOK
<1>3. LockInv => OneController
  BY <1>1, <1>2 DEF OneController
<1> QED
  BY <1>3, LockSound, PTL
=============================================================================
