----------------------------- MODULE StartupLock -----------------------------
(***************************************************************************)
(* How the hosts of one machine start the controller that they share.      *)
(* ensure_ready (client/src/client.rs) spawns it under a lock file, which  *)
(* has one path for all names of a local port; ensureReady of the Go SDK   *)
(* (client-go/controller/client.go) spawns it without.  Hosts crash, give  *)
(* up, and judge by the age of a lock file that its owner is gone.         *)
(*                                                                         *)
(* The model has no clock: the deadline of a call passes at some point, and *)
(* a lock file grows stale at some point, but while its owner can still be *)
(* waiting only for one who is hastier than the owner.                     *)
(***************************************************************************)
EXTENDS Naturals, FiniteSets

CONSTANTS
    Host,        \* hosts that may spawn the controller
    GoHost,      \* those that use the Go SDK
    Hasty,       \* those whose startup_timeout_secs is half of another's, or less
    Ghost,       \* a host process that is no more
    Nil,
    MaxStarting, \* bound: controller processes that have not bound the port yet
    MaxUpsets    \* bound: crashes, failed starts, cancelled calls, controllers that end

ASSUME HostAssumption ==
    GoHost \subseteq Host /\ Hasty \subseteq Host /\ Ghost \notin Host
    /\ Nil \notin Host \cup {Ghost}

ASSUME BoundsAssumption == MaxStarting \in Nat \ {0} /\ MaxUpsets \in Nat

VARIABLES
    pc,         \* where every host is in ensure_ready
    guards,     \* the hosts that have a StartupSpawnGuard
    spawned,    \* spawn_attempted
    late,       \* the hosts whose deadline has passed
    retrying,   \* the hosts in the second turn of try_acquire_startup_guard
    creator,    \* who made the lock file that is there, or Nil; Ghost after its crash
    stale,      \* the hosts to whom that file would be too old
    starting,   \* controller processes that have not bound the port yet
    serving,    \* a controller process has the port
    upsets,     \* upsets so far
    disturbed   \* history: a host crashed, went without the lock, overrode one that was
                \* held, or let go of it while its controller was starting

locals == <<guards, spawned, late, retrying>>
file   == <<creator, stale>>
vars   == <<pc, guards, spawned, late, retrying, creator, stale, starting, serving,
            upsets, disturbed>>

Pc == {"off", "probing", "acquiring", "judging", "removing", "rechecking", "spawning",
       "waiting", "crashed"}

\* The one type invariant.
TypeOK ==
    /\ pc \in [Host -> Pc]
    /\ {guards, spawned, late, retrying, stale} \subseteq SUBSET Host
    /\ creator \in Host \cup {Ghost, Nil}
    /\ starting \in Nat /\ upsets \in Nat
    /\ {serving, disturbed} \subseteq BOOLEAN

Init ==
    /\ pc = [h \in Host |-> "off"]
    /\ guards = {} /\ spawned = {} /\ late = {} /\ retrying = {}
    /\ creator = Nil /\ stale = {}
    /\ starting = 0 /\ serving = FALSE
    /\ upsets = 0 /\ disturbed = FALSE

At(h, label)   == pc[h] = label
Goto(h, label) == pc' = [pc EXCEPT ![h] = label]

\* Something that goes wrong, and is bounded.
Upset == upsets < MaxUpsets /\ upsets' = upsets + 1

-----------------------------------------------------------------------------
(* The lock file.                                                          *)

\* Faulty: only a call that succeeds removes its file.
DropGuardOnSuccess(h) ==
    IF h \in guards /\ serving THEN creator' = Nil /\ stale' = {}
                                ELSE UNCHANGED file

\* Drop of StartupSpawnGuard: remove_file(path), whoever made the file.
DropGuard(h) ==
    IF h \in guards THEN creator' = Nil /\ stale' = {}
                    ELSE UNCHANGED file

\* What the call had is gone with it.
Forget(h) ==
    /\ guards' = guards \ {h} /\ spawned' = spawned \ {h}
    /\ late' = late \ {h} /\ retrying' = retrying \ {h}

\* The call ends, one way or another.
Return(h) == Goto(h, "off") /\ DropGuard(h) /\ Forget(h)

\* create_new makes the file, or there is one.
CreateLock(h) ==
    /\ At(h, "acquiring")
    /\ IF creator = Nil
         THEN /\ creator' = h /\ stale' = {}
              /\ guards' = guards \cup {h}
              /\ retrying' = retrying \ {h}
              /\ Goto(h, "rechecking")
         ELSE Goto(h, "judging") /\ UNCHANGED <<guards, retrying, file>>
    /\ UNCHANGED <<spawned, late, starting, serving, upsets, disturbed>>

\* Any other error ends the call, as one of the directory does.
FailToLock(h) ==
    /\ At(h, "acquiring")
    /\ Upset /\ Return(h)
    /\ UNCHANGED <<starting, serving, disturbed>>

\* Faulty: a lock file that is there is another's for good.
NeverStale(h) ==
    /\ At(h, "judging")
    /\ Goto(h, "waiting") /\ retrying' = retrying \ {h}
    /\ UNCHANGED <<guards, spawned, late, file, starting, serving, upsets, disturbed>>

\* startup_lock_is_stale.  A file that has gone in between is not stale.
JudgeLock(h) ==
    /\ At(h, "judging")
    /\ IF creator # Nil /\ h \in stale
         THEN Goto(h, "removing") /\ UNCHANGED retrying
         ELSE Goto(h, "waiting") /\ retrying' = retrying \ {h}
    /\ UNCHANGED <<guards, spawned, late, file, starting, serving, upsets, disturbed>>

\* remove_file removes what is at the path by now, and the first turn takes another.
RemoveStale(h) ==
    /\ At(h, "removing")
    /\ creator' = Nil /\ stale' = {}
    /\ disturbed' = (disturbed \/ guards # {})
    /\ IF h \in retrying THEN Goto(h, "waiting") /\ retrying' = retrying \ {h}
                         ELSE Goto(h, "acquiring") /\ retrying' = retrying \cup {h}
    /\ UNCHANGED <<guards, spawned, late, starting, serving, upsets>>

\* The limit is twice the timeout of the judge and never below 30 seconds: a file of a
\* host with the same timeout outlives the owner's call first.
Age(h) ==
    /\ creator # Nil /\ h \notin stale \cup GoHost
    /\ creator \notin guards \/ h \in Hasty
    /\ stale' = stale \cup {h}
    /\ UNCHANGED <<pc, locals, creator, starting, serving, upsets, disturbed>>

-----------------------------------------------------------------------------
(* ensure_ready.                                                           *)

\* An operation, or the renew task, needs the controller.
Begin(h) ==
    /\ At(h, "off")
    /\ Goto(h, "probing")
    /\ UNCHANGED <<locals, file, starting, serving, upsets, disturbed>>

\* try_connect at the head of the loop.
Probe(h) ==
    /\ At(h, "probing")
    /\ IF serving
         THEN Return(h)
         ELSE /\ Goto(h, CASE h \in guards \cup spawned -> "waiting"
                           [] h \in GoHost \ spawned  -> "spawning"
                           [] OTHER                   -> "acquiring")
              /\ UNCHANGED <<locals, file>>
    /\ UNCHANGED <<starting, serving, upsets, disturbed>>

\* Faulty: a new owner spawns at once.
DoNotRecheck(h) ==
    /\ At(h, "rechecking")
    /\ Goto(h, "spawning")
    /\ UNCHANGED <<locals, file, starting, serving, upsets, disturbed>>

\* A new owner tries again: another may have started the controller before.
Recheck(h) ==
    /\ At(h, "rechecking")
    /\ IF serving THEN Return(h) ELSE Goto(h, "spawning") /\ UNCHANGED <<locals, file>>
    /\ UNCHANGED <<starting, serving, upsets, disturbed>>

\* spawn_controller, once in a call; an error ends the call.
Spawn(h) ==
    /\ At(h, "spawning")
    /\ \/ /\ starting < MaxStarting
          /\ starting' = starting + 1
          /\ spawned' = spawned \cup {h}
          /\ Goto(h, "waiting")
          /\ disturbed' = (disturbed \/ h \in GoHost)
          /\ UNCHANGED <<guards, late, retrying, file, upsets>>
       \/ Upset /\ Return(h) /\ UNCHANGED <<starting, disturbed>>
    /\ UNCHANGED serving

\* The host sleeps until the next turn, unless its deadline has passed.
Wait(h) ==
    /\ At(h, "waiting")
    /\ IF h \in late
         THEN Return(h) /\ disturbed' = (disturbed \/ (h \in guards /\ starting > 0))
         ELSE Goto(h, "probing") /\ UNCHANGED <<locals, file, disturbed>>
    /\ UNCHANGED <<starting, serving, upsets>>

\* The deadline passes.
Expire(h) ==
    /\ pc[h] \notin {"off", "crashed"} /\ h \notin late
    /\ late' = late \cup {h}
    /\ UNCHANGED <<pc, guards, spawned, retrying, file, starting, serving, upsets,
                   disturbed>>

\* The call is dropped at one of its awaits.
Cancel(h) ==
    /\ pc[h] \in {"probing", "rechecking", "waiting"}
    /\ Upset /\ Return(h)
    /\ disturbed' = (disturbed \/ (h \in guards /\ starting > 0))
    /\ UNCHANGED <<starting, serving>>

\* The host's process ends without a word, and may be started again.
Crash(h) ==
    /\ pc[h] # "crashed"
    /\ Upset /\ Goto(h, "crashed") /\ Forget(h)
    /\ creator' = IF creator = h THEN Ghost ELSE creator
    /\ disturbed' = TRUE
    /\ UNCHANGED <<stale, starting, serving>>

Restart(h) ==
    /\ At(h, "crashed")
    /\ Goto(h, "off")
    /\ UNCHANGED <<locals, file, starting, serving, upsets, disturbed>>

-----------------------------------------------------------------------------
(* The controller processes.                                               *)

\* main binds the port, or ends because another process has it.
Bind ==
    /\ starting > 0
    /\ starting' = starting - 1
    /\ serving' = TRUE
    /\ UNCHANGED <<pc, locals, file, upsets, disturbed>>

\* parse_server_config rejects the arguments, or the start fails in another way.
FailToStart ==
    /\ starting > 0 /\ Upset
    /\ starting' = starting - 1
    /\ UNCHANGED <<pc, locals, file, serving, disturbed>>

\* The controller stops when it is idle, or is killed.
Stop ==
    /\ serving /\ Upset
    /\ serving' = FALSE
    /\ UNCHANGED <<pc, locals, file, starting, disturbed>>

Step(h) ==
    \/ Begin(h) \/ Probe(h) \/ CreateLock(h) \/ JudgeLock(h) \/ RemoveStale(h)
    \/ Recheck(h) \/ Spawn(h) \/ Wait(h)

Next ==
    \/ \E h \in Host :
         \/ Step(h) \/ Expire(h) \/ Age(h)
         \/ FailToLock(h) \/ Cancel(h) \/ Crash(h) \/ Restart(h)
    \/ Bind \/ FailToStart \/ Stop

Spec == Init /\ [][Next]_vars

\* A host goes on, and its renew task calls again and again; time passes for a call and
\* for a file; a process that starts gets to its bind.
Fairness ==
    /\ \A h \in Host : WF_vars(Step(h)) /\ WF_vars(Expire(h)) /\ WF_vars(Age(h))
    /\ WF_vars(Bind)

FairSpec == Spec /\ Fairness

-----------------------------------------------------------------------------
(* Properties.                                                             *)

Processes == starting + IF serving THEN 1 ELSE 0

\* While nothing has disturbed the lock, one host at a time coordinates the start, as
\* the comment on StartupSpawnGuard has it, and the hosts together never have a second
\* controller process: the probe after the lock finds the controller that was started
\* between the probe before it and the lock.
OneController ==
    ~disturbed => Cardinality(guards) <= 1 /\ Processes <= 1

\* Only a crash leaves a lock file behind.  A call that ends any other way does not,
\* even when its file was removed by a host that thought it stale, or by one that gave
\* up a lock it no longer had, and there is another's by now.
NoLockLeft == creator \in guards \cup {Ghost, Nil}

\* The machine does not stay without a controller, whoever crashes with the lock file
\* in hand.
ControllerReturns == []<>(serving \/ \A h \in Host : pc[h] = "crashed")
=============================================================================
