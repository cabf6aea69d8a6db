------------------------------- MODULE Mounts -------------------------------
(***************************************************************************)
(* The files-on-demand drive of one mapping: the thread that starts an     *)
(* rclone mount and then watches it, the GTK thread that starts, stops and *)
(* retries, the thread that detaches stale mounts when the program starts, *)
(* the rclone processes and the kernel's mount point.  A process has the   *)
(* number of the thread that starts it.  rclone is taken to end when its   *)
(* mount point is taken away.  Not modelled: the offline cache.            *)
(***************************************************************************)
EXTENDS Naturals, FiniteSets

CONSTANTS
  MaxMounts,   \* bound: mounts that are started
  MaxRetries   \* 3: losses in five minutes after which there is no retry

ASSUME MountsAssumption == MaxMounts \in Nat /\ MaxRetries \in Nat

VARIABLES
  enabled,   \* job.enabled
  active,    \* _active_jobs has the mapping
  mount,     \* _mounts: the number of a process, or 0
  flag,      \* _intentional_unmounts has the mapping
  starter,   \* where each starting thread is
  watched,   \* the process it watches, 0 if none
  process,   \* the rclone processes
  point,     \* whose mount is at the mount point, also of one that has died
  gtk,       \* the process stop_mount is ending, 0 if none, or Free
  stale,     \* recover_stale_mounts: what it has still to do
  lost,      \* mount_lost results GTK has not seen yet
  recent,    \* _mount_failures of the last five minutes
  timers,    \* _retry_mount timers
  orphans,   \* ghost: processes left by an earlier run of the program
  stopped,   \* ghost: processes that were running when stop_mount ended them
  down,      \* ghost: a connected drive was lost, the program has not given it up,
             \* and none was started since
  misled     \* ghost: a thread found another's process in _mounts, or another's
             \* flag

mountVars == <<enabled, active, mount, flag, starter, watched, process, point, gtk,
               stale, lost, recent, timers, orphans, stopped, down, misled>>

Mounters == 1..MaxMounts
Free == MaxMounts + 1
Alive(p) == p # 0 /\ process[p] \in {"starting", "mounted"}

MountsInit ==
  /\ enabled = TRUE /\ active = FALSE /\ mount = 0 /\ flag = FALSE
  /\ starter = [t \in Mounters |-> "unused"]
  /\ watched = [t \in Mounters |-> 0]
  /\ process = [t \in Mounters |-> "none"]
  /\ point = 0 /\ gtk = Free /\ stale = "look"
  /\ lost = 0 /\ recent = 0 /\ timers = 0
  /\ orphans = {} /\ stopped = {} /\ down = FALSE /\ misled = FALSE

controlVars == <<enabled, gtk, lost, recent, timers>>
ghostVars == <<orphans, stopped, down, misled>>

-----------------------------------------------------------------------------
(* The mount point *)

\* fusermount -uz: the entry goes and with it the process that served it.
Detached ==
  /\ point' = 0
  /\ process' = IF Alive(point) THEN [process EXCEPT ![point] = "ended"] ELSE process

\* rclone has mounted, unless something is in the way.
MountAppears(p) ==
  /\ process[p] = "starting" /\ point = 0
  /\ process' = [process EXCEPT ![p] = "mounted"] /\ point' = p
  /\ UNCHANGED <<active, mount, flag, starter, watched, stale, controlVars, ghostVars>>

\* rclone dies by itself; its entry may stay behind.
ProcessDies(p) ==
  /\ Alive(p) /\ process' = [process EXCEPT ![p] = "ended"]
  /\ point' \in (IF point = p THEN {0, p} ELSE {point})
  /\ down' = (down \/ (mount = p /\ process[p] = "mounted"))
  /\ UNCHANGED <<active, mount, flag, starter, watched, stale, controlVars, orphans,
                 stopped, misled>>

-----------------------------------------------------------------------------
(* _start_mount_worker *)

At(t, from, to) == starter[t] = from /\ starter' = [starter EXCEPT ![t] = to]

\* An untracked or dead mount is detached before the folder is touched.
Preflight(t) ==
  /\ At(t, "preflight", "spawn") /\ Detached
  /\ UNCHANGED <<active, mount, flag, watched, stale, controlVars, ghostVars>>

SpawnMount(t) ==
  /\ At(t, "spawn", "wait") /\ process' = [process EXCEPT ![t] = "starting"]
  /\ UNCHANGED <<active, mount, flag, watched, point, stale, controlVars, ghostVars>>

\* The folder is not empty, a tool is missing, or the entry cannot be detached.
CannotMount(t) ==
  /\ starter[t] \in {"preflight", "spawn"}
  /\ starter' = [starter EXCEPT ![t] = "leave"]
  /\ UNCHANGED <<active, mount, flag, watched, process, point, stale, controlVars,
                 ghostVars>>

\* Something is mounted there: the process is recorded.
SeesMount(t) ==
  /\ Alive(t) /\ point # 0 /\ At(t, "wait", "report") /\ mount' = t
  /\ UNCHANGED <<active, flag, watched, process, point, stale, controlVars, ghostVars>>

\* It ends first, or is terminated after 45 seconds.
MountFails(t) ==
  /\ At(t, "wait", "leave")
  /\ process' = [process EXCEPT ![t] = "ended"]
  /\ point' = IF point = t THEN 0 ELSE point
  /\ UNCHANGED <<active, mount, flag, watched, stale, controlVars, ghostVars>>

\* The result is called back before the thread looks whom to watch.
LookWhom(t) ==
  /\ At(t, "report", "leave") /\ watched' = [watched EXCEPT ![t] = mount]
  /\ misled' = (misled \/ mount # t)
  /\ UNCHANGED <<active, mount, flag, process, point, stale, controlVars, orphans,
                 stopped, down>>

Leave(t) ==
  /\ At(t, "leave", IF watched[t] = 0 THEN "done" ELSE "watch") /\ active' = FALSE
  /\ UNCHANGED <<mount, flag, watched, process, point, stale, controlVars, ghostVars>>

\* _watch_mount after the process has ended
WatchThen(t, discards) ==
  LET p == watched[t] IN
    /\ ~Alive(p) /\ At(t, "watch", "done")
    /\ mount' = IF mount = p THEN 0 ELSE mount
    /\ flag' = (flag /\ ~discards)
    /\ IF flag THEN UNCHANGED <<point, process, lost>> ELSE Detached /\ lost' = lost + 1
    /\ misled' = (misled \/ flag # (p \in stopped))
    /\ UNCHANGED <<active, watched, stale, enabled, gtk, recent, timers, orphans,
                   stopped, down>>

\* (Mutant) The flag is looked at and stays.
WatchKeepsFlag(t) == WatchThen(t, FALSE)

Watch(t) == WatchThen(t, TRUE)

-----------------------------------------------------------------------------
(* The GTK thread *)

\* run_async for a streaming mapping; a refusal leaves everything as it is.
Starts(t) ==
  IF active \/ Alive(mount) THEN UNCHANGED <<active, starter, down>>
  ELSE /\ At(t, "unused", "preflight") /\ \A u \in 1..(t - 1) : starter[u] # "unused"
       /\ active' = TRUE /\ down' = FALSE

RunJobMount(t) ==
  /\ gtk = Free /\ Starts(t) /\ enabled' = TRUE
  /\ UNCHANGED <<mount, flag, watched, process, point, gtk, stale, lost, recent,
                 timers, orphans, stopped, misled>>

RetryMount(t) ==
  /\ gtk = Free /\ timers > 0 /\ timers' = timers - 1
  /\ IF enabled THEN Starts(t) ELSE UNCHANGED <<active, starter, down>>
  /\ UNCHANGED <<mount, flag, watched, process, point, gtk, stale, enabled, lost,
                 recent, orphans, stopped, misled>>

\* The transfer policy forbids the retry: no other is made, and the scheduler
\* leaves drives alone.
RetryDeferred ==
  /\ gtk = Free /\ timers > 0 /\ timers' = timers - 1
  /\ enabled /\ down' = FALSE
  /\ UNCHANGED <<active, mount, flag, starter, watched, process, point, gtk, stale,
                 enabled, lost, recent, orphans, stopped, misled>>

\* stop_mount: the record goes first, with the flag when the process runs.
StopMount(toggled) ==
  /\ gtk = Free /\ gtk' = mount /\ mount' = 0
  /\ enabled' = (enabled /\ ~toggled)
  /\ flag' = (flag \/ Alive(mount))
  /\ stopped' = IF Alive(mount) THEN stopped \union {mount} ELSE stopped
  /\ down' = FALSE
  /\ UNCHANGED <<active, starter, watched, process, point, stale, lost, recent, timers,
                 orphans, misled>>

\* terminate, wait, kill; then the mount point, whoever is there by now
StopEndsMount ==
  /\ gtk # Free /\ gtk' = Free /\ point' = 0
  /\ process' = [p \in Mounters |->
                   IF p \in {gtk, point} /\ Alive(p) THEN "ended" ELSE process[p]]
  /\ UNCHANGED <<active, mount, flag, starter, watched, stale, enabled, lost, recent,
                 timers, ghostVars>>

SwitchOn ==
  /\ gtk = Free /\ ~enabled /\ enabled' = TRUE
  /\ UNCHANGED <<active, mount, flag, starter, watched, process, point, gtk, stale,
                 lost, recent, timers, ghostVars>>

\* _apply_job_result: the third identical failure pauses the mapping; after too
\* many losses in five minutes nothing more is tried.
DispatchLost(pauses) ==
  /\ gtk = Free /\ lost > 0 /\ lost' = lost - 1
  /\ enabled' = (enabled /\ ~pauses)
  /\ down' = (down /\ enabled' /\ recent < MaxRetries)
  /\ IF enabled' THEN /\ recent' = IF recent > MaxRetries THEN recent ELSE recent + 1
                      /\ timers' = IF recent < MaxRetries THEN timers + 1 ELSE timers
     ELSE UNCHANGED <<recent, timers>>
  /\ UNCHANGED <<active, mount, flag, starter, watched, process, point, gtk, stale,
                 orphans, stopped, misled>>

FiveMinutesPass ==
  /\ recent > 0 /\ lost = 0 /\ recent' = 0
  /\ UNCHANGED <<active, mount, flag, starter, watched, process, point, gtk, stale,
                 enabled, lost, timers, ghostVars>>

-----------------------------------------------------------------------------
(* recover_stale_mounts, in a thread of its own when the program starts *)

StaleLooks ==
  /\ stale = "look" /\ stale' = IF Alive(mount) THEN "done" ELSE "detach"
  /\ UNCHANGED <<active, mount, flag, starter, watched, process, point, controlVars,
                 ghostVars>>

\* What is mounted by now, also by a thread that started meanwhile.
StaleDetaches ==
  /\ stale = "detach" /\ stale' = "done" /\ Detached
  /\ down' = (down \/ (mount # 0 /\ mount = point /\ Alive(mount)))
  /\ UNCHANGED <<active, mount, flag, starter, watched, controlVars, orphans, stopped,
                 misled>>

\* The program is killed and started again; rclone goes on.
ProgramRestarts ==
  /\ mount' = 0 /\ active' = FALSE /\ flag' = FALSE /\ gtk' = Free /\ stale' = "look"
  /\ starter' = [t \in Mounters |-> IF starter[t] = "unused" THEN "unused" ELSE "done"]
  /\ orphans' = {p \in Mounters : Alive(p)}
  /\ lost' = 0 /\ recent' = 0 /\ timers' = 0 /\ down' = FALSE
  /\ UNCHANGED <<enabled, watched, process, point, stopped, misled>>

MountsNext ==
  \/ \E t \in Mounters :
       \/ MountAppears(t) \/ ProcessDies(t)
       \/ Preflight(t) \/ SpawnMount(t) \/ CannotMount(t) \/ SeesMount(t)
       \/ MountFails(t) \/ LookWhom(t) \/ Leave(t) \/ Watch(t)
       \/ RunJobMount(t) \/ RetryMount(t)
  \/ \E choice \in BOOLEAN : StopMount(choice) \/ DispatchLost(choice)
  \/ RetryDeferred \/ StopEndsMount \/ SwitchOn \/ FiveMinutesPass
  \/ StaleLooks \/ StaleDetaches \/ ProgramRestarts

MountsSpec == MountsInit /\ [][MountsNext]_mountVars

-----------------------------------------------------------------------------
MountsTypeOK ==
  /\ {enabled, active, flag, down, misled} \subseteq BOOLEAN
  /\ mount \in 0..MaxMounts /\ point \in 0..MaxMounts /\ gtk \in 0..Free
  /\ starter \in [Mounters -> {"unused", "preflight", "spawn", "wait", "report",
                               "leave", "watch", "done"}]
  /\ watched \in [Mounters -> 0..MaxMounts]
  /\ process \in [Mounters -> {"none", "starting", "mounted", "ended"}]
  /\ stale \in {"look", "detach", "done"}
  /\ lost \in Nat /\ timers \in Nat /\ recent \in 0..(MaxRetries + 1)
  /\ orphans \subseteq Mounters /\ stopped \subseteq Mounters

\* Threads that will look at what became of their process.
Watchers == {t \in Mounters : \/ starter[t] = "report"
                              \/ starter[t] \in {"leave", "watch"} /\ watched[t] # 0}

\* A process of this program is on record and watched, or about to be, or about
\* to be ended.
ProcessesAreTended ==
  \A p \in Mounters \ orphans : Alive(p) =>
    \/ starter[p] = "wait"
    \/ mount = p /\ p \in Watchers
    \/ gtk = p

\* A note that a mount ends on purpose has a watcher that takes it.
FlagIsAwaited == flag => \E t \in Watchers : watched[t] \in stopped \union {0}

\* A drive that was lost while enabled is reported, or about to be started again.
LossIsAnswered ==
  (down /\ enabled) => Watchers # {} \/ lost > 0 \/ timers > 0

\* As long as no thread met the record or the flag of another's mount, no mount
\* is forgotten: neither one that runs nor one that was lost.  Once one did, a
\* mount may run unwatched or stay lost, and nothing is claimed.
MountsAreTended ==
  ~misled => ProcessesAreTended /\ FlagIsAwaited /\ LossIsAnswered
=============================================================================
