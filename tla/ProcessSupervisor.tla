-------------------------- MODULE ProcessSupervisor --------------------------
(***************************************************************************)
(* The worker supervisor of the service: spawn, graceful_stop and the      *)
(* monitor task each successful spawn starts (process_supervisor.rs), with *)
(* the Windows job object that contains the worker (job_object.rs).        *)
(*                                                                         *)
(* What runs under the async mutex `inner` is one step: nothing in those   *)
(* sections awaits, so the states Starting and Stopping are never seen by  *)
(* another task.  The atomic flag manual_stop is read and written outside  *)
(* the mutex, and each such access is a step of its own.                   *)
(*                                                                         *)
(* A worker process has its own number; the job created for it carries the *)
(* same number.  A restart time stamp is kept as the worker whose crash it *)
(* records (stamps) and the time of that crash (stampAt).                  *)
(***************************************************************************)
EXTENDS Naturals, FiniteSets

CONSTANTS
  MaxRestarts,  \* config.max_restart_attempts
  Window,       \* config.restart_window
  Outcomes,     \* what a spawn attempt may come to in this environment
  MaxSpawns,    \* bound: client calls of spawn (the adapters make one each)
  MaxStops,     \* bound: client calls of graceful_stop
  MaxWorkers,   \* bound: worker processes ever created
  MaxNow        \* bound: no worker exits by itself after this time

\* "missing": the executable is not there; "fails": the job object or the
\* process cannot be created; "ok": the worker runs inside its job; "loose":
\* assign_process failed, which is only logged; "cut": the service process
\* dies after the worker was created and before it was assigned to the job.
AllOutcomes == {"missing", "fails", "ok", "loose", "cut"}

ASSUME ParametersAssumption ==
  /\ MaxRestarts \in Nat
  /\ Window \in Nat \ {0}
  /\ Outcomes \subseteq AllOutcomes
  /\ MaxSpawns \in Nat
  /\ MaxStops \in Nat
  /\ MaxWorkers \in Nat
  /\ MaxNow \in Nat

Workers == 1..MaxWorkers
Monitors == 1..MaxSpawns
None == 0

VARIABLES
  state,      \* Inner::state
  pid,        \* Inner::pid, or None
  job,        \* Inner::job_object: the worker it was made for, or None
  manual,     \* manual_stop
  stamps,     \* Inner::restart_timestamps
  stampAt,    \* when the crash of a worker was recorded
  lastError,  \* Inner::last_error, by kind
  alive,      \* the worker processes that exist
  contained,  \* the workers that were assigned to their job
  workers,    \* number of workers created so far
  mon,        \* the monitor tasks
  spawns,     \* number of monitor tasks started so far
  stopping,   \* a client is between the flag and the mutex of graceful_stop
  stops,      \* number of stops asked for so far
  now,        \* the monotonic clock
  host,       \* the service process is "up" or "down"
  granted,    \* history: the crashes that were answered by a restart
  stopped     \* history: graceful_stop has returned and no spawn followed

inner == <<state, pid, job, stamps, stampAt, lastError>>
procs == <<alive, contained, workers>>
client == <<spawns, stopping, stops>>
history == <<granted, stopped>>
supervisorVars == <<inner, procs, client, history, manual, mon, now, host>>

SupervisorTypeOK ==
  /\ state \in {"Stopped", "Running", "Failed"}
  /\ pid \in Workers \cup {None}
  /\ job \in Workers \cup {None}
  /\ manual \in BOOLEAN
  /\ stamps \subseteq Workers
  /\ stampAt \in [Workers -> Nat]
  /\ lastError \in {"none", "spawn", "restart", "exhausted"}
  /\ alive \subseteq Workers
  /\ contained \subseteq Workers
  /\ workers \in 0..MaxWorkers
  /\ mon \in [Monitors ->
                [pc : {"none", "waiting", "exited", "backoff", "yield",
                       "respawn", "done"},
                 child : Workers \cup {None},
                 manual : BOOLEAN,
                 wake : Nat]]
  /\ spawns \in 0..MaxSpawns
  /\ stopping \in BOOLEAN
  /\ stops \in 0..MaxStops
  /\ now \in Nat
  /\ host \in {"up", "down"}
  /\ granted \subseteq Workers
  /\ stopped \in BOOLEAN

\* ProcessSupervisor::new.
SupervisorInit ==
  /\ state = "Stopped" /\ pid = None /\ job = None
  /\ manual = FALSE
  /\ stamps = {} /\ stampAt = [w \in Workers |-> 0]
  /\ lastError = "none"
  /\ alive = {} /\ contained = {} /\ workers = 0
  /\ mon = [m \in Monitors |->
              [pc |-> "none", child |-> None, manual |-> FALSE, wake |-> 0]]
  /\ spawns = 0 /\ stopping = FALSE /\ stops = 0
  /\ now = 0 /\ host = "up"
  /\ granted = {} /\ stopped = FALSE

\* Mutant: the job is created without the kill-on-close limit.
NoJobMembers(j) == {}

\* The processes a job's closing or termination kills.
JobMembers(j) == {j} \cap contained
-----------------------------------------------------------------------------
(* spawn_internal: a fresh job, the process, its assignment to the job, and *)
(* the job's move into the slot, which drops the job that was there.        *)

Launches(o) == o \in {"ok", "loose"}
NewWorker == workers + 1

Launched(o) ==
  /\ o \in Outcomes /\ Launches(o) /\ workers < MaxWorkers
  /\ workers' = NewWorker
  /\ contained' = IF o = "ok" THEN contained \cup {NewWorker} ELSE contained
  /\ alive' = (alive \ JobMembers(job)) \cup {NewWorker}
  /\ job' = NewWorker /\ pid' = NewWorker
  /\ state' = "Running"
  /\ UNCHANGED host

NotLaunched(o) ==
  /\ o \in Outcomes /\ o \in {"missing", "fails"}
  /\ state' = "Failed"
  /\ UNCHANGED <<pid, job, procs, host>>

\* The service process dies in the middle: its job handles are closed.
CutOff(o) ==
  /\ o \in Outcomes /\ o = "cut" /\ workers < MaxWorkers
  /\ workers' = NewWorker
  /\ alive' = (alive \ JobMembers(job)) \cup {NewWorker}
  /\ host' = "down"
  /\ UNCHANGED <<state, pid, job, contained>>

\* spawn: refused while running; otherwise it re-arms the restart logic.
SpawnAccepted ==
  /\ host = "up" /\ ~stopping /\ spawns < MaxSpawns
  /\ ~(state = "Running" /\ pid # None)
  /\ manual' = FALSE
  /\ stopped' = FALSE
  /\ UNCHANGED <<stamps, stampAt, stopping, stops, now, granted>>

SpawnSucceeds(o) ==
  /\ SpawnAccepted /\ Launched(o)
  /\ spawns' = spawns + 1
  /\ mon' = [mon EXCEPT ![spawns + 1] =
               [pc |-> "waiting", child |-> NewWorker,
                manual |-> FALSE, wake |-> 0]]
  /\ lastError' = "none"

SpawnFails(o) ==
  /\ SpawnAccepted /\ NotLaunched(o)
  /\ lastError' = "spawn"
  /\ UNCHANGED <<spawns, mon>>

SpawnCut(o) ==
  /\ SpawnAccepted /\ CutOff(o)
  /\ UNCHANGED <<spawns, mon, lastError>>

Spawn(o) == SpawnSucceeds(o) \/ SpawnFails(o) \/ SpawnCut(o)
-----------------------------------------------------------------------------
(* monitor_loop.                                                           *)

At(m, l) == host = "up" /\ mon[m].pc = l
MonGoto(m, l) == mon' = [mon EXCEPT ![m].pc = l]

\* child.wait() returns; manual_stop is read before the mutex is taken.
MonitorExit(m) ==
  /\ At(m, "waiting") /\ mon[m].child \notin alive
  /\ mon' = [mon EXCEPT ![m].pc = "exited", ![m].manual = manual]
  /\ UNCHANGED <<inner, procs, client, history, manual, now, host>>

\* An exit that was asked for: the job slot is cleared too.
MonitorStopped(m) ==
  /\ At(m, "exited") /\ mon[m].manual
  /\ state' = "Stopped" /\ pid' = None /\ job' = None
  /\ alive' = alive \ JobMembers(job)
  /\ MonGoto(m, "done")
  /\ UNCHANGED <<stamps, stampAt, lastError, contained, workers, client,
                 history, manual, now, host>>

Backoff(attempts) ==
  CASE attempts = 1 -> 1 [] attempts = 2 -> 2 [] OTHER -> 5

\* Mutant: retain keeps the stamps that have left the window.
ExpiredStamps(w) ==
  {x \in stamps : now - stampAt[x] >= Window} \cup {w}

\* The stamps that count at this moment: those of the rolling window and the
\* crash of worker w itself.
CurrentStamps(w) ==
  {x \in stamps : now - stampAt[x] < Window} \cup {w}

\* Mutant: the limit is reported but the loop goes on.
MonitorKeepsLooping(m) ==
  LET w == mon[m].child
      recent == CurrentStamps(w)
  IN
  /\ At(m, "exited") /\ ~mon[m].manual
  /\ state' = "Failed" /\ pid' = None
  /\ stamps' = recent
  /\ stampAt' = [stampAt EXCEPT ![w] = now]
  /\ lastError' = IF Cardinality(recent) > MaxRestarts THEN "exhausted"
                                                      ELSE lastError
  /\ mon' = [mon EXCEPT ![m].pc = "backoff",
                        ![m].wake = now + Backoff(Cardinality(recent))]
  /\ UNCHANGED <<job, procs, client, history, manual, now, host>>

\* Mutant: the pid of the dead worker stays recorded.
MonitorKeepsPid(m) ==
  LET w == mon[m].child
      recent == CurrentStamps(w)
  IN
  /\ At(m, "exited") /\ ~mon[m].manual
  /\ state' = "Failed"
  /\ stamps' = recent
  /\ stampAt' = [stampAt EXCEPT ![w] = now]
  /\ granted' = granted \cup {w}
  /\ mon' = [mon EXCEPT ![m].pc = "backoff",
                        ![m].wake = now + Backoff(Cardinality(recent))]
  /\ UNCHANGED <<job, pid, lastError, procs, client, stopped, manual, now, host>>

\* A crash: give up, or sleep and restart.
MonitorCrashed(m) ==
  LET w == mon[m].child
      recent == CurrentStamps(w)
  IN
  /\ At(m, "exited") /\ ~mon[m].manual
  /\ state' = "Failed" /\ pid' = None
  /\ stamps' = recent
  /\ stampAt' = [stampAt EXCEPT ![w] = now]
  /\ IF Cardinality(recent) > MaxRestarts
     THEN /\ lastError' = "exhausted"
          /\ MonGoto(m, "done")
          /\ UNCHANGED granted
     ELSE /\ granted' = granted \cup {w}
          /\ mon' = [mon EXCEPT ![m].pc = "backoff",
                                ![m].wake = now + Backoff(Cardinality(recent))]
          /\ UNCHANGED lastError
  /\ UNCHANGED <<job, procs, client, stopped, manual, now, host>>

\* Mutant: a monitor that notices the stop leaves without recording it.
MonitorWakeLeaves(m) ==
  /\ At(m, "backoff") /\ now >= mon[m].wake
  /\ MonGoto(m, IF manual THEN "done" ELSE "respawn")
  /\ UNCHANGED <<inner, procs, client, history, manual, now, host>>

\* The sleep is over; manual_stop is read, again without the mutex.
MonitorWake(m) ==
  /\ At(m, "backoff") /\ now >= mon[m].wake
  /\ MonGoto(m, IF manual THEN "yield" ELSE "respawn")
  /\ UNCHANGED <<inner, procs, client, history, manual, now, host>>

MonitorYield(m) ==
  /\ At(m, "yield")
  /\ state' = "Stopped"
  /\ MonGoto(m, "done")
  /\ UNCHANGED <<pid, job, stamps, stampAt, lastError, procs, client, history,
                 manual, now, host>>

\* The executable's existence is not looked at again: only its spawn fails.
RespawnSucceeds(m, o) ==
  /\ At(m, "respawn") /\ Launched(o)
  /\ mon' = [mon EXCEPT ![m].pc = "waiting", ![m].child = NewWorker]
  /\ UNCHANGED <<stamps, stampAt, lastError, client, history, manual, now>>

RespawnFails(m, o) ==
  /\ At(m, "respawn") /\ o # "missing" /\ NotLaunched(o)
  /\ lastError' = "restart"
  /\ MonGoto(m, "done")
  /\ UNCHANGED <<stamps, stampAt, client, history, manual, now>>

RespawnCut(m, o) ==
  /\ At(m, "respawn") /\ CutOff(o)
  /\ UNCHANGED <<mon, stamps, stampAt, lastError, client, history, manual, now>>

MonitorRespawn(m, o) ==
  RespawnSucceeds(m, o) \/ RespawnFails(m, o) \/ RespawnCut(m, o)
-----------------------------------------------------------------------------
(* graceful_stop: the flag, then the mutex.                                *)

StopFlag ==
  /\ host = "up" /\ ~stopping /\ stops < MaxStops
  /\ manual' = TRUE
  /\ stopping' = TRUE /\ stops' = stops + 1
  /\ UNCHANGED <<inner, procs, spawns, history, mon, now, host>>

\* Mutant: only the job is terminated.
StopLockedJobOnly ==
  /\ host = "up" /\ stopping
  /\ stopping' = FALSE /\ stopped' = TRUE
  /\ alive' = alive \ JobMembers(job)
  /\ state' = "Stopped" /\ pid' = None /\ job' = None
  /\ UNCHANGED <<stamps, stampAt, lastError, contained, workers, spawns,
                 stops, granted, manual, mon, now, host>>

\* Terminates the job and then the tracked process; both calls are taken to
\* succeed on a child of the service.
StopLocked ==
  /\ host = "up" /\ stopping
  /\ stopping' = FALSE /\ stopped' = TRUE
  /\ IF state = "Stopped"
     THEN UNCHANGED <<state, pid, job, alive>>
     ELSE /\ alive' = alive \ (JobMembers(job) \cup {pid})
          /\ state' = "Stopped" /\ pid' = None /\ job' = None
  /\ UNCHANGED <<stamps, stampAt, lastError, contained, workers, spawns,
                 stops, granted, manual, mon, now, host>>
-----------------------------------------------------------------------------
(* The environment.                                                        *)

\* A worker exits by itself.
WorkerExit(w) ==
  /\ w \in alive /\ now < MaxNow
  /\ alive' = alive \ {w}
  /\ UNCHANGED <<inner, contained, workers, client, history, manual, mon,
                 now, host>>

\* The service process dies; Windows closes its job handle.
HostDeath ==
  /\ host = "up"
  /\ host' = "down"
  /\ alive' = alive \ JobMembers(job)
  /\ UNCHANGED <<inner, contained, workers, client, history, manual, mon, now>>

\* Time passes; after MaxNow only as far as a sleeping monitor needs it.
Tick ==
  /\ host = "up"
  /\ \/ now < MaxNow
     \/ \E m \in Monitors : mon[m].pc = "backoff" /\ now < mon[m].wake
  /\ now' = now + 1
  /\ UNCHANGED <<inner, procs, client, history, manual, mon, host>>

MonitorStep(m) ==
  \/ MonitorExit(m) \/ MonitorStopped(m) \/ MonitorCrashed(m)
  \/ MonitorWake(m) \/ MonitorYield(m)
  \/ \E o \in AllOutcomes : MonitorRespawn(m, o)

SupervisorNext ==
  \/ \E o \in AllOutcomes : Spawn(o)
  \/ \E m \in Monitors : MonitorStep(m)
  \/ StopFlag \/ StopLocked
  \/ \E w \in Workers : WorkerExit(w)
  \/ HostDeath \/ Tick

SupervisorSpec == SupervisorInit /\ [][SupervisorNext]_supervisorVars

\* Tasks the runtime can run do run, and time passes.
FairSupervisorSpec ==
  /\ SupervisorSpec
  /\ \A m \in Monitors : WF_supervisorVars(MonitorStep(m))
  /\ WF_supervisorVars(StopLocked) /\ WF_supervisorVars(Tick)
-----------------------------------------------------------------------------
\* "Maximum `3` restarts within a rolling `60-second` window" (docs/SERVICE.md):
\* of the crashes in the window that ends at any crash, at most MaxRestarts are
\* answered by a restart, although old time stamps are thrown away as it goes.
RestartBudget ==
  \A x \in granted :
    Cardinality({w \in granted : /\ stampAt[w] <= stampAt[x]
                                 /\ stampAt[x] - stampAt[w] < Window})
      <= MaxRestarts

\* A supervisor that spawns once never loses sight of a process: while the
\* service lives, the only worker that can be running is the one whose pid
\* graceful_stop would terminate, whether or not the job contains it.
AliveIsTracked == host = "up" => alive \subseteq {pid}

\* graceful_stop opens the recorded pid by number.  A monitor still holds a
\* handle of that process, so Windows cannot have given its pid to another one.
PidIsPinned ==
  pid # None =>
    \E m \in Monitors :
      mon[m].child = pid /\ mon[m].pc \in {"waiting", "exited"}

\* "an error is recorded without further looping" (docs/SERVICE.md): once the
\* restart limit is exhausted, no worker is started any more.
ExhaustedIsFinal == [][lastError = "exhausted" => alive' \subseteq alive]_supervisorVars

\* The state Failed is not left behind silently: the monitor restarts the
\* worker, notices the stop, or an error says why it gave up.
FailedIsExplained ==
  state = "Failed" ~> state # "Failed" \/ lastError # "none" \/ host = "down"

\* "guarantee zero orphaned worker processes" (docs/SERVICE.md): no worker
\* outlives the service process.
NoOrphans == host = "down" => alive = {}

\* "If a manual stop or switch is requested, restart logic is suppressed."
\* (docs/SERVICE.md): after graceful_stop has returned no worker runs until the
\* next spawn.
StopHolds == stopped => alive = {}

=============================================================================
