---------------------------- MODULE EngineManager ----------------------------
(***************************************************************************)
(* EngineManager (engine_mgr/mod.rs) with the adapters it drives and the   *)
(* host that shuts it down.  Clients' requests wait for mutation_lock in   *)
(* FIFO order, which is tokio's promise for its mutex.  A start is several *)
(* steps, because workers can die, the security product can come and go    *)
(* and the process can exit between them; a stop is one.                   *)
(*                                                                         *)
(* The components below are abstracted to what their own modules show: a   *)
(* supervisor is its state (ProcessSupervisor), the adapter DNS override   *)
(* is in force or not (DnsOverride).  Whether a stop of a supervisor holds *)
(* (StopHolds of ProcessSupervisor) is the fault "race" here: a monitor    *)
(* that has passed its check restarts the worker after the stop.           *)
(***************************************************************************)
EXTENDS Naturals, Sequences

CONSTANTS
  Profiles,       \* profile identifiers that can be asked for
  Target,         \* Target[p]: the engine named by profile p's target_engine
  TurkeyDefault,  \* the profile forced on GoodbyeDPI beside Kaspersky
  Requests,       \* the requests clients may send
  EngineFaults,   \* what may go wrong, a subset of AllFaults
  Weak,           \* the engines whose spawn and health check may fail
  MaxRequests,    \* bound: requests sent
  MaxFlips,       \* bound: changes of the detected security environment
  MaxDeaths       \* bound: worker crashes

AllFaults == {"profile", "dns", "spawn", "health", "race"}
Engines == {"goodbye", "byedpi"}
NoEngine == "none"
NoProfile == "none"
StopRequest == [op |-> "stop"]
Shutdown == [op |-> "shutdown"]
AutoRequests == [op : {"auto"}, profile : Profiles]
StartRequests == [op : {"start", "switch"}, engine : Engines \cup {"native"},
                  profile : Profiles]
AllRequests == AutoRequests \cup StartRequests \cup {StopRequest, Shutdown}

ASSUME ManagerAssumption ==
  /\ TurkeyDefault \in Profiles /\ NoProfile \notin Profiles
  /\ Target \in [Profiles -> Engines] /\ Target[TurkeyDefault] = "goodbye"
  /\ Requests \subseteq AllRequests \ {Shutdown}
  /\ EngineFaults \subseteq AllFaults
  /\ Weak \subseteq Engines
  /\ MaxRequests \in Nat /\ MaxFlips \in Nat /\ MaxDeaths \in Nat

VARIABLES
  queue,                \* requests waiting for mutation_lock
  cur,                  \* the request that holds it, and how far it has got
  active,               \* ManagerInner::active_engine
  mode,                 \* ManagerInner::active_mode
  profile,              \* ManagerInner::active_profile
  overrideApplied,      \* ManagerInner::kaspersky_dns_override_applied
  sup,                  \* state of each engine's supervisor
  kaspersky,            \* what security_detector.detect() would find now
  process,              \* "up", "leaving" (stop_engine has returned) or "exited"
  sent, flips, deaths,  \* the bounded counters
  answer                \* history: the request answered last, and how

manager == <<active, mode, profile, overrideApplied>>
counters == <<sent, flips, deaths>>
managerVars == <<queue, cur, manager, sup, kaspersky, process, counters, answer>>

Free == [req |-> [op |-> "none"], pc |-> "free"]

\* A supervisor is "stopped", "running", "backoff" (Failed, its monitor will
\* restart the worker), "dead" (Failed, nobody will) or "late" (Stopped, but
\* its monitor will restart the worker all the same).
SupStates == {"stopped", "running", "backoff", "dead", "late"}

ManagerInit ==
  /\ queue = <<>> /\ cur = Free
  /\ active = NoEngine /\ mode = "Idle" /\ profile = NoProfile
  /\ overrideApplied = FALSE
  /\ sup = [e \in Engines |-> "stopped"]
  /\ kaspersky \in BOOLEAN
  /\ process = "up"
  /\ sent = 0 /\ flips = 0 /\ deaths = 0
  /\ answer = [req |-> [op |-> "none"], ok |-> TRUE, before |-> NoEngine]

MayFail(f) == f \in EngineFaults
EngineFails(f, e) == MayFail(f) /\ e \in Weak
Live == process # "exited"

\* What the adapter's stop makes of a supervisor in state s.
Stopped(s) == IF MayFail("race") /\ s \in {"backoff", "late"}
              THEN {"stopped", "late"} ELSE {"stopped"}
\* What stopping both adapters can leave behind.
BothStopped == {f \in [Engines -> SupStates] :
                  \A e \in Engines : f[e] \in Stopped(sup[e])}

\* inner is held from the preparation of a start to its end.
InnerFree == cur.pc \in {"free", "begin", "resolve"}
-----------------------------------------------------------------------------
(* Requests and their order.                                               *)

Submit(r) ==
  /\ Live /\ sent < MaxRequests
  /\ sent' = sent + 1
  /\ queue' = Append(queue, r)
  /\ UNCHANGED <<cur, manager, sup, kaspersky, process, flips, deaths, answer>>

\* SCM stop or Ctrl+C.  Connected clients may go on sending requests.
BeginShutdown ==
  /\ process = "up" /\ Shutdown # cur.req
  /\ \A i \in 1..Len(queue) : queue[i] # Shutdown
  /\ queue' = Append(queue, Shutdown)
  /\ UNCHANGED <<cur, manager, sup, kaspersky, process, counters, answer>>

\* Auto mode always prefers GoodbyeDPI: evaluate_recommendation feeds the
\* policy with two engines it takes to be healthy.
Preferred == "goodbye"
Fallback == "byedpi"

Acquire ==
  LET r == Head(queue) IN
  /\ Live /\ cur = Free /\ queue # <<>>
  /\ queue' = Tail(queue)
  /\ cur' = [req |-> r, pc |-> "begin", profile |-> NoProfile,
             engine |-> IF r.op \in {"start", "switch"} THEN r.engine
                                                        ELSE Preferred,
             kaspersky |-> FALSE, second |-> FALSE, before |-> active]
  /\ UNCHANGED <<manager, sup, kaspersky, process, counters, answer>>

Respond(ok) ==
  /\ cur' = Free
  /\ answer' = [req |-> cur.req, ok |-> ok, before |-> cur.before]

\* stop_engine stops both adapters whatever is active.
StopEngine ==
  /\ Live /\ cur.pc = "begin" /\ cur.req \in {StopRequest, Shutdown}
  /\ sup' \in BothStopped
  /\ overrideApplied' = FALSE
  /\ active' = NoEngine /\ profile' = NoProfile /\ mode' = "Idle"
  /\ process' = IF cur.req = Shutdown THEN "leaving" ELSE process
  /\ Respond(TRUE)
  /\ UNCHANGED <<queue, kaspersky, counters>>
-----------------------------------------------------------------------------
(* start_engine_internal, once for start and switch, up to twice for auto. *)

IsStart == cur.req.op \in {"start", "switch", "auto"}

\* Mutant: the second attempt is not remembered as such.
FailForever ==
  \/ /\ cur.req.op = "auto"
     /\ cur' = [cur EXCEPT !.pc = "begin", !.engine = Fallback]
     /\ UNCHANGED <<mode, answer>>
  \/ /\ cur.req.op \in {"start", "switch"}
     /\ Respond(FALSE)
     /\ UNCHANGED mode

\* Mutant: start_auto swallows the error of its second attempt.
FailQuietly ==
  \/ /\ cur.req.op = "auto" /\ ~cur.second
     /\ cur' = [cur EXCEPT !.pc = "begin", !.second = TRUE, !.engine = Fallback]
     /\ UNCHANGED <<mode, answer>>
  \/ /\ cur.req.op = "auto" /\ cur.second
     /\ mode' = "Idle"
     /\ Respond(TRUE)
  \/ /\ cur.req.op \in {"start", "switch"}
     /\ Respond(FALSE)
     /\ UNCHANGED mode

\* An error ends the request, except that start_auto goes on to the fallback
\* engine, with the same profile.
Fail ==
  \/ /\ cur.req.op = "auto" /\ ~cur.second
     /\ cur' = [cur EXCEPT !.pc = "begin", !.second = TRUE, !.engine = Fallback]
     /\ UNCHANGED <<mode, answer>>
  \/ /\ cur.req.op = "auto" /\ cur.second
     /\ mode' = "Idle"
     /\ Respond(FALSE)
  \/ /\ cur.req.op \in {"start", "switch"}
     /\ Respond(FALSE)
     /\ UNCHANGED mode

\* First look at the security environment.
Detect ==
  /\ Live /\ cur.pc = "begin" /\ IsStart
  /\ cur' = [cur EXCEPT !.pc = "resolve", !.kaspersky = kaspersky]
  /\ UNCHANGED <<queue, manager, sup, kaspersky, process, counters, answer>>

\* resolve_effective_profile looks again; then the profile is loaded.
Resolve ==
  LET p == IF kaspersky /\ cur.engine = "goodbye" THEN TurkeyDefault
                                                  ELSE cur.req.profile
  IN
  /\ Live /\ cur.pc = "resolve"
  /\ \/ cur' = [cur EXCEPT !.pc = "prepare", !.profile = p]
        /\ UNCHANGED <<mode, answer>>
     \/ MayFail("profile") /\ Fail
  /\ UNCHANGED <<queue, active, profile, overrideApplied, sup, kaspersky, process, counters>>

\* Mutant: the engine that runs is not stopped.
PrepareKeepsOld ==
  LET wants == cur.engine = "goodbye" /\ cur.kaspersky IN
  /\ Live /\ cur.pc = "prepare"
  /\ active' = NoEngine
  /\ cur' = [cur EXCEPT !.pc = "spawn"]
  /\ overrideApplied' = (wants \/ overrideApplied)
  /\ UNCHANGED <<queue, profile, mode, sup, kaspersky, process, counters, answer>>

\* The running engine is stopped first, then the DNS override is applied.
Prepare ==
  LET wants == cur.engine = "goodbye" /\ cur.kaspersky
      kept == IF active = NoEngine THEN overrideApplied ELSE FALSE
  IN
  /\ Live /\ cur.pc = "prepare"
  /\ sup' \in IF active = NoEngine THEN {sup} ELSE BothStopped
  /\ active' = NoEngine
  /\ \/ /\ cur' = [cur EXCEPT !.pc = "spawn"]
        /\ overrideApplied' = (wants \/ kept)
        /\ UNCHANGED <<mode, answer>>
     \/ /\ wants /\ MayFail("dns")
        /\ overrideApplied' = kept
        /\ Fail
  /\ UNCHANGED <<queue, profile, kaspersky, process, counters>>

\* Mutant: a failed start leaves the override in force.
NeverReleased == overrideApplied

\* Only the GoodbyeDPI branch takes the override back.
Released == IF cur.engine = "goodbye" THEN FALSE ELSE overrideApplied

\* Mutant: the profile's target engine is not compared.
SpawnAnyProfile ==
  LET e == cur.engine IN
  /\ Live /\ cur.pc = "spawn"
  /\ \/ /\ e \in Engines
        /\ sup' = [sup EXCEPT ![e] = "running"]
        /\ cur' = [cur EXCEPT !.pc = "health"]
        /\ UNCHANGED <<overrideApplied, mode, answer>>
     \/ /\ e \notin Engines
        /\ overrideApplied' = Released
        /\ Fail
        /\ UNCHANGED sup
  /\ UNCHANGED <<queue, active, profile, kaspersky, process, counters>>

\* The adapter's start: native is refused, a profile of the other engine is
\* refused before the supervisor is replaced, and a spawn may fail.
SpawnWorker ==
  LET e == cur.engine
      suits == e \in Engines /\ Target[cur.profile] = e
  IN
  /\ Live /\ cur.pc = "spawn"
  /\ \/ /\ suits
        /\ sup' = [sup EXCEPT ![e] = "running"]
        /\ cur' = [cur EXCEPT !.pc = "health"]
        /\ UNCHANGED <<overrideApplied, mode, answer>>
     \/ /\ suits /\ EngineFails("spawn", e)
        /\ sup' \in {sup, [sup EXCEPT ![e] = "dead"]}
        /\ overrideApplied' = Released
        /\ Fail
     \/ /\ ~suits
        /\ overrideApplied' = Released
        /\ Fail
        /\ UNCHANGED sup
  /\ UNCHANGED <<queue, active, profile, kaspersky, process, counters>>

\* Mutant: an unhealthy worker is reported but not stopped.
CheckHealthNoStop ==
  LET e == cur.engine IN
  /\ Live /\ cur.pc = "health"
  /\ \/ /\ sup[e] = "running"
        /\ active' = e /\ profile' = cur.profile
        /\ mode' = IF cur.req.op = "auto" THEN "Auto" ELSE "Manual"
        /\ Respond(TRUE)
        /\ UNCHANGED overrideApplied
     \/ /\ sup[e] # "running" \/ EngineFails("health", e)
        /\ overrideApplied' = Released
        /\ Fail
        /\ UNCHANGED <<active, profile>>
  /\ UNCHANGED <<queue, sup, kaspersky, process, counters>>

\* 300 ms later: commit, or stop the worker again.
CheckHealth ==
  LET e == cur.engine IN
  /\ Live /\ cur.pc = "health"
  /\ \/ /\ sup[e] = "running"
        /\ active' = e /\ profile' = cur.profile
        /\ mode' = IF cur.req.op = "auto" THEN "Auto" ELSE "Manual"
        /\ Respond(TRUE)
        /\ UNCHANGED <<sup, overrideApplied>>
     \/ /\ sup[e] # "running" \/ EngineFails("health", e)
        /\ sup' \in {[sup EXCEPT ![e] = s] : s \in Stopped(sup[e])}
        /\ overrideApplied' = Released
        /\ Fail
        /\ UNCHANGED <<active, profile>>
  /\ UNCHANGED <<queue, kaspersky, process, counters>>
-----------------------------------------------------------------------------
(* The environment.                                                        *)

\* A supervised worker crashes; its monitor will restart it or has given up.
WorkerDies(e) ==
  /\ Live /\ sup[e] = "running" /\ deaths < MaxDeaths
  /\ deaths' = deaths + 1
  /\ sup' \in {[sup EXCEPT ![e] = s] : s \in {"backoff", "dead"}}
  /\ UNCHANGED <<queue, cur, manager, kaspersky, process, sent, flips, answer>>

WorkerRestarts(e) ==
  /\ Live /\ sup[e] \in {"backoff", "late"}
  /\ sup' \in {[sup EXCEPT ![e] = s] : s \in {"running", "dead"}}
  /\ UNCHANGED <<queue, cur, manager, kaspersky, process, counters, answer>>

\* A product is installed or removed, or its detection fails once.
FlipDetection ==
  /\ Live /\ flips < MaxFlips
  /\ flips' = flips + 1
  /\ kaspersky' = ~kaspersky
  /\ UNCHANGED <<queue, cur, manager, sup, process, sent, deaths, answer>>

\* The host returns: tasks end where they are, job handles are closed.
Exit ==
  /\ process = "leaving"
  /\ process' = "exited"
  /\ cur' = Free /\ queue' = <<>>
  /\ sup' = [e \in Engines |-> "stopped"]
  /\ UNCHANGED <<manager, kaspersky, counters, answer>>

Step == Acquire \/ StopEngine \/ Detect \/ Resolve \/ Prepare \/ SpawnWorker
        \/ CheckHealth

ManagerNext ==
  \/ \E r \in Requests : Submit(r)
  \/ BeginShutdown \/ Step
  \/ \E e \in Engines : WorkerDies(e) \/ WorkerRestarts(e)
  \/ FlipDetection \/ Exit

ManagerSpec == ManagerInit /\ [][ManagerNext]_managerVars

\* The runtime runs the tasks that can run, and the host returns.
FairManagerSpec == ManagerSpec /\ WF_managerVars(Step) /\ WF_managerVars(Exit)
-----------------------------------------------------------------------------
HasWorker(e) == sup[e] \in {"running", "backoff", "late"}

\* The packet filter and the proxy are never supervised side by side, whatever
\* the order of starts, switches, fallbacks, crashes and stops, as long as a
\* supervisor's stop holds.
OneEngine == ~ \A e \in Engines : HasWorker(e)

\* Whenever a status query can get in, the adapter DNS override is in force
\* only beside an active GoodbyeDPI: every failed start and every switch to
\* ByeDPI has taken it back.
OverrideOnlyWithGoodbye == (Live /\ InnerFree /\ overrideApplied) => active = "goodbye"

\* Whenever a status query can get in and reports no engine, no worker runs
\* and none is about to be restarted.
IdleMeansNoWorker ==
  (InnerFree /\ active = NoEngine) => \A e \in Engines : ~HasWorker(e)

\* The profile that is reported beside an active engine is one made for it.
CommittedProfileFits == active # NoEngine => Target[profile] = active

\* Every request gets its answer: nobody waits for ever on mutation_lock.
RequestsAnswered ==
  (queue # <<>> \/ cur # Free) ~> (queue = <<>> /\ cur = Free)

\* What the last answer said is still so when nobody holds mutation_lock: after
\* a success the engine asked for is the active one (any, for auto), after a
\* failed start no engine or the one that was active before, whatever crashed,
\* was restarted or was detected in between (start_engine, start_auto,
\* stop_engine).
AnswersHold ==
  (cur = Free /\ Live) =>
    LET r == answer.req IN
    CASE ~answer.ok -> active \in {NoEngine, answer.before}
      [] answer.ok /\ r.op \in {"start", "switch"} -> active = r.engine
      [] answer.ok /\ r.op = "auto" -> active \in Engines
      [] OTHER -> active = NoEngine

=============================================================================
