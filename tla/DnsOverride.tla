----------------------------- MODULE DnsOverride -----------------------------
(***************************************************************************)
(* The adapter DNS override of core/dns: DnsCompatibilityController with   *)
(* its on-disk snapshot (DnsStateManager) and the Windows commands it runs *)
(* (WindowsAdapterDnsOps), driven by the two processes that own one: the   *)
(* service (EngineManager: apply before GoodbyeDPI under Kaspersky,        *)
(* restore on stop, boot recovery) and the uninstaller (service_scm.rs).   *)
(*                                                                         *)
(* Abstraction.  Each address family of an adapter holds "dhcp", the       *)
(* user's own "static" list, or the provider's list ("override").  A       *)
(* snapshot is the adapter it names and the configuration found there; the *)
(* other fields of the state file are validated text.  save_state writes a *)
(* temporary file and renames it, so the file changes in one step.  Every  *)
(* other call is a step of its own: the process may die between any two.   *)
(***************************************************************************)
EXTENDS Naturals, FiniteSets

CONSTANTS
  Adapters,     \* physical outbound adapters
  UserConfigs,  \* the configurations users may have on an adapter
  Faults,       \* the calls that may fail in this environment
  MaxCrashes,   \* bound: how often the service process may die
  Uninstall,    \* whether somebody runs the uninstaller
  NoState       \* "no state file" / "no snapshot in hand"

Family == {"dhcp", "static", "override"}
Config == [v4 : Family, v6 : Family]
Snapshot == [adapter : Adapters, cfg : Config]

\* Calls that can fail.  "apply": Set-DnsClientServerAddress fails and has
\* changed nothing; "partial": it fails after it has replaced the servers.
Calls == {"save", "apply", "partial", "load", "restore", "clear"}

ASSUME ConstantsAssumption ==
  /\ UserConfigs \subseteq [v4 : {"dhcp", "static"}, v6 : {"dhcp", "static"}]
  /\ Faults \subseteq Calls
  /\ MaxCrashes \in Nat
  /\ Uninstall \in BOOLEAN
  /\ NoState \notin Snapshot
  /\ NoState \notin Adapters

VARIABLES
  orig,     \* the users' own configuration of each adapter (never changes)
  dns,      \* the configuration each adapter has now
  file,     \* dns_state.json: a snapshot, or NoState when absent
  pc,       \* where each process is in the controller's code
  snap,     \* the snapshot each process holds in a local variable
  applied,  \* ManagerInner::kaspersky_dns_override_applied
  stopReq,  \* the service has been told to stop
  crashes,  \* how often the service process has died
  quiet     \* history: the service was down when the uninstaller read the file

vars == <<orig, dns, file, pc, snap, applied, stopReq, crashes, quiet>>

Process == {"service", "uninstaller"}

TypeOK ==
  /\ orig \in [Adapters -> UserConfigs]
  /\ dns \in [Adapters -> Config]
  /\ file \in Snapshot \cup {NoState}
  /\ pc \in [Process -> {"off", "idle", "found", "saved", "load",
                         "restore4", "restore6", "clear", "done"}]
  /\ snap \in [Process -> Snapshot \cup {NoState}]
  /\ applied \in BOOLEAN
  /\ stopReq \in BOOLEAN
  /\ crashes \in 0..MaxCrashes
  /\ quiet \in BOOLEAN

\* The service is not running yet; nothing was ever overridden.
Init ==
  /\ orig \in [Adapters -> UserConfigs]
  /\ dns = orig
  /\ file = NoState
  /\ pc = [p \in Process |-> "off"]
  /\ snap = [p \in Process |-> NoState]
  /\ applied = FALSE
  /\ stopReq = FALSE
  /\ crashes = 0
  /\ quiet = FALSE

Goto(p, l) == pc' = [pc EXCEPT ![p] = l]
Fails(call) == call \in Faults
-----------------------------------------------------------------------------
(* apply_dns, called by start_engine_internal once any earlier override of *)
(* this service process has been restored.                                 *)

\* find_active_outbound_adapter: the route table decides which adapter it is.
\* (Its failure returns before anything changed.)  A start that overtakes the
\* host's shutdown is EngineManager's.
BeginApply(a) ==
  /\ pc["service"] = "idle" /\ ~applied /\ ~stopReq
  /\ snap' = [snap EXCEPT !["service"] = [adapter |-> a, cfg |-> dns[a]]]
  /\ Goto("service", "found")
  /\ UNCHANGED <<orig, dns, file, applied, stopReq, crashes, quiet>>

\* Mutant: the adapter is changed although the snapshot was not written.
SaveStateIgnored ==
  /\ pc["service"] = "found"
  /\ Goto("service", "saved")
  /\ UNCHANGED <<orig, dns, file, snap, applied, stopReq, crashes, quiet>>

\* The snapshot is persisted before the adapter is touched.
SaveState ==
  /\ pc["service"] = "found"
  /\ \/ file' = snap["service"] /\ Goto("service", "saved")
     \/ Fails("save") /\ Goto("service", "idle") /\ UNCHANGED file
  /\ UNCHANGED <<orig, dns, snap, applied, stopReq, crashes, quiet>>

\* On an error the snapshot file stays and the manager's flag stays false.
ApplyServers ==
  LET a == snap["service"].adapter
      replaced == [dns EXCEPT ![a] = [v4 |-> "override", v6 |-> "override"]]
  IN
  /\ pc["service"] = "saved"
  /\ \/ dns' = replaced /\ applied' = TRUE
     \/ Fails("partial") /\ dns' = replaced /\ UNCHANGED applied
     \/ Fails("apply") /\ UNCHANGED <<dns, applied>>
  /\ Goto("service", "idle")
  /\ UNCHANGED <<orig, file, snap, stopReq, crashes, quiet>>
-----------------------------------------------------------------------------
(* restore_dns and the restoring half of handle_boot_recovery.             *)

\* stop_engine, a restart of the engine, or a failed start after the apply.
BeginRestore ==
  /\ pc["service"] = "idle" /\ applied
  /\ Goto("service", "load")
  /\ UNCHANGED <<orig, dns, file, snap, applied, stopReq, crashes, quiet>>

\* The callers ignore the result: the service clears its flag either way.
Return(p) ==
  IF p = "service"
  THEN Goto(p, "idle") /\ applied' = FALSE
  ELSE Goto(p, "done") /\ UNCHANGED applied

\* Mutant: the file is removed as soon as it has been read.
LoadAndClear(p) ==
  /\ pc[p] = "load"
  /\ \/ /\ file # NoState
        /\ snap' = [snap EXCEPT ![p] = file]
        /\ Goto(p, "restore4")
        /\ UNCHANGED applied
     \/ /\ file = NoState
        /\ Return(p)
        /\ UNCHANGED snap
  /\ file' = NoState
  /\ quiet' = IF p = "uninstaller" THEN pc["service"] = "off" ELSE quiet
  /\ UNCHANGED <<orig, dns, stopReq, crashes>>

LoadState(p) ==
  /\ pc[p] = "load"
  /\ \/ /\ file # NoState
        /\ snap' = [snap EXCEPT ![p] = file]
        /\ Goto(p, "restore4")
        /\ UNCHANGED applied
     \/ /\ file = NoState \/ Fails("load")
        /\ Return(p)
        /\ UNCHANGED snap
  /\ quiet' = IF p = "uninstaller" THEN pc["service"] = "off" ELSE quiet
  /\ UNCHANGED <<orig, dns, file, stopReq, crashes>>

\* Mutant: IPv4 is reset to DHCP whatever the snapshot says.
RestoredV4Dhcp(c, now) == [v4 |-> "dhcp", v6 |-> "dhcp"]

\* -ResetServerAddresses clears both families of the interface; the other
\* branch sets the IPv4 list only.
RestoredV4(c, now) ==
  IF c.v4 = "dhcp" THEN [v4 |-> "dhcp", v6 |-> "dhcp"]
                   ELSE [now EXCEPT !.v4 = c.v4]

\* Mutant: IPv6 is forgotten.
RestoredV6Forgotten(c, now) == now

\* Only a DHCP IPv6 configuration is put back.
RestoredV6(c, now) ==
  IF c.v6 = "dhcp" THEN [now EXCEPT !.v6 = "dhcp"] ELSE now

\* Exit codes of the restoring commands are ignored.
RestoreV4(p) ==
  LET s == snap[p] IN
  /\ pc[p] = "restore4"
  /\ \/ dns' = [dns EXCEPT ![s.adapter] = RestoredV4(s.cfg, @)]
     \/ Fails("restore") /\ UNCHANGED dns
  /\ Goto(p, "restore6")
  /\ UNCHANGED <<orig, file, snap, applied, stopReq, crashes, quiet>>

RestoreV6(p) ==
  LET s == snap[p] IN
  /\ pc[p] = "restore6"
  /\ \/ dns' = [dns EXCEPT ![s.adapter] = RestoredV6(s.cfg, @)]
     \/ Fails("restore") /\ UNCHANGED dns
  /\ Goto(p, "clear")
  /\ UNCHANGED <<orig, file, snap, applied, stopReq, crashes, quiet>>

\* remove_file's error is ignored as well.
ClearState(p) ==
  /\ pc[p] = "clear"
  /\ \/ file' = NoState
     \/ Fails("clear") /\ UNCHANGED file
  /\ Return(p)
  /\ UNCHANGED <<orig, dns, snap, stopReq, crashes, quiet>>
-----------------------------------------------------------------------------
(* Life of the two processes.                                              *)

\* Mutant: no boot recovery.
BootWithoutRecovery ==
  /\ pc["service"] = "off" /\ pc["uninstaller"] = "off"
  /\ Goto("service", "idle")
  /\ applied' = FALSE /\ stopReq' = FALSE
  /\ UNCHANGED <<orig, dns, file, snap, crashes, quiet>>

\* EngineManager::new runs boot recovery without auto-resume.  A deleted
\* service is not started again.
Boot ==
  /\ pc["service"] = "off" /\ pc["uninstaller"] = "off"
  /\ Goto("service", "load")
  /\ applied' = FALSE /\ stopReq' = FALSE
  /\ UNCHANGED <<orig, dns, file, snap, crashes, quiet>>

Crash ==
  /\ pc["service"] # "off" /\ crashes < MaxCrashes
  /\ crashes' = crashes + 1
  /\ Goto("service", "off")
  /\ snap' = [snap EXCEPT !["service"] = NoState]
  /\ applied' = FALSE
  /\ UNCHANGED <<orig, dns, file, stopReq, quiet>>

\* SCM stop: the host stops the engine (BeginRestore) and the process exits.
RequestStop ==
  /\ pc["service"] # "off" /\ ~stopReq
  /\ stopReq' = TRUE
  /\ UNCHANGED <<orig, dns, file, pc, snap, applied, crashes, quiet>>

ExitService ==
  /\ pc["service"] = "idle" /\ stopReq /\ ~applied
  /\ Goto("service", "off")
  /\ snap' = [snap EXCEPT !["service"] = NoState]
  /\ UNCHANGED <<orig, dns, file, applied, stopReq, crashes, quiet>>

\* uninstall_service asks for a stop, waits at most three seconds, deletes
\* the service and then runs restore_dns with a controller of its own.
BeginUninstall ==
  /\ Uninstall /\ pc["uninstaller"] = "off"
  /\ Goto("uninstaller", "load")
  /\ stopReq' = TRUE
  /\ UNCHANGED <<orig, dns, file, snap, applied, crashes, quiet>>

RestoreStep(p) == LoadState(p) \/ RestoreV4(p) \/ RestoreV6(p) \/ ClearState(p)
ServiceStep == SaveState \/ ApplyServers \/ RestoreStep("service")

\* A stopped or uninstalled machine may rest for ever.
Done == pc["uninstaller"] = "done" /\ pc["service"] = "off" /\ UNCHANGED vars

Next ==
  \/ \E a \in Adapters : BeginApply(a)
  \/ SaveState \/ ApplyServers
  \/ BeginRestore
  \/ \E p \in Process : RestoreStep(p)
  \/ Boot \/ Crash \/ RequestStop \/ ExitService
  \/ BeginUninstall
  \/ Done

Spec == Init /\ [][Next]_vars

\* The service is an auto-start service, so it comes up again; its code runs
\* on; after a stop request the host calls stop_engine and exits.
FairSpec ==
  /\ Spec
  /\ WF_vars(ServiceStep) /\ WF_vars(Boot) /\ WF_vars(ExitService)
  /\ WF_vars(stopReq /\ BeginRestore)
-----------------------------------------------------------------------------
AllOriginal == dns = orig

\* The write-ahead promise of apply_dns ("persist crash-safely BEFORE applying
\* changes"): at every moment, each adapter either has its user's configuration
\* or the file on disk names it with exactly that configuration.
Recoverable ==
  \A a \in Adapters :
    dns[a] # orig[a] => file = [adapter |-> a, cfg |-> orig[a]]

\* The snapshot never records an overridden adapter as the original, however
\* often apply_dns is retried or interrupted (lib.rs apply_dns reads the live
\* configuration each time).
SnapshotIsOriginal ==
  file # NoState => file.cfg = orig[file.adapter]

\* Whatever fails and whenever the process dies, an adapter's configuration
\* only ever changes while the state file names that adapter.
TouchesOnlyRecordedAdapter ==
  [][\A a \in Adapters :
       dns'[a] # dns[a] => file # NoState /\ file.adapter = a]_vars

\* Whenever the service is between operations and believes that no override is
\* applied, every adapter has its user's configuration back ("Restores original
\* DNS configuration (DHCP or exact static list)", lib.rs).
RestoredExactly ==
  (pc["service"] = "idle" /\ ~applied) => AllOriginal

\* An uninstaller that runs after the service process is gone cleans up
\* whatever a crashed service left behind.
QuietUninstallRestores ==
  (pc["uninstaller"] = "done" /\ quiet) => AllOriginal

\* A stopped or dead service is followed by the rollback of every adapter:
\* by stop_engine, or by boot recovery at the next start.
RollbackHappens == (stopReq \/ pc["service"] = "off") ~> AllOriginal

\* The controller implements the abstract revertible override.
Promise == INSTANCE RevertibleOverride WITH
  Items <- Adapters,
  NoItem <- NoState,
  overridden <- {a \in Adapters : dns[a] # orig[a]},
  undo <- IF file = NoState THEN NoState ELSE file.adapter

ImplementsPromise == Promise!ASpec

=============================================================================
