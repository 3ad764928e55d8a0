---------------------------- MODULE ServiceProofs ----------------------------
(***************************************************************************)
(* What the parts of the service promise for every value of their          *)
(* constants: the DNS override of the adapters (DnsOverride), the          *)
(* supervisor of a worker (ProcessSupervisor) and the manager of the       *)
(* engines (EngineManager).  The three are independent of each other.      *)
(***************************************************************************)
EXTENDS DnsOverride, EngineManager, ProcessSupervisor, Integers, TLAPS

-----------------------------------------------------------------------------
(***************************************************************************)
(* Proofs about DnsOverride, for any adapters, user configurations and     *)
(* number of crashes.                                                      *)
(***************************************************************************)

\* The configurations users may have are configurations.
LEMMA UserConfigsAreConfigs == UserConfigs \subseteq Config
<1>1. [v4 : {"dhcp", "static"}, v6 : {"dhcp", "static"}] \subseteq Config
  BY DEF Config, Family
<1> QED BY <1>1, ConstantsAssumption

\* The two restoring commands leave an adapter with a configuration.
LEMMA RestoredTypes ==
  ASSUME NEW c \in Config, NEW n \in Config
  PROVE RestoredV4(c, n) \in Config /\ RestoredV6(c, n) \in Config
BY DEF RestoredV4, RestoredV6, Config, Family

\* A process that is past the point where it took a snapshot has one.
SnapshotInHand ==
  \A p \in Process :
    pc[p] \in {"found", "saved", "restore4", "restore6", "clear"}
      => snap[p] \in Snapshot

\* The type invariant is inductive once the local snapshot is accounted for.
Typed == TypeOK /\ SnapshotInHand

\* Fresh states are well typed.
LEMMA InitTyped == Init => Typed
<1> SUFFICES ASSUME Init PROVE Typed
  OBVIOUS
<1>1. dns \in [Adapters -> Config]
  BY UserConfigsAreConfigs DEF Init
<1>2. crashes \in 0..MaxCrashes
  BY ConstantsAssumption DEF Init
<1>3. TypeOK
  BY <1>1, <1>2 DEF Init, TypeOK, Process
<1> QED BY <1>3 DEF Init, Typed, SnapshotInHand, Process

\* Every step of the controller, whatever fails, keeps states well typed.
LEMMA NextTyped == Typed /\ [Next]_vars => Typed'
<1> SUFFICES ASSUME Typed, [Next]_vars PROVE Typed'
  OBVIOUS
<1> USE DEF Typed, TypeOK, SnapshotInHand, Goto, Return, Process
<1>1. ASSUME NEW a \in Adapters, BeginApply(a) PROVE Typed'
  <2>1. [adapter |-> a, cfg |-> dns[a]] \in Snapshot
    BY DEF Snapshot
  <2> QED BY <1>1, <2>1 DEF BeginApply
<1>2. CASE SaveState
  BY <1>2 DEF SaveState
<1>3. CASE ApplyServers
  <2>1. [v4 |-> "override", v6 |-> "override"] \in Config
    BY DEF Config, Family
  <2>2. dns' \in [Adapters -> Config] /\ applied' \in BOOLEAN
    BY <1>3, <2>1, Zenon DEF ApplyServers
  <2> QED BY <1>3, <2>2 DEF ApplyServers
<1>4. CASE BeginRestore
  BY <1>4 DEF BeginRestore
<1>5. ASSUME NEW p \in Process, LoadState(p) PROVE Typed'
  BY <1>5 DEF LoadState
<1>6. ASSUME NEW p \in Process, RestoreV4(p) PROVE Typed'
  <2>1. snap[p].adapter \in Adapters /\ snap[p].cfg \in Config
    BY <1>6 DEF RestoreV4, Snapshot
  <2>2. dns' \in [Adapters -> Config]
    BY <1>6, <2>1, RestoredTypes DEF RestoreV4
  <2> QED BY <1>6, <2>2 DEF RestoreV4
<1>7. ASSUME NEW p \in Process, RestoreV6(p) PROVE Typed'
  <2>1. snap[p].adapter \in Adapters /\ snap[p].cfg \in Config
    BY <1>7 DEF RestoreV6, Snapshot
  <2>2. dns' \in [Adapters -> Config]
    BY <1>7, <2>1, RestoredTypes DEF RestoreV6
  <2> QED BY <1>7, <2>2 DEF RestoreV6
<1>8. ASSUME NEW p \in Process, ClearState(p) PROVE Typed'
  BY <1>8, Zenon DEF ClearState
<1>9. CASE Boot
  BY <1>9, Zenon DEF Boot
<1>10. CASE Crash
  <2>1. crashes' \in 0..MaxCrashes
    BY <1>10, ConstantsAssumption DEF Crash
  <2> QED BY <1>10, <2>1, Zenon DEF Crash
<1>11. CASE RequestStop
  BY <1>11 DEF RequestStop
<1>12. CASE ExitService
  BY <1>12 DEF ExitService
<1>13. CASE BeginUninstall
  BY <1>13 DEF BeginUninstall
<1>14. CASE Done \/ UNCHANGED vars
  BY <1>14 DEF Done, vars
<1> QED
  BY <1>1, <1>2, <1>3, <1>4, <1>5, <1>6, <1>7, <1>8, <1>9, <1>10, <1>11,
     <1>12, <1>13, <1>14, Zenon DEF Next, RestoreStep

\* Every reachable state of the controller, whatever fails and with or without
\* an uninstaller, has the types the code declares.
THEOREM TypeCorrect == Spec => []TypeOK
<1>1. Typed => TypeOK
  BY DEF Typed
<1> QED BY InitTyped, NextTyped, <1>1, PTL DEF Spec
-----------------------------------------------------------------------------
(* Without an uninstaller the service is the only process that touches the  *)
(* file.  Nothing is assumed here about what may fail.                      *)

\* The file holds the snapshot the service is working with.
FileIsSnapshot ==
  pc["service"] \in {"saved", "restore4", "restore6", "clear"}
    => file = snap["service"]

Alone == Typed /\ pc["uninstaller"] = "off" /\ FileIsSnapshot

\* The uninstaller stays away, and the file is replaced only by the step that
\* writes it and removed only by the step that ends a restore.
LEMMA AloneInductive ==
  ASSUME ~Uninstall
  PROVE (Init => Alone) /\ (Alone /\ [Next]_vars => Alone')
<1>1. Init => Alone
  BY InitTyped DEF Init, Alone, FileIsSnapshot, Process
<1>2. ASSUME Alone, [Next]_vars PROVE Alone'
  <2>1. Typed'
    BY <1>2, NextTyped DEF Alone
  <2> USE <1>2 DEF Alone, FileIsSnapshot, Typed, TypeOK, Goto, Return, Process
  <2>2. ASSUME NEW a \in Adapters, BeginApply(a) PROVE Alone'
    BY <2>1, <2>2 DEF BeginApply
  <2>3. CASE SaveState
    BY <2>1, <2>3 DEF SaveState
  <2>4. CASE ApplyServers \/ BeginRestore
    BY <2>1, <2>4 DEF ApplyServers, BeginRestore
  <2>5. ASSUME NEW p \in Process, RestoreStep(p) PROVE Alone'
    BY <2>1, <2>5, Zenon DEF RestoreStep, LoadState, RestoreV4, RestoreV6, ClearState
  <2>6. CASE Boot \/ Crash \/ RequestStop \/ ExitService
    BY <2>1, <2>6 DEF Boot, Crash, RequestStop, ExitService
  <2>7. CASE BeginUninstall
    BY <2>7 DEF BeginUninstall
  <2>8. CASE Done \/ UNCHANGED vars
    BY <2>1, <2>8 DEF Done, vars
  <2> QED
    BY <1>2, <2>2, <2>3, <2>4, <2>5, <2>6, <2>7, <2>8, Zenon DEF Next
<1> QED BY <1>1, <1>2

\* Whatever calls fail and whenever the service dies, an adapter is changed
\* only while the state file names it: the write-ahead order of apply_dns and
\* the clear-last order of restore_dns together.
THEOREM TouchesOnlyRecorded ==
  ASSUME ~Uninstall PROVE Spec => TouchesOnlyRecordedAdapter
<1> DEFINE Recorded == \A a \in Adapters :
                         dns'[a] # dns[a] => file # NoState /\ file.adapter = a
<1>1. ASSUME Alone, [Next]_vars PROVE [Recorded]_vars
  <2> USE <1>1 DEF Alone, FileIsSnapshot, Typed, TypeOK, SnapshotInHand, Process
  <2>1. CASE ApplyServers
    <3>1. snap["service"] \in Snapshot /\ file = snap["service"]
      BY <2>1 DEF ApplyServers
    <3>2. file # NoState
      BY <3>1, ConstantsAssumption
    <3>3. \A a \in Adapters : dns'[a] # dns[a] => file.adapter = a
      BY <2>1, <3>1 DEF ApplyServers
    <3> QED BY <3>2, <3>3
  <2>2. ASSUME NEW p \in Process, RestoreV4(p) PROVE Recorded
    <3>1. p = "service" /\ snap[p] \in Snapshot /\ file = snap[p]
      BY <2>2 DEF RestoreV4
    <3>2. file # NoState
      BY <3>1, ConstantsAssumption
    <3>3. \A a \in Adapters : dns'[a] # dns[a] => file.adapter = a
      BY <2>2, <3>1 DEF RestoreV4
    <3> QED BY <3>2, <3>3
  <2>3. ASSUME NEW p \in Process, RestoreV6(p) PROVE Recorded
    <3>1. p = "service" /\ snap[p] \in Snapshot /\ file = snap[p]
      BY <2>3 DEF RestoreV6
    <3>2. file # NoState
      BY <3>1, ConstantsAssumption
    <3>3. \A a \in Adapters : dns'[a] # dns[a] => file.adapter = a
      BY <2>3, <3>1 DEF RestoreV6
    <3> QED BY <3>2, <3>3
  <2>4. CASE UNCHANGED dns
    BY <2>4
  <2> QED
    BY <2>1, <2>2, <2>3, <2>4, Zenon
    DEF Next, RestoreStep, BeginApply, SaveState, BeginRestore, LoadState,
        ClearState, Boot, Crash, RequestStop, ExitService, BeginUninstall,
        Done, vars
<1> QED
  BY <1>1, AloneInductive, PTL DEF Spec, TouchesOnlyRecordedAdapter
-----------------------------------------------------------------------------
(* The environment in which the promise is kept: no command fails after     *)
(* having changed something, the state file can be read back, and no user   *)
(* has configured IPv6 resolvers by hand.                                   *)

Harmless ==
  /\ Faults \cap {"partial", "load", "restore"} = {}
  /\ \A c \in UserConfigs : c.v6 = "dhcp"

SafeEnvironment == ~Uninstall /\ Harmless

\* What holds while p is the only process that acts.  Recoverable alone is not
\* inductive: a snapshot must be of the user's configuration when it is taken,
\* and the adapter must be back to it when the file goes.
Undisturbed(p) ==
  LET s == snap[p] IN
  /\ SnapshotIsOriginal /\ Recoverable
  /\ pc[p] \in {"saved", "restore4", "restore6", "clear"} => file = s
  /\ pc[p] = "found" => s.cfg = orig[s.adapter] /\ AllOriginal
  /\ pc[p] = "saved" => AllOriginal
  /\ pc[p] = "restore6" => dns[s.adapter].v4 = s.cfg.v4
  /\ pc[p] \in {"clear", "done"} => AllOriginal
  /\ p = "service" => RestoredExactly

\* Two configurations with the same families are the same.
LEMMA ConfigEquality ==
  ASSUME NEW c \in Config, NEW d \in Config, c.v4 = d.v4, c.v6 = d.v6
  PROVE c = d
BY DEF Config

\* A snapshot of a user's configuration is not "no file".
LEMMA RealSnapshot ==
  ASSUME Typed, NEW a \in Adapters
  PROVE [adapter |-> a, cfg |-> orig[a]] # NoState
<1>1. [adapter |-> a, cfg |-> orig[a]] \in Snapshot
  BY UserConfigsAreConfigs DEF Typed, TypeOK, Snapshot
<1> QED BY <1>1, ConstantsAssumption

\* If the file names no overridden adapter other than a, and a has its user's
\* configuration, then every adapter has.
LEMMA RecoveredAll ==
  ASSUME Typed, Recoverable, NEW a \in Adapters,
         file = [adapter |-> a, cfg |-> orig[a]] \/ file = NoState,
         NEW d \in [Adapters -> Config],
         \A b \in Adapters \ {a} : d[b] = dns[b],
         d[a] = orig[a]
  PROVE d = orig
<1>1. \A b \in Adapters \ {a} : dns[b] = orig[b]
  BY RealSnapshot DEF Recoverable
<1> QED BY <1>1 DEF Typed, TypeOK

\* A restore that nobody disturbs puts back what the file records.
LEMMA RestoreKeeps ==
  ASSUME Harmless, Typed, Typed', NEW p \in Process, Undisturbed(p), RestoreStep(p)
  PROVE Undisturbed(p)'
<1> DEFINE s == snap[p]
<1>b. ~Fails("load") /\ ~Fails("restore")
  BY DEF Harmless, Fails
<1>c. \A a \in Adapters : orig[a] \in Config /\ orig[a].v6 = "dhcp"
  BY UserConfigsAreConfigs DEF Harmless, Typed, TypeOK
<1>d. pc[p] \in {"restore4", "restore6"} =>
        /\ s \in Snapshot /\ file = s /\ s.cfg = orig[s.adapter] /\ s.adapter \in Adapters
        /\ s = [adapter |-> s.adapter, cfg |-> orig[s.adapter]]
  BY ConstantsAssumption, Zenon
  DEF Undisturbed, SnapshotIsOriginal, Typed, SnapshotInHand, Snapshot
<1> USE DEF Undisturbed, SnapshotIsOriginal, Recoverable, RestoredExactly, AllOriginal,
            Goto, Return, Process
<1>1. CASE LoadState(p)
  <2>1. file = NoState => dns = orig
    BY RealSnapshot DEF Typed, TypeOK
  <2> QED BY <1>b, <1>1, <2>1, Zenon DEF LoadState, Typed, TypeOK
<1>2. CASE RestoreV4(p)
  <2>1. /\ s \in Snapshot /\ file = s /\ s.cfg = orig[s.adapter] /\ s.adapter \in Adapters
        /\ s = [adapter |-> s.adapter, cfg |-> orig[s.adapter]]
    BY <1>d, <1>2, Zenon DEF RestoreV4
  <2>2. dns' = [dns EXCEPT ![s.adapter] = RestoredV4(s.cfg, dns[s.adapter])]
    BY <1>b, <1>2, Zenon DEF RestoreV4
  <2>3. \A b \in Adapters : b # s.adapter => dns'[b] = dns[b]
    BY <2>2, Zenon DEF Typed, TypeOK
  <2>4. Recoverable'
    BY <1>2, <2>1, <2>3, Zenon DEF RestoreV4
  <2>5. dns'[s.adapter].v4 = s.cfg.v4
    BY <2>1, <2>2 DEF RestoredV4, Typed, TypeOK, Config
  <2> QED BY <1>2, <2>4, <2>5, Zenon DEF RestoreV4, Typed, TypeOK
<1>3. CASE RestoreV6(p)
  <2>1. /\ s \in Snapshot /\ file = s /\ s.cfg = orig[s.adapter] /\ s.adapter \in Adapters
        /\ s = [adapter |-> s.adapter, cfg |-> orig[s.adapter]]
        /\ dns[s.adapter].v4 = s.cfg.v4
    BY <1>d, <1>3, Zenon DEF RestoreV6
  <2>2. dns' = [dns EXCEPT ![s.adapter] = RestoredV6(s.cfg, dns[s.adapter])]
    BY <1>b, <1>3, Zenon DEF RestoreV6
  <2>3. RestoredV6(s.cfg, dns[s.adapter]) = orig[s.adapter]
    <3>1. s.cfg.v6 = "dhcp" /\ orig[s.adapter] \in Config
      BY <1>c, <2>1, Zenon
    <3>2. dns[s.adapter] \in Config
      BY <2>1, Zenon DEF Typed, TypeOK
    <3>3. [dns[s.adapter] EXCEPT !.v6 = "dhcp"] \in Config
      BY <3>2 DEF Config, Family
    <3>4. /\ [dns[s.adapter] EXCEPT !.v6 = "dhcp"].v4 = dns[s.adapter].v4
          /\ [dns[s.adapter] EXCEPT !.v6 = "dhcp"].v6 = "dhcp"
      BY <3>2 DEF Config
    <3>5. [dns[s.adapter] EXCEPT !.v6 = "dhcp"] = orig[s.adapter]
      BY <1>c, <2>1, <3>1, <3>3, <3>4, ConfigEquality
    <3> QED BY <3>1, <3>5 DEF RestoredV6
  <2>4. /\ dns' \in [Adapters -> Config]
        /\ dns'[s.adapter] = orig[s.adapter]
        /\ \A b \in Adapters \ {s.adapter} : dns'[b] = dns[b]
    BY <2>1, <2>2, <2>3, Zenon DEF Typed, TypeOK
  <2>5. dns' = orig
    BY <2>1, <2>4, RecoveredAll, Zenon
  <2> QED BY <1>3, <2>5, Zenon DEF RestoreV6, Typed, TypeOK
<1>4. CASE ClearState(p)
  BY <1>4, Zenon DEF ClearState, Typed, TypeOK
<1> QED BY <1>1, <1>2, <1>3, <1>4, Zenon DEF RestoreStep

\* The steps of the service that are not part of a restore.
OtherServiceStep ==
  \/ \E a \in Adapters : BeginApply(a)
  \/ SaveState \/ ApplyServers \/ BeginRestore
  \/ Boot \/ Crash \/ RequestStop \/ ExitService

\* A service that nobody disturbs keeps every override undoable.
LEMMA ServiceKeeps ==
  ASSUME Harmless, Typed, Typed', Undisturbed("service"), OtherServiceStep
  PROVE Undisturbed("service")'
<1> DEFINE s == snap["service"]
<1>b. ~Fails("partial")
  BY DEF Harmless, Fails
<1> USE DEF Undisturbed, SnapshotIsOriginal, Recoverable, RestoredExactly, AllOriginal,
            Goto, Process
<1>1. ASSUME NEW a \in Adapters, BeginApply(a) PROVE Undisturbed("service")'
  BY <1>1, Zenon DEF BeginApply, Typed, TypeOK
<1>2. CASE SaveState
  BY <1>2, Zenon DEF SaveState, Typed, TypeOK, SnapshotInHand, Snapshot
<1>3. CASE ApplyServers
  <2>1. s \in Snapshot /\ file = s /\ s.cfg = orig[s.adapter] /\ dns = orig
    BY <1>3, ConstantsAssumption, Zenon DEF ApplyServers, Typed, SnapshotInHand
  <2>2. s = [adapter |-> s.adapter, cfg |-> orig[s.adapter]] /\ s.adapter \in Adapters
    BY <2>1, Zenon DEF Snapshot
  <2>3. \A b \in Adapters : b # s.adapter => dns'[b] = orig[b]
    BY <1>3, <2>1, <2>2, Zenon DEF ApplyServers, Typed, TypeOK
  <2>4. Recoverable'
    BY <1>3, <2>1, <2>2, <2>3, Zenon DEF ApplyServers
  <2> QED BY <1>3, <1>b, <2>1, <2>4, Zenon DEF ApplyServers, Typed, TypeOK
<1>4. CASE BeginRestore \/ Boot \/ Crash \/ RequestStop \/ ExitService
  BY <1>4, Zenon DEF BeginRestore, Boot, Crash, RequestStop, ExitService, Typed, TypeOK
<1> QED BY <1>1, <1>2, <1>3, <1>4, Zenon DEF OtherServiceStep

\* The inductive invariant without an uninstaller.
Safe == Alone /\ Undisturbed("service")

\* The first state is safe.
LEMMA InitSafe == SafeEnvironment => (Init => Safe)
BY AloneInductive
DEF SafeEnvironment, Init, Safe, SnapshotIsOriginal, Recoverable,
    RestoredExactly, AllOriginal, Undisturbed, Process

\* Every step keeps states safe.
LEMMA NextSafe ==
  ASSUME SafeEnvironment, Safe, [Next]_vars PROVE Safe'
<1>1. Alone'
  BY AloneInductive DEF Safe, SafeEnvironment
<1>2. Typed /\ Typed' /\ Harmless /\ Undisturbed("service")
  BY <1>1 DEF Safe, Alone, SafeEnvironment
<1>3. CASE OtherServiceStep
  BY <1>1, <1>2, <1>3, ServiceKeeps DEF Safe
<1>4. ASSUME NEW p \in Process, RestoreStep(p) PROVE Safe'
  <2>1. p = "service"
    BY <1>4, Zenon DEF RestoreStep, LoadState, RestoreV4, RestoreV6, ClearState, Safe, Alone, Process
  <2> QED BY <1>1, <1>2, <1>4, <2>1, RestoreKeeps DEF Safe
<1>5. CASE BeginUninstall
  BY <1>5 DEF BeginUninstall, SafeEnvironment
<1>6. CASE Done \/ UNCHANGED vars
  BY <1>1, <1>2, <1>6, Zenon
  DEF Done, vars, Safe, Undisturbed, SnapshotIsOriginal, Recoverable, RestoredExactly, AllOriginal
<1> QED BY <1>3, <1>4, <1>5, <1>6, Zenon DEF Next, OtherServiceStep

\* In a safe environment, at every moment and after any number of crashes, each
\* adapter has its user's configuration or the file on disk can bring it back.
THEOREM WriteAhead == SafeEnvironment => (Spec => []Recoverable)
<1> SUFFICES ASSUME SafeEnvironment PROVE Spec => []Recoverable
  OBVIOUS
<1>1. Safe /\ [Next]_vars => Safe'
  BY NextSafe
<1>2. Safe => Recoverable
  BY DEF Safe, Undisturbed, Process
<1> QED BY InitSafe, <1>1, <1>2, PTL DEF Spec

\* In a safe environment, a service that believes no override is applied is
\* right: every adapter has exactly its user's configuration.
THEOREM RestoreIsExact == SafeEnvironment => (Spec => []RestoredExactly)
<1> SUFFICES ASSUME SafeEnvironment PROVE Spec => []RestoredExactly
  OBVIOUS
<1>1. Safe /\ [Next]_vars => Safe'
  BY NextSafe
<1>2. Safe => RestoredExactly
  BY DEF Safe, Undisturbed, Process
<1> QED BY InitSafe, <1>1, <1>2, PTL DEF Spec
-----------------------------------------------------------------------------
(* The controller implements RevertibleOverride.                            *)

\* In a safe environment the controller, with its crashes, retries and partial
\* failures, behaves like the abstract override: record, override, revert,
\* discard, in an order that never leaves an item without its undo record.
THEOREM KeepsPromise == SafeEnvironment => (Spec => ImplementsPromise)
<1> SUFFICES ASSUME SafeEnvironment PROVE Spec => ImplementsPromise
  OBVIOUS
<1>1. Init => Promise!AInit
  BY DEF Init, Promise!AInit
<1>2. ASSUME Safe, [Next]_vars PROVE [Promise!ANext]_(Promise!avars)
  <2>1. Safe'
    BY <1>2, NextSafe
  <2>2. Typed /\ Typed' /\ Alone /\ orig' = orig
    BY <1>2, <2>1, Zenon
    DEF Safe, Alone, Next, RestoreStep, BeginApply, SaveState, ApplyServers,
        BeginRestore, LoadState, RestoreV4, RestoreV6, ClearState, Boot, Crash,
        RequestStop, ExitService, BeginUninstall, Done, vars
  <2>3. ASSUME UNCHANGED <<dns, file>> PROVE UNCHANGED Promise!avars
    BY <2>2, <2>3 DEF Promise!avars
  <2>4. CASE SaveState /\ file' # file
    <3>1. /\ file' = snap["service"] /\ snap["service"] \in Snapshot
          /\ dns = orig /\ dns' = dns
      BY <1>2, <2>2, <2>4
      DEF SaveState, Safe, Undisturbed, AllOriginal, Typed, SnapshotInHand, Process
    <3>2. file' # NoState /\ file'.adapter \in Adapters
      BY <3>1, ConstantsAssumption, Zenon DEF Snapshot
    <3>3. Promise!Record(file'.adapter)
      BY <2>2, <3>1, <3>2 DEF Promise!Record
    <3> QED BY <3>2, <3>3, Zenon DEF Promise!ANext
  <2>5. CASE ApplyServers /\ dns' # dns
    <3> DEFINE a == snap["service"].adapter
    <3>1. snap["service"] \in Snapshot /\ file = snap["service"] /\ dns = orig
      BY <1>2, <2>2, <2>5, Zenon
      DEF ApplyServers, Safe, Alone, FileIsSnapshot, Undisturbed, AllOriginal,
          Typed, SnapshotInHand, Process
    <3>2. file # NoState /\ a \in Adapters /\ file.adapter = a /\ file' = file
      BY <2>5, <3>1, ConstantsAssumption, Zenon DEF Snapshot, ApplyServers
    <3>3. dns' = [dns EXCEPT ![a] = [v4 |-> "override", v6 |-> "override"]]
      BY <2>5 DEF ApplyServers
    <3>4. \A b \in Adapters : b # a => dns'[b] = orig'[b]
      BY <2>2, <3>1, <3>2, <3>3 DEF Typed, TypeOK
    <3>5. dns'[a] # orig'[a]
      BY <2>2, <2>5, <3>1, <3>3, <3>4, Zenon DEF Typed, TypeOK
    <3>6. {b \in Adapters : dns'[b] # orig'[b]} = {a}
      BY <3>2, <3>4, <3>5
    <3>7. \E i \in Adapters : Promise!Override(i)
      BY <3>2, <3>6 DEF Promise!Override
    <3> QED BY <3>7 DEF Promise!ANext
  <2>6. ASSUME NEW p \in Process, RestoreV4(p) \/ RestoreV6(p), dns' # dns
        PROVE Promise!Revert \/ UNCHANGED Promise!avars
    <3> DEFINE a == snap["service"].adapter
    <3>1. /\ p = "service" /\ snap["service"] \in Snapshot
          /\ file = snap["service"] /\ file' = file
      BY <1>2, <2>2, <2>6, Zenon
      DEF RestoreV4, RestoreV6, Safe, Alone, FileIsSnapshot, Typed,
          SnapshotInHand, Process
    <3>2. /\ file # NoState /\ a \in Adapters /\ file.adapter = a
      BY <3>1, ConstantsAssumption DEF Snapshot
    <3>3. /\ \A b \in Adapters : dns[b] # orig[b] => b = a
          /\ \A b \in Adapters : dns'[b] # orig'[b] => b = a
      <4>1. Recoverable /\ Recoverable'
        BY <1>2, <2>1, Zenon DEF Safe, Undisturbed
      <4>2. \A b \in Adapters : dns[b] # orig[b] => file.adapter = b
        BY <4>1 DEF Recoverable
      <4>3. \A b \in Adapters : dns'[b] # orig'[b] => file'.adapter = b
        BY <4>1 DEF Recoverable
      <4> QED BY <3>1, <3>2, <4>2, <4>3, Zenon
    <3>4. CASE dns'[a] = orig'[a]
      <4>1. {b \in Adapters : dns'[b] # orig'[b]} = {}
        BY <3>3, <3>4
      <4> QED BY <3>1, <4>1, Zenon DEF Promise!Revert
    <3>5. CASE dns'[a] # orig'[a]
      <4>1. dns[a] # orig[a]
        <5> SUFFICES ASSUME dns[a] = orig[a] PROVE FALSE
          OBVIOUS
        <5>1. snap["service"].cfg = orig[a] /\ orig[a] \in Config
          BY <1>2, <2>2, <3>1, <3>2, UserConfigsAreConfigs, Zenon
          DEF Safe, Undisturbed, SnapshotIsOriginal, Typed, TypeOK
        <5>2. orig[a].v6 = "dhcp"
          BY <2>2, <3>2, Zenon DEF SafeEnvironment, Harmless, Typed, TypeOK
        <5>3. /\ RestoredV4(orig[a], orig[a]) = orig[a]
              /\ RestoredV6(orig[a], orig[a]) = orig[a]
          <6>1. RestoredV4(orig[a], orig[a]) \in Config
            BY <5>1, RestoredTypes, Zenon
          <6>2. RestoredV6(orig[a], orig[a]) \in Config
            BY <5>1, RestoredTypes
          <6>3. /\ RestoredV4(orig[a], orig[a]).v4 = orig[a].v4
                /\ RestoredV4(orig[a], orig[a]).v6 = orig[a].v6
            BY <5>1, <5>2, Zenon DEF RestoredV4, Config
          <6>4. /\ RestoredV6(orig[a], orig[a]).v4 = orig[a].v4
                /\ RestoredV6(orig[a], orig[a]).v6 = orig[a].v6
            BY <5>1, <5>2 DEF RestoredV6, Config
          <6> QED BY <5>1, <6>1, <6>2, <6>3, <6>4, ConfigEquality, Zenon
        <5>4. dns'[a] = orig[a]
          BY <2>2, <2>6, <3>1, <3>2, <5>1, <5>3
          DEF RestoreV4, RestoreV6, Typed, TypeOK
        <5> QED BY <2>2, <3>5, <5>4
      <4>2. /\ {b \in Adapters : dns[b] # orig[b]} = {a}
            /\ {b \in Adapters : dns'[b] # orig'[b]} = {a}
        BY <3>2, <3>3, <3>5, <4>1, Zenon
      <4> QED BY <3>1, <4>2 DEF Promise!avars
    <3> QED BY <3>4, <3>5
  <2>7. ASSUME NEW p \in Process, ClearState(p), file' # file
        PROVE Promise!Discard
    <3>1. file' = NoState /\ dns = orig /\ dns' = dns
      BY <1>2, <2>2, <2>7, Zenon
      DEF ClearState, Safe, Alone, Undisturbed, AllOriginal, Process
    <3> QED BY <2>2, <3>1 DEF Promise!Discard
  <2>8. \/ UNCHANGED <<dns, file>>
        \/ SaveState /\ file' # file
        \/ ApplyServers /\ dns' # dns
        \/ \E p \in Process : (RestoreV4(p) \/ RestoreV6(p)) /\ dns' # dns
        \/ \E p \in Process : ClearState(p) /\ file' # file
    BY <1>2, Zenon
    DEF Next, RestoreStep, BeginApply, SaveState, ApplyServers, BeginRestore,
        LoadState, RestoreV4, RestoreV6, ClearState, Boot, Crash, RequestStop,
        ExitService, BeginUninstall, Done, vars
  <2> QED
    BY <2>3, <2>4, <2>5, <2>6, <2>7, <2>8 DEF Promise!ANext
<1>3. Safe /\ [Next]_vars => Safe'
  BY NextSafe
<1> QED
  BY InitSafe, <1>1, <1>2, <1>3, PTL DEF Spec, ImplementsPromise, Promise!ASpec
-----------------------------------------------------------------------------
(* With an uninstaller, which may start while the service still runs.       *)

\* A process that works with a snapshot works with a user's configuration.
SnapshotsOriginal ==
  \A p \in Process :
    pc[p] \in {"found", "saved", "restore4", "restore6", "clear"}
      => snap[p].cfg = orig[snap[p].adapter]

\* The service is undisturbed until the uninstaller has read the file; an
\* uninstaller that found it down is undisturbed from then on.
Guarded ==
  /\ Typed /\ SnapshotIsOriginal /\ SnapshotsOriginal
  /\ pc["uninstaller"] \in {"off", "load"} => Undisturbed("service")
  /\ pc["uninstaller"] # "off" => stopReq
  /\ pc["uninstaller"] \notin {"off", "load"} /\ quiet
       => pc["service"] = "off" /\ Undisturbed("uninstaller")

\* The first state is guarded.
LEMMA InitGuarded == Init => Guarded
BY InitTyped, Zenon
DEF Init, Guarded, SnapshotIsOriginal, SnapshotsOriginal, Undisturbed, Recoverable,
    RestoredExactly, AllOriginal, Process

\* What the file and the processes hold stays of the users, whoever acts.
LEMMA SnapshotsStay ==
  ASSUME Guarded, Next PROVE SnapshotIsOriginal' /\ SnapshotsOriginal'
<1> USE DEF SnapshotIsOriginal, SnapshotsOriginal, Goto, Return, Process
<1>t. Typed /\ SnapshotIsOriginal /\ SnapshotsOriginal
  BY Zenon DEF Guarded
<1>1. ASSUME NEW a \in Adapters, BeginApply(a) PROVE SnapshotIsOriginal' /\ SnapshotsOriginal'
  <2>1. dns = orig
    BY <1>1, Zenon DEF BeginApply, Guarded, Undisturbed, RestoredExactly, AllOriginal
  <2> QED BY <1>t, <1>1, <2>1, Zenon DEF BeginApply, Typed, TypeOK
<1>2. CASE SaveState
  BY <1>t, <1>2, Zenon DEF SaveState, Typed, TypeOK
<1>3. CASE ApplyServers \/ BeginRestore
  BY <1>t, <1>3, Zenon DEF ApplyServers, BeginRestore, Typed, TypeOK
<1>4. ASSUME NEW p \in Process, RestoreStep(p) PROVE SnapshotIsOriginal' /\ SnapshotsOriginal'
  BY <1>t, <1>4 DEF RestoreStep, LoadState, RestoreV4, RestoreV6, ClearState, Typed, TypeOK
<1>5. CASE Boot \/ Crash \/ RequestStop \/ ExitService \/ BeginUninstall \/ Done
  BY <1>t, <1>5 DEF Boot, Crash, RequestStop, ExitService, BeginUninstall, Done, vars, Typed, TypeOK
<1> QED BY <1>1, <1>2, <1>3, <1>4, <1>5, Zenon DEF Next

\* Every step of either process keeps states guarded.
LEMMA NextGuarded == ASSUME Harmless, Guarded, [Next]_vars PROVE Guarded'
<1>t. Typed /\ Typed'
  BY NextTyped DEF Guarded
<1>o. ASSUME OtherServiceStep PROVE Guarded'
  <2>1. SnapshotIsOriginal' /\ SnapshotsOriginal'
    BY <1>o, SnapshotsStay DEF Next, OtherServiceStep
  <2>2. pc'["uninstaller"] = pc["uninstaller"] /\ quiet' = quiet
        /\ (pc["uninstaller"] # "off" /\ stopReq => stopReq')
    BY <1>t, <1>o, Zenon
    DEF OtherServiceStep, BeginApply, SaveState, ApplyServers, BeginRestore, Boot, Crash,
        RequestStop, ExitService, Goto, Typed, TypeOK, Process
  <2>3. pc["uninstaller"] \in {"off", "load"} => Undisturbed("service")'
    BY <1>t, <1>o, ServiceKeeps, Zenon DEF Guarded
  <2>4. pc["service"] = "off" => pc["uninstaller"] = "off"
    BY <1>o, Zenon
    DEF OtherServiceStep, BeginApply, SaveState, ApplyServers, BeginRestore, Boot, Crash,
        RequestStop, ExitService
  <2> QED BY <1>t, <2>1, <2>2, <2>3, <2>4 DEF Guarded
<1>s. ASSUME RestoreStep("service") PROVE Guarded'
  <2>1. SnapshotIsOriginal' /\ SnapshotsOriginal'
    BY <1>s, SnapshotsStay DEF Next, Process
  <2>2. /\ pc'["uninstaller"] = pc["uninstaller"] /\ quiet' = quiet /\ stopReq' = stopReq
        /\ pc["service"] # "off"
    BY <1>t, <1>s, Zenon
    DEF RestoreStep, LoadState, RestoreV4, RestoreV6, ClearState, Goto, Return, Typed,
        TypeOK, Process
  <2>3. pc["uninstaller"] \in {"off", "load"} => Undisturbed("service")'
    BY <1>t, <1>s, RestoreKeeps DEF Guarded, Process
  <2> QED BY <1>t, <2>1, <2>2, <2>3, Zenon DEF Guarded
<1>u. ASSUME RestoreStep("uninstaller") PROVE Guarded'
  <2>1. SnapshotIsOriginal' /\ SnapshotsOriginal'
    BY <1>u, SnapshotsStay DEF Next, Process
  <2>2. /\ pc'["uninstaller"] \notin {"off", "load"} /\ pc["uninstaller"] # "off"
        /\ pc'["service"] = pc["service"] /\ stopReq' = stopReq
        /\ pc["uninstaller"] = "load" => quiet' = (pc["service"] = "off")
        /\ pc["uninstaller"] # "load" => quiet' = quiet
    BY <1>t, <1>u, Zenon
    DEF RestoreStep, LoadState, RestoreV4, RestoreV6, ClearState, Goto, Return, Typed,
        TypeOK, Process
  <2>3. quiet' => pc["service"] = "off" /\ Undisturbed("uninstaller")
    BY <2>2 DEF Guarded, Undisturbed
  <2>4. quiet' => Undisturbed("uninstaller")'
    BY <1>t, <1>u, <2>3, RestoreKeeps DEF Process
  <2> QED BY <1>t, <2>1, <2>2, <2>3, <2>4, Zenon DEF Guarded
<1>b. CASE BeginUninstall
  <2>1. SnapshotIsOriginal' /\ SnapshotsOriginal'
    BY <1>b, SnapshotsStay DEF Next
  <2>2. /\ pc["uninstaller"] = "off" /\ pc'["uninstaller"] = "load" /\ stopReq'
        /\ pc'["service"] = pc["service"] /\ UNCHANGED <<orig, dns, file, snap, applied>>
    BY <1>t, <1>b, Zenon DEF BeginUninstall, Goto, Typed, TypeOK, Process
  <2>3. Undisturbed("service")'
    BY <2>2, Zenon
    DEF Guarded, Undisturbed, SnapshotIsOriginal, Recoverable, RestoredExactly, AllOriginal
  <2> QED BY <1>t, <2>1, <2>2, <2>3 DEF Guarded
<1>v. CASE Done \/ UNCHANGED vars
  <2>1. UNCHANGED <<orig, dns, file, pc, snap, applied, stopReq, quiet>>
    BY <1>v, Zenon DEF Done, vars
  <2>2. SnapshotIsOriginal' /\ SnapshotsOriginal'
    BY <2>1, Zenon DEF Guarded, SnapshotIsOriginal, SnapshotsOriginal
  <2>3. ASSUME NEW q, Undisturbed(q) PROVE Undisturbed(q)'
    BY <2>1, <2>2, <2>3, Zenon DEF Undisturbed, Recoverable, RestoredExactly, AllOriginal
  <2> QED BY <1>t, <2>1, <2>2, <2>3, Zenon DEF Guarded
<1> QED BY <1>o, <1>s, <1>u, <1>b, <1>v DEF Next, OtherServiceStep, Process

\* However often apply_dns is retried or interrupted, and whenever somebody
\* uninstalls, the snapshot on disk is of a user's own configuration.
THEOREM SnapshotOfUser == Harmless => (Spec => []SnapshotIsOriginal)
<1> SUFFICES ASSUME Harmless PROVE Spec => []SnapshotIsOriginal
  OBVIOUS
<1>1. Guarded /\ [Next]_vars => Guarded'
  BY NextGuarded
<1>2. Guarded => SnapshotIsOriginal
  BY Zenon DEF Guarded
<1> QED BY InitGuarded, <1>1, <1>2, PTL DEF Spec

\* An uninstaller that reads the file when the service is down leaves every
\* adapter as its user had it, whatever the service was doing when it died.
THEOREM QuietUninstall == Harmless => (Spec => []QuietUninstallRestores)
<1> SUFFICES ASSUME Harmless PROVE Spec => []QuietUninstallRestores
  OBVIOUS
<1>1. Guarded /\ [Next]_vars => Guarded'
  BY NextGuarded
<1>2. Guarded => QuietUninstallRestores
  BY DEF Guarded, Undisturbed, QuietUninstallRestores, AllOriginal
<1> QED BY InitGuarded, <1>1, <1>2, PTL DEF Spec

-----------------------------------------------------------------------------
(***************************************************************************)
(* The invariants of EngineManager for any profiles, requests and numbers  *)
(* of requests, crashes and changes of the security environment, as long   *)
(* as a supervisor's stop holds.  The inductive invariant says, for each   *)
(* phase of a start, who may have a worker and the override.               *)
(***************************************************************************)

\* What the manager relies on: a stopped supervisor does not start its worker
\* again.
StopsHold == ~MayFail("race")

Phase == {"begin", "resolve", "prepare", "spawn", "health"}

\* A request that holds mutation_lock.
Held == [req : AllRequests, pc : Phase, profile : Profiles \cup {NoProfile},
         engine : Engines \cup {"native"}, kaspersky : BOOLEAN,
         second : BOOLEAN, before : Engines \cup {NoEngine}]

ManagerTyped ==
  /\ queue \in Seq(AllRequests)
  /\ cur = Free \/ cur \in Held
  /\ active \in Engines \cup {NoEngine}
  /\ overrideApplied \in BOOLEAN /\ kaspersky \in BOOLEAN
  /\ sup \in [Engines -> SupStates \ {"late"}]

\* How the request in hand relates to what was asked for and to the engine
\* that was active when it was taken up.
Asked ==
  cur # Free =>
    /\ cur.pc # "begin" => IsStart
    /\ cur.req.op \in {"start", "switch"} => cur.engine = cur.req.engine
    /\ active \in {NoEngine, cur.before}

\* The engine that owns the worker and the override: while a start is between
\* its preparation and its end the one it starts, else the active one.
Starting == cur.pc \in {"spawn", "health"}
Owner == IF Starting THEN cur.engine ELSE active

Owned ==
  /\ \A e \in Engines : HasWorker(e) => e = Owner /\ cur.pc # "spawn"
  /\ Live /\ overrideApplied => Owner = "goodbye"
  /\ Starting => active = NoEngine
  /\ cur.pc = "health" => cur.engine \in Engines /\ Target[cur.profile] = cur.engine

Consistent == ManagerTyped /\ Asked /\ Owned /\ CommittedProfileFits /\ AnswersHold
-----------------------------------------------------------------------------
(* Requests. *)

\* What the operation of a request says about its fields.
LEMMA RequestFields ==
  ASSUME NEW r \in AllRequests
  PROVE  /\ r.op \in {"auto", "start", "switch", "stop", "shutdown"}
         /\ r.op \in {"start", "switch"} => r.engine \in Engines \cup {"native"}
         /\ r.op \in {"auto", "start", "switch"} => r.profile \in Profiles
         /\ r \in {StopRequest, Shutdown} => r.op \in {"stop", "shutdown"}
BY DEF AllRequests, AutoRequests, StartRequests, StopRequest, Shutdown

\* A request in hand is not the absence of one.
LEMMA HeldIsNotFree == \A c \in Held : c # Free
BY DEF Held, Free, Phase

\* With stops that hold, stopping both adapters leaves no worker.
LEMMA BothStop ==
  ASSUME StopsHold, NEW f \in BothStopped
  PROVE  f \in [Engines -> {"stopped"}]
BY DEF StopsHold, BothStopped, Stopped

\* And so does stopping one.
LEMMA StoppedIsStopped ==
  ASSUME StopsHold, NEW x PROVE Stopped(x) = {"stopped"}
BY DEF StopsHold, Stopped
-----------------------------------------------------------------------------
(* The inductive invariant. *)

\* Initially nothing runs and nothing has been asked for.
LEMMA InitConsistent == ManagerInit => Consistent
<1> SUFFICES ASSUME ManagerInit PROVE Consistent
  OBVIOUS
<1>1. /\ queue = <<>> /\ cur = Free /\ cur.pc = "free" /\ active = NoEngine
      /\ overrideApplied = FALSE /\ kaspersky \in BOOLEAN
      /\ sup = [e \in Engines |-> "stopped"]
      /\ answer.ok = TRUE /\ answer.req.op = "none"
  BY Zenon DEF ManagerInit, Free
<1>2. ManagerTyped
  <2>1. sup \in [Engines -> SupStates \ {"late"}]
    BY <1>1, Zenon DEF SupStates
  <2>2. queue \in Seq(AllRequests)
    BY <1>1
  <2> QED BY <1>1, <2>1, <2>2, Zenon DEF ManagerTyped
<1>3. Asked /\ Owned /\ CommittedProfileFits
  BY <1>1, Zenon DEF Asked, Owned, Owner, Starting, HasWorker, CommittedProfileFits
<1>4. AnswersHold
  BY <1>1 DEF AnswersHold
<1> QED BY <1>2, <1>3, <1>4 DEF Consistent

\* A request ends with an error, or start_auto turns to the fallback engine,
\* in a state without workers and override of its own.
LEMMA FailConsistent ==
  ASSUME Consistent, cur \in Held, IsStart, Fail, Live, Live',
         queue' = queue, kaspersky' = kaspersky, active' \in {active, NoEngine},
         profile' = profile,
         sup' \in [Engines -> SupStates \ {"late"}], overrideApplied' \in BOOLEAN,
         \A e \in Engines : HasWorker(e)' => e = active',
         overrideApplied' => active' = "goodbye"
  PROVE  Consistent'
<1>1. CASE cur.req.op = "auto" /\ ~cur.second
  <2>1. cur' = [cur EXCEPT !.pc = "begin", !.second = TRUE, !.engine = Fallback]
    BY <1>1 DEF Fail
  <2>2. /\ cur' \in Held /\ cur'.pc = "begin" /\ cur'.req = cur.req
        /\ cur'.before = cur.before
    BY <2>1, Zenon DEF Held, Phase, Fallback, Engines
  <2> QED
    BY <1>1, <2>2, HeldIsNotFree
    DEF Consistent, ManagerTyped, Asked, Owned, Owner, Starting, CommittedProfileFits,
        AnswersHold
<1>2. CASE ~(cur.req.op = "auto" /\ ~cur.second)
  <2>1. cur' = Free /\ answer' = [req |-> cur.req, ok |-> FALSE, before |-> cur.before]
    BY <1>2 DEF Fail, Respond, IsStart
  <2>2. cur'.pc = "free"
    BY <2>1, Zenon DEF Free
  <2>3. active' \in {NoEngine, answer'.before} /\ ~answer'.ok
    BY <2>1, HeldIsNotFree, Zenon DEF Consistent, Asked
  <2>4. AnswersHold'
    BY <2>3 DEF AnswersHold
  <2> QED
    BY <2>1, <2>2, <2>4, Zenon
    DEF Consistent, ManagerTyped, Asked, Owned, Owner, Starting, CommittedProfileFits
<1> QED BY <1>1, <1>2, Zenon

\* Every step keeps the invariant.
LEMMA NextConsistent ==
  ASSUME StopsHold, Consistent, [ManagerNext]_managerVars PROVE Consistent'
<1> USE DEF Consistent
<1>1. ASSUME NEW r \in Requests, Submit(r) PROVE Consistent'
  <2>1. queue' \in Seq(AllRequests)
    BY <1>1, ManagerAssumption DEF Submit, ManagerTyped
  <2> QED
    BY <1>1, <2>1, Zenon
    DEF Submit, ManagerTyped, Asked, Owned, Owner, Starting, HasWorker, Live, IsStart,
        CommittedProfileFits, AnswersHold, manager
<1>2. CASE BeginShutdown
  <2>1. queue' \in Seq(AllRequests)
    BY <1>2 DEF BeginShutdown, ManagerTyped, AllRequests
  <2> QED
    BY <1>2, <2>1
    DEF BeginShutdown, ManagerTyped, Asked, Owned, Owner, Starting, HasWorker, Live, IsStart,
        CommittedProfileFits, AnswersHold, manager
<1>3. CASE Acquire
  <2> DEFINE r == Head(queue)
  <2>1. r \in AllRequests /\ queue' \in Seq(AllRequests)
    BY <1>3 DEF Acquire, ManagerTyped
  <2>2. cur' \in Held /\ cur'.pc = "begin" /\ cur'.req = r /\ cur'.before = active
    BY <1>3, <2>1, RequestFields, Zenon DEF Acquire, Held, Phase, Preferred, ManagerTyped, Engines
  <2>3. r.op \in {"start", "switch"} => cur'.engine = r.engine
    BY <1>3, Zenon DEF Acquire
  <2>4. cur.pc = "free"
    BY <1>3, Zenon DEF Acquire, Free
  <2> QED
    BY <1>3, <2>1, <2>2, <2>3, <2>4, HeldIsNotFree
    DEF Acquire, ManagerTyped, Asked, Owned, Owner, Starting, HasWorker, Live,
        CommittedProfileFits, AnswersHold, manager
<1>4. CASE StopEngine
  <2>1. cur \in Held
    BY <1>4 DEF StopEngine, ManagerTyped, Free
  <2>2. cur.req.op \in {"stop", "shutdown"}
    BY <1>4, <2>1, RequestFields, Zenon DEF StopEngine, Held
  <2>3. sup' \in [Engines -> {"stopped"}]
    BY <1>4, BothStop, Zenon DEF StopEngine
  <2>4. /\ cur' = Free /\ cur'.pc = "free" /\ active' = NoEngine /\ overrideApplied' = FALSE
        /\ queue' = queue /\ kaspersky' = kaspersky
        /\ answer' = [req |-> cur.req, ok |-> TRUE, before |-> cur.before]
    BY <1>4, Zenon DEF StopEngine, Respond, Free
  <2>5. AnswersHold'
    BY <2>2, <2>4 DEF AnswersHold
  <2> QED
    BY <2>3, <2>4, <2>5, Zenon
    DEF ManagerTyped, Asked, Owned, Owner, Starting, HasWorker, SupStates, CommittedProfileFits
<1>5. CASE Detect
  <2>1. cur \in Held
    BY <1>5 DEF Detect, ManagerTyped, Free
  <2>2. /\ cur' \in Held /\ cur'.pc = "resolve" /\ cur'.req = cur.req
        /\ cur'.before = cur.before /\ cur'.engine = cur.engine
    BY <1>5, <2>1 DEF Detect, Held, Phase, ManagerTyped
  <2> QED
    BY <1>5, <2>1, <2>2, HeldIsNotFree
    DEF Detect, ManagerTyped, Asked, IsStart, Owned, Owner, Starting, HasWorker, Live,
        CommittedProfileFits, AnswersHold, manager
<1>6. CASE Resolve
  <2>1. cur \in Held /\ IsStart
    BY <1>6, HeldIsNotFree DEF Resolve, ManagerTyped, Asked, Free
  <2>2. /\ queue' = queue /\ active' = active /\ profile' = profile /\ sup' = sup
        /\ overrideApplied' = overrideApplied /\ kaspersky' = kaspersky
        /\ process' = process /\ Live /\ Live'
    BY <1>6 DEF Resolve, Live
  <2>3. CASE Fail
    <3>1. \A e \in Engines : HasWorker(e)' => e = active'
      BY <1>6, <2>2 DEF Resolve, Owned, Owner, Starting, HasWorker
    <3>2. overrideApplied' => active' = "goodbye"
      BY <1>6, <2>2 DEF Resolve, Owned, Owner, Starting
    <3> QED
      BY <2>1, <2>2, <2>3, <3>1, <3>2, FailConsistent, Zenon DEF ManagerTyped
  <2>4. CASE ~Fail
    <3>1. /\ cur' \in Held /\ cur'.pc = "prepare" /\ cur'.req = cur.req
          /\ cur'.before = cur.before /\ cur'.engine = cur.engine
      BY <1>6, <2>1, <2>4, RequestFields, ManagerAssumption
      DEF Resolve, Held, Phase, ManagerTyped, IsStart
    <3> QED
      BY <1>6, <2>1, <2>2, <3>1, HeldIsNotFree
      DEF Resolve, ManagerTyped, Asked, IsStart, Owned, Owner, Starting, HasWorker,
          CommittedProfileFits, AnswersHold
  <2> QED BY <2>3, <2>4, Zenon
<1>7. CASE Prepare
  <2>1. cur \in Held /\ IsStart
    BY <1>7, HeldIsNotFree DEF Prepare, ManagerTyped, Asked, Free
  <2>2. /\ sup' \in [Engines -> SupStates \ {"late"}]
        /\ \A e \in Engines : ~HasWorker(e)'
    <3>1. CASE active = NoEngine
      BY <1>7, <3>1 DEF Prepare, ManagerTyped, Owned, Owner, Starting, HasWorker, Engines, NoEngine
    <3>2. CASE active # NoEngine
      <4>1. sup' \in [Engines -> {"stopped"}]
        BY <1>7, <3>2, BothStop DEF Prepare
      <4> QED BY <4>1 DEF HasWorker, SupStates
    <3> QED BY <3>1, <3>2
  <2>3. /\ active' = NoEngine /\ queue' = queue /\ profile' = profile
        /\ kaspersky' = kaspersky /\ Live /\ Live'
    BY <1>7 DEF Prepare, Live
  <2> DEFINE kept == IF active = NoEngine THEN overrideApplied ELSE FALSE
             wants == cur.engine = "goodbye" /\ cur.kaspersky
  <2>4. kept = FALSE
    BY <1>7 DEF Prepare, Owned, Owner, Starting, NoEngine, ManagerTyped
  <2>5. \/ cur' = [cur EXCEPT !.pc = "spawn"] /\ overrideApplied' = (wants \/ kept)
        \/ overrideApplied' = kept /\ Fail
    BY <1>7, Zenon DEF Prepare
  <2> HIDE DEF kept
  <2>6. CASE cur' = [cur EXCEPT !.pc = "spawn"] /\ overrideApplied' = (wants \/ kept)
    <3>1. /\ cur' \in Held /\ cur'.pc = "spawn" /\ cur'.req = cur.req
          /\ cur'.before = cur.before /\ cur'.engine = cur.engine
      BY <2>1, <2>6 DEF Held, Phase
    <3>2. overrideApplied' \in BOOLEAN /\ (overrideApplied' => cur.engine = "goodbye")
      BY <2>4, <2>6, Zenon
    <3> QED
      BY <2>1, <2>2, <2>3, <3>1, <3>2, HeldIsNotFree
      DEF ManagerTyped, Asked, IsStart, Owned, Owner, Starting, CommittedProfileFits, AnswersHold
  <2>7. CASE overrideApplied' = kept /\ Fail
    BY <2>1, <2>2, <2>3, <2>4, <2>7, FailConsistent, Zenon
  <2> QED BY <2>5, <2>6, <2>7, Zenon
<1>8. CASE SpawnWorker
  <2>1. cur \in Held /\ IsStart /\ cur.pc = "spawn"
    BY <1>8, HeldIsNotFree DEF SpawnWorker, ManagerTyped, Asked, Free
  <2>2. /\ active' = active /\ active = NoEngine /\ queue' = queue /\ profile' = profile
        /\ kaspersky' = kaspersky /\ Live /\ Live'
    BY <1>8 DEF SpawnWorker, Live, Owned, Starting
  <2>3. \A e \in Engines : ~HasWorker(e)
    BY <2>1 DEF Owned
  <2>4. Released = FALSE
    BY <2>1, <2>2, Zenon DEF Released, Owned, Owner, Starting, ManagerTyped
  <2> DEFINE e == cur.engine
  <2>5. CASE /\ e \in Engines /\ Target[cur.profile] = e
             /\ sup' = [sup EXCEPT ![e] = "running"]
             /\ cur' = [cur EXCEPT !.pc = "health"] /\ overrideApplied' = overrideApplied
    <3>1. /\ cur' \in Held /\ cur'.pc = "health" /\ cur'.req = cur.req
          /\ cur'.before = cur.before /\ cur'.engine = cur.engine /\ cur'.profile = cur.profile
      BY <2>1, <2>5 DEF Held, Phase
    <3>2. /\ sup' \in [Engines -> SupStates \ {"late"}]
          /\ \A x \in Engines : HasWorker(x)' => x = e
      BY <2>3, <2>5 DEF HasWorker, ManagerTyped, SupStates
    <3> QED
      BY <2>1, <2>2, <2>5, <3>1, <3>2, HeldIsNotFree
      DEF ManagerTyped, Asked, IsStart, Owned, Owner, Starting, CommittedProfileFits, AnswersHold
  <2>6. CASE /\ sup' = sup \/ (e \in Engines /\ sup' = [sup EXCEPT ![e] = "dead"])
             /\ overrideApplied' = Released /\ Fail
    <3>1. /\ sup' \in [Engines -> SupStates \ {"late"}]
          /\ \A x \in Engines : ~HasWorker(x)'
      BY <2>3, <2>6, Zenon DEF HasWorker, ManagerTyped, SupStates
    <3> QED BY <2>1, <2>2, <2>4, <2>6, <3>1, FailConsistent, Zenon
  <2> QED BY <1>8, <2>5, <2>6 DEF SpawnWorker
<1>9. CASE CheckHealth
  <2>1. cur \in Held /\ IsStart /\ cur.pc = "health"
    BY <1>9, HeldIsNotFree DEF CheckHealth, ManagerTyped, Asked, Free
  <2> DEFINE e == cur.engine
  <2>2. /\ active = NoEngine /\ e \in Engines /\ Target[cur.profile] = e
        /\ queue' = queue /\ kaspersky' = kaspersky /\ Live /\ Live'
        /\ \A x \in Engines : HasWorker(x) => x = e
    BY <1>9, <2>1, Zenon DEF CheckHealth, Live, Owned, Owner, Starting
  <2>3. Released = FALSE
    BY <2>1, <2>2, Zenon DEF Released, Owned, Owner, Starting, ManagerTyped
  <2>4. CASE /\ active' = e /\ profile' = cur.profile /\ Respond(TRUE)
             /\ sup' = sup /\ overrideApplied' = overrideApplied
    <3>1. /\ cur' = Free /\ cur'.pc = "free"
          /\ answer' = [req |-> cur.req, ok |-> TRUE, before |-> cur.before]
      BY <2>4, Zenon DEF Respond, Free
    <3>2. /\ cur.req.op \in {"start", "switch"} => e = cur.req.engine
          /\ cur.req.op \in {"start", "switch", "auto"}
      BY <2>1, HeldIsNotFree, Zenon DEF Asked, IsStart
    <3>3. AnswersHold'
      BY <2>2, <2>4, <3>1, <3>2 DEF AnswersHold
    <3>4. overrideApplied => e = "goodbye"
      BY <2>1, <2>2, Zenon DEF Owned, Owner, Starting
    <3> QED
      BY <2>1, <2>2, <2>4, <3>1, <3>3, <3>4, Zenon
      DEF ManagerTyped, Asked, Owned, Owner, Starting, HasWorker, CommittedProfileFits
  <2>5. CASE /\ sup' \in {[sup EXCEPT ![e] = s] : s \in Stopped(sup[e])}
             /\ overrideApplied' = Released /\ Fail /\ UNCHANGED <<active, profile>>
    <3>1. sup' = [sup EXCEPT ![e] = "stopped"]
      BY <2>5, StoppedIsStopped, Zenon
    <3>2. /\ sup' \in [Engines -> SupStates \ {"late"}]
          /\ \A x \in Engines : ~HasWorker(x)'
      BY <2>2, <3>1, Zenon DEF HasWorker, ManagerTyped, SupStates
    <3> QED BY <2>1, <2>2, <2>3, <2>5, <3>2, FailConsistent, Zenon
  <2> QED BY <1>9, <2>4, <2>5, Zenon DEF CheckHealth
<1>10. ASSUME NEW e \in Engines, WorkerDies(e) \/ WorkerRestarts(e) PROVE Consistent'
  <2>1. /\ sup' \in [Engines -> SupStates \ {"late"}]
        /\ \A x \in Engines : HasWorker(x)' => HasWorker(x)
    BY <1>10, Zenon DEF WorkerDies, WorkerRestarts, ManagerTyped, HasWorker, SupStates
  <2> QED
    BY <1>10, <2>1
    DEF WorkerDies, WorkerRestarts, ManagerTyped, Asked, Owned, Owner, Starting, Live, IsStart,
        CommittedProfileFits, AnswersHold, manager, counters
<1>11. CASE FlipDetection
  BY <1>11, Zenon
  DEF FlipDetection, ManagerTyped, Asked, Owned, Owner, Starting, HasWorker, Live, IsStart,
      CommittedProfileFits, AnswersHold, manager
<1>12. CASE Exit
  <2>1. /\ cur' = Free /\ cur'.pc = "free" /\ ~Live' /\ queue' \in Seq(AllRequests)
        /\ sup' = [x \in Engines |-> "stopped"]
    BY <1>12 DEF Exit, Free, Live
  <2> QED
    BY <1>12, <2>1
    DEF Exit, ManagerTyped, Asked, Owned, Owner, Starting, HasWorker, SupStates,
        CommittedProfileFits, AnswersHold, manager
<1>13. CASE UNCHANGED managerVars
  BY <1>13
  DEF managerVars, ManagerTyped, Asked, Owned, Owner, Starting, HasWorker, Live, IsStart,
      CommittedProfileFits, AnswersHold, manager
<1> QED
  BY <1>1, <1>2, <1>3, <1>4, <1>5, <1>6, <1>7, <1>8, <1>9, <1>10, <1>11, <1>12, <1>13, Zenon
  DEF ManagerNext, Step

-----------------------------------------------------------------------------
(* The theorems. *)

\* The steps of every theorem below.
LEMMA AlwaysConsistent == StopsHold => (ManagerSpec => []Consistent)
<1> SUFFICES ASSUME StopsHold PROVE ManagerSpec => []Consistent
  OBVIOUS
<1>1. Consistent /\ [ManagerNext]_managerVars => Consistent'
  BY NextConsistent
<1> QED BY InitConsistent, <1>1, PTL DEF ManagerSpec

\* As long as a supervisor's stop holds, the packet filter and the proxy are
\* never supervised side by side (start_engine_internal stops both adapters,
\* or relies on neither having a worker).
THEOREM NeverTwoEngines == StopsHold => (ManagerSpec => []OneEngine)
<1> SUFFICES ASSUME StopsHold PROVE ManagerSpec => []OneEngine
  OBVIOUS
<1>1. Consistent => OneEngine
  BY Zenon DEF Consistent, Owned, OneEngine, Engines
<1> QED BY AlwaysConsistent, <1>1, PTL

\* Under the same assumption, a status query sees the DNS override in force
\* only beside an active GoodbyeDPI: each error path of start_engine_internal
\* takes it back.
THEOREM OverrideBesideGoodbye == StopsHold => (ManagerSpec => []OverrideOnlyWithGoodbye)
<1> SUFFICES ASSUME StopsHold PROVE ManagerSpec => []OverrideOnlyWithGoodbye
  OBVIOUS
<1>1. Consistent => OverrideOnlyWithGoodbye
  BY Zenon DEF Consistent, Owned, Owner, Starting, OverrideOnlyWithGoodbye, InnerFree
<1> QED BY AlwaysConsistent, <1>1, PTL

\* Under the same assumption, a status query that reports no engine is right:
\* no worker runs and none is about to be restarted.
THEOREM IdleIsIdle == StopsHold => (ManagerSpec => []IdleMeansNoWorker)
<1> SUFFICES ASSUME StopsHold PROVE ManagerSpec => []IdleMeansNoWorker
  OBVIOUS
<1>1. Consistent => IdleMeansNoWorker
  BY Zenon DEF Consistent, Owned, Owner, Starting, IdleMeansNoWorker, InnerFree, Engines, NoEngine
<1> QED BY AlwaysConsistent, <1>1, PTL

\* Under the same assumption, the profile reported beside an engine was made
\* for it, also after start_auto fell back to the other engine.
THEOREM ProfileFits == StopsHold => (ManagerSpec => []CommittedProfileFits)
<1> SUFFICES ASSUME StopsHold PROVE ManagerSpec => []CommittedProfileFits
  OBVIOUS
<1>1. Consistent => CommittedProfileFits
  BY DEF Consistent
<1> QED BY AlwaysConsistent, <1>1, PTL

\* Under the same assumption, what the last answer of start_engine, start_auto
\* or stop_engine said is still so when nobody holds mutation_lock.
THEOREM AnswersStayTrue == StopsHold => (ManagerSpec => []AnswersHold)
<1> SUFFICES ASSUME StopsHold PROVE ManagerSpec => []AnswersHold
  OBVIOUS
<1>1. Consistent => AnswersHold
  BY DEF Consistent
<1> QED BY AlwaysConsistent, <1>1, PTL
-----------------------------------------------------------------------------
(***************************************************************************)
(* Proofs about ProcessSupervisor, for any limits, any number of spawns    *)
(* and stops, and any outcome of the spawn attempts.                       *)
(***************************************************************************)

\* A monitor that has started has, or had, a worker that was created.
HasChild ==
  \A m \in Monitors : mon[m].pc # "none" => mon[m].child \in 1..workers

SupervisorTyped == SupervisorTypeOK /\ HasChild

\* The supervisor's first state is well typed.
LEMMA SupervisorInitTyped == SupervisorInit => SupervisorTyped
<1> SUFFICES ASSUME SupervisorInit PROVE SupervisorTyped
  OBVIOUS
<1>1. workers \in 0..MaxWorkers /\ spawns \in 0..MaxSpawns /\ stops \in 0..MaxStops
  BY ParametersAssumption DEF SupervisorInit
<1> QED
  BY <1>1, Zenon
  DEF SupervisorInit, SupervisorTyped, SupervisorTypeOK, HasChild, Workers, Monitors, None

\* What a successful launch does to the processes, whoever asks for it.
LEMMA LaunchedTyped ==
  ASSUME SupervisorTyped, NEW o, Launched(o)
  PROVE /\ workers' = workers + 1 /\ workers' \in 0..MaxWorkers
        /\ NewWorker \in Workers /\ NewWorker \in 1..workers'
        /\ alive' \subseteq Workers /\ contained' \subseteq Workers
        /\ job' \in Workers /\ pid' \in Workers /\ state' = "Running"
        /\ host' = host
<1>1. workers' = workers + 1 /\ workers' \in 0..MaxWorkers
      /\ NewWorker \in Workers /\ NewWorker \in 1..workers'
  BY ParametersAssumption DEF SupervisorTyped, SupervisorTypeOK, Launched, NewWorker, Workers
<1> QED BY <1>1, Zenon DEF SupervisorTyped, SupervisorTypeOK, Launched

\* The same for a launch that is cut off.
LEMMA CutOffTyped ==
  ASSUME SupervisorTyped, NEW o, CutOff(o)
  PROVE /\ workers' = workers + 1 /\ workers' \in 0..MaxWorkers
        /\ alive' \subseteq Workers /\ host' = "down"
        /\ 1..workers \subseteq 1..workers'
        /\ UNCHANGED <<state, pid, job, contained>>
<1>1. /\ workers' = workers + 1 /\ workers' \in 0..MaxWorkers /\ NewWorker \in Workers
      /\ 1..workers \subseteq 1..workers'
  BY ParametersAssumption DEF SupervisorTyped, SupervisorTypeOK, CutOff, NewWorker, Workers
<1> QED BY <1>1, Zenon DEF SupervisorTyped, SupervisorTypeOK, CutOff

\* A spawn that is accepted starts the next monitor.
LEMMA NextMonitor ==
  ASSUME SupervisorTyped, SpawnAccepted
  PROVE spawns + 1 \in Monitors /\ spawns + 1 \in 0..MaxSpawns
<1>1. spawns \in 0..MaxSpawns /\ spawns < MaxSpawns
  BY Zenon DEF SupervisorTyped, SupervisorTypeOK, SpawnAccepted
<1> QED BY <1>1, ParametersAssumption DEF Monitors

\* Every step keeps the supervisor well typed.
LEMMA SupervisorNextTyped == SupervisorTyped /\ [SupervisorNext]_supervisorVars => SupervisorTyped'
<1> SUFFICES ASSUME SupervisorTyped, [SupervisorNext]_supervisorVars PROVE SupervisorTyped'
  OBVIOUS
<1> USE DEF SupervisorTyped, SupervisorTypeOK, HasChild
<1>1. ASSUME NEW o \in AllOutcomes, SpawnSucceeds(o) PROVE SupervisorTyped'
  <2>1. Launched(o)
    BY <1>1, Zenon DEF SpawnSucceeds
  <2>2. spawns' \in 0..MaxSpawns /\ spawns + 1 \in Monitors
    BY <1>1, NextMonitor, Zenon DEF SpawnSucceeds
  <2>3. \A m \in Monitors : mon'[m].pc # "none" => mon'[m].child \in 1..workers'
    BY <1>1, <2>1, <2>2, LaunchedTyped DEF SpawnSucceeds
  <2>4. /\ pid' \in Workers \cup {None} /\ job' \in Workers \cup {None}
        /\ alive' \subseteq Workers /\ contained' \subseteq Workers
        /\ workers' \in 0..MaxWorkers /\ NewWorker \in Workers
        /\ state' = "Running" /\ host' = host
    BY <2>1, LaunchedTyped, Zenon
  <2>5. mon' \in [Monitors ->
                    [pc : {"none", "waiting", "exited", "backoff", "yield",
                           "respawn", "done"},
                     child : Workers \cup {None},
                     manual : BOOLEAN,
                     wake : Nat]]
    BY <1>1, <2>2, <2>4, Zenon DEF SpawnSucceeds
  <2> QED
    BY <1>1, <2>2, <2>3, <2>4, <2>5, Zenon DEF SpawnSucceeds, SpawnAccepted
<1>2. ASSUME NEW o \in AllOutcomes, SpawnFails(o) PROVE SupervisorTyped'
  BY <1>2, Zenon DEF SpawnFails, SpawnAccepted, NotLaunched, procs
<1>3. ASSUME NEW o \in AllOutcomes, SpawnCut(o) PROVE SupervisorTyped'
  <2>1. CutOff(o)
    BY <1>3, Zenon DEF SpawnCut
  <2>2. /\ workers' \in 0..MaxWorkers /\ alive' \subseteq Workers
        /\ host' = "down" /\ UNCHANGED <<state, pid, job, contained>>
        /\ 1..workers \subseteq 1..workers'
    BY <2>1, CutOffTyped
  <2> QED BY <1>3, <2>2, Zenon DEF SpawnCut, SpawnAccepted
<1>4. ASSUME NEW m \in Monitors, MonitorExit(m) PROVE SupervisorTyped'
  BY <1>4 DEF MonitorExit, At, inner, procs, client, history
<1>5. ASSUME NEW m \in Monitors, MonitorStopped(m) PROVE SupervisorTyped'
  BY <1>5 DEF MonitorStopped, At, MonGoto, client, history
<1>6. ASSUME NEW m \in Monitors, MonitorCrashed(m) PROVE SupervisorTyped'
  <2> DEFINE w == mon[m].child
             recent == CurrentStamps(w)
  <2>1. w \in Workers /\ recent \subseteq Workers /\ mon[m].pc = "exited"
    <3>1. mon[m].pc = "exited" /\ w \in 1..workers
      BY <1>6 DEF MonitorCrashed, At
    <3>2. w \in Workers
      BY <3>1, ParametersAssumption DEF Workers
    <3> QED BY <3>1, <3>2, Zenon DEF CurrentStamps
  <2>2. stampAt' \in [Workers -> Nat] /\ stamps' \subseteq Workers
    BY <1>6, <2>1 DEF MonitorCrashed
  <2>3. granted' \subseteq Workers
    BY <1>6, <2>1, Zenon DEF MonitorCrashed
  <2>4. now + Backoff(Cardinality(recent)) \in Nat
    BY DEF Backoff
  <2>5. mon' \in [Monitors ->
                    [pc : {"none", "waiting", "exited", "backoff", "yield",
                           "respawn", "done"},
                     child : Workers \cup {None},
                     manual : BOOLEAN,
                     wake : Nat]]
    BY <1>6, <2>4 DEF MonitorCrashed, MonGoto
  <2>6. HasChild'
    BY <1>6, <2>1 DEF MonitorCrashed, MonGoto, procs
  <2>7. lastError' \in {"none", "spawn", "restart", "exhausted"}
    BY <1>6 DEF MonitorCrashed
  <2> QED
    BY <1>6, <2>2, <2>3, <2>5, <2>6, <2>7 DEF MonitorCrashed, procs, client
<1>7. ASSUME NEW m \in Monitors, MonitorWake(m) PROVE SupervisorTyped'
  BY <1>7 DEF MonitorWake, At, MonGoto, inner, procs, client, history
<1>8. ASSUME NEW m \in Monitors, MonitorYield(m) PROVE SupervisorTyped'
  BY <1>8 DEF MonitorYield, At, MonGoto, procs, client, history
<1>9. ASSUME NEW m \in Monitors, NEW o \in AllOutcomes, RespawnSucceeds(m, o)
      PROVE SupervisorTyped'
  <2>1. Launched(o)
    BY <1>9 DEF RespawnSucceeds
  <2>2. \A n \in Monitors : mon'[n].pc # "none" => mon'[n].child \in 1..workers'
    BY <1>9, <2>1, LaunchedTyped DEF RespawnSucceeds
  <2>3. /\ pid' \in Workers \cup {None} /\ job' \in Workers \cup {None}
        /\ alive' \subseteq Workers /\ contained' \subseteq Workers
        /\ workers' \in 0..MaxWorkers /\ NewWorker \in Workers
        /\ state' = "Running" /\ host' = host
    BY <2>1, LaunchedTyped, Zenon
  <2> QED
    BY <1>9, <2>2, <2>3 DEF RespawnSucceeds, client, history
<1>10. ASSUME NEW m \in Monitors, NEW o \in AllOutcomes, RespawnFails(m, o)
       PROVE SupervisorTyped'
  BY <1>10
  DEF RespawnFails, At, MonGoto, NotLaunched, procs, client, history
<1>11. ASSUME NEW m \in Monitors, NEW o \in AllOutcomes, RespawnCut(m, o)
       PROVE SupervisorTyped'
  <2>1. CutOff(o)
    BY <1>11 DEF RespawnCut
  <2>2. /\ workers' \in 0..MaxWorkers /\ alive' \subseteq Workers
        /\ host' = "down" /\ UNCHANGED <<state, pid, job, contained>>
        /\ 1..workers \subseteq 1..workers'
    BY <2>1, CutOffTyped
  <2> QED BY <1>11, <2>2, Zenon DEF RespawnCut, client, history
<1>12. CASE StopFlag
  <2>1. stops' \in 0..MaxStops
    BY <1>12, ParametersAssumption DEF StopFlag
  <2> QED BY <1>12, <2>1, Zenon DEF StopFlag, inner, procs, history
<1>13. CASE StopLocked
  BY <1>13, Zenon DEF StopLocked
<1>14. CASE HostDeath \/ \E w \in Workers : WorkerExit(w)
  BY <1>14 DEF HostDeath, WorkerExit, inner, client, history
<1>15. CASE Tick
  <2>1. now' \in Nat
    BY <1>15 DEF Tick
  <2> QED BY <1>15, <2>1, Zenon DEF Tick, inner, procs, client, history
<1>16. CASE UNCHANGED supervisorVars
  BY <1>16, Zenon DEF supervisorVars, inner, procs, client, history
<1> QED
  BY <1>1, <1>2, <1>3, <1>4, <1>5, <1>6, <1>7, <1>8, <1>9, <1>10, <1>11,
     <1>12, <1>13, <1>14, <1>15, <1>16
  DEF SupervisorNext, Spawn, MonitorStep, MonitorRespawn

\* Every reachable state of a supervisor has the types the code declares,
\* whatever its workers, its clients and the operating system do.
THEOREM SupervisorTypeCorrect == SupervisorSpec => []SupervisorTypeOK
<1>1. SupervisorTyped => SupervisorTypeOK
  BY DEF SupervisorTyped
<1> QED BY SupervisorInitTyped, SupervisorNextTyped, <1>1, PTL DEF SupervisorSpec
-----------------------------------------------------------------------------
(* Workers inside their jobs.                                              *)

\* Assigning a new process to its job works, and the service process does not
\* die between creating the one and assigning it to the other.
AlwaysContained == Outcomes \cap {"loose", "cut"} = {}

\* What runs is the worker the current job was made for.
Contained == alive \subseteq JobMembers(job) /\ NoOrphans

\* Every step keeps what runs inside the current job, for any number of
\* spawns, overlapping monitors, crashes and stops.
LEMMA NextContained == AlwaysContained /\ Contained /\ [SupervisorNext]_supervisorVars => Contained'
<1> SUFFICES ASSUME AlwaysContained, Contained, [SupervisorNext]_supervisorVars PROVE Contained'
  OBVIOUS
<1> USE DEF Contained, NoOrphans, JobMembers
<1>1. ASSUME NEW o, Launched(o), host = "up" PROVE Contained'
  BY <1>1, Zenon DEF Launched, Launches, AlwaysContained
<1>2. ASSUME NEW o PROVE ~CutOff(o)
  BY Zenon DEF CutOff, AlwaysContained
<1>3. ASSUME NEW o \in AllOutcomes, Spawn(o) PROVE Contained'
  BY <1>1, <1>2, <1>3, Zenon
  DEF Spawn, SpawnSucceeds, SpawnFails, SpawnCut, SpawnAccepted, NotLaunched, procs
<1>4. ASSUME NEW m \in Monitors, NEW o \in AllOutcomes, MonitorRespawn(m, o)
      PROVE Contained'
  BY <1>1, <1>2, <1>4
  DEF MonitorRespawn, RespawnSucceeds, RespawnFails, RespawnCut, At, NotLaunched, procs
<1>5. ASSUME NEW m \in Monitors, MonitorStopped(m) PROVE Contained'
  BY <1>5, Zenon DEF MonitorStopped
<1>6. ASSUME NEW m \in Monitors,
             MonitorExit(m) \/ MonitorCrashed(m) \/ MonitorWake(m) \/ MonitorYield(m)
      PROVE Contained'
  BY <1>6, Zenon
  DEF MonitorExit, MonitorCrashed, MonitorWake, MonitorYield, inner, procs
<1>7. CASE StopFlag \/ Tick \/ UNCHANGED supervisorVars
  BY <1>7, Zenon DEF StopFlag, Tick, supervisorVars, inner, procs
<1>8. CASE StopLocked \/ HostDeath \/ \E w \in Workers : WorkerExit(w)
  BY <1>8, Zenon DEF StopLocked, HostDeath, WorkerExit, inner
<1> QED
  BY <1>3, <1>4, <1>5, <1>6, <1>7, <1>8, Zenon DEF SupervisorNext, MonitorStep

\* No worker outlives the service process, however often a supervisor is used.
THEOREM NoWorkerOutlives == AlwaysContained => (SupervisorSpec => []NoOrphans)
<1> SUFFICES ASSUME AlwaysContained PROVE SupervisorSpec => []NoOrphans
  OBVIOUS
<1>1. SupervisorInit => Contained
  BY Zenon DEF SupervisorInit, Contained, NoOrphans
<1>2. Contained /\ [SupervisorNext]_supervisorVars => Contained'
  BY NextContained
<1>3. Contained => NoOrphans
  BY DEF Contained
<1> QED BY <1>1, <1>2, <1>3, PTL DEF SupervisorSpec

-----------------------------------------------------------------------------
(* The pinned pid.                                                          *)

Watching(m) == mon[m].pc \in {"waiting", "exited"}

Pinned == SupervisorTyped /\ PidIsPinned

\* A fresh supervisor records no pid.
LEMMA InitPinned == SupervisorInit => Pinned
BY SupervisorInitTyped, Zenon DEF SupervisorInit, Pinned, PidIsPinned

\* Every step keeps the recorded pid in the hands of a monitor.
LEMMA NextPinned == Pinned /\ [SupervisorNext]_supervisorVars => Pinned'
<1> SUFFICES ASSUME Pinned, [SupervisorNext]_supervisorVars PROVE PidIsPinned'
  BY SupervisorNextTyped, Zenon DEF Pinned
<1>t. SupervisorTyped
  BY Zenon DEF Pinned
<1>u. ASSUME mon' = mon, pid' \in {pid, None} PROVE PidIsPinned'
  BY <1>u, Zenon DEF Pinned, PidIsPinned
<1>l. ASSUME NEW o, Launched(o), NEW m \in Monitors,
             mon'[m].pc = "waiting", mon'[m].child = NewWorker
      PROVE PidIsPinned'
  BY <1>l, Zenon DEF Launched, PidIsPinned
<1>w. ASSUME NEW m \in Monitors, mon[m].pc \notin {"waiting", "exited"}, pid' = pid,
             \A n \in Monitors : n # m => mon'[n] = mon[n]
      PROVE PidIsPinned'
  BY <1>w, Zenon DEF Pinned, PidIsPinned
<1>1. ASSUME NEW o \in AllOutcomes, Spawn(o) PROVE PidIsPinned'
  <2>1. CASE SpawnSucceeds(o)
    <3>1. spawns + 1 \in Monitors
      BY <1>t, <2>1, NextMonitor, Zenon DEF SpawnSucceeds
    <3>2. /\ mon'[spawns + 1].pc = "waiting" /\ mon'[spawns + 1].child = NewWorker
          /\ Launched(o)
      BY <1>t, <2>1, <3>1, Zenon DEF SpawnSucceeds, SupervisorTyped, SupervisorTypeOK
    <3> QED BY <1>l, <3>1, <3>2, Zenon
  <2>2. CASE SpawnFails(o) \/ SpawnCut(o)
    BY <1>u, <2>2, Zenon DEF SpawnFails, SpawnCut, NotLaunched, CutOff
  <2> QED BY <1>1, <2>1, <2>2, Zenon DEF Spawn
<1>2. ASSUME NEW m \in Monitors, MonitorExit(m) PROVE PidIsPinned'
  <2>1. /\ \A n \in Monitors : mon'[n].child = mon[n].child
        /\ \A n \in Monitors : Watching(n) => Watching(n)'
        /\ pid' = pid
    BY <1>t, <1>2 DEF MonitorExit, At, Watching, SupervisorTyped, SupervisorTypeOK, inner
  <2> QED BY <2>1, Zenon DEF Pinned, PidIsPinned, Watching
<1>3. ASSUME NEW m \in Monitors, MonitorStopped(m) \/ MonitorCrashed(m) PROVE PidIsPinned'
  BY <1>3, Zenon DEF MonitorStopped, MonitorCrashed, PidIsPinned
<1>4. ASSUME NEW m \in Monitors, MonitorWake(m) \/ MonitorYield(m) PROVE PidIsPinned'
  <2>1. /\ mon[m].pc \notin {"waiting", "exited"} /\ pid' = pid
        /\ \A n \in Monitors : n # m => mon'[n] = mon[n]
    BY <1>t, <1>4, Zenon
    DEF MonitorWake, MonitorYield, At, MonGoto, SupervisorTyped, SupervisorTypeOK, inner
  <2> QED BY <1>w, <2>1, Zenon
<1>5. ASSUME NEW m \in Monitors, NEW o \in AllOutcomes, MonitorRespawn(m, o) PROVE PidIsPinned'
  <2>1. CASE RespawnSucceeds(m, o)
    <3>1. mon'[m].pc = "waiting" /\ mon'[m].child = NewWorker /\ Launched(o)
      BY <1>t, <2>1, Zenon DEF RespawnSucceeds, SupervisorTyped, SupervisorTypeOK
    <3> QED BY <1>l, <3>1, Zenon
  <2>2. CASE RespawnFails(m, o)
    <3>1. /\ mon[m].pc \notin {"waiting", "exited"} /\ pid' = pid
          /\ \A n \in Monitors : n # m => mon'[n] = mon[n]
      BY <1>t, <2>2, Zenon
      DEF RespawnFails, NotLaunched, At, MonGoto, SupervisorTyped, SupervisorTypeOK
    <3> QED BY <1>w, <3>1, Zenon
  <2>3. CASE RespawnCut(m, o)
    BY <1>u, <2>3, Zenon DEF RespawnCut, CutOff
  <2> QED BY <1>5, <2>1, <2>2, <2>3, Zenon DEF MonitorRespawn
<1>6. CASE StopFlag \/ StopLocked \/ HostDeath \/ Tick \/ \E w \in Workers : WorkerExit(w)
  BY <1>6, <1>u, Zenon DEF StopFlag, StopLocked, HostDeath, Tick, WorkerExit, inner
<1>7. CASE UNCHANGED supervisorVars
  BY <1>7, <1>u, Zenon DEF supervisorVars, inner
<1> QED
  BY <1>1, <1>2, <1>3, <1>4, <1>5, <1>6, <1>7, Zenon DEF SupervisorNext, MonitorStep

\* graceful_stop never opens a pid that Windows may have reused: a monitor
\* holds the handle of the process whenever its pid is recorded.
THEOREM PidPinned == SupervisorSpec => []PidIsPinned
<1>1. Pinned => PidIsPinned
  BY Zenon DEF Pinned
<1> QED BY InitPinned, NextPinned, <1>1, PTL DEF SupervisorSpec
-----------------------------------------------------------------------------
(* One spawn per supervisor.                                               *)

\* Both adapters create a supervisor for each start and spawn it once.
SpawnsOnce == MaxSpawns <= 1

\* Monitors are started in turn; one that has seen its worker exit is right,
\* and the restart limit is hit by a monitor that then ends.
Started ==
  /\ \A m \in Monitors : mon[m].pc # "none" => m <= spawns
  /\ \A m \in Monitors : mon[m].pc = "exited" => mon[m].child \notin alive
  /\ lastError = "exhausted" =>
       spawns = MaxSpawns /\ \A m \in Monitors : mon[m].pc = "done"

Tracked == Pinned /\ Started /\ AliveIsTracked

\* Of one supervisor that spawns once there is one monitor, and none before.
LEMMA OneMonitor ==
  ASSUME SpawnsOnce, SupervisorTyped
  PROVE  /\ \A m \in Monitors : m = 1 /\ MaxSpawns = 1
         /\ spawns < MaxSpawns => spawns = 0 /\ MaxSpawns = 1
BY ParametersAssumption DEF SpawnsOnce, Monitors, SupervisorTyped, SupervisorTypeOK

\* While no monitor watches a worker there is none.
LEMMA UnwatchedIsDead ==
  ASSUME Tracked, host = "up", \A m \in Monitors : ~Watching(m)
  PROVE  alive = {}
<1>1. pid = None
  BY Zenon DEF Tracked, Pinned, PidIsPinned, Watching
<1>2. alive \subseteq {None} /\ alive \subseteq Workers /\ None \notin Workers
  BY <1>1 DEF Tracked, Pinned, SupervisorTyped, SupervisorTypeOK, AliveIsTracked, Workers, None
<1> QED BY <1>2, Zenon

\* A fresh supervisor has lost sight of nothing.
LEMMA InitTracked == SupervisorInit => Tracked
BY InitPinned DEF SupervisorInit, Tracked, Started, AliveIsTracked

\* A launch by monitor m, when nothing runs: the new worker is the only one.
LEMMA LaunchTracked ==
  ASSUME SpawnsOnce, Tracked, Pinned', NEW o, Launched(o), alive = {}, lastError' # "exhausted",
         NEW m \in Monitors, mon'[m].pc = "waiting", m <= spawns'
  PROVE  Tracked'
<1>1. \A n \in Monitors : n = m
  BY OneMonitor, Zenon DEF Tracked, Pinned
<1>2. alive' = {pid'}
  BY Zenon DEF Launched
<1>3. Started'
  BY <1>1, Zenon DEF Started
<1> QED BY <1>2, <1>3, Zenon DEF Tracked, AliveIsTracked

\* A monitor whose worker has exited leaves nothing running.
LEMMA ExitedIsDead ==
  ASSUME SpawnsOnce, Tracked, NEW m \in Monitors, At(m, "exited")
  PROVE  alive = {}
<1>1. pid # None => mon[m].child = pid
  BY OneMonitor, Zenon DEF Tracked, Pinned, PidIsPinned
<1>2. pid # None => pid \notin alive
  BY <1>1, Zenon DEF At, Tracked, Started
<1>3. alive \subseteq {pid} /\ alive \subseteq Workers /\ None \notin Workers
  BY DEF At, Tracked, Pinned, SupervisorTyped, SupervisorTypeOK, AliveIsTracked, Workers, None
<1> QED BY <1>2, <1>3, Zenon

\* Every step of a supervisor that spawns once keeps its worker in sight.
LEMMA NextTracked == SpawnsOnce /\ Tracked /\ [SupervisorNext]_supervisorVars => Tracked'
<1> SUFFICES ASSUME SpawnsOnce, Tracked, [SupervisorNext]_supervisorVars PROVE Tracked'
  OBVIOUS
<1>t. Pinned /\ Pinned' /\ SupervisorTyped /\ SupervisorTyped' /\ Started
  BY NextPinned, Zenon DEF Tracked, Pinned
<1>u. ASSUME UNCHANGED <<mon, spawns, lastError>>, alive' \subseteq alive, host' = "up" => host = "up",
             pid' = pid \/ alive' = {}
      PROVE Tracked'
  BY <1>t, <1>u, Zenon DEF Tracked, Started, AliveIsTracked
<1>m. ASSUME NEW m \in Monitors, UNCHANGED <<spawns, lastError>>, host' = host,
             \A n \in Monitors : n # m => mon'[n] = mon[n],
             mon[m].pc \notin {"none", "done"}, mon'[m].child = mon[m].child,
             mon'[m].pc = "exited" => mon[m].child \notin alive,
             alive' \subseteq alive, pid' = pid \/ alive' = {}
      PROVE Tracked'
  <2>1. AliveIsTracked'
    BY <1>m, Zenon DEF Tracked, AliveIsTracked
  <2>2. Started'
    BY <1>t, <1>m, Zenon DEF Started
  <2> QED BY <1>t, <2>1, <2>2, Zenon DEF Tracked
<1>1. ASSUME NEW o \in AllOutcomes, SpawnSucceeds(o) PROVE Tracked'
  <2>1. /\ spawns = 0 /\ MaxSpawns = 1 /\ 1 \in Monitors /\ spawns' = 1
        /\ host = "up" /\ lastError' = "none" /\ Launched(o)
    BY <1>t, <1>1, OneMonitor DEF SpawnSucceeds, SpawnAccepted, Monitors
  <2>2. \A m \in Monitors : mon[m].pc = "none"
    BY <1>t, <2>1 DEF Started, Monitors
  <2>3. alive = {}
    BY <2>1, <2>2, UnwatchedIsDead, Zenon DEF Watching
  <2>4. mon'[1].pc = "waiting"
    BY <1>t, <1>1, <2>1, Zenon DEF SpawnSucceeds, SupervisorTyped, SupervisorTypeOK
  <2> QED BY <1>t, <2>1, <2>3, <2>4, LaunchTracked
<1>2. ASSUME NEW o \in AllOutcomes, SpawnFails(o) \/ SpawnCut(o) PROVE Tracked'
  <2>1. CASE SpawnFails(o)
    BY <1>t, <2>1, Zenon
    DEF SpawnFails, SpawnAccepted, NotLaunched, procs, Tracked, Started, AliveIsTracked
  <2>2. CASE SpawnCut(o)
    <3>1. spawns = 0 /\ MaxSpawns = 1 /\ lastError' = lastError /\ mon' = mon
          /\ host' = "down" /\ spawns' = spawns
      BY <1>t, <2>2, OneMonitor, Zenon DEF SpawnCut, SpawnAccepted, CutOff
    <3>2. \A m \in Monitors : mon[m].pc = "none"
      BY <1>t, <3>1 DEF Started, Monitors
    <3> QED BY <1>t, <3>1, <3>2, Zenon DEF Tracked, Started, AliveIsTracked
  <2> QED BY <1>2, <2>1, <2>2, Zenon
<1>3. ASSUME NEW m \in Monitors, MonitorExit(m) PROVE Tracked'
  BY <1>t, <1>3, <1>m, Zenon DEF MonitorExit, At, inner, procs, client, SupervisorTyped, SupervisorTypeOK
<1>4. ASSUME NEW m \in Monitors, MonitorStopped(m) PROVE Tracked'
  <2>1. alive = {}
    BY <1>4, ExitedIsDead, Zenon DEF MonitorStopped
  <2> QED
    BY <1>t, <1>4, <1>m, <2>1, Zenon
    DEF MonitorStopped, At, MonGoto, client, SupervisorTyped, SupervisorTypeOK
<1>5. ASSUME NEW m \in Monitors, MonitorCrashed(m) PROVE Tracked'
  <2>1. alive = {} /\ alive' = alive /\ host' = host /\ spawns' = spawns
    BY <1>5, ExitedIsDead, Zenon DEF MonitorCrashed, procs, client
  <2>2. CASE lastError' = lastError /\ lastError # "exhausted"
    BY <1>t, <1>5, <2>1, <2>2, Zenon
    DEF MonitorCrashed, At, MonGoto, SupervisorTyped, SupervisorTypeOK, Tracked, Started, AliveIsTracked
  <2>3. CASE lastError = "exhausted"
    BY <1>5, <2>3, Zenon DEF MonitorCrashed, At, Tracked, Started
  <2>4. CASE lastError' = "exhausted" /\ lastError # "exhausted"
    <3>1. mon' = [mon EXCEPT ![m].pc = "done"]
      BY <1>5, <2>4, Zenon DEF MonitorCrashed, MonGoto
    <3>2. \A n \in Monitors : n = m /\ n = 1 /\ MaxSpawns = 1
      BY <1>t, OneMonitor, Zenon
    <3>3. spawns = MaxSpawns
      BY <1>t, <1>5, <3>2 DEF MonitorCrashed, At, Started, SupervisorTyped, SupervisorTypeOK
    <3>4. \A n \in Monitors : mon'[n].pc = "done"
      BY <1>t, <3>1, <3>2, Zenon DEF SupervisorTyped, SupervisorTypeOK
    <3>5. Started'
      BY <1>t, <2>1, <3>2, <3>3, <3>4 DEF Started
    <3> QED BY <1>t, <2>1, <3>5, Zenon DEF Tracked, AliveIsTracked
  <2> QED BY <1>5, <2>2, <2>3, <2>4, Zenon DEF MonitorCrashed
<1>6. ASSUME NEW m \in Monitors, MonitorWake(m) \/ MonitorYield(m) PROVE Tracked'
  BY <1>t, <1>6, <1>m
  DEF MonitorWake, MonitorYield, At, MonGoto, SupervisorTyped, SupervisorTypeOK, inner, procs, client
<1>7. ASSUME NEW m \in Monitors, NEW o \in AllOutcomes, MonitorRespawn(m, o)
      PROVE Tracked'
  <2>1. mon[m].pc = "respawn" /\ host = "up" /\ lastError # "exhausted"
    BY <1>t, <1>7, Zenon
    DEF MonitorRespawn, RespawnSucceeds, RespawnFails, RespawnCut, At, Started
  <2>2. alive = {}
    BY <1>t, <2>1, OneMonitor, UnwatchedIsDead, Zenon DEF Watching
  <2>3. CASE RespawnSucceeds(m, o)
    <3>1. /\ Launched(o) /\ lastError' = lastError /\ mon'[m].pc = "waiting"
          /\ spawns' = spawns /\ m <= spawns
      BY <1>t, <2>1, <2>3 DEF RespawnSucceeds, client, SupervisorTyped, SupervisorTypeOK, Started
    <3> QED BY <1>t, <2>1, <2>2, <3>1, LaunchTracked, Zenon
  <2>4. CASE RespawnFails(m, o)
    BY <1>t, <2>1, <2>2, <2>4, Zenon
    DEF RespawnFails, NotLaunched, MonGoto, procs, client, SupervisorTyped, SupervisorTypeOK,
        Tracked, Started, AliveIsTracked
  <2>5. CASE RespawnCut(m, o)
    <3>1. /\ lastError' = lastError /\ mon' = mon /\ host' = "down" /\ spawns' = spawns
          /\ \A n \in Monitors : mon[n].pc = "respawn"
      BY <1>t, <2>1, <2>5, OneMonitor, Zenon DEF RespawnCut, CutOff, client
    <3> QED BY <1>t, <2>1, <3>1, Zenon DEF Tracked, Started, AliveIsTracked
  <2> QED BY <1>7, <2>3, <2>4, <2>5, Zenon DEF MonitorRespawn
<1>8. CASE StopFlag \/ HostDeath \/ Tick \/ \E w \in Workers : WorkerExit(w)
  BY <1>8, <1>u, Zenon DEF StopFlag, HostDeath, Tick, WorkerExit, inner, procs, client
<1>9. CASE StopLocked
  <2>1. alive' \subseteq alive /\ (pid' = pid \/ alive' = {})
    BY <1>9, Zenon DEF StopLocked, Tracked, AliveIsTracked
  <2> QED BY <1>9, <1>u, <2>1, Zenon DEF StopLocked
<1>10. CASE UNCHANGED supervisorVars
  BY <1>10, <1>u, Zenon DEF supervisorVars, inner, procs, client
<1> QED
  BY <1>1, <1>2, <1>3, <1>4, <1>5, <1>6, <1>7, <1>8, <1>9, <1>10, Zenon
  DEF SupervisorNext, Spawn, MonitorStep

\* A supervisor that spawns once never loses sight of a process, whether or
\* not its workers are inside their jobs: what runs is the recorded pid.
THEOREM WorkerStaysTracked == SpawnsOnce => (SupervisorSpec => []AliveIsTracked)
<1>1. Tracked => AliveIsTracked
  BY Zenon DEF Tracked
<1>2. ASSUME SpawnsOnce PROVE SupervisorSpec => []AliveIsTracked
  <2>1. Tracked /\ [SupervisorNext]_supervisorVars => Tracked'
    BY <1>2, NextTracked, Zenon
  <2> QED BY InitTracked, <1>1, <2>1, PTL DEF SupervisorSpec
<1> QED BY <1>2

\* Once the limit is hit nothing is started any more: the monitor has ended.
THEOREM ExhaustionIsFinal == SpawnsOnce => (SupervisorSpec => ExhaustedIsFinal)
<1> SUFFICES ASSUME SpawnsOnce PROVE SupervisorSpec => ExhaustedIsFinal
  OBVIOUS
<1>1. Tracked /\ [SupervisorNext]_supervisorVars => Tracked'
  BY NextTracked
<1>2. Tracked /\ [SupervisorNext]_supervisorVars
        => [lastError = "exhausted" => alive' \subseteq alive]_supervisorVars
  <2> SUFFICES ASSUME Tracked, SupervisorNext, lastError = "exhausted" PROVE alive' \subseteq alive
    OBVIOUS
  <2>1. spawns = MaxSpawns /\ \A m \in Monitors : mon[m].pc = "done"
    BY DEF Tracked, Started
  <2>2. spawns \in Nat
    BY DEF Tracked, Pinned, SupervisorTyped, SupervisorTypeOK
  <2>3. \A o : ~Spawn(o)
    BY <2>1, <2>2 DEF Spawn, SpawnSucceeds, SpawnFails, SpawnCut, SpawnAccepted
  <2>4. \A m \in Monitors : ~MonitorStep(m)
    BY <2>1, Zenon
    DEF MonitorStep, MonitorExit, MonitorStopped, MonitorCrashed, MonitorWake,
        MonitorYield, MonitorRespawn, RespawnSucceeds, RespawnFails, RespawnCut, At
  <2> QED
    BY <2>3, <2>4, Zenon
    DEF SupervisorNext, StopFlag, StopLocked, WorkerExit, HostDeath, Tick, procs
<1> QED BY InitTracked, <1>1, <1>2, PTL DEF SupervisorSpec, ExhaustedIsFinal
-----------------------------------------------------------------------------
(* The restart budget.                                                      *)

\* A worker that is being watched has not crashed yet, as far as the books go,
\* and no other monitor watches it.
Watches ==
  \A m \in Monitors :
    Watching(m) =>
      /\ mon[m].child \notin granted \cup stamps
      /\ \A n \in Monitors : Watching(n) /\ n # m => mon[n].child # mon[m].child

\* The books: stamps and grants belong to workers that were created, and a
\* granted crash is still stamped unless the window has moved past it.
Books ==
  /\ granted \cup stamps \subseteq 1..workers
  /\ \A w \in granted : stampAt[w] <= now
  /\ \A w \in granted : w \in stamps \/ now - stampAt[w] >= Window

\* The granted crashes of the window that ends at the crash of x.
WindowOf(x) == {w \in granted : /\ stampAt[w] <= stampAt[x]
                                /\ stampAt[x] - stampAt[w] < Window}

Budget == SupervisorTyped /\ Watches /\ Books /\ RestartBudget

\* Steps that leave the books alone leave the budget alone.
LEMMA BooksUnchanged ==
  ASSUME Budget, SupervisorTyped', UNCHANGED <<granted, stamps, stampAt, now>>,
         1..workers \subseteq 1..workers'
  PROVE Books' /\ RestartBudget'
BY Zenon DEF Budget, Books, RestartBudget

\* A fresh supervisor is within its budget.
LEMMA InitBudget == SupervisorInit => Budget
BY SupervisorInitTyped
DEF SupervisorInit, Budget, Watches, Watching, Books, RestartBudget

\* Time only moves stamps out of the window.
LEMMA TickBooks ==
  ASSUME Books, now \in Nat, stampAt \in [Workers -> Nat], granted \subseteq Workers,
         now' = now + 1, UNCHANGED <<granted, stamps, stampAt, workers>>
  PROVE  Books'
BY ParametersAssumption DEF Books

\* A launch gives its monitor a worker nobody knew.
LEMMA LaunchIsFresh ==
  ASSUME Budget, SupervisorTyped', NEW o, Launched(o), NEW m \in Monitors,
         mon'[m].pc = "waiting", mon'[m].child = NewWorker,
         \A n \in Monitors : n # m => mon'[n] = mon[n],
         UNCHANGED <<granted, stamps, stampAt, now>>
  PROVE Budget'
<1>1. /\ workers \in Nat /\ workers' = workers + 1 /\ NewWorker = workers + 1
      /\ 1..workers \subseteq 1..workers'
  <2>1. workers \in 0..MaxWorkers /\ workers' = workers + 1
    BY Zenon DEF Budget, SupervisorTyped, SupervisorTypeOK, Launched, NewWorker
  <2> QED BY <2>1 DEF NewWorker
<1>2. Books' /\ RestartBudget'
  BY <1>1, BooksUnchanged, Zenon
<1>3. NewWorker \notin 1..workers
  BY <1>1
<1>4. \A n \in Monitors : Watching(n) => mon[n].child \in 1..workers
  BY Zenon DEF Watching, Budget, SupervisorTyped, HasChild
<1>5. Watches'
  <2>1. NewWorker \notin granted \cup stamps
    BY <1>3, Zenon DEF Budget, Books
  <2>2. \A n \in Monitors :
          n # m /\ Watching(n)' => /\ Watching(n) /\ mon'[n].child = mon[n].child
                                  /\ mon[n].child # NewWorker
    BY <1>3, <1>4, Zenon DEF Watching
  <2> QED BY <2>1, <2>2, Zenon DEF Watches, Budget
<1> QED BY <1>2, <1>5, Zenon DEF Budget

\* Recording a crash keeps the books.  The window that ends at this crash holds
\* only stamps that are counted now; the windows that ended earlier are the same.
LEMMA CrashBooks ==
  ASSUME Budget, NEW m \in Monitors, MonitorCrashed(m)
  PROVE  LET recent == CurrentStamps(mon[m].child) IN
         /\ Books'
         /\ recent \subseteq 1..workers /\ workers \in Nat
         /\ granted' # granted => ~(Cardinality(recent) > MaxRestarts)
         /\ \A x \in granted' : \/ x \in granted /\ WindowOf(x)' = WindowOf(x)
                                \/ granted' # granted /\ WindowOf(x)' \subseteq recent
<1> DEFINE w == mon[m].child
           recent == CurrentStamps(w)
<1>1. /\ w \in Workers /\ w \in 1..workers /\ w \notin granted /\ w \notin stamps
      /\ workers \in Nat /\ now \in Nat /\ stampAt \in [Workers -> Nat]
      /\ granted \subseteq Workers /\ stamps \subseteq Workers
  <2>1. mon[m].pc = "exited" /\ Watching(m)
    BY Zenon DEF MonitorCrashed, At, Watching
  <2>2. /\ w \in 1..workers /\ w \notin granted /\ w \notin stamps
        /\ workers \in 0..MaxWorkers /\ now \in Nat /\ stampAt \in [Workers -> Nat]
        /\ granted \subseteq Workers /\ stamps \subseteq Workers
    BY <2>1, Zenon DEF Budget, Watches, SupervisorTyped, SupervisorTypeOK, HasChild
  <2>3. workers \in Nat /\ w \in Workers
    BY <2>2, ParametersAssumption DEF Workers
  <2> QED BY <2>2, <2>3, Zenon
<1>2. /\ stamps' = recent /\ now' = now /\ workers' = workers
      /\ stampAt' = [stampAt EXCEPT ![w] = now]
  BY Zenon DEF MonitorCrashed, procs
<1>3. /\ stampAt'[w] = now
      /\ \A x \in granted : stampAt'[x] = stampAt[x]
      /\ \A x \in granted : stampAt[x] <= now /\ stampAt[x] \in Nat
  BY <1>1, <1>2, Zenon DEF Budget, Books
<1>4. granted' = granted \/ granted' = granted \cup {w}
  BY Zenon DEF MonitorCrashed
<1>5. \A x \in granted : x \in recent \/ now - stampAt[x] >= Window
  BY <1>1, ParametersAssumption DEF Budget, Books, CurrentStamps
<1>6. w \in recent /\ recent \subseteq 1..workers
  BY <1>1, Zenon DEF CurrentStamps, Budget, Books
<1>7. Books'
  <2>1. now <= now
    BY <1>1
  <2>2. \A x \in granted' : stampAt'[x] <= now'
    BY <1>2, <1>3, <1>4, <2>1, Zenon
  <2>3. \A x \in granted' : x \in stamps' \/ now' - stampAt'[x] >= Window
    BY <1>2, <1>3, <1>4, <1>5, <1>6, Zenon
  <2>4. granted' \cup stamps' \subseteq 1..workers'
    BY <1>1, <1>2, <1>4, <1>6, Zenon DEF Budget, Books
  <2> QED BY <2>2, <2>3, <2>4, Zenon DEF Books
<1>8. granted' # granted => ~(Cardinality(recent) > MaxRestarts)
  BY Zenon DEF MonitorCrashed
<1>9. ASSUME NEW x \in granted'
      PROVE  \/ x \in granted /\ WindowOf(x)' = WindowOf(x)
             \/ granted' # granted /\ WindowOf(x)' \subseteq recent
  <2>1. CASE granted' = granted
    BY <1>3, <2>1, Zenon DEF WindowOf
  <2>2. CASE granted' = granted \cup {w} /\ stampAt'[x] = now
    <3>1. ASSUME NEW y \in granted, now - stampAt[y] < Window PROVE y \in recent
      <4>1. now \in Nat /\ stampAt[y] \in Nat /\ Window \in Nat
        BY <1>1, <1>3, ParametersAssumption, Zenon
      <4>2. ~(now - stampAt[y] >= Window)
        BY <3>1, <4>1
      <4> QED BY <1>5, <4>2, Zenon
    <3>2. WindowOf(x)' \subseteq recent
      BY <1>3, <1>6, <2>2, <3>1, Zenon DEF WindowOf
    <3> QED BY <1>1, <2>2, <3>2, Zenon
  <2>3. CASE granted' = granted \cup {w} /\ stampAt'[x] # now
    <3>1. x \in granted /\ stampAt'[x] = stampAt[x]
      BY <1>3, <2>3, Zenon
    <3>2. ~(now <= stampAt[x])
      <4>1. now \in Nat /\ stampAt[x] \in Nat /\ stampAt[x] <= now /\ stampAt[x] # now
        BY <1>1, <1>3, <2>3, <3>1, Zenon
      <4> QED BY <4>1
    <3> QED BY <1>3, <2>3, <3>1, <3>2, Zenon DEF WindowOf
  <2> QED BY <1>4, <2>1, <2>2, <2>3, Zenon
<1> QED BY <1>1, <1>6, <1>7, <1>8, <1>9, Zenon

INSTANCE FiniteSetTheorems

\* A part of a set of workers that holds at most k holds at most k.
LEMMA FewStamps ==
  ASSUME NEW n \in Nat, NEW k \in Nat, NEW S \in SUBSET (1..n), ~(Cardinality(S) > k),
         NEW T \in SUBSET S
  PROVE  Cardinality(T) <= k
<1>1. IsFiniteSet(1..n)
  <2>1. n \in Int /\ 1 \in Int
    OBVIOUS
  <2> QED BY <2>1, FS_Interval, Zenon
<1>2. IsFiniteSet(S)
  BY <1>1, FS_Subset, Zenon
<1>3. IsFiniteSet(T) /\ Cardinality(T) <= Cardinality(S)
  BY <1>2, FS_Subset, Zenon
<1>4. Cardinality(S) \in Nat /\ Cardinality(T) \in Nat
  BY <1>2, <1>3, FS_CardinalityType, Zenon
<1> QED BY <1>3, <1>4

\* Recording a crash keeps every window within the budget.
LEMMA CrashKeepsBudget ==
  ASSUME Budget, NEW m \in Monitors, MonitorCrashed(m)
  PROVE Books' /\ RestartBudget'
<1>1. MaxRestarts \in Nat
  BY ParametersAssumption, Zenon
<1>2. ASSUME NEW x \in granted' PROVE Cardinality(WindowOf(x)') <= MaxRestarts
  <2>1. CASE x \in granted /\ WindowOf(x)' = WindowOf(x)
    BY <2>1, Zenon DEF Budget, RestartBudget, WindowOf
  <2>2. CASE granted' # granted /\ WindowOf(x)' \subseteq CurrentStamps(mon[m].child)
    BY <1>1, <2>2, CrashBooks, FewStamps, Zenon
  <2> QED BY <2>1, <2>2, CrashBooks, Zenon
<1> QED BY <1>2, CrashBooks, Zenon DEF RestartBudget, WindowOf

\* Every step keeps the supervisor within its budget.
LEMMA NextBudget == Budget /\ [SupervisorNext]_supervisorVars => Budget'
<1> SUFFICES ASSUME Budget, [SupervisorNext]_supervisorVars PROVE Budget'
  OBVIOUS
<1>t. SupervisorTyped /\ SupervisorTyped'
  BY SupervisorNextTyped, Zenon DEF Budget
<1>u. ASSUME UNCHANGED <<granted, stamps, stampAt, now, mon>>,
             1..workers \subseteq 1..workers'
      PROVE Budget'
  <2>1. Books' /\ RestartBudget'
    BY <1>t, <1>u, BooksUnchanged, Zenon
  <2>2. Watches'
    BY <1>u, Zenon DEF Budget, Watches, Watching
  <2> QED BY <1>t, <2>1, <2>2, Zenon DEF Budget
<1>1. ASSUME NEW o \in AllOutcomes, SpawnSucceeds(o) PROVE Budget'
  <2>1. spawns + 1 \in Monitors
    BY <1>1, <1>t, NextMonitor, Zenon DEF SpawnSucceeds
  <2>2. /\ Launched(o) /\ UNCHANGED <<granted, stamps, stampAt, now>>
        /\ mon'[spawns + 1].pc = "waiting"
        /\ mon'[spawns + 1].child = NewWorker
        /\ \A n \in Monitors : n # spawns + 1 => mon'[n] = mon[n]
    BY <1>1, <1>t, <2>1, Zenon DEF SpawnSucceeds, SpawnAccepted, SupervisorTyped, SupervisorTypeOK
  <2> QED BY <1>t, <2>1, <2>2, LaunchIsFresh, Zenon
<1>2. ASSUME NEW o \in AllOutcomes, SpawnFails(o) PROVE Budget'
  BY <1>2, <1>u, Zenon DEF SpawnFails, SpawnAccepted, NotLaunched, procs
<1>3. ASSUME NEW o \in AllOutcomes, SpawnCut(o) PROVE Budget'
  <2>1. 1..workers \subseteq 1..workers'
    BY <1>3, <1>t, CutOffTyped, Zenon DEF SpawnCut
  <2> QED BY <1>3, <1>u, <2>1, Zenon DEF SpawnCut, SpawnAccepted
<1>4. ASSUME NEW m \in Monitors,
             mon[m].pc \notin {"waiting", "exited"},
             mon'[m].pc \notin {"waiting", "exited"},
             \A n \in Monitors : n # m => mon'[n] = mon[n],
             UNCHANGED <<granted, stamps, stampAt, now, workers>>
      PROVE Budget'
  <2>1. Books' /\ RestartBudget'
    BY <1>t, <1>4, BooksUnchanged, Zenon
  <2>2. Watches'
    BY <1>4, Zenon DEF Budget, Watches, Watching
  <2> QED BY <1>t, <2>1, <2>2, Zenon DEF Budget
<1>5. ASSUME NEW m \in Monitors, MonitorExit(m) PROVE Budget'
  <2>1. Books' /\ RestartBudget'
    BY <1>t, <1>5, BooksUnchanged, Zenon DEF MonitorExit, inner, procs, history
  <2>2. /\ \A n \in Monitors : mon'[n].child = mon[n].child
        /\ \A n \in Monitors : Watching(n)' <=> Watching(n)
        /\ UNCHANGED <<granted, stamps>>
    BY <1>t, <1>5
    DEF MonitorExit, At, Watching, SupervisorTyped, SupervisorTypeOK, inner, history
  <2>3. Watches'
    BY <2>2, Zenon DEF Budget, Watches, Watching
  <2> QED BY <1>t, <2>1, <2>3, Zenon DEF Budget
<1>6. ASSUME NEW m \in Monitors, MonitorStopped(m) PROVE Budget'
  <2>1. Books' /\ RestartBudget'
    BY <1>t, <1>6, BooksUnchanged, Zenon DEF MonitorStopped, history
  <2>2. /\ \A n \in Monitors : mon'[n].child = mon[n].child
        /\ \A n \in Monitors : Watching(n)' => Watching(n)
        /\ UNCHANGED <<granted, stamps>>
    BY <1>t, <1>6
    DEF MonitorStopped, MonGoto, Watching, SupervisorTyped, SupervisorTypeOK, history
  <2>3. Watches'
    BY <2>2, Zenon DEF Budget, Watches
  <2> QED BY <1>t, <2>1, <2>3 DEF Budget
<1>7. ASSUME NEW m \in Monitors, MonitorCrashed(m) PROVE Budget'
  <2>1. Books' /\ RestartBudget'
    BY <1>t, <1>7, CrashKeepsBudget, Zenon
  <2>2. /\ \A n \in Monitors : mon'[n].child = mon[n].child
        /\ \A n \in Monitors : Watching(n)' => Watching(n) /\ n # m
        /\ Watching(m)
    BY <1>t, <1>7
    DEF MonitorCrashed, At, MonGoto, Watching, SupervisorTyped, SupervisorTypeOK
  <2>3. granted' \cup stamps' \subseteq granted \cup stamps \cup {mon[m].child}
    BY <1>7, Zenon DEF MonitorCrashed, CurrentStamps
  <2>4. Watches'
    BY <2>2, <2>3, Zenon DEF Budget, Watches
  <2> QED BY <1>t, <2>1, <2>4 DEF Budget
<1>8. ASSUME NEW m \in Monitors, MonitorWake(m) \/ MonitorYield(m) PROVE Budget'
  BY <1>t, <1>4, <1>8
  DEF MonitorWake, MonitorYield, At, MonGoto, SupervisorTyped, SupervisorTypeOK, inner, procs, history
<1>9. ASSUME NEW m \in Monitors, NEW o \in AllOutcomes, RespawnSucceeds(m, o)
      PROVE Budget'
  <2>1. /\ Launched(o) /\ UNCHANGED <<granted, stamps, stampAt, now>>
        /\ mon'[m].pc = "waiting" /\ mon'[m].child = NewWorker
        /\ \A n \in Monitors : n # m => mon'[n] = mon[n]
    BY <1>9, <1>t, Zenon DEF RespawnSucceeds, SupervisorTyped, SupervisorTypeOK, history
  <2> QED BY <1>t, <2>1, LaunchIsFresh, Zenon
<1>10. ASSUME NEW m \in Monitors, NEW o \in AllOutcomes, RespawnFails(m, o)
       PROVE Budget'
  BY <1>t, <1>4, <1>10, Zenon
  DEF RespawnFails, NotLaunched, At, MonGoto, SupervisorTyped, SupervisorTypeOK, procs, history
<1>11. ASSUME NEW m \in Monitors, NEW o \in AllOutcomes, RespawnCut(m, o)
       PROVE Budget'
  <2>1. 1..workers \subseteq 1..workers'
    BY <1>11, <1>t, CutOffTyped, Zenon DEF RespawnCut
  <2> QED BY <1>11, <1>u, <2>1, Zenon DEF RespawnCut, history
<1>12. CASE StopFlag \/ StopLocked \/ HostDeath \/ \E w \in Workers : WorkerExit(w)
  BY <1>12, <1>u, Zenon
  DEF StopFlag, StopLocked, HostDeath, WorkerExit, inner, procs, history
<1>13. CASE Tick
  <2>1. /\ now' = now + 1 /\ now \in Nat /\ stampAt \in [Workers -> Nat]
        /\ granted \subseteq Workers
        /\ UNCHANGED <<granted, stamps, stampAt, workers, mon>>
    BY <1>13, <1>t, Zenon DEF Tick, SupervisorTyped, SupervisorTypeOK, inner, procs, history
  <2>2. Books'
    BY <2>1, TickBooks, Zenon DEF Budget
  <2>3. RestartBudget' /\ Watches'
    BY <2>1, Zenon DEF Budget, RestartBudget, Watches, Watching
  <2> QED BY <1>t, <2>2, <2>3, Zenon DEF Budget
<1>14. CASE UNCHANGED supervisorVars
  BY <1>14, <1>u, Zenon DEF supervisorVars, inner, procs, history
<1> QED
  BY <1>1, <1>2, <1>3, <1>5, <1>6, <1>7, <1>8, <1>9, <1>10, <1>11, <1>12,
     <1>13, <1>14, Zenon
  DEF SupervisorNext, Spawn, MonitorStep, MonitorRespawn

\* For any limit and window, and even if one supervisor is used for several
\* spawns with overlapping monitors: no rolling window holds more restarts
\* than the limit.
THEOREM BudgetKept == SupervisorSpec => []RestartBudget
<1>1. Budget => RestartBudget
  BY Zenon DEF Budget
<1> QED BY InitBudget, NextBudget, <1>1, PTL DEF SupervisorSpec
=============================================================================
