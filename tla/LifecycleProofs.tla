-------------------------- MODULE LifecycleProofs --------------------------
(***************************************************************************)
(* Proofs about Lifecycle, for every set of probes and files, every number *)
(* of restarts and every bound on edits, signals and faults.               *)
(***************************************************************************)
EXTENDS Lifecycle, TLAPS

(* Type correctness. *)

\* What a file that can be in place gives parse_config.
LEMMA FileType ==
    ASSUME NEW d \in Files
    PROVE  /\ DOMAIN d.probes \subseteq Probes
           /\ \A p \in DOMAIN d.probes : d.probes[p] \in Value
           /\ d.includes \in Includes /\ d.bad \in BOOLEAN
BY LifecycleAssumption DEF IsFile

\* The queues after some changes were forwarded.
LEMMA ForwardType ==
    ASSUME TypeOK, NEW d \in Files, NEW names \in SUBSET DOMAIN d.probes
    PROVE  Forward(d, names) \in [Probes -> Seq(Value)]
<1>1. \A p \in names : d.probes[p] \in Value
  BY FileType
<1>2. \A p \in Probes : p \in names => Append(queue[p], d.probes[p]) \in Seq(Value)
  BY <1>1 DEF TypeOK
<1> QED
  BY <1>2 DEF Forward, TypeOK

\* parse_config keeps the types of the configuration, whichever way out it takes.
LEMMA ParseType ==
    ASSUME TypeOK, NEW d \in Files, NEW v \in Nat, Parse(d, v)
    PROVE  /\ DOMAIN ns' \subseteq Probes /\ \A p \in DOMAIN ns' : ns'[p] \in Value \cup {None}
           /\ callbacks' \subseteq Probes /\ loaded' \in Includes \cup {None}
           /\ queue' \in [Probes -> Seq(Value)] /\ queue_id' \in [Probes -> Nat]
           /\ rlock' \in [Probes -> {"free", "held", "orphaned"}]
           /\ pending' \subseteq {"SIGHUP", "SIGTERM"}
           /\ parsed' \in Nat
<1>1. CASE ParseNames(d)
  BY <1>1 DEF ParseNames, ClearAndRestart, ResetValues, DropNamespaces, ProbeNames, TypeOK
<1>2. CASE ParseCold(d)
  <2>1. PICK names \in SUBSET (Different(d) \ ColdChanged(d)) : queue' = Forward(d, names)
    BY <1>2 DEF ParseCold
  <2>2. names \in SUBSET DOMAIN d.probes
    BY DEF Different
  <2>3. queue' \in [Probes -> Seq(Value)]
    BY <2>1, <2>2, ForwardType
  <2> QED
    BY <1>2, <2>3, FileType DEF ParseCold, ClearAndRestart, ResetValues, ProbeNames, TypeOK
<1>3. CASE ParseHot(d, v)
  <2> DEFINE first == DOMAIN d.probes \ callbacks
             fwd == Forward(d, Different(d))
  <2>1. fwd \in [Probes -> Seq(Value)]
    BY ForwardType DEF Different
  <2>2. /\ queue' = [p \in Probes |-> IF p \in first THEN <<>> ELSE fwd[p]]
        /\ queue_id' = [p \in Probes |-> IF p \in first THEN queue_id[p] + 1 ELSE queue_id[p]]
        /\ rlock' = [p \in Probes |-> IF p \in first THEN "free" ELSE rlock[p]]
    BY <1>3 DEF ParseHot
  <2> HIDE DEF fwd, first
  <2>3. <<>> \in Seq(Value)
    OBVIOUS
  <2>4. queue' \in [Probes -> Seq(Value)]
    BY <2>1, <2>2, <2>3
  <2>5. /\ queue_id' \in [Probes -> Nat]
        /\ rlock' \in [Probes -> {"free", "held", "orphaned"}]
    BY <2>2 DEF TypeOK
  <2> QED
    BY <1>3, <2>4, <2>5, FileType DEF ParseHot, TypeOK
<1> QED
  BY <1>1, <1>2, <1>3 DEF Parse

\* The initial states are type correct.
LEMMA TypeInit == Init => TypeOK
<1> SUFFICES ASSUME Init PROVE TypeOK
  OBVIOUS
<1>1. MAX_RESTARTS \in Nat \ {0}
  BY LifecycleAssumption
<1>2. DOMAIN ns = {} /\ DOMAIN to_start = {} /\ <<>> \in Seq(Value)
  BY DEF Init
<1>3. queue \in [Probes -> Seq(Value)]
  BY <1>2 DEF Init
<1>4. gen \in Gens
  BY <1>1 DEF Init, Gens
<1> QED
  BY <1>2, <1>3, <1>4 DEF Init, TypeOK

\* Terminating the workers keeps their types.
LEMMA TerminateType ==
    ASSUME TypeOK, TerminateWorkers
    PROVE  /\ worker' \in [Gens -> [Probes -> {"none", "live", "dead"}]]
           /\ rlock' \in [Probes -> {"free", "held", "orphaned"}]
BY DEF TypeOK, TerminateWorkers, LockAfterDeath

\* One more edit, signal or fault.
Env == [edits : Nat, hups : Nat, terms : Nat, faults : Nat, bad : BOOLEAN]
LEMMA EnvType ==
    ASSUME TypeOK
    PROVE  /\ \A b \in BOOLEAN : [env EXCEPT !.edits = @ + 1, !.bad = b] \in Env
           /\ [env EXCEPT !.hups = @ + 1] \in Env
           /\ [env EXCEPT !.terms = @ + 1] \in Env
           /\ [env EXCEPT !.faults = @ + 1] \in Env
<1>1. env \in Env
  BY DEF TypeOK, Env
<1>2. /\ env.edits + 1 \in Nat /\ env.hups + 1 \in Nat /\ env.terms + 1 \in Nat
      /\ env.faults + 1 \in Nat /\ env.bad \in BOOLEAN
  BY <1>1 DEF Env
<1> QED
  BY <1>1, <1>2 DEF Env

\* A watchdog that is about to apply a configuration has read one.
DataRead ==
    \A g \in Gens : watchdog[g] = "apply" => data[g] \in [file : Files, version : Nat]

\* Every step of the main thread, of signal delivery, of a watchdog, a sidecar
\* or the environment keeps the types.
LEMMA TypeStep == TypeOK /\ DataRead /\ [Next]_vars => TypeOK'
<1> SUFFICES ASSUME TypeOK, DataRead, [Next]_vars PROVE TypeOK'
  OBVIOUS
<1> USE DEF fileVars, confVars, procVars, workVars
<1>1. CASE SetupConfig
  <2>1. CASE disk.bad /\ Exit(1) /\ UNCHANGED <<confVars, pending, parsed, rlock>>
    BY <1>1, <2>1 DEF SetupConfig, Exit, TypeOK
  <2>2. CASE ~disk.bad /\ Parse(disk, version) /\ pc' = "watcher" /\ UNCHANGED exit_code
    <3>1. disk \in Files /\ version \in Nat
      BY DEF TypeOK
    <3> QED
      BY <1>1, <2>2, <3>1, ParseType DEF SetupConfig, TypeOK
  <2> QED
    BY <1>1, <2>1, <2>2 DEF SetupConfig
<1>2. CASE MakeWatcher
  BY <1>2 DEF MakeWatcher, TypeOK
<1>3. CASE LoadProbes
  <2>1. \A p \in ProbeNames : ProbeConfig(p) \in [value : Value \cup {None}, reads : Nat]
    BY DEF ProbeNames, ProbeConfig, TypeOK
  <2>2. DOMAIN to_start' \subseteq Probes
    BY <1>3 DEF LoadProbes, ProbeNames, TypeOK
  <2>3. \A p \in DOMAIN to_start' : to_start'[p] \in [value : Value \cup {None}, reads : Nat]
    BY <1>3, <2>1 DEF LoadProbes
  <2> QED
    BY <1>3, <2>2, <2>3 DEF LoadProbes, TypeOK
<1>4. CASE AppendWorker
  BY <1>4 DEF AppendWorker, TypeOK
<1>5. ASSUME NEW p \in Probes, StartWorker(p) PROVE TypeOK'
  <2>1. to_start[p].value \in Value \cup {None} /\ to_start[p].reads \in Nat
    BY <1>5 DEF StartWorker, TypeOK
  <2>2. /\ DOMAIN to_start' \subseteq Probes
        /\ \A q \in DOMAIN to_start' : to_start'[q] \in [value : Value \cup {None}, reads : Nat]
    BY <1>5 DEF StartWorker, TypeOK
  <2>3. /\ compiled' \in [Probes -> Value \cup {None}] /\ reads' \in [Probes -> Nat]
        /\ applied' \in [Probes -> Value \cup {None}]
        /\ received' \in [Probes -> Value \cup {None}]
    BY <1>5, <2>1 DEF StartWorker, TypeOK
  <2>4. /\ worker' \in [Gens -> [Probes -> {"none", "live", "dead"}]]
        /\ sidecar' \in [Probes -> {"off", "holding", "busy"}]
    BY <1>5 DEF StartWorker, TypeOK
  <2> QED
    BY <1>5, <2>2, <2>3, <2>4 DEF StartWorker, TypeOK
<1>6. CASE StartWatchdog
  BY <1>6 DEF StartWatchdog, TypeOK
<1>7. CASE StopWatchdog
  BY <1>7 DEF StopWatchdog, TypeOK
<1>8. CASE Restart
  <2>1. gen' \in Gens /\ exit_code' \in {0, 1}
    BY <1>8, LifecycleAssumption DEF Restart, MayRestart, Exit, Gens, TypeOK
  <2> QED
    BY <1>8, <2>1 DEF Restart, Exit, TypeOK
<1>9. CASE OutputFails
  BY <1>9, TerminateType DEF OutputFails, Exit, TypeOK
<1>10. ASSUME NEW signum \in {"SIGHUP", "SIGTERM"}, DeliverSignal(signum) PROVE TypeOK'
  BY <1>10, TerminateType DEF DeliverSignal, Exit, TypeOK
<1>11. ASSUME NEW g \in Gens, WatchdogWakes(g) PROVE TypeOK'
  BY <1>11 DEF WatchdogWakes, WatchdogAt, TypeOK
<1>12. ASSUME NEW g \in Gens, HealthCheck(g) PROVE TypeOK'
  <2>1. /\ watchdog \in [Gens -> {"none", "sleep", "health", "watch", "read", "apply", "done"}]
        /\ pending \subseteq {"SIGHUP", "SIGTERM"} /\ exit_code \in {0, 1}
    BY DEF TypeOK
  <2>2. /\ watchdog' = [watchdog EXCEPT ![g] = "watch"] \/ watchdog' = [watchdog EXCEPT ![g] = "done"]
        /\ exit_code' = exit_code \/ exit_code' = 1
        /\ pending' = pending \/ pending' = pending \cup {"SIGTERM"}
    BY <1>12 DEF HealthCheck, FailureCode
  <2>3. watchdog' \in [Gens -> {"none", "sleep", "health", "watch", "read", "apply", "done"}]
    BY <2>1, <2>2
  <2>4. pending' \subseteq {"SIGHUP", "SIGTERM"} /\ exit_code' \in {0, 1}
    BY <2>1, <2>2
  <2> QED
    BY <1>12, <2>3, <2>4 DEF HealthCheck, TypeOK
<1>13. ASSUME NEW g \in Gens, CheckChanged(g) PROVE TypeOK'
  BY <1>13 DEF CheckChanged, WatchdogAt, TypeOK
<1>14. ASSUME NEW g \in Gens, ReadConfig(g) PROVE TypeOK'
  <2>1. [file |-> disk, version |-> version] \in [file : Files, version : Nat]
    BY DEF TypeOK
  <2>2. data' \in [Gens -> [file : Files, version : Nat] \cup {None}]
    <3>1. data \in [Gens -> [file : Files, version : Nat] \cup {None}]
      BY DEF TypeOK
    <3>2. data' = data \/ data' = [data EXCEPT ![g] = [file |-> disk, version |-> version]]
      BY <1>14 DEF ReadConfig
    <3> QED
      BY <2>1, <3>1, <3>2
  <2>3. watchdog' \in [Gens -> {"none", "sleep", "health", "watch", "read", "apply", "done"}]
    <3>1. watchdog \in [Gens -> {"none", "sleep", "health", "watch", "read", "apply", "done"}]
      BY DEF TypeOK
    <3>2. watchdog' = [watchdog EXCEPT ![g] = "sleep"] \/ watchdog' = [watchdog EXCEPT ![g] = "apply"]
      BY <1>14 DEF ReadConfig
    <3> QED
      BY <3>1, <3>2
  <2>4. pending' \subseteq {"SIGHUP", "SIGTERM"}
    <3>1. pending \subseteq {"SIGHUP", "SIGTERM"}
      BY DEF TypeOK
    <3>2. pending' = pending \/ pending' = pending \cup {"SIGHUP"}
      BY <1>14 DEF ReadConfig
    <3> QED
      BY <3>1, <3>2
  <2> QED
    BY <1>14, <2>2, <2>3, <2>4 DEF ReadConfig, TypeOK
<1>15. ASSUME NEW g \in Gens, ApplyConfig(g) PROVE TypeOK'
  <2>1. data[g].file \in Files /\ data[g].version \in Nat
    BY <1>15 DEF ApplyConfig, WatchdogAt, DataRead
  <2>2. Parse(data[g].file, data[g].version)
    BY <1>15 DEF ApplyConfig
  <2> QED
    BY <1>15, <2>1, <2>2, ParseType DEF ApplyConfig, TypeOK
<1>16. ASSUME NEW p \in Probes, SidecarLock(p) PROVE TypeOK'
  BY <1>16 DEF SidecarLock, TypeOK
<1>17. ASSUME NEW p \in Probes, SidecarReceive(p) PROVE TypeOK'
  <2>1. Head(queue[p]) \in Value /\ Tail(queue[p]) \in Seq(Value)
    BY <1>17 DEF SidecarReceive, TypeOK
  <2> QED
    BY <1>17, <2>1 DEF SidecarReceive, TypeOK
<1>18. ASSUME NEW p \in Probes, SidecarApply(p) PROVE TypeOK'
  BY <1>18 DEF SidecarApply, TypeOK
<1>19. ASSUME NEW p \in Probes, WorkerCrashes(p) PROVE TypeOK'
  <2>1. env' \in Env
    BY <1>19, EnvType DEF WorkerCrashes
  <2>2. /\ worker' \in [Gens -> [Probes -> {"none", "live", "dead"}]]
        /\ rlock' \in [Probes -> {"free", "held", "orphaned"}]
    BY <1>19 DEF WorkerCrashes, LockAfterDeath, TypeOK
  <2> QED
    BY <1>19, <2>1, <2>2 DEF WorkerCrashes, TypeOK, Env
<1>20. CASE EditConfig
  <2>1. disk' \in Files /\ disk'.bad \in BOOLEAN
    BY <1>20, FileType DEF EditConfig
  <2>2. version' \in Nat
    BY <1>20 DEF EditConfig, TypeOK
  <2>3. (env.bad \/ disk'.bad) \in BOOLEAN
    BY Zenon
  <2>4. env' = [env EXCEPT !.edits = @ + 1, !.bad = env.bad \/ disk'.bad]
    BY <1>20 DEF EditConfig
  <2>5. env' \in Env
    BY <2>3, <2>4, EnvType
  <2> QED
    BY <1>20, <2>1, <2>2, <2>5 DEF EditConfig, TypeOK, Env
<1>21. CASE SendSignal
  <2>1. env' \in Env
    BY <1>21, EnvType DEF SendSignal
  <2>2. pending' \subseteq {"SIGHUP", "SIGTERM"}
    <3>1. pending \subseteq {"SIGHUP", "SIGTERM"}
      BY DEF TypeOK
    <3>2. pending' = pending \cup {"SIGHUP"} \/ pending' = pending \cup {"SIGTERM"}
      BY <1>21 DEF SendSignal
    <3> QED
      BY <3>1, <3>2
  <2> QED
    BY <1>21, <2>1, <2>2 DEF SendSignal, TypeOK, Env
<1>22. CASE OutputBreaks
  <2>1. env' \in Env
    BY <1>22, EnvType DEF OutputBreaks
  <2> QED
    BY <1>22, <2>1 DEF OutputBreaks, TypeOK, Env
<1>23. CASE UNCHANGED vars
  BY <1>23 DEF vars, TypeOK
<1> QED
  BY <1>1, <1>2, <1>3, <1>4, <1>5, <1>6, <1>7, <1>8, <1>9, <1>10, <1>11, <1>12, <1>13, <1>14,
     <1>15, <1>16, <1>17, <1>18, <1>19, <1>20, <1>21, <1>22, <1>23
     DEF Next, Main, Watchdog, Sidecar

\* Only ReadConfig sends a watchdog to apply a configuration, and leaves it one.
LEMMA DataReadStep == TypeOK /\ DataRead /\ [Next]_vars => DataRead'
<1> SUFFICES ASSUME TypeOK, DataRead, [Next]_vars PROVE DataRead'
  OBVIOUS
<1>1. CASE UNCHANGED <<watchdog, data>>
  BY <1>1 DEF DataRead
<1>2. ASSUME NEW g \in Gens, ReadConfig(g) PROVE DataRead'
  <2>1. [file |-> disk, version |-> version] \in [file : Files, version : Nat]
    BY DEF TypeOK
  <2>2. \A h \in Gens \ {g} : watchdog'[h] = watchdog[h] /\ data'[h] = data[h]
    BY <1>2 DEF ReadConfig, TypeOK
  <2>3. watchdog'[g] = "apply" => data'[g] = [file |-> disk, version |-> version]
    BY <1>2 DEF ReadConfig, TypeOK
  <2> QED
    BY <2>1, <2>2, <2>3 DEF DataRead
<1>3. ASSUME NEW g \in Gens, NEW label \in {"sleep", "health", "watch", "done"},
             watchdog' = [watchdog EXCEPT ![g] = label],
             \A h \in Gens \ {g} : data'[h] = data[h]
      PROVE  DataRead'
  BY <1>3 DEF DataRead, TypeOK
<1>4. ASSUME NEW g \in Gens, WatchdogWakes(g) \/ HealthCheck(g) \/ CheckChanged(g)
      PROVE  DataRead'
  <2>1. data' = data
    BY <1>4 DEF WatchdogWakes, HealthCheck, CheckChanged
  <2>2. CASE WatchdogWakes(g)
    <3>1. watchdog' = [watchdog EXCEPT ![g] = "done"]
          \/ watchdog' = [watchdog EXCEPT ![g] = "health"]
      BY <2>2 DEF WatchdogWakes
    <3> QED
      BY <2>1, <3>1 DEF DataRead, TypeOK
  <2>3. CASE HealthCheck(g)
    BY <1>3, <2>1, <2>3 DEF HealthCheck
  <2>4. CASE CheckChanged(g)
    <3>1. watchdog' = [watchdog EXCEPT ![g] = "sleep"]
          \/ watchdog' = [watchdog EXCEPT ![g] = "read"]
      BY <2>4 DEF CheckChanged
    <3> QED
      BY <2>1, <3>1 DEF DataRead, TypeOK
  <2> QED
    BY <1>4, <2>2, <2>3, <2>4
<1>5. ASSUME NEW g \in Gens, ApplyConfig(g) PROVE DataRead'
  BY <1>3, <1>5 DEF ApplyConfig, TypeOK
<1>6. CASE StartWatchdog
  <2>1. gen \in Gens
    BY DEF TypeOK
  <2> QED
    BY <1>3, <1>6, <2>1 DEF StartWatchdog
<1>7. CASE Main /\ ~StartWatchdog
  BY <1>1, <1>7 DEF Main, SetupConfig, MakeWatcher, LoadProbes, AppendWorker, StopWatchdog,
                    Restart, StartWorker
<1>8. CASE OutputFails \/ \E signum \in {"SIGHUP", "SIGTERM"} : DeliverSignal(signum)
  BY <1>1, <1>8 DEF OutputFails, DeliverSignal
<1>9. ASSUME NEW p \in Probes, Sidecar(p) \/ WorkerCrashes(p) PROVE DataRead'
  BY <1>1, <1>9 DEF Sidecar, SidecarLock, SidecarReceive, SidecarApply, WorkerCrashes
<1>10. CASE EditConfig \/ SendSignal \/ OutputBreaks
  BY <1>1, <1>10 DEF EditConfig, SendSignal, OutputBreaks
<1>11. CASE UNCHANGED vars
  BY <1>1, <1>11 DEF vars
<1> QED
  BY <1>2, <1>4, <1>5, <1>6, <1>7, <1>8, <1>9, <1>10, <1>11 DEF Next, Watchdog

\* What TypeOK needs to be inductive.
Typed == TypeOK /\ DataRead

\* It holds at the start and every step keeps it.
LEMMA TypedInvariant == (Init => Typed) /\ (Typed /\ [Next]_vars => Typed')
<1>1. Init => DataRead
  BY DEF Init, DataRead
<1> QED
  BY <1>1, TypeInit, TypeStep, DataReadStep DEF Typed

\* Every state of the main process and its workers is well typed: a watchdog that
\* outlives its generation finds what it read, and no more than MAX_RESTARTS
\* generations are started.
THEOREM TypeCorrect == Spec => []TypeOK
<1>1. Typed => TypeOK
  BY DEF Typed
<1> QED
  BY TypedInvariant, <1>1, PTL DEF Spec

-----------------------------------------------------------------------------
(* Workers and generations. *)

\* No step starts a worker outside the present generation or ends a generation
\* with one alive.
LEMMA OrphanStep == TypeOK /\ NoOrphanWorkers /\ [Next]_vars => NoOrphanWorkers'
<1> SUFFICES ASSUME TypeOK, NoOrphanWorkers, [Next]_vars,
                    NEW g \in Gens, NEW p \in Probes, worker'[g][p] = "live"
             PROVE  g = gen' /\ pc' \in {"spawn", "append", "run"}
  BY DEF NoOrphanWorkers
<1> DEFINE Goal == g = gen' /\ pc' \in {"spawn", "append", "run"}
<1> USE DEF procVars, workVars
<1>1. worker[g][p] = "live" => g = gen /\ pc \in {"spawn", "append", "run"}
  BY DEF NoOrphanWorkers
<1>2. CASE UNCHANGED <<worker, pc, gen>>
  BY <1>1, <1>2
<1>3. TerminateWorkers => FALSE
  <2> SUFFICES ASSUME TerminateWorkers PROVE FALSE
    OBVIOUS
  <2>1. worker'[gen] = [q \in Probes |-> IF worker[gen][q] = "live" THEN "dead" ELSE worker[gen][q]]
        /\ \A h \in Gens \ {gen} : worker'[h] = worker[h]
    BY DEF TerminateWorkers, TypeOK
  <2> QED
    BY <1>1, <2>1
<1>4. CASE SetupConfig \/ MakeWatcher \/ LoadProbes \/ AppendWorker \/ StartWatchdog
           \/ StopWatchdog \/ Restart
  <2>1. worker' = worker
    BY <1>4 DEF SetupConfig, MakeWatcher, LoadProbes, AppendWorker, StartWatchdog,
                StopWatchdog, Restart
  <2> QED
    BY <1>1, <1>4, <2>1 DEF SetupConfig, MakeWatcher, LoadProbes, AppendWorker, StartWatchdog,
                            StopWatchdog, Restart
<1>5. ASSUME NEW q \in Probes, StartWorker(q) PROVE Goal
  <2>1. gen' = gen /\ pc' = "spawn" /\ gen \in Gens
    BY <1>5 DEF StartWorker, TypeOK
  <2>2. g # gen => worker'[g][p] = worker[g][p]
    BY <1>5 DEF StartWorker, TypeOK
  <2> QED
    BY <1>1, <2>1, <2>2
<1>6. CASE OutputFails \/ \E signum \in {"SIGHUP", "SIGTERM"} : DeliverSignal(signum)
  BY <1>3, <1>6 DEF OutputFails, DeliverSignal
<1>7. ASSUME NEW h \in Gens, Watchdog(h) PROVE Goal
  BY <1>2, <1>7 DEF Watchdog, WatchdogWakes, HealthCheck, CheckChanged, ReadConfig, ApplyConfig
<1>8. ASSUME NEW q \in Probes, Sidecar(q) PROVE Goal
  BY <1>2, <1>8 DEF Sidecar, SidecarLock, SidecarReceive, SidecarApply
<1>9. ASSUME NEW q \in Probes, WorkerCrashes(q) PROVE Goal
  <2>1. worker[g][p] = "live"
    BY <1>9 DEF WorkerCrashes, TypeOK
  <2> QED
    BY <1>1, <1>9, <2>1 DEF WorkerCrashes
<1>10. CASE EditConfig \/ SendSignal \/ OutputBreaks
  BY <1>2, <1>10 DEF EditConfig, SendSignal, OutputBreaks
<1>11. CASE UNCHANGED vars
  BY <1>2, <1>11 DEF vars
<1> QED
  BY <1>4, <1>5, <1>6, <1>7, <1>8, <1>9, <1>10, <1>11 DEF Next, Main

\* No restart and no exit leaves a probe of the old configuration behind,
\* wherever a signal finds the main thread.
THEOREM WorkersEndWithGeneration == Spec => []NoOrphanWorkers
<1>1. Init => NoOrphanWorkers
  BY DEF Init, NoOrphanWorkers
<1>2. Typed /\ NoOrphanWorkers /\ [Next]_vars => Typed' /\ NoOrphanWorkers'
  BY TypedInvariant, OrphanStep DEF Typed
<1> QED
  BY TypedInvariant, <1>1, <1>2, PTL DEF Spec

-----------------------------------------------------------------------------
(* The exit status. *)

\* A SIGTERM that is on its way comes from outside, or from a watchdog that has
\* set the status.  When the restarts are used up the status is 0 again.
TermExplained == Running /\ "SIGTERM" \in pending => env.terms > 0 \/ exit_code = 1

ExitInv == TermExplained /\ FailureExitsNonZero

\* No step forgets why the process ends.
LEMMA ExitStep == TypeOK /\ ExitInv /\ [Next]_vars => ExitInv'
<1> SUFFICES ASSUME TypeOK, ExitInv, [Next]_vars PROVE ExitInv'
  OBVIOUS
<1> USE DEF procVars, workVars, ExitInv, TermExplained, FailureExitsNonZero, Running
<1>1. ASSUME UNCHANGED <<pc, gen, exit_code, env>>,
             "SIGTERM" \in pending' => "SIGTERM" \in pending
      PROVE  ExitInv'
  BY <1>1
<1>2. ASSUME NEW d, NEW v, Parse(d, v) PROVE "SIGTERM" \in pending' => "SIGTERM" \in pending
  BY <1>2 DEF Parse, ParseNames, ParseCold, ParseHot, ClearAndRestart
<1>3. CASE SetupConfig
  <2>1. "SIGTERM" \in pending' => "SIGTERM" \in pending
    BY <1>2, <1>3 DEF SetupConfig
  <2> QED
    BY <1>3, <2>1 DEF SetupConfig, Exit
<1>4. CASE MakeWatcher \/ LoadProbes \/ AppendWorker \/ StartWatchdog \/ StopWatchdog
  BY <1>4 DEF MakeWatcher, LoadProbes, AppendWorker, StartWatchdog, StopWatchdog
<1>5. ASSUME NEW p \in Probes, StartWorker(p) PROVE ExitInv'
  BY <1>5 DEF StartWorker
<1>6. CASE Restart
  <2>1. ~MayRestart => gen = MAX_RESTARTS
    BY LifecycleAssumption DEF MayRestart, TypeOK, Gens
  <2> QED
    BY <1>6, <2>1 DEF Restart, Exit
<1>7. CASE OutputFails
  BY <1>7 DEF OutputFails, Exit
<1>8. ASSUME NEW signum \in {"SIGHUP", "SIGTERM"}, DeliverSignal(signum) PROVE ExitInv'
  BY <1>8 DEF DeliverSignal, Exit
<1>9. ASSUME NEW g \in Gens, HealthCheck(g) PROVE ExitInv'
  BY <1>9 DEF HealthCheck, WatchdogAt, FailureCode
<1>10. ASSUME NEW g \in Gens, WatchdogWakes(g) \/ CheckChanged(g) \/ ReadConfig(g)
       PROVE  ExitInv'
  BY <1>1, <1>10 DEF WatchdogWakes, CheckChanged, ReadConfig
<1>11. ASSUME NEW g \in Gens, ApplyConfig(g) PROVE ExitInv'
  BY <1>1, <1>2, <1>11 DEF ApplyConfig
<1>12. ASSUME NEW p \in Probes, Sidecar(p) PROVE ExitInv'
  BY <1>1, <1>12 DEF Sidecar, SidecarLock, SidecarReceive, SidecarApply
<1>13. ASSUME env'.terms = env.terms, UNCHANGED <<pc, gen, exit_code, pending>>
       PROVE  ExitInv'
  BY <1>13
<1>14. ASSUME NEW p \in Probes, WorkerCrashes(p) PROVE ExitInv'
  <2>1. env'.terms = env.terms
    BY <1>14 DEF WorkerCrashes, TypeOK
  <2> QED
    BY <1>13, <1>14, <2>1 DEF WorkerCrashes
<1>15. CASE EditConfig \/ OutputBreaks
  <2>1. env'.terms = env.terms
    BY <1>15 DEF EditConfig, OutputBreaks, TypeOK
  <2> QED
    BY <1>13, <1>15, <2>1 DEF EditConfig, OutputBreaks
<1>16. CASE SendSignal
  <2>1. /\ env'.terms = env.terms + 1 \/ (env'.terms = env.terms /\ pending' = pending \cup {"SIGHUP"})
        /\ env.terms \in Nat
    BY <1>16 DEF SendSignal, TypeOK
  <2>2. UNCHANGED <<pc, gen, exit_code>>
    BY <1>16 DEF SendSignal
  <2>3. CASE env'.terms = env.terms + 1
    BY <2>1, <2>2, <2>3
  <2>4. CASE env'.terms = env.terms /\ pending' = pending \cup {"SIGHUP"}
    BY <2>2, <2>4
  <2> QED
    BY <2>1, <2>3, <2>4
<1>17. CASE UNCHANGED vars
  BY <1>1, <1>17 DEF vars
<1> QED
  BY <1>3, <1>4, <1>5, <1>6, <1>7, <1>8, <1>9, <1>10, <1>11, <1>12, <1>14, <1>15, <1>16, <1>17
     DEF Next, Main, Watchdog

\* Without a SIGTERM from outside, status 0 means that the restarts were used
\* up: a dead probe or a broken output is never reported as success.
THEOREM FailureHasStatus == Spec => []FailureExitsNonZero
<1>1. Init => ExitInv
  BY DEF Init, ExitInv, TermExplained, FailureExitsNonZero
<1>2. Typed /\ ExitInv /\ [Next]_vars => Typed' /\ ExitInv'
  BY TypedInvariant, ExitStep DEF Typed
<1>3. ExitInv => FailureExitsNonZero
  BY DEF ExitInv
<1> QED
  BY TypedInvariant, <1>1, <1>2, <1>3, PTL DEF Spec

-----------------------------------------------------------------------------
(***************************************************************************)
(* Hot-swaps.  A queue belongs to the callback it was made for.  As long   *)
(* as a probe has its callback, what is in its queue and what is in its    *)
(* namespace agree in the settings that cannot be swapped; a worker that   *)
(* reads the queue was compiled with them.                                 *)
(***************************************************************************)

\* A probe with a callback has values.
CallbackHasValue == \A p \in callbacks : p \in DOMAIN ns /\ ns[p] \in Value

\* The queue of p carries changes of a probe with the settings of value x.
QueueFits(p, x) ==
    /\ x \in Value
    /\ \A i \in 1 .. Len(queue[p]) : queue[p][i].cold = x.cold
    /\ p \in callbacks => ns[p].cold = x.cold

CallbackFits == \A p \in callbacks : QueueFits(p, ns[p])
WorkerFits ==
    \A p \in Probes : /\ reads[p] <= queue_id[p]
                      /\ reads[p] # 0 /\ reads[p] = queue_id[p] => QueueFits(p, compiled[p])
LoadedFits ==
    \A p \in DOMAIN to_start :
        /\ to_start[p].reads <= queue_id[p]
        /\ to_start[p].reads # 0 /\ to_start[p].reads = queue_id[p] =>
               QueueFits(p, to_start[p].value)

\* What a sidecar has received or applied has the settings of its worker.
ReceivedFits ==
    \A p \in Probes : sidecar[p] = "busy" => received[p].cold = compiled[p].cold
AppliedFits == \A p \in Probes : applied[p].cold = compiled[p].cold

SwapInv == CallbackHasValue /\ CallbackFits /\ WorkerFits /\ LoadedFits /\ ReceivedFits /\ AppliedFits

\* parse_config, on whatever the file says now.
LEMMA ParseFits ==
    ASSUME TypeOK, SwapInv, NEW d \in Files, NEW v \in Nat, Parse(d, v)
    PROVE  /\ CallbackHasValue' /\ CallbackFits'
           /\ \A p \in Probes : /\ queue_id'[p] \in {queue_id[p], queue_id[p] + 1}
                                /\ queue_id'[p] = queue_id[p] =>
                                     \A x \in Value : QueueFits(p, x) => QueueFits(p, x)'
<1>1. CASE ParseNames(d)
  BY <1>1 DEF ParseNames, ClearAndRestart, CallbackHasValue, CallbackFits, QueueFits, TypeOK
<1>2. CASE ParseCold(d)
  <2>1. PICK names \in SUBSET (Different(d) \ ColdChanged(d)) : queue' = Forward(d, names)
    BY <1>2 DEF ParseCold
  <2>2. callbacks' = {} /\ queue_id' = queue_id
    BY <1>2 DEF ParseCold, ClearAndRestart
  <2>3. ASSUME NEW p \in Probes, NEW x \in Value, QueueFits(p, x) PROVE QueueFits(p, x)'
    <3>1. CASE p \in names
      <4>1. p \in callbacks /\ d.probes[p].cold = ns[p].cold /\ d.probes[p] \in Value
        BY <3>1, FileType DEF Different, ColdChanged
      <4>2. queue'[p] = Append(queue[p], d.probes[p]) /\ queue[p] \in Seq(Value)
        BY <2>1, <3>1 DEF Forward, TypeOK
      <4>3. \A i \in 1 .. Len(queue'[p]) : queue'[p][i].cold = x.cold
        BY <2>3, <4>1, <4>2 DEF QueueFits
      <4> QED
        BY <2>2, <4>3 DEF QueueFits
    <3>2. CASE p \notin names
      <4>1. queue'[p] = queue[p]
        BY <2>1, <3>2 DEF Forward
      <4> QED
        BY <2>2, <2>3, <4>1 DEF QueueFits
    <3> QED
      BY <3>1, <3>2
  <2> QED
    BY <2>2, <2>3 DEF CallbackHasValue, CallbackFits, TypeOK
<1>3. CASE ParseHot(d, v)
  <2> DEFINE first == DOMAIN d.probes \ callbacks
             fwd == Forward(d, Different(d))
  <2>1. /\ queue' = [p \in Probes |-> IF p \in first THEN <<>> ELSE fwd[p]]
        /\ queue_id' = [p \in Probes |-> IF p \in first THEN queue_id[p] + 1 ELSE queue_id[p]]
        /\ ns' = d.probes /\ callbacks' = callbacks \cup DOMAIN d.probes
        /\ ~NamesChanged(d) /\ ColdChanged(d) = {}
    BY <1>3 DEF ParseHot
  <2>2. callbacks \subseteq DOMAIN d.probes
    BY <2>1 DEF SwapInv, CallbackHasValue, NamesChanged, ProbeNames
  <2>3. CallbackHasValue'
    BY <2>1, <2>2, FileType DEF CallbackHasValue
  <2>4. \A p \in callbacks : d.probes[p].cold = ns[p].cold
    BY <2>1, <2>2 DEF ColdChanged, Different
  <2>5. ASSUME NEW p \in Probes, p \notin first, NEW x \in Value, QueueFits(p, x)
        PROVE  QueueFits(p, x)'
    <3>1. CASE p \in Different(d)
      <4>1. p \in callbacks /\ d.probes[p].cold = ns[p].cold /\ d.probes[p] \in Value
        BY <2>4, <3>1, FileType DEF Different
      <4>2. queue'[p] = Append(queue[p], d.probes[p]) /\ queue[p] \in Seq(Value)
        BY <2>1, <2>5, <3>1 DEF Forward, TypeOK
      <4>3. \A i \in 1 .. Len(queue'[p]) : queue'[p][i].cold = x.cold
        BY <2>5, <4>1, <4>2 DEF QueueFits
      <4> QED
        BY <2>1, <2>5, <4>1, <4>3 DEF QueueFits
    <3>2. CASE p \notin Different(d)
      <4>1. queue'[p] = queue[p]
        BY <2>1, <2>5, <3>2 DEF Forward
      <4>2. p \in callbacks' => p \in callbacks /\ ns'[p].cold = ns[p].cold
        BY <2>1, <2>2, <2>4, <2>5
      <4> QED
        BY <2>5, <4>1, <4>2 DEF QueueFits
    <3> QED
      BY <3>1, <3>2
  <2>6. ASSUME NEW p \in callbacks' PROVE QueueFits(p, ns[p])'
    <3>1. p \in DOMAIN d.probes /\ p \in Probes /\ ns'[p] = d.probes[p] /\ ns'[p] \in Value
      BY <2>1, <2>2, FileType
    <3>2. CASE p \in first
      <4>1. queue'[p] = <<>>
        BY <2>1, <3>1, <3>2
      <4>2. \A i \in 1 .. Len(queue'[p]) : FALSE
        BY <4>1
      <4> QED
        BY <3>1, <4>2 DEF QueueFits
    <3>3. CASE p \notin first
      <4>1. p \in callbacks /\ QueueFits(p, ns[p]) /\ ns[p] \in Value
        BY <3>1, <3>3 DEF SwapInv, CallbackFits, CallbackHasValue
      <4>2. /\ \A i \in 1 .. Len(queue'[p]) : queue'[p][i].cold = ns[p].cold
        BY <2>5, <3>1, <3>3, <4>1 DEF QueueFits
      <4>3. ns'[p].cold = ns[p].cold
        BY <2>4, <3>1, <4>1
      <4> QED
        BY <3>1, <4>2, <4>3 DEF QueueFits
    <3> QED
      BY <3>2, <3>3
  <2>7. ASSUME NEW p \in Probes
        PROVE  /\ queue_id'[p] \in {queue_id[p], queue_id[p] + 1}
               /\ queue_id'[p] = queue_id[p] => p \notin first
    BY <2>1 DEF TypeOK
  <2> QED
    BY <2>3, <2>5, <2>6, <2>7 DEF CallbackFits
<1> QED
  BY <1>1, <1>2, <1>3 DEF Parse

\* A parse leaves the workers and the probes to start with what they had.
LEMMA ParseSwap ==
    ASSUME TypeOK, SwapInv, NEW d \in Files, NEW v \in Nat, Parse(d, v),
           UNCHANGED <<to_start, compiled, reads, applied, sidecar, received>>
    PROVE  SwapInv'
<1>1. /\ CallbackHasValue' /\ CallbackFits'
      /\ \A p \in Probes : /\ queue_id'[p] \in {queue_id[p], queue_id[p] + 1}
                           /\ queue_id'[p] = queue_id[p] =>
                                \A x \in Value : QueueFits(p, x) => QueueFits(p, x)'
  BY ParseFits
<1>2. ASSUME NEW p \in Probes, NEW r \in Nat, NEW x, r <= queue_id[p],
             r # 0 /\ r = queue_id[p] => QueueFits(p, x)
      PROVE  r <= queue_id'[p] /\ (r # 0 /\ r = queue_id'[p] => QueueFits(p, x)')
  <2>1. queue_id[p] \in Nat /\ queue_id'[p] \in {queue_id[p], queue_id[p] + 1}
    BY <1>1 DEF TypeOK
  <2>2. r <= queue_id'[p] /\ (r = queue_id'[p] => r = queue_id[p])
    BY <1>2, <2>1
  <2>3. QueueFits(p, x) => x \in Value
    BY DEF QueueFits
  <2> QED
    BY <1>1, <1>2, <2>2, <2>3
<1>3. WorkerFits'
  <2> SUFFICES ASSUME NEW p \in Probes
               PROVE  /\ reads[p] <= queue_id'[p]
                      /\ reads[p] # 0 /\ reads[p] = queue_id'[p] => QueueFits(p, compiled[p])'
    BY DEF WorkerFits
  <2>1. reads[p] \in Nat /\ compiled'[p] = compiled[p]
    BY DEF TypeOK
  <2>2. reads[p] <= queue_id[p] /\ (reads[p] # 0 /\ reads[p] = queue_id[p] => QueueFits(p, compiled[p]))
    BY DEF SwapInv, WorkerFits
  <2> QED
    BY <1>2, <2>1, <2>2
<1>4. LoadedFits'
  <2> SUFFICES ASSUME NEW p \in DOMAIN to_start
               PROVE  /\ to_start[p].reads <= queue_id'[p]
                      /\ to_start[p].reads # 0 /\ to_start[p].reads = queue_id'[p] =>
                             QueueFits(p, to_start[p].value)'
    BY DEF LoadedFits
  <2>1. p \in Probes /\ to_start[p].reads \in Nat
    BY DEF TypeOK
  <2>2. /\ to_start[p].reads <= queue_id[p]
        /\ to_start[p].reads # 0 /\ to_start[p].reads = queue_id[p] =>
               QueueFits(p, to_start[p].value)
    BY DEF SwapInv, LoadedFits
  <2> QED
    BY <1>2, <2>1, <2>2
<1> QED
  BY <1>1, <1>3, <1>4 DEF SwapInv, ReceivedFits, AppliedFits

\* Starting probes and handing them changes.
LEMMA SwapStep == Typed /\ SwapInv /\ [Next]_vars => SwapInv'
<1> SUFFICES ASSUME Typed, SwapInv, [Next]_vars PROVE SwapInv'
  OBVIOUS
<1>0. TypeOK /\ DataRead
  BY DEF Typed
<1> USE DEF confVars, procVars, workVars
<1> DEFINE Conf == UNCHANGED <<ns, callbacks, queue, queue_id>>
           Work == UNCHANGED <<compiled, reads, applied, sidecar, received>>
<1>1. Conf => /\ CallbackHasValue' /\ CallbackFits'
              /\ \A p, x : QueueFits(p, x)' <=> QueueFits(p, x)
  BY DEF SwapInv, CallbackHasValue, CallbackFits, QueueFits
<1>2. CASE Conf /\ Work /\ UNCHANGED to_start
  <2>1. WorkerFits' /\ LoadedFits'
    BY <1>1, <1>2 DEF SwapInv, WorkerFits, LoadedFits, QueueFits
  <2> QED
    BY <1>1, <1>2, <2>1 DEF SwapInv, ReceivedFits, AppliedFits
<1>3. CASE SetupConfig
  <2>1. CASE ~disk.bad /\ Parse(disk, version)
    BY <1>0, <1>3, <2>1, ParseSwap DEF SetupConfig, TypeOK
  <2>2. CASE UNCHANGED confVars
    BY <1>2, <1>3, <2>2 DEF SetupConfig
  <2> QED
    BY <1>3, <2>1, <2>2 DEF SetupConfig
<1>4. CASE LoadProbes
  <2>1. ASSUME NEW p \in DOMAIN to_start'
        PROVE  /\ to_start'[p].reads <= queue_id[p]
               /\ to_start'[p].reads # 0 => QueueFits(p, to_start'[p].value)
    <3>1. p \in DOMAIN ns /\ to_start'[p] = ProbeConfig(p)
      BY <1>4 DEF LoadProbes, ProbeNames
    <3>2. to_start'[p].value = ns[p] /\ to_start'[p].reads = IF p \in callbacks THEN queue_id[p] ELSE 0
      BY <3>1 DEF ProbeConfig
    <3>3. queue_id[p] \in Nat
      BY <1>0, <3>1 DEF TypeOK
    <3> QED
      BY <3>2, <3>3 DEF SwapInv, CallbackFits
  <2>2. Conf /\ Work
    BY <1>4 DEF LoadProbes
  <2>3. LoadedFits'
    BY <2>1, <2>2 DEF LoadedFits, QueueFits
  <2>4. WorkerFits'
    BY <2>2 DEF SwapInv, WorkerFits, QueueFits
  <2> QED
    BY <1>1, <2>2, <2>3, <2>4 DEF SwapInv, ReceivedFits, AppliedFits
<1>5. ASSUME NEW p \in Probes, StartWorker(p) PROVE SwapInv'
  <2>1. Conf /\ p \in DOMAIN to_start
    BY <1>5 DEF StartWorker
  <2>2. /\ compiled'[p] = to_start[p].value /\ applied'[p] = to_start[p].value
        /\ reads'[p] = to_start[p].reads /\ sidecar'[p] = "off"
    BY <1>0, <1>5 DEF StartWorker, TypeOK
  <2>3. \A q \in Probes \ {p} :
            /\ compiled'[q] = compiled[q] /\ applied'[q] = applied[q] /\ reads'[q] = reads[q]
            /\ sidecar'[q] = sidecar[q] /\ received'[q] = received[q]
    BY <1>0, <1>5 DEF StartWorker, TypeOK
  <2>4. WorkerFits'
    BY <2>1, <2>2, <2>3 DEF SwapInv, WorkerFits, LoadedFits, QueueFits
  <2>5. LoadedFits'
    <3>1. \A q \in DOMAIN to_start' : q \in DOMAIN to_start /\ to_start'[q] = to_start[q]
      BY <1>5 DEF StartWorker
    <3> QED
      BY <2>1, <3>1 DEF SwapInv, LoadedFits, QueueFits
  <2>6. ReceivedFits' /\ AppliedFits'
    BY <2>2, <2>3 DEF SwapInv, ReceivedFits, AppliedFits
  <2> QED
    BY <1>1, <2>1, <2>4, <2>5, <2>6 DEF SwapInv
<1>6. ASSUME NEW g \in Gens, ApplyConfig(g) PROVE SwapInv'
  <2>1. data[g].file \in Files /\ data[g].version \in Nat
    BY <1>0, <1>6 DEF ApplyConfig, WatchdogAt, DataRead
  <2> QED
    BY <1>0, <1>6, <2>1, ParseSwap DEF ApplyConfig
<1>7. ASSUME NEW p \in Probes, SidecarLock(p) PROVE SwapInv'
  <2>1. Conf /\ UNCHANGED <<to_start, compiled, reads, applied, received>>
    BY <1>7 DEF SidecarLock
  <2>2. \A q \in Probes : sidecar'[q] = "busy" => sidecar[q] = "busy"
    BY <1>0, <1>7 DEF SidecarLock, TypeOK
  <2>3. WorkerFits' /\ LoadedFits'
    BY <2>1 DEF SwapInv, WorkerFits, LoadedFits, QueueFits
  <2> QED
    BY <1>1, <2>1, <2>2, <2>3 DEF SwapInv, ReceivedFits, AppliedFits
<1>8. ASSUME NEW p \in Probes, SidecarReceive(p) PROVE SwapInv'
  <2>1. UNCHANGED <<ns, callbacks, queue_id, to_start, compiled, reads, applied>>
    BY <1>8 DEF SidecarReceive
  <2>2. queue[p] \in Seq(Value) /\ queue[p] # <<>>
    BY <1>0, <1>8 DEF SidecarReceive, TypeOK
  <2>3. /\ queue'[p] = Tail(queue[p]) /\ \A q \in Probes \ {p} : queue'[q] = queue[q]
        /\ received'[p] = Head(queue[p]) /\ \A q \in Probes \ {p} : received'[q] = received[q]
        /\ \A q \in Probes \ {p} : sidecar'[q] = sidecar[q]
    BY <1>0, <1>8 DEF SidecarReceive, TypeOK
  <2>4. \A i \in 1 .. Len(queue'[p]) : i + 1 \in 1 .. Len(queue[p]) /\ queue'[p][i] = queue[p][i + 1]
    BY <2>2, <2>3
  <2>5. ASSUME NEW q \in Probes, NEW x, QueueFits(q, x) PROVE QueueFits(q, x)'
    <3>1. \A i \in 1 .. Len(queue'[q]) : queue'[q][i].cold = x.cold
      <4>1. CASE q = p
        BY <2>4, <2>5, <4>1 DEF QueueFits
      <4>2. CASE q # p
        BY <2>3, <2>5, <4>2 DEF QueueFits
      <4> QED
        BY <4>1, <4>2
    <3> QED
      BY <2>1, <2>5, <3>1 DEF QueueFits
  <2>6. CallbackHasValue'
    BY <2>1 DEF SwapInv, CallbackHasValue
  <2>7. CallbackFits'
    <3>1. callbacks \subseteq Probes
      BY <1>0 DEF TypeOK
    <3> QED
      BY <2>1, <2>5, <3>1 DEF SwapInv, CallbackFits, QueueFits
  <2>8. WorkerFits'
    BY <2>1, <2>5 DEF SwapInv, WorkerFits, QueueFits
  <2>9. LoadedFits'
    <3>1. DOMAIN to_start \subseteq Probes
      BY <1>0 DEF TypeOK
    <3> QED
      <4> SUFFICES ASSUME NEW q \in DOMAIN to_start
                   PROVE  /\ to_start[q].reads <= queue_id[q]
                          /\ to_start[q].reads # 0 /\ to_start[q].reads = queue_id[q] =>
                                 QueueFits(q, to_start[q].value)'
        BY <2>1 DEF LoadedFits, QueueFits
      <4>1. /\ to_start[q].reads <= queue_id[q]
            /\ to_start[q].reads # 0 /\ to_start[q].reads = queue_id[q] =>
                   QueueFits(q, to_start[q].value)
        BY DEF SwapInv, LoadedFits
      <4>2. q \in Probes /\ to_start' = to_start
        BY <2>1, <3>1
      <4> QED
        BY <2>1, <2>5, <4>1, <4>2 DEF QueueFits
  <2>10. ReceivedFits'
    <3>1. QueueFits(p, compiled[p])
      BY <1>8 DEF SidecarReceive, Attached, SwapInv, WorkerFits
    <3>2. Head(queue[p]) = queue[p][1] /\ 1 \in 1 .. Len(queue[p])
      BY <2>2
    <3>3. received'[p].cold = compiled[p].cold
      BY <2>3, <3>1, <3>2 DEF QueueFits
    <3> QED
      BY <2>1, <2>3, <3>3 DEF SwapInv, ReceivedFits
  <2>11. AppliedFits'
    BY <2>1 DEF SwapInv, AppliedFits
  <2> QED
    BY <2>6, <2>7, <2>8, <2>9, <2>10, <2>11 DEF SwapInv
<1>9. ASSUME NEW p \in Probes, SidecarApply(p) PROVE SwapInv'
  <2>1. Conf /\ UNCHANGED <<to_start, compiled, reads>>
    BY <1>9 DEF SidecarApply
  <2>2. /\ applied'[p] = received[p] /\ \A q \in Probes \ {p} : applied'[q] = applied[q]
        /\ sidecar'[p] = "off" /\ \A q \in Probes \ {p} : sidecar'[q] = sidecar[q]
        /\ \A q \in Probes \ {p} : received'[q] = received[q]
    BY <1>0, <1>9 DEF SidecarApply, TypeOK
  <2>3. ReceivedFits' /\ AppliedFits'
    BY <1>9, <2>1, <2>2 DEF SidecarApply, SwapInv, ReceivedFits, AppliedFits
  <2>4. WorkerFits' /\ LoadedFits'
    BY <2>1 DEF SwapInv, WorkerFits, LoadedFits, QueueFits
  <2> QED
    BY <1>1, <2>1, <2>3, <2>4 DEF SwapInv
<1>10. CASE MakeWatcher \/ AppendWorker \/ StartWatchdog \/ StopWatchdog \/ Restart \/ OutputFails
  BY <1>2, <1>10 DEF MakeWatcher, AppendWorker, StartWatchdog, StopWatchdog, Restart, OutputFails
<1>11. ASSUME NEW signum \in {"SIGHUP", "SIGTERM"}, DeliverSignal(signum) PROVE SwapInv'
  BY <1>2, <1>11 DEF DeliverSignal
<1>12. ASSUME NEW g \in Gens,
              WatchdogWakes(g) \/ HealthCheck(g) \/ CheckChanged(g) \/ ReadConfig(g)
       PROVE  SwapInv'
  BY <1>2, <1>12 DEF WatchdogWakes, HealthCheck, CheckChanged, ReadConfig
<1>13. ASSUME NEW p \in Probes, WorkerCrashes(p) PROVE SwapInv'
  BY <1>2, <1>13 DEF WorkerCrashes
<1>14. CASE EditConfig \/ SendSignal \/ OutputBreaks
  BY <1>2, <1>14 DEF EditConfig, SendSignal, OutputBreaks
<1>15. CASE UNCHANGED vars
  BY <1>2, <1>15 DEF vars
<1> QED
  BY <1>3, <1>4, <1>5, <1>6, <1>7, <1>8, <1>9, <1>10, <1>11, <1>12, <1>13, <1>14, <1>15
     DEF Next, Main, Watchdog, Sidecar

\* What reaches a running worker through its queue differs from what its BPF
\* program was compiled with in hot-swappable settings only, however edits,
\* restarts and watchdogs of old generations interleave.
THEOREM SwapsAreHot == Spec => []HotSwapKeepsCold
<1>1. Init => SwapInv
  <2> SUFFICES ASSUME Init PROVE SwapInv
    OBVIOUS
  <2>1. DOMAIN to_start = {}
    BY DEF Init
  <2> QED
    BY <2>1 DEF Init, SwapInv, CallbackHasValue, CallbackFits, WorkerFits, LoadedFits,
                ReceivedFits, AppliedFits
<1>2. Typed /\ SwapInv /\ [Next]_vars => Typed' /\ SwapInv'
  BY TypedInvariant, SwapStep
<1>3. SwapInv => HotSwapKeepsCold
  BY DEF SwapInv, WorkerFits, AppliedFits, QueueFits, HotSwapKeepsCold, Attached
<1> QED
  BY TypedInvariant, <1>1, <1>2, <1>3, PTL DEF Spec
=============================================================================
