----------------------------- MODULE Lifecycle -----------------------------
(***************************************************************************)
(* The main process of pidtree-bcc: configuration parsing and watching     *)
(* (config.py), the restart loop, the signal handler, the watchdog thread  *)
(* and the probe workers with their configuration sidecar (main.py), run   *)
(* with --watch-config.                                                    *)
(*                                                                         *)
(* A generation is one call of main(): each has its own workers, stop flag *)
(* and watchdog thread, and a watchdog may outlive its generation.  The    *)
(* staticconf namespaces and the change queues live in the process, across *)
(* generations.                                                            *)
(***************************************************************************)
EXTENDS Naturals, Sequences, FiniteSets

CONSTANTS
    Probes,       \* probe names
    Hots, Colds,  \* values of the hot-swappable settings, and of the others
    Includes,     \* sets of included files
    Files,        \* contents the configuration file may have
    MAX_RESTARTS,
    MaxEdits,     \* bound: edits of the configuration file
    MaxHups,      \* bound: SIGHUPs from outside
    MaxTerms,     \* bound: SIGTERMs and SIGINTs from outside
    MaxFaults,    \* bound: workers that crash, outputs that break
    MaxEvents,    \* bound: signals from outside and faults together
    None

Value == [hot : Hots, cold : Colds]
Gens == 1 .. MAX_RESTARTS

\* A file defines some probes and includes others, or cannot be parsed.
IsFile(file) ==
    /\ DOMAIN file.probes \subseteq Probes /\ DOMAIN file.probes # {}
    /\ \A p \in DOMAIN file.probes : file.probes[p] \in Value
    /\ file.includes \in Includes /\ file.bad \in BOOLEAN

ASSUME LifecycleAssumption ==
    /\ \A file \in Files : IsFile(file)
    /\ \E file \in Files : ~file.bad
    /\ MAX_RESTARTS \in Nat \ {0}
    /\ MaxEdits \in Nat /\ MaxHups \in Nat /\ MaxTerms \in Nat /\ MaxFaults \in Nat
    /\ MaxEvents \in Nat
    /\ None \notin Includes

VARIABLES
    disk,      \* the configuration file
    version,   \* its modification time
    ns,        \* probe namespaces: a value, or None when cleared
    callbacks, \* names in HOTSWAP_CALLBACK_NAMESPACE
    loaded,    \* LOADED_CONFIG_FILES_NAMESPACE: included files, or None
    queue,     \* queue[p]: the newest SimpleQueue made for p
    queue_id,  \* queue_id[p]: how many were made
    rlock,     \* rlock[p]: its reader lock: "free", "held" or "orphaned"
    pc,        \* of the main thread
    gen,       \* present generation: restart_attempts + 1
    pending,   \* signals not yet handled
    exit_code, \* EXIT_CODE
    seen,      \* seen[g]: version the ConfigurationWatcher of g has seen
    to_start,  \* to_start[p]: value and queue of a loaded, unstarted probe
    worker,    \* worker[g][p]: "none", "live" or "dead"
    compiled,  \* compiled[p]: what the worker of p was started with
    reads,     \* reads[p]: the id of the queue it was started with, or 0
    applied,   \* applied[p]: what it filters by
    sidecar,   \* sidecar[p]: "off", "holding" (in get) or "busy"
    received,  \* received[p]: the change a busy sidecar applies
    watchdog,  \* watchdog[g]: "none", "sleep", "health", "watch", "read", "apply", "done"
    data,      \* data[g]: what the watchdog of g parsed
    stop,      \* stop[g]: StopFlagWrapper.do_stop
    broken,    \* the output is broken
    env,       \* edits, signals and faults so far (history)
    parsed     \* highest version parsed and kept (history)

confVars == <<ns, callbacks, loaded, queue, queue_id>>
procVars == <<pc, gen, exit_code, seen, to_start, stop>>
workVars == <<rlock, worker, compiled, reads, applied, sidecar, received>>
fileVars == <<disk, version>>
vars == <<fileVars, confVars, procVars, workVars, pending, watchdog, data, broken,
          env, parsed>>

Init ==
    /\ disk \in {file \in Files : ~file.bad} /\ version = 0
    /\ ns = <<>> /\ callbacks = {} /\ loaded = None
    /\ queue = [p \in Probes |-> <<>>]
    /\ queue_id = [p \in Probes |-> 0]
    /\ rlock = [p \in Probes |-> "free"]
    /\ pc = "setup" /\ gen = 1 /\ pending = {} /\ exit_code = 0
    /\ seen = [g \in Gens |-> 0]
    /\ to_start = <<>>
    /\ worker = [g \in Gens |-> [p \in Probes |-> "none"]]
    /\ compiled = [p \in Probes |-> None]
    /\ reads = [p \in Probes |-> 0]
    /\ applied = [p \in Probes |-> None]
    /\ sidecar = [p \in Probes |-> "off"]
    /\ received = [p \in Probes |-> None]
    /\ watchdog = [g \in Gens |-> "none"]
    /\ data = [g \in Gens |-> None]
    /\ stop = [g \in Gens |-> FALSE]
    /\ broken = FALSE
    /\ env = [edits |-> 0, hups |-> 0, terms |-> 0, faults |-> 0, bad |-> FALSE]
    /\ parsed = 0

Running == pc # "exited"

-----------------------------------------------------------------------------
(* parse_config, on what it read. *)

\* _get_probe_namespaces
ProbeNames == DOMAIN ns

\* reset_config_state: the namespaces lose their values and keep their names.
ResetValues(names) == [p \in names |-> None]

\* _drop_namespaces
DropNamespaces(names) == ProbeNames \ names

\* _clear_and_restart, with the probe namespaces in names.  What reset_config_state
\* does to the list of loaded files is left to the caller.
ClearAndRestart(names) ==
    /\ ns' = ResetValues(names) /\ callbacks' = {}
    /\ pending' = pending \cup {"SIGHUP"}

\* probes added or removed, or other files included
NamesChanged(d) ==
    \/ ProbeNames # {} /\ DOMAIN d.probes # ProbeNames
    \/ loaded # None /\ loaded # d.includes

Different(d) == {p \in DOMAIN d.probes \cap callbacks : ns[p] # d.probes[p]}

ColdIgnored(d) == {}
ColdChanged(d) ==
    {p \in Different(d) : ns[p].cold # d.probes[p].cold}

\* HOTSWAP_CALLBACK_NAMESPACE[key](probe_config), for the probes in names.
ForwardNothing(d, names) == queue
Forward(d, names) ==
    [p \in Probes |-> IF p \in names THEN Append(queue[p], d.probes[p]) ELSE queue[p]]

\* Drop the namespaces of removed probes, clear, restart and return.
ParseNames(d) ==
    /\ NamesChanged(d)
    /\ ClearAndRestart(DropNamespaces(ProbeNames \ DOMAIN d.probes)) /\ loaded' = None
    /\ UNCHANGED <<queue, queue_id, rlock, parsed>>

\* Clear, restart and break, perhaps after the hot-swaps of some probes.  The
\* list of loaded files is stored after the loop, so it survives the clearing.
ParseCold(d) ==
    /\ ~NamesChanged(d) /\ ColdChanged(d) # {}
    /\ \E names \in SUBSET (Different(d) \ ColdChanged(d)) : queue' = Forward(d, names)
    /\ ClearAndRestart(ProbeNames) /\ loaded' = d.includes
    /\ UNCHANGED <<queue_id, rlock, parsed>>

\* A probe loaded for the first time gets a new queue, one whose filters
\* changed is told.
ParseHot(d, v) ==
    /\ ~NamesChanged(d) /\ ColdChanged(d) = {}
    /\ LET first == DOMAIN d.probes \ callbacks IN
       /\ queue' = [p \in Probes |-> IF p \in first THEN <<>>
                                     ELSE Forward(d, Different(d))[p]]
       /\ queue_id' = [p \in Probes |-> IF p \in first THEN queue_id[p] + 1 ELSE queue_id[p]]
       /\ rlock' = [p \in Probes |-> IF p \in first THEN "free" ELSE rlock[p]]
    /\ ns' = d.probes
    /\ callbacks' = callbacks \cup DOMAIN d.probes /\ loaded' = d.includes
    /\ parsed' = IF v > parsed THEN v ELSE parsed
    /\ UNCHANGED pending

Parse(d, v) == ParseNames(d) \/ ParseCold(d) \/ ParseHot(d, v)

-----------------------------------------------------------------------------
(* The main thread. *)

\* An exception nobody catches, or sys.exit.
Exit(code) == pc' = "exited" /\ exit_code' = code

\* setup_config parses the file; a file that cannot be parsed ends the process.
SetupConfig ==
    /\ pc = "setup"
    /\ \/ /\ disk.bad /\ Exit(1)
          /\ UNCHANGED <<confVars, pending, parsed, rlock>>
       \/ /\ ~disk.bad /\ Parse(disk, version)
          /\ pc' = "watcher" /\ UNCHANGED exit_code
    /\ UNCHANGED <<fileVars, gen, seen, to_start, stop, worker, compiled, reads, applied, sidecar,
                   received, watchdog, data, broken, env>>

\* The ConfigurationWatcher looks at the file's time only now.
MakeWatcher ==
    /\ pc = "watcher" /\ pc' = "load"
    /\ seen' = [seen EXCEPT ![gen] = version]
    /\ UNCHANGED <<fileVars, confVars, gen, exit_code, to_start, stop, workVars, pending,
                   watchdog, data, broken, env, parsed>>

\* enumerate_probe_configs: the values of p and, if it has a callback, the queue
\* of the callback.
ProbeConfig(p) == [value |-> ns[p], reads |-> IF p \in callbacks THEN queue_id[p] ELSE 0]

\* load_probes: one probe per namespace.
LoadProbes ==
    /\ pc = "load" /\ pc' = "spawn"
    /\ to_start' = [p \in ProbeNames |-> ProbeConfig(p)]
    /\ UNCHANGED <<fileVars, confVars, gen, exit_code, seen, stop, workVars, pending,
                   watchdog, data, broken, env, parsed>>

\* probe_workers.append(Process(...)) ...
AppendWorker ==
    /\ pc = "spawn" /\ DOMAIN to_start # {} /\ pc' = "append"
    /\ UNCHANGED <<fileVars, confVars, gen, exit_code, seen, to_start, stop, workVars,
                   pending, watchdog, data, broken, env, parsed>>

\* ... and probe_workers[-1].start()
StartWorker(p) ==
    /\ pc = "append" /\ p \in DOMAIN to_start /\ pc' = "spawn"
    /\ worker' = [worker EXCEPT ![gen][p] = "live"]
    /\ compiled' = [compiled EXCEPT ![p] = to_start[p].value]
    /\ reads' = [reads EXCEPT ![p] = to_start[p].reads]
    /\ applied' = [applied EXCEPT ![p] = to_start[p].value]
    /\ sidecar' = [sidecar EXCEPT ![p] = "off"]
    /\ received' = [received EXCEPT ![p] = None]
    /\ to_start' = [q \in DOMAIN to_start \ {p} |-> to_start[q]]
    /\ UNCHANGED <<fileVars, confVars, gen, exit_code, seen, stop, rlock, pending, watchdog,
                   data, broken, env, parsed>>

\* The watchdog thread starts, and the loop over output_queue begins.
StartWatchdog ==
    /\ pc = "spawn" /\ DOMAIN to_start = {} /\ pc' = "run"
    /\ watchdog' = [watchdog EXCEPT ![gen] = "sleep"]
    /\ UNCHANGED <<fileVars, confVars, gen, exit_code, seen, to_start, stop, workVars,
                   pending, data, broken, env, parsed>>

\* A sidecar killed in get() takes the reader lock of its queue with it.
LockAfterDeath(p) ==
    IF worker[gen][p] = "live" /\ sidecar[p] = "holding" /\ reads[p] = queue_id[p]
    THEN "orphaned" ELSE rlock[p]

\* worker.terminate() on every worker of the generation.
TerminateNone == UNCHANGED <<worker, rlock>>
TerminateWorkers ==
    /\ worker' = [worker EXCEPT ![gen] =
           [p \in Probes |-> IF @[p] = "live" THEN "dead" ELSE @[p]]]
    /\ rlock' = [p \in Probes |-> LockAfterDeath(p)]

\* print to a broken output raises: everything ends.
OutputFails ==
    /\ pc = "run" /\ broken
    /\ TerminateWorkers /\ Exit(1)
    /\ UNCHANGED <<fileVars, confVars, gen, seen, to_start, stop, compiled, reads, applied, sidecar,
                   received, pending, watchdog, data, broken, env, parsed>>

\* termination_handler.  A worker that is appended and not started makes it
\* raise; a restart while the loop runs goes through except RestartSignal.
DeliverSignal(signum) ==
    /\ Running /\ signum \in pending
    /\ pending' = pending \ {signum}
    /\ TerminateWorkers
    /\ \/ /\ pc = "append" /\ Exit(1)
       \/ /\ pc # "append" /\ signum = "SIGTERM" /\ Exit(exit_code)
       \/ /\ pc # "append" /\ signum = "SIGHUP"
          /\ pc' = IF pc = "run" THEN "stopping" ELSE "restart"
          /\ UNCHANGED exit_code
    /\ UNCHANGED <<fileVars, confVars, gen, seen, to_start, stop, compiled, reads, applied, sidecar,
                   received, watchdog, data, broken, env, parsed>>

\* except RestartSignal: stop_wrapper.stop()
StopWatchdog ==
    /\ pc = "stopping" /\ pc' = "restart"
    /\ stop' = [stop EXCEPT ![gen] = TRUE]
    /\ UNCHANGED <<fileVars, confVars, gen, exit_code, seen, to_start, workVars, pending,
                   watchdog, data, broken, env, parsed>>

\* while restart_attempts < MAX_RESTARTS
OneMoreRestart == gen <= MAX_RESTARTS
MayRestart == gen < MAX_RESTARTS

\* The loop around main(): after MAX_RESTARTS it ends, with status 0.
Restart ==
    /\ pc = "restart"
    /\ \/ /\ MayRestart /\ gen' = gen + 1 /\ pc' = "setup"
          /\ UNCHANGED exit_code
       \/ /\ ~MayRestart /\ Exit(0) /\ UNCHANGED gen
    /\ UNCHANGED <<fileVars, confVars, seen, to_start, stop, workVars, pending, watchdog,
                   data, broken, env, parsed>>

-----------------------------------------------------------------------------
(* The watchdog thread of generation g: health_and_config_watchdog. *)

WatchdogAt(g, label) == Running /\ watchdog[g] = label

WatchdogWakes(g) ==
    /\ WatchdogAt(g, "sleep")
    /\ watchdog' = [watchdog EXCEPT ![g] = IF stop[g] THEN "done" ELSE "health"]
    /\ UNCHANGED <<fileVars, confVars, procVars, workVars, pending, data, broken, env, parsed>>

\* all(worker.is_alive() for worker in probe_workers)
SomeAlive(g) == \E p \in Probes : worker[g][p] # "dead"
AllAlive(g) == \A p \in Probes : worker[g][p] # "dead"

FailureHidden == 0
FailureCode == 1

HealthCheck(g) ==
    /\ WatchdogAt(g, "health")
    /\ \/ /\ AllAlive(g) /\ ~broken
          /\ watchdog' = [watchdog EXCEPT ![g] = "watch"]
          /\ UNCHANGED <<exit_code, pending>>
       \/ /\ ~AllAlive(g) \/ broken
          /\ exit_code' = FailureCode /\ pending' = pending \cup {"SIGTERM"}
          /\ watchdog' = [watchdog EXCEPT ![g] = "done"]
    /\ UNCHANGED <<fileVars, confVars, pc, gen, seen, to_start, stop, workVars, data, broken,
                   env, parsed>>

\* reload_if_changed looks at the file's time and then calls the loader.
CheckChanged(g) ==
    /\ WatchdogAt(g, "watch")
    /\ watchdog' = [watchdog EXCEPT ![g] = IF seen[g] # version THEN "read" ELSE "sleep"]
    /\ seen' = [seen EXCEPT ![g] = version]
    /\ UNCHANGED <<fileVars, confVars, pc, gen, exit_code, to_start, stop, workVars, pending,
                   data, broken, env, parsed>>

\* A file that cannot be parsed: self_restart, with the namespaces as they are.
ReadConfig(g) ==
    /\ WatchdogAt(g, "read")
    /\ \/ /\ disk.bad
          /\ pending' = pending \cup {"SIGHUP"}
          /\ watchdog' = [watchdog EXCEPT ![g] = "sleep"]
          /\ UNCHANGED data
       \/ /\ ~disk.bad
          /\ data' = [data EXCEPT ![g] = [file |-> disk, version |-> version]]
          /\ watchdog' = [watchdog EXCEPT ![g] = "apply"]
          /\ UNCHANGED pending
    /\ UNCHANGED <<fileVars, confVars, procVars, workVars, broken, env, parsed>>

ApplyConfig(g) ==
    /\ WatchdogAt(g, "apply")
    /\ Parse(data[g].file, data[g].version)
    /\ data' = [data EXCEPT ![g] = None]
    /\ watchdog' = [watchdog EXCEPT ![g] = "sleep"]
    /\ UNCHANGED <<fileVars, procVars, worker, compiled, reads, applied, sidecar, received, broken, env>>

Watchdog(g) == WatchdogWakes(g) \/ HealthCheck(g) \/ CheckChanged(g) \/ ReadConfig(g)
               \/ ApplyConfig(g)

-----------------------------------------------------------------------------
(* The sidecar of a worker: _poll_config_changes. *)

Live(p) == worker[gen][p] = "live"
Attached(p) == Live(p) /\ reads[p] # 0 /\ reads[p] = queue_id[p]

\* config_queue.get() takes the reader lock and blocks in recv ...
SidecarLock(p) ==
    /\ Attached(p) /\ sidecar[p] = "off" /\ rlock[p] = "free"
    /\ sidecar' = [sidecar EXCEPT ![p] = "holding"]
    /\ rlock' = [rlock EXCEPT ![p] = "held"]
    /\ UNCHANGED <<fileVars, confVars, procVars, worker, compiled, reads, applied, received, pending,
                   watchdog, data, broken, env, parsed>>

\* ... until there is something to receive.
SidecarReceive(p) ==
    /\ Attached(p) /\ sidecar[p] = "holding" /\ queue[p] # <<>>
    /\ sidecar' = [sidecar EXCEPT ![p] = "busy"]
    /\ rlock' = [rlock EXCEPT ![p] = "free"]
    /\ received' = [received EXCEPT ![p] = Head(queue[p])]
    /\ queue' = [queue EXCEPT ![p] = Tail(@)]
    /\ UNCHANGED <<fileVars, ns, callbacks, loaded, queue_id, procVars, worker, compiled, reads, applied,
                   pending, watchdog, data, broken, env, parsed>>

\* build_probe_config and reload_filters.
SidecarApply(p) ==
    /\ Live(p) /\ sidecar[p] = "busy"
    /\ sidecar' = [sidecar EXCEPT ![p] = "off"]
    /\ applied' = [applied EXCEPT ![p] = received[p]]
    /\ received' = [received EXCEPT ![p] = None]
    /\ UNCHANGED <<fileVars, confVars, procVars, rlock, worker, compiled, reads, pending, watchdog,
                   data, broken, env, parsed>>

-----------------------------------------------------------------------------
(* The environment. *)

MayHappen(count, bound) ==
    Running /\ count < bound /\ env.hups + env.terms + env.faults < MaxEvents

EditConfig ==
    /\ Running /\ env.edits < MaxEdits
    /\ disk' \in Files /\ version' = version + 1
    /\ env' = [env EXCEPT !.edits = @ + 1, !.bad = @ \/ disk'.bad]
    /\ UNCHANGED <<confVars, procVars, workVars, pending, watchdog, data, broken, parsed>>

SendSignal ==
    /\ \/ /\ MayHappen(env.hups, MaxHups) /\ pending' = pending \cup {"SIGHUP"}
          /\ env' = [env EXCEPT !.hups = @ + 1]
       \/ /\ MayHappen(env.terms, MaxTerms) /\ pending' = pending \cup {"SIGTERM"}
          /\ env' = [env EXCEPT !.terms = @ + 1]
    /\ UNCHANGED <<fileVars, confVars, procVars, workVars, watchdog, data, broken, parsed>>

WorkerCrashes(p) ==
    /\ MayHappen(env.faults, MaxFaults) /\ Live(p)
    /\ worker' = [worker EXCEPT ![gen][p] = "dead"]
    /\ rlock' = [rlock EXCEPT ![p] = LockAfterDeath(p)]
    /\ env' = [env EXCEPT !.faults = @ + 1]
    /\ UNCHANGED <<fileVars, confVars, procVars, compiled, reads, applied, sidecar, received, pending,
                   watchdog, data, broken, parsed>>

OutputBreaks ==
    /\ MayHappen(env.faults, MaxFaults) /\ ~broken
    /\ broken' = TRUE
    /\ env' = [env EXCEPT !.faults = @ + 1]
    /\ UNCHANGED <<fileVars, confVars, procVars, workVars, pending, watchdog, data, parsed>>

-----------------------------------------------------------------------------
Main ==
    \/ SetupConfig \/ MakeWatcher \/ LoadProbes \/ AppendWorker \/ StartWatchdog
    \/ StopWatchdog \/ Restart
    \/ \E p \in Probes : StartWorker(p)

Sidecar(p) == SidecarLock(p) \/ SidecarReceive(p) \/ SidecarApply(p)

Next ==
    \/ Main \/ OutputFails
    \/ \E signum \in {"SIGHUP", "SIGTERM"} : DeliverSignal(signum)
    \/ \E g \in Gens : Watchdog(g)
    \/ \E p \in Probes : Sidecar(p) \/ WorkerCrashes(p)
    \/ EditConfig \/ SendSignal \/ OutputBreaks

Spec == Init /\ [][Next]_vars

\* The main thread runs and takes its signals, every watchdog thread
\* wakes up every period, sidecars are scheduled.  The rest is up to others.
Fairness ==
    /\ WF_vars(Main)
    /\ \A signum \in {"SIGHUP", "SIGTERM"} : WF_vars(DeliverSignal(signum))
    /\ \A g \in Gens : WF_vars(Watchdog(g))
    /\ \A p \in Probes : WF_vars(Sidecar(p))
FairSpec == Spec /\ Fairness

-----------------------------------------------------------------------------
(* Properties. *)

TypeOK ==
    /\ disk \in Files /\ version \in Nat
    /\ DOMAIN ns \subseteq Probes /\ \A p \in DOMAIN ns : ns[p] \in Value \cup {None}
    /\ callbacks \subseteq Probes /\ loaded \in Includes \cup {None}
    /\ queue \in [Probes -> Seq(Value)] /\ queue_id \in [Probes -> Nat]
    /\ rlock \in [Probes -> {"free", "held", "orphaned"}]
    /\ pc \in {"setup", "watcher", "load", "spawn", "append", "run", "stopping",
               "restart", "exited"}
    /\ gen \in Gens /\ pending \subseteq {"SIGHUP", "SIGTERM"} /\ exit_code \in {0, 1}
    /\ seen \in [Gens -> Nat]
    /\ DOMAIN to_start \subseteq Probes
    /\ \A p \in DOMAIN to_start : to_start[p] \in [value : Value \cup {None}, reads : Nat]
    /\ worker \in [Gens -> [Probes -> {"none", "live", "dead"}]]
    /\ compiled \in [Probes -> Value \cup {None}] /\ reads \in [Probes -> Nat]
    /\ applied \in [Probes -> Value \cup {None}]
    /\ sidecar \in [Probes -> {"off", "holding", "busy"}]
    /\ received \in [Probes -> Value \cup {None}]
    /\ watchdog \in [Gens -> {"none", "sleep", "health", "watch", "read", "apply", "done"}]
    /\ stop \in [Gens -> BOOLEAN] /\ broken \in BOOLEAN
    /\ data \in [Gens -> [file : Files, version : Nat] \cup {None}]
    /\ env \in [edits : Nat, hups : Nat, terms : Nat, faults : Nat, bad : BOOLEAN]
    /\ parsed \in Nat

\* A worker lives only in the present generation, between its start and the
\* signal that ends the generation: no restart and no exit, wherever a signal
\* finds the main thread, leaves a probe of the old configuration behind.
NoOrphanWorkers ==
    \A g \in Gens, p \in Probes : worker[g][p] = "live" =>
        g = gen /\ pc \in {"spawn", "append", "run"}

\* What reaches a running worker through its queue differs from what its BPF
\* program was compiled with in hot-swappable settings only, also when an edit,
\* a restart and the watchdog of an old generation meet.
HotSwapKeepsCold ==
    \A p \in Probes :
        /\ Live(p) /\ compiled[p] # None => applied[p].cold = compiled[p].cold
        /\ Attached(p) => \A i \in 1 .. Len(queue[p]) : queue[p][i].cold = compiled[p].cold

\* Without a SIGTERM from outside, status 0 means that the restarts were used up:
\* a dead probe or a broken output is never reported as success.
FailureExitsNonZero ==
    pc = "exited" /\ exit_code = 0 => env.terms > 0 \/ gen = MAX_RESTARTS

\* A dead worker of the present generation is noticed: the generation ends.
DeadWorkerNoticed ==
    \A p \in Probes : (pc = "run" /\ worker[gen][p] = "dead") ~> pc # "run"

\* The workers run with what is in the namespaces.
InEffect ==
    /\ pc = "run"
    /\ \A p \in Probes : Live(p) = (p \in ProbeNames)
    /\ \A p \in ProbeNames : applied[p] = ns[p]

Applied(v) == parsed >= v /\ InEffect

\* The present watcher has a change v of the file before it.
Noticeable(v) == pc = "run" /\ version = v /\ seen[gen] # v

\* With neither a signal nor a fault from outside, a change of the file that the
\* watcher can see is in effect in every worker at some time, through the queue
\* or by a restart, unless the restarts are used up.
ChangeApplied ==
    \A v \in 1 .. MaxEdits : Noticeable(v) ~>
        \/ Applied(v) \/ ~Running
        \/ env.hups > 0 \/ env.terms > 0 \/ env.faults > 0 \/ env.bad

\* "hot-swapping for probe network filters": the same, when somebody restarts
\* the daemon with SIGHUP.
HotSwapAfterRestart ==
    \A v \in 1 .. MaxEdits : Noticeable(v) ~> Applied(v) \/ ~Running

\* "probes added or removed, triggering restart": one restart, after which the
\* new set of probes is loaded.  With no signal, fault or broken file from
\* outside there are no more restarts than changes of the file.
OneRestartPerChange ==
    env.hups = 0 /\ env.terms = 0 /\ env.faults = 0 /\ ~env.bad => gen <= 1 + env.edits
=============================================================================
