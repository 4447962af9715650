----------------------------- MODULE Containers -----------------------------
(***************************************************************************)
(* The container monitor of a probe: the sidecar                           *)
(* _monitor_running_containers (probes/__init__.py) keeps the BPF map of   *)
(* mount namespaces up to date, from baselines (docker ps) and from the    *)
(* event stream of the container engine (containers.py).                   *)
(*                                                                         *)
(* A container may be started again under its id, with another process and *)
(* another mount namespace; the number of a namespace that is gone may be  *)
(* used again.  The process of life n of a container has pid n here; 0 is  *)
(* what docker inspect shows when there is no process.                     *)
(***************************************************************************)
EXTENDS Naturals, Sequences, FiniteSets

CONSTANTS
    Containers, \* container ids
    Matching,   \* those whose labels match container_labels
    NsIds,      \* mount namespace numbers
    MapSize,    \* entries of mntns_filter_map, 512 in the code
    MaxLives,   \* bound: MaxLives[c] starts of container c
    MaxStarts,  \* bound: starts of all containers
    MaxPeriods, \* bound: times CONTAINER_BASELINE_INTERVAL passes
    MaxFaults,  \* bound: failures of the engine's client
    None,       \* no value
    Missing     \* -1: no namespace found

ASSUME ContainersAssumption ==
    /\ IsFiniteSet(Containers) /\ Matching \subseteq Containers
    /\ MaxLives \in [Containers -> Nat]
    /\ MapSize \in Nat /\ MaxStarts \in Nat /\ MaxPeriods \in Nat /\ MaxFaults \in Nat
    /\ None \notin NsIds \cup Nat \cup {Missing} /\ Missing \notin NsIds

VARIABLES
    status,     \* status[c]: "absent", "created", "running" or "exited"
    life,       \* life[c]: times c was started
    mntns,      \* mntns[c]: namespace of the process of c, or None
    stream,     \* events sent and not yet read
    listening,  \* the client process that tails the events is up
    inspected,  \* inspected[c]: pid cached by inspect_container, or None
    ns_cache,   \* ns_cache[c]: result cached by get_container_mntns_id, or None
    filter_map, \* mntns_filter_map
    container_name_mapping, container_idns_mapping,
    pc,         \* of the sidecar
    listed,     \* ids list_containers returned
    infos,      \* MountNSInfo to be loaded: pairs of an id and a namespace
    due,        \* CONTAINER_BASELINE_INTERVAL has passed since the last baseline
    crashed,    \* the sidecar was started over (history)
    starts, periods, faults \* so far (history)

engineVars == <<status, life, mntns>>
cacheVars == <<inspected, ns_cache>>
tableVars == <<filter_map, container_name_mapping, container_idns_mapping>>
envVars == <<starts, periods, faults>>
vars == <<engineVars, stream, listening, cacheVars, tableVars, pc, listed, infos, due,
          crashed, envVars>>

Event == [event_type : {"start", "stop"}, id : Containers]

TypeOK ==
    /\ status \in [Containers -> {"absent", "created", "running", "exited"}]
    /\ life \in [Containers -> Nat] /\ mntns \in [Containers -> NsIds \cup {None}]
    /\ stream \in Seq(Event) /\ listening \in BOOLEAN
    /\ inspected \in [Containers -> Nat \cup {None}]
    /\ ns_cache \in [Containers -> NsIds \cup {None, Missing}]
    /\ filter_map \subseteq NsIds /\ Cardinality(filter_map) <= MapSize
    /\ DOMAIN container_name_mapping \subseteq NsIds
    /\ DOMAIN container_idns_mapping \subseteq Containers
    /\ \A n \in DOMAIN container_name_mapping : container_name_mapping[n] \in Containers
    /\ \A c \in DOMAIN container_idns_mapping : container_idns_mapping[c] \in NsIds
    /\ pc \in {"list", "inspect", "load", "attach", "wait", "closing"}
    /\ listed \subseteq Containers /\ infos \subseteq Containers \X NsIds
    /\ due \in BOOLEAN /\ crashed \in BOOLEAN /\ starts \in Nat /\ periods \in Nat /\ faults \in Nat

Init ==
    /\ status = [c \in Containers |-> "absent"] /\ life = [c \in Containers |-> 0]
    /\ mntns = [c \in Containers |-> None]
    /\ stream = <<>> /\ listening = FALSE
    /\ inspected = [c \in Containers |-> None]
    /\ ns_cache = [c \in Containers |-> None]
    /\ filter_map = {} /\ container_name_mapping = <<>> /\ container_idns_mapping = <<>>
    /\ pc = "list" /\ listed = {} /\ infos = {} /\ due = FALSE
    /\ crashed = FALSE /\ starts = 0 /\ periods = 0 /\ faults = 0

-----------------------------------------------------------------------------
(* The container engine. *)

Running(c) == status[c] = "running"

\* An event goes into the pipe of the client that tails them.  Nobody reads the
\* pipe of a monitor that crashed: there the write kills the client.
Emit(type, c) ==
    /\ stream' = IF listening /\ pc # "closing"
                 THEN Append(stream, [event_type |-> type, id |-> c]) ELSE stream
    /\ listening' = (listening /\ pc # "closing")

MayStart(c) ==
    status[c] \in {"absent", "exited"} /\ life[c] < MaxLives[c] /\ starts < MaxStarts
Unused(n) == \A d \in Containers : mntns[d] # n

\* A container is started: it has a process, and its event is sent.
StartContainer(c, n) ==
    /\ MayStart(c) /\ Unused(n)
    /\ status' = [status EXCEPT ![c] = "running"]
    /\ life' = [life EXCEPT ![c] = @ + 1]
    /\ mntns' = [mntns EXCEPT ![c] = n]
    /\ Emit("start", c)
    /\ starts' = starts + 1
    /\ UNCHANGED <<crashed, cacheVars, tableVars, pc, listed, infos, due, periods, faults>>

\* The event may also be sent before there is a process ...
AnnounceContainer(c) ==
    /\ MayStart(c)
    /\ status' = [status EXCEPT ![c] = "created"]
    /\ life' = [life EXCEPT ![c] = @ + 1]
    /\ Emit("start", c)
    /\ starts' = starts + 1
    /\ UNCHANGED <<crashed, mntns, cacheVars, tableVars, pc, listed, infos, due, periods,
                   faults>>

\* ... which follows.
RunContainer(c, n) ==
    /\ status[c] = "created" /\ Unused(n)
    /\ status' = [status EXCEPT ![c] = "running"]
    /\ mntns' = [mntns EXCEPT ![c] = n]
    /\ UNCHANGED <<crashed, life, stream, listening, cacheVars, tableVars, pc, listed, infos,
                   due, envVars>>

StopContainer(c) ==
    /\ Running(c)
    /\ status' = [status EXCEPT ![c] = "exited"]
    /\ mntns' = [mntns EXCEPT ![c] = None]
    /\ Emit("stop", c)
    /\ UNCHANGED <<crashed, life, cacheVars, tableVars, pc, listed, infos, due, envVars>>

\* The client that tails the events ends; what it wrote can still be read.
ClientDies ==
    /\ listening /\ faults < MaxFaults
    /\ listening' = FALSE /\ faults' = faults + 1
    /\ UNCHANGED <<crashed, engineVars, stream, cacheVars, tableVars, pc, listed, infos, due, starts,
                   periods>>

PeriodPasses ==
    /\ ~due /\ periods < MaxPeriods
    /\ due' = TRUE /\ periods' = periods + 1
    /\ UNCHANGED <<crashed, engineVars, stream, listening, cacheVars, tableVars, pc, listed, infos,
                   starts, faults>>

-----------------------------------------------------------------------------
(* What the sidecar learns of a container: containers.py. *)

\* inspect_container, cached by id: the pid it shows.
Pid(c) ==
    IF inspected[c] # None THEN inspected[c]
    ELSE IF Running(c) THEN life[c] ELSE 0

\* get_container_mntns_id, cached by id.  The second try, half a second later,
\* gets pid 0 again, from the cache of inspect_container.
MntnsId(c) ==
    IF ns_cache[c] # None THEN ns_cache[c]
    ELSE IF Running(c) /\ Pid(c) = life[c] THEN mntns[c] ELSE Missing

\* filter_containers_with_label_patterns
LabelMatches(ids) == ids \cap Matching

\* list_container_mnt_namespaces of ids: every one is inspected, those that
\* match are resolved, those without a namespace are left out.
InfosUnchecked(ids) == {<<c, MntnsId(c)>> : c \in LabelMatches(ids)}
Infos(ids) == {<<c, MntnsId(c)>> : c \in {d \in LabelMatches(ids) : MntnsId(d) # Missing}}

Inspect(ids) ==
    /\ inspected' = [c \in Containers |-> IF c \in ids THEN Pid(c) ELSE inspected[c]]
    /\ ns_cache' = [c \in Containers |->
           IF c \in LabelMatches(ids) THEN MntnsId(c) ELSE ns_cache[c]]

-----------------------------------------------------------------------------
(* _running_containers_baseline. *)

\* list_containers: the running ones, or none when the client fails.
ListContainers ==
    /\ pc = "list" /\ pc' = "inspect"
    /\ \/ listed' = {c \in Containers : Running(c)} /\ UNCHANGED faults
       \/ listed' = {} /\ faults < MaxFaults /\ faults' = faults + 1
    /\ UNCHANGED <<crashed, engineVars, stream, listening, cacheVars, tableVars, infos, due, starts,
                   periods>>

InspectListed ==
    /\ pc = "inspect" /\ pc' = "load"
    /\ Inspect(listed) /\ infos' = Infos(listed) /\ listed' = {}
    /\ UNCHANGED <<crashed, engineVars, stream, listening, tableVars, due, envVars>>

Namespaces == {info[2] : info \in infos}
Ids == {info[1] : info \in infos}

\* An exception: the stream is closed and never_crash starts over; closing waits
\* for the client to end.
Crash ==
    /\ pc' = IF listening THEN "closing" ELSE "list"
    /\ stream' = <<>> /\ infos' = {} /\ due' = FALSE /\ crashed' = TRUE

\* load_intset_into_map: everything is added, then, with do_diff, what is not in
\* the set is deleted.
Loaded == IF pc = "load" THEN Namespaces ELSE filter_map \cup Namespaces
NoRoom == Cardinality(filter_map \cup Namespaces) > MapSize

\* The dictionaries after an update: nothing is ever taken out of them here, and
\* containers with the same namespace come in any order.
UpdateMappings ==
    /\ \E names \in [Namespaces -> Ids] :
           /\ \A n \in Namespaces : <<names[n], n>> \in infos
           /\ container_name_mapping' =
                  [n \in DOMAIN container_name_mapping \cup Namespaces |->
                      IF n \in Namespaces THEN names[n] ELSE container_name_mapping[n]]
    /\ container_idns_mapping' =
           [c \in DOMAIN container_idns_mapping \cup Ids |->
               IF c \in Ids THEN CHOOSE n \in Namespaces : <<c, n>> \in infos
               ELSE container_idns_mapping[c]]

\* The map is loaded and the dictionaries are updated, at the end of a baseline
\* ("load") or of a start ("attach").
LoadNamespaces ==
    /\ pc \in {"load", "attach"} /\ ~NoRoom
    /\ filter_map' = Loaded
    /\ UpdateMappings
    /\ infos' = {} /\ pc' = "wait"
    /\ UNCHANGED <<crashed, engineVars, stream, listening, cacheVars, listed, due, envVars>>

\* The map is full: the update raises, before anything is deleted.
LoadRaises ==
    /\ pc \in {"load", "attach"} /\ NoRoom
    /\ \E part \in SUBSET Namespaces :
           /\ Cardinality(filter_map \cup part) = MapSize
           /\ filter_map' = filter_map \cup part
    /\ Crash
    /\ UNCHANGED <<engineVars, listening, cacheVars, container_name_mapping,
                   container_idns_mapping, listed, envVars>>

-----------------------------------------------------------------------------
(* _monitor_running_containers. *)

\* monitor_container_events starts the client, again after it ended.
OpenStream ==
    /\ pc = "wait" /\ ~listening /\ stream = <<>>
    /\ listening' = TRUE
    /\ UNCHANGED <<crashed, engineVars, stream, cacheVars, tableVars, pc, listed, infos, due, envVars>>

CloseStream ==
    /\ pc = "closing" /\ ~listening /\ pc' = "list"
    /\ UNCHANGED <<crashed, engineVars, stream, listening, cacheVars, tableVars, listed, infos, due,
                   envVars>>

Take(type, c) ==
    /\ pc = "wait" /\ stream # <<>> /\ Head(stream) = [event_type |-> type, id |-> c]

\* A baseline is due: it is taken in place of the event.
BaselineSkipped == "wait"
BaselineFirst == "list"

\* A start that matches and has a namespace is attached; any other is ignored.
TakeStart(c) ==
    /\ Take("start", c)
    /\ stream' = Tail(stream)
    /\ Inspect({c})
    /\ \/ /\ Infos({c}) = {} /\ UNCHANGED <<pc, infos, due>>
       \/ /\ Infos({c}) # {} /\ due
          /\ pc' = BaselineFirst /\ due' = FALSE /\ UNCHANGED infos
       \/ /\ Infos({c}) # {} /\ ~due
          /\ pc' = "attach" /\ infos' = Infos({c}) /\ UNCHANGED due
    /\ UNCHANGED <<crashed, engineVars, listening, tableVars, listed, envVars>>

Without(f, x) == [y \in DOMAIN f \ {x} |-> f[y]]

\* The namespaces that stay attached when the container of n stops.
AttachedKept(n) == filter_map
AttachedAfterStop(n) == filter_map \ {n}

\* A stop forgets the id and detaches its namespace.  Deleting a namespace that
\* is not in the map raises.
TakeStop(c) ==
    /\ Take("stop", c)
    /\ \/ /\ due
          /\ stream' = Tail(stream) /\ pc' = BaselineFirst /\ due' = FALSE
          /\ UNCHANGED <<tableVars, infos, crashed>>
       \/ /\ ~due /\ c \notin DOMAIN container_idns_mapping
          /\ stream' = Tail(stream)
          /\ UNCHANGED <<tableVars, pc, infos, due, crashed>>
       \/ /\ ~due /\ c \in DOMAIN container_idns_mapping
          /\ container_idns_mapping' = Without(container_idns_mapping, c)
          /\ LET n == container_idns_mapping[c] IN
             \/ /\ n \in filter_map
                /\ filter_map' = AttachedAfterStop(n)
                /\ container_name_mapping' = Without(container_name_mapping, n)
                /\ stream' = Tail(stream)
                /\ UNCHANGED <<pc, infos, due, crashed>>
             \/ /\ n \notin filter_map
                /\ Crash
                /\ UNCHANGED <<filter_map, container_name_mapping>>
    /\ UNCHANGED <<engineVars, listening, cacheVars, listed, envVars>>

-----------------------------------------------------------------------------
Monitor ==
    \/ ListContainers \/ InspectListed \/ LoadNamespaces \/ LoadRaises
    \/ OpenStream \/ CloseStream
    \/ \E c \in Containers : TakeStart(c) \/ TakeStop(c)

Next ==
    \/ Monitor \/ ClientDies \/ PeriodPasses
    \/ \E c \in Containers :
           \/ \E n \in NsIds : StartContainer(c, n) \/ RunContainer(c, n)
           \/ AnnounceContainer(c) \/ StopContainer(c)

Spec == Init /\ [][Next]_vars

\* The sidecar thread is scheduled, and a container that was started gets its
\* process.  Nobody has to start or stop a container.
FairSpec ==
    Spec /\ WF_vars(Monitor) /\ \A c \in Containers : WF_vars(\E n \in NsIds : RunContainer(c, n))

-----------------------------------------------------------------------------
(* Properties. *)

\* Between two events of the engine every namespace in the map has a name, that
\* of a matching container whose stop will detach it: no event is reported
\* without its container, and no namespace stays attached for want of an entry,
\* whatever a crash, a lost event or a namespace number used twice left behind.
AttachedIsNamed ==
    pc = "wait" =>
        \A n \in filter_map :
            /\ n \in DOMAIN container_name_mapping
            /\ container_name_mapping[n] \in Matching
            /\ \E c \in DOMAIN container_idns_mapping :
                   c = container_name_mapping[n] /\ container_idns_mapping[c] = n

Pending(type, c) == \E i \in 1 .. Len(stream) : stream[i] = [event_type |-> type, id |-> c]

\* No client failed and the sidecar was never started over.
Undisturbed == faults = 0 /\ ~crashed

\* A matching container started for the first time, whose process exists when
\* its event is sent, is attached: directly or by the baseline that replaces it.
StartAttaches ==
    \A c \in Matching :
        (Running(c) /\ life[c] = 1 /\ inspected[c] = None /\ Pending("start", c))
            ~> (~Undisturbed \/ ~Running(c) \/ mntns[c] \in filter_map)

\* When the stop of an attached container is on its way, its namespace leaves
\* the map, also when a baseline replaces the event, unless another container
\* has got the number or one was started twice: the caches give that one the
\* namespace of its first life.
StopDetaches ==
    \A c \in Matching, n \in NsIds :
        (Pending("stop", c) /\ c \in DOMAIN container_idns_mapping
            /\ container_idns_mapping[c] = n)
        ~> (~Undisturbed \/ n \notin filter_map
            \/ \E d \in Containers : mntns[d] = n \/ life[d] > 1)

\* "we may be 'too fast' and there is no process associated to the container
\* yet": the second try finds the process of a container announced early.
SecondTryAttaches ==
    \A c \in Matching :
        (status[c] = "created" /\ life[c] = 1 /\ Pending("start", c))
            ~> (~Undisturbed \/ status[c] = "exited" \/ mntns[c] \in filter_map)
=============================================================================
