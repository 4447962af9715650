----------------------------- MODULE FilterLoad -----------------------------
(***************************************************************************)
(* Loading filters into the maps of a running probe: start_polling and the *)
(* sidecar _poll_config_changes both call reload_filters, and kprobes read *)
(* the maps between any two writes.                                        *)
(***************************************************************************)
EXTENDS NetFilter

CONSTANTS
    Configs,    \* probe configurations: filters, ports, mode
    SizeMax,    \* NET_FILTER_MAP_SIZE_MAX
    SizeScaling, \* NET_FILTER_MAP_SIZE_SCALING
    Headroom,   \* headroom of the map's size, 128 in the code
    MaxChanges, \* bound: configuration changes sent to the worker
    None        \* nobody holds the mutex

Config == [filters : Seq(IpPortFilter), ports : SUBSET PortSpec,
           mode : {"exclude", "include"}]

Threads == {"main", "sidecar"}

ASSUME FilterLoadAssumption ==
    /\ Configs \subseteq Config
    /\ SizeMax \in Nat /\ SizeScaling \in Nat \ {0} /\ Headroom \in Nat
    /\ MaxChanges \in Nat
    /\ None \notin Threads

VARIABLES
    bpf_map,        \* net_filter_map, a function on its keys
    port_map,       \* port_filter_map
    map_size,       \* NET_FILTER_MAP_SIZE, compiled into the probe
    net_filters,    \* BPFProbe.net_filters
    global_filters, \* BPFProbe.global_filters: ports and mode
    queue,          \* config_change_queue
    pc,             \* where the main thread and the sidecar are
    received,       \* the configuration the sidecar works on, or None
    mutex,          \* holder of net_filter_mutex
    todo,           \* filters the holder has still to add
    leftovers,      \* keys it has still to delete
    adds, clears,   \* ports it has still to set, to clear
    new_mode,       \* the mode it stores last
    failed,         \* the last reload raised an exception (history)
    old_map, old_ports, target, \* maps and filters when it began (history)
    target_ports,   \* the ports it loads (history)
    changes         \* configuration changes sent (history)

mapVars == <<bpf_map, port_map>>
loadVars == <<todo, leftovers, adds, clears, new_mode>>
historyVars == <<old_map, old_ports, target, target_ports>>
vars == <<mapVars, map_size, net_filters, global_filters, queue, pc, received,
          mutex, loadVars, failed, historyVars, changes>>

GlobalFilters == [ports : SUBSET PortSpec, mode : {"exclude", "include"}]
IsNetFilterMap(map) ==
    /\ DOMAIN map \subseteq CFilterKey
    /\ map \in [DOMAIN map -> CFilterValue]

\* round_nearest_multiple(value, factor, headroom)
round_nearest_multiple_down(value, factor, headroom) ==
    factor * ((value + headroom) \div factor)
round_nearest_multiple(value, factor, headroom) ==
    factor * ((value + headroom) \div factor + 1)

NetFilterMapSize(filters) ==
    AtMost(SizeMax, round_nearest_multiple(Len(filters), SizeScaling, Headroom))

\* build_probe_config, in __init__: the map's size follows the first filters.
Init ==
    /\ \E config \in Configs :
           /\ net_filters = config.filters
           /\ global_filters = [ports |-> config.ports, mode |-> config.mode]
    /\ map_size = NetFilterMapSize(net_filters)
    /\ bpf_map = <<>>
    /\ port_map = [p \in Port |-> 0]
    /\ queue = <<>> /\ received = None
    /\ pc = [t \in Threads |-> IF t = "main" THEN "lock" ELSE "get"]
    /\ mutex = None
    /\ todo = <<>> /\ leftovers = {} /\ adds = {} /\ clears = {}
    /\ new_mode = "all"
    /\ failed = FALSE
    /\ old_map = <<>> /\ old_ports = port_map /\ target = <<>> /\ target_ports = {}
    /\ changes = 0

Alive == pc["main"] # "crashed"

\* The watchdog of the main process forwards a hot-swappable change.
forward_config_change(config) ==
    /\ Alive /\ changes < MaxChanges
    /\ changes' = changes + 1
    /\ queue' = Append(queue, config)
    /\ UNCHANGED <<mapVars, map_size, net_filters, global_filters, pc, received,
                   mutex, loadVars, failed, historyVars>>

\* The sidecar takes a change, and build_probe_config replaces the filters ...
SidecarGet ==
    /\ Alive /\ pc["sidecar"] = "get" /\ queue # <<>>
    /\ received' = Head(queue) /\ queue' = Tail(queue)
    /\ net_filters' = received'.filters
    /\ pc' = [pc EXCEPT !["sidecar"] = "build"]
    /\ UNCHANGED <<mapVars, map_size, global_filters, mutex, loadVars, failed,
                   historyVars, changes>>

\* ... and then the global port filters, without the mutex.
SidecarBuild ==
    /\ Alive /\ pc["sidecar"] = "build"
    /\ global_filters' = [ports |-> received.ports, mode |-> received.mode]
    /\ received' = None
    /\ pc' = [pc EXCEPT !["sidecar"] = "lock"]
    /\ UNCHANGED <<mapVars, map_size, net_filters, queue, mutex, loadVars, failed,
                   historyVars, changes>>

\* The keys a reload may delete: those in the map, unless it is the first.
Leftovers(t) == IF t = "sidecar" THEN DOMAIN bpf_map ELSE {}

\* reload_filters takes the mutex and calls load_filters_into_map.
Acquire(t) ==
    /\ Alive /\ pc[t] = "lock" /\ mutex = None
    /\ mutex' = t
    /\ todo' = net_filters
    /\ leftovers' = Leftovers(t)
    /\ pc' = [pc EXCEPT ![t] = "nets"]
    /\ old_map' = bpf_map /\ old_ports' = port_map /\ target' = net_filters
    /\ UNCHANGED <<target_ports, mapVars, map_size, net_filters, global_filters, queue, received,
                   adds, clears, new_mode, failed, changes>>

Holds(t, label) == Alive /\ mutex = t /\ pc[t] = label

\* The trie is full and the key is not in it: the update raises.
NoRoomIgnored(f) == FALSE
NoRoom(f) == FilterKey(f) \notin DOMAIN bpf_map /\ Cardinality(DOMAIN bpf_map) >= map_size

\* ebpf_map[map_key] = CFilterValue(...); leftovers.discard(map_key)
Discard(f) == leftovers \ {FilterKey(f)}

LoadFilter(t) ==
    /\ Holds(t, "nets") /\ todo # <<>>
    /\ LET f == Head(todo) IN
       /\ ~TooManyRanges(f) /\ ~NoRoom(f)
       /\ bpf_map' = [k \in DOMAIN bpf_map \cup {FilterKey(f)} |->
                        IF k = FilterKey(f) THEN FilterValue(f) ELSE bpf_map[k]]
       /\ leftovers' = Discard(f)
    /\ todo' = Tail(todo)
    /\ UNCHANGED <<port_map, map_size, net_filters, global_filters, queue, pc, received,
                   mutex, adds, clears, new_mode, failed, historyVars, changes>>

\* What an exception leaves: the with statement releases the mutex.
MutexKept == mutex
MutexReleased == None

\* An entry cannot be loaded.  In the main thread the exception ends the worker
\* process; in the sidecar never_crash goes back to the queue, and the map stays
\* as it is.
LoadFails(t) ==
    /\ Holds(t, "nets") /\ todo # <<>>
    /\ TooManyRanges(Head(todo)) \/ NoRoom(Head(todo))
    /\ pc' = [pc EXCEPT ![t] = IF t = "main" THEN "crashed" ELSE "get"]
    /\ mutex' = MutexReleased
    /\ failed' = TRUE
    /\ todo' = <<>> /\ leftovers' = {}
    /\ UNCHANGED <<mapVars, map_size, net_filters, global_filters, queue, received,
                   adds, clears, new_mode, historyVars, changes>>

\* Nothing is deleted before everything is added.
AddsNotAwaited == TRUE
AddsDone == todo = <<>>

DeleteLeftover(t, k) ==
    /\ Holds(t, "nets") /\ AddsDone /\ k \in leftovers
    /\ bpf_map' = [l \in DOMAIN bpf_map \ {k} |-> bpf_map[l]]
    /\ leftovers' = leftovers \ {k}
    /\ UNCHANGED <<port_map, map_size, net_filters, global_filters, queue, pc, received,
                   mutex, todo, adds, clears, new_mode, failed, historyVars, changes>>

\* load_port_filters_into_map: the ports set now, and those of them to clear.
CurrentPorts(t) ==
    IF t = "sidecar" THEN {p \in Port \ {0} : port_map[p] # 0} ELSE {}

PortLeftoversAll(t, portset) == CurrentPorts(t)
PortLeftovers(t, portset) == CurrentPorts(t) \ portset

StartPorts(t) ==
    /\ Holds(t, "nets") /\ todo = <<>> /\ leftovers = {}
    /\ LET portset == PortSet(global_filters.ports) IN
       /\ adds' = portset
       /\ clears' = PortLeftovers(t, portset)
       /\ target_ports' = portset
    /\ new_mode' = global_filters.mode
    /\ pc' = [pc EXCEPT ![t] = "ports"]
    /\ UNCHANGED <<mapVars, map_size, net_filters, global_filters, queue, received,
                   mutex, todo, leftovers, failed, old_map, old_ports, target, changes>>

SetPort(t, p) ==
    /\ Holds(t, "ports") /\ p \in adds
    /\ port_map' = [port_map EXCEPT ![p] = 1]
    /\ adds' = adds \ {p}
    /\ UNCHANGED <<bpf_map, map_size, net_filters, global_filters, queue, pc, received,
                   mutex, todo, leftovers, clears, new_mode, failed, historyVars, changes>>

ClearPort(t, p) ==
    /\ Holds(t, "ports") /\ adds = {} /\ p \in clears
    /\ port_map' = [port_map EXCEPT ![p] = 0]
    /\ clears' = clears \ {p}
    /\ UNCHANGED <<bpf_map, map_size, net_filters, global_filters, queue, pc, received,
                   mutex, todo, leftovers, adds, new_mode, failed, historyVars, changes>>

\* The mode goes in last; the mutex is released.  The main thread opens the
\* perf buffers and polls, the sidecar waits for the next change.
SetMode(t) ==
    /\ Holds(t, "ports") /\ adds = {} /\ clears = {}
    /\ port_map' = [port_map EXCEPT ![0] = ModeValue(new_mode)]
    /\ mutex' = None
    /\ pc' = [pc EXCEPT ![t] = IF t = "main" THEN "polling" ELSE "get"]
    /\ failed' = FALSE
    /\ UNCHANGED <<bpf_map, map_size, net_filters, global_filters, queue, received,
                   loadVars, historyVars, changes>>

Step(t) ==
    \/ Acquire(t) \/ LoadFilter(t) \/ LoadFails(t) \/ StartPorts(t) \/ SetMode(t)
    \/ \E k \in CFilterKey : DeleteLeftover(t, k)
    \/ \E p \in Port : SetPort(t, p) \/ ClearPort(t, p)

Next ==
    \/ \E config \in Configs : forward_config_change(config)
    \/ SidecarGet \/ SidecarBuild
    \/ \E t \in Threads : Step(t)

Spec == Init /\ [][Next]_vars

\* Both threads are scheduled; nothing forces a configuration change.
Fairness == /\ WF_vars(SidecarGet) /\ WF_vars(SidecarBuild)
            /\ \A t \in Threads : WF_vars(Step(t))
FairSpec == Spec /\ Fairness

-----------------------------------------------------------------------------
(* Properties. *)

TypeOK ==
    /\ IsNetFilterMap(bpf_map) /\ IsNetFilterMap(old_map)
    /\ Cardinality(DOMAIN bpf_map) <= map_size
    /\ port_map \in [Port -> 0 .. 2] /\ old_ports \in [Port -> 0 .. 2]
    /\ map_size \in Nat /\ changes \in 0 .. MaxChanges
    /\ net_filters \in Seq(IpPortFilter) /\ target \in Seq(IpPortFilter)
    /\ global_filters \in GlobalFilters
    /\ queue \in Seq(Configs) /\ received \in Configs \cup {None}
    /\ pc \in [Threads -> {"get", "build", "lock", "nets", "ports", "polling", "crashed"}]
    /\ pc["main"] \notin {"get", "build"} /\ pc["sidecar"] \notin {"polling", "crashed"}
    /\ mutex \in Threads \cup {None}
    /\ todo \in Seq(IpPortFilter) /\ leftovers \subseteq CFilterKey
    /\ adds \subseteq Port /\ clears \subseteq Port
    /\ target_ports \subseteq Port
    /\ new_mode \in PortFilterMode /\ failed \in BOOLEAN

\* No filter's network lies inside another's: no address is in two.
NonNested(filters) ==
    \A a \in Addr : \A i, j \in 1 .. Len(filters) :
        InNetwork(filters[i], a) /\ InNetwork(filters[j], a) => i = j

NonNestedMap(map) == \A a \in Addr : \A k, l \in MatchingKeys(map, a) : k = l

\* No filter has both lists of ports: class NetFilter applies both of them, the
\* map only the first.
OnePortList(filters) ==
    \A i \in 1 .. Len(filters) :
        filters[i].except_ports = <<>> \/ filters[i].include_ports = <<>>

\* No reload is under way and none is about to begin.
Quiescent == pc["main"] = "polling" /\ pc["sidecar"] = "get"

\* The kernel decides like the userland filter for every address and port.
NetAgrees ==
    \A a \in Addr, p \in Port :
        is_addr_port_filtered(bpf_map, a, p) = is_filtered(net_filters, a, p)

\* The ports a list names, both ends of a range included.
Listed(specs) == UNION {spec.lower .. spec.upper : spec \in specs}

PortAgrees(ports) ==
    \A p \in ports :
        is_port_globally_filtered(port_map, p)
          = IF global_filters.mode = "include" THEN p \notin Listed(global_filters.ports)
            ELSE p \in Listed(global_filters.ports)

\* After a reload that raised no exception, and whatever the ones before it
\* left behind, the maps decide exactly like the configuration: the snapshots
\* of net_listen (class NetFilter) and its kprobes agree, for filters that do
\* not nest and have one list of ports.  Port 0 holds the mode and the last port ends no range.
ReloadExact ==
    Quiescent /\ ~failed =>
        /\ NonNested(net_filters) /\ OnePortList(net_filters) => NetAgrees
        /\ PortAgrees(Port \ {0, MaxPort})

\* While a reload is under way, what the net filters decide for an address and
\* a port is what the old ones or the new ones decide: adding comes before
\* deleting, so that nothing both of them filter leaks through, and nothing
\* both let through is dropped.
NetBetween ==
    mutex # None /\ NonNestedMap(old_map) /\ NonNested(target) /\ OnePortList(target) =>
        \A a \in Addr, p \in Port :
            is_addr_port_filtered(bpf_map, a, p) \in
                {is_addr_port_filtered(old_map, a, p), is_filtered(target, a, p)}

\* The same for the global port filters, unless their mode changes, or is
\* overwritten for a moment by a port 0 in the list.
PortBetween ==
    mutex # None /\ pc[mutex] = "ports" /\ old_ports[0] = ModeValue(new_mode)
      /\ 0 \notin target_ports =>
        \A p \in Port \ {0} :
            \/ is_port_globally_filtered(port_map, p) = is_port_globally_filtered(old_ports, p)
            \/ is_port_globally_filtered(port_map, p)
                 = (new_mode = "include" <=> p \notin target_ports)

\* The first load ends the worker only if it was given filters it can never
\* load, or if a change came before it: one to more filters than the map was
\* sized for, or two, whose filters the sidecar loaded first.
CrashIsConfig ==
    ~Alive => \/ \E i \in 1 .. Len(target) : TooManyRanges(target[i])
              \/ Len(target) > SizeMax
              \/ changes = 1 /\ Len(target) > map_size
              \/ changes > 1

\* Every change that is sent is taken, and its reload ends: a reload that
\* raises does not keep the mutex.
ChangesTaken == [](queue # <<>> => <>(~Alive \/ (queue = <<>> /\ Quiescent)))
=============================================================================
