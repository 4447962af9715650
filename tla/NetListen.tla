----------------------------- MODULE NetListen -----------------------------
(***************************************************************************)
(* A worker process with one of the probes of SockProbes: the polling      *)
(* thread, the sidecar that applies configuration changes, and the         *)
(* snapshot thread of probes/net_listen.py, which filters with copies of   *)
(* its own, filtering and port_filter.                                     *)
(***************************************************************************)
EXTENDS SockProbes

VARIABLES
    last,        \* the configuration sent last
    queue,       \* config_change_queue
    swap,        \* the sidecar: the configuration it applies and its next step
    filtering,   \* self.filtering, as the endpoints it filters
    port_filter, \* self.port_filter, as the endpoints it filters
    conns,       \* what is left of psutil.net_connections
    taking,      \* a snapshot is being taken
    reported     \* sockets put on output_queue with the endpoint they have (history)

userVars == <<last, queue, swap, filtering, port_filter, conns, taking, reported>>
vars == <<kernelVars, userVars>>

IsNetListen == "connect" \notin setting.fns
Conn == [sock : Socks, ep : Endpoints]

TypeOK ==
    /\ SockTypeOK
    /\ last \in Config /\ queue \in Seq(Config)
    /\ swap \in [pc : {"get", "filtering", "port_filter", "net_map", "port_map"},
                config : Config]
    /\ filtering \subseteq Endpoints /\ port_filter \subseteq Endpoints
    /\ conns \subseteq Conn /\ taking \in BOOLEAN
    /\ reported \subseteq Socks

\* BPFProbe.__init__ and reload_filters(is_init=True) are over.
Init ==
    /\ SockInit
    /\ last \in {c \in Configs : c.valid}
    /\ filters = [net |-> last.net, port |-> last.port]
    /\ filtering = last.net /\ port_filter = last.port
    /\ queue = <<>> /\ swap = [pc |-> "get", config |-> last]
    /\ conns = {} /\ taking = FALSE
    /\ reported = {}

Kernel ==
    /\ KernelNext
    /\ reported' = {s \in reported : ep'[s] = ep[s]}
    /\ UNCHANGED <<last, queue, swap, filtering, port_filter, conns, taking>>

\* output_queue.put of an event about socket s with endpoint e.
Put(s, e) == reported' = IF ep[s] = e THEN reported \cup {s} ELSE reported

-----------------------------------------------------------------------------
(* _poll_config_changes *)

\* config.py puts a changed configuration on the queue.
Change(c) ==
    /\ events < MaxEvents /\ events' = events + 1
    /\ last' = c /\ queue' = Append(queue, c)
    /\ UNCHANGED <<setting, ep, listening, call, currsock, included, filters, ring, missed,
                   swap, filtering, port_filter, conns, taking, reported>>

SwapGet ==
    /\ swap.pc = "get" /\ queue # <<>>
    /\ swap' = [pc |-> IF IsNetListen THEN "filtering" ELSE "net_map", config |-> Head(queue)]
    /\ queue' = Tail(queue)
    /\ UNCHANGED <<kernelVars, last, filtering, port_filter, conns, taking, reported>>

\* NetListenProbe.build_probe_config
SwapFiltering ==
    /\ swap.pc = "filtering" /\ swap' = [swap EXCEPT !.pc = "port_filter"]
    /\ filtering' = swap.config.net
    /\ UNCHANGED <<kernelVars, last, queue, port_filter, conns, taking, reported>>

\* int() of a range in includeports raises, and never_crash calls
\* _poll_config_changes again: the change is lost.
SwapPortFilter ==
    /\ swap.pc = "port_filter"
    /\ swap' = [swap EXCEPT !.pc = IF swap.config.valid THEN "net_map" ELSE "get"]
    /\ port_filter' = IF swap.config.valid THEN swap.config.port ELSE port_filter
    /\ UNCHANGED <<kernelVars, last, queue, filtering, conns, taking, reported>>

\* Mutant: reload_filters loads the net filters only.
SwapNetMapOnly ==
    /\ swap.pc = "net_map" /\ swap' = [swap EXCEPT !.pc = "get"]
    /\ filters' = [filters EXCEPT !.net = swap.config.net]
    /\ UNCHANGED <<setting, ep, listening, call, currsock, included, ring, events, missed,
                   last, queue, filtering, port_filter, conns, taking, reported>>

\* reload_filters
SwapNetMap ==
    /\ swap.pc = "net_map" /\ swap' = [swap EXCEPT !.pc = "port_map"]
    /\ filters' = [filters EXCEPT !.net = swap.config.net]
    /\ UNCHANGED <<setting, ep, listening, call, currsock, included, ring, events, missed,
                   last, queue, filtering, port_filter, conns, taking, reported>>

SwapPortMap ==
    /\ swap.pc = "port_map" /\ swap' = [swap EXCEPT !.pc = "get"]
    /\ filters' = [filters EXCEPT !.port = swap.config.port]
    /\ UNCHANGED <<setting, ep, listening, call, currsock, included, ring, events, missed,
                   last, queue, filtering, port_filter, conns, taking, reported>>

Swap == SwapGet \/ SwapFiltering \/ SwapPortFilter \/ SwapNetMap \/ SwapPortMap

-----------------------------------------------------------------------------
(* The polling thread and _snapshot_worker. *)

Poll ==
    /\ ring # <<>> /\ ring' = Tail(ring)
    /\ Put(Head(ring).sock, Head(ring).ep)
    /\ UNCHANGED <<setting, ep, listening, call, currsock, included, filters, events, missed,
                   last, queue, swap, filtering, port_filter, conns, taking>>

\* Mutant: the status is not looked at.
ListedAny == {s \in Socks : SockInfo[s].owned}

\* The sockets with a process that have the status of a wanted protocol.
Listed ==
    {s \in Socks : /\ SockInfo[s].owned /\ ep[s] # None
                   /\ \/ "listen" \in setting.fns /\ s \in listening
                      \/ "bind" \in setting.fns /\ SockInfo[s].proto = "udp"}

\* The sleep is over.
SnapshotStart ==
    /\ setting.snapshot /\ ~taking /\ taking' = TRUE
    /\ conns' = {[sock |-> s, ep |-> ep[s]] : s \in Listed}
    /\ UNCHANGED <<kernelVars, last, queue, swap, filtering, port_filter, reported>>

\* _filter_net_namespace: a process that is gone has no namespace, and passes.
NamespacePasses(c) == InNamespace(c.sock) \/ ep[c.sock] # c.ep

\* Mutant: `break` at the first connection that is filtered.
SnapshotOneBreaks(c) ==
    /\ c \in conns
    /\ IF c.ep \notin filtering /\ c.ep \notin port_filter /\ NamespacePasses(c)
       THEN Put(c.sock, c.ep) /\ conns' = conns \ {c}
       ELSE conns' = {} /\ UNCHANGED reported
    /\ UNCHANGED <<kernelVars, last, queue, swap, filtering, port_filter, taking>>

\* The event has no mntns_id: with container_labels enrich_container_name raises,
\* and never_crash starts over, from the first sleep.
SnapshotOne(c) ==
    /\ c \in conns
    /\ \/ /\ c.ep \notin filtering /\ c.ep \notin port_filter /\ NamespacePasses(c)
          /\ \/ /\ setting.labels /\ taking' = FALSE /\ conns' = {}
                /\ UNCHANGED reported
             \/ /\ ~setting.labels /\ Put(c.sock, c.ep) /\ conns' = conns \ {c}
                /\ UNCHANGED taking
       \/ /\ c.ep \in filtering \/ c.ep \in port_filter \/ ~NamespacePasses(c)
          /\ conns' = conns \ {c}
          /\ UNCHANGED <<reported, taking>>
    /\ UNCHANGED <<kernelVars, last, queue, swap, filtering, port_filter>>

SnapshotEnd ==
    /\ taking /\ conns = {} /\ taking' = FALSE
    /\ UNCHANGED <<kernelVars, last, queue, swap, filtering, port_filter, conns, reported>>

Snapshot == SnapshotStart \/ (\E c \in Conn : SnapshotOne(c)) \/ SnapshotEnd

-----------------------------------------------------------------------------
Next == Kernel \/ (\E c \in Configs : Change(c)) \/ Swap \/ Poll \/ Snapshot

Spec == Init /\ [][Next]_vars

\* The threads of the worker are scheduled.  No process has to call anything.
FairSpec == Spec /\ WF_vars(Swap) /\ WF_vars(Poll) /\ WF_vars(Snapshot)

-----------------------------------------------------------------------------
(* Properties. *)

\* Once every change is applied, a valid last one is in force everywhere: in the
\* kernel's maps and in the copies the snapshot uses.  A change rejected half
\* way leaves them apart, and the next valid one brings them together again.
ChangesInForce ==
    queue = <<>> /\ swap.pc = "get" /\ last.valid =>
        /\ filters = [net |-> last.net, port |-> last.port]
        /\ IsNetListen => filtering = last.net /\ port_filter = last.port

\* A socket the configuration asks to report.
Wanted(s, e) ==
    /\ setting.snapshot /\ s \in Listed /\ ep[s] = e /\ InNamespace(s)
    /\ last.valid /\ e \notin last.net /\ e \notin last.port

\* A socket that goes on listening and is not filtered is reported in the end,
\* although it listened before the probe ran, its event was lost or its
\* kretprobe missed: the snapshots make up for what the kernel side loses.
\* With container_labels no snapshot gets past its first socket.
ListeningReported ==
    ~setting.labels =>
        \A s \in Socks, e \in Endpoints : Wanted(s, e) ~> s \in reported \/ ~Wanted(s, e)
=============================================================================
