----------------------------- MODULE SockProbes -----------------------------
(***************************************************************************)
(* The kernel side of the tcp_connect and net_listen probes.  A kprobe at  *)
(* the entry of a socket function leaves the socket in currsock under the  *)
(* thread; the kretprobe at its return takes it from there and decides,    *)
(* with the filter maps of that moment, whether to submit an event.        *)
(*                                                                         *)
(* An endpoint is an address with a port.  The two filter maps are the     *)
(* sets of endpoints they filter; FilterLoad has their insides.            *)
(***************************************************************************)
EXTENDS Naturals, Sequences, FiniteSets

CONSTANTS
    Threads,   \* thread ids
    Socks,     \* struct sock addresses
    SockInfo,  \* their protocol, network namespace and process
    Endpoints, \* addresses with ports
    AnyPort,   \* bind to port 0
    Settings,  \* cold configurations of a probe to start with
    Configs,   \* hot-swappable configurations
    TableCap,  \* entries BPF_HASH(currsock) holds
    RingCap,   \* events the perf ring holds
    MaxEvents, \* bound: calls of socket functions and changes of configuration
    None

Fns == {"connect", "bind", "listen"}
Setting == [fns : SUBSET Fns, labels : BOOLEAN, random : BOOLEAN, same_ns : BOOLEAN,
            snapshot : BOOLEAN]
Config == [net : SUBSET Endpoints, port : SUBSET Endpoints, valid : BOOLEAN]
Call == {c \in [fn : Fns, sock : Socks, arg : Endpoints \cup {AnyPort}] :
             /\ c.fn = "connect" => c.arg # AnyPort
             /\ c.fn = "listen" => c.arg = AnyPort}  \* it has no address
Event == [thread : Threads, sock : Socks, ep : Endpoints \cup {None}]

ASSUME SockProbesAssumption ==
    /\ SockInfo \in [Socks -> [proto : {"tcp", "udp", "tcp6"}, home : BOOLEAN,
                               owned : BOOLEAN]]
    /\ Settings \subseteq Setting /\ Configs \subseteq Config
    /\ AnyPort \notin Endpoints /\ None \notin Endpoints \cup Socks \cup Call
    /\ TableCap \in Nat /\ RingCap \in Nat /\ MaxEvents \in Nat

VARIABLES
    setting,   \* the probe that runs and its template variables
    ep,        \* ep[s]: what s is bound or connected to, None when it is not
    listening, \* TCP sockets that listen
    call,      \* call[t]: the socket function thread t is in
    currsock,  \* currsock[t]: its entry, or None
    included,  \* threads whose mount namespace is in mntns_filter_map
    filters,   \* the net filter map and the port filter map
    ring,      \* submitted, not yet polled
    events,    \* calls and changes so far
    missed     \* threads whose last kretprobe was missed (history)

kernelVars == <<setting, ep, listening, call, currsock, included, filters, ring,
                events, missed>>

SockTypeOK ==
    /\ setting \in Settings
    /\ ep \in [Socks -> Endpoints \cup {None}] /\ listening \subseteq Socks
    /\ call \in [Threads -> Call \cup {None}]
    /\ currsock \in [Threads -> Socks \cup {None}]
    /\ included \subseteq Threads
    /\ filters \in [net : SUBSET Endpoints, port : SUBSET Endpoints]
    /\ ring \in Seq(Event)
    /\ events \in 0 .. MaxEvents /\ missed \subseteq Threads

\* A socket may be in use before the probe is.
SockInit ==
    /\ setting \in Settings
    /\ ep \in [Socks -> Endpoints \cup {None}]
    /\ listening = {s \in Socks : SockInfo[s].proto = "tcp" /\ ep[s] # None}
    /\ call = [t \in Threads |-> None] /\ currsock = [t \in Threads |-> None]
    /\ included = {}
    /\ filters \in {[net |-> c.net, port |-> c.port] : c \in Configs}
    /\ ring = <<>> /\ events = 0 /\ missed = {}

-----------------------------------------------------------------------------
\* Mutant: kprobe__inet_bind does not look at the protocol.
RecordedAnyProtocol(t, c) ==
    /\ setting.labels => t \in included
    /\ c.fn = "bind" => ~(setting.random /\ c.arg = AnyPort)
    /\ c.fn = "listen" => SockInfo[c.sock].proto # "tcp6"

\* kprobe__tcp_v4_connect, kprobe__inet_bind and kprobe__inet_listen get as far
\* as currsock.update.
Recorded(t, c) ==
    /\ setting.labels => t \in included
    /\ c.fn = "bind" => /\ SockInfo[c.sock].proto = "udp"
                        /\ ~(setting.random /\ c.arg = AnyPort)
    /\ c.fn = "listen" => SockInfo[c.sock].proto # "tcp6"

\* currsock.update fails when the table is full, and the code does not look.
Entries == {t \in Threads : currsock[t] # None}
Update(t, s) ==
    IF t \in Entries \/ Cardinality(Entries) < TableCap
    THEN [currsock EXCEPT ![t] = s] ELSE currsock

\* Thread t enters a function that the probe traces.
Enter(t, c) ==
    /\ call[t] = None /\ events < MaxEvents /\ c.fn \in setting.fns
    /\ c.fn # "bind" => SockInfo[c.sock].proto # "udp"
    /\ call' = [call EXCEPT ![t] = c] /\ events' = events + 1
    /\ currsock' = IF Recorded(t, c) THEN Update(t, c.sock) ELSE currsock
    /\ missed' = IF Recorded(t, c) THEN missed \ {t} ELSE missed
    /\ UNCHANGED <<setting, ep, listening, included, filters, ring>>

\* What the function of thread t may do before it returns 0.
Effect(c, e) ==
    /\ \/ c.fn = "connect" /\ ep[c.sock] = None /\ c.arg = e
       \/ c.fn = "bind" /\ ep[c.sock] = None /\ c.arg \in {e, AnyPort}
       \/ c.fn = "listen" /\ ep[c.sock] \in {e, None}
    /\ ep' = [ep EXCEPT ![c.sock] = e]
    /\ listening' = IF c.fn = "listen" THEN listening \cup {c.sock} ELSE listening

\* is_addr_port_filtered || is_port_globally_filtered
Filtered(e) == e \in filters.net \/ e \in filters.port

InNamespace(s) == setting.same_ns => SockInfo[s].home

\* events.perf_submit: lost when the ring is full.
PerfSubmit(e) == ring' = IF Len(ring) < RingCap THEN Append(ring, e) ELSE ring

\* Mutant: currsock.delete is missing where the call failed.
KretprobeKeepsFailed(t, ok) ==
    LET s == currsock[t] IN
    /\ currsock' = IF ok THEN [currsock EXCEPT ![t] = None] ELSE currsock
    /\ IF s # None /\ ok /\ ~Filtered(ep'[s]) /\ InNamespace(s)
       THEN PerfSubmit([thread |-> t, sock |-> s, ep |-> ep'[s]]) ELSE UNCHANGED ring

\* kretprobe__tcp_v4_connect and net_listen_event: every way out but "not there"
\* deletes the entry.
Kretprobe(t, ok) ==
    LET s == currsock[t] IN
    /\ currsock' = [currsock EXCEPT ![t] = None]
    /\ IF s # None /\ ok /\ ~Filtered(ep'[s]) /\ InNamespace(s)
       THEN PerfSubmit([thread |-> t, sock |-> s, ep |-> ep'[s]]) ELSE UNCHANGED ring

\* The function returns; its kretprobe is missed when too many instances of it
\* are active.
Return(t) ==
    /\ call[t] # None /\ call' = [call EXCEPT ![t] = None]
    /\ \E ok \in BOOLEAN :
           /\ IF ok THEN \E e \in Endpoints : Effect(call[t], e)
                    ELSE UNCHANGED <<ep, listening>>
           /\ \/ Kretprobe(t, ok) /\ missed' = missed \ {t}
              \/ missed' = missed \cup {t} /\ UNCHANGED <<currsock, ring>>
    /\ UNCHANGED <<setting, included, filters, events>>

\* A socket that no call uses is closed; its address is used for another one.
Close(s) ==
    /\ ep[s] # None /\ \A t \in Threads : call[t] # None => call[t].sock # s
    /\ ep' = [ep EXCEPT ![s] = None] /\ listening' = listening \ {s}
    /\ UNCHANGED <<setting, call, currsock, included, filters, ring, events, missed>>

\* A container is attached or detached (Containers), or the thread id is used by
\* a process of another one.
SwitchNamespace(t) ==
    /\ setting.labels
    /\ included' = IF t \in included THEN included \ {t} ELSE included \cup {t}
    /\ UNCHANGED <<setting, ep, listening, call, currsock, filters, ring, events, missed>>

KernelNext ==
    \/ \E t \in Threads : Return(t) \/ SwitchNamespace(t) \/ \E c \in Call : Enter(t, c)
    \/ \E s \in Socks : Close(s)

-----------------------------------------------------------------------------
(* Properties. *)

\* An entry of currsock belongs to the call its thread is in: none survives a
\* failed, filtered or foreign call, to be taken by the next return for its own.
\* Only a missed kretprobe leaves one behind.
NoResidue ==
    \A t \in Threads : currsock[t] # None =>
        \/ t \in missed
        \/ call[t] # None /\ call[t].sock = currsock[t]

\* Every entry overwrites what a missed kretprobe left.
NeverSkips == setting.fns = {"connect"} /\ ~setting.labels

\* What a kretprobe submits is the socket of the call that returns, which is
\* bound or connected to the endpoint and, for net_listen, listening.  After a
\* missed kretprobe this holds only where no call goes by without an entry of
\* its own: otherwise its return takes the old one.
ReportsOwnCall ==
    [][\A t \in Threads : call[t] # None /\ Return(t) /\ Len(ring') > Len(ring) =>
           LET e == ring'[Len(ring')] IN
           \/ t \in missed /\ ~NeverSkips
           \/ /\ e.thread = t /\ e.sock = call[t].sock
              /\ e.ep # None /\ e.ep = ep'[e.sock]
              /\ SockInfo[e.sock].proto = "udp" \/ "connect" \in setting.fns
                     \/ e.sock \in listening']_kernelVars
=============================================================================
