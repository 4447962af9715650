-------------------------- MODULE NetListenProofs --------------------------
(***************************************************************************)
(* Proofs about SockProbes and NetListen, for every set of threads,        *)
(* sockets, endpoints, settings and configurations and every capacity.     *)
(***************************************************************************)
EXTENDS NetListen, TLAPS

(* Type correctness. *)

\* The kernel side keeps its types, whatever a thread calls and whatever is
\* missed or closed.
LEMMA KernelType == ASSUME SockTypeOK, KernelNext PROVE SockTypeOK'
<1>1. ASSUME NEW t \in Threads, NEW c \in Call, Enter(t, c) PROVE SockTypeOK'
  <2>1. c.sock \in Socks
    BY DEF Call
  <2>2. currsock' \in [Threads -> Socks \cup {None}]
    BY <1>1, <2>1 DEF Enter, Update, SockTypeOK
  <2>3. call' \in [Threads -> Call \cup {None}] /\ events' \in 0 .. MaxEvents
    BY <1>1, SockProbesAssumption DEF Enter, SockTypeOK
  <2> QED
    BY <1>1, <2>2, <2>3 DEF Enter, SockTypeOK
<1>2. ASSUME NEW t \in Threads, Return(t) PROVE SockTypeOK'
  <2>1. call[t] \in Call
    BY <1>2 DEF Return, SockTypeOK
  <2>2. call[t].sock \in Socks
    BY <2>1 DEF Call
  <2>3. PICK ok \in BOOLEAN :
            /\ IF ok THEN \E e \in Endpoints : Effect(call[t], e)
                     ELSE UNCHANGED <<ep, listening>>
            /\ \/ Kretprobe(t, ok) /\ missed' = missed \ {t}
               \/ missed' = missed \cup {t} /\ UNCHANGED <<currsock, ring>>
    BY <1>2 DEF Return
  <2>4. ep' \in [Socks -> Endpoints \cup {None}] /\ listening' \subseteq Socks
    BY <2>2, <2>3 DEF Effect, SockTypeOK
  <2>5. ring' \in Seq(Event) /\ currsock' \in [Threads -> Socks \cup {None}]
    <3>1. CASE Kretprobe(t, ok)
      <4> DEFINE e == [thread |-> t, sock |-> currsock[t], ep |-> ep'[currsock[t]]]
      <4>1. currsock[t] # None => e \in Event
        BY <2>4 DEF SockTypeOK, Event
      <4>2. ring' = ring \/ (currsock[t] # None /\ ring' = Append(ring, e))
        BY <3>1 DEF Kretprobe, PerfSubmit
      <4> HIDE DEF e
      <4>3. ring' \in Seq(Event)
        <5>1. ring \in Seq(Event)
          BY DEF SockTypeOK
        <5>2. CASE ring' = ring
          BY <5>1, <5>2
        <5>3. CASE currsock[t] # None /\ ring' = Append(ring, e)
          BY <4>1, <5>1, <5>3
        <5> QED
          BY <4>2, <5>2, <5>3
      <4> QED
        BY <3>1, <4>3 DEF Kretprobe, SockTypeOK
    <3> QED
      BY <2>3, <3>1 DEF SockTypeOK
  <2>6. call' \in [Threads -> Call \cup {None}] /\ missed' \subseteq Threads
    BY <1>2, <2>3 DEF Return, SockTypeOK
  <2> QED
    BY <1>2, <2>4, <2>5, <2>6 DEF Return, SockTypeOK
<1>3. ASSUME NEW t \in Threads, SwitchNamespace(t) PROVE SockTypeOK'
  BY <1>3 DEF SwitchNamespace, SockTypeOK
<1>4. ASSUME NEW s \in Socks, Close(s) PROVE SockTypeOK'
  BY <1>4 DEF Close, SockTypeOK
<1> QED
  BY <1>1, <1>2, <1>3, <1>4 DEF KernelNext

\* A socket the snapshot lists has an endpoint.
LEMMA ListedConns == ASSUME SockTypeOK
                     PROVE {[sock |-> s, ep |-> ep[s]] : s \in Listed} \subseteq Conn
<1>1. ASSUME NEW s \in Listed PROVE [sock |-> s, ep |-> ep[s]] \in Conn
  BY <1>1 DEF Listed, SockTypeOK, Conn
<1> QED
  BY <1>1

\* The initial states are type correct.
LEMMA TypeInit == Init => TypeOK
<1> SUFFICES ASSUME Init PROVE TypeOK
  OBVIOUS
<1>1. Configs \subseteq Config /\ MaxEvents \in Nat
  BY SockProbesAssumption
<1>2. last \in Config /\ last.net \subseteq Endpoints /\ last.port \subseteq Endpoints
  BY <1>1 DEF Init, Config
<1>3. SockTypeOK
  BY <1>1, <1>2 DEF Init, SockInit, SockTypeOK
<1>4. queue \in Seq(Config)
  BY DEF Init
<1> QED
  BY <1>2, <1>3, <1>4 DEF Init, TypeOK

\* Every step of the kernel, the sidecar, the polling thread and the snapshot
\* thread keeps the types.
LEMMA TypeStep == TypeOK /\ [Next]_vars => TypeOK'
<1> SUFFICES ASSUME TypeOK, [Next]_vars PROVE TypeOK'
  OBVIOUS
<1>0. Configs \subseteq Config /\ MaxEvents \in Nat
  BY SockProbesAssumption
<1>1. CASE Kernel
  <2>1. SockTypeOK'
    BY <1>1, KernelType DEF Kernel, TypeOK
  <2> QED
    BY <1>1, <2>1 DEF Kernel, TypeOK
<1>2. ASSUME NEW c \in Configs, Change(c) PROVE TypeOK'
  <2>1. SockTypeOK'
    BY <1>0, <1>2 DEF Change, TypeOK, SockTypeOK
  <2>2. last' \in Config /\ queue' \in Seq(Config)
    BY <1>0, <1>2 DEF Change, TypeOK
  <2> QED
    BY <1>2, <2>1, <2>2 DEF Change, TypeOK
<1>3. CASE SwapGet
  <2>1. SockTypeOK'
    BY <1>3 DEF SwapGet, TypeOK, SockTypeOK, kernelVars
  <2>2. Head(queue) \in Config /\ Tail(queue) \in Seq(Config)
    BY <1>3 DEF SwapGet, TypeOK
  <2> QED
    BY <1>3, <2>1, <2>2 DEF SwapGet, TypeOK
<1>4. CASE SwapFiltering
  <2>1. SockTypeOK'
    BY <1>4 DEF SwapFiltering, TypeOK, SockTypeOK, kernelVars
  <2>2. swap.config.net \subseteq Endpoints
    BY DEF TypeOK, Config
  <2> QED
    BY <1>4, <2>1, <2>2 DEF SwapFiltering, TypeOK
<1>5. CASE SwapPortFilter
  <2>1. SockTypeOK'
    BY <1>5 DEF SwapPortFilter, TypeOK, SockTypeOK, kernelVars
  <2>2. swap.config.port \subseteq Endpoints
    BY DEF TypeOK, Config
  <2> QED
    BY <1>5, <2>1, <2>2 DEF SwapPortFilter, TypeOK
<1>6. CASE SwapNetMap
  <2>1. SockTypeOK'
    BY <1>6 DEF SwapNetMap, TypeOK, SockTypeOK, Config
  <2> QED
    BY <1>6, <2>1 DEF SwapNetMap, TypeOK
<1>7. CASE SwapPortMap
  <2>1. SockTypeOK'
    BY <1>7 DEF SwapPortMap, TypeOK, SockTypeOK, Config
  <2> QED
    BY <1>7, <2>1 DEF SwapPortMap, TypeOK
<1>8. CASE Poll
  <2>1. Head(ring) \in Event /\ ring' \in Seq(Event)
    BY <1>8 DEF Poll, TypeOK, SockTypeOK
  <2>2. SockTypeOK'
    BY <1>8, <2>1 DEF Poll, TypeOK, SockTypeOK
  <2>3. reported' \subseteq Socks
    BY <1>8, <2>1 DEF Poll, Put, Event, TypeOK
  <2> QED
    BY <1>8, <2>2, <2>3 DEF Poll, TypeOK
<1>9. CASE SnapshotStart
  <2>1. SockTypeOK'
    BY <1>9 DEF SnapshotStart, TypeOK, SockTypeOK, kernelVars
  <2>2. conns' \subseteq Conn
    BY <1>9, ListedConns DEF SnapshotStart, TypeOK
  <2> QED
    BY <1>9, <2>1, <2>2 DEF SnapshotStart, TypeOK
<1>10. ASSUME NEW c \in Conn, SnapshotOne(c) PROVE TypeOK'
  <2>1. SockTypeOK'
    BY <1>10 DEF SnapshotOne, TypeOK, SockTypeOK, kernelVars
  <2>2. reported' \subseteq Socks /\ conns' \subseteq Conn /\ taking' \in BOOLEAN
    BY <1>10 DEF SnapshotOne, Put, Conn, TypeOK
  <2> QED
    BY <1>10, <2>1, <2>2 DEF SnapshotOne, TypeOK
<1>11. CASE SnapshotEnd
  <2>1. SockTypeOK'
    BY <1>11 DEF SnapshotEnd, TypeOK, SockTypeOK, kernelVars
  <2> QED
    BY <1>11, <2>1 DEF SnapshotEnd, TypeOK
<1>12. CASE UNCHANGED vars
  <2>1. SockTypeOK'
    BY <1>12 DEF vars, TypeOK, SockTypeOK, kernelVars
  <2> QED
    BY <1>12, <2>1 DEF vars, userVars, TypeOK
<1> QED
  BY <1>1, <1>2, <1>3, <1>4, <1>5, <1>6, <1>7, <1>8, <1>9, <1>10, <1>11, <1>12
     DEF Next, Swap, Snapshot

\* Every state of a worker with one of the socket probes is well typed.
THEOREM TypeCorrect == Spec => []TypeOK
BY TypeInit, TypeStep, PTL DEF Spec

-----------------------------------------------------------------------------
(***************************************************************************)
(* What the kretprobes report.  NoResidue is not enough for the protocol   *)
(* of the socket: the entry has to come from a kprobe that looked at it.   *)
(***************************************************************************)

\* A thread is in a function the probe traces; an entry that a bind left is of a
\* UDP socket; where every call leaves an entry none meets an old one.
CallTraced == \A t \in Threads : call[t] # None => call[t].fn \in setting.fns
BindsUdp ==
    \A t \in Threads :
        currsock[t] # None /\ t \notin missed /\ call[t] # None /\ call[t].fn = "bind" =>
            SockInfo[call[t].sock].proto = "udp"
NeverStale == NeverSkips => \A t \in Threads : call[t] # None => t \notin missed

EntryInv == NoResidue /\ CallTraced /\ BindsUdp /\ NeverStale

\* No call is under way before the probe runs.
LEMMA EntryInit == Init => EntryInv
BY DEF Init, SockInit, EntryInv, NoResidue, CallTraced, BindsUdp, NeverStale

\* The entry of a socket function: currsock.update replaces what is there, or
\* fails and leaves the thread without an entry.
LEMMA EntryEnter ==
    ASSUME SockTypeOK, EntryInv, NEW t \in Threads, NEW c \in Call, Enter(t, c)
    PROVE  EntryInv'
<1>1. c # None /\ c.sock \in Socks /\ c.sock # None
  BY SockProbesAssumption DEF Call
<1>2. call'[t] = c /\ \A u \in Threads \ {t} : call'[u] = call[u]
  BY DEF Enter, SockTypeOK
<1>3. \A u \in Threads \ {t} : currsock'[u] = currsock[u] /\ (u \in missed' <=> u \in missed)
  BY DEF Enter, Update, SockTypeOK
<1>4. CASE Recorded(t, c)
  <2>1. currsock'[t] = c.sock \/ currsock'[t] = None
    BY <1>4 DEF Enter, Update, Entries, SockTypeOK
  <2>2. t \notin missed'
    BY <1>4 DEF Enter
  <2>3. c.fn = "bind" => SockInfo[c.sock].proto = "udp"
    BY <1>4 DEF Recorded
  <2>4. NoResidue'
    BY <1>1, <1>2, <1>3, <2>1 DEF EntryInv, NoResidue
  <2>5. CallTraced' /\ setting' = setting
    BY <1>2 DEF Enter, EntryInv, CallTraced
  <2>6. BindsUdp'
    BY <1>2, <1>3, <2>3 DEF EntryInv, BindsUdp
  <2>7. NeverStale'
    BY <1>2, <1>3, <2>2, <2>5 DEF EntryInv, NeverStale, NeverSkips
  <2> QED
    BY <2>4, <2>5, <2>6, <2>7 DEF EntryInv
<1>5. CASE ~Recorded(t, c)
  <2>1. currsock' = currsock /\ missed' = missed /\ setting' = setting
    BY <1>5 DEF Enter
  <2>2. currsock[t] # None => t \in missed
    BY DEF Enter, EntryInv, NoResidue
  <2>3. NoResidue'
    BY <1>2, <2>1, <2>2 DEF EntryInv, NoResidue
  <2>4. CallTraced'
    BY <1>2, <2>1 DEF Enter, EntryInv, CallTraced
  <2>5. BindsUdp'
    BY <1>2, <2>1, <2>2 DEF EntryInv, BindsUdp
  <2>6. ~NeverSkips'
    BY <1>5, <2>1 DEF NeverSkips, Recorded, Enter
  <2> QED
    BY <2>3, <2>4, <2>5, <2>6 DEF EntryInv, NeverStale
<1> QED
  BY <1>4, <1>5

\* The return: the kretprobe deletes the entry, or is missed.
LEMMA EntryReturn ==
    ASSUME SockTypeOK, EntryInv, NEW t \in Threads, Return(t)
    PROVE  EntryInv'
<1>1. call'[t] = None /\ \A u \in Threads \ {t} : call'[u] = call[u]
  BY DEF Return, SockTypeOK
<1>2. /\ currsock'[t] = None \/ t \in missed'
      /\ \A u \in Threads \ {t} : currsock'[u] = currsock[u] /\ (u \in missed' <=> u \in missed)
  BY DEF Return, Kretprobe, SockTypeOK
<1>3. setting' = setting
  BY DEF Return
<1>4. NoResidue'
  BY <1>1, <1>2 DEF EntryInv, NoResidue
<1>5. CallTraced' /\ BindsUdp'
  BY <1>1, <1>2, <1>3 DEF EntryInv, CallTraced, BindsUdp
<1>6. NeverStale'
  BY <1>1, <1>2, <1>3 DEF EntryInv, NeverStale, NeverSkips
<1> QED
  BY <1>4, <1>5, <1>6 DEF EntryInv

\* Nothing but a call and its return touches the entries.
LEMMA EntryStep == TypeOK /\ EntryInv /\ [Next]_vars => EntryInv'
<1> SUFFICES ASSUME TypeOK, EntryInv, [Next]_vars PROVE EntryInv'
  OBVIOUS
<1> USE DEF EntryInv, NoResidue, CallTraced, BindsUdp, NeverStale, NeverSkips
<1>1. SockTypeOK
  BY DEF TypeOK
<1>2. ASSUME NEW t \in Threads, NEW c \in Call, Enter(t, c) PROVE EntryInv'
  BY <1>1, <1>2, EntryEnter
<1>3. ASSUME NEW t \in Threads, Return(t) PROVE EntryInv'
  BY <1>1, <1>3, EntryReturn
<1>4. CASE UNCHANGED <<setting, call, currsock, missed>>
  BY <1>4
<1>5. ASSUME NEW t \in Threads, SwitchNamespace(t) PROVE EntryInv'
  BY <1>4, <1>5 DEF SwitchNamespace
<1>6. ASSUME NEW s \in Socks, Close(s) PROVE EntryInv'
  BY <1>4, <1>6 DEF Close
<1>7. CASE Kernel
  BY <1>2, <1>3, <1>5, <1>6, <1>7 DEF Kernel, KernelNext
<1>8. ASSUME NEW c \in Configs, Change(c) PROVE EntryInv'
  BY <1>4, <1>8 DEF Change
<1>9. CASE Swap
  BY <1>4, <1>9 DEF Swap, SwapGet, SwapFiltering, SwapPortFilter, SwapNetMap, SwapPortMap,
                    kernelVars
<1>10. CASE Poll
  BY <1>4, <1>10 DEF Poll
<1>11. CASE Snapshot
  BY <1>4, <1>11 DEF Snapshot, SnapshotStart, SnapshotOne, SnapshotEnd, kernelVars
<1>12. CASE UNCHANGED vars
  BY <1>4, <1>12 DEF vars, kernelVars
<1> QED
  BY <1>7, <1>8, <1>9, <1>10, <1>11, <1>12 DEF Next

\* An entry of currsock belongs to the call its thread is in, unless a kretprobe
\* was missed: with any number of threads and a table of any size, full ones
\* included.
THEOREM NoEntryLeft == Spec => []NoResidue
<1>1. TypeOK /\ EntryInv /\ [Next]_vars => TypeOK' /\ EntryInv'
  BY TypeStep, EntryStep
<1>2. EntryInv => NoResidue
  BY DEF EntryInv
<1> QED
  BY TypeInit, EntryInit, <1>1, <1>2, PTL DEF Spec

\* What a return submits, from the entries before it.
LEMMA ReturnReports ==
    ASSUME SockTypeOK, EntryInv, NEW t \in Threads, Return(t), Len(ring') > Len(ring),
           ~(t \in missed /\ ~NeverSkips)
    PROVE  LET e == ring'[Len(ring')] IN
           /\ e.thread = t /\ e.sock = call[t].sock
           /\ e.ep # None /\ e.ep = ep'[e.sock]
           /\ SockInfo[e.sock].proto = "udp" \/ "connect" \in setting.fns
                  \/ e.sock \in listening'
<1>1. call[t] # None /\ call[t] \in Call
  BY DEF Return, SockTypeOK
<1>2. call[t].sock \in Socks /\ call[t].fn \in Fns
  BY <1>1 DEF Call
<1>3. t \notin missed
  BY <1>1 DEF EntryInv, NeverStale
<1> DEFINE s == currsock[t]
           x == [thread |-> t, sock |-> s, ep |-> ep'[s]]
<1>4. PICK ok \in BOOLEAN :
          /\ IF ok THEN \E e \in Endpoints : Effect(call[t], e)
                   ELSE UNCHANGED <<ep, listening>>
          /\ \/ Kretprobe(t, ok) /\ missed' = missed \ {t}
             \/ missed' = missed \cup {t} /\ UNCHANGED <<currsock, ring>>
  BY DEF Return
<1>5. ring \in Seq(Event)
  BY DEF SockTypeOK
<1>6. s # None /\ ok /\ ring' = Append(ring, x)
  <2>1. ring' # ring
    BY <1>5
  <2>2. Kretprobe(t, ok)
    BY <1>4, <2>1
  <2> QED
    BY <2>1, <2>2 DEF Kretprobe, PerfSubmit
<1>7. ring'[Len(ring')] = x
  <2> HIDE DEF x
  <2> QED
    BY <1>5, <1>6
<1>8. s = call[t].sock
  BY <1>3, <1>6 DEF EntryInv, NoResidue
<1>9. PICK e \in Endpoints : Effect(call[t], e)
  BY <1>4, <1>6
<1>10. ep'[s] = e /\ e # None
  BY <1>2, <1>8, <1>9, SockProbesAssumption DEF Effect, SockTypeOK
<1>11. SockInfo[s].proto = "udp" \/ "connect" \in setting.fns \/ s \in listening'
  <2>1. call[t].fn \in setting.fns
    BY <1>1 DEF EntryInv, CallTraced
  <2>2. call[t].fn = "bind" => SockInfo[s].proto = "udp"
    BY <1>1, <1>3, <1>6, <1>8 DEF EntryInv, BindsUdp
  <2>3. call[t].fn = "listen" => s \in listening'
    BY <1>8, <1>9 DEF Effect
  <2> QED
    BY <1>2, <2>1, <2>2, <2>3 DEF Fns
<1> QED
  BY <1>7, <1>8, <1>10, <1>11

\* A kretprobe submits the socket of the call that returns, with the endpoint it
\* has and, for net_listen, listening: another thread's call, a failed call, a
\* full table or ring, or a closed socket never makes it report something else.
THEOREM OwnCallReported == Spec => ReportsOwnCall
<1>1. TypeOK /\ EntryInv /\ [Next]_vars => TypeOK' /\ EntryInv'
  BY TypeStep, EntryStep
<1>2. TypeOK /\ EntryInv =>
        \A t \in Threads : call[t] # None /\ Return(t) /\ Len(ring') > Len(ring) =>
           LET e == ring'[Len(ring')] IN
           \/ t \in missed /\ ~NeverSkips
           \/ /\ e.thread = t /\ e.sock = call[t].sock
              /\ e.ep # None /\ e.ep = ep'[e.sock]
              /\ SockInfo[e.sock].proto = "udp" \/ "connect" \in setting.fns
                     \/ e.sock \in listening'
  BY ReturnReports DEF TypeOK
<1> QED
  BY TypeInit, EntryInit, <1>1, <1>2, PTL DEF Spec, ReportsOwnCall

-----------------------------------------------------------------------------
(***************************************************************************)
(* Changes of the configuration.  The sidecar applies one in up to four    *)
(* steps, and a rejected one in two: what is in force in between follows   *)
(* from how far it is.                                                     *)
(***************************************************************************)

\* The change sent last is the last of the queue or, when that is empty, the one
\* the sidecar is at.
LastQueued ==
    /\ queue # <<>> => queue[Len(queue)] = last
    /\ queue = <<>> /\ swap.pc # "get" => swap.config = last

\* What the sidecar has copied and loaded when it is about to take a step.
Applied ==
    /\ swap.pc \in {"filtering", "port_filter"} => IsNetListen
    /\ IsNetListen /\ swap.pc \in {"port_filter", "net_map", "port_map"} =>
           filtering = swap.config.net
    /\ IsNetListen /\ swap.pc \in {"net_map", "port_map"} =>
           port_filter = swap.config.port /\ swap.config.valid
    /\ swap.pc = "port_map" => filters.net = swap.config.net

SwapInv == LastQueued /\ Applied /\ ChangesInForce

\* The filters of the first configuration are in force.
LEMMA SwapInit == Init => SwapInv
BY DEF Init, SwapInv, LastQueued, Applied, ChangesInForce

\* Each step of the sidecar does its part, and a change that comes in between
\* only adds to the queue.
LEMMA SwapStep == TypeOK /\ SwapInv /\ [Next]_vars => SwapInv'
<1> SUFFICES ASSUME TypeOK, SwapInv, [Next]_vars PROVE SwapInv'
  OBVIOUS
<1>0. Configs \subseteq Config /\ queue \in Seq(Config)
  BY SockProbesAssumption DEF TypeOK
<1> DEFINE Kept == UNCHANGED <<setting, filters, last, queue, swap, filtering, port_filter>>
<1>1. CASE Kept
  BY <1>1 DEF SwapInv, LastQueued, Applied, ChangesInForce, IsNetListen
<1>2. CASE Kernel
  <2>1. UNCHANGED <<setting, filters>>
    BY <1>2 DEF Kernel, KernelNext, Enter, Return, SwitchNamespace, Close
  <2> QED
    BY <1>1, <1>2, <2>1 DEF Kernel
<1>3. ASSUME NEW c \in Configs, Change(c) PROVE SwapInv'
  <2>1. queue' = Append(queue, c) /\ last' = c /\ c \in Config
    BY <1>0, <1>3 DEF Change
  <2>2. queue' # <<>> /\ queue'[Len(queue')] = c
    BY <1>0, <2>1
  <2> QED
    BY <1>3, <2>1, <2>2 DEF Change, SwapInv, LastQueued, Applied, ChangesInForce, IsNetListen
<1>4. CASE SwapGet
  <2>1. queue # <<>> /\ queue' = Tail(queue) /\ last' = last
    BY <1>4 DEF SwapGet
  <2>2. queue' # <<>> => queue'[Len(queue')] = queue[Len(queue)]
    BY <1>0, <2>1
  <2>3. queue' = <<>> => Head(queue) = queue[Len(queue)]
    BY <1>0, <2>1
  <2>4. swap'.config = Head(queue) /\ swap'.pc = IF IsNetListen THEN "filtering" ELSE "net_map"
    BY <1>4 DEF SwapGet
  <2>5. LastQueued'
    BY <2>1, <2>2, <2>3, <2>4 DEF SwapInv, LastQueued
  <2>6. IsNetListen' = IsNetListen
    BY <1>4 DEF SwapGet, kernelVars, IsNetListen
  <2>7. Applied'
    BY <2>4, <2>6 DEF Applied
  <2> QED
    BY <2>4, <2>5, <2>7 DEF SwapInv, ChangesInForce
<1>5. CASE SwapFiltering
  <2>1. swap'.pc = "port_filter" /\ swap'.config = swap.config
    BY <1>5 DEF SwapFiltering, TypeOK
  <2> QED
    BY <1>5, <2>1 DEF SwapFiltering, kernelVars, SwapInv, LastQueued, Applied,
                      ChangesInForce, IsNetListen
<1>6. CASE SwapPortFilter
  <2>1. /\ swap'.pc = IF swap.config.valid THEN "net_map" ELSE "get"
        /\ swap'.config = swap.config
    BY <1>6 DEF SwapPortFilter, TypeOK
  <2>2. CASE swap.config.valid
    BY <1>6, <2>1, <2>2 DEF SwapPortFilter, kernelVars, SwapInv, LastQueued, Applied,
                            ChangesInForce, IsNetListen
  <2>3. CASE ~swap.config.valid
    BY <1>6, <2>1, <2>3 DEF SwapPortFilter, kernelVars, SwapInv, LastQueued, Applied,
                            ChangesInForce, IsNetListen
  <2> QED
    BY <2>2, <2>3
<1>7. CASE SwapNetMap
  <2>1. swap'.pc = "port_map" /\ swap'.config = swap.config
    BY <1>7 DEF SwapNetMap, TypeOK
  <2>2. filters'.net = swap.config.net
    BY <1>7 DEF SwapNetMap, TypeOK, SockTypeOK
  <2> QED
    BY <1>7, <2>1, <2>2 DEF SwapNetMap, SwapInv, LastQueued, Applied, ChangesInForce,
                            IsNetListen
<1>8. CASE SwapPortMap
  <2>1. swap'.pc = "get" /\ swap'.config = swap.config
    BY <1>8 DEF SwapPortMap, TypeOK
  <2>2. filters' = [net |-> swap.config.net, port |-> swap.config.port]
    BY <1>8 DEF SwapPortMap, TypeOK, SockTypeOK, SwapInv, Applied
  <2>3. UNCHANGED <<setting, last, queue, filtering, port_filter>>
    BY <1>8 DEF SwapPortMap
  <2>4. LastQueued' /\ Applied'
    BY <2>1, <2>3 DEF SwapInv, LastQueued, Applied
  <2>5. ChangesInForce'
    BY <1>8, <2>1, <2>2, <2>3 DEF SwapPortMap, SwapInv, LastQueued, Applied,
                                  ChangesInForce, IsNetListen
  <2> QED
    BY <2>4, <2>5 DEF SwapInv
<1>9. CASE Poll
  BY <1>1, <1>9 DEF Poll
<1>10. CASE Snapshot
  BY <1>1, <1>10 DEF Snapshot, SnapshotStart, SnapshotOne, SnapshotEnd, kernelVars
<1>11. CASE UNCHANGED vars
  BY <1>1, <1>11 DEF vars, kernelVars, userVars
<1> QED
  BY <1>2, <1>3, <1>4, <1>5, <1>6, <1>7, <1>8, <1>9, <1>10, <1>11 DEF Next, Swap

\* However many changes follow one another, and whichever of them are rejected
\* half way: once all are applied a valid last one is in force in the kernel's
\* maps and in the snapshot's copies.
THEOREM LastChangeInForce == Spec => []ChangesInForce
<1>1. TypeOK /\ SwapInv /\ [Next]_vars => TypeOK' /\ SwapInv'
  BY TypeStep, SwapStep
<1>2. SwapInv => ChangesInForce
  BY DEF SwapInv
<1> QED
  BY TypeInit, SwapInit, <1>1, <1>2, PTL DEF Spec
=============================================================================
