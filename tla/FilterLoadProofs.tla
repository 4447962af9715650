--------------------------- MODULE FilterLoadProofs ---------------------------
(***************************************************************************)
(* Proofs about FilterLoad, for every set of configurations, every size of *)
(* addresses, ports and maps, and every interleaving of the main thread,   *)
(* the sidecar and the changes it is sent.                                 *)
(***************************************************************************)
EXTENDS FilterLoad, FiniteSetTheorems, TLAPS

(***************************************************************************)
(* The invariant.                                                          *)
(***************************************************************************)

\* A thread works on the maps exactly when it holds the mutex.
MutexInv ==
    /\ \A t \in Threads : mutex = t <=> pc[t] \in {"nets", "ports"}
    /\ mutex # None => Alive

MapFinite == IsFiniteSet(DOMAIN bpf_map)

\* The sidecar holds a configuration between the queue and the filters.
ReceivedInv == pc["sidecar"] = "build" => received \in Configs

HasKey(filters, k) == \E i \in 1 .. Len(filters) : FilterKey(filters[i]) = k

\* The entry of filter i is that of some filter with the same key.
Entered(map, filters, i) ==
    /\ FilterKey(filters[i]) \in DOMAIN map
    /\ \E j \in 1 .. Len(filters) : /\ FilterKey(filters[j]) = FilterKey(filters[i])
                                    /\ map[FilterKey(filters[i])] = FilterValue(filters[j])

\* The number of filters loaded so far.
Loaded == Len(target) - Len(todo)

\* What is still to be added are the last filters of the configuration.
TodoInv ==
    mutex # None =>
        /\ Len(todo) <= Len(target)
        /\ \A i \in 1 .. Len(todo) : todo[i] = target[Loaded + i]
        /\ pc[mutex] = "ports" => todo = <<>> /\ leftovers = {}

\* Between two writes: the first filters are entered, every other entry is an
\* old one, and old ones go after the last filter only.
NetInv ==
    mutex # None =>
        /\ \A i \in 1 .. Loaded : Entered(bpf_map, target, i)
        /\ \A k \in DOMAIN bpf_map :
               \/ k \in DOMAIN old_map /\ bpf_map[k] = old_map[k]
               \/ \E i \in 1 .. Len(target) :
                      k = FilterKey(target[i]) /\ bpf_map[k] = FilterValue(target[i])
        /\ todo # <<>> => DOMAIN old_map \subseteq DOMAIN bpf_map
        /\ \A k \in leftovers : \A i \in 1 .. Loaded : k # FilterKey(target[i])
        /\ mutex = "sidecar" => \A k \in DOMAIN bpf_map : k \in leftovers \/ HasKey(target, k)

\* The same for the ports.
PortInv ==
    mutex # None =>
        /\ pc[mutex] = "nets" => port_map = old_ports
        /\ pc[mutex] = "ports" =>
               /\ new_mode \in {"exclude", "include"}
               /\ adds \subseteq target_ports /\ clears \cap target_ports = {} /\ 0 \notin clears
               /\ 0 \notin target_ports => port_map[0] = old_ports[0]
               /\ \A p \in Port \ {0} :
                      /\ p \in target_ports \ adds => port_map[p] = 1
                      /\ port_map[p] = old_ports[p] \/ port_map[p] = (IF p \in target_ports THEN 1 ELSE 0)
                      /\ mutex = "sidecar" => port_map[p] = 0 \/ p \in target_ports \/ p \in clears

-----------------------------------------------------------------------------
\* What a thread loads is what the probe has, as long as no newer change is
\* taken.
NetWithin == \A k \in DOMAIN bpf_map : HasKey(net_filters, k)
PortWithin == \A p \in Port \ {0} : port_map[p] # 0 => p \in PortSet(global_filters.ports)
NetExact == NetWithin /\ \A i \in 1 .. Len(net_filters) : Entered(bpf_map, net_filters, i)
PortExact ==
    /\ \A p \in Port \ {0} : port_map[p] # 0 <=> p \in PortSet(global_filters.ports)
    /\ port_map[0] = ModeValue(global_filters.mode)

\* The filters from n + 1 on cannot all be loaded.
Stuck(n) ==
    \E i \in 1 .. Len(net_filters) :
        /\ n < i
        /\ TooManyRanges(net_filters[i]) \/ NoRoom(net_filters[i])
        /\ \A j \in 1 .. i - 1 : FilterKey(net_filters[j]) \in DOMAIN bpf_map

Idle == pc["sidecar"] = "get"

ExactInv ==
    /\ \A t \in Threads : mutex = t /\ (t = "sidecar" \/ Idle) =>
           /\ target = net_filters
           /\ pc[t] = "ports" => /\ target_ports = PortSet(global_filters.ports)
                                 /\ new_mode = global_filters.mode
    /\ Idle /\ pc["main"] \in {"lock", "nets", "ports"} /\ ~failed => NetWithin /\ PortWithin
    /\ Idle /\ pc["main"] = "lock" /\ failed => Stuck(0)
    /\ Idle /\ pc["main"] = "nets" /\ failed => Stuck(Loaded)
    /\ Idle /\ pc["main"] = "ports" => ~failed
    /\ Idle /\ pc["main"] = "polling" /\ ~failed => NetExact /\ PortExact

\* With one change at most the first load meets its own filters only.
FirstInv ==
    /\ changes = 0 => Idle /\ queue = <<>> /\ map_size = NetFilterMapSize(net_filters)
    /\ changes = 1 => (Idle \/ queue = <<>>) /\ Len(queue) <= 1
    /\ changes <= 1 /\ pc["main"] = "lock" /\ DOMAIN bpf_map # {} =>
           changes = 1 /\ queue = <<>> /\ NetWithin
    /\ changes <= 1 /\ pc["main"] = "nets" => \A k \in DOMAIN bpf_map : HasKey(target, k)
    /\ changes = 0 /\ pc["main"] = "nets" => target = net_filters

Base == TypeOK /\ MapFinite /\ MutexInv /\ ReceivedInv

-----------------------------------------------------------------------------
(* The operators of NetFilter. *)

\* The network address of an address is an address.
LEMMA MaskType ==
    ASSUME NEW a \in Addr, NEW n \in PrefixLen PROVE Mask(a, n) \in Addr
<1>1. AddrBits \in Nat /\ n \in Nat /\ n <= AddrBits
  BY NetFilterAssumption DEF PrefixLen
<1>2. AddrBits - n \in PrefixLen
  BY <1>1 DEF PrefixLen
<1> DEFINE m == 2 ^ (AddrBits - n)
           M == 2 ^ AddrBits
<1>3. m \in Nat \ {0} /\ M \in Int
  BY <1>1, <1>2, PowerAssumption
<1>4. a \in 0 .. M - 1
  BY DEF Addr
<1> HIDE DEF m, M
<1>5. a \in Nat /\ a % m \in 0 .. a
  <2>1. a \in Nat
    BY <1>3, <1>4
  <2>2. a % m \in Nat /\ a \div m \in Nat /\ a = m * (a \div m) + (a % m)
    BY <1>3, <2>1
  <2> DEFINE q == m * (a \div m)
             rem == a % m
  <2>3. q \in Nat
    BY <1>3, <2>2
  <2>4. rem \in Nat /\ a = q + rem
    BY <2>2
  <2> HIDE DEF q, rem
  <2>5. rem \in 0 .. a
    BY <2>1, <2>3, <2>4
  <2> QED
    BY <2>1, <2>5 DEF rem
<1>6. a - (a % m) \in 0 .. M - 1
  BY <1>3, <1>4, <1>5
<1> QED
  BY <1>6 DEF Mask, Addr, m, M

\* Keys and values of filters are keys and values of the map.
LEMMA EntryType ==
    ASSUME NEW f \in IpPortFilter
    PROVE  FilterKey(f) \in CFilterKey /\ FilterValue(f) \in CFilterValue
<1>1. f.network \in Addr /\ f.prefixlen \in PrefixLen /\ f.except_ports \in Seq(PortRange)
      /\ f.include_ports \in Seq(PortRange)
  BY DEF IpPortFilter
<1>2. FilterKey(f) \in CFilterKey
  BY <1>1, MaskType DEF FilterKey, CFilterKey
<1>3. \A q \in Seq(PortRange) : \A m \in PortFilterMode : [mode |-> m, ranges |-> q] \in CFilterValue
  BY DEF CFilterValue
<1>4. "all" \in PortFilterMode /\ "exclude" \in PortFilterMode /\ "include" \in PortFilterMode
      /\ <<>> \in Seq(PortRange)
  BY DEF PortFilterMode
<1>5. FilterValue(f) \in CFilterValue
  BY <1>1, <1>3, <1>4 DEF FilterValue
<1> QED
  BY <1>2, <1>5

\* Ports to be loaded are ports.
LEMMA PortSetType == ASSUME NEW S \in SUBSET PortSpec PROVE PortSet(S) \subseteq Port
BY DEF PortSet, PortSpec, port_range_mapper

-----------------------------------------------------------------------------
(* Types and the mutex. *)

\* The constants.
LEMMA Constants ==
    /\ Configs \subseteq Config /\ MaxChanges \in Nat /\ SizeMax \in Nat /\ SizeScaling \in Nat \ {0}
    /\ Headroom \in Nat /\ MaxPort \in Nat \ {0} /\ MaxRanges \in Nat /\ None \notin Threads
    /\ "main" \in Threads /\ "sidecar" \in Threads
    /\ \A c \in Configs : /\ c.filters \in Seq(IpPortFilter)
                          /\ [ports |-> c.ports, mode |-> c.mode] \in GlobalFilters
<1>1. Configs \subseteq Config
  BY FilterLoadAssumption
<1>2. \A c \in Config : /\ c.filters \in Seq(IpPortFilter)
                        /\ [ports |-> c.ports, mode |-> c.mode] \in GlobalFilters
  BY DEF Config, GlobalFilters
<1> QED
  BY <1>1, <1>2, FilterLoadAssumption, NetFilterAssumption DEF Threads

\* The size computed for the map is a number.
LEMMA SizeType == ASSUME NEW n \in Nat
                  PROVE  /\ round_nearest_multiple(n, SizeScaling, Headroom) \in Nat
                         /\ round_nearest_multiple(n, SizeScaling, Headroom) >= n
<1> DEFINE x == n + Headroom
           s == SizeScaling
<1>1. x \in Nat /\ s \in Nat \ {0} /\ x >= n
  BY Constants
<1> HIDE DEF x, s
<1>2. x \div s \in Nat /\ x % s \in 0 .. s - 1 /\ x = s * (x \div s) + (x % s)
  BY <1>1
<1>3. s * (x \div s + 1) = s * (x \div s) + s
  BY <1>1, <1>2
<1>4. s * (x \div s) \in Nat
  BY <1>1, <1>2
<1>5. s * (x \div s + 1) \in Nat /\ s * (x \div s + 1) >= x
  BY <1>1, <1>2, <1>3, <1>4
<1>6. s * (x \div s + 1) >= n
  BY <1>1, <1>5
<1> QED
  BY <1>5, <1>6 DEF round_nearest_multiple, x, s

\* The initial state.
LEMMA BaseInit == Init => Base
<1> SUFFICES ASSUME Init PROVE Base
  OBVIOUS
<1>1. PICK c \in Configs : net_filters = c.filters
                           /\ global_filters = [ports |-> c.ports, mode |-> c.mode]
  BY DEF Init
<1>2. net_filters \in Seq(IpPortFilter) /\ global_filters \in GlobalFilters
  BY <1>1, Constants
<1>3. map_size \in Nat
  <2>1. Len(net_filters) \in Nat
    BY <1>2
  <2> QED
    BY <2>1, SizeType, Constants DEF Init, NetFilterMapSize, AtMost
<1>4. DOMAIN bpf_map = {} /\ IsNetFilterMap(bpf_map) /\ IsNetFilterMap(old_map)
  <2>1. bpf_map = <<>> /\ old_map = <<>>
    BY DEF Init
  <2>2. DOMAIN <<>> = {} /\ <<>> \in [{} -> CFilterValue]
    OBVIOUS
  <2> QED
    BY <2>1, <2>2 DEF IsNetFilterMap
<1>5. MapFinite /\ Cardinality(DOMAIN bpf_map) <= map_size
  BY <1>3, <1>4, FS_EmptySet DEF MapFinite
<1>6. port_map \in [Port -> 0 .. 2] /\ old_ports \in [Port -> 0 .. 2]
  BY DEF Init
<1>7. /\ pc \in [Threads -> {"get", "build", "lock", "nets", "ports", "polling", "crashed"}]
      /\ pc["main"] = "lock" /\ pc["sidecar"] = "get"
  BY DEF Init, Threads
<1>8. target \in Seq(IpPortFilter) /\ todo \in Seq(IpPortFilter) /\ queue \in Seq(Configs)
  BY DEF Init
<1>9. TypeOK
  <2>1. changes \in 0 .. MaxChanges
    BY Constants DEF Init
  <2>2. /\ leftovers \subseteq CFilterKey /\ adds \subseteq Port /\ clears \subseteq Port
        /\ target_ports \subseteq Port /\ received \in Configs \cup {None}
        /\ mutex \in Threads \cup {None} /\ new_mode \in PortFilterMode /\ failed \in BOOLEAN
    BY DEF Init, PortFilterMode
  <2> QED
    BY <1>2, <1>3, <1>4, <1>5, <1>6, <1>7, <1>8, <2>1, <2>2 DEF TypeOK
<1>10. MutexInv /\ ReceivedInv
  BY <1>7, Constants DEF Init, MutexInv, ReceivedInv, Threads
<1> QED
  BY <1>5, <1>9, <1>10 DEF Base

\* Every step keeps the types, the mutex and the bound of the map: an update is
\* made only when there is room for it.
LEMMA BaseStep == Base /\ [Next]_vars => Base'
<1> SUFFICES ASSUME Base, [Next]_vars PROVE Base'
  OBVIOUS
<1>0. TypeOK /\ MapFinite /\ MutexInv /\ ReceivedInv
  BY DEF Base
<1>1. /\ IsNetFilterMap(bpf_map) /\ Cardinality(DOMAIN bpf_map) <= map_size /\ map_size \in Nat
      /\ port_map \in [Port -> 0 .. 2] /\ global_filters \in GlobalFilters
      /\ todo \in Seq(IpPortFilter) /\ net_filters \in Seq(IpPortFilter)
      /\ queue \in Seq(Configs) /\ received \in Configs \cup {None} /\ changes \in 0 .. MaxChanges
      /\ pc \in [Threads -> {"get", "build", "lock", "nets", "ports", "polling", "crashed"}]
      /\ leftovers \subseteq CFilterKey /\ adds \subseteq Port /\ clears \subseteq Port
      /\ new_mode \in PortFilterMode
  BY <1>0 DEF TypeOK
<1>2. CASE UNCHANGED vars
  BY <1>0, <1>2 DEF Base, TypeOK, MapFinite, MutexInv, ReceivedInv, Alive, vars, mapVars,
                    loadVars, historyVars
<1>3. ASSUME NEW c \in Configs, forward_config_change(c) PROVE Base'
  <2>1. changes' \in 0 .. MaxChanges
    BY <1>1, <1>3, Constants DEF forward_config_change
  <2>2. queue' \in Seq(Configs)
    BY <1>1, <1>3 DEF forward_config_change
  <2>3. TypeOK'
    BY <1>0, <1>3, <2>1, <2>2 DEF forward_config_change, TypeOK, mapVars, loadVars, historyVars
  <2> QED
    BY <1>0, <1>3, <2>3 DEF forward_config_change, Base, MapFinite, MutexInv, ReceivedInv, Alive,
                            mapVars
<1>4. CASE SidecarGet
  <2>1. received' \in Configs /\ queue' \in Seq(Configs)
    BY <1>1, <1>4 DEF SidecarGet
  <2>2. net_filters' \in Seq(IpPortFilter)
    BY <1>4, <2>1, Constants DEF SidecarGet
  <2>3. /\ pc' = [pc EXCEPT !["sidecar"] = "build"] /\ pc["sidecar"] = "get"
        /\ UNCHANGED <<mutex, bpf_map>>
    BY <1>4 DEF SidecarGet, mapVars
  <2>4. TypeOK'
    BY <1>0, <1>4, <2>1, <2>2, <2>3 DEF SidecarGet, TypeOK, Threads, mapVars, loadVars, historyVars
  <2>5. MutexInv'
    BY <1>0, <1>1, <2>3 DEF MutexInv, Alive, Threads
  <2> QED
    BY <1>0, <2>1, <2>3, <2>4, <2>5 DEF Base, MapFinite, ReceivedInv
<1>5. CASE SidecarBuild
  <2>1. received \in Configs
    BY <1>0, <1>5 DEF SidecarBuild, ReceivedInv
  <2>2. global_filters' \in GlobalFilters
    BY <1>5, <2>1, Constants DEF SidecarBuild
  <2>3. /\ pc' = [pc EXCEPT !["sidecar"] = "lock"] /\ pc["sidecar"] = "build"
        /\ UNCHANGED <<mutex, bpf_map>> /\ received' = None
    BY <1>5 DEF SidecarBuild, mapVars
  <2>4. TypeOK'
    BY <1>0, <1>5, <2>2, <2>3 DEF SidecarBuild, TypeOK, Threads, mapVars, loadVars, historyVars
  <2>5. MutexInv'
    BY <1>0, <1>1, <2>3 DEF MutexInv, Alive, Threads
  <2>6. pc'["sidecar"] = "lock"
    BY <1>1, <2>3 DEF Threads
  <2> QED
    BY <1>0, <2>3, <2>4, <2>5, <2>6 DEF Base, MapFinite, ReceivedInv
<1>6. ASSUME NEW t \in Threads, Acquire(t) PROVE Base'
  <2>1. /\ pc' = [pc EXCEPT ![t] = "nets"] /\ mutex = None /\ mutex' = t /\ pc[t] = "lock"
        /\ UNCHANGED <<bpf_map, received>> /\ Alive
    BY <1>6 DEF Acquire, mapVars
  <2>2. leftovers' \subseteq CFilterKey
    BY <1>1, <1>6 DEF Acquire, Leftovers, IsNetFilterMap
  <2>3. TypeOK'
    BY <1>0, <1>6, <2>1, <2>2 DEF Acquire, TypeOK, Threads, mapVars
  <2>4. MutexInv'
    BY <1>0, <1>1, <2>1, Constants DEF MutexInv, Alive, Threads
  <2>5. ReceivedInv'
    BY <1>0, <1>1, <2>1 DEF ReceivedInv, Threads
  <2> QED
    BY <1>0, <2>1, <2>3, <2>4, <2>5 DEF Base, MapFinite
<1>7. ASSUME NEW t \in Threads, LoadFilter(t) PROVE Base'
  <2> DEFINE f == Head(todo)
             k == FilterKey(f)
  <2>1. f \in IpPortFilter /\ Tail(todo) \in Seq(IpPortFilter)
    BY <1>1, <1>7 DEF LoadFilter
  <2>2. k \in CFilterKey /\ FilterValue(f) \in CFilterValue
    BY <2>1, EntryType
  <2>3. /\ bpf_map' = [l \in DOMAIN bpf_map \cup {k} |->
                           IF l = k THEN FilterValue(f) ELSE bpf_map[l]]
        /\ k \in DOMAIN bpf_map \/ ~(Cardinality(DOMAIN bpf_map) >= map_size)
        /\ leftovers' \subseteq leftovers /\ todo' = Tail(todo)
        /\ UNCHANGED <<pc, mutex, received, map_size>>
    BY <1>7 DEF LoadFilter, NoRoom, Discard
  <2> HIDE DEF f, k
  <2>4. DOMAIN bpf_map' = DOMAIN bpf_map \cup {k}
    BY <2>3
  <2>5. IsNetFilterMap(bpf_map')
    BY <1>1, <2>2, <2>3, <2>4 DEF IsNetFilterMap
  <2>6. IsFiniteSet(DOMAIN bpf_map') /\ Cardinality(DOMAIN bpf_map') <= map_size
    <3>1. IsFiniteSet(DOMAIN bpf_map) /\ Cardinality(DOMAIN bpf_map) \in Nat
      BY <1>0, FS_CardinalityType DEF MapFinite
    <3>2. CASE k \in DOMAIN bpf_map
      <4>1. DOMAIN bpf_map' = DOMAIN bpf_map
        BY <2>4, <3>2
      <4> QED
        BY <1>1, <3>1, <4>1
    <3>3. CASE k \notin DOMAIN bpf_map
      <4>1. /\ IsFiniteSet(DOMAIN bpf_map \cup {k})
            /\ Cardinality(DOMAIN bpf_map \cup {k}) = Cardinality(DOMAIN bpf_map) + 1
        BY <3>1, <3>3, FS_AddElement
      <4> QED
        BY <1>1, <2>3, <2>4, <3>1, <3>3, <4>1
    <3> QED
      BY <3>2, <3>3
  <2>7. TypeOK'
    BY <1>0, <1>7, <2>1, <2>3, <2>5, <2>6 DEF LoadFilter, TypeOK, historyVars
  <2> QED
    BY <1>0, <2>3, <2>6, <2>7 DEF Base, MapFinite, MutexInv, ReceivedInv, Alive
<1>8. ASSUME NEW t \in Threads, LoadFails(t) PROVE Base'
  <2>1. /\ pc' = [pc EXCEPT ![t] = IF t = "main" THEN "crashed" ELSE "get"]
        /\ mutex = t /\ pc[t] = "nets" /\ mutex' = None /\ UNCHANGED <<bpf_map, received>>
    BY <1>8 DEF LoadFails, Holds, MutexReleased, mapVars
  <2>2. todo' \in Seq(IpPortFilter)
    BY <1>8 DEF LoadFails
  <2>3. TypeOK'
    BY <1>0, <1>8, <2>1, <2>2 DEF LoadFails, TypeOK, Threads, mapVars, historyVars
  <2>4. MutexInv'
    BY <1>0, <1>1, <2>1, Constants DEF MutexInv, Alive, Threads
  <2>5. ReceivedInv'
    BY <1>0, <1>1, <2>1 DEF ReceivedInv, Threads
  <2> QED
    BY <1>0, <2>1, <2>3, <2>4, <2>5 DEF Base, MapFinite
<1>9. ASSUME NEW t \in Threads, NEW k \in CFilterKey, DeleteLeftover(t, k) PROVE Base'
  <2>1. /\ bpf_map' = [l \in DOMAIN bpf_map \ {k} |-> bpf_map[l]] /\ leftovers' \subseteq leftovers
        /\ UNCHANGED <<pc, mutex, received, map_size>>
    BY <1>9 DEF DeleteLeftover
  <2>2. DOMAIN bpf_map' = DOMAIN bpf_map \ {k}
    BY <2>1
  <2>3. IsNetFilterMap(bpf_map')
    BY <1>1, <2>1, <2>2 DEF IsNetFilterMap
  <2>4. IsFiniteSet(DOMAIN bpf_map') /\ Cardinality(DOMAIN bpf_map') <= map_size
    <3>1. IsFiniteSet(DOMAIN bpf_map) /\ DOMAIN bpf_map' \subseteq DOMAIN bpf_map
      BY <1>0, <2>2 DEF MapFinite
    <3>2. IsFiniteSet(DOMAIN bpf_map') /\ Cardinality(DOMAIN bpf_map') <= Cardinality(DOMAIN bpf_map)
      BY <3>1, FS_Subset
    <3>3. Cardinality(DOMAIN bpf_map') \in Nat /\ Cardinality(DOMAIN bpf_map) \in Nat
      BY <3>1, <3>2, FS_CardinalityType
    <3> QED
      BY <1>1, <3>2, <3>3
  <2>5. TypeOK'
    BY <1>0, <1>9, <2>1, <2>3, <2>4 DEF DeleteLeftover, TypeOK, historyVars
  <2> QED
    BY <1>0, <2>1, <2>4, <2>5 DEF Base, MapFinite, MutexInv, ReceivedInv, Alive
<1>10. ASSUME NEW t \in Threads, StartPorts(t) PROVE Base'
  <2>1. /\ pc' = [pc EXCEPT ![t] = "ports"] /\ mutex = t /\ pc[t] = "nets"
        /\ UNCHANGED <<bpf_map, received, mutex>>
    BY <1>10 DEF StartPorts, Holds, mapVars
  <2>2. global_filters.ports \in SUBSET PortSpec /\ global_filters.mode \in PortFilterMode
    BY <1>1 DEF GlobalFilters, PortFilterMode
  <2>3. /\ adds' \subseteq Port /\ clears' \subseteq Port /\ target_ports' \subseteq Port
        /\ new_mode' \in PortFilterMode
    BY <1>10, <2>2, PortSetType DEF StartPorts, PortLeftovers, CurrentPorts
  <2>4. TypeOK'
    BY <1>0, <1>10, <2>1, <2>3 DEF StartPorts, TypeOK, Threads, mapVars
  <2>5. MutexInv'
    BY <1>0, <1>1, <2>1 DEF MutexInv, Alive, Threads
  <2>6. ReceivedInv'
    BY <1>0, <1>1, <2>1 DEF ReceivedInv, Threads
  <2> QED
    BY <1>0, <2>1, <2>4, <2>5, <2>6 DEF Base, MapFinite
<1>11. ASSUME NEW t \in Threads, NEW p \in Port, SetPort(t, p) \/ ClearPort(t, p) PROVE Base'
  <2>1. /\ UNCHANGED <<bpf_map, pc, mutex, received>>
        /\ port_map' = [port_map EXCEPT ![p] = 1] \/ port_map' = [port_map EXCEPT ![p] = 0]
        /\ adds' \subseteq adds /\ clears' \subseteq clears
    BY <1>11 DEF SetPort, ClearPort
  <2>2. port_map' \in [Port -> 0 .. 2]
    <3>1. CASE port_map' = [port_map EXCEPT ![p] = 1]
      BY <1>1, <3>1
    <3>2. CASE port_map' = [port_map EXCEPT ![p] = 0]
      BY <1>1, <3>2
    <3> QED
      BY <2>1, <3>1, <3>2
  <2>3. TypeOK'
    BY <1>0, <1>11, <2>1, <2>2 DEF SetPort, ClearPort, TypeOK, historyVars
  <2> QED
    BY <1>0, <2>1, <2>3 DEF Base, MapFinite, MutexInv, ReceivedInv, Alive
<1>12. ASSUME NEW t \in Threads, SetMode(t) PROVE Base'
  <2>1. /\ pc' = [pc EXCEPT ![t] = IF t = "main" THEN "polling" ELSE "get"]
        /\ mutex = t /\ pc[t] = "ports" /\ mutex' = None /\ UNCHANGED <<bpf_map, received>>
        /\ port_map' = [port_map EXCEPT ![0] = ModeValue(new_mode)] /\ Alive
    BY <1>12 DEF SetMode, Holds
  <2>2. ModeValue(new_mode) \in 0 .. 2
    BY <1>1 DEF PortFilterMode, ModeValue
  <2>3. port_map' \in [Port -> 0 .. 2]
    BY <1>1, <2>1, <2>2
  <2>4. TypeOK'
    <3>1. /\ pc \in [Threads -> {"get", "build", "lock", "nets", "ports", "polling", "crashed"}]
          /\ pc["main"] \notin {"get", "build"} /\ pc["sidecar"] \notin {"polling", "crashed"}
      BY <1>0 DEF TypeOK
    <3>2. /\ pc' \in [Threads -> {"get", "build", "lock", "nets", "ports", "polling", "crashed"}]
          /\ pc'["main"] \notin {"get", "build"} /\ pc'["sidecar"] \notin {"polling", "crashed"}
      <4>1. CASE t = "main"
        BY <2>1, <3>1, <4>1 DEF Threads
      <4>2. CASE t = "sidecar"
        BY <2>1, <3>1, <4>2 DEF Threads
      <4> QED
        BY <4>1, <4>2 DEF Threads
    <3>3. UNCHANGED <<bpf_map, map_size, net_filters, global_filters, queue, received, changes,
                      loadVars, historyVars>>
      BY <1>12 DEF SetMode
    <3>4. mutex' = None /\ failed' = FALSE
      BY <1>12 DEF SetMode
    <3> QED
      BY <1>0, <2>3, <3>2, <3>3, <3>4 DEF TypeOK, loadVars, historyVars
  <2>5. MutexInv'
    BY <1>0, <1>1, <2>1, Constants DEF MutexInv, Alive, Threads
  <2>6. ReceivedInv'
    BY <1>0, <1>1, <2>1 DEF ReceivedInv, Threads
  <2> QED
    BY <1>0, <2>1, <2>4, <2>5, <2>6 DEF Base, MapFinite
<1> QED
  BY <1>2, <1>3, <1>4, <1>5, <1>6, <1>7, <1>8, <1>9, <1>10, <1>11, <1>12 DEF Next, Step

\* Type correctness: FilterLoad never leaves its types, and the trie never holds
\* more entries than it was made for.
THEOREM TypeCorrect == Spec => []TypeOK
<1>1. Base => TypeOK
  BY DEF Base
<1> QED
  BY <1>1, BaseInit, BaseStep, PTL DEF Spec

-----------------------------------------------------------------------------
(* The maps between two writes. *)

\* What does not touch the maps, nor what the holder of the mutex has to do.
Aside ==
    /\ UNCHANGED <<bpf_map, port_map, map_size, mutex, todo, leftovers, adds, clears, new_mode,
                   old_map, old_ports, target, target_ports, failed>>
    /\ mutex # None => pc'[mutex] = pc[mutex]
    /\ pc'["main"] = pc["main"]

\* A step without the mutex is one of these.
LEMMA AsideStep ==
    ASSUME Base,
           UNCHANGED vars \/ SidecarGet \/ SidecarBuild
             \/ \E c \in Configs : forward_config_change(c)
    PROVE  Aside
<1>0. /\ pc \in [Threads -> {"get", "build", "lock", "nets", "ports", "polling", "crashed"}]
      /\ mutex \in Threads \cup {None} /\ MutexInv
  BY DEF Base, TypeOK
<1>1. CASE UNCHANGED vars
  BY <1>1 DEF Aside, vars, mapVars, loadVars, historyVars
<1>2. CASE SidecarGet \/ SidecarBuild
  <2>1. PICK l \in {"build", "lock"} : pc' = [pc EXCEPT !["sidecar"] = l]
    BY <1>2 DEF SidecarGet, SidecarBuild
  <2>2. pc["sidecar"] \in {"get", "build"}
    BY <1>2 DEF SidecarGet, SidecarBuild
  <2>3. mutex # "sidecar"
    BY <1>0, <2>2, Constants DEF MutexInv
  <2>4. pc'["main"] = pc["main"] /\ (mutex # None => pc'[mutex] = pc[mutex])
    BY <1>0, <2>1, <2>3 DEF Threads
  <2> QED
    BY <1>2, <2>4 DEF Aside, SidecarGet, SidecarBuild, mapVars, loadVars, historyVars
<1>3. CASE \E c \in Configs : forward_config_change(c)
  BY <1>3 DEF Aside, forward_config_change, mapVars, loadVars, historyVars
<1> QED
  BY <1>1, <1>2, <1>3

\* The filters still to be loaded are a suffix of the configuration.
LEMMA TodoStep == Base /\ TodoInv /\ [Next]_vars => TodoInv'
<1> SUFFICES ASSUME Base, TodoInv, [Next]_vars PROVE TodoInv'
  OBVIOUS
<1>0. /\ pc \in [Threads -> {"get", "build", "lock", "nets", "ports", "polling", "crashed"}]
      /\ mutex \in Threads \cup {None} /\ MutexInv /\ None \notin Threads
      /\ todo \in Seq(IpPortFilter) /\ target \in Seq(IpPortFilter)
  BY Constants DEF Base, TypeOK
<1>1. CASE Aside
  BY <1>1 DEF Aside, TodoInv, Loaded
<1>2. ASSUME mutex' = None PROVE TodoInv'
  BY <1>2 DEF TodoInv
<1>3. ASSUME UNCHANGED <<todo, target, mutex, pc>>, leftovers' \subseteq leftovers PROVE TodoInv'
  BY <1>3 DEF TodoInv, Loaded
<1>4. ASSUME NEW t \in Threads, Acquire(t) PROVE TodoInv'
  <2>1. todo' = net_filters /\ target' = net_filters /\ mutex' = t /\ pc' = [pc EXCEPT ![t] = "nets"]
    BY <1>4 DEF Acquire
  <2>2. Len(net_filters) \in Nat
    BY DEF Base, TypeOK
  <2>3. Loaded' = 0 /\ pc'[mutex'] = "nets"
    BY <1>0, <2>1, <2>2 DEF Loaded
  <2> QED
    BY <2>1, <2>2, <2>3 DEF TodoInv
<1>5. ASSUME NEW t \in Threads, LoadFilter(t) PROVE TodoInv'
  <2>1. /\ todo' = Tail(todo) /\ todo # <<>> /\ mutex = t /\ pc[t] = "nets"
        /\ UNCHANGED <<target, mutex, pc>>
    BY <1>5 DEF LoadFilter, Holds, historyVars
  <2>2. Len(todo) <= Len(target) /\ \A i \in 1 .. Len(todo) : todo[i] = target[Loaded + i]
    BY <1>0, <2>1 DEF TodoInv
  <2>3. Len(Tail(todo)) = Len(todo) - 1 /\ Len(todo) \in Nat /\ Len(target) \in Nat /\ Len(todo) > 0
        /\ \A i \in 1 .. Len(Tail(todo)) : Tail(todo)[i] = todo[i + 1]
    BY <1>0, <2>1
  <2>4. Loaded' = Loaded + 1 /\ Loaded \in Int
    BY <2>1, <2>3 DEF Loaded
  <2>5. \A i \in 1 .. Len(todo') : todo'[i] = target'[Loaded' + i]
    <3> TAKE i \in 1 .. Len(todo')
    <3>1. i + 1 \in 1 .. Len(todo) /\ todo'[i] = todo[i + 1]
      BY <2>1, <2>3
    <3>2. Loaded' + i = Loaded + (i + 1)
      BY <2>3, <2>4
    <3> QED
      BY <2>1, <2>2, <3>1, <3>2
  <2> QED
    BY <2>1, <2>2, <2>3, <2>5 DEF TodoInv
<1>6. ASSUME NEW t \in Threads, LoadFails(t) \/ SetMode(t) PROVE TodoInv'
  BY <1>2, <1>6 DEF LoadFails, SetMode, MutexReleased
<1>7. ASSUME NEW t \in Threads, StartPorts(t) PROVE TodoInv'
  <2>1. /\ todo = <<>> /\ leftovers = {} /\ mutex = t /\ pc[t] = "nets"
        /\ UNCHANGED <<target, mutex, todo, leftovers>>
    BY <1>7 DEF StartPorts, Holds
  <2> QED
    BY <1>0, <2>1 DEF TodoInv, Loaded
<1>8. ASSUME NEW t \in Threads, NEW k \in CFilterKey, DeleteLeftover(t, k) PROVE TodoInv'
  BY <1>3, <1>8 DEF DeleteLeftover, historyVars
<1>9. ASSUME NEW t \in Threads, NEW p \in Port, SetPort(t, p) \/ ClearPort(t, p) PROVE TodoInv'
  BY <1>3, <1>9 DEF SetPort, ClearPort, historyVars
<1> QED
  BY <1>1, <1>4, <1>5, <1>6, <1>7, <1>8, <1>9, AsideStep DEF Next, Step

\* The net filters between two writes.
LEMMA NetStep == Base /\ TodoInv /\ NetInv /\ [Next]_vars => NetInv'
<1> SUFFICES ASSUME Base, TodoInv, NetInv, [Next]_vars PROVE NetInv'
  OBVIOUS
<1>0. /\ mutex \in Threads \cup {None} /\ MutexInv /\ None \notin Threads
      /\ todo \in Seq(IpPortFilter) /\ target \in Seq(IpPortFilter)
      /\ net_filters \in Seq(IpPortFilter)
  BY Constants DEF Base, TypeOK
<1>1. CASE Aside
  BY <1>1 DEF Aside, NetInv, Loaded, Entered, HasKey
<1>2. ASSUME mutex' = None PROVE NetInv'
  BY <1>2 DEF NetInv
<1>3. ASSUME UNCHANGED <<bpf_map, old_map, todo, leftovers, target, mutex>> PROVE NetInv'
  BY <1>3 DEF NetInv, Loaded, Entered, HasKey
<1>4. ASSUME NEW t \in Threads, Acquire(t) PROVE NetInv'
  <2>1. /\ todo' = net_filters /\ target' = net_filters /\ mutex' = t /\ old_map' = bpf_map
        /\ bpf_map' = bpf_map /\ leftovers' = Leftovers(t)
    BY <1>4 DEF Acquire, mapVars
  <2>2. Loaded' = 0
    BY <1>0, <2>1 DEF Loaded
  <2>3. mutex' = "sidecar" => leftovers' = DOMAIN bpf_map
    BY <2>1 DEF Leftovers
  <2> QED
    BY <2>1, <2>2, <2>3 DEF NetInv
<1>5. ASSUME NEW t \in Threads, LoadFilter(t) PROVE NetInv'
  <2> DEFINE n == Loaded + 1
             k == FilterKey(target[n])
             v == FilterValue(target[n])
  <2>1. /\ todo' = Tail(todo) /\ todo # <<>> /\ mutex = t /\ UNCHANGED <<target, mutex, old_map>>
    BY <1>5 DEF LoadFilter, Holds, historyVars
  <2>2. Len(todo) \in 1 .. Len(target) /\ Len(todo') = Len(todo) - 1 /\ Len(target) \in Nat
    BY <1>0, <2>1 DEF TodoInv
  <2>3. Head(todo) = target[n] /\ n \in 1 .. Len(target) /\ Loaded' = n /\ Loaded \in Nat
    BY <1>0, <2>1, <2>2 DEF TodoInv, Loaded
  <2>4. /\ bpf_map' = [l \in DOMAIN bpf_map \cup {k} |-> IF l = k THEN v ELSE bpf_map[l]]
        /\ leftovers' = leftovers \ {k}
    BY <1>5, <2>3 DEF LoadFilter, Discard
  <2>5. /\ \A i \in 1 .. Loaded : Entered(bpf_map, target, i)
        /\ \A l \in DOMAIN bpf_map :
               \/ l \in DOMAIN old_map /\ bpf_map[l] = old_map[l]
               \/ \E i \in 1 .. Len(target) :
                      l = FilterKey(target[i]) /\ bpf_map[l] = FilterValue(target[i])
        /\ DOMAIN old_map \subseteq DOMAIN bpf_map
        /\ \A l \in leftovers : \A i \in 1 .. Loaded : l # FilterKey(target[i])
        /\ mutex = "sidecar" => \A l \in DOMAIN bpf_map : l \in leftovers \/ HasKey(target, l)
    BY <1>0, <2>1 DEF NetInv
  <2>6. FilterKey(target[n]) = k /\ FilterValue(target[n]) = v
    OBVIOUS
  <2> HIDE DEF k, v
  <2>7. DOMAIN bpf_map' = DOMAIN bpf_map \cup {k} /\ bpf_map'[k] = v
        /\ \A l \in DOMAIN bpf_map : l # k => bpf_map'[l] = bpf_map[l]
    BY <2>4
  <2>8. \A i \in 1 .. n : Entered(bpf_map', target, i)
    <3> SUFFICES ASSUME NEW i \in 1 .. n PROVE Entered(bpf_map', target, i)
      OBVIOUS
    <3>1. i \in 1 .. Len(target) /\ (i = n \/ i \in 1 .. Loaded)
      BY <2>2, <2>3
    <3>2. CASE FilterKey(target[i]) = k
      BY <2>3, <2>6, <2>7, <3>2 DEF Entered
    <3>3. CASE FilterKey(target[i]) # k
      <4>1. Entered(bpf_map, target, i)
        BY <2>5, <2>6, <3>1, <3>3
      <4> QED
        BY <2>7, <3>3, <4>1 DEF Entered
    <3> QED
      BY <3>2, <3>3
  <2>9. \A l \in DOMAIN bpf_map' :
               \/ l \in DOMAIN old_map /\ bpf_map'[l] = old_map[l]
               \/ \E i \in 1 .. Len(target) :
                      l = FilterKey(target[i]) /\ bpf_map'[l] = FilterValue(target[i])
    BY <2>3, <2>5, <2>6, <2>7
  <2>10. \A l \in leftovers' : \A i \in 1 .. n : l # FilterKey(target[i])
    <3> SUFFICES ASSUME NEW l \in leftovers', NEW i \in 1 .. n PROVE l # FilterKey(target[i])
      OBVIOUS
    <3>1. l \in leftovers /\ l # k /\ (i = n \/ i \in 1 .. Loaded)
      BY <2>3, <2>4
    <3> QED
      BY <2>5, <2>6, <3>1
  <2>11. mutex = "sidecar" => \A l \in DOMAIN bpf_map' : l \in leftovers' \/ HasKey(target, l)
    <3>1. HasKey(target, k)
      BY <2>3, <2>6 DEF HasKey
    <3> QED
      BY <2>4, <2>5, <2>7, <3>1
  <2> HIDE DEF n
  <2>12. (\A i \in 1 .. Loaded : Entered(bpf_map, target, i))'
    BY <2>1, <2>3, <2>8
  <2>13. (mutex = "sidecar" => \A l \in DOMAIN bpf_map : l \in leftovers \/ HasKey(target, l))'
    BY <2>1, <2>11 DEF HasKey
  <2>14. (\A l \in leftovers : \A i \in 1 .. Loaded : l # FilterKey(target[i]))'
    BY <2>1, <2>3, <2>10
  <2> QED
    BY <2>1, <2>5, <2>7, <2>9, <2>12, <2>13, <2>14 DEF NetInv
<1>6. ASSUME NEW t \in Threads, LoadFails(t) \/ SetMode(t) PROVE NetInv'
  BY <1>2, <1>6 DEF LoadFails, SetMode, MutexReleased
<1>7. ASSUME NEW t \in Threads, NEW p \in Port, StartPorts(t) \/ SetPort(t, p) \/ ClearPort(t, p)
      PROVE  NetInv'
  BY <1>3, <1>7 DEF StartPorts, SetPort, ClearPort, mapVars, historyVars
<1>8. ASSUME NEW t \in Threads, NEW k \in CFilterKey, DeleteLeftover(t, k) PROVE NetInv'
  <2>1. /\ mutex = t /\ todo = <<>> /\ k \in leftovers /\ leftovers' = leftovers \ {k}
        /\ bpf_map' = [l \in DOMAIN bpf_map \ {k} |-> bpf_map[l]]
        /\ UNCHANGED <<todo, target, mutex, old_map>>
    BY <1>8 DEF DeleteLeftover, Holds, AddsDone, historyVars
  <2>2. /\ \A i \in 1 .. Loaded : Entered(bpf_map, target, i)
        /\ \A l \in DOMAIN bpf_map :
               \/ l \in DOMAIN old_map /\ bpf_map[l] = old_map[l]
               \/ \E i \in 1 .. Len(target) :
                      l = FilterKey(target[i]) /\ bpf_map[l] = FilterValue(target[i])
        /\ \A l \in leftovers : \A i \in 1 .. Loaded : l # FilterKey(target[i])
        /\ mutex = "sidecar" => \A l \in DOMAIN bpf_map : l \in leftovers \/ HasKey(target, l)
    BY <1>0, <2>1 DEF NetInv
  <2>3. /\ DOMAIN bpf_map' = DOMAIN bpf_map \ {k}
        /\ \A l \in DOMAIN bpf_map' : bpf_map'[l] = bpf_map[l]
    BY <2>1
  <2>4. Loaded' = Loaded
    BY <2>1 DEF Loaded
  <2>5. \A i \in 1 .. Loaded : Entered(bpf_map', target, i)
    BY <2>1, <2>2, <2>3 DEF Entered
  <2>6. (\A i \in 1 .. Loaded : Entered(bpf_map, target, i))'
    BY <2>1, <2>4, <2>5
  <2>7. (mutex = "sidecar" => \A l \in DOMAIN bpf_map : l \in leftovers \/ HasKey(target, l))'
    BY <2>1, <2>2, <2>3 DEF HasKey
  <2>8. (\A l \in leftovers : \A i \in 1 .. Loaded : l # FilterKey(target[i]))'
    BY <2>1, <2>2, <2>4
  <2>9. (\A l \in DOMAIN bpf_map :
               \/ l \in DOMAIN old_map /\ bpf_map[l] = old_map[l]
               \/ \E i \in 1 .. Len(target) :
                      l = FilterKey(target[i]) /\ bpf_map[l] = FilterValue(target[i]))'
    BY <2>1, <2>2, <2>3
  <2> QED
    BY <2>1, <2>6, <2>7, <2>8, <2>9 DEF NetInv
<1>9. 0 \in Port
  BY Constants DEF Port
<1> QED
  BY <1>1, <1>4, <1>5, <1>6, <1>7, <1>8, <1>9, AsideStep DEF Next, Step

\* The ports between two writes.
LEMMA PortStep == Base /\ PortInv /\ [Next]_vars => PortInv'
<1> SUFFICES ASSUME Base, PortInv, [Next]_vars PROVE PortInv'
  OBVIOUS
<1>0. /\ pc \in [Threads -> {"get", "build", "lock", "nets", "ports", "polling", "crashed"}]
      /\ mutex \in Threads \cup {None} /\ MutexInv /\ None \notin Threads
      /\ port_map \in [Port -> 0 .. 2] /\ adds \subseteq Port /\ global_filters \in GlobalFilters
  BY Constants DEF Base, TypeOK
<1>1. CASE Aside
  BY <1>1 DEF Aside, PortInv
<1>2. ASSUME mutex' = None PROVE PortInv'
  BY <1>2 DEF PortInv
<1>3. ASSUME NEW t \in Threads, LoadFilter(t) PROVE PortInv'
  <2>1. /\ UNCHANGED <<port_map, old_ports, mutex, pc>> /\ mutex = t /\ pc[t] = "nets"
    BY <1>3 DEF LoadFilter, Holds, historyVars
  <2> QED
    BY <1>0, <2>1 DEF PortInv
<1>4. ASSUME NEW t \in Threads, NEW k \in CFilterKey, DeleteLeftover(t, k) PROVE PortInv'
  <2>1. /\ UNCHANGED <<port_map, old_ports, mutex, pc>> /\ mutex = t /\ pc[t] = "nets"
    BY <1>4 DEF DeleteLeftover, Holds, historyVars
  <2> QED
    BY <1>0, <2>1 DEF PortInv
<1>5. ASSUME NEW t \in Threads, LoadFails(t) \/ SetMode(t) PROVE PortInv'
  BY <1>2, <1>5 DEF LoadFails, SetMode, MutexReleased
<1>6. ASSUME NEW t \in Threads, Acquire(t) PROVE PortInv'
  <2>1. /\ pc' = [pc EXCEPT ![t] = "nets"] /\ mutex' = t /\ old_ports' = port_map
        /\ port_map' = port_map
    BY <1>6 DEF Acquire, mapVars
  <2>2. pc'[mutex'] = "nets"
    BY <1>0, <2>1
  <2> QED
    BY <2>1, <2>2 DEF PortInv
<1>7. ASSUME NEW t \in Threads, StartPorts(t) PROVE PortInv'
  <2>1. /\ pc' = [pc EXCEPT ![t] = "ports"] /\ mutex = t /\ pc[t] = "nets"
        /\ adds' = target_ports' /\ clears' = CurrentPorts(t) \ target_ports'
        /\ UNCHANGED <<mutex, port_map, old_ports>> /\ new_mode' = global_filters.mode
    BY <1>7 DEF StartPorts, Holds, PortLeftovers, mapVars
  <2>2. port_map = old_ports /\ pc'[mutex'] = "ports"
    BY <1>0, <2>1 DEF PortInv
  <2>3. /\ mutex = "sidecar" => \A p \in Port \ {0} : port_map[p] = 0 \/ p \in target_ports' \/ p \in clears'
        /\ 0 \notin clears'
    BY <2>1 DEF CurrentPorts
  <2>4. new_mode' \in {"exclude", "include"}
    BY <1>0, <2>1 DEF GlobalFilters
  <2> QED
    BY <2>1, <2>2, <2>3, <2>4 DEF PortInv
<1>8. ASSUME NEW t \in Threads, NEW q \in Port, SetPort(t, q) \/ ClearPort(t, q) PROVE PortInv'
  <2>1. /\ mutex = t /\ pc[t] = "ports"
        /\ UNCHANGED <<mutex, pc, old_ports, target_ports, new_mode>>
    BY <1>8 DEF SetPort, ClearPort, Holds, historyVars
  <2>2. /\ new_mode \in {"exclude", "include"}
        /\ adds \subseteq target_ports /\ clears \cap target_ports = {} /\ 0 \notin clears
        /\ 0 \notin target_ports => port_map[0] = old_ports[0]
        /\ \A p \in Port \ {0} :
               /\ p \in target_ports \ adds => port_map[p] = 1
               /\ port_map[p] = old_ports[p] \/ port_map[p] = (IF p \in target_ports THEN 1 ELSE 0)
               /\ mutex = "sidecar" => port_map[p] = 0 \/ p \in target_ports \/ p \in clears
    BY <1>0, <2>1 DEF PortInv
  <2>3. 0 \in Port
    BY Constants DEF Port
  <2>4. CASE SetPort(t, q)
    <3>1. /\ q \in adds /\ adds' = adds \ {q} /\ clears' = clears
          /\ port_map' = [port_map EXCEPT ![q] = 1]
      BY <2>4 DEF SetPort
    <3>2. port_map'[q] = 1 /\ \A p \in Port : p # q => port_map'[p] = port_map[p]
      BY <1>0, <3>1
    <3>3. /\ adds' \subseteq target_ports' /\ clears' \cap target_ports' = {} /\ 0 \notin clears'
          /\ 0 \notin target_ports' => port_map'[0] = old_ports'[0]
      BY <2>1, <2>2, <2>3, <3>1, <3>2
    <3>4. ASSUME NEW p \in Port \ {0}
          PROVE  /\ p \in target_ports \ adds' => port_map'[p] = 1
                 /\ port_map'[p] = old_ports[p] \/ port_map'[p] = (IF p \in target_ports THEN 1 ELSE 0)
                 /\ mutex = "sidecar" => port_map'[p] = 0 \/ p \in target_ports \/ p \in clears'
      BY <2>2, <3>1, <3>2
    <3> QED
      BY <2>1, <2>2, <3>3, <3>4 DEF PortInv
  <2>5. CASE ClearPort(t, q)
    <3>1. /\ q \in clears /\ clears' = clears \ {q} /\ adds' = adds
          /\ port_map' = [port_map EXCEPT ![q] = 0] /\ q \notin target_ports
      BY <2>2, <2>5 DEF ClearPort
    <3>2. port_map'[q] = 0 /\ \A p \in Port : p # q => port_map'[p] = port_map[p]
      BY <1>0, <3>1
    <3>3. adds' \subseteq target_ports' /\ clears' \cap target_ports' = {} /\ 0 \notin clears'
      BY <2>1, <2>2, <3>1
    <3>4. ASSUME NEW p \in Port \ {0}
          PROVE  /\ p \in target_ports \ adds' => port_map'[p] = 1
                 /\ port_map'[p] = old_ports[p] \/ port_map'[p] = (IF p \in target_ports THEN 1 ELSE 0)
                 /\ mutex = "sidecar" => port_map'[p] = 0 \/ p \in target_ports \/ p \in clears'
      BY <2>2, <3>1, <3>2
    <3>5. 0 \notin target_ports' => port_map'[0] = old_ports'[0]
      BY <2>1, <2>2, <2>3, <3>1, <3>2
    <3> QED
      BY <2>1, <2>2, <3>3, <3>4, <3>5 DEF PortInv
  <2> QED
    BY <1>8, <2>4, <2>5
<1> QED
  BY <1>1, <1>3, <1>4, <1>5, <1>6, <1>7, <1>8, AsideStep DEF Next, Step

-----------------------------------------------------------------------------
(* What the maps decide. *)

\* What an entry decides for a port.
Decision(val, port) ==
    \/ val.mode = "all"
    \/ val.mode = "include" /\ InRanges(port, val.ranges)
    \/ val.mode = "exclude" /\ ~InRanges(port, val.ranges)

\* The entry of a filter decides what class NetFilter decides for it.
LEMMA EntryDecides ==
    ASSUME NEW f \in IpPortFilter, f.except_ports = <<>> \/ f.include_ports = <<>>,
           NEW a, InNetwork(f, a), NEW p
    PROVE  Decision(FilterValue(f), p) <=> MatchesFilter(f, a, p)
<1>1. ~InRanges(p, <<>>)
  BY DEF InRanges
<1>2. CASE f.except_ports # <<>>
  <2>1. FilterValue(f).mode = "exclude" /\ FilterValue(f).ranges = f.except_ports
    BY <1>2 DEF FilterValue
  <2> QED
    BY <1>2, <2>1 DEF Decision, MatchesFilter
<1>3. CASE f.except_ports = <<>> /\ f.include_ports # <<>>
  <2>1. FilterValue(f).mode = "include" /\ FilterValue(f).ranges = f.include_ports
    BY <1>3 DEF FilterValue
  <2> QED
    BY <1>1, <1>3, <2>1 DEF Decision, MatchesFilter
<1>4. CASE f.except_ports = <<>> /\ f.include_ports = <<>>
  <2>1. FilterValue(f).mode = "all"
    BY <1>4 DEF FilterValue
  <2> QED
    BY <1>1, <1>4, <2>1 DEF Decision, MatchesFilter
<1> QED
  BY <1>2, <1>3, <1>4

\* A network is matched by the key of its filter.
LEMMA KeyMatches ==
    ASSUME NEW f, NEW a
    PROVE  InNetwork(f, a) <=> Mask(a, FilterKey(f).prefixlen) = FilterKey(f).data
BY DEF InNetwork, FilterKey

\* Filters that do not nest have different keys.
LEMMA KeysApart ==
    ASSUME NEW filters \in Seq(IpPortFilter), NonNested(filters),
           NEW i \in 1 .. Len(filters), NEW j \in 1 .. Len(filters),
           FilterKey(filters[i]) = FilterKey(filters[j])
    PROVE  i = j
<1>1. filters[i] \in IpPortFilter
  OBVIOUS
<1>2. filters[i].network \in Addr
  BY <1>1 DEF IpPortFilter
<1>3. InNetwork(filters[i], filters[i].network)
  BY DEF InNetwork
<1>4. InNetwork(filters[j], filters[i].network)
  BY <1>3, KeyMatches
<1> QED
  BY <1>2, <1>3, <1>4 DEF NonNested

\* The longest of the matching prefixes is one of them, if there is a longest.
LEMMA LookupOne ==
    ASSUME NEW map, NEW a, NEW k \in MatchingKeys(map, a),
           \A l \in MatchingKeys(map, a) : l.prefixlen <= k.prefixlen
    PROVE  \E m \in MatchingKeys(map, a) :
               LpmLookup(map, a) = map[m] /\ \A l \in MatchingKeys(map, a) : l.prefixlen <= m.prefixlen
<1> DEFINE m == CHOOSE m \in MatchingKeys(map, a) :
                    \A l \in MatchingKeys(map, a) : l.prefixlen <= m.prefixlen
<1>1. m \in MatchingKeys(map, a) /\ \A l \in MatchingKeys(map, a) : l.prefixlen <= m.prefixlen
  OBVIOUS
<1>2. LpmLookup(map, a) = map[m]
  BY DEF LpmLookup
<1> QED
  BY <1>1, <1>2

\* In a map of which at most two keys match an address, one of them is looked up.
LEMMA LookupTwo ==
    ASSUME NEW map, NEW a, \A k \in DOMAIN map : k.prefixlen \in Nat,
           NEW A, NEW B, MatchingKeys(map, a) \subseteq {A, B}, MatchingKeys(map, a) # {}
    PROVE  \E m \in MatchingKeys(map, a) : LpmLookup(map, a) = map[m]
<1> DEFINE M == MatchingKeys(map, a)
<1>1. \A l \in M : l.prefixlen \in Nat
  BY DEF MatchingKeys
<1>2. \E k \in M : \A l \in M : l.prefixlen <= k.prefixlen
  <2>1. CASE A \notin M
    <3>1. M = {B}
      BY <2>1
    <3> QED
      BY <1>1, <3>1
  <2>2. CASE B \notin M
    <3>1. M = {A}
      BY <2>2
    <3> QED
      BY <1>1, <3>1
  <2>3. CASE A \in M /\ B \in M
    <3>1. M = {A, B}
      BY <2>3
    <3>2. A.prefixlen \in Nat /\ B.prefixlen \in Nat
      BY <1>1, <2>3
    <3>3. CASE A.prefixlen <= B.prefixlen
      BY <3>1, <3>2, <3>3
    <3>4. CASE B.prefixlen <= A.prefixlen
      BY <3>1, <3>2, <3>4
    <3> QED
      BY <3>2, <3>3, <3>4
  <2> QED
    BY <2>1, <2>2, <2>3
<1> QED
  BY <1>2, LookupOne

\* In a map of which one key matches an address, that one is looked up.
LEMMA LookupUnique ==
    ASSUME NEW map, NEW a, \A k \in DOMAIN map : k.prefixlen \in Nat,
           NEW k \in MatchingKeys(map, a), \A l \in MatchingKeys(map, a) : l = k
    PROVE  LpmLookup(map, a) = map[k]
<1>1. MatchingKeys(map, a) \subseteq {k, k} /\ MatchingKeys(map, a) # {}
  OBVIOUS
<1>2. \E m \in MatchingKeys(map, a) : LpmLookup(map, a) = map[m]
  BY <1>1, LookupTwo
<1> QED
  BY <1>2

\* The filter an address is in decides for it.
LEMMA TargetDecides ==
    ASSUME NEW filters \in Seq(IpPortFilter), NonNested(filters), OnePortList(filters),
           NEW i \in 1 .. Len(filters), NEW a \in Addr, NEW p, InNetwork(filters[i], a)
    PROVE  Decision(FilterValue(filters[i]), p) <=> is_filtered(filters, a, p)
<1>1. filters[i] \in IpPortFilter
  OBVIOUS
<1>2. Decision(FilterValue(filters[i]), p) <=> MatchesFilter(filters[i], a, p)
  BY <1>1, EntryDecides DEF OnePortList
<1>3. \A j \in 1 .. Len(filters) : MatchesFilter(filters[j], a, p) => j = i
  BY DEF MatchesFilter, NonNested
<1> QED
  BY <1>2, <1>3 DEF is_filtered

\* Keys of a typed map have a length.
LEMMA KeyLength ==
    ASSUME NEW map, IsNetFilterMap(map) PROVE \A k \in DOMAIN map : k.prefixlen \in Nat
<1>1. \A n \in PrefixLen : n \in Nat
  BY NetFilterAssumption DEF PrefixLen
<1>2. \A k \in CFilterKey : k.prefixlen \in PrefixLen
  BY DEF CFilterKey
<1> QED
  BY <1>1, <1>2 DEF IsNetFilterMap

\* The map between two writes decides like the old one or like the new filters:
\* an old key goes only when all new ones are in.
LEMMA BetweenOldAndNew == Base /\ TodoInv /\ NetInv => NetBetween
<1> SUFFICES ASSUME Base, TodoInv, NetInv, mutex # None, NonNestedMap(old_map), NonNested(target),
                    OnePortList(target), NEW a \in Addr, NEW p \in Port
             PROVE  \/ is_addr_port_filtered(bpf_map, a, p) = is_addr_port_filtered(old_map, a, p)
                    \/ is_addr_port_filtered(bpf_map, a, p) = is_filtered(target, a, p)
  BY DEF NetBetween
<1> DEFINE M == MatchingKeys(bpf_map, a)
           O == MatchingKeys(old_map, a)
           N == {k \in M : \E i \in 1 .. Len(target) : k = FilterKey(target[i])}
<1>0. /\ \A k \in DOMAIN bpf_map :
             \/ k \in DOMAIN old_map /\ bpf_map[k] = old_map[k]
             \/ \E i \in 1 .. Len(target) :
                    k = FilterKey(target[i]) /\ bpf_map[k] = FilterValue(target[i])
      /\ todo # <<>> => DOMAIN old_map \subseteq DOMAIN bpf_map
      /\ \A i \in 1 .. Loaded : Entered(bpf_map, target, i)
  BY DEF NetInv
<1>1. target \in Seq(IpPortFilter) /\ IsNetFilterMap(bpf_map) /\ IsNetFilterMap(old_map)
  BY DEF Base, TypeOK
<1>2. /\ \A k \in DOMAIN bpf_map : k.prefixlen \in Nat
      /\ \A k \in DOMAIN old_map : k.prefixlen \in Nat
  BY <1>1, KeyLength
<1>3. \A k, l \in O : k = l
  BY DEF NonNestedMap
<1>4. \A k, l \in N : k = l
  <2> SUFFICES ASSUME NEW k \in N, NEW l \in N PROVE k = l
    OBVIOUS
  <2>1. PICK i \in 1 .. Len(target) : k = FilterKey(target[i])
    OBVIOUS
  <2>2. PICK j \in 1 .. Len(target) : l = FilterKey(target[j])
    OBVIOUS
  <2>3. InNetwork(target[i], a) /\ InNetwork(target[j], a)
    BY <2>1, <2>2, KeyMatches DEF MatchingKeys
  <2> QED
    BY <2>1, <2>2, <2>3 DEF NonNested
<1>5. \A k \in M : k \in O \/ k \in N
  BY <1>0 DEF MatchingKeys
<1>6. ASSUME NEW k \in M, LpmLookup(bpf_map, a) = bpf_map[k]
      PROVE  \/ is_addr_port_filtered(bpf_map, a, p) <=> is_addr_port_filtered(old_map, a, p)
             \/ is_addr_port_filtered(bpf_map, a, p) <=> is_filtered(target, a, p)
  <2>1. is_addr_port_filtered(bpf_map, a, p) <=> Decision(bpf_map[k], p)
    BY <1>6 DEF is_addr_port_filtered, Decision
  <2>2. CASE k \in DOMAIN old_map /\ bpf_map[k] = old_map[k]
    <3>1. k \in O
      BY <2>2 DEF MatchingKeys
    <3>2. LpmLookup(old_map, a) = old_map[k]
      BY <1>2, <1>3, <3>1, LookupUnique
    <3>3. is_addr_port_filtered(old_map, a, p) <=> Decision(old_map[k], p)
      BY <3>1, <3>2 DEF is_addr_port_filtered, Decision
    <3> QED
      BY <2>1, <2>2, <3>3
  <2>3. CASE \E i \in 1 .. Len(target) :
                 k = FilterKey(target[i]) /\ bpf_map[k] = FilterValue(target[i])
    <3>1. PICK i \in 1 .. Len(target) :
                 k = FilterKey(target[i]) /\ bpf_map[k] = FilterValue(target[i])
      BY <2>3
    <3>2. InNetwork(target[i], a)
      BY <3>1, KeyMatches DEF MatchingKeys
    <3>3. Decision(FilterValue(target[i]), p) <=> is_filtered(target, a, p)
      BY <1>1, <3>2, TargetDecides
    <3> QED
      BY <2>1, <3>1, <3>3
  <2> QED
    BY <1>0, <2>2, <2>3 DEF MatchingKeys
<1>7. CASE M # {}
  <2>1. \E A, B : M \subseteq {A, B}
    <3> HIDE DEF M, O, N
    <3>1. PICK A : \A k \in O : k = A
      BY <1>3
    <3>2. PICK B : \A k \in N : k = B
      BY <1>4
    <3>3. M \subseteq {A, B}
      BY <1>5, <3>1, <3>2
    <3> QED
      BY <3>3
  <2>2. \E k \in M : LpmLookup(bpf_map, a) = bpf_map[k]
    BY <1>2, <1>7, <2>1, LookupTwo
  <2>3. \/ is_addr_port_filtered(bpf_map, a, p) <=> is_addr_port_filtered(old_map, a, p)
        \/ is_addr_port_filtered(bpf_map, a, p) <=> is_filtered(target, a, p)
    BY <1>6, <2>2
  <2> QED
    BY <2>3 DEF is_addr_port_filtered, is_filtered
<1>8. CASE M = {}
  <2>1. ~is_addr_port_filtered(bpf_map, a, p)
    BY <1>8 DEF is_addr_port_filtered
  <2>2. CASE O = {}
    <3>1. ~is_addr_port_filtered(old_map, a, p)
      BY <2>2 DEF is_addr_port_filtered
    <3> QED
      BY <2>1, <3>1 DEF is_addr_port_filtered
  <2>3. CASE O # {}
    <3>1. PICK k \in DOMAIN old_map : Mask(a, k.prefixlen) = k.data
      BY <2>3 DEF MatchingKeys
    <3>2. k \notin DOMAIN bpf_map
      BY <1>8, <3>1 DEF MatchingKeys
    <3>3. todo = <<>>
      BY <1>0, <3>1, <3>2
    <3>4. Loaded = Len(target)
      BY <1>1, <3>3 DEF Loaded
    <3>5. ~is_filtered(target, a, p)
      <4> SUFFICES ASSUME NEW i \in 1 .. Len(target), MatchesFilter(target[i], a, p) PROVE FALSE
        BY DEF is_filtered
      <4>1. FilterKey(target[i]) \in DOMAIN bpf_map
        BY <1>0, <3>4 DEF Entered
      <4>2. FilterKey(target[i]) \in M
        BY <4>1, KeyMatches DEF MatchesFilter, MatchingKeys
      <4> QED
        BY <1>8, <4>2
    <3> QED
      BY <2>1, <3>5 DEF is_addr_port_filtered, is_filtered
  <2> QED
    BY <2>2, <2>3
<1> QED
  BY <1>7, <1>8

\* The modes are apart.
LEMMA Modes == ModeValue("exclude") = 1 /\ ModeValue("include") = 2
<1>1. ModeValue("exclude") = 1
  BY DEF ModeValue
<1>2. ModeValue("include") = 2
  BY DEF ModeValue
<1> QED
  BY <1>1, <1>2

\* The ports between two writes decide like the old ones or like the new ones.
LEMMA PortsBetweenOldAndNew == Base /\ PortInv => PortBetween
<1> SUFFICES ASSUME Base, PortInv, mutex # None, pc[mutex] = "ports",
                    old_ports[0] = ModeValue(new_mode), 0 \notin target_ports, NEW p \in Port \ {0}
             PROVE  \/ is_port_globally_filtered(port_map, p) = is_port_globally_filtered(old_ports, p)
                    \/ is_port_globally_filtered(port_map, p)
                         = (new_mode = "include" <=> p \notin target_ports)
  BY DEF PortBetween
<1>1. /\ port_map[0] = old_ports[0] /\ new_mode \in {"exclude", "include"}
      /\ port_map[p] = old_ports[p] \/ port_map[p] = (IF p \in target_ports THEN 1 ELSE 0)
  BY DEF PortInv
<1>2. CASE port_map[p] = old_ports[p]
  BY <1>1, <1>2 DEF is_port_globally_filtered
<1>3. CASE port_map[p] = (IF p \in target_ports THEN 1 ELSE 0)
  <2>1. port_map[p] # 0 <=> p \in target_ports
    BY <1>3
  <2>2. CASE new_mode = "include"
    <3>1. port_map[0] = 2
      BY <1>1, <2>2, Modes
    <3>2. is_port_globally_filtered(port_map, p) <=> p \notin target_ports
      BY <2>1, <3>1, Modes DEF is_port_globally_filtered
    <3> QED
      BY <2>2, <3>2 DEF is_port_globally_filtered
  <2>3. CASE new_mode = "exclude"
    <3>1. port_map[0] = 1
      BY <1>1, <2>3, Modes
    <3>2. is_port_globally_filtered(port_map, p) <=> p \in target_ports
      BY <2>1, <3>1, Modes DEF is_port_globally_filtered
    <3>3. (new_mode = "include" <=> p \notin target_ports) <=> p \in target_ports
      BY <2>3
    <3> QED
      BY <3>2, <3>3 DEF is_port_globally_filtered
  <2> QED
    BY <1>1, <2>2, <2>3
<1> QED
  BY <1>1, <1>2, <1>3

\* Nobody holds the mutex at first.
LEMMA WorkInit == Init => TodoInv /\ NetInv /\ PortInv
BY DEF Init, TodoInv, NetInv, PortInv

\* While a reload is under way, what the net filters decide for an address and
\* a port is what the old ones or the new ones decide: whatever the kprobes read
\* between two writes of load_filters_into_map, no connection that both of them
\* filter leaks through.
THEOREM NoLeakWhileLoading == Spec => []NetBetween
BY BaseInit, BaseStep, WorkInit, TodoStep, NetStep, BetweenOldAndNew, PTL DEF Spec

\* The same for the ports that load_port_filters_into_map sets and clears.
THEOREM NoPortLeakWhileLoading == Spec => []PortBetween
BY BaseInit, BaseStep, WorkInit, PortStep, PortsBetweenOldAndNew, PTL DEF Spec

-----------------------------------------------------------------------------
(* The maps after a reload. *)

\* Whose step it is, and what it leaves alone.
LEMMA StepFrame ==
    ASSUME Base, NEW t \in Threads, Step(t)
    PROVE  /\ UNCHANGED <<net_filters, global_filters, map_size, queue, changes>>
           /\ \A u \in Threads : u # t => pc'[u] = pc[u]
           /\ pc[t] \in {"lock", "nets", "ports"} /\ Alive
<1>0. pc \in [Threads -> {"get", "build", "lock", "nets", "ports", "polling", "crashed"}]
  BY DEF Base, TypeOK
<1>1. UNCHANGED <<net_filters, global_filters, map_size, queue, changes>>
  BY DEF Step, Acquire, LoadFilter, LoadFails, StartPorts, SetMode, DeleteLeftover, SetPort,
         ClearPort
<1>2. pc[t] \in {"lock", "nets", "ports"} /\ Alive
  BY DEF Step, Acquire, LoadFilter, LoadFails, StartPorts, SetMode, DeleteLeftover, SetPort,
         ClearPort, Holds
<1>3. ASSUME NEW l, pc' = [pc EXCEPT ![t] = l] PROVE \A u \in Threads : u # t => pc'[u] = pc[u]
  BY <1>0, <1>3
<1>4. CASE Acquire(t)
  BY <1>1, <1>2, <1>3, <1>4 DEF Acquire
<1>5. CASE LoadFails(t)
  BY <1>1, <1>2, <1>3, <1>5 DEF LoadFails
<1>6. CASE StartPorts(t)
  BY <1>1, <1>2, <1>3, <1>6 DEF StartPorts
<1>7. CASE SetMode(t)
  BY <1>1, <1>2, <1>3, <1>7 DEF SetMode
<1>8. CASE LoadFilter(t) \/ (\E k \in CFilterKey : DeleteLeftover(t, k))
             \/ (\E p \in Port : SetPort(t, p) \/ ClearPort(t, p))
  BY <1>1, <1>2, <1>8 DEF LoadFilter, DeleteLeftover, SetPort, ClearPort
<1> QED
  BY <1>4, <1>5, <1>6, <1>7, <1>8 DEF Step

\* A filter about to be loaded is not among those that cannot be: the ones
\* before the first of these are in the map already.
LEMMA StuckStep ==
    ASSUME Base, TodoInv, LoadFilter("main"), target = net_filters, Stuck(Loaded)
    PROVE  Stuck(Loaded)'
<1> DEFINE n == Loaded + 1
           k == FilterKey(net_filters[n])
<1>0. todo \in Seq(IpPortFilter) /\ target \in Seq(IpPortFilter) /\ mutex = "main" /\ None # "main"
  BY Constants DEF Base, TypeOK, LoadFilter, Holds
<1>1. todo # <<>> /\ todo' = Tail(todo) /\ UNCHANGED <<target, net_filters, map_size>>
  BY DEF LoadFilter, historyVars
<1>2. Len(todo) \in 1 .. Len(target) /\ Len(todo') = Len(todo) - 1 /\ Len(target) \in Nat
  BY <1>0, <1>1 DEF TodoInv
<1>3. Head(todo) = net_filters[n] /\ Loaded' = n /\ Loaded \in Nat
  BY <1>0, <1>1, <1>2 DEF TodoInv, Loaded
<1>4. /\ ~TooManyRanges(net_filters[n]) /\ ~NoRoom(net_filters[n])
      /\ DOMAIN bpf_map' = DOMAIN bpf_map \cup {k}
  BY <1>3 DEF LoadFilter
<1>5. PICK i \in 1 .. Len(net_filters) :
        /\ Loaded < i
        /\ TooManyRanges(net_filters[i]) \/ NoRoom(net_filters[i])
        /\ \A j \in 1 .. i - 1 : FilterKey(net_filters[j]) \in DOMAIN bpf_map
  BY DEF Stuck
<1>6. i # n
  BY <1>4, <1>5
<1>7. n < i /\ n \in 1 .. i - 1
  BY <1>2, <1>3, <1>5, <1>6
<1>8. k \in DOMAIN bpf_map
  BY <1>5, <1>7
<1> HIDE DEF k, n
<1>9. DOMAIN bpf_map' = DOMAIN bpf_map
  BY <1>4, <1>8
<1>10. TooManyRanges(net_filters[i]) \/ NoRoom(net_filters[i])'
  BY <1>1, <1>5, <1>9 DEF NoRoom
<1> QED
  BY <1>1, <1>3, <1>5, <1>7, <1>9, <1>10 DEF Stuck

\* When everything is loaded nothing is stuck.
LEMMA NothingStuck ==
    ASSUME Base, target = net_filters, todo = <<>> PROVE ~Stuck(Loaded)
<1>1. Len(target) \in Nat
  BY DEF Base, TypeOK
<1>2. Loaded = Len(net_filters) /\ Len(net_filters) \in Nat
  BY <1>1 DEF Loaded
<1> QED
  BY <1>2 DEF Stuck

\* A thread that holds the mutex and has nothing left to do has made the maps
\* those of the configuration.
LEMMA DoneExact ==
    ASSUME Base, TodoInv, NetInv, PortInv, NEW t \in Threads, SetMode(t), target = net_filters,
           target_ports = PortSet(global_filters.ports), new_mode = global_filters.mode,
           t = "main" => NetWithin /\ PortWithin
    PROVE  (NetWithin /\ PortWithin /\ NetExact /\ PortExact)'
<1>0. /\ mutex = t /\ None \notin Threads /\ pc[t] = "ports" /\ adds = {} /\ clears = {}
      /\ port_map' = [port_map EXCEPT ![0] = ModeValue(new_mode)]
      /\ UNCHANGED <<bpf_map, net_filters, global_filters>>
      /\ t = "main" \/ t = "sidecar"
  BY Constants DEF SetMode, Holds, Threads
<1>1. todo = <<>> /\ leftovers = {}
  BY <1>0 DEF TodoInv
<1>2. port_map \in [Port -> 0 .. 2] /\ Len(target) \in Nat /\ 0 \in Port
  BY Constants DEF Base, TypeOK, Port
<1>3. Loaded = Len(net_filters)
  BY <1>1, <1>2 DEF Loaded
<1>4. \A i \in 1 .. Len(net_filters) : Entered(bpf_map, net_filters, i)
  BY <1>0, <1>3 DEF NetInv
<1>5. NetWithin
  BY <1>0, <1>1 DEF NetInv, NetWithin
<1>6. \A p \in Port \ {0} : port_map[p] # 0 <=> p \in PortSet(global_filters.ports)
  <2> SUFFICES ASSUME NEW p \in Port \ {0}
               PROVE  port_map[p] # 0 <=> p \in PortSet(global_filters.ports)
    OBVIOUS
  <2>1. /\ p \in target_ports => port_map[p] = 1
        /\ mutex = "sidecar" => port_map[p] = 0 \/ p \in target_ports
    BY <1>0 DEF PortInv
  <2> QED
    BY <1>0, <2>1 DEF PortWithin
<1>7. port_map'[0] = ModeValue(new_mode) /\ \A p \in Port \ {0} : port_map'[p] = port_map[p]
  BY <1>0, <1>2
<1>8. (NetWithin /\ NetExact)'
  BY <1>0, <1>4, <1>5 DEF NetWithin, NetExact, Entered, HasKey
<1>9. (PortWithin /\ PortExact)'
  BY <1>0, <1>6, <1>7 DEF PortWithin, PortExact
<1> QED
  BY <1>8, <1>9

\* Every step keeps what the maps have of the configuration.
LEMMA ExactStep ==
    Base /\ TodoInv /\ NetInv /\ PortInv /\ ExactInv /\ [Next]_vars => ExactInv'
<1> SUFFICES ASSUME Base, TodoInv, NetInv, PortInv, ExactInv, [Next]_vars PROVE ExactInv'
  OBVIOUS
<1>0. /\ pc \in [Threads -> {"get", "build", "lock", "nets", "ports", "polling", "crashed"}]
      /\ mutex \in Threads \cup {None} /\ MutexInv /\ None \notin Threads
      /\ "main" \in Threads /\ "sidecar" \in Threads
      /\ todo \in Seq(IpPortFilter) /\ target \in Seq(IpPortFilter)
      /\ port_map \in [Port -> 0 .. 2] /\ failed \in BOOLEAN
  BY Constants DEF Base, TypeOK
<1>1. CASE UNCHANGED vars \/ \E c \in Configs : forward_config_change(c)
  <2>1. UNCHANGED <<bpf_map, port_map, map_size, net_filters, global_filters, pc, mutex, todo,
                    new_mode, failed, target, target_ports>>
    BY <1>1 DEF vars, forward_config_change, mapVars, loadVars, historyVars
  <2> QED
    BY <2>1 DEF ExactInv, NetWithin, PortWithin, NetExact, PortExact, Stuck, Idle, Entered, HasKey,
                NoRoom, Loaded
\* The sidecar is busy: the configuration will be loaded later.
<1>2. ASSUME ~Idle', mutex' # "sidecar" PROVE ExactInv'
  BY <1>2 DEF ExactInv, Threads
<1>3. CASE SidecarGet \/ SidecarBuild
  <2>1. PICK l \in {"build", "lock"} : pc' = [pc EXCEPT !["sidecar"] = l]
    BY <1>3 DEF SidecarGet, SidecarBuild
  <2>2. pc["sidecar"] \in {"get", "build"} /\ mutex' = mutex
    BY <1>3 DEF SidecarGet, SidecarBuild
  <2>3. mutex' # "sidecar" /\ ~Idle'
    BY <1>0, <2>1, <2>2 DEF MutexInv, Idle
  <2> QED
    BY <1>2, <2>3
\* The main thread works.
<1>4. CASE Step("main")
  <2>1. /\ UNCHANGED <<net_filters, global_filters, map_size>> /\ pc'["sidecar"] = pc["sidecar"]
        /\ Idle' <=> Idle
    BY <1>0, <1>4, StepFrame DEF Idle
  <2>2. CASE Acquire("main")
    <3>1. /\ pc' = [pc EXCEPT !["main"] = "nets"] /\ pc["main"] = "lock" /\ mutex' = "main"
          /\ target' = net_filters /\ todo' = net_filters /\ UNCHANGED <<bpf_map, port_map, failed>>
      BY <2>2 DEF Acquire, mapVars
    <3>2. pc'["main"] = "nets" /\ Loaded' = 0
      <4>1. Len(net_filters) \in Nat
        BY DEF Base, TypeOK
      <4> QED
        BY <1>0, <3>1, <4>1 DEF Loaded
    <3>3. Idle /\ ~failed => (NetWithin /\ PortWithin)'
      BY <2>1, <3>1 DEF ExactInv, NetWithin, PortWithin, HasKey
    <3>4. Idle /\ failed => Stuck(Loaded)'
      <4>1. Idle /\ failed => Stuck(0)
        BY <3>1 DEF ExactInv
      <4> QED
        BY <2>1, <3>1, <3>2, <4>1 DEF Stuck, NoRoom
    <3> QED
      BY <2>1, <3>1, <3>2, <3>3, <3>4 DEF ExactInv, Threads
  <2>3. ASSUME mutex = "main", Idle
        PROVE  /\ target = net_filters
               /\ pc["main"] = "ports" => /\ target_ports = PortSet(global_filters.ports)
                                          /\ new_mode = global_filters.mode
    BY <1>0, <2>3 DEF ExactInv
  <2>4. CASE LoadFilter("main")
    <3>1. /\ mutex = "main" /\ pc["main"] = "nets" /\ todo # <<>>
          /\ UNCHANGED <<pc, mutex, target, target_ports, port_map, failed, new_mode>>
          /\ DOMAIN bpf_map' = DOMAIN bpf_map \cup {FilterKey(Head(todo))}
      BY <2>4 DEF LoadFilter, Holds, historyVars
    <3>2. Idle /\ ~failed => (NetWithin /\ PortWithin)'
      <4> SUFFICES ASSUME Idle, ~failed PROVE (NetWithin /\ PortWithin)'
        OBVIOUS
      <4>1. NetWithin /\ PortWithin
        BY <3>1 DEF ExactInv
      <4>2. HasKey(net_filters, FilterKey(Head(todo)))
        <5>1. /\ Len(todo) \in 1 .. Len(target) /\ Len(target) \in Nat
              /\ todo[1] = target[Loaded + 1] /\ Head(todo) = todo[1]
          BY <1>0, <3>1 DEF TodoInv
        <5>2. Loaded + 1 \in 1 .. Len(net_filters) /\ Head(todo) = net_filters[Loaded + 1]
          BY <2>3, <3>1, <5>1 DEF Loaded
        <5> QED
          BY <5>2 DEF HasKey
      <4> QED
        BY <2>1, <3>1, <4>1, <4>2 DEF NetWithin, PortWithin, HasKey
    <3>3. Idle /\ failed => Stuck(Loaded)'
      BY <2>3, <2>4, <3>1, StuckStep DEF ExactInv
    <3> QED
      BY <2>1, <2>3, <3>1, <3>2, <3>3 DEF ExactInv, Threads
  <2>5. CASE LoadFails("main")
    <3>1. pc' = [pc EXCEPT !["main"] = "crashed"] /\ mutex' = None
      BY <2>5 DEF LoadFails, MutexReleased
    <3>2. pc'["main"] = "crashed"
      BY <1>0, <3>1
    <3> QED
      BY <1>0, <3>1, <3>2 DEF ExactInv
  <2>6. ASSUME NEW k \in CFilterKey, DeleteLeftover("main", k) PROVE ExactInv'
    <3>1. /\ mutex = "main" /\ pc["main"] = "nets" /\ todo = <<>>
          /\ UNCHANGED <<pc, mutex, todo, target, target_ports, port_map, failed, new_mode>>
          /\ DOMAIN bpf_map' = DOMAIN bpf_map \ {k}
      BY <2>6 DEF DeleteLeftover, Holds, AddsDone, historyVars
    <3>2. Idle => ~failed
      BY <2>3, <3>1, NothingStuck DEF ExactInv
    <3>3. Idle => NetWithin /\ PortWithin
      BY <3>1, <3>2 DEF ExactInv
    <3>4. Idle => (NetWithin /\ PortWithin)'
      BY <2>1, <3>1, <3>3 DEF NetWithin, PortWithin, HasKey
    <3> QED
      BY <2>1, <2>3, <3>1, <3>2, <3>4 DEF ExactInv, Threads
  <2>7. CASE StartPorts("main")
    <3>1. /\ mutex = "main" /\ pc["main"] = "nets" /\ todo = <<>>
          /\ pc' = [pc EXCEPT !["main"] = "ports"]
          /\ UNCHANGED <<mutex, target, bpf_map, port_map, failed>>
          /\ new_mode' = global_filters.mode /\ target_ports' = PortSet(global_filters.ports)
      BY <2>7 DEF StartPorts, Holds, mapVars
    <3>2. pc'["main"] = "ports"
      BY <1>0, <3>1
    <3>3. Idle => ~failed
      BY <2>3, <3>1, NothingStuck DEF ExactInv
    <3>4. Idle => (NetWithin /\ PortWithin)'
      BY <2>1, <3>1, <3>3 DEF ExactInv, NetWithin, PortWithin, HasKey
    <3> QED
      BY <2>1, <2>3, <3>1, <3>2, <3>3, <3>4 DEF ExactInv, Threads
  <2>8. ASSUME NEW p \in Port, SetPort("main", p) \/ ClearPort("main", p) PROVE ExactInv'
    <3>1. /\ mutex = "main" /\ pc["main"] = "ports"
          /\ UNCHANGED <<pc, mutex, todo, target, target_ports, bpf_map, failed, new_mode>>
          /\ (p \in adds /\ port_map' = [port_map EXCEPT ![p] = 1])
               \/ port_map' = [port_map EXCEPT ![p] = 0]
      BY <2>8 DEF SetPort, ClearPort, Holds, historyVars
    <3>2. adds \subseteq target_ports
      BY <1>0, <3>1 DEF PortInv
    <3>3. Idle => ~failed /\ NetWithin /\ PortWithin /\ p \in Port
      BY <3>1 DEF ExactInv
    <3>4. Idle => PortWithin'
      <4> SUFFICES ASSUME Idle, NEW q \in Port \ {0}, port_map'[q] # 0
                   PROVE  q \in PortSet(global_filters.ports)
        BY <2>1 DEF PortWithin
      <4>1. q # p \/ q \in adds
        BY <1>0, <3>1
      <4>2. q # p => port_map'[q] = port_map[q]
        BY <1>0, <3>1
      <4> QED
        BY <2>3, <3>1, <3>2, <3>3, <4>1, <4>2 DEF PortWithin
    <3>5. Idle => NetWithin'
      BY <2>1, <3>1, <3>3 DEF NetWithin, HasKey
    <3> QED
      BY <2>1, <2>3, <3>1, <3>3, <3>4, <3>5 DEF ExactInv, Threads
  <2>9. CASE SetMode("main")
    <3>1. /\ mutex = "main" /\ pc["main"] = "ports" /\ mutex' = None
          /\ pc' = [pc EXCEPT !["main"] = "polling"]
      BY <2>9 DEF SetMode, Holds
    <3>2. pc'["main"] = "polling"
      BY <1>0, <3>1
    <3>3. Idle => NetWithin /\ PortWithin
      BY <3>1 DEF ExactInv
    <3>4. Idle => (NetExact /\ PortExact)'
      BY <1>0, <2>3, <2>9, <3>1, <3>3, DoneExact
    <3> QED
      BY <1>0, <2>1, <3>1, <3>2, <3>4 DEF ExactInv
  <2> QED
    BY <1>4, <2>2, <2>4, <2>5, <2>6, <2>7, <2>8, <2>9 DEF Step
\* The sidecar works.
<1>5. CASE Step("sidecar")
  <2>1. /\ UNCHANGED <<net_filters, global_filters, map_size>> /\ pc'["main"] = pc["main"]
        /\ ~Idle
    BY <1>0, <1>5, StepFrame DEF Idle
  <2>2. mutex = "sidecar" => pc["main"] \notin {"nets", "ports"} /\ target = net_filters
                             /\ (pc["sidecar"] = "ports" =>
                                   /\ target_ports = PortSet(global_filters.ports)
                                   /\ new_mode = global_filters.mode)
    BY <1>0 DEF MutexInv, ExactInv
  <2>3. CASE Acquire("sidecar")
    <3>1. pc' = [pc EXCEPT !["sidecar"] = "nets"] /\ target' = net_filters /\ mutex' = "sidecar"
      BY <2>3 DEF Acquire
    <3>2. pc'["sidecar"] = "nets"
      BY <1>0, <3>1
    <3> QED
      BY <2>1, <3>1, <3>2 DEF ExactInv, Idle, Threads
  <2>4. CASE LoadFilter("sidecar") \/ (\E k \in CFilterKey : DeleteLeftover("sidecar", k))
               \/ (\E p \in Port : SetPort("sidecar", p) \/ ClearPort("sidecar", p))
    <3>1. UNCHANGED <<pc, mutex, target, target_ports, new_mode>> /\ mutex = "sidecar"
      BY <2>4 DEF LoadFilter, DeleteLeftover, SetPort, ClearPort, Holds, historyVars
    <3> QED
      BY <2>1, <2>2, <3>1 DEF ExactInv, Idle, Threads
  <2>5. CASE StartPorts("sidecar")
    <3>1. /\ pc' = [pc EXCEPT !["sidecar"] = "ports"] /\ UNCHANGED <<mutex, target>>
          /\ mutex = "sidecar"
          /\ new_mode' = global_filters.mode /\ target_ports' = PortSet(global_filters.ports)
      BY <2>5 DEF StartPorts, Holds
    <3>2. pc'["sidecar"] = "ports"
      BY <1>0, <3>1
    <3> QED
      BY <2>1, <2>2, <3>1, <3>2 DEF ExactInv, Idle, Threads
  <2>6. CASE LoadFails("sidecar")
    <3>1. /\ mutex = "sidecar" /\ mutex' = None /\ failed' = TRUE /\ todo # <<>>
          /\ TooManyRanges(Head(todo)) \/ NoRoom(Head(todo))
          /\ UNCHANGED bpf_map
      BY <2>6 DEF LoadFails, Holds, MutexReleased, mapVars
    <3>2. Stuck(0)
      <4>1. /\ Len(todo) \in 1 .. Len(target) /\ Len(target) \in Nat
            /\ todo[1] = target[Loaded + 1] /\ Head(todo) = todo[1]
        BY <1>0, <3>1 DEF TodoInv
      <4>2. /\ Loaded \in Nat /\ Loaded + 1 \in 1 .. Len(net_filters)
            /\ Head(todo) = net_filters[Loaded + 1]
        BY <2>2, <3>1, <4>1 DEF Loaded
      <4>3. \A j \in 1 .. Loaded : FilterKey(net_filters[j]) \in DOMAIN bpf_map
        BY <1>0, <2>2, <3>1 DEF NetInv, Entered
      <4>4. (Loaded + 1) - 1 = Loaded /\ 0 < Loaded + 1
        BY <4>2
      <4> QED
        BY <3>1, <4>2, <4>3, <4>4 DEF Stuck
    <3>3. Stuck(0)'
      BY <2>1, <3>1, <3>2 DEF Stuck, NoRoom
    <3> QED
      BY <1>0, <2>1, <2>2, <3>1, <3>3 DEF ExactInv
  <2>7. CASE SetMode("sidecar")
    <3>1. mutex = "sidecar" /\ mutex' = None /\ failed' = FALSE /\ pc["sidecar"] = "ports"
      BY <2>7 DEF SetMode, Holds
    <3>2. (NetWithin /\ PortWithin /\ NetExact /\ PortExact)'
      BY <1>0, <2>2, <2>7, <3>1, DoneExact
    <3> QED
      BY <1>0, <2>1, <2>2, <3>1, <3>2 DEF ExactInv
  <2> QED
    BY <1>5, <2>3, <2>4, <2>5, <2>6, <2>7 DEF Step
<1> QED
  BY <1>1, <1>3, <1>4, <1>5 DEF Next, Threads

\* For a port that neither holds the mode nor is the last one, the set that is
\* loaded is the list.
LEMMA ListedPorts ==
    ASSUME NEW S \in SUBSET PortSpec, NEW p \in Port \ {0, MaxPort}
    PROVE  p \in PortSet(S) <=> p \in Listed(S)
<1>1. p \in Nat /\ MaxPort \in Nat /\ 1 <= p /\ p < MaxPort /\ p \in Port
  BY Constants DEF Port
<1>2. ASSUME NEW s \in S
      PROVE  p \in (IF s.is_range THEN port_range_mapper(s) ELSE {s.lower}) <=> p \in s.lower .. s.upper
  <2>1. s.lower \in Nat /\ s.upper \in Nat /\ (s.is_range \/ s.lower = s.upper)
    BY Constants DEF PortSpec, Port
  <2>2. CASE s.is_range
    <3>1. p \in port_range_mapper(s) <=> s.lower <= p /\ p <= s.upper
      BY <1>1, <2>1 DEF port_range_mapper, AtLeast, AtMost
    <3> QED
      BY <1>1, <2>1, <2>2, <3>1
  <2>3. CASE ~s.is_range
    BY <1>1, <2>1, <2>3
  <2> QED
    BY <2>2, <2>3
<1> QED
  BY <1>2 DEF PortSet, Listed

\* Maps that are exact decide like the configuration.
LEMMA ExactAgrees == Base /\ ExactInv => ReloadExact
<1> SUFFICES ASSUME Base, ExactInv, Quiescent, ~failed
             PROVE  /\ NonNested(net_filters) /\ OnePortList(net_filters) => NetAgrees
                    /\ PortAgrees(Port \ {0, MaxPort})
  BY DEF ReloadExact
<1>1. NetExact /\ PortExact
  BY DEF ExactInv, Quiescent, Idle
<1>2. net_filters \in Seq(IpPortFilter) /\ IsNetFilterMap(bpf_map) /\ global_filters \in GlobalFilters
  BY DEF Base, TypeOK
<1>3. ASSUME NonNested(net_filters), OnePortList(net_filters) PROVE NetAgrees
  <2> SUFFICES ASSUME NEW a \in Addr, NEW p \in Port
               PROVE  is_addr_port_filtered(bpf_map, a, p) = is_filtered(net_filters, a, p)
    BY DEF NetAgrees
  <2> DEFINE M == MatchingKeys(bpf_map, a)
  <2>1. \A k \in DOMAIN bpf_map : k.prefixlen \in Nat
    BY <1>2, KeyLength
  <2>2. \A k \in M : \E i \in 1 .. Len(net_filters) :
            k = FilterKey(net_filters[i]) /\ InNetwork(net_filters[i], a)
    BY <1>1, KeyMatches DEF NetExact, NetWithin, HasKey, MatchingKeys
  <2>3. CASE M # {}
    <3>1. PICK k \in M : TRUE
      BY <2>3
    <3>2. PICK i \in 1 .. Len(net_filters) : k = FilterKey(net_filters[i]) /\ InNetwork(net_filters[i], a)
      BY <2>2
    <3>3. \A l \in M : l = k
      BY <1>3, <2>2, <3>2 DEF NonNested
    <3>4. LpmLookup(bpf_map, a) = bpf_map[k]
      BY <2>1, <3>3, LookupUnique
    <3>5. Entered(bpf_map, net_filters, i)
      BY <1>1 DEF NetExact
    <3>6. PICK j \in 1 .. Len(net_filters) : /\ FilterKey(net_filters[j]) = FilterKey(net_filters[i])
                                             /\ bpf_map[k] = FilterValue(net_filters[j])
      BY <3>2, <3>5 DEF Entered
    <3>7. i = j
      BY <1>2, <1>3, <3>6, KeysApart
    <3>8. Decision(FilterValue(net_filters[i]), p) <=> is_filtered(net_filters, a, p)
      BY <1>2, <1>3, <3>2, TargetDecides
    <3>9. is_addr_port_filtered(bpf_map, a, p) <=> Decision(bpf_map[k], p)
      BY <2>3, <3>4 DEF is_addr_port_filtered, Decision
    <3>10. is_addr_port_filtered(bpf_map, a, p) <=> is_filtered(net_filters, a, p)
      BY <3>6, <3>7, <3>8, <3>9
    <3> QED
      BY <3>10 DEF is_addr_port_filtered, is_filtered
  <2>4. CASE M = {}
    <3>1. ~is_addr_port_filtered(bpf_map, a, p)
      BY <2>4 DEF is_addr_port_filtered
    <3>2. ~is_filtered(net_filters, a, p)
      <4> SUFFICES ASSUME NEW i \in 1 .. Len(net_filters), MatchesFilter(net_filters[i], a, p)
                   PROVE  FALSE
        BY DEF is_filtered
      <4>1. FilterKey(net_filters[i]) \in DOMAIN bpf_map
        BY <1>1 DEF NetExact, Entered
      <4>2. FilterKey(net_filters[i]) \in M
        BY <4>1, KeyMatches DEF MatchesFilter, MatchingKeys
      <4> QED
        BY <2>4, <4>2
    <3> QED
      BY <3>1, <3>2 DEF is_addr_port_filtered, is_filtered
  <2> QED
    BY <2>3, <2>4
<1>4. PortAgrees(Port \ {0, MaxPort})
  <2>1. global_filters.ports \in SUBSET PortSpec /\ global_filters.mode \in {"exclude", "include"}
    BY <1>2 DEF GlobalFilters
  <2> SUFFICES ASSUME NEW p \in Port \ {0, MaxPort}
               PROVE  is_port_globally_filtered(port_map, p)
                        = IF global_filters.mode = "include" THEN p \notin Listed(global_filters.ports)
                          ELSE p \in Listed(global_filters.ports)
    BY DEF PortAgrees
  <2>2. port_map[p] # 0 <=> p \in Listed(global_filters.ports)
    <3>1. port_map[p] # 0 <=> p \in PortSet(global_filters.ports)
      BY <1>1 DEF PortExact
    <3> QED
      BY <2>1, <3>1, ListedPorts
  <2>3. CASE global_filters.mode = "include"
    <3>1. port_map[0] = 2
      BY <1>1, <2>3, Modes DEF PortExact
    <3>2. is_port_globally_filtered(port_map, p) <=> p \notin Listed(global_filters.ports)
      BY <2>2, <3>1, Modes DEF is_port_globally_filtered
    <3> QED
      BY <2>3, <3>2 DEF is_port_globally_filtered
  <2>4. CASE global_filters.mode = "exclude"
    <3>1. port_map[0] = 1
      BY <1>1, <2>4, Modes DEF PortExact
    <3>2. is_port_globally_filtered(port_map, p) <=> p \in Listed(global_filters.ports)
      BY <2>2, <3>1, Modes DEF is_port_globally_filtered
    <3> DEFINE listed == p \in Listed(global_filters.ports)
               filtered == is_port_globally_filtered(port_map, p)
    <3>3. global_filters.mode # "include" /\ listed \in BOOLEAN /\ filtered \in BOOLEAN
      BY <2>4 DEF is_port_globally_filtered
    <3>4. (IF global_filters.mode = "include" THEN ~listed ELSE listed) = listed
      BY <3>3
    <3>5. filtered = listed
      BY <3>2, <3>3
    <3> QED
      BY <3>4, <3>5
  <2> QED
    BY <2>1, <2>3, <2>4
<1> QED
  BY <1>3, <1>4

\* The maps are empty at first.
LEMMA ExactInit == Init => ExactInv
<1> SUFFICES ASSUME Init PROVE ExactInv
  OBVIOUS
<1>1. mutex = None /\ None \notin Threads /\ ~failed /\ pc["main"] = "lock"
  BY Constants DEF Init
<1>2. NetWithin
  <2>1. DOMAIN bpf_map = {}
    BY DEF Init
  <2> QED
    BY <2>1 DEF NetWithin
<1>3. PortWithin
  BY DEF Init, PortWithin
<1> QED
  BY <1>1, <1>2, <1>3 DEF ExactInv

\* After a reload that raised no exception, whatever the reloads before it left
\* behind and however the sidecar and the main thread took turns, the maps
\* decide exactly like the configuration.
THEOREM ReloadIsExact == Spec => []ReloadExact
BY BaseInit, BaseStep, WorkInit, TodoStep, NetStep, PortStep, ExactInit, ExactStep, ExactAgrees,
   PTL DEF Spec

-----------------------------------------------------------------------------
(* The first load. *)

\* A configuration has at least as many filters as keys.
LEMMA KeysBounded ==
    ASSUME NEW filters \in Seq(IpPortFilter), NEW S, \A k \in S : HasKey(filters, k)
    PROVE  IsFiniteSet(S) /\ Cardinality(S) <= Len(filters)
<1> DEFINE n == Len(filters)
           T == {FilterKey(filters[i]) : i \in 1 .. n}
           f == [i \in 1 .. n |-> FilterKey(filters[i])]
<1>1. n \in Nat
  OBVIOUS
<1>2. S \subseteq T
  BY DEF HasKey
<1>3. f \in Surjection(1 .. n, T)
  BY DEF Surjection
<1> HIDE DEF n, T, f
<1>4. 1 \in Int /\ n \in Int
  BY <1>1
<1>5. IsFiniteSet(1 .. n) /\ Cardinality(1 .. n) = n
  <2>1. IsFiniteSet(1 .. n) /\ Cardinality(1 .. n) = IF 1 > n THEN 0 ELSE n - 1 + 1
    BY <1>4, FS_Interval
  <2> QED
    BY <1>1, <2>1
<1>6. IsFiniteSet(T) /\ Cardinality(T) <= n
  BY <1>3, <1>5, FS_Surjection
<1>7. IsFiniteSet(S) /\ Cardinality(S) <= Cardinality(T)
  BY <1>2, <1>6, FS_Subset
<1>8. Cardinality(S) \in Nat /\ Cardinality(T) \in Nat
  BY <1>6, <1>7, FS_CardinalityType
<1> QED
  BY <1>1, <1>6, <1>7, <1>8 DEF n

\* Every step keeps what the first load meets.
LEMMA FirstStep ==
    Base /\ TodoInv /\ ExactInv /\ FirstInv /\ [Next]_vars => FirstInv'
<1> SUFFICES ASSUME Base, TodoInv, ExactInv, FirstInv, [Next]_vars PROVE FirstInv'
  OBVIOUS
<1>0. /\ pc \in [Threads -> {"get", "build", "lock", "nets", "ports", "polling", "crashed"}]
      /\ mutex \in Threads \cup {None} /\ MutexInv /\ None \notin Threads
      /\ "main" \in Threads /\ "sidecar" \in Threads
      /\ todo \in Seq(IpPortFilter) /\ target \in Seq(IpPortFilter)
      /\ queue \in Seq(Configs) /\ changes \in Nat
  BY Constants DEF Base, TypeOK
<1>1. CASE UNCHANGED vars
  BY <1>1 DEF FirstInv, Idle, NetWithin, HasKey, NetFilterMapSize, vars, mapVars, historyVars
<1>2. ASSUME NEW c \in Configs, forward_config_change(c) PROVE FirstInv'
  <2>1. /\ changes' = changes + 1 /\ queue' = Append(queue, c)
        /\ UNCHANGED <<bpf_map, map_size, net_filters, pc, target>>
    BY <1>2 DEF forward_config_change, mapVars, historyVars
  <2>2. changes' # 0 /\ (changes' <= 1 => changes = 0)
    BY <1>0, <2>1
  <2>3. changes = 0 => Idle /\ queue = <<>> /\ Len(queue') = 1
    BY <2>1 DEF FirstInv
  <2>4. changes = 0 /\ pc["main"] = "lock" => DOMAIN bpf_map = {}
    BY DEF FirstInv
  <2>5. changes = 0 /\ pc["main"] = "nets" => \A k \in DOMAIN bpf_map : HasKey(target, k)
    BY DEF FirstInv
  <2> QED
    BY <2>1, <2>2, <2>3, <2>4, <2>5 DEF FirstInv, Idle, HasKey
<1>3. CASE SidecarGet
  <2>1. /\ queue # <<>> /\ queue' = Tail(queue) /\ pc' = [pc EXCEPT !["sidecar"] = "build"]
        /\ UNCHANGED <<bpf_map, map_size, changes, target>>
    BY <1>3 DEF SidecarGet, mapVars, historyVars
  <2>2. pc'["main"] = pc["main"]
    BY <1>0, <2>1
  <2>3. changes # 0
    BY <2>1 DEF FirstInv
  <2>4. changes = 1 => Len(queue) <= 1
    BY DEF FirstInv
  <2>5. changes = 1 => queue' = <<>>
    BY <1>0, <2>1, <2>4
  <2>6. changes <= 1 /\ pc["main"] = "lock" => DOMAIN bpf_map = {}
    BY <2>1 DEF FirstInv
  <2>7. changes <= 1 /\ pc["main"] = "nets" => \A k \in DOMAIN bpf_map : HasKey(target, k)
    BY DEF FirstInv
  <2>8. Len(<<>>) <= 1
    OBVIOUS
  <2> QED
    BY <2>1, <2>2, <2>3, <2>5, <2>6, <2>7, <2>8 DEF FirstInv, HasKey
<1>4. CASE SidecarBuild
  <2>1. /\ pc' = [pc EXCEPT !["sidecar"] = "lock"] /\ pc["sidecar"] = "build"
        /\ UNCHANGED <<bpf_map, map_size, changes, target, queue, net_filters>>
    BY <1>4 DEF SidecarBuild, mapVars, historyVars
  <2>2. pc'["main"] = pc["main"] /\ ~Idle
    BY <1>0, <2>1 DEF Idle
  <2> QED
    BY <2>1, <2>2 DEF FirstInv, NetWithin, HasKey
<1>5. ASSUME NEW t \in Threads, Step(t) PROVE FirstInv'
  <2>1. /\ UNCHANGED <<net_filters, global_filters, map_size, queue, changes>>
        /\ \A u \in Threads : u # t => pc'[u] = pc[u]
        /\ pc[t] \in {"lock", "nets", "ports"}
    BY <1>5, StepFrame
  <2>2. /\ t = "sidecar" => ~Idle
        /\ t = "main" => (Idle' <=> Idle)
    BY <1>0, <2>1 DEF Idle
  <2>3. t = "main" \/ t = "sidecar"
    BY DEF Threads
  \* The queue and the size of the map.
  <2>4. /\ (changes = 0 => Idle /\ queue = <<>> /\ map_size = NetFilterMapSize(net_filters))'
        /\ (changes = 1 => (Idle \/ queue = <<>>) /\ Len(queue) <= 1)'
    <3>1. NetFilterMapSize(net_filters)' = NetFilterMapSize(net_filters)
      BY <2>1 DEF NetFilterMapSize
    <3> QED
      BY <2>1, <2>2, <2>3, <3>1 DEF FirstInv
  <2>5. CASE Acquire(t)
    <3>1. /\ pc' = [pc EXCEPT ![t] = "nets"] /\ mutex = None /\ bpf_map' = bpf_map
          /\ target' = net_filters /\ pc[t] = "lock"
      BY <2>5 DEF Acquire, mapVars
    <3>2. pc'[t] = "nets" /\ pc["main"] \notin {"nets", "ports"}
      BY <1>0, <3>1 DEF MutexInv
    <3>3. CASE t = "main"
      <4>1. changes <= 1 => \A k \in DOMAIN bpf_map : HasKey(net_filters, k)
        BY <3>1, <3>3 DEF FirstInv, NetWithin
      <4> QED
        BY <2>1, <2>4, <3>1, <3>2, <3>3, <4>1 DEF FirstInv, HasKey
    <3>4. CASE t = "sidecar"
      <4>1. pc'["main"] = pc["main"]
        BY <1>0, <2>1, <3>4
      <4> QED
        BY <2>1, <2>4, <3>1, <3>2, <4>1 DEF FirstInv, NetWithin, HasKey
    <3> QED
      BY <2>3, <3>3, <3>4
  <2>6. CASE LoadFilter(t)
    <3>1. /\ mutex = t /\ todo # <<>> /\ UNCHANGED <<pc, target>> /\ pc[t] = "nets"
          /\ DOMAIN bpf_map' = DOMAIN bpf_map \cup {FilterKey(Head(todo))}
      BY <2>6 DEF LoadFilter, Holds, historyVars
    <3>2. HasKey(target, FilterKey(Head(todo)))
      <4>1. /\ Len(todo) \in 1 .. Len(target) /\ Len(target) \in Nat
            /\ todo[1] = target[Loaded + 1] /\ Head(todo) = todo[1]
        BY <1>0, <3>1 DEF TodoInv
      <4>2. Loaded + 1 \in 1 .. Len(target) /\ Head(todo) = target[Loaded + 1]
        BY <4>1 DEF Loaded
      <4> QED
        BY <4>2 DEF HasKey
    <3>3. CASE t = "main"
      BY <2>1, <2>4, <3>1, <3>2, <3>3 DEF FirstInv, HasKey
    <3>4. CASE t = "sidecar"
      <4>1. pc["main"] # "nets" /\ target = net_filters
        BY <1>0, <3>1, <3>4 DEF MutexInv, ExactInv
      <4>2. changes # 0 /\ (changes <= 1 => queue = <<>> /\ changes = 1)
        BY <1>0, <2>2, <3>4 DEF FirstInv
      <4>3. changes <= 1 /\ pc["main"] = "lock" => NetWithin
        BY DEF FirstInv, NetWithin
      <4>4. changes <= 1 /\ pc["main"] = "lock" => NetWithin'
        BY <2>1, <3>1, <3>2, <4>1, <4>3 DEF NetWithin, HasKey
      <4> QED
        BY <2>1, <2>4, <3>1, <4>1, <4>2, <4>4 DEF FirstInv
    <3> QED
      BY <2>3, <3>3, <3>4
  \* The map only loses keys.
  <2>7. ASSUME DOMAIN bpf_map' \subseteq DOMAIN bpf_map, target' = target,
               pc'["main"] \in {"lock", "nets"} => pc'["main"] = pc["main"]
        PROVE  FirstInv'
    BY <2>1, <2>4, <2>7 DEF FirstInv, NetWithin, HasKey
  <2>8. CASE LoadFails(t) \/ SetMode(t) \/ StartPorts(t)
    <3>1. UNCHANGED <<bpf_map, target>>
      BY <2>8 DEF LoadFails, SetMode, StartPorts, mapVars, historyVars
    <3>2. pc'["main"] = pc["main"] \/ pc'["main"] \in {"crashed", "polling", "ports"}
      <4>1. CASE t = "sidecar"
        BY <1>0, <2>1, <4>1
      <4>2. CASE t = "main"
        <5>1. \E l \in {"crashed", "polling", "ports"} : pc' = [pc EXCEPT !["main"] = l]
          BY <2>8, <4>2 DEF LoadFails, SetMode, StartPorts
        <5> QED
          BY <1>0, <5>1
      <4> QED
        BY <2>3, <4>1, <4>2
    <3> QED
      BY <2>7, <3>1, <3>2
  <2>9. CASE (\E k \in CFilterKey : DeleteLeftover(t, k))
               \/ (\E p \in Port : SetPort(t, p) \/ ClearPort(t, p))
    <3>1. DOMAIN bpf_map' \subseteq DOMAIN bpf_map /\ UNCHANGED <<pc, target>>
      BY <2>9 DEF DeleteLeftover, SetPort, ClearPort, historyVars
    <3> QED
      BY <2>7, <3>1
  <2> QED
    BY <1>5, <2>5, <2>6, <2>8, <2>9 DEF Step
<1> QED
  BY <1>1, <1>2, <1>3, <1>4, <1>5 DEF Next

\* A crash of the first load is one of its configuration.
LEMMA CrashStep ==
    Base /\ TodoInv /\ FirstInv /\ CrashIsConfig /\ [Next]_vars => CrashIsConfig'
<1> SUFFICES ASSUME Base, TodoInv, FirstInv, CrashIsConfig, [Next]_vars, ~Alive'
             PROVE  CrashIsConfig'
  BY DEF CrashIsConfig
<1>0. /\ pc \in [Threads -> {"get", "build", "lock", "nets", "ports", "polling", "crashed"}]
      /\ mutex \in Threads \cup {None} /\ MutexInv /\ None \notin Threads
      /\ "main" \in Threads /\ "sidecar" \in Threads
      /\ todo \in Seq(IpPortFilter) /\ target \in Seq(IpPortFilter)
      /\ map_size \in Nat /\ changes \in Nat
  BY Constants DEF Base, TypeOK
<1>1. CASE UNCHANGED vars
  BY <1>1 DEF CrashIsConfig, Alive, vars, historyVars
<1>2. CASE LoadFails("main")
  <2> DEFINE n == Loaded + 1
             k == FilterKey(target[n])
             D == DOMAIN bpf_map
  <2>1. /\ mutex = "main" /\ pc["main"] = "nets" /\ todo # <<>>
        /\ TooManyRanges(Head(todo)) \/ NoRoom(Head(todo))
        /\ UNCHANGED <<target, changes, map_size>>
    BY <1>2 DEF LoadFails, Holds, historyVars
  <2>2. /\ Len(todo) \in 1 .. Len(target) /\ Len(target) \in Nat
        /\ todo[1] = target[Loaded + 1] /\ Head(todo) = todo[1]
    BY <1>0, <2>1 DEF TodoInv
  <2>3. n \in 1 .. Len(target) /\ Head(todo) = target[n]
    BY <2>2 DEF Loaded
  <2>4. CASE TooManyRanges(Head(todo))
    BY <2>1, <2>3, <2>4 DEF CrashIsConfig
  <2>5. CASE changes > 1
    BY <2>1, <2>5 DEF CrashIsConfig
  <2>6. CASE NoRoom(Head(todo)) /\ changes <= 1
    <3>1. k \notin D /\ Cardinality(D) >= map_size /\ IsFiniteSet(D)
      BY <2>3, <2>6 DEF NoRoom, Base, MapFinite
    <3>2. \A l \in D : HasKey(target, l)
      BY <2>1, <2>6 DEF FirstInv
    <3>3. HasKey(target, k)
      BY <2>3 DEF HasKey
    <3> HIDE DEF k, D, n
    <3>4. \A l \in D \cup {k} : HasKey(target, l)
      BY <3>2, <3>3
    <3>5. Cardinality(D \cup {k}) <= Len(target)
      BY <1>0, <3>4, KeysBounded
    <3>6. Cardinality(D \cup {k}) = Cardinality(D) + 1 /\ Cardinality(D) \in Nat
      BY <3>1, FS_AddElement, FS_CardinalityType
    <3>7. Len(target) > map_size
      BY <1>0, <2>2, <3>1, <3>5, <3>6
    <3>8. CASE changes = 1
      BY <2>1, <3>7, <3>8 DEF CrashIsConfig
    <3>9. CASE changes = 0
      <4> DEFINE size == round_nearest_multiple(Len(target), SizeScaling, Headroom)
      <4>1. map_size = NetFilterMapSize(net_filters) /\ target = net_filters
        BY <2>1, <3>9 DEF FirstInv
      <4>2. map_size = AtMost(SizeMax, size)
        BY <4>1 DEF NetFilterMapSize
      <4>3. size \in Nat /\ size >= Len(target)
        BY <2>2, SizeType
      <4> HIDE DEF size
      <4>4. Len(target) > SizeMax
        BY <2>2, <3>7, <4>2, <4>3, Constants DEF AtMost
      <4> QED
        BY <2>1, <4>4 DEF CrashIsConfig
    <3> QED
      BY <1>0, <2>6, <3>8, <3>9
  <2> QED
    BY <1>0, <2>1, <2>4, <2>5, <2>6
\* No other step ends the worker, and none follows its end.
<1>3. CASE \E c \in Configs : forward_config_change(c)
  BY <1>3 DEF forward_config_change, Alive
<1>4. CASE SidecarGet \/ SidecarBuild
  <2>1. Alive /\ \E l \in {"build", "lock"} : pc' = [pc EXCEPT !["sidecar"] = l]
    BY <1>4 DEF SidecarGet, SidecarBuild
  <2> QED
    BY <1>0, <2>1 DEF Alive
<1>5. CASE Step("sidecar")
  BY <1>0, <1>5, StepFrame DEF Alive
<1>6. ASSUME Step("main"), ~LoadFails("main") PROVE FALSE
  <2>1. Alive
    BY <1>0, <1>6, StepFrame
  <2>2. pc' = pc \/ \E l \in {"nets", "ports", "polling"} : pc' = [pc EXCEPT !["main"] = l]
    BY <1>6 DEF Step, Acquire, LoadFilter, StartPorts, SetMode, DeleteLeftover, SetPort, ClearPort
  <2> QED
    BY <1>0, <2>1, <2>2 DEF Alive
<1> QED
  BY <1>1, <1>2, <1>3, <1>4, <1>5, <1>6 DEF Next, Threads

\* The map is made for the first filters.
LEMMA FirstInit == Init => FirstInv /\ CrashIsConfig
<1> SUFFICES ASSUME Init PROVE FirstInv /\ CrashIsConfig
  OBVIOUS
<1>1. /\ changes = 0 /\ queue = <<>> /\ map_size = NetFilterMapSize(net_filters)
      /\ pc["main"] = "lock" /\ pc["sidecar"] = "get" /\ bpf_map = <<>>
  BY Constants DEF Init
<1>2. DOMAIN bpf_map = {}
  BY <1>1
<1> QED
  BY <1>1, <1>2 DEF FirstInv, CrashIsConfig, Idle, Alive

\* The first load ends the worker only when it cannot but fail: a filter with
\* too many ranges, more filters than any map holds, or a change that came in
\* between the sizing of the map and the load.
THEOREM CrashHasCause == Spec => []CrashIsConfig
BY BaseInit, BaseStep, WorkInit, TodoStep, NetStep, PortStep, ExactInit, ExactStep, FirstInit,
   FirstStep, CrashStep, PTL DEF Spec
=============================================================================
