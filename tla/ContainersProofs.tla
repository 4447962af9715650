-------------------------- MODULE ContainersProofs --------------------------
(***************************************************************************)
(* Proofs about Containers, for every finite set of containers, every set  *)
(* of namespace numbers and map size, and every bound.                     *)
(***************************************************************************)
EXTENDS Containers, FiniteSetTheorems, TLAPS

(***************************************************************************)
(* What the caches say.  inspect_container and get_container_mntns_id      *)
(* never change an answer they gave: everything the sidecar holds about a  *)
(* container agrees with it.                                               *)
(***************************************************************************)

\* A running container has a namespace.
RunningHasNs == \A c \in Containers : Running(c) => mntns[c] # None

\* What is to be loaded, and what the dictionary has, is what the cache says.
InfosCached == \A info \in infos : info[1] \in Matching /\ ns_cache[info[1]] = info[2]
IdnsCached ==
    \A c \in DOMAIN container_idns_mapping : ns_cache[c] = container_idns_mapping[c]

\* The map holds no more than it can; it is finite.
MapFinite == IsFiniteSet(filter_map) /\ IsFiniteSet(infos)

\* AttachedIsNamed has to hold while a start is being attached, too.
Named ==
    pc \in {"wait", "attach"} =>
        \A n \in filter_map :
            /\ n \in DOMAIN container_name_mapping
            /\ container_name_mapping[n] \in Matching
            /\ container_name_mapping[n] \in DOMAIN container_idns_mapping
            /\ container_idns_mapping[container_name_mapping[n]] = n

Inv == TypeOK /\ RunningHasNs /\ InfosCached /\ IdnsCached /\ MapFinite /\ Named

\* Nothing is cached or loaded yet.
LEMMA InvInit == Init => Inv
<1> SUFFICES ASSUME Init PROVE Inv
  OBVIOUS
<1>1. MapSize \in Nat /\ IsFiniteSet({}) /\ Cardinality({}) = 0
  BY ContainersAssumption, FS_EmptySet
<1>2. DOMAIN container_name_mapping = {} /\ DOMAIN container_idns_mapping = {}
  BY DEF Init
<1>3. TypeOK
  <2>1. stream \in Seq(Event)
    BY DEF Init
  <2>2. \A n \in {} : FALSE
    OBVIOUS
  <2>3. filter_map \subseteq NsIds /\ Cardinality(filter_map) <= MapSize
    BY <1>1 DEF Init
  <2> QED
    BY <1>2, <2>1, <2>2, <2>3 DEF Init, TypeOK
<1>4. RunningHasNs
  BY DEF Init, RunningHasNs, Running
<1> QED
  BY <1>1, <1>2, <1>3, <1>4 DEF Init, Inv, InfosCached, IdnsCached, MapFinite, Named

\* What get_container_mntns_id returns.
LEMMA MntnsIdType ==
    ASSUME TypeOK, RunningHasNs, NEW c \in Containers
    PROVE  MntnsId(c) \in NsIds \cup {Missing}
BY DEF TypeOK, RunningHasNs, MntnsId

\* After an inspection of ids the caches have their types, keep what they had,
\* and agree with the infos it returns.
LEMMA InspectCaches ==
    ASSUME TypeOK, RunningHasNs, NEW ids \in SUBSET Containers, Inspect(ids)
    PROVE  /\ inspected' \in [Containers -> Nat \cup {None}]
           /\ ns_cache' \in [Containers -> NsIds \cup {None, Missing}]
           /\ \A c \in Containers : ns_cache[c] # None => ns_cache'[c] = ns_cache[c]
           /\ Infos(ids) \subseteq Containers \X NsIds
           /\ \A info \in Infos(ids) : info[1] \in Matching /\ ns_cache'[info[1]] = info[2]
           /\ IsFiniteSet(Infos(ids))
<1>1. Matching \subseteq Containers /\ IsFiniteSet(Containers)
  BY ContainersAssumption
<1>2. inspected' \in [Containers -> Nat \cup {None}]
  BY DEF Inspect, Pid, TypeOK
<1>3. ns_cache' \in [Containers -> NsIds \cup {None, Missing}]
  BY MntnsIdType DEF Inspect, TypeOK
<1>4. \A c \in Containers : ns_cache[c] # None => ns_cache'[c] = ns_cache[c]
  BY DEF Inspect, MntnsId, TypeOK
<1> DEFINE D == {d \in LabelMatches(ids) : MntnsId(d) # Missing}
<1>5. D \subseteq Containers /\ D \subseteq Matching
  BY <1>1 DEF LabelMatches
<1>6. \A d \in D : MntnsId(d) \in NsIds /\ ns_cache'[d] = MntnsId(d)
  BY <1>5, MntnsIdType DEF Inspect, TypeOK
<1>7. IsFiniteSet(D)
  BY <1>1, <1>5, FS_Subset
<1>8. Infos(ids) = {<<c, MntnsId(c)>> : c \in D}
  BY DEF Infos
<1> HIDE DEF D
<1>9. IsFiniteSet(Infos(ids))
  <2> DEFINE f == [c \in D |-> <<c, MntnsId(c)>>]
  <2>1. f \in Surjection(D, Infos(ids))
    BY <1>8 DEF Surjection
  <2> QED
    BY <1>7, <2>1, FS_Surjection
<1>10. Infos(ids) \subseteq Containers \X NsIds
  BY <1>5, <1>6, <1>8
<1>11. \A info \in Infos(ids) : info[1] \in Matching /\ ns_cache'[info[1]] = info[2]
  BY <1>5, <1>6, <1>8
<1> QED
  BY <1>2, <1>3, <1>4, <1>9, <1>10, <1>11

\* The namespaces of finitely many infos are finitely many.
LEMMA NamespacesFinite ==
    ASSUME TypeOK, MapFinite
    PROVE  /\ Namespaces \subseteq NsIds /\ Ids \subseteq Containers
           /\ IsFiniteSet(Namespaces)
<1>1. Namespaces \subseteq NsIds /\ Ids \subseteq Containers
  BY DEF Namespaces, Ids, TypeOK
<1> DEFINE f == [info \in infos |-> info[2]]
<1>2. f \in Surjection(infos, Namespaces)
  BY DEF Surjection, Namespaces
<1>3. IsFiniteSet(Namespaces)
  BY <1>2, FS_Surjection DEF MapFinite
<1> QED
  BY <1>1, <1>3

\* The dictionaries after an update have their types; an info gives its
\* container the one namespace that the cache has for it.
LEMMA UpdateTypes ==
    ASSUME Inv, UpdateMappings
    PROVE  /\ DOMAIN container_name_mapping' = DOMAIN container_name_mapping \cup Namespaces
           /\ DOMAIN container_idns_mapping' = DOMAIN container_idns_mapping \cup Ids
           /\ \A n \in DOMAIN container_name_mapping \ Namespaces :
                  container_name_mapping'[n] = container_name_mapping[n]
           /\ \A n \in Namespaces : <<container_name_mapping'[n], n>> \in infos
           /\ \A c \in DOMAIN container_idns_mapping \ Ids :
                  container_idns_mapping'[c] = container_idns_mapping[c]
           /\ \A c \in Ids : /\ container_idns_mapping'[c] = ns_cache[c]
                             /\ ns_cache[c] \in Namespaces
<1>1. PICK names \in [Namespaces -> Ids] :
          /\ \A n \in Namespaces : <<names[n], n>> \in infos
          /\ container_name_mapping' =
                 [n \in DOMAIN container_name_mapping \cup Namespaces |->
                     IF n \in Namespaces THEN names[n] ELSE container_name_mapping[n]]
  BY DEF UpdateMappings
<1>2. /\ DOMAIN container_name_mapping' = DOMAIN container_name_mapping \cup Namespaces
      /\ \A n \in DOMAIN container_name_mapping \ Namespaces :
             container_name_mapping'[n] = container_name_mapping[n]
      /\ \A n \in Namespaces : container_name_mapping'[n] = names[n]
  BY <1>1
<1>3. /\ DOMAIN container_idns_mapping' = DOMAIN container_idns_mapping \cup Ids
      /\ \A c \in DOMAIN container_idns_mapping \ Ids :
             container_idns_mapping'[c] = container_idns_mapping[c]
      /\ \A c \in Ids :
             container_idns_mapping'[c] = CHOOSE n \in Namespaces : <<c, n>> \in infos
  BY DEF UpdateMappings
<1>4. ASSUME NEW c \in Ids
      PROVE  /\ container_idns_mapping'[c] = ns_cache[c]
             /\ ns_cache[c] \in Namespaces
  <2>0. PICK info \in infos : c = info[1]
    BY DEF Ids
  <2>1. info[2] \in Namespaces /\ <<c, info[2]>> \in infos
    <3>1. info = <<info[1], info[2]>>
      BY DEF Inv, TypeOK
    <3>2. info[2] \in Namespaces
      BY DEF Namespaces
    <3> QED
      BY <2>0, <3>1, <3>2
  <2>2. \A m \in Namespaces : <<c, m>> \in infos => ns_cache[c] = m
    BY DEF Inv, InfosCached
  <2> DEFINE m == CHOOSE m \in Namespaces : <<c, m>> \in infos
  <2>3. m \in Namespaces /\ <<c, m>> \in infos
    BY <2>1
  <2>4. container_idns_mapping'[c] = m
    BY <1>3
  <2> HIDE DEF m
  <2> QED
    BY <2>2, <2>3, <2>4
<1>5. \A n \in Namespaces : <<container_name_mapping'[n], n>> \in infos
  BY <1>1, <1>2
<1> QED
  BY <1>2, <1>3, <1>4, <1>5

\* Loading the namespaces of a baseline or of a start.
LEMMA LoadStep == ASSUME Inv, LoadNamespaces PROVE Inv'
<1>0. MapSize \in Nat /\ Matching \subseteq Containers /\ None \notin NsIds
  BY ContainersAssumption
<1> DEFINE Names == container_name_mapping
           Idns == container_idns_mapping
<1>1. /\ Namespaces \subseteq NsIds /\ Ids \subseteq Containers /\ IsFiniteSet(Namespaces)
  BY NamespacesFinite DEF Inv
<1>2. /\ DOMAIN Names' = DOMAIN Names \cup Namespaces
      /\ DOMAIN Idns' = DOMAIN Idns \cup Ids
      /\ \A n \in DOMAIN Names \ Namespaces : Names'[n] = Names[n]
      /\ \A n \in Namespaces : <<Names'[n], n>> \in infos
      /\ \A c \in DOMAIN Idns \ Ids : Idns'[c] = Idns[c]
      /\ \A c \in Ids : Idns'[c] = ns_cache[c] /\ ns_cache[c] \in Namespaces
  BY UpdateTypes DEF LoadNamespaces
<1>3. \A n \in Namespaces : Names'[n] \in Ids /\ Names'[n] \in Matching /\ ns_cache[Names'[n]] = n
  <2> TAKE n \in Namespaces
  <2> DEFINE info == <<Names'[n], n>>
  <2>1. info \in infos /\ info[1] = Names'[n] /\ info[2] = n
    BY <1>2
  <2> HIDE DEF info
  <2>2. info[1] \in Ids /\ info[1] \in Matching /\ ns_cache[info[1]] = info[2]
    BY <2>1 DEF Ids, Inv, InfosCached
  <2> QED
    BY <2>1, <2>2
<1>4. filter_map' \subseteq filter_map \cup Namespaces
  BY DEF LoadNamespaces, Loaded
<1>5. IsFiniteSet(filter_map \cup Namespaces)
  BY <1>1, FS_Union DEF Inv, MapFinite
<1>6. IsFiniteSet(filter_map') /\ Cardinality(filter_map') <= MapSize
  <2>1. /\ IsFiniteSet(filter_map')
        /\ Cardinality(filter_map') <= Cardinality(filter_map \cup Namespaces)
    BY <1>4, <1>5, FS_Subset
  <2>2. /\ Cardinality(filter_map \cup Namespaces) \in Nat
        /\ Cardinality(filter_map') \in Nat
    BY <1>5, <2>1, FS_CardinalityType
  <2>3. ~(Cardinality(filter_map \cup Namespaces) > MapSize)
    BY DEF LoadNamespaces, NoRoom
  <2> QED
    BY <1>0, <2>1, <2>2, <2>3
<1>7. UNCHANGED <<status, life, mntns, stream, listening, inspected, ns_cache, listed, due,
                  crashed, starts, periods, faults>> /\ infos' = {} /\ pc' = "wait"
  BY DEF LoadNamespaces, engineVars, cacheVars, envVars
<1>8. TypeOK'
  <2>1. /\ DOMAIN Names' \subseteq NsIds /\ DOMAIN Idns' \subseteq Containers
        /\ filter_map' \subseteq NsIds
    BY <1>1, <1>2, <1>4 DEF Inv, TypeOK
  <2>2. \A n \in DOMAIN Names' : Names'[n] \in Containers
    BY <1>1, <1>2, <1>3 DEF Inv, TypeOK
  <2>3. \A c \in DOMAIN Idns' : Idns'[c] \in NsIds
    BY <1>1, <1>2 DEF Inv, TypeOK
  <2> QED
    BY <1>6, <1>7, <2>1, <2>2, <2>3 DEF Inv, TypeOK
<1>9. RunningHasNs' /\ InfosCached'
  BY <1>7 DEF Inv, RunningHasNs, Running, InfosCached
<1>10. IdnsCached'
  BY <1>2, <1>7 DEF Inv, IdnsCached
<1>11. MapFinite'
  BY <1>6, <1>7, FS_EmptySet DEF MapFinite
<1>12. Named'
  <2> SUFFICES ASSUME NEW n \in filter_map'
               PROVE  /\ n \in DOMAIN Names' /\ Names'[n] \in Matching
                      /\ Names'[n] \in DOMAIN Idns' /\ Idns'[Names'[n]] = n
    BY DEF Named
  <2>1. CASE n \in Namespaces
    BY <1>2, <1>3, <2>1
  <2>2. CASE n \notin Namespaces
    <3>1. pc = "attach" /\ n \in filter_map
      BY <2>2 DEF LoadNamespaces, Loaded
    <3>2. /\ n \in DOMAIN Names /\ Names[n] \in Matching
          /\ Names[n] \in DOMAIN Idns /\ Idns[Names[n]] = n
      BY <3>1 DEF Inv, Named
    <3>3. Names'[n] = Names[n] /\ ns_cache[Names[n]] = n
      BY <1>2, <2>2, <3>2 DEF Inv, IdnsCached
    <3>4. Names[n] \notin Ids
      BY <1>2, <2>2, <3>3
    <3> QED
      BY <1>2, <3>2, <3>3, <3>4
  <2> QED
    BY <2>1, <2>2
<1> QED
  BY <1>8, <1>9, <1>10, <1>11, <1>12 DEF Inv

\* A map that is full: only the map changes, up to its size, and the sidecar
\* starts over.
LEMMA RaiseStep == ASSUME Inv, LoadRaises PROVE Inv'
<1>0. MapSize \in Nat
  BY ContainersAssumption
<1>1. Namespaces \subseteq NsIds /\ IsFiniteSet(Namespaces)
  BY NamespacesFinite DEF Inv
<1>2. PICK part \in SUBSET Namespaces : /\ Cardinality(filter_map \cup part) = MapSize
                                        /\ filter_map' = filter_map \cup part
  BY DEF LoadRaises
<1>3. IsFiniteSet(part)
  BY <1>1, FS_Subset
<1>4. IsFiniteSet(filter_map')
  BY <1>2, <1>3, FS_Union DEF Inv, MapFinite
<1>5. /\ UNCHANGED <<status, life, mntns, listening, inspected, ns_cache, listed,
                     container_name_mapping, container_idns_mapping, starts, periods, faults>>
      /\ pc' \in {"closing", "list"} /\ stream' = <<>> /\ infos' = {} /\ due' = FALSE
      /\ crashed' = TRUE
  BY DEF LoadRaises, Crash, engineVars, cacheVars, envVars
<1>6. TypeOK'
  <2>1. filter_map' \subseteq NsIds /\ Cardinality(filter_map') <= MapSize
    BY <1>0, <1>1, <1>2 DEF Inv, TypeOK
  <2>2. stream' \in Seq(Event)
    BY <1>5
  <2> QED
    BY <1>5, <2>1, <2>2 DEF Inv, TypeOK
<1>7. RunningHasNs' /\ InfosCached' /\ IdnsCached' /\ Named'
  BY <1>5 DEF Inv, RunningHasNs, Running, InfosCached, IdnsCached, Named
<1>8. MapFinite'
  BY <1>4, <1>5, FS_EmptySet DEF MapFinite
<1> QED
  BY <1>6, <1>7, <1>8 DEF Inv

\* Inspecting keeps what the caches said, and so what agrees with them.
LEMMA InspectStep ==
    ASSUME Inv, NEW ids \in SUBSET Containers, Inspect(ids),
           infos' \in {infos, {}, Infos(ids)},
           UNCHANGED <<engineVars, tableVars>>,
           pc' = "attach" => pc = "wait", pc' # "attach" => pc' \in {pc, "list", "load"}
    PROVE  RunningHasNs' /\ InfosCached' /\ IdnsCached' /\ MapFinite' /\ Named'
<1>0. Matching \subseteq Containers /\ None \notin NsIds
  BY ContainersAssumption
<1>1. TypeOK /\ RunningHasNs
  BY DEF Inv
<1>2. /\ \A c \in Containers : ns_cache[c] # None => ns_cache'[c] = ns_cache[c]
      /\ \A info \in Infos(ids) : info[1] \in Matching /\ ns_cache'[info[1]] = info[2]
      /\ IsFiniteSet(Infos(ids))
  BY <1>1, InspectCaches
<1>3. UNCHANGED <<status, mntns, filter_map, container_name_mapping, container_idns_mapping>>
  BY DEF engineVars, tableVars
<1>4. RunningHasNs'
  BY <1>1, <1>3 DEF RunningHasNs, Running
<1>5. InfosCached'
  <2>1. ASSUME NEW info \in infos
        PROVE  info[1] \in Matching /\ ns_cache'[info[1]] = info[2]
    <3>1. info[1] \in Matching /\ ns_cache[info[1]] = info[2] /\ info[2] \in NsIds
      BY DEF Inv, TypeOK, InfosCached
    <3> QED
      BY <1>0, <1>2, <3>1
  <2> QED
    BY <1>2, <2>1 DEF InfosCached
<1>6. IdnsCached'
  <2> SUFFICES ASSUME NEW c \in DOMAIN container_idns_mapping
               PROVE  ns_cache'[c] = container_idns_mapping[c]
    BY <1>3 DEF IdnsCached
  <2>1. c \in Containers /\ ns_cache[c] = container_idns_mapping[c]
            /\ container_idns_mapping[c] \in NsIds
    BY DEF Inv, TypeOK, IdnsCached
  <2> QED
    BY <1>0, <1>2, <2>1
<1>7. MapFinite'
  BY <1>2, <1>3, FS_EmptySet DEF Inv, MapFinite
<1>8. Named'
  BY <1>3 DEF Inv, Named
<1> QED
  BY <1>4, <1>5, <1>6, <1>7, <1>8

\* A start event.
LEMMA TakeStartStep == ASSUME Inv, NEW c \in Containers, TakeStart(c) PROVE Inv'
<1>1. Inspect({c}) /\ {c} \in SUBSET Containers
  BY DEF TakeStart
<1>2. /\ inspected' \in [Containers -> Nat \cup {None}]
      /\ ns_cache' \in [Containers -> NsIds \cup {None, Missing}]
      /\ Infos({c}) \subseteq Containers \X NsIds
  BY <1>1, InspectCaches DEF Inv
<1>3. /\ infos' \in {infos, {}, Infos({c})} /\ UNCHANGED <<engineVars, tableVars>>
      /\ pc = "wait" /\ pc' \in {"wait", "list", "attach"} /\ due' \in {due, FALSE}
      /\ stream # <<>> /\ stream' = Tail(stream)
      /\ UNCHANGED <<crashed, engineVars, listening, tableVars, listed, envVars>>
  BY DEF TakeStart, Take, BaselineFirst
<1>4. RunningHasNs' /\ InfosCached' /\ IdnsCached' /\ MapFinite' /\ Named'
  BY <1>1, <1>3, InspectStep
<1>5. stream' \in Seq(Event) /\ infos' \subseteq Containers \X NsIds
  BY <1>2, <1>3 DEF Inv, TypeOK
<1>6. TypeOK'
  BY <1>2, <1>3, <1>5 DEF Inv, TypeOK, engineVars, tableVars, envVars
<1> QED
  BY <1>4, <1>6 DEF Inv

\* A baseline inspects what it listed.
LEMMA InspectListedStep == ASSUME Inv, InspectListed PROVE Inv'
<1>1. Inspect(listed) /\ listed \in SUBSET Containers
  BY DEF InspectListed, Inv, TypeOK
<1>2. /\ inspected' \in [Containers -> Nat \cup {None}]
      /\ ns_cache' \in [Containers -> NsIds \cup {None, Missing}]
      /\ Infos(listed) \subseteq Containers \X NsIds
  BY <1>1, InspectCaches DEF Inv
<1>3. /\ infos' = Infos(listed) /\ UNCHANGED <<engineVars, tableVars>> /\ pc' = "load"
      /\ listed' = {} /\ UNCHANGED <<crashed, stream, listening, due, envVars>>
  BY DEF InspectListed
<1>4. RunningHasNs' /\ InfosCached' /\ IdnsCached' /\ MapFinite' /\ Named'
  BY <1>1, <1>3, InspectStep
<1>5. TypeOK'
  BY <1>2, <1>3 DEF Inv, TypeOK, engineVars, tableVars, envVars
<1> QED
  BY <1>4, <1>5 DEF Inv

\* A stop: the namespace it detaches is that of its own container, and every
\* other one keeps its name.
LEMMA TakeStopStep == ASSUME Inv, NEW c \in Containers, TakeStop(c) PROVE Inv'
<1>0. MapSize \in Nat
  BY ContainersAssumption
<1> DEFINE Names == container_name_mapping
           Idns == container_idns_mapping
<1>1. UNCHANGED <<status, life, mntns, listening, inspected, ns_cache, listed, starts, periods,
                  faults>>
  BY DEF TakeStop, engineVars, cacheVars, envVars
<1>2. pc = "wait" /\ stream # <<>> /\ Tail(stream) \in Seq(Event) /\ <<>> \in Seq(Event)
  BY DEF TakeStop, Take, Inv, TypeOK
<1>3. CASE due \/ c \notin DOMAIN Idns
  <2>1. /\ stream' = Tail(stream) /\ pc' \in {"list", "wait"} /\ due' \in {due, FALSE}
        /\ UNCHANGED <<filter_map, container_name_mapping, container_idns_mapping, infos, crashed>>
    BY <1>2, <1>3 DEF TakeStop, tableVars, BaselineFirst
  <2>2. TypeOK'
    BY <1>1, <1>2, <2>1 DEF Inv, TypeOK
  <2> QED
    BY <1>1, <1>2, <2>1, <2>2 DEF Inv, RunningHasNs, Running, InfosCached, IdnsCached, MapFinite, Named
<1>4. CASE ~due /\ c \in DOMAIN Idns
  <2> DEFINE n == Idns[c]
  <2>1. /\ DOMAIN Idns' = DOMAIN Idns \ {c}
        /\ \A d \in DOMAIN Idns' : Idns'[d] = Idns[d]
    BY <1>4 DEF TakeStop, Without
  <2>2. RunningHasNs' /\ IdnsCached'
    BY <1>1, <2>1 DEF Inv, RunningHasNs, Running, IdnsCached
  <2>3. CASE n \in filter_map
    <3>1. /\ filter_map' = filter_map \ {n}
          /\ DOMAIN Names' = DOMAIN Names \ {n}
          /\ \A m \in DOMAIN Names' : Names'[m] = Names[m]
          /\ stream' = Tail(stream) /\ UNCHANGED <<pc, infos, due, crashed>>
      BY <1>4, <2>3 DEF TakeStop, Without, AttachedAfterStop
    <3>2. IsFiniteSet(filter_map') /\ Cardinality(filter_map') <= Cardinality(filter_map)
      BY <3>1, FS_Subset DEF Inv, MapFinite
    <3>3. Cardinality(filter_map') <= MapSize
      <4>1. Cardinality(filter_map') \in Nat /\ Cardinality(filter_map) \in Nat
        BY <3>2, FS_CardinalityType DEF Inv, MapFinite
      <4> QED
        BY <1>0, <3>2, <4>1 DEF Inv, TypeOK
    <3>4. TypeOK'
      BY <1>1, <1>2, <2>1, <3>1, <3>3 DEF Inv, TypeOK
    <3>5. InfosCached' /\ MapFinite'
      BY <1>1, <3>1, <3>2 DEF Inv, InfosCached, MapFinite
    <3>6. Named'
      <4> SUFFICES ASSUME NEW m \in filter_map'
                   PROVE  /\ m \in DOMAIN Names' /\ Names'[m] \in Matching
                          /\ Names'[m] \in DOMAIN Idns' /\ Idns'[Names'[m]] = m
        BY DEF Named
      <4>1. m \in filter_map /\ m # n
        BY <3>1
      <4>2. /\ m \in DOMAIN Names /\ Names[m] \in Matching
            /\ Names[m] \in DOMAIN Idns /\ Idns[Names[m]] = m
        BY <1>2, <4>1 DEF Inv, Named
      <4>3. Names[m] # c
        BY <4>1, <4>2
      <4> QED
        BY <2>1, <3>1, <4>1, <4>2, <4>3
    <3> QED
      BY <2>2, <3>4, <3>5, <3>6 DEF Inv
  <2>4. CASE n \notin filter_map
    <3>1. Crash /\ UNCHANGED <<filter_map, container_name_mapping>>
      BY <1>4, <2>4 DEF TakeStop
    <3>2. /\ stream' = <<>> /\ infos' = {} /\ due' = FALSE /\ crashed' = TRUE
          /\ pc' \in {"closing", "list"}
      BY <3>1 DEF Crash
    <3>3. TypeOK'
      BY <1>1, <1>2, <2>1, <3>1, <3>2 DEF Inv, TypeOK
    <3>4. InfosCached' /\ MapFinite' /\ Named'
      BY <3>1, <3>2, FS_EmptySet DEF Inv, InfosCached, MapFinite, Named
    <3> QED
      BY <2>2, <3>3, <3>4 DEF Inv
  <2> QED
    BY <2>3, <2>4
<1> QED
  BY <1>3, <1>4

\* The pipe of the events keeps its type.
LEMMA EmitType ==
    ASSUME TypeOK, NEW c \in Containers, NEW type \in {"start", "stop"}, Emit(type, c)
    PROVE  stream' \in Seq(Event) /\ listening' \in BOOLEAN
<1>1. [event_type |-> type, id |-> c] \in Event
  BY DEF Event
<1> QED
  BY <1>1 DEF Emit, TypeOK

\* Every step of the engine, its client and the sidecar keeps the invariant.
LEMMA InvStep == Inv /\ [Next]_vars => Inv'
<1> SUFFICES ASSUME Inv, [Next]_vars PROVE Inv'
  OBVIOUS
<1>0. None \notin NsIds
  BY ContainersAssumption
<1> DEFINE Tables == UNCHANGED <<cacheVars, tableVars, infos>>
<1>1. ASSUME Tables, pc' # pc => pc' \in {"list", "inspect"}
      PROVE  InfosCached' /\ IdnsCached' /\ MapFinite' /\ Named'
  BY <1>1 DEF Inv, InfosCached, IdnsCached, MapFinite, Named, cacheVars, tableVars
<1>2. ASSUME NEW c \in Containers, NEW n \in NsIds, StartContainer(c, n) PROVE Inv'
  <2>1. TypeOK'
    BY <1>2, EmitType DEF StartContainer, Inv, TypeOK, cacheVars, tableVars
  <2>2. RunningHasNs'
    BY <1>0, <1>2 DEF StartContainer, Inv, TypeOK, RunningHasNs, Running
  <2> QED
    BY <1>1, <1>2, <2>1, <2>2 DEF StartContainer, Inv
<1>3. ASSUME NEW c \in Containers, AnnounceContainer(c) PROVE Inv'
  <2>1. TypeOK'
    BY <1>3, EmitType DEF AnnounceContainer, Inv, TypeOK, cacheVars, tableVars
  <2>2. RunningHasNs'
    BY <1>3 DEF AnnounceContainer, Inv, TypeOK, RunningHasNs, Running
  <2> QED
    BY <1>1, <1>3, <2>1, <2>2 DEF AnnounceContainer, Inv
<1>4. ASSUME NEW c \in Containers, NEW n \in NsIds, RunContainer(c, n) PROVE Inv'
  <2>1. TypeOK'
    BY <1>4 DEF RunContainer, Inv, TypeOK, cacheVars, tableVars, envVars
  <2>2. RunningHasNs'
    BY <1>0, <1>4 DEF RunContainer, Inv, TypeOK, RunningHasNs, Running
  <2> QED
    BY <1>1, <1>4, <2>1, <2>2 DEF RunContainer, Inv
<1>5. ASSUME NEW c \in Containers, StopContainer(c) PROVE Inv'
  <2>1. TypeOK'
    BY <1>5, EmitType DEF StopContainer, Inv, TypeOK, cacheVars, tableVars, envVars
  <2>2. RunningHasNs'
    BY <1>5 DEF StopContainer, Inv, TypeOK, RunningHasNs, Running
  <2> QED
    BY <1>1, <1>5, <2>1, <2>2 DEF StopContainer, Inv
<1>6. CASE ClientDies \/ PeriodPasses \/ OpenStream \/ CloseStream
  <2>1. /\ Tables /\ UNCHANGED <<engineVars, stream, listed, crashed, starts>>
        /\ pc' # pc => pc' = "list"
        /\ listening' \in {TRUE, FALSE, listening} /\ due' \in {TRUE, due}
        /\ faults' \in {faults, faults + 1} /\ periods' \in {periods, periods + 1}
    BY <1>6 DEF ClientDies, PeriodPasses, OpenStream, CloseStream, envVars
  <2>2. TypeOK'
    <3>0. listening' \in BOOLEAN /\ due' \in BOOLEAN
      BY <2>1, Zenon DEF Inv, TypeOK
    <3>1. /\ faults' \in Nat /\ periods' \in Nat
          /\ pc' \in {"list", "inspect", "load", "attach", "wait", "closing"}
      BY <2>1 DEF Inv, TypeOK
    <3>2. UNCHANGED <<status, life, mntns, stream, inspected, ns_cache, filter_map,
                      container_name_mapping, container_idns_mapping, listed, infos,
                      crashed, starts>>
      BY <2>1 DEF engineVars, cacheVars, tableVars
    <3> QED
      BY <3>0, <3>1, <3>2 DEF Inv, TypeOK
  <2>3. RunningHasNs'
    BY <2>1 DEF Inv, RunningHasNs, Running, engineVars
  <2> QED
    BY <1>1, <2>1, <2>2, <2>3 DEF Inv
<1>7. CASE ListContainers
  <2>1. TypeOK'
    BY <1>7 DEF ListContainers, Inv, TypeOK, engineVars, cacheVars, tableVars
  <2>2. RunningHasNs'
    BY <1>7 DEF ListContainers, Inv, RunningHasNs, Running, engineVars
  <2> QED
    BY <1>1, <1>7, <2>1, <2>2 DEF ListContainers, Inv
<1>8. CASE UNCHANGED vars
  <2>1. TypeOK' /\ RunningHasNs'
    BY <1>8 DEF vars, engineVars, cacheVars, tableVars, envVars, Inv, TypeOK, RunningHasNs, Running
  <2> QED
    BY <1>1, <1>8, <2>1 DEF vars, Inv
<1> QED
  BY <1>2, <1>3, <1>4, <1>5, <1>6, <1>7, <1>8, LoadStep, RaiseStep, TakeStartStep,
     InspectListedStep, TakeStopStep DEF Next, Monitor

\* Every state of the monitor is well typed; in particular the map never holds
\* more namespaces than it has room for, and only namespaces are ever in it.
THEOREM TypeCorrect == Spec => []TypeOK
<1>1. Inv => TypeOK
  BY DEF Inv
<1> QED
  BY InvInit, InvStep, <1>1, PTL DEF Spec

\* Between two events of the engine every namespace in the map has the name of a
\* matching container whose stop will detach it, with any number of containers,
\* whatever is started again, lost, or left behind by a crash of the sidecar.
THEOREM AttachedAreNamed == Spec => []AttachedIsNamed
<1>1. Inv => AttachedIsNamed
  BY DEF Inv, Named, AttachedIsNamed
<1> QED
  BY InvInit, InvStep, <1>1, PTL DEF Spec
=============================================================================
