-------------------------- MODULE RemoteFetchProofs --------------------------
(***************************************************************************)
(* Proofs about RemoteFetch, for every configuration with its included     *)
(* URLs and every number of generations, parses, fetchers and events.      *)
(***************************************************************************)
EXTENDS RemoteFetch, TLAPS

(***************************************************************************)
(* The invariant.                                                          *)
(***************************************************************************)

\* The parser has sent its request for the present node.
Asked == {"notify", "lock", "wait", "open"}

\* A parser that is not idle has a number of its own and is at a node; past
\* "node" that is a URL, and a fetcher was made for it.
ParseShape ==
    \A g \in Gens :
        /\ ~At(g, "idle") => parse[g].n \in 1 .. parses /\ parse[g].node \in 1 .. Len(Doc) + 1
        /\ ~At(g, "idle") /\ ~At(g, "node") => parse[g].node \in 1 .. Len(Doc) /\ Node(g) \in Urls
        /\ At(g, "enqueue") => cur # 0
        /\ parse[g].pc \in Asked => parse[g].dir \in Fetchers
ParsesApart ==
    \A g, h \in Gens : g # h /\ ~At(g, "idle") /\ ~At(h, "idle") => parse[g].n # parse[h].n

\* A fetcher downloads something.  A server has published no more than it could.
FetchShape == \A f \in Fetchers : fetcher[f].pc = "fetch" => fetcher[f].todo # <<>>
ServerShape == \A u \in Urls : server[u].v <= events + 1

Shape == ParseShape /\ ParsesApart /\ FetchShape /\ ServerShape

\* A request belongs to an earlier node of a parse, or is the one a parser has
\* sent for the node it is at.
Known(r) ==
    /\ r.ready[1] <= parses
    /\ \A g \in Gens : ~At(g, "idle") /\ r.ready[1] = parse[g].n =>
           \/ r.ready[2] < parse[g].node
           \/ /\ r.ready[2] = parse[g].node /\ parse[g].pc \in Asked
              /\ r.url = Node(g) /\ r.dir = parse[g].dir

RequestsKnown ==
    /\ \A i \in 1 .. Len(workload) : Known(workload[i])
    /\ \A f \in Fetchers : \A i \in 1 .. Len(fetcher[f].todo) : Known(fetcher[f].todo[i])

\* What was asked for was published; what a parser's own request has downloaded
\* is no older.
AskedPublished ==
    \A g \in Gens : parse[g].pc \in Asked => parse[g].asked <= server[Node(g)].v
GotFresh ==
    \A f \in Fetchers, g \in Gens :
        parse[g].pc \in Asked /\ Holds(f, ReadyOf(g)) =>
            fetcher[f].got = 0 \/ fetcher[f].got >= parse[g].asked

\* Without rivals one fetcher runs, and nobody else writes the file it replaces.
OneFetcher ==
    ~rivals => \A e, f \in Fetchers : fetcher[e].pc # "dead" /\ fetcher[f].pc # "dead" => e = f
OldKept ==
    ~rivals => \A f \in Fetchers : fetcher[f].pc = "fetch" =>
        LET r == Head(fetcher[f].todo) IN file[r.dir][r.url] \in {0, fetcher[f].old}

\* From the notification until the parser opens the file, it is fresh or gone,
\* and no older download is on its way.
OpenFresh ==
    ~rivals => \A g \in Gens : At(g, "open") =>
        /\ file[parse[g].dir][Node(g)] = 0 \/ file[parse[g].dir][Node(g)] >= parse[g].asked
        /\ \A f \in Fetchers : fetcher[f].pc = "fetch" =>
               LET r == Head(fetcher[f].todo) IN
               r.dir = parse[g].dir /\ r.url = Node(g) =>
                   fetcher[f].got = 0 \/ fetcher[f].got >= parse[g].asked

Fresh == RequestsKnown /\ AskedPublished /\ GotFresh /\ OneFetcher /\ OldKept /\ OpenFresh

-----------------------------------------------------------------------------
(* Type correctness. *)

Fetcher == [pc : {"loop", "next", "fetch", "wait", "dead"}, flag : Flags,
            todo : Seq(Request), old : Versions \cup {0}, got : Versions \cup {0}]
Parser == [pc : {"idle", "node", "create", "enqueue", "notify", "lock", "wait", "open"},
           n : 0 .. MaxParses, node : 0 .. Len(Doc) + 1, flag : Flags,
           dir : 0 .. MaxFetchers, asked : Versions \cup {0}]

\* The bounds, and the values parsers and fetchers start and end with.
LEMMA Constants ==
    /\ Doc \in Seq(Urls \cup {LocalFile}) /\ Len(Doc) \in Nat
    /\ MaxGens \in Nat \ {0} /\ MaxParses \in Nat /\ MaxFetchers \in Nat /\ MaxEvents \in Nat
    /\ 1 \in Gens /\ NoFlag \in Flags /\ Gens \subseteq Flags
    /\ IdleParse \in Parser /\ IdleParse.pc = "idle"
    /\ DeadFetcher \in Fetcher /\ DeadFetcher.pc = "dead" /\ DeadFetcher.todo = <<>>
<1>1. /\ Doc \in Seq(Urls \cup {LocalFile}) /\ MaxGens \in Nat \ {0} /\ MaxParses \in Nat
      /\ MaxFetchers \in Nat /\ MaxEvents \in Nat
  BY RemoteFetchAssumption
<1>2. Len(Doc) \in Nat
  BY <1>1
<1>3. 1 \in Gens /\ NoFlag \in Flags /\ Gens \subseteq Flags
  BY <1>1 DEF Gens, Flags
<1>4. IdleParse \in Parser /\ IdleParse.pc = "idle"
  BY <1>1, <1>2, <1>3 DEF IdleParse, Parser
<1>5. <<>> \in Seq(Request)
  OBVIOUS
<1>6. DeadFetcher \in Fetcher /\ DeadFetcher.pc = "dead" /\ DeadFetcher.todo = <<>>
  BY <1>3, <1>5 DEF DeadFetcher, Fetcher
<1> QED
  BY <1>1, <1>2, <1>3, <1>4, <1>6

\* The initial state.
LEMMA InitInv == Init => TypeOK /\ Shape /\ Fresh
<1> SUFFICES ASSUME Init PROVE TypeOK /\ Shape /\ Fresh
  OBVIOUS
<1>1. TypeOK
  <2>1. server \in [Urls -> [v : Versions, ok : BOOLEAN]]
    <3>1. 1 \in Versions
      BY Constants DEF Versions
    <3> QED
      BY <3>1 DEF Init
  <2>2. workload \in Seq(Request)
    BY DEF Init
  <2>3. fetcher \in [Fetchers -> Fetcher] /\ parse \in [Gens -> Parser]
    BY Constants DEF Init
  <2>4. gen \in Gens /\ parses \in 0 .. MaxParses /\ events \in 0 .. MaxEvents
        /\ cur \in 0 .. MaxFetchers /\ handler \in Flags
        /\ watch \in [Gens -> [Urls -> 0 .. MaxFetchers]]
    BY Constants DEF Init
  <2>5. phase \in [Gens -> {"none", "setup", "running", "left", "exited"}]
    BY DEF Init
  <2> QED
    BY <2>1, <2>2, <2>3, <2>4, <2>5 DEF Init, TypeOK, Fetcher, Parser
<1>2. (\A g \in Gens : parse[g].pc = "idle")
      /\ \A f \in Fetchers : fetcher[f].pc = "dead" /\ fetcher[f].todo = <<>>
  BY Constants DEF Init
<1>3. Shape
  BY <1>2 DEF Init, Shape, ParseShape, ParsesApart, FetchShape, ServerShape, At, Asked
<1>4. Fresh
  <2>1. \A f \in Fetchers : Len(fetcher[f].todo) = 0
    BY <1>2
  <2> QED
    BY <1>2, <2>1 DEF Init, Fresh, RequestsKnown, AskedPublished, GotFresh, OneFetcher, OldKept,
                      OpenFresh, At, Asked
<1> QED
  BY <1>1, <1>3, <1>4

\* A request put on the workload leaves requests there.
LEMMA PutType ==
    ASSUME NEW list \in Seq(Request), NEW r \in Request
    PROVE  /\ Put(list, r) \in Seq(Request)
           /\ \A i \in 1 .. Len(Put(list, r)) :
                  Put(list, r)[i] = r \/ \E j \in 1 .. Len(list) : Put(list, r)[i] = list[j]
<1>1. CASE \E i \in 1 .. Len(list) : list[i].url = r.url
  <2> DEFINE q == [i \in 1 .. Len(list) |-> IF list[i].url = r.url THEN r ELSE list[i]]
  <2>1. Put(list, r) = q
    BY <1>1 DEF Put
  <2>2. q \in Seq(Request) /\ Len(q) = Len(list)
    OBVIOUS
  <2> QED
    BY <2>1, <2>2
<1>2. CASE ~\E i \in 1 .. Len(list) : list[i].url = r.url
  <2>1. Put(list, r) = Append(list, r)
    BY <1>2 DEF Put
  <2> QED
    BY <2>1
<1> QED
  BY <1>1, <1>2

\* Notifying the fence keeps every fetcher but for one that waited.
LEMMA FenceType ==
    ASSUME TypeOK
    PROVE  /\ FenceNotified \in [Fetchers -> Fetcher]
           /\ \A f \in Fetchers : \/ FenceNotified[f] = fetcher[f]
                                  \/ /\ fetcher[f].pc = "wait" /\ FenceNotified[f].pc = "loop"
                                     /\ FenceNotified[f].todo = fetcher[f].todo
<1>1. fetcher \in [Fetchers -> Fetcher]
  BY DEF TypeOK, Fetcher
<1>2. \A f \in Fetchers : /\ [fetcher[f] EXCEPT !.pc = "loop"] \in Fetcher
                          /\ [fetcher[f] EXCEPT !.pc = "loop"].pc = "loop"
                          /\ [fetcher[f] EXCEPT !.pc = "loop"].todo = fetcher[f].todo
  BY <1>1 DEF Fetcher
<1> QED
  BY <1>1, <1>2 DEF FenceNotified

\* Every step keeps the types: the request a parser sends is for a URL and for a
\* fetcher that was made, and a server has a number left for a new version.
LEMMA TypeStep == TypeOK /\ Shape /\ [Next]_vars => TypeOK'
<1> SUFFICES ASSUME TypeOK, Shape, [Next]_vars PROVE TypeOK'
  OBVIOUS
<1>1. parse \in [Gens -> Parser] /\ fetcher \in [Fetchers -> Fetcher]
  BY DEF TypeOK, Fetcher, Parser
<1>0. /\ parses \in 0 .. MaxParses /\ events \in 0 .. MaxEvents /\ cur \in 0 .. MaxFetchers
      /\ handler \in Flags /\ workload \in Seq(Request)
      /\ server \in [Urls -> [v : Versions, ok : BOOLEAN]]
      /\ phase \in [Gens -> {"none", "setup", "running", "left", "exited"}]
  BY DEF TypeOK
<1>2. \A x \in Parser : \A pc \in {"idle", "node", "create", "enqueue", "notify", "lock", "wait", "open"} :
          [x EXCEPT !.pc = pc] \in Parser
  BY DEF Parser
<1>3. \A x \in Fetcher : \A pc \in {"loop", "next", "fetch", "wait", "dead"} :
          [x EXCEPT !.pc = pc] \in Fetcher
  BY DEF Fetcher
<1>4. ASSUME NEW g \in Gens, Included(g), parse[g].node \in 1 .. Len(Doc)
      PROVE  parse' \in [Gens -> Parser] /\ handler' \in Flags
  <2>1. parse[g].n \in 0 .. MaxParses /\ parse[g].node + 1 \in 0 .. Len(Doc) + 1
    BY <1>1, <1>4, Constants DEF Parser
  <2>2. [IdleParse EXCEPT !.pc = "node", !.n = parse[g].n, !.node = parse[g].node + 1] \in Parser
    BY <2>1, Constants DEF Parser
  <2> QED
    BY <1>1, <1>4, <2>2, Constants DEF Included
<1>5. ASSUME NEW g \in Gens, ParseFails(g)
      PROVE  /\ parse' \in [Gens -> Parser] /\ fetcher' \in [Fetchers -> Fetcher]
             /\ phase' \in [Gens -> {"none", "setup", "running", "left", "exited"}]
  <2>1. CASE phase[g] = "setup"
    BY <1>0, <1>5, <2>1, Constants DEF ParseFails
  <2>2. CASE phase[g] # "setup"
    <3>1. parse' = [parse EXCEPT ![g] = IdleParse] /\ UNCHANGED <<phase, fetcher>>
      BY <1>5, <2>2 DEF ParseFails
    <3> QED
      BY <1>0, <1>1, <3>1, Constants
  <2> QED
    BY <2>1, <2>2
<1>6. ASSUME NEW g \in Gens, NEW pc \in {"enqueue", "lock", "wait"}, Goto(g, pc)
      PROVE  parse' \in [Gens -> Parser]
  <2>1. parse' = [parse EXCEPT ![g] = [parse[g] EXCEPT !.pc = pc]]
    BY <1>6 DEF Goto
  <2>2. [parse[g] EXCEPT !.pc = pc] \in Parser
    BY <1>1, <1>2
  <2> QED
    BY <1>1, <2>1, <2>2
<1>11. ASSUME NEW g \in Gens, StartParse(g) PROVE TypeOK'
  <2>1. parses + 1 \in 0 .. MaxParses /\ 1 \in 0 .. Len(Doc) + 1
    <3>1. parses < MaxParses
      BY <1>11 DEF StartParse
    <3>2. MaxParses \in Nat /\ Len(Doc) \in Nat
      BY Constants
    <3> QED
      BY <1>0, <3>1, <3>2
  <2>2. [IdleParse EXCEPT !.pc = "node", !.n = parses + 1, !.node = 1] \in Parser
    BY <2>1, Constants DEF Parser
  <2>3. parse' \in [Gens -> Parser]
    BY <1>1, <1>11, <2>2 DEF StartParse
  <2> QED
    BY <1>11, <2>1, <2>3, Constants DEF StartParse, TypeOK, Parser, envVars, diskVars, histVars
<1>12. ASSUME NEW g \in Gens, IncludeLocal(g) PROVE TypeOK'
  <2>1. parse[g].node \in 1 .. Len(Doc)
    BY <1>1, <1>12, Constants DEF IncludeLocal, Shape, ParseShape, At, Parser
  <2> QED
    BY <1>4, <1>12, <2>1 DEF IncludeLocal, TypeOK, Parser, envVars, diskVars, mainVars, histVars
<1>13. ASSUME NEW g \in Gens, IncludeRemote(g) PROVE TypeOK'
  <2>1. PICK pc \in {"create", "enqueue"} :
            parse' = [parse EXCEPT ![g] = [parse[g] EXCEPT !.flag = handler, !.pc = pc]]
    BY <1>1, <1>13 DEF IncludeRemote
  <2>2. [parse[g] EXCEPT !.flag = handler, !.pc = pc] \in Parser
    <3>1. parse[g] \in Parser /\ handler \in Flags
      BY <1>0, <1>1
    <3> HIDE DEF Flags, Versions
    <3>2. CASE pc = "create"
      BY <3>1, <3>2 DEF Parser
    <3>3. CASE pc = "enqueue"
      BY <3>1, <3>3 DEF Parser
    <3> QED
      BY <3>2, <3>3
  <2>3. parse' \in [Gens -> Parser]
    BY <1>1, <2>1, <2>2
  <2> QED
    BY <1>13, <2>3 DEF IncludeRemote, TypeOK, Parser, envVars, diskVars, mainVars, histVars
<1>14. ASSUME NEW g \in Gens, CreateFetcher(g) PROVE TypeOK'
  <2>1. cur + 1 \in Fetchers /\ cur + 1 \in 0 .. MaxFetchers
    <3>1. cur < MaxFetchers /\ MaxFetchers \in Nat
      BY <1>14, Constants DEF CreateFetcher
    <3> QED
      BY <1>0, <3>1 DEF Fetchers
  <2>2. fetcher' = [fetcher EXCEPT ![cur + 1] = [fetcher[cur + 1] EXCEPT !.pc = "loop",
                                                                         !.flag = parse[g].flag]]
    BY <1>1, <1>14, <2>1 DEF CreateFetcher
  <2>3. [fetcher[cur + 1] EXCEPT !.pc = "loop", !.flag = parse[g].flag] \in Fetcher
    BY <1>1, <2>1 DEF Fetcher, Parser
  <2>4. fetcher' \in [Fetchers -> Fetcher]
    BY <1>1, <2>1, <2>2, <2>3
  <2>5. parse' \in [Gens -> Parser]
    BY <1>6, <1>14 DEF CreateFetcher
  <2>6. rivals' \in BOOLEAN
    BY <1>14 DEF CreateFetcher
  <2> QED
    BY <1>14, <2>1, <2>4, <2>5, <2>6 DEF CreateFetcher, TypeOK, Parser, Fetcher, envVars, mainVars
<1>15. ASSUME NEW g \in Gens, Enqueue(g) PROVE TypeOK'
  <2>1. /\ cur \in Fetchers /\ Node(g) \in Urls /\ ReadyOf(g) \in Ready
        /\ server[Node(g)].v \in Versions \cup {0}
    <3>1. /\ cur # 0 /\ Node(g) \in Urls /\ parse[g].node \in 1 .. Len(Doc)
          /\ parse[g].n \in 1 .. parses
      BY <1>15 DEF Enqueue, Shape, ParseShape, At
    <3>2. parse[g].n \in 1 .. MaxParses /\ cur \in Fetchers
      BY <3>1, Constants DEF TypeOK, Fetchers
    <3> QED
      BY <3>1, <3>2 DEF TypeOK, ReadyOf, Ready
  <2>2. [url |-> Node(g), dir |-> cur, ready |-> ReadyOf(g)] \in Request
    BY <2>1 DEF Request
  <2>3. workload' \in Seq(Request)
    BY <1>15, <2>2, PutType DEF Enqueue, TypeOK
  <2>4. parse' = [parse EXCEPT ![g] = [parse[g] EXCEPT !.pc = "notify", !.dir = cur,
                                                       !.asked = server[Node(g)].v]]
    BY <1>1, <1>15 DEF Enqueue
  <2>5. [parse[g] EXCEPT !.pc = "notify", !.dir = cur, !.asked = server[Node(g)].v] \in Parser
    <3>1. parse[g] \in Parser /\ cur \in 0 .. MaxFetchers
      BY <1>0, <1>1
    <3> DEFINE v == server[Node(g)].v
    <3>2. v \in Versions \cup {0}
      BY <2>1
    <3> HIDE DEF v
    <3>3. [parse[g] EXCEPT !.pc = "notify", !.dir = cur, !.asked = v] \in Parser
      BY <3>1, <3>2 DEF Parser
    <3> QED
      BY <3>3 DEF v
  <2>6. parse' \in [Gens -> Parser]
    BY <1>1, <2>4, <2>5
  <2> QED
    BY <1>15, <2>3, <2>6 DEF Enqueue, TypeOK, Parser, envVars, diskVars, mainVars, histVars
<1>16. ASSUME NEW g \in Gens, NotifyFence(g) PROVE TypeOK'
  <2>1. parse' \in [Gens -> Parser] /\ fetcher' \in [Fetchers -> Fetcher]
    BY <1>6, <1>16, FenceType DEF NotifyFence
  <2> QED
    BY <1>16, <2>1 DEF NotifyFence, TypeOK, Parser, Fetcher, envVars, diskVars, mainVars, histVars
<1>17. ASSUME NEW g \in Gens, WaitReady(g) PROVE TypeOK'
  <2>1. parse' \in [Gens -> Parser]
    BY <1>6, <1>17 DEF WaitReady
  <2> QED
    BY <1>17, <2>1 DEF WaitReady, TypeOK, Parser, envVars, diskVars, mainVars, histVars
<1>18. ASSUME NEW g \in Gens, TimeOut(g) PROVE TypeOK'
  BY <1>5, <1>18 DEF TimeOut, TypeOK, Parser, Fetcher, envVars, diskVars, histVars
<1>19. ASSUME NEW g \in Gens, OpenFetched(g) PROVE TypeOK'
  <2>1. /\ Node(g) \in Urls /\ parse[g].dir \in 0 .. MaxFetchers
        /\ parse[g].node \in 1 .. Len(Doc)
    BY <1>1, <1>19 DEF OpenFetched, Shape, ParseShape, At, Parser
  <2>2. CASE Included(g) /\ watch' = [watch EXCEPT ![g][Node(g)] = parse[g].dir]
             /\ UNCHANGED <<phase, fetcher>>
    <3>1. watch' \in [Gens -> [Urls -> 0 .. MaxFetchers]]
      BY <2>1, <2>2 DEF TypeOK
    <3> QED
      BY <1>4, <1>19, <2>1, <2>2, <3>1 DEF OpenFetched, TypeOK, Parser, envVars, diskVars
  <2>3. CASE ParseFails(g) /\ UNCHANGED <<handler, watch>>
    BY <1>5, <1>19, <2>3 DEF OpenFetched, TypeOK, Parser, Fetcher, envVars, diskVars
  <2> QED
    BY <1>19, <2>2, <2>3 DEF OpenFetched
<1>20. ASSUME NEW g \in Gens, EndParse(g) PROVE TypeOK'
  <2>1. parse' \in [Gens -> Parser]
    BY <1>1, <1>20, Constants DEF EndParse
  <2>2. phase' \in [Gens -> {"none", "setup", "running", "left", "exited"}]
    BY <1>20 DEF EndParse, TypeOK
  <2> QED
    BY <1>20, <2>1, <2>2 DEF EndParse, TypeOK, Parser, envVars, diskVars, histVars
<1>21. ASSUME NEW f \in Fetchers, FetcherStep(f) PROVE TypeOK'
  <2>1. fetcher' \in [Fetchers -> Fetcher]
    <3>1. PICK x : fetcher' = [fetcher EXCEPT ![f] = x] /\ x \in Fetcher
      <4>1. CASE FetcherLoop(f)
        <5>1. [fetcher[f] EXCEPT !.pc = "next", !.todo = workload] \in Fetcher
          <6>1. fetcher[f] \in Fetcher /\ workload \in Seq(Request)
            BY <1>0, <1>1
          <6> HIDE DEF Flags, Versions, Request
          <6> QED
            BY <6>1 DEF Fetcher
        <5> QED
          BY <4>1, <5>1, <1>1, Constants DEF FetcherLoop
      <4>2. CASE FetchStart(f)
        <5> DEFINE r == Head(fetcher[f].todo)
                   got == IF server[r.url].ok THEN server[r.url].v ELSE 0
        <5>1. r \in Request
          BY <4>2, <1>1 DEF FetchStart, Fetcher
        <5>2. file[r.dir][r.url] \in Versions \cup {0} /\ got \in Versions \cup {0}
          BY <5>1 DEF Request, TypeOK
        <5>3. fetcher' = [fetcher EXCEPT ![f] = [fetcher[f] EXCEPT
                             !.pc = "fetch", !.old = file[r.dir][r.url], !.got = got]]
          BY <4>2, <1>1 DEF FetchStart
        <5> HIDE DEF r, got
        <5>4. [fetcher[f] EXCEPT !.pc = "fetch", !.old = file[r.dir][r.url], !.got = got]
                  \in Fetcher
          BY <1>1, <5>2 DEF Fetcher
        <5> QED
          BY <5>3, <5>4
      <4>3. CASE FetchRaises(f)
        <5>1. fetcher' = [fetcher EXCEPT ![f] = [fetcher[f] EXCEPT
                             !.pc = "loop", !.todo = <<>>, !.got = 0, !.old = 0]]
          BY <4>3, <1>1 DEF FetchRaises
        <5>2. [fetcher[f] EXCEPT !.pc = "loop", !.todo = <<>>, !.got = 0, !.old = 0] \in Fetcher
          <6>1. fetcher[f] \in Fetcher /\ 0 \in Versions \cup {0} /\ <<>> \in Seq(Request)
            BY <1>1
          <6> DEFINE e == <<>>
          <6> HIDE DEF e
          <6>2. ASSUME e \in Seq(Request)
                PROVE  [fetcher[f] EXCEPT !.pc = "loop", !.todo = e, !.got = 0, !.old = 0] \in Fetcher
            BY <6>1, <6>2 DEF Fetcher
          <6> QED
            BY <6>1, <6>2 DEF e
        <5> QED
          BY <5>1, <5>2
      <4>4. CASE FetchDone(f)
        <5>1. fetcher' = [fetcher EXCEPT ![f] = [fetcher[f] EXCEPT
                             !.pc = "next", !.todo = Tail(@), !.got = 0, !.old = 0]]
          BY <4>4, <1>1 DEF FetchDone
        <5>2. Tail(fetcher[f].todo) \in Seq(Request)
          BY <4>4, <1>1 DEF FetchDone, Shape, FetchShape, Fetcher
        <5>3. [fetcher[f] EXCEPT !.pc = "next", !.todo = Tail(@), !.got = 0, !.old = 0] \in Fetcher
          BY <1>1, <5>2 DEF Fetcher
        <5> QED
          BY <5>1, <5>3
      <4>5. CASE FetcherWaits(f) \/ Interval(f)
        <5>1. PICK pc \in {"wait", "loop"} :
                  fetcher' = [fetcher EXCEPT ![f] = [fetcher[f] EXCEPT !.pc = pc]]
          BY <4>5, <1>1 DEF FetcherWaits, Interval
        <5> QED
          BY <1>1, <1>3, <5>1
      <4> QED
        BY <1>21, <4>1, <4>2, <4>3, <4>4, <4>5 DEF FetcherStep
    <3> QED
      BY <1>1, <3>1
  <2>2. parse' \in [Gens -> Parser] /\ file' \in [Fetchers -> [Urls -> Versions \cup {0}]]
    <3>1. CASE FetchDone(f)
      <4> DEFINE r == Head(fetcher[f].todo)
      <4>1. r \in Request
        BY <3>1, <1>1 DEF FetchDone, Shape, FetchShape, Fetcher
      <4>2. Stored(f) \in Versions \cup {0}
        BY <1>1, <4>1 DEF Stored, Fetcher, Request, TypeOK
      <4>3. file' = [file EXCEPT ![r.dir][r.url] = Stored(f)]
        BY <3>1 DEF FetchDone
      <4>4. \A g \in Gens : [parse[g] EXCEPT !.pc = "open"] \in Parser
        BY <1>1, <1>2
      <4>5. parse' \in [Gens -> Parser]
        BY <3>1, <1>1, <4>4 DEF FetchDone
      <4> HIDE DEF r
      <4> QED
        BY <4>1, <4>2, <4>3, <4>5 DEF TypeOK, Request
    <3>2. CASE UNCHANGED <<parse, file>>
      BY <1>1, <3>2 DEF TypeOK
    <3> QED
      BY <1>21, <3>1, <3>2 DEF FetcherStep, FetcherLoop, FetchStart, FetchRaises, FetcherWaits,
                               Interval, diskVars
  <2>3. UNCHANGED <<server, events, dirs, phase, gen, stopped, parses, workload, cur, handler,
                    watch, rivals>>
    BY <1>21 DEF FetcherStep, FetcherLoop, FetchStart, FetchRaises, FetchDone, FetcherWaits,
                 Interval, envVars, diskVars, mainVars, histVars
  <2> QED
    BY <2>1, <2>2, <2>3 DEF TypeOK, Parser, Fetcher
<1>22. ASSUME Restart PROVE TypeOK'
  <2>1. gen' \in Gens
    BY <1>22, Constants DEF Restart, TypeOK, Gens
  <2>2. phase' \in [Gens -> {"none", "setup", "running", "left", "exited"}]
    BY <1>22 DEF Restart, TypeOK
  <2>3. watch' \in [Gens -> [Urls -> 0 .. MaxFetchers]]
    BY <1>22, Constants DEF Restart, TypeOK
  <2>4. parse' \in [Gens -> Parser]
    BY <1>1, <1>22, Constants DEF Restart
  <2>5. /\ fetcher' \in [Fetchers -> Fetcher] /\ workload' \in Seq(Request)
        /\ file' \in [Fetchers -> [Urls -> Versions \cup {0}]] /\ dirs' \subseteq Fetchers
        /\ stopped' \subseteq Gens
    <3>1. CASE cleanup /\ stopped' = stopped \cup {gen}
      <4>1. workload' \in Seq(Request)
        BY <3>1 DEF cleanup
      <4>2. file' \in [Fetchers -> [Urls -> Versions \cup {0}]]
        BY <3>1 DEF cleanup, TypeOK
      <4> QED
        BY <3>1, <4>1, <4>2, FenceType DEF cleanup, TypeOK
    <3>2. CASE UNCHANGED <<stopped, fetcher, file, dirs, workload>>
      BY <1>1, <3>2 DEF TypeOK
    <3> QED
      BY <1>22, <3>1, <3>2 DEF Restart
  <2> QED
    BY <1>22, <2>1, <2>2, <2>3, <2>4, <2>5 DEF Restart, TypeOK, Parser, Fetcher, envVars
<1>23. ASSUME NEW u \in Urls, ServerChanges(u) PROVE TypeOK'
  <2>1. server[u].v + 1 \in Versions /\ events + 1 \in 0 .. MaxEvents
    <3>1. events < MaxEvents /\ server[u].v <= events + 1 /\ MaxEvents \in Nat
      BY <1>23, Constants DEF ServerChanges, Shape, ServerShape
    <3>2. server[u].v \in Versions
      BY <1>0
    <3> QED
      BY <1>0, <3>1, <3>2 DEF Versions
  <2>2. server' \in [Urls -> [v : Versions, ok : BOOLEAN]]
    <3>1. server' = [server EXCEPT ![u] = [server[u] EXCEPT !.v = server[u].v + 1]]
      BY <1>0, <1>23 DEF ServerChanges
    <3>2. [server[u] EXCEPT !.v = server[u].v + 1] \in [v : Versions, ok : BOOLEAN]
      BY <1>0, <2>1
    <3> QED
      BY <1>0, <3>1, <3>2
  <2> QED
    BY <1>23, <2>1, <2>2 DEF ServerChanges, TypeOK, diskVars, mainVars, histVars
<1>24. ASSUME NEW u \in Urls, ServerFails(u) \/ ServerRecovers(u) PROVE TypeOK'
  <2>1. events' \in 0 .. MaxEvents
    <3>1. events \in 0 .. MaxEvents /\ MaxEvents \in Nat
      BY Constants DEF TypeOK
    <3>2. events' = events \/ (events < MaxEvents /\ events' = events + 1)
      BY <1>24 DEF ServerFails, ServerRecovers
    <3> QED
      BY <3>1, <3>2
  <2>2. server' \in [Urls -> [v : Versions, ok : BOOLEAN]]
    <3>1. PICK b \in BOOLEAN : server' = [server EXCEPT ![u] = [server[u] EXCEPT !.ok = b]]
      BY <1>0, <1>24 DEF ServerFails, ServerRecovers
    <3>2. [server[u] EXCEPT !.ok = b] \in [v : Versions, ok : BOOLEAN]
      BY <1>0
    <3> QED
      BY <1>0, <3>1, <3>2
  <2> QED
    BY <1>24, <2>1, <2>2 DEF ServerFails, ServerRecovers, TypeOK, diskVars, mainVars, histVars
<1>25. CASE UNCHANGED vars
  BY <1>25 DEF TypeOK, vars, envVars, diskVars, mainVars, histVars
<1> QED
  BY <1>11, <1>12, <1>13, <1>14, <1>15, <1>16, <1>17, <1>18, <1>19, <1>20, <1>21, <1>22, <1>23,
     <1>24, <1>25 DEF Next, ParserStep

-----------------------------------------------------------------------------
(* What a step may do to a parser. *)

\* A parser begins with a number nobody has, and alone.
Starts(g) ==
    /\ At(g, "idle") /\ parses' = parses + 1
    /\ parse'[g].pc = "node" /\ parse'[g].n = parses + 1 /\ parse'[g].node = 1
    /\ \A h \in Gens : h # g => parse'[h] = parse[h]

\* It goes to its next node.
Advances(g) ==
    /\ parse[g].pc \in {"node", "open"} /\ parse[g].node \in 1 .. Len(Doc)
    /\ parse'[g].pc = "node" /\ parse'[g].n = parse[g].n /\ parse'[g].node = parse[g].node + 1

\* It gets ready to send a request for the node it is at.
Prepares(g) ==
    /\ parse[g].pc \in {"node", "create"} /\ parse'[g].pc \in {"create", "enqueue"}
    /\ parse'[g].n = parse[g].n /\ parse'[g].node = parse[g].node
    /\ parse[g].node \in 1 .. Len(Doc) /\ Node(g) \in Urls
    /\ parse'[g].pc = "enqueue" => cur' # 0

\* It sends the request.
Sends(g) ==
    /\ At(g, "enqueue") /\ parse'[g].pc = "notify"
    /\ parse'[g].n = parse[g].n /\ parse'[g].node = parse[g].node
    /\ cur \in Fetchers /\ parse'[g].dir = cur /\ parse'[g].asked = server[Node(g)].v
    /\ parses' = parses /\ UNCHANGED <<fetcher, server>>

\* It waits for the answer.
Awaits(g) ==
    /\ parse[g].pc \in Asked /\ parse'[g].pc \in Asked
    /\ parse'[g].n = parse[g].n /\ parse'[g].node = parse[g].node
    /\ parse'[g].dir = parse[g].dir /\ parse'[g].asked = parse[g].asked

Moves(g) ==
    \/ parse'[g] = parse[g] \/ parse'[g] = IdleParse
    \/ Starts(g) \/ Advances(g) \/ Prepares(g) \/ Sends(g) \/ Awaits(g)

\* The counters and the versions served only grow.
Grows ==
    /\ parses' >= parses /\ (cur # 0 => cur' # 0)
    /\ \A u \in Urls : server'[u].v >= server[u].v

\* Every step is one of these for every parser.
LEMMA ParserMoves == TypeOK /\ Shape /\ [Next]_vars => \A g \in Gens : Moves(g)
<1> SUFFICES ASSUME TypeOK, Shape, [Next]_vars PROVE \A g \in Gens : Moves(g)
  OBVIOUS
<1>0. parse \in [Gens -> Parser] /\ parses \in Nat /\ cur \in 0 .. MaxFetchers
  BY Constants DEF TypeOK, Parser
<1>1. \A x \in Parser : \A pc : [x EXCEPT !.pc = pc].pc = pc /\ [x EXCEPT !.pc = pc].n = x.n
          /\ [x EXCEPT !.pc = pc].node = x.node /\ [x EXCEPT !.pc = pc].dir = x.dir
          /\ [x EXCEPT !.pc = pc].asked = x.asked
  BY DEF Parser
<1>2. \A n, k : LET x == [IdleParse EXCEPT !.pc = "node", !.n = n, !.node = k]
                IN x.pc = "node" /\ x.n = n /\ x.node = k
  BY DEF IdleParse
<1>3. ASSUME NEW g \in Gens, Included(g), parse[g].pc \in {"node", "open"},
             parse[g].node \in 1 .. Len(Doc)
      PROVE  \A h \in Gens : Moves(h)
  <2>1. /\ parse'[g] = [IdleParse EXCEPT !.pc = "node", !.n = parse[g].n,
                                         !.node = parse[g].node + 1]
        /\ \A h \in Gens : h # g => parse'[h] = parse[h]
    BY <1>0, <1>3 DEF Included
  <2>2. Advances(g)
    BY <1>2, <1>3, <2>1 DEF Advances
  <2> QED
    BY <2>1, <2>2 DEF Moves
<1>4. ASSUME NEW g \in Gens, ParseFails(g) PROVE \A h \in Gens : Moves(h)
  BY <1>0, <1>4 DEF ParseFails, Moves
<1>5. ASSUME NEW g \in Gens, NEW pc, Goto(g, pc)
      PROVE  /\ \A h \in Gens : h # g => Moves(h)
             /\ parse'[g].pc = pc /\ parse'[g].n = parse[g].n /\ parse'[g].node = parse[g].node
             /\ parse'[g].dir = parse[g].dir /\ parse'[g].asked = parse[g].asked
  <2>1. parse' = [parse EXCEPT ![g] = [parse[g] EXCEPT !.pc = pc]]
    BY <1>0, <1>5 DEF Goto
  <2>2. parse'[g] = [parse[g] EXCEPT !.pc = pc] /\ \A h \in Gens : h # g => parse'[h] = parse[h]
    BY <1>0, <2>1
  <2> QED
    BY <1>0, <1>1, <2>2 DEF Moves
<1>11. ASSUME NEW g \in Gens, StartParse(g) PROVE \A h \in Gens : Moves(h)
  <2>1. /\ parse'[g] = [IdleParse EXCEPT !.pc = "node", !.n = parses + 1, !.node = 1]
        /\ \A h \in Gens : h # g => parse'[h] = parse[h]
    BY <1>0, <1>11 DEF StartParse
  <2>2. Starts(g)
    <3>1. parse'[g].pc = "node" /\ parse'[g].n = parses + 1 /\ parse'[g].node = 1
      BY <1>2, <2>1
    <3> QED
      BY <1>11, <2>1, <3>1 DEF Starts, StartParse
  <2> QED
    BY <2>1, <2>2 DEF Moves
<1>12. ASSUME NEW g \in Gens, IncludeLocal(g) PROVE \A h \in Gens : Moves(h)
  <2>1. parse[g].node \in 1 .. Len(Doc)
    BY <1>0, <1>12, Constants DEF IncludeLocal, Shape, ParseShape, At, Parser
  <2> QED
    BY <1>3, <1>12, <2>1 DEF IncludeLocal, At
<1>13. ASSUME NEW g \in Gens, IncludeRemote(g) PROVE \A h \in Gens : Moves(h)
  <2>1. PICK pc \in {"create", "enqueue"} :
            /\ parse' = [parse EXCEPT ![g] = [parse[g] EXCEPT !.flag = handler, !.pc = pc]]
            /\ pc = "enqueue" => cur # 0
    BY <1>0, <1>13 DEF IncludeRemote
  <2>2. /\ parse'[g] = [parse[g] EXCEPT !.flag = handler, !.pc = pc]
        /\ \A h \in Gens : h # g => parse'[h] = parse[h]
    BY <1>0, <2>1
  <2>3. parse'[g].pc = pc /\ parse'[g].n = parse[g].n /\ parse'[g].node = parse[g].node
    BY <1>0, <2>2 DEF Parser
  <2>4. parse[g].node \in 1 .. Len(Doc)
    BY <1>0, <1>13, Constants DEF IncludeRemote, Shape, ParseShape, At, Parser
  <2>5. Node(g) \in Urls
    BY <1>13, <2>4, Constants DEF IncludeRemote, Node
  <2>6. Prepares(g)
    BY <1>13, <2>1, <2>3, <2>4, <2>5 DEF Prepares, IncludeRemote, At
  <2> QED
    BY <2>2, <2>6 DEF Moves
<1>14. ASSUME NEW g \in Gens, CreateFetcher(g) PROVE \A h \in Gens : Moves(h)
  <2>1. parse[g].node \in 1 .. Len(Doc) /\ Node(g) \in Urls
    BY <1>14 DEF CreateFetcher, Shape, ParseShape, At
  <2>2. cur' # 0
    BY <1>0, <1>14, Constants DEF CreateFetcher
  <2>3. Goto(g, "enqueue") /\ At(g, "create")
    BY <1>14 DEF CreateFetcher
  <2>4. Prepares(g)
    BY <1>5, <2>1, <2>2, <2>3 DEF Prepares, At
  <2> QED
    BY <1>5, <2>3, <2>4 DEF Moves
<1>15. ASSUME NEW g \in Gens, Enqueue(g) PROVE \A h \in Gens : Moves(h)
  <2> DEFINE v == server[Node(g)].v
  <2>1. parse' = [parse EXCEPT ![g] = [parse[g] EXCEPT !.pc = "notify", !.dir = cur, !.asked = v]]
    BY <1>0, <1>15 DEF Enqueue
  <2> HIDE DEF v
  <2>2. /\ parse'[g] = [parse[g] EXCEPT !.pc = "notify", !.dir = cur, !.asked = v]
        /\ \A h \in Gens : h # g => parse'[h] = parse[h]
    BY <1>0, <2>1
  <2>3. /\ parse'[g].pc = "notify" /\ parse'[g].n = parse[g].n /\ parse'[g].node = parse[g].node
        /\ parse'[g].dir = cur /\ parse'[g].asked = v
    BY <1>0, <2>2 DEF Parser
  <2>4. cur \in Fetchers
    BY <1>0, <1>15, Constants DEF Enqueue, Shape, ParseShape, At, Fetchers
  <2>5. Sends(g)
    BY <1>15, <2>3, <2>4 DEF Sends, Enqueue, v, mainVars, envVars
  <2> QED
    BY <2>2, <2>5 DEF Moves
<1>16. ASSUME NEW g \in Gens, NotifyFence(g) \/ WaitReady(g) PROVE \A h \in Gens : Moves(h)
  <2>1. PICK pc \in {"lock", "wait"} : Goto(g, pc) /\ parse[g].pc \in Asked
    BY <1>16 DEF NotifyFence, WaitReady, At, Asked
  <2>2. Awaits(g)
    BY <1>5, <2>1 DEF Awaits, Asked
  <2> QED
    BY <1>5, <2>1, <2>2 DEF Moves
<1>17. ASSUME NEW g \in Gens, TimeOut(g) PROVE \A h \in Gens : Moves(h)
  BY <1>4, <1>17 DEF TimeOut
<1>18. ASSUME NEW g \in Gens, OpenFetched(g) PROVE \A h \in Gens : Moves(h)
  <2>1. parse[g].node \in 1 .. Len(Doc)
    BY <1>18 DEF OpenFetched, Shape, ParseShape, At
  <2> QED
    BY <1>3, <1>4, <1>18, <2>1 DEF OpenFetched, At
<1>19. ASSUME NEW g \in Gens, EndParse(g) PROVE \A h \in Gens : Moves(h)
  BY <1>0, <1>19 DEF EndParse, Moves
<1>20. ASSUME NEW f \in Fetchers, FetchDone(f) PROVE \A h \in Gens : Moves(h)
  <2> TAKE h \in Gens
  <2>1. CASE parse'[h] = parse[h]
    BY <2>1 DEF Moves
  <2>2. CASE At(h, "wait") /\ parse'[h] = [parse[h] EXCEPT !.pc = "open"]
    <3>1. Awaits(h)
      BY <1>0, <1>1, <2>2 DEF Awaits, Asked, At
    <3> QED
      BY <3>1 DEF Moves
  <2> QED
    BY <1>20, <2>1, <2>2 DEF FetchDone
<1>21. ASSUME Restart PROVE \A h \in Gens : Moves(h)
  BY <1>0, <1>21 DEF Restart, Moves
<1>22. ASSUME UNCHANGED parse PROVE \A h \in Gens : Moves(h)
  BY <1>22 DEF Moves
<1>23. ASSUME NEW f \in Fetchers, FetcherStep(f) PROVE \A h \in Gens : Moves(h)
  BY <1>20, <1>22, <1>23 DEF FetcherStep, FetcherLoop, FetchStart, FetchRaises, FetcherWaits, Interval
<1>24. ASSUME NEW u \in Urls, ServerChanges(u) \/ ServerFails(u) \/ ServerRecovers(u)
       PROVE  \A h \in Gens : Moves(h)
  BY <1>22, <1>24 DEF ServerChanges, ServerFails, ServerRecovers
<1>25. CASE UNCHANGED vars
  BY <1>22, <1>25 DEF vars
<1> QED
  BY <1>11, <1>12, <1>13, <1>14, <1>15, <1>16, <1>17, <1>18, <1>19, <1>21, <1>23, <1>24, <1>25
     DEF Next, ParserStep

\* Every step but one leaves the counters, the newest fetcher and the servers
\* alone.
LEMMA CountersGrow == TypeOK /\ Shape /\ [Next]_vars => Grows /\ ServerShape'
<1> SUFFICES ASSUME TypeOK, Shape, [Next]_vars PROVE Grows /\ ServerShape'
  OBVIOUS
<1>0. /\ parses \in Nat /\ events \in Nat /\ cur \in Nat
      /\ server \in [Urls -> [v : Versions, ok : BOOLEAN]] /\ ServerShape
  BY Constants DEF TypeOK, Shape
<1>1. \A u \in Urls : server[u].v \in Nat
  <2>1. Versions \subseteq Nat
    BY Constants DEF Versions
  <2> QED
    BY <1>0, <2>1
<1>2. ASSUME parses' \in {parses, parses + 1}, cur' \in {cur, cur + 1}, UNCHANGED <<server, events>>
      PROVE  Grows /\ ServerShape'
  BY <1>0, <1>1, <1>2 DEF Grows, ServerShape
<1>3. ASSUME NEW u \in Urls, ServerChanges(u) PROVE Grows /\ ServerShape'
  <2>1. server' = [server EXCEPT ![u] = [server[u] EXCEPT !.v = server[u].v + 1]]
    BY <1>0, <1>3 DEF ServerChanges
  <2>2. server'[u].v = server[u].v + 1 /\ \A w \in Urls : w # u => server'[w] = server[w]
    BY <1>0, <2>1
  <2>3. events' = events + 1 /\ UNCHANGED <<parses, cur>>
    BY <1>3 DEF ServerChanges, mainVars
  <2> QED
    BY <1>0, <1>1, <2>2, <2>3 DEF Grows, ServerShape
<1>4. ASSUME NEW u \in Urls, ServerFails(u) \/ ServerRecovers(u) PROVE Grows /\ ServerShape'
  <2>1. PICK b \in BOOLEAN : server' = [server EXCEPT ![u] = [server[u] EXCEPT !.ok = b]]
    BY <1>0, <1>4 DEF ServerFails, ServerRecovers
  <2>2. \A w \in Urls : server'[w].v = server[w].v
    BY <1>0, <2>1
  <2>3. events' \in {events, events + 1} /\ UNCHANGED <<parses, cur>>
    BY <1>4 DEF ServerFails, ServerRecovers, mainVars
  <2> QED
    BY <1>0, <1>1, <2>2, <2>3 DEF Grows, ServerShape
<1>5. ASSUME NEW g \in Gens, StartParse(g) \/ ParserStep(g) PROVE Grows /\ ServerShape'
  <2>1. UNCHANGED <<server, events>>
    BY <1>5 DEF StartParse, ParserStep, IncludeLocal, IncludeRemote, CreateFetcher, Enqueue,
                NotifyFence, WaitReady, TimeOut, OpenFetched, EndParse, envVars
  <2>2. parses' \in {parses, parses + 1} /\ cur' \in {cur, cur + 1}
    BY <1>5 DEF StartParse, ParserStep, IncludeLocal, IncludeRemote, CreateFetcher, Enqueue,
                NotifyFence, WaitReady, TimeOut, OpenFetched, EndParse, mainVars
  <2> QED
    BY <1>2, <2>1, <2>2
<1>6. ASSUME NEW f \in Fetchers, FetcherStep(f) PROVE Grows /\ ServerShape'
  BY <1>2, <1>6 DEF FetcherStep, FetcherLoop, FetchStart, FetchRaises, FetchDone, FetcherWaits,
                    Interval, mainVars, envVars
<1>7. CASE Restart \/ UNCHANGED vars
  BY <1>2, <1>7 DEF Restart, vars, mainVars, envVars
<1> QED
  BY <1>3, <1>4, <1>5, <1>6, <1>7 DEF Next

-----------------------------------------------------------------------------
(* The shape of a state is kept. *)

\* A fetcher that downloads has something to download.
LEMMA FetchShapeStep == TypeOK /\ Shape /\ [Next]_vars => FetchShape'
<1> SUFFICES ASSUME TypeOK, Shape, [Next]_vars PROVE FetchShape'
  OBVIOUS
<1>0. fetcher \in [Fetchers -> Fetcher] /\ FetchShape /\ cur \in 0 .. MaxFetchers
  BY DEF TypeOK, Fetcher, Shape
<1>1. CASE UNCHANGED fetcher
  BY <1>0, <1>1 DEF FetchShape
<1>2. CASE fetcher' = FenceNotified
  BY <1>0, <1>2, FenceType DEF FetchShape
<1>3. ASSUME NEW g \in Gens, ParseFails(g) PROVE FetchShape'
  BY <1>0, <1>1, <1>3, Constants DEF ParseFails, FetchShape
<1>4. ASSUME NEW g \in Gens, CreateFetcher(g) PROVE FetchShape'
  <2>1. fetcher' = [fetcher EXCEPT ![cur + 1].pc = "loop", ![cur + 1].flag = parse[g].flag]
    BY <1>4 DEF CreateFetcher
  <2>2. \A f \in Fetchers : fetcher'[f] = fetcher[f] \/ fetcher'[f].pc = "loop"
    BY <1>0, <2>1 DEF Fetcher
  <2> QED
    BY <1>0, <2>2 DEF FetchShape
<1>5. ASSUME NEW f \in Fetchers, FetcherStep(f) PROVE FetchShape'
  <2>1. \A e \in Fetchers : e # f => fetcher'[e] = fetcher[e]
    BY <1>0, <1>5 DEF FetcherStep, FetcherLoop, FetchStart, FetchRaises, FetchDone, FetcherWaits,
                      Interval
  <2>2. fetcher'[f].pc = "fetch" => fetcher'[f].todo # <<>>
    <3>1. CASE FetcherLoop(f)
      <4>1. [fetcher[f] EXCEPT !.pc = "next", !.todo = workload].pc = "next"
        BY <1>0 DEF Fetcher
      <4> QED
        BY <1>0, <3>1, <4>1, Constants DEF FetcherLoop
    <3>2. CASE FetchStart(f)
      BY <1>0, <3>2 DEF FetchStart, Fetcher
    <3>3. CASE FetchRaises(f) \/ FetchDone(f) \/ FetcherWaits(f) \/ Interval(f)
      BY <1>0, <3>3 DEF FetchRaises, FetchDone, FetcherWaits, Interval, Fetcher
    <3> QED
      BY <1>5, <3>1, <3>2, <3>3 DEF FetcherStep
  <2> QED
    BY <1>0, <2>1, <2>2 DEF FetchShape
<1>6. ASSUME NEW g \in Gens, StartParse(g) \/ ParserStep(g) PROVE FetchShape'
  BY <1>1, <1>2, <1>3, <1>4, <1>6
     DEF StartParse, ParserStep, IncludeLocal, IncludeRemote, Enqueue, NotifyFence, WaitReady,
         TimeOut, OpenFetched, EndParse
<1>7. CASE Restart
  BY <1>1, <1>2, <1>7 DEF Restart, cleanup
<1>8. ASSUME NEW u \in Urls, ServerChanges(u) \/ ServerFails(u) \/ ServerRecovers(u)
      PROVE  FetchShape'
  BY <1>1, <1>8 DEF ServerChanges, ServerFails, ServerRecovers
<1>9. CASE UNCHANGED vars
  BY <1>1, <1>9 DEF vars
<1> QED
  BY <1>5, <1>6, <1>7, <1>8, <1>9 DEF Next

\* The parsers' types, before and after a step.
LEMMA ParseTypes ==
    ASSUME TypeOK, Shape, [Next]_vars
    PROVE  parse \in [Gens -> Parser] /\ parses \in Nat /\ parses' \in Nat
<1>1. TypeOK'
  BY TypeStep
<1>2. parse \in [Gens -> Parser] /\ parses \in 0 .. MaxParses
  BY DEF TypeOK, Parser
<1>3. parses' \in 0 .. MaxParses
  BY <1>1 DEF TypeOK
<1>4. MaxParses \in Nat
  BY Constants
<1> QED
  BY <1>2, <1>3, <1>4

\* Parsers keep their shape and their numbers apart.
LEMMA ShapeStep == TypeOK /\ Shape /\ [Next]_vars => Shape'
<1> SUFFICES ASSUME TypeOK, Shape, [Next]_vars PROVE Shape'
  OBVIOUS
<1>0. /\ parse \in [Gens -> Parser] /\ parses \in Nat /\ parses' \in Nat
      /\ ParseShape /\ ParsesApart
  BY ParseTypes DEF Shape
<1>1. \A g \in Gens : parse[g].n \in Nat /\ parse[g].node \in Nat
  BY <1>0, Constants DEF Parser
<1>2. Grows /\ ServerShape' /\ (\A g \in Gens : Moves(g)) /\ FetchShape'
  BY CountersGrow, ParserMoves, FetchShapeStep
<1>3. ParseShape'
  <2> SUFFICES ASSUME NEW g \in Gens
               PROVE  /\ ~At(g, "idle")' => /\ parse'[g].n \in 1 .. parses'
                                            /\ parse'[g].node \in 1 .. Len(Doc) + 1
                      /\ ~At(g, "idle")' /\ ~At(g, "node")' =>
                             parse'[g].node \in 1 .. Len(Doc) /\ Node(g)' \in Urls
                      /\ At(g, "enqueue")' => cur' # 0
                      /\ parse'[g].pc \in Asked => parse'[g].dir \in Fetchers
    BY DEF ParseShape
  <2>0. parses' >= parses /\ (cur # 0 => cur' # 0)
    BY <1>2 DEF Grows
  <2>1. CASE parse'[g] = parse[g]
    <3>1. Node(g)' = Node(g)
      BY <2>1 DEF Node
    <3> QED
      BY <1>0, <1>1, <2>0, <2>1, <3>1 DEF ParseShape, At
  <2>2. CASE parse'[g] = IdleParse
    BY <2>2, Constants DEF At, Asked
  <2>3. CASE Starts(g)
    BY <1>0, <2>3, Constants DEF Starts, At, Asked
  <2>4. CASE Advances(g)
    <3>1. parse[g].n \in 1 .. parses
      BY <1>0, <2>4 DEF Advances, ParseShape, At
    <3> QED
      BY <1>0, <2>0, <2>4, <3>1, Constants DEF Advances, At, Asked
  <2>5. CASE Prepares(g)
    <3>1. parse[g].n \in 1 .. parses
      BY <1>0, <2>5 DEF Prepares, ParseShape, At
    <3>2. Node(g)' = Node(g)
      BY <2>5 DEF Prepares, Node
    <3> QED
      BY <1>0, <2>0, <2>5, <3>1, <3>2, Constants DEF Prepares, At, Asked
  <2>6. CASE Sends(g) \/ Awaits(g)
    <3>1. /\ parse[g].n \in 1 .. parses /\ parse[g].node \in 1 .. Len(Doc) /\ Node(g) \in Urls
          /\ parse[g].pc \in Asked => parse[g].dir \in Fetchers
      BY <1>0, <2>6 DEF Sends, Awaits, ParseShape, At, Asked
    <3>2. Node(g)' = Node(g)
      BY <2>6 DEF Sends, Awaits, Node
    <3> QED
      BY <1>0, <2>0, <2>6, <3>1, <3>2, Constants DEF Sends, Awaits, At, Asked
  <2> QED
    BY <1>2, <2>1, <2>2, <2>3, <2>4, <2>5, <2>6 DEF Moves
<1>4. ParsesApart'
  <2>1. \A g \in Gens : ~At(g, "idle")' =>
            \/ ~At(g, "idle") /\ parse'[g].n = parse[g].n
            \/ Starts(g)
    BY <1>2, Constants DEF Moves, Advances, Prepares, Sends, Awaits, Asked, At
  <2>2. \A g, h \in Gens : Starts(g) /\ g # h /\ ~At(h, "idle")' =>
            parse'[g].n = parses + 1 /\ parse'[h].n \in 1 .. parses
    BY <1>0 DEF Starts, ParseShape, At
  <2> SUFFICES ASSUME NEW g \in Gens, NEW h \in Gens, g # h, ~At(g, "idle")', ~At(h, "idle")'
               PROVE  parse'[g].n # parse'[h].n
    BY DEF ParsesApart
  <2> QED
    BY <1>0, <2>1, <2>2 DEF ParsesApart
<1> QED
  BY <1>2, <1>3, <1>4 DEF Shape

\* Type correctness: RemoteFetch never leaves its types.  No request names a
\* local file or a fetcher that was not made, no download starts without one,
\* and no table is indexed outside of it.
THEOREM TypeCorrect == Spec => []TypeOK
<1>1. Init => TypeOK /\ Shape
  BY InitInv
<1>2. TypeOK /\ Shape /\ [Next]_vars => (TypeOK /\ Shape)'
  BY TypeStep, ShapeStep
<1> QED
  BY <1>1, <1>2, PTL DEF Spec

-----------------------------------------------------------------------------
(* What a step may do to fetchers and files. *)

\* A download goes on, begins or is over; the requests of a round come from the
\* workload; and a fetcher is made by CreateFetcher only.
LEMMA FetcherMoves ==
    ASSUME TypeOK, Shape, [Next]_vars
    PROVE  /\ \A f \in Fetchers : \/ fetcher'[f] = fetcher[f] \/ fetcher'[f].pc # "fetch"
                                  \/ FetchStart(f)
           /\ \A f \in Fetchers : \A i \in 1 .. Len(fetcher'[f].todo) :
                  \/ \E j \in 1 .. Len(fetcher[f].todo) : fetcher'[f].todo[i] = fetcher[f].todo[j]
                  \/ \E j \in 1 .. Len(workload) : fetcher'[f].todo[i] = workload[j]
           /\ \/ /\ rivals' = rivals
                 /\ \A f \in Fetchers : fetcher'[f].pc # "dead" => fetcher[f].pc # "dead"
              \/ /\ rivals' = (rivals \/ \E f \in Fetchers : fetcher[f].pc # "dead")
                 /\ \E c : \A f \in Fetchers : f # c => fetcher'[f] = fetcher[f]
<1> DEFINE A(f) == \/ fetcher'[f] = fetcher[f] \/ fetcher'[f].pc # "fetch"
                   \/ FetchStart(f)
           B(f) == \A i \in 1 .. Len(fetcher'[f].todo) :
                  \/ \E j \in 1 .. Len(fetcher[f].todo) : fetcher'[f].todo[i] = fetcher[f].todo[j]
                  \/ \E j \in 1 .. Len(workload) : fetcher'[f].todo[i] = workload[j]
           C == \/ /\ rivals' = rivals
                   /\ \A f \in Fetchers : fetcher'[f].pc # "dead" => fetcher[f].pc # "dead"
                \/ /\ rivals' = (rivals \/ \E f \in Fetchers : fetcher[f].pc # "dead")
                   /\ \E c : \A f \in Fetchers : f # c => fetcher'[f] = fetcher[f]
           G == (\A f \in Fetchers : A(f) /\ B(f)) /\ C
<1> SUFFICES G
  OBVIOUS
<1>0. fetcher \in [Fetchers -> Fetcher] /\ cur \in 0 .. MaxFetchers /\ workload \in Seq(Request)
  BY DEF TypeOK, Fetcher
<1>1. CASE UNCHANGED <<fetcher, rivals>>
  BY <1>1
<1>2. ASSUME fetcher' = FenceNotified, UNCHANGED rivals PROVE G
  BY <1>2, FenceType
<1>3. ASSUME fetcher' = [f \in Fetchers |-> DeadFetcher], UNCHANGED rivals PROVE G
  <2>1. \A f \in Fetchers : fetcher'[f].pc = "dead" /\ Len(fetcher'[f].todo) = 0
    BY <1>3, Constants
  <2> QED
    BY <1>3, <2>1
<1>4. ASSUME NEW g \in Gens, CreateFetcher(g) PROVE G
  <2>1. /\ fetcher' = [fetcher EXCEPT ![cur + 1].pc = "loop", ![cur + 1].flag = parse[g].flag]
        /\ rivals' = (rivals \/ \E f \in Fetchers : fetcher[f].pc # "dead")
    BY <1>4 DEF CreateFetcher
  <2>2. /\ \A f \in Fetchers : f # cur + 1 => fetcher'[f] = fetcher[f]
        /\ \A f \in Fetchers : f = cur + 1 => fetcher'[f].pc = "loop" /\ fetcher'[f].todo = fetcher[f].todo
    BY <1>0, <2>1 DEF Fetcher
  <2>3. \A f \in Fetchers : A(f)
    BY <2>2
  <2>4. \A f \in Fetchers : fetcher'[f].todo = fetcher[f].todo
    BY <2>2
  <2>5. \A f \in Fetchers : B(f)
    BY <2>4
  <2>6. C
    BY <2>1, <2>2
  <2> QED
    BY <2>3, <2>5, <2>6
<1>5. ASSUME NEW f \in Fetchers, FetcherStep(f) PROVE G
  <2>1. rivals' = rivals /\ fetcher[f].pc # "dead"
    BY <1>5 DEF FetcherStep, FetcherLoop, FetchStart, FetchRaises, FetchDone, FetcherWaits,
                Interval, histVars
  <2>2. \A e \in Fetchers : e # f => fetcher'[e] = fetcher[e]
    BY <1>0, <1>5 DEF FetcherStep, FetcherLoop, FetchStart, FetchRaises, FetchDone, FetcherWaits,
                      Interval
  <2>3. A(f) /\ B(f)
    <3>1. CASE FetcherLoop(f)
      <4>1. CASE fetcher'[f] = DeadFetcher
        <5>1. fetcher'[f].pc = "dead" /\ Len(fetcher'[f].todo) = 0
          BY <4>1, Constants
        <5> QED
          BY <5>1
      <4>2. CASE fetcher'[f] = [fetcher[f] EXCEPT !.pc = "next", !.todo = workload]
        <5>1. fetcher'[f].pc = "next" /\ fetcher'[f].todo = workload
          BY <1>0, <4>2 DEF Fetcher
        <5> QED
          BY <5>1
      <4> QED
        BY <1>0, <3>1, <4>1, <4>2 DEF FetcherLoop
    <3>2. CASE FetchStart(f)
      <4>1. fetcher'[f].todo = fetcher[f].todo
        BY <1>0, <3>2 DEF FetchStart, Fetcher
      <4> QED
        BY <3>2, <4>1
    <3>3. CASE FetchRaises(f)
      <4>1. fetcher'[f].pc = "loop" /\ fetcher'[f].todo = <<>>
        BY <1>0, <3>3 DEF FetchRaises, Fetcher
      <4> QED
        BY <4>1
    <3>4. CASE FetchDone(f)
      <4>1. fetcher'[f].pc = "next" /\ fetcher'[f].todo = Tail(fetcher[f].todo)
        BY <1>0, <3>4 DEF FetchDone, Fetcher
      <4>2. fetcher[f].todo \in Seq(Request) /\ fetcher[f].todo # <<>>
        BY <1>0, <3>4 DEF FetchDone, Fetcher, Shape, FetchShape
      <4> DEFINE q == fetcher[f].todo
      <4>3. q \in Seq(Request) /\ q # <<>> /\ fetcher'[f].todo = Tail(q)
        BY <4>1, <4>2
      <4> HIDE DEF q
      <4>4. \A i \in 1 .. Len(Tail(q)) : i + 1 \in 1 .. Len(q) /\ Tail(q)[i] = q[i + 1]
        BY <4>3
      <4>5. \A i \in 1 .. Len(fetcher'[f].todo) : \E j \in 1 .. Len(q) : fetcher'[f].todo[i] = q[j]
        BY <4>3, <4>4
      <4> QED
        BY <4>1, <4>5 DEF q
    <3>5. CASE FetcherWaits(f) \/ Interval(f)
      <4>1. fetcher'[f].pc # "fetch" /\ fetcher'[f].todo = fetcher[f].todo
        BY <1>0, <3>5 DEF FetcherWaits, Interval, Fetcher
      <4> QED
        BY <4>1
    <3> QED
      BY <1>5, <3>1, <3>2, <3>3, <3>4, <3>5 DEF FetcherStep
  <2>4. \A e \in Fetchers : A(e) /\ B(e)
    BY <2>2, <2>3
  <2>5. C
    BY <2>1, <2>2
  <2> QED
    BY <2>4, <2>5
<1>6. ASSUME NEW g \in Gens, StartParse(g) \/ ParserStep(g) PROVE G
  <2>1. \/ UNCHANGED <<fetcher, rivals>>
        \/ fetcher' = FenceNotified /\ UNCHANGED rivals
        \/ fetcher' = [f \in Fetchers |-> DeadFetcher] /\ UNCHANGED rivals
        \/ CreateFetcher(g)
    BY <1>6 DEF StartParse, ParserStep, IncludeLocal, IncludeRemote, Enqueue, NotifyFence,
                WaitReady, TimeOut, OpenFetched, EndParse, ParseFails, histVars
  <2> HIDE DEF G
  <2> QED
    BY <1>1, <1>2, <1>3, <1>4, <2>1
<1>7. CASE Restart
  <2>1. \/ UNCHANGED <<fetcher, rivals>>
        \/ fetcher' = FenceNotified /\ UNCHANGED rivals
    BY <1>7 DEF Restart, cleanup
  <2> HIDE DEF G
  <2> QED
    BY <1>1, <1>2, <2>1
<1>8. ASSUME NEW u \in Urls, ServerChanges(u) \/ ServerFails(u) \/ ServerRecovers(u)
      PROVE  G
  <2>1. UNCHANGED <<fetcher, rivals>>
    BY <1>8 DEF ServerChanges, ServerFails, ServerRecovers, histVars
  <2> HIDE DEF G
  <2> QED
    BY <1>1, <2>1
<1>9. CASE UNCHANGED vars
  <2>1. UNCHANGED <<fetcher, rivals>>
    BY <1>9 DEF vars, histVars
  <2> HIDE DEF G
  <2> QED
    BY <1>1, <2>1
<1> HIDE DEF G
<1> QED
  BY <1>5, <1>6, <1>7, <1>8, <1>9 DEF Next

\* Only the end of a download writes a file or lets a parser open it.
LEMMA DiskMoves ==
    ASSUME TypeOK, Shape, [Next]_vars
    PROVE  \/ \E f \in Fetchers : FetchDone(f)
           \/ /\ \A d \in Fetchers, u \in Urls : file'[d][u] \in {0, file[d][u]}
              /\ \A g \in Gens : At(g, "open")' => parse'[g] = parse[g]
<1> DEFINE D == \A d \in Fetchers, u \in Urls : file'[d][u] \in {0, file[d][u]}
           P == \A g \in Gens : At(g, "open")' => parse'[g] = parse[g]
<1>0. parse \in [Gens -> Parser] /\ IdleParse.pc = "idle"
  BY Constants DEF TypeOK, Parser
<1>1. ASSUME UNCHANGED file PROVE D
  BY <1>1
<1>2. ASSUME UNCHANGED parse PROVE P
  BY <1>2
<1>3. ASSUME NEW g \in Gens, NEW x, parse' = [parse EXCEPT ![g] = x], x.pc # "open" PROVE P
  <2>1. parse'[g] = x /\ \A h \in Gens : h # g => parse'[h] = parse[h]
    BY <1>0, <1>3
  <2> QED
    BY <1>3, <2>1 DEF At
<1>4. ASSUME NEW g \in Gens, NEW pc, Goto(g, pc), pc # "open" PROVE P
  <2>1. parse' = [parse EXCEPT ![g] = [parse[g] EXCEPT !.pc = pc]]
    BY <1>0, <1>4 DEF Goto
  <2>2. [parse[g] EXCEPT !.pc = pc].pc = pc
    BY <1>0 DEF Parser
  <2> QED
    BY <1>3, <1>4, <2>1, <2>2
<1>5. ASSUME NEW g \in Gens, Included(g) \/ ParseFails(g) PROVE P
  <2>1. CASE Included(g)
    <3> DEFINE x == [IdleParse EXCEPT !.pc = "node", !.n = parse[g].n, !.node = parse[g].node + 1]
    <3>1. parse' = [parse EXCEPT ![g] = x] /\ x.pc # "open"
      BY <2>1 DEF Included, IdleParse
    <3> HIDE DEF x
    <3> QED
      BY <1>3, <3>1
  <2>2. CASE ParseFails(g)
    BY <1>0, <1>3, <2>2 DEF ParseFails, At
  <2> QED
    BY <1>5, <2>1, <2>2
<1>6. ASSUME NEW g \in Gens, StartParse(g) \/ ParserStep(g) PROVE D /\ P
  <2>1. UNCHANGED file
    BY <1>6 DEF StartParse, ParserStep, IncludeLocal, IncludeRemote, CreateFetcher, Enqueue,
                NotifyFence, WaitReady, TimeOut, OpenFetched, EndParse, diskVars
  <2>2. CASE StartParse(g)
    <3> DEFINE x == [IdleParse EXCEPT !.pc = "node", !.n = parses + 1, !.node = 1]
    <3>1. parse' = [parse EXCEPT ![g] = x] /\ x.pc # "open"
      BY <2>2 DEF StartParse, IdleParse
    <3> HIDE DEF x
    <3> QED
      BY <1>1, <1>3, <2>1, <3>1
  <2>3. CASE IncludeRemote(g)
    <3>1. PICK pc \in {"create", "enqueue"} :
              parse' = [parse EXCEPT ![g] = [parse[g] EXCEPT !.flag = handler, !.pc = pc]]
      BY <1>0, <2>3 DEF IncludeRemote
    <3>2. [parse[g] EXCEPT !.flag = handler, !.pc = pc].pc # "open"
      BY <1>0 DEF Parser
    <3> QED
      BY <1>1, <1>3, <2>1, <3>1, <3>2
  <2>4. CASE Enqueue(g)
    <3> DEFINE v == server[Node(g)].v
               x == [parse[g] EXCEPT !.pc = "notify", !.dir = cur, !.asked = v]
    <3>1. parse' = [parse EXCEPT ![g] = x]
      BY <1>0, <2>4 DEF Enqueue
    <3>2. x.pc # "open"
      <4> HIDE DEF v
      <4> QED
        BY <1>0 DEF Parser
    <3> HIDE DEF x
    <3> QED
      BY <1>1, <1>3, <2>1, <3>1, <3>2
  <2>5. CASE EndParse(g)
    <3>1. parse' = [parse EXCEPT ![g] = IdleParse]
      BY <2>5 DEF EndParse
    <3> QED
      BY <1>0, <1>1, <1>3, <2>1, <3>1
  <2>6. CASE CreateFetcher(g) \/ NotifyFence(g) \/ WaitReady(g)
    <3>1. PICK pc \in {"enqueue", "lock", "wait"} : Goto(g, pc)
      BY <2>6 DEF CreateFetcher, NotifyFence, WaitReady
    <3> QED
      BY <1>1, <1>4, <2>1, <3>1
  <2>7. CASE IncludeLocal(g) \/ TimeOut(g) \/ OpenFetched(g)
    <3>1. Included(g) \/ ParseFails(g)
      BY <2>7 DEF IncludeLocal, TimeOut, OpenFetched
    <3> QED
      BY <1>1, <1>5, <2>1, <3>1
  <2> QED
    BY <1>6, <2>2, <2>3, <2>4, <2>5, <2>6, <2>7 DEF ParserStep
<1>7. ASSUME NEW f \in Fetchers, FetcherStep(f) PROVE FetchDone(f) \/ (D /\ P)
  <2>1. FetchDone(f) \/ UNCHANGED <<file, parse>>
    BY <1>7 DEF FetcherStep, FetcherLoop, FetchStart, FetchRaises, FetcherWaits, Interval, diskVars
  <2> QED
    BY <1>1, <1>2, <2>1
<1>8. CASE Restart
  <2>1. D
    <3>1. CASE UNCHANGED file
      BY <1>1, <3>1
    <3>2. CASE cleanup
      BY <3>2 DEF cleanup
    <3> QED
      BY <1>8, <3>1, <3>2 DEF Restart
  <2>2. P
    <3>1. CASE UNCHANGED parse
      BY <1>2, <3>1
    <3>2. CASE parse' = [parse EXCEPT ![gen] = IdleParse]
      BY <1>0, <1>3, <3>2 DEF TypeOK
    <3> QED
      BY <1>8, <3>1, <3>2 DEF Restart
  <2> QED
    BY <2>1, <2>2
<1>9. ASSUME UNCHANGED <<file, parse>> PROVE D /\ P
  BY <1>1, <1>2, <1>9
<1>10. ASSUME NEW u \in Urls, ServerChanges(u) \/ ServerFails(u) \/ ServerRecovers(u) PROVE D /\ P
  BY <1>9, <1>10 DEF ServerChanges, ServerFails, ServerRecovers, diskVars
<1>11. CASE UNCHANGED vars
  BY <1>9, <1>11 DEF vars, diskVars
<1> QED
  BY <1>6, <1>7, <1>8, <1>10, <1>11 DEF Next

-----------------------------------------------------------------------------
(* Requests and parsers. *)

\* A known request stays known: its parse goes on to later nodes only, and a
\* later parse has another number.
LEMMA KnownKept ==
    ASSUME TypeOK, Shape, [Next]_vars
    PROVE  \A r \in Request : Known(r) => Known(r)'
<1> SUFFICES ASSUME NEW r \in Request, Known(r) PROVE Known(r)'
  OBVIOUS
<1>0. parse \in [Gens -> Parser] /\ parses \in Nat /\ parses' \in Nat
  BY ParseTypes
<1>1. \A g \in Gens : parse[g].n \in Nat /\ parse[g].node \in Nat
  BY <1>0, Constants DEF Parser
<1>2. Grows /\ (\A g \in Gens : Moves(g)) /\ ParseShape
  BY CountersGrow, ParserMoves DEF Shape
<1>3. r.ready[1] \in Nat /\ r.ready[2] \in Nat /\ r.ready[1] <= parses
  BY Constants DEF Request, Ready, Known
<1>4. r.ready[1] <= parses'
  BY <1>0, <1>2, <1>3 DEF Grows
<1>5. ASSUME NEW g \in Gens, ~At(g, "idle")', r.ready[1] = parse'[g].n
      PROVE  \/ r.ready[2] < parse'[g].node
             \/ /\ r.ready[2] = parse'[g].node /\ parse'[g].pc \in Asked
                /\ r.url = Node(g)' /\ r.dir = parse'[g].dir
  <2>0. ~At(g, "idle") /\ r.ready[1] = parse[g].n =>
            \/ r.ready[2] < parse[g].node
            \/ /\ r.ready[2] = parse[g].node /\ parse[g].pc \in Asked
               /\ r.url = Node(g) /\ r.dir = parse[g].dir
    BY DEF Known
  <2>1. CASE parse'[g] = parse[g]
    <3>1. Node(g)' = Node(g)
      BY <2>1 DEF Node
    <3> QED
      BY <1>5, <2>0, <2>1, <3>1 DEF At
  <2>2. CASE parse'[g] = IdleParse
    BY <1>5, <2>2, Constants DEF At
  <2>3. CASE Starts(g)
    BY <1>0, <1>3, <1>5, <2>3 DEF Starts
  <2>4. CASE Advances(g)
    <3>1. ~At(g, "idle") /\ r.ready[1] = parse[g].n /\ parse'[g].node = parse[g].node + 1
      BY <1>5, <2>4 DEF Advances, At
    <3> QED
      BY <1>1, <1>3, <2>0, <3>1
  <2>5. CASE Prepares(g) \/ Sends(g)
    <3>1. /\ ~At(g, "idle") /\ r.ready[1] = parse[g].n /\ parse'[g].node = parse[g].node
          /\ parse[g].pc \notin Asked
      BY <1>5, <2>5 DEF Prepares, Sends, At, Asked
    <3> QED
      BY <2>0, <3>1
  <2>6. CASE Awaits(g)
    <3>1. /\ ~At(g, "idle") /\ r.ready[1] = parse[g].n /\ parse'[g].node = parse[g].node
          /\ Node(g)' = Node(g) /\ parse'[g].dir = parse[g].dir /\ parse'[g].pc \in Asked
      BY <1>5, <2>6 DEF Awaits, At, Asked, Node
    <3> QED
      BY <2>0, <3>1
  <2> QED
    BY <1>2, <2>1, <2>2, <2>3, <2>4, <2>5, <2>6 DEF Moves
<1> QED
  BY <1>4, <1>5 DEF Known

\* So is the request a parser sends.
LEMMA SentKnown ==
    ASSUME TypeOK, Shape, NEW g \in Gens, Enqueue(g), [Next]_vars
    PROVE  \E r \in Request : r = [url |-> Node(g), dir |-> cur, ready |-> ReadyOf(g)] /\ Known(r)'
<1>0. parse \in [Gens -> Parser] /\ parses \in Nat /\ parses' \in Nat /\ Shape'
  <2>1. TypeOK' /\ Shape'
    BY TypeStep, ShapeStep
  <2> QED
    BY <2>1, Constants DEF TypeOK, Parser
<1>1. /\ cur # 0 /\ Node(g) \in Urls /\ parse[g].node \in 1 .. Len(Doc) /\ parse[g].n \in 1 .. parses
  BY DEF Enqueue, Shape, ParseShape, At
<1>2. cur \in Fetchers /\ parse[g].n \in 1 .. MaxParses
  BY <1>1, Constants DEF TypeOK, Fetchers
<1>3. PICK r : r = [url |-> Node(g), dir |-> cur, ready |-> ReadyOf(g)]
  OBVIOUS
<1>4. r \in Request
  BY <1>1, <1>2, <1>3 DEF Request, Ready, ReadyOf
<1>5. r.url = Node(g) /\ r.dir = cur /\ r.ready[1] = parse[g].n /\ r.ready[2] = parse[g].node
  BY <1>3 DEF ReadyOf
<1> DEFINE v == server[Node(g)].v
<1>6. parse' = [parse EXCEPT ![g] = [parse[g] EXCEPT !.pc = "notify", !.dir = cur, !.asked = v]]
  BY <1>0 DEF Enqueue
<1> HIDE DEF v
<1>7. /\ parse'[g].pc = "notify" /\ parse'[g].n = parse[g].n /\ parse'[g].node = parse[g].node
      /\ parse'[g].dir = cur
  BY <1>0, <1>6 DEF Parser
<1>8. Node(g)' = Node(g)
  BY <1>7 DEF Node
<1>9. r.ready[1] <= parses'
  <2>1. parses' = parses
    BY DEF Enqueue, mainVars
  <2> QED
    BY <1>0, <1>1, <1>5, <2>1
<1>10. ASSUME NEW h \in Gens, ~At(h, "idle")', r.ready[1] = parse'[h].n PROVE h = g
  BY <1>0, <1>5, <1>7, <1>10 DEF Shape, ParsesApart, At
<1>11. Known(r)'
  BY <1>5, <1>7, <1>8, <1>9, <1>10 DEF Known, Asked
<1> QED
  BY <1>3, <1>4, <1>11

\* The workload changes when a parser asks for a URL, and at a cleanup.
LEMMA WorkloadMoves ==
    ASSUME TypeOK, Shape, [Next]_vars
    PROVE  \A i \in 1 .. Len(workload') :
               \/ \E j \in 1 .. Len(workload) : workload'[i] = workload[j]
               \/ \E g \in Gens : /\ Enqueue(g)
                                  /\ workload'[i] = [url |-> Node(g), dir |-> cur, ready |-> ReadyOf(g)]
<1>1. CASE UNCHANGED workload
  BY <1>1
<1>2. CASE workload' = <<>>
  BY <1>2
<1>3. ASSUME NEW g \in Gens, Enqueue(g)
      PROVE  \A i \in 1 .. Len(workload') :
               \/ \E j \in 1 .. Len(workload) : workload'[i] = workload[j]
               \/ \E h \in Gens : /\ Enqueue(h)
                                  /\ workload'[i] = [url |-> Node(h), dir |-> cur, ready |-> ReadyOf(h)]
  <2> DEFINE r == [url |-> Node(g), dir |-> cur, ready |-> ReadyOf(g)]
  <2>1. r \in Request
    BY <1>3, SentKnown
  <2>2. workload' = Put(workload, r) /\ workload \in Seq(Request)
    BY <1>3 DEF Enqueue, TypeOK
  <2>3. \A i \in 1 .. Len(workload') :
            workload'[i] = r \/ \E j \in 1 .. Len(workload) : workload'[i] = workload[j]
    <3> HIDE DEF r
    <3> QED
      BY <2>1, <2>2, PutType
  <2> QED
    BY <1>3, <2>3
<1>4. \/ UNCHANGED workload \/ workload' = <<>> \/ \E g \in Gens : Enqueue(g)
  BY DEF Next, StartParse, ParserStep, IncludeLocal, IncludeRemote, CreateFetcher,
         NotifyFence, WaitReady, TimeOut, OpenFetched, EndParse, FetcherStep, FetcherLoop,
         FetchStart, FetchRaises, FetchDone, FetcherWaits, Interval, Restart, cleanup,
         ServerChanges, ServerFails, ServerRecovers, vars
<1> QED
  BY <1>1, <1>2, <1>3, <1>4

\* Every request on its way stays known.
LEMMA RequestsKnownStep ==
    ASSUME TypeOK, Shape, RequestsKnown, [Next]_vars PROVE RequestsKnown'
<1>0. workload \in Seq(Request) /\ \A f \in Fetchers : fetcher[f].todo \in Seq(Request)
  <2>1. fetcher \in [Fetchers -> Fetcher] /\ workload \in Seq(Request)
    BY DEF TypeOK, Fetcher
  <2> QED
    BY <2>1 DEF Fetcher
<1>1. \A i \in 1 .. Len(workload) : workload[i] \in Request /\ Known(workload[i])
  BY <1>0 DEF RequestsKnown
<1>2. \A f \in Fetchers : \A i \in 1 .. Len(fetcher[f].todo) :
          fetcher[f].todo[i] \in Request /\ Known(fetcher[f].todo[i])
  BY <1>0 DEF RequestsKnown
<1>3. ASSUME NEW i \in 1 .. Len(workload') PROVE \E r \in Request : r = workload'[i] /\ Known(r)'
  <2>1. CASE \E j \in 1 .. Len(workload) : workload'[i] = workload[j]
    BY <1>1, <2>1, KnownKept
  <2>2. CASE \E g \in Gens : /\ Enqueue(g)
                             /\ workload'[i] = [url |-> Node(g), dir |-> cur, ready |-> ReadyOf(g)]
    BY <2>2, SentKnown
  <2> QED
    BY <2>1, <2>2, WorkloadMoves
<1>4. ASSUME NEW f \in Fetchers, NEW i \in 1 .. Len(fetcher'[f].todo)
      PROVE  \E r \in Request : r = fetcher'[f].todo[i] /\ Known(r)'
  BY <1>1, <1>2, KnownKept, FetcherMoves
<1>5. \A i \in 1 .. Len(workload') : Known(workload[i])'
  <2> TAKE i \in 1 .. Len(workload')
  <2>1. PICK r \in Request : r = workload'[i] /\ Known(r)'
    BY <1>3
  <2> QED
    BY <2>1 DEF Known
<1>6. \A f \in Fetchers : \A i \in 1 .. Len(fetcher'[f].todo) : Known(fetcher[f].todo[i])'
  <2> TAKE f \in Fetchers
  <2> TAKE i \in 1 .. Len(fetcher'[f].todo)
  <2>1. PICK r \in Request : r = fetcher'[f].todo[i] /\ Known(r)'
    BY <1>4
  <2> QED
    BY <2>1 DEF Known
<1> QED
  BY <1>5, <1>6 DEF RequestsKnown

-----------------------------------------------------------------------------
(* Freshness. *)

\* Versions are numbers.
LEMMA VersionsAreNumbers ==
    ASSUME TypeOK
    PROVE  /\ \A u \in Urls : server[u].v \in Nat
           /\ \A g \in Gens : parse[g].asked \in Nat
           /\ \A f \in Fetchers : fetcher[f].got \in Nat /\ fetcher[f].old \in Nat
           /\ \A d \in Fetchers, u \in Urls : file[d][u] \in Nat
<1>0. /\ server \in [Urls -> [v : Versions, ok : BOOLEAN]] /\ parse \in [Gens -> Parser]
      /\ fetcher \in [Fetchers -> Fetcher]
      /\ file \in [Fetchers -> [Urls -> Versions \cup {0}]]
  BY DEF TypeOK, Parser, Fetcher
<1>1. \A x \in Versions \cup {0} : x \in Nat
  BY Constants DEF Versions
<1>2. (\A u \in Urls : server[u].v \in Nat) /\ \A d \in Fetchers, u \in Urls : file[d][u] \in Nat
  <2>1. /\ \A u \in Urls : server[u].v \in Versions \cup {0}
        /\ \A d \in Fetchers, u \in Urls : file[d][u] \in Versions \cup {0}
    BY <1>0
  <2> QED
    BY <1>1, <2>1
<1>3. \A g \in Gens : parse[g].asked \in Nat
  <2>1. \A g \in Gens : parse[g].asked \in Versions \cup {0}
    BY <1>0 DEF Parser
  <2> QED
    BY <1>1, <2>1
<1>4. \A f \in Fetchers : fetcher[f].got \in Nat /\ fetcher[f].old \in Nat
  <2>1. \A f \in Fetchers : fetcher[f].got \in Versions \cup {0} /\ fetcher[f].old \in Versions \cup {0}
    BY <1>0 DEF Fetcher
  <2> QED
    BY <1>1, <2>1
<1> QED
  BY <1>2, <1>3, <1>4

\* What a parser asked for was published when it asked.
LEMMA AskedPublishedStep ==
    ASSUME TypeOK, Shape, AskedPublished, [Next]_vars PROVE AskedPublished'
<1>1. Versions \subseteq Nat
  BY Constants DEF Versions
<1>2. (\A u \in Urls : server[u].v \in Nat) /\ \A g \in Gens : parse[g].asked \in Nat
  BY VersionsAreNumbers
<1>3. (\A u \in Urls : server'[u].v \in Nat)
  <2>1. server' \in [Urls -> [v : Versions, ok : BOOLEAN]]
    BY TypeStep DEF TypeOK
  <2> QED
    BY <1>1, <2>1
<1>4. Grows /\ (\A g \in Gens : Moves(g)) /\ ParseShape
  BY CountersGrow, ParserMoves DEF Shape
<1> SUFFICES ASSUME NEW g \in Gens, parse'[g].pc \in Asked
             PROVE  parse'[g].asked <= server'[Node(g)'].v
  BY DEF AskedPublished
<1>5. \/ parse'[g] = parse[g] \/ Awaits(g) \/ Sends(g)
  BY <1>4, Constants DEF Moves, Starts, Advances, Prepares, Asked
<1>6. ~At(g, "idle") /\ ~At(g, "node") /\ Node(g)' = Node(g)
  BY <1>5 DEF Awaits, Sends, At, Asked, Node
<1>7. Node(g) \in Urls
  BY <1>4, <1>6 DEF ParseShape
<1>8. CASE parse'[g] = parse[g] \/ Awaits(g)
  <2>1. parse'[g].asked = parse[g].asked /\ parse[g].asked <= server[Node(g)].v
    BY <1>8 DEF Awaits, AskedPublished
  <2>2. server'[Node(g)].v >= server[Node(g)].v
    BY <1>4, <1>7 DEF Grows
  <2> QED
    BY <1>2, <1>3, <1>6, <1>7, <2>1, <2>2
<1>9. CASE Sends(g)
  <2>1. parse'[g].asked = server[Node(g)].v /\ server' = server
    BY <1>9 DEF Sends
  <2> QED
    BY <1>2, <1>6, <1>7, <2>1
<1> QED
  BY <1>5, <1>8, <1>9

\* The request a fetcher downloads is a request, and a known one.
LEMMA HeadKnown ==
    ASSUME TypeOK, RequestsKnown, NEW f \in Fetchers, fetcher[f].todo # <<>>
    PROVE  Head(fetcher[f].todo) \in Request /\ Known(Head(fetcher[f].todo))
<1>1. fetcher \in [Fetchers -> Fetcher]
  BY DEF TypeOK, Fetcher
<1>2. fetcher[f].todo \in Seq(Request)
  BY <1>1 DEF Fetcher
<1>3. /\ 1 \in 1 .. Len(fetcher[f].todo) /\ Head(fetcher[f].todo) = fetcher[f].todo[1]
      /\ Head(fetcher[f].todo) \in Request
  BY <1>2
<1> QED
  BY <1>3 DEF RequestsKnown

\* A request known to be of the node a parser is at is its own.
LEMMA OwnRequest ==
    ASSUME TypeOK, NEW r \in Request, Known(r), NEW g \in Gens, ~At(g, "idle"),
           r.ready = ReadyOf(g)
    PROVE  parse[g].pc \in Asked /\ r.url = Node(g) /\ r.dir = parse[g].dir
<1>1. parse \in [Gens -> Parser]
  BY DEF TypeOK, Parser
<1>2. parse[g].node \in Nat
  BY <1>1, Constants DEF Parser
<1>3. r.ready[1] = parse[g].n /\ r.ready[2] = parse[g].node
  BY DEF ReadyOf
<1> QED
  BY <1>2, <1>3 DEF Known

\* What a fetcher has for the present request of a parser is fresh.
LEMMA GotFreshStep ==
    ASSUME TypeOK, Shape, RequestsKnown, AskedPublished, GotFresh, [Next]_vars PROVE GotFresh'
<1>0. fetcher \in [Fetchers -> Fetcher]
  BY DEF TypeOK, Fetcher
<1>2. (\A u \in Urls : server[u].v \in Nat) /\ \A g \in Gens : parse[g].asked \in Nat
  BY VersionsAreNumbers
<1>3. (\A g \in Gens : Moves(g)) /\ ParseShape /\ FetchShape
  BY ParserMoves DEF Shape
<1> SUFFICES ASSUME NEW f \in Fetchers, NEW g \in Gens, parse'[g].pc \in Asked,
                    fetcher'[f].pc = "fetch", Head(fetcher'[f].todo).ready = ReadyOf(g)'
             PROVE  fetcher'[f].got = 0 \/ fetcher'[f].got >= parse'[g].asked
  BY DEF GotFresh, Holds
<1>4. \/ parse'[g] = parse[g] \/ Awaits(g) \/ Sends(g)
  BY <1>3, Constants DEF Moves, Starts, Advances, Prepares, Asked
<1>5. ~At(g, "idle") /\ ReadyOf(g)' = ReadyOf(g)
  BY <1>4 DEF Awaits, Sends, At, Asked, ReadyOf
<1>6. CASE fetcher'[f] = fetcher[f]
  <2>1. Head(fetcher[f].todo) \in Request /\ Known(Head(fetcher[f].todo))
    BY <1>3, <1>6, HeadKnown DEF FetchShape
  <2>2. parse[g].pc \in Asked
    BY <1>5, <1>6, <2>1, OwnRequest
  <2>3. parse'[g].asked = parse[g].asked
    BY <1>4, <2>2 DEF Awaits, Sends, At, Asked
  <2>4. Holds(f, ReadyOf(g))
    BY <1>5, <1>6 DEF Holds
  <2> QED
    BY <1>6, <2>2, <2>3, <2>4 DEF GotFresh
<1>7. CASE FetchStart(f)
  <2> DEFINE r == Head(fetcher[f].todo)
  <2>1. r \in Request /\ Known(r)
    BY <1>7, HeadKnown DEF FetchStart
  <2>2. fetcher'[f].todo = fetcher[f].todo /\ fetcher'[f].got \in {0, server[r.url].v}
    BY <1>0, <1>7 DEF FetchStart, Fetcher
  <2>3. parse' = parse
    BY <1>7 DEF FetchStart
  <2>4. parse[g].pc \in Asked /\ r.url = Node(g)
    BY <1>5, <2>1, <2>2, OwnRequest
  <2>5. parse[g].asked <= server[r.url].v
    BY <2>4 DEF AskedPublished
  <2>6. server[r.url].v \in Nat
    BY <1>2, <2>1 DEF Request
  <2> HIDE DEF r
  <2> QED
    BY <1>2, <2>2, <2>3, <2>5, <2>6
<1> QED
  BY <1>6, <1>7, FetcherMoves

\* Without rivals there is one fetcher.
LEMMA OneFetcherStep ==
    ASSUME TypeOK, Shape, OneFetcher, [Next]_vars PROVE OneFetcher'
<1> SUFFICES ASSUME ~rivals', NEW e \in Fetchers, NEW f \in Fetchers,
                    fetcher'[e].pc # "dead", fetcher'[f].pc # "dead"
             PROVE  e = f
  BY DEF OneFetcher
<1>1. CASE /\ rivals' = rivals
           /\ \A c \in Fetchers : fetcher'[c].pc # "dead" => fetcher[c].pc # "dead"
  BY <1>1 DEF OneFetcher
<1>2. CASE /\ rivals' = (rivals \/ \E c \in Fetchers : fetcher[c].pc # "dead")
           /\ \E c : \A d \in Fetchers : d # c => fetcher'[d] = fetcher[d]
  <2>1. \A c \in Fetchers : fetcher[c].pc = "dead"
    BY <1>2
  <2>2. PICK c : \A d \in Fetchers : d # c => fetcher'[d] = fetcher[d]
    BY <1>2
  <2> QED
    BY <2>1, <2>2
<1> QED
  BY <1>1, <1>2, FetcherMoves

\* Rivals are never forgotten.
LEMMA RivalsKept == ASSUME TypeOK, Shape, [Next]_vars PROVE rivals => rivals'
BY FetcherMoves

\* Without rivals nobody but cleanup touches the file a fetcher is to replace.
LEMMA OldKeptStep ==
    ASSUME TypeOK, Shape, RequestsKnown, OneFetcher, OldKept, [Next]_vars PROVE OldKept'
<1>0. fetcher \in [Fetchers -> Fetcher] /\ FetchShape
  BY DEF TypeOK, Fetcher, Shape
<1> SUFFICES ASSUME ~rivals', NEW f \in Fetchers, fetcher'[f].pc = "fetch"
             PROVE  file'[Head(fetcher'[f].todo).dir][Head(fetcher'[f].todo).url]
                        \in {0, fetcher'[f].old}
  BY DEF OldKept
<1>1. ~rivals
  BY RivalsKept
<1>2. CASE fetcher'[f] = fetcher[f]
  <2> DEFINE r == Head(fetcher[f].todo)
  <2>1. r \in Request /\ r.dir \in Fetchers /\ r.url \in Urls
    BY <1>0, <1>2, HeadKnown DEF FetchShape, Request
  <2>2. file[r.dir][r.url] \in {0, fetcher[f].old}
    BY <1>1, <1>2 DEF OldKept
  <2>3. ~\E e \in Fetchers : FetchDone(e)
    <3> SUFFICES ASSUME NEW e \in Fetchers, FetchDone(e) PROVE FALSE
      OBVIOUS
    <3>1. e = f
      BY <1>1, <1>2 DEF FetchDone, OneFetcher
    <3>2. fetcher'[e].pc = "next"
      BY <1>0 DEF FetchDone, Fetcher
    <3> QED
      BY <3>1, <3>2
  <2>4. file'[r.dir][r.url] \in {0, file[r.dir][r.url]}
    BY <2>1, <2>3, DiskMoves
  <2> QED
    BY <1>2, <2>2, <2>4
<1>3. CASE FetchStart(f)
  <2> DEFINE r == Head(fetcher[f].todo)
  <2>1. fetcher'[f].todo = fetcher[f].todo /\ fetcher'[f].old = file[r.dir][r.url]
    BY <1>0, <1>3 DEF FetchStart, Fetcher
  <2>2. file' = file
    BY <1>3 DEF FetchStart, diskVars
  <2> QED
    BY <2>1, <2>2
<1> QED
  BY <1>2, <1>3, FetcherMoves

\* What a parser is about to open is fresh.  At the notification the download
\* was its own; until it opens the file only newer downloads replace it.
LEMMA OpenFreshStep ==
    ASSUME TypeOK, Shape, Fresh, [Next]_vars PROVE OpenFresh'
<1>0. /\ fetcher \in [Fetchers -> Fetcher] /\ parse \in [Gens -> Parser] /\ ParseShape /\ FetchShape
      /\ file \in [Fetchers -> [Urls -> Versions \cup {0}]]
      /\ RequestsKnown /\ AskedPublished /\ GotFresh /\ OneFetcher /\ OldKept /\ OpenFresh
  BY DEF TypeOK, Fetcher, Parser, Shape, Fresh
<1> SUFFICES ASSUME ~rivals', NEW g \in Gens, At(g, "open")'
             PROVE  /\ \/ file'[parse'[g].dir][Node(g)'] = 0
                       \/ file'[parse'[g].dir][Node(g)'] >= parse'[g].asked
                    /\ \A f \in Fetchers : fetcher'[f].pc = "fetch" =>
                           LET r == Head(fetcher'[f].todo) IN
                           r.dir = parse'[g].dir /\ r.url = Node(g)' =>
                               fetcher'[f].got = 0 \/ fetcher'[f].got >= parse'[g].asked
  BY DEF OpenFresh
<1>1. ~rivals
  BY RivalsKept
<1>2. /\ parse'[g].asked = parse[g].asked /\ parse'[g].dir = parse[g].dir /\ Node(g)' = Node(g)
      /\ parse[g].pc \in Asked
  <2>1. parse'[g] = parse[g] \/ Awaits(g)
    BY ParserMoves, Constants DEF Moves, Starts, Advances, Prepares, Sends, At
  <2> QED
    BY <2>1 DEF Awaits, Node, At, Asked
<1>3. parse[g].dir \in Fetchers /\ Node(g) \in Urls /\ ~At(g, "idle")
  BY <1>0, <1>2 DEF ParseShape, At, Asked
<1> DEFINE d == parse[g].dir
           u == Node(g)
           a == parse[g].asked
<1>4. a \in Nat /\ server[u].v \in Nat /\ file[d][u] \in Nat
      /\ \A f \in Fetchers : fetcher[f].got \in Nat /\ fetcher[f].old \in Nat
  BY <1>3, VersionsAreNumbers
<1>5. a <= server[u].v
  BY <1>0, <1>2 DEF AskedPublished
<1>6. At(g, "open") =>
        /\ file[d][u] = 0 \/ file[d][u] >= a
        /\ \A f \in Fetchers : fetcher[f].pc = "fetch" =>
               (Head(fetcher[f].todo).dir = d /\ Head(fetcher[f].todo).url = u =>
                   fetcher[f].got = 0 \/ fetcher[f].got >= a)
  BY <1>0, <1>1 DEF OpenFresh
<1>7. ASSUME NEW f \in Fetchers, FetchDone(f)
      PROVE  /\ file'[d][u] = 0 \/ file'[d][u] >= a
             /\ \A e \in Fetchers : fetcher'[e].pc # "fetch"
  <2> DEFINE r == Head(fetcher[f].todo)
  <2>1. r \in Request /\ Known(r)
    BY <1>0, <1>7, HeadKnown DEF FetchDone, FetchShape
  <2>2. \A e \in Fetchers : fetcher'[e].pc # "fetch"
    <3>1. fetcher'[f].pc = "next" /\ \A e \in Fetchers : e # f => fetcher'[e] = fetcher[e]
      BY <1>0, <1>7 DEF FetchDone, Fetcher
    <3>2. \A e \in Fetchers : e # f => fetcher[e].pc = "dead"
      BY <1>0, <1>1, <1>7 DEF FetchDone, OneFetcher
    <3> QED
      BY <3>1, <3>2
  <2>3. r.dir \in Fetchers /\ r.url \in Urls
    BY <2>1 DEF Request
  <2>4. /\ file' = [file EXCEPT ![r.dir][r.url] = Stored(f)]
        /\ At(g, "open") \/ (At(g, "wait") /\ ReadyOf(g) = r.ready)
    <3>1. At(g, "open") \/ (At(g, "wait") /\ ReadyOf(g) = r.ready)
      BY <1>7 DEF FetchDone, At
    <3> QED
      BY <1>7, <3>1 DEF FetchDone
  <2>5. Stored(f) \in {fetcher[f].got, file[r.dir][r.url]}
        /\ (Stored(f) # fetcher[f].got => fetcher[f].got = fetcher[f].old)
        /\ (fetcher[f].got = fetcher[f].old => Stored(f) = file[r.dir][r.url])
        /\ (fetcher[f].got # fetcher[f].old => Stored(f) = fetcher[f].got)
    BY DEF Stored
  <2>6. fetcher[f].got # 0
    BY <1>7 DEF FetchDone, Raises
  <2>7. file[r.dir][r.url] \in {0, fetcher[f].old}
    BY <1>0, <1>1, <1>7 DEF OldKept, FetchDone
  <2>8. CASE r.dir = d /\ r.url = u
    <3>1. fetcher[f].got >= a
      <4>1. CASE At(g, "open")
        BY <1>6, <1>7, <2>6, <2>8, <4>1 DEF FetchDone
      <4>2. CASE ReadyOf(g) = r.ready
        <5>1. Holds(f, ReadyOf(g))
          BY <1>7, <4>2 DEF Holds, FetchDone
        <5> QED
          BY <1>0, <1>2, <2>6, <5>1 DEF GotFresh
      <4> QED
        BY <2>4, <4>1, <4>2
    <3>2. Stored(f) \in {0, fetcher[f].got}
      BY <2>5, <2>7
    <3>3. file'[d][u] = Stored(f)
      <4> HIDE DEF r, d, u
      <4> QED
        BY <1>0, <2>3, <2>4, <2>8
    <3> QED
      BY <2>2, <3>1, <3>2, <3>3
  <2>9. CASE ~(r.dir = d /\ r.url = u)
    <3>1. ~(ReadyOf(g) = r.ready)
      BY <1>3, <2>1, <2>9, OwnRequest
    <3>2. At(g, "open")
      BY <2>4, <3>1
    <3>3. file'[d][u] = file[d][u]
      <4>1. d \in Fetchers /\ u \in Urls
        BY <1>3
      <4> HIDE DEF r, d, u
      <4> QED
        BY <1>0, <2>3, <2>4, <2>9, <4>1
    <3> QED
      BY <1>6, <2>2, <3>2, <3>3
  <2> QED
    BY <2>8, <2>9
<1>8. CASE /\ \A e \in Fetchers, w \in Urls : file'[e][w] \in {0, file[e][w]}
           /\ \A h \in Gens : At(h, "open")' => parse'[h] = parse[h]
  <2>1. parse'[g] = parse[g] /\ At(g, "open")
    BY <1>8 DEF At
  <2>2. file'[d][u] = 0 \/ file'[d][u] >= a
    BY <1>3, <1>6, <1>8, <2>1
  <2>3. ASSUME NEW f \in Fetchers, fetcher'[f].pc = "fetch",
               Head(fetcher'[f].todo).dir = d, Head(fetcher'[f].todo).url = u
        PROVE  fetcher'[f].got = 0 \/ fetcher'[f].got >= a
    <3>1. CASE fetcher'[f] = fetcher[f]
      BY <1>6, <2>1, <2>3, <3>1
    <3>2. CASE FetchStart(f)
      <4>1. /\ fetcher'[f].todo = fetcher[f].todo
            /\ fetcher'[f].got \in {0, server[Head(fetcher[f].todo).url].v}
        BY <1>0, <3>2 DEF FetchStart, Fetcher
      <4> HIDE DEF u, a
      <4> QED
        BY <1>4, <1>5, <2>3, <4>1
    <3> QED
      BY <2>3, <3>1, <3>2, FetcherMoves
  <2> QED
    BY <1>2, <2>2, <2>3
<1> QED
  BY <1>2, <1>7, <1>8, DiskMoves

\* Freshness: while at most one fetcher thread has run at a time, an !include of
\* a URL never opens a version older than the one served when it was asked for,
\* for every configuration, every number of generations and fetchers and every
\* order of downloads, failures, restarts, notifications and timeouts.
THEOREM IncludesAreFresh == Spec => IncludeIsFresh
<1>1. Init => TypeOK /\ Shape /\ Fresh
  BY InitInv
<1>2. TypeOK /\ Shape /\ Fresh /\ [Next]_vars => (TypeOK /\ Shape /\ Fresh)'
  <2> SUFFICES ASSUME TypeOK, Shape, Fresh, [Next]_vars PROVE (TypeOK /\ Shape /\ Fresh)'
    OBVIOUS
  <2>1. RequestsKnown /\ AskedPublished /\ GotFresh /\ OneFetcher /\ OldKept
    BY DEF Fresh
  <2>2. TypeOK' /\ Shape'
    BY TypeStep, ShapeStep
  <2>3. RequestsKnown' /\ AskedPublished' /\ GotFresh' /\ OneFetcher' /\ OldKept' /\ OpenFresh'
    BY <2>1, RequestsKnownStep, AskedPublishedStep, GotFreshStep, OneFetcherStep, OldKeptStep,
       OpenFreshStep
  <2> QED
    BY <2>2, <2>3 DEF Fresh
<1>3. TypeOK /\ Shape /\ Fresh /\ [Next]_vars =>
          [\A g \in Gens : OpenFetched(g) /\ ~rivals /\ parse'[g].pc = "node" =>
               file[parse[g].dir][Node(g)] >= parse[g].asked]_vars
  <2> SUFFICES ASSUME TypeOK, Shape, Fresh, [Next]_vars, NEW g \in Gens, OpenFetched(g), ~rivals,
                      parse'[g].pc = "node"
               PROVE  file[parse[g].dir][Node(g)] >= parse[g].asked
    OBVIOUS
  <2>1. parse \in [Gens -> Parser]
    BY DEF TypeOK, Parser
  <2>2. ~ParseFails(g)
    BY <2>1, Constants DEF ParseFails
  <2>3. file[parse[g].dir][Node(g)] # 0 /\ At(g, "open")
    BY <2>2 DEF OpenFetched
  <2> QED
    BY <2>3 DEF Fresh, OpenFresh
<1> QED
  BY <1>1, <1>2, <1>3, PTL DEF Spec, IncludeIsFresh
=============================================================================
