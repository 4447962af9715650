---------------------------- MODULE RemoteFetch ----------------------------
(***************************************************************************)
(* yaml_loader.py: !include of local files and of URLs, the fetcher thread *)
(* that downloads them, and FileIncludeLoader.cleanup at a restart.        *)
(*                                                                         *)
(* A generation is one call of main().  Its configuration is parsed by the *)
(* main thread first and by its watchdog thread later, one at a time, so a *)
(* generation has one parser; the watchdog of a generation may still parse *)
(* when the main thread of the next one does.  Fetcher f, its fence and    *)
(* its output directory are made together and share the number f.          *)
(***************************************************************************)
EXTENDS Naturals, Sequences

CONSTANTS
    Urls,        \* included URLs
    LocalFile,   \* an included local file
    Doc,         \* the !include nodes of the configuration, as constructed
    NoFlag,      \* stop_flag=None
    MaxGens,     \* bound: generations
    MaxParses,   \* bound: parses of the configuration
    MaxFetchers, \* bound: fetcher threads
    MaxEvents    \* bound: new versions and failures of servers together

Gens == 1 .. MaxGens
Fetchers == 1 .. MaxFetchers
Flags == Gens \cup {NoFlag}
Versions == 1 .. MaxEvents + 1

ASSUME RemoteFetchAssumption ==
    /\ Doc \in Seq(Urls \cup {LocalFile}) /\ LocalFile \notin Urls
    /\ MaxGens \in Nat \ {0} /\ MaxParses \in Nat /\ MaxFetchers \in Nat
    /\ MaxEvents \in Nat
    /\ NoFlag \notin Gens

VARIABLES
    server,   \* server[u]: the version it serves, and whether it answers
    file,     \* file[d][u]: the version in directory d, 0 when there is none
    dirs,     \* output directories that exist
    workload, \* remote_fetch_workload, in the order of insertion
    fetcher,  \* the fetcher threads
    cur,      \* remote_fetcher: the newest one, 0 for None
    handler,  \* stop_flag of the loader whose include_file handles !include
    parse,    \* parse[g]: the parser of generation g
    phase,    \* phase[g]: of main() of generation g
    gen,      \* present generation
    stopped,  \* generations whose stop flag is set
    parses,   \* parses so far
    events,   \* new versions and failures so far
    watch,    \* watch[g][u]: directory g last read u from, or 0 (history)
    rivals    \* a fetcher was made while another one ran (history)

envVars == <<server, events>>
diskVars == <<file, dirs>>
histVars == <<watch, rivals>>
mainVars == <<phase, gen, stopped, parses>>
vars == <<envVars, diskVars, mainVars, workload, fetcher, cur, handler,
          parse, histVars>>

\* A request: its Condition `ready` is fresh, named by parse and node.
Ready == (1 .. MaxParses) \X (1 .. Len(Doc))
Request == [url : Urls, dir : Fetchers, ready : Ready]

IdleParse == [pc |-> "idle", n |-> 0, node |-> 0, flag |-> NoFlag, dir |-> 0, asked |-> 0]
DeadFetcher == [pc |-> "dead", flag |-> NoFlag, todo |-> <<>>, old |-> 0, got |-> 0]

TypeOK ==
    /\ server \in [Urls -> [v : Versions, ok : BOOLEAN]]
    /\ file \in [Fetchers -> [Urls -> Versions \cup {0}]] /\ dirs \subseteq Fetchers
    /\ workload \in Seq(Request)
    /\ fetcher \in [Fetchers -> [pc : {"loop", "next", "fetch", "wait", "dead"}, flag : Flags,
                                 todo : Seq(Request), old : Versions \cup {0},
                                 got : Versions \cup {0}]]
    /\ cur \in 0 .. MaxFetchers /\ handler \in Flags
    /\ parse \in [Gens -> [pc : {"idle", "node", "create", "enqueue", "notify", "lock", "wait",
                                 "open"},
                           n : 0 .. MaxParses, node : 0 .. Len(Doc) + 1, flag : Flags,
                           dir : 0 .. MaxFetchers, asked : Versions \cup {0}]]
    /\ phase \in [Gens -> {"none", "setup", "running", "left", "exited"}]
    /\ gen \in Gens /\ stopped \subseteq Gens
    /\ parses \in 0 .. MaxParses /\ events \in 0 .. MaxEvents
    /\ watch \in [Gens -> [Urls -> 0 .. MaxFetchers]] /\ rivals \in BOOLEAN

Init ==
    /\ server = [u \in Urls |-> [v |-> 1, ok |-> TRUE]] /\ events = 0
    /\ file = [d \in Fetchers |-> [u \in Urls |-> 0]] /\ dirs = {}
    /\ workload = <<>> /\ cur = 0
    /\ fetcher = [f \in Fetchers |-> DeadFetcher]
    /\ handler = NoFlag
    /\ parse = [g \in Gens |-> IdleParse]
    /\ phase = [g \in Gens |-> IF g = 1 THEN "setup" ELSE "none"]
    /\ gen = 1 /\ stopped = {} /\ parses = 0
    /\ watch = [g \in Gens |-> [u \in Urls |-> 0]] /\ rivals = FALSE

-----------------------------------------------------------------------------
(* A parser: parse_config through yaml.load, include_file, include_remote. *)

Node(g) == Doc[parse[g].node]
At(g, pc) == parse[g].pc = pc
Goto(g, pc) == parse' = [parse EXCEPT ![g].pc = pc]

\* main() loads the configuration, later its watchdog does.  The constructor
\* of the loader registers its own include_file for the whole class.
StartParse(g) ==
    /\ At(g, "idle") /\ parses < MaxParses
    /\ phase[g] \in {"setup", "running"}
    /\ parse' = [parse EXCEPT ![g] = [IdleParse EXCEPT !.pc = "node", !.n = parses + 1,
                                                       !.node = 1]]
    /\ handler' = g
    /\ parses' = parses + 1
    /\ UNCHANGED <<envVars, diskVars, workload, fetcher, cur, phase, gen, stopped, histVars>>

\* Mutant: the node after an included one is skipped.
IncludedSkips(g) ==
    /\ handler' = NoFlag
    /\ parse' = [parse EXCEPT ![g].pc = "node", ![g].node = @ + 2]

\* The included file is open: its loader, which has no stop flag, registers
\* itself in turn.
Included(g) ==
    /\ handler' = NoFlag
    /\ parse' = [parse EXCEPT ![g] = [IdleParse EXCEPT !.pc = "node", !.n = parse[g].n,
                                                       !.node = parse[g].node + 1]]

IncludeLocal(g) ==
    /\ At(g, "node") /\ parse[g].node <= Len(Doc) /\ Node(g) = LocalFile
    /\ Included(g)
    /\ UNCHANGED <<envVars, diskVars, mainVars, workload, fetcher, cur, histVars>>

\* include_remote looks for a living fetcher.
IncludeRemote(g) ==
    /\ At(g, "node") /\ parse[g].node <= Len(Doc) /\ Node(g) # LocalFile
    /\ parse' = [parse EXCEPT
           ![g].flag = handler,
           ![g].pc = IF cur = 0 \/ fetcher[cur].pc = "dead" THEN "create" ELSE "enqueue"]
    /\ UNCHANGED <<envVars, diskVars, mainVars, workload, fetcher, cur, handler, histVars>>

CreateFetcher(g) ==
    /\ At(g, "create") /\ cur < MaxFetchers
    /\ cur' = cur + 1 /\ dirs' = dirs \cup {cur + 1}
    /\ fetcher' = [fetcher EXCEPT ![cur + 1].pc = "loop", ![cur + 1].flag = parse[g].flag]
    /\ Goto(g, "enqueue")
    /\ rivals' = (rivals \/ \E f \in Fetchers : fetcher[f].pc # "dead")
    /\ UNCHANGED <<envVars, mainVars, file, workload, handler, watch>>

\* workload[url] = ...: a url that is there keeps its place.
Put(list, r) ==
    IF \E i \in 1 .. Len(list) : list[i].url = r.url
    THEN [i \in 1 .. Len(list) |-> IF list[i].url = r.url THEN r ELSE list[i]]
    ELSE Append(list, r)

ReadyOf(g) == <<parse[g].n, parse[g].node>>

Enqueue(g) ==
    /\ At(g, "enqueue")
    /\ workload' = Put(workload, [url |-> Node(g), dir |-> cur, ready |-> ReadyOf(g)])
    /\ parse' = [parse EXCEPT ![g].pc = "notify", ![g].dir = cur,
                              ![g].asked = server[Node(g)].v]
    /\ UNCHANGED <<envVars, diskVars, mainVars, fetcher, cur, handler, histVars>>

\* Condition.notify of the fence wakes a fetcher that waits, and no other.
FenceNotified ==
    [f \in Fetchers |-> IF f = cur /\ fetcher[f].pc = "wait"
                        THEN [fetcher[f] EXCEPT !.pc = "loop"] ELSE fetcher[f]]

NotifyFence(g) ==
    /\ At(g, "notify") /\ Goto(g, "lock")
    /\ fetcher' = FenceNotified
    /\ UNCHANGED <<envVars, diskVars, mainVars, workload, cur, handler, histVars>>

Holds(f, ready) == fetcher[f].pc = "fetch" /\ Head(fetcher[f].todo).ready = ready

\* `with ready` waits for a download that holds it; ready.wait releases it.
WaitReady(g) ==
    /\ At(g, "lock") /\ \A f \in Fetchers : ~Holds(f, ReadyOf(g))
    /\ Goto(g, "wait")
    /\ UNCHANGED <<envVars, diskVars, mainVars, workload, fetcher, cur, handler, histVars>>

\* An exception leaves main(), and the process with all its threads ends; in
\* the watchdog it asks for a restart.
ParseFails(g) ==
    IF phase[g] = "setup"
    THEN /\ phase' = [phase EXCEPT ![g] = "exited"]
         /\ parse' = [h \in Gens |-> IdleParse]
         /\ fetcher' = [f \in Fetchers |-> DeadFetcher]
    ELSE /\ parse' = [parse EXCEPT ![g] = IdleParse]
         /\ UNCHANGED <<phase, fetcher>>

\* Mutant: ready.wait() without a timeout.
WaitsForever(g) == FALSE

\* REMOTE_FETCH_MAX_WAIT_SECONDS are over.
TimeOut(g) ==
    /\ At(g, "wait") /\ ParseFails(g)
    /\ UNCHANGED <<envVars, diskVars, workload, cur, handler, gen, stopped,
                   parses, histVars>>

\* open(filepath), after include_remote returned.
OpenFetched(g) ==
    /\ At(g, "open")
    /\ LET d == parse[g].dir IN
       \/ /\ file[d][Node(g)] # 0
          /\ Included(g)
          /\ watch' = [watch EXCEPT ![g][Node(g)] = d]
          /\ UNCHANGED <<phase, fetcher>>
       \/ /\ file[d][Node(g)] = 0 /\ ParseFails(g)
          /\ UNCHANGED <<handler, watch>>
    /\ UNCHANGED <<envVars, diskVars, workload, cur, gen, stopped, parses, rivals>>

EndParse(g) ==
    /\ At(g, "node") /\ parse[g].node > Len(Doc)
    /\ parse' = [parse EXCEPT ![g] = IdleParse]
    /\ phase' = [phase EXCEPT ![g] = IF @ = "setup" THEN "running" ELSE @]
    /\ UNCHANGED <<envVars, diskVars, workload, fetcher, cur, handler, gen,
                   stopped, parses, histVars>>

-----------------------------------------------------------------------------
(* fetch_remote_configurations *)

\* The stop flag is read between two rounds only.
Stops(f) == fetcher[f].flag \in stopped

\* Mutant: `while True`.
FetcherLoopForever(f) ==
    /\ fetcher[f].pc = "loop"
    /\ fetcher' = [fetcher EXCEPT ![f].pc = "next", ![f].todo = workload]
    /\ UNCHANGED <<envVars, diskVars, mainVars, workload, cur, handler, parse, histVars>>

FetcherLoop(f) ==
    /\ fetcher[f].pc = "loop"
    /\ fetcher' = [fetcher EXCEPT ![f] =
           IF Stops(f) THEN DeadFetcher
           ELSE [@ EXCEPT !.pc = "next", !.todo = workload]]
    /\ UNCHANGED <<envVars, diskVars, mainVars, workload, cur, handler, parse, histVars>>

\* _fetch_remote_configuration_impl up to the download, `ready` taken; got is 0
\* when the server does not answer.
FetchStart(f) ==
    /\ fetcher[f].pc = "next" /\ fetcher[f].todo # <<>>
    /\ LET r == Head(fetcher[f].todo) IN
       /\ \A e \in Fetchers : ~Holds(e, r.ready)
       /\ fetcher' = [fetcher EXCEPT
              ![f].pc = "fetch", ![f].old = file[r.dir][r.url],
              ![f].got = IF server[r.url].ok THEN server[r.url].v ELSE 0]
    /\ UNCHANGED <<envVars, diskVars, mainVars, workload, cur, handler, parse, histVars>>

\* The download failed, or os.rename did because cleanup removed the directory.
Raises(f) ==
    LET r == Head(fetcher[f].todo) IN
    fetcher[f].got = 0 \/ (fetcher[f].got # fetcher[f].old /\ r.dir \notin dirs)

\* Mutant: without never_crash the thread ends.
FetchRaisesDies(f) ==
    /\ fetcher[f].pc = "fetch" /\ Raises(f)
    /\ fetcher' = [fetcher EXCEPT ![f] = DeadFetcher]
    /\ UNCHANGED <<envVars, diskVars, mainVars, workload, cur, handler, parse, histVars>>

\* never_crash starts fetch_remote_configurations over.
FetchRaises(f) ==
    /\ fetcher[f].pc = "fetch" /\ Raises(f)
    /\ fetcher' = [fetcher EXCEPT ![f].pc = "loop", ![f].todo = <<>>, ![f].got = 0,
                                  ![f].old = 0]
    /\ UNCHANGED <<envVars, diskVars, mainVars, workload, cur, handler, parse, histVars>>

\* Mutant: a file that is there is not replaced.
StoredIfAbsent(f) == IF fetcher[f].old = 0 THEN fetcher[f].got ELSE fetcher[f].old

\* What is at the output path after a download: os.rename when it changed.
Stored(f) ==
    LET r == Head(fetcher[f].todo) IN
    IF fetcher[f].got # fetcher[f].old THEN fetcher[f].got ELSE file[r.dir][r.url]

\* The file is in place, ready.notify wakes the parser if it waits already.
FetchDone(f) ==
    /\ fetcher[f].pc = "fetch" /\ ~Raises(f)
    /\ LET r == Head(fetcher[f].todo) IN
       /\ file' = [file EXCEPT ![r.dir][r.url] = Stored(f)]
       /\ parse' = [g \in Gens |-> IF At(g, "wait") /\ ReadyOf(g) = r.ready
                                   THEN [parse[g] EXCEPT !.pc = "open"] ELSE parse[g]]
    /\ fetcher' = [fetcher EXCEPT ![f].pc = "next", ![f].todo = Tail(@), ![f].got = 0,
                                  ![f].old = 0]
    /\ UNCHANGED <<envVars, dirs, mainVars, workload, cur, handler, histVars>>

FetcherWaits(f) ==
    /\ fetcher[f].pc = "next" /\ fetcher[f].todo = <<>>
    /\ fetcher' = [fetcher EXCEPT ![f].pc = "wait"]
    /\ UNCHANGED <<envVars, diskVars, mainVars, workload, cur, handler, parse, histVars>>

\* REMOTE_FETCH_INTERVAL_SECONDS are over.
Interval(f) ==
    /\ fetcher[f].pc = "wait"
    /\ fetcher' = [fetcher EXCEPT ![f].pc = "loop"]
    /\ UNCHANGED <<envVars, diskVars, mainVars, workload, cur, handler, parse, histVars>>

-----------------------------------------------------------------------------
(* The rest of the process, and the servers. *)

\* FileIncludeLoader.cleanup
cleanup ==
    /\ fetcher' = FenceNotified
    /\ file' = [d \in Fetchers |-> IF d = cur THEN [u \in Urls |-> 0] ELSE file[d]]
    /\ dirs' = dirs \ {cur}
    /\ workload' = <<>>

\* SIGHUP, from outside or from a watchdog.  In main()'s output loop the flag
\* is set and the loader cleaned up; during the first parse neither happens.
Restart ==
    /\ gen < MaxGens /\ gen' = gen + 1
    /\ phase[gen] \in {"setup", "running"}
    /\ phase' = [phase EXCEPT ![gen] = "left", ![gen + 1] = "setup"]
    /\ \/ /\ phase[gen] = "running"
          /\ stopped' = stopped \cup {gen}
          /\ cleanup
          /\ UNCHANGED parse
       \/ /\ phase[gen] = "setup"
          /\ parse' = [parse EXCEPT ![gen] = IdleParse]
          /\ UNCHANGED <<stopped, fetcher, file, dirs, workload>>
    /\ watch' = [watch EXCEPT ![gen] = [u \in Urls |-> 0]]
    /\ UNCHANGED <<envVars, cur, handler, parses, rivals>>

ServerChanges(u) ==
    /\ events < MaxEvents /\ events' = events + 1
    /\ server' = [server EXCEPT ![u].v = @ + 1]
    /\ UNCHANGED <<diskVars, mainVars, workload, fetcher, cur, handler, parse, histVars>>

ServerFails(u) ==
    /\ server[u].ok /\ events < MaxEvents /\ events' = events + 1
    /\ server' = [server EXCEPT ![u].ok = FALSE]
    /\ UNCHANGED <<diskVars, mainVars, workload, fetcher, cur, handler, parse, histVars>>

ServerRecovers(u) ==
    /\ ~server[u].ok
    /\ server' = [server EXCEPT ![u].ok = TRUE]
    /\ UNCHANGED <<events, diskVars, mainVars, workload, fetcher, cur, handler, parse, histVars>>

-----------------------------------------------------------------------------
ParserStep(g) ==
    \/ IncludeLocal(g) \/ IncludeRemote(g) \/ CreateFetcher(g) \/ Enqueue(g)
    \/ NotifyFence(g) \/ WaitReady(g) \/ TimeOut(g) \/ OpenFetched(g) \/ EndParse(g)

FetcherStep(f) ==
    \/ FetcherLoop(f) \/ FetchStart(f) \/ FetchRaises(f) \/ FetchDone(f)
    \/ FetcherWaits(f) \/ Interval(f)

Next ==
    \/ \E g \in Gens : StartParse(g) \/ ParserStep(g)
    \/ \E f \in Fetchers : FetcherStep(f)
    \/ Restart
    \/ \E u \in Urls : ServerChanges(u) \/ ServerFails(u) \/ ServerRecovers(u)

Spec == Init /\ [][Next]_vars

\* Threads are scheduled, downloads end, time passes, and servers that fail
\* come back.  A `ready` that is free between two rounds, an
\* hour apart, is got: strong fairness.  Nothing obliges anybody to restart, to parse
\* again or to publish a new version.
Fairness ==
    /\ \A g \in Gens : WF_vars(ParserStep(g)) /\ SF_vars(WaitReady(g))
    /\ \A f \in Fetchers : WF_vars(FetcherStep(f))
    /\ \A u \in Urls : WF_vars(ServerRecovers(u))

FairSpec == Spec /\ Fairness

-----------------------------------------------------------------------------
(* Properties. *)

Exited == \E g \in Gens : phase[g] = "exited"

\* What a successful !include of a URL reads is no older than what the server
\* had when it was asked for: it is never a leftover of an earlier round, of
\* another generation's directory or of a slower download.  The exception: two
\* generations that parse at once may each make a fetcher, and one of them may
\* rename an older download over a newer one.
IncludeIsFresh ==
    [][\A g \in Gens : OpenFetched(g) /\ ~rivals /\ parse'[g].pc = "node" =>
           file[parse[g].dir][Node(g)] >= parse[g].asked]_vars

\* Every parse comes to an end, whatever is notified too early or too late and
\* whoever holds its Condition.
ParsesEnd == \A g \in Gens : ~At(g, "idle") ~> At(g, "idle")

\* "Periodically sync to disc remote configurations": the file a running
\* generation was loaded from gets every new version in the end, after
\* transient failures and lost notifications, unless the generation ends.  The
\* exception: of two fetchers the later request replaces the earlier one in the
\* workload, with another directory, and the earlier file is synced no more.
RemoteSynced ==
    \A g \in Gens, u \in Urls :
        phase[g] = "running" /\ watch[g][u] # 0 ~>
            phase[g] # "running" \/ Exited \/ rivals
              \/ file[watch[g][u]][u] = server[u].v

\* A fetcher whose generation was stopped ends, also when cleanup notified the
\* fence while it was downloading.
StoppedFetcherEnds ==
    \A f \in Fetchers : fetcher[f].pc # "dead" /\ Stops(f) ~> fetcher[f].pc = "dead"
=============================================================================
