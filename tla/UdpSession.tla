----------------------------- MODULE UdpSession -----------------------------
(***************************************************************************)
(* The udp_session probe: the two kprobes of probes/udp_session.j2, the    *)
(* per-CPU perf rings between the kernel and the worker process, and the   *)
(* two userland threads of probes/udp_session.py - the polling thread and  *)
(* the session expiration sidecar - that share session_tracking.           *)
(*                                                                         *)
(* A message's count in a session is modelled by the message itself: the   *)
(* dictionary destinations is the set msgs of the messages counted, a      *)
(* destination's msg_count is the number of msgs with that dest.  Process  *)
(* trees, durations and addresses are left out.                            *)
(***************************************************************************)
EXTENDS Naturals, Sequences, FiniteSets

CONSTANTS
    Cpus,               \* processors; a kprobe runs to completion on its own
    Socks,              \* struct sock addresses, reused after a close
    Dests,              \* destination address-port pairs
    FilteredDests,      \* those dropped by the probe's filters
    RingCap,            \* events a CPU's perf ring holds
    TracingCap,         \* entries BPF_HASH(tracing) holds
    SessionMaxDuration, \* session_max_duration, in ticks
    ContainerLabels,    \* whether container_labels is configured
    MaxEvents,          \* bound: no kprobe starts after this many events
    MaxLives,           \* bound: times a socket address is used
    None                \* no handler running, no session, no destination

ASSUME UdpSessionAssumption ==
    /\ FilteredDests \subseteq Dests
    /\ RingCap \in Nat /\ TracingCap \in Nat
    /\ SessionMaxDuration \in Nat \ {0}
    /\ ContainerLabels \in BOOLEAN
    /\ MaxEvents \in Nat /\ MaxLives \in Nat
    /\ None \notin Dests

VARIABLES
    open,             \* sockets that are open
    life,             \* life[s]: how often the address s was used (history)
    tracing,          \* the kernel table of sockets with a session
    handler,          \* handler[c]: the udp_sendmsg kprobe running on CPU c
    ring,             \* ring[c]: events submitted on CPU c, not yet polled
    polling,          \* the worker has opened the perf buffers
    session_tracking, \* the worker's session per socket, or None
    expired,          \* sockets the expiration worker has still to end
    sleep_left,       \* ticks left of the expiration worker's sleep
    log,              \* the events the kprobes produced, in order (history)
    reports           \* the events put on output_queue, in order (history)

kernelVars == <<open, life, tracing, handler, ring, log>>
workerVars == <<polling, session_tracking, expired, sleep_left, reports>>
vars == <<kernelVars, workerVars>>

SESSION_START    == "start"
SESSION_CONTINUE == "continue"
SESSION_END      == "end"
EventTypes == {SESSION_START, SESSION_CONTINUE, SESSION_END}

\* struct udp_session_event; seq and life identify it in the properties only.
Event == [seq : Nat, type : EventTypes, sock : Socks, life : Nat,
          dest : Dests \cup {None}]
Message == {e \in Event : e.type # SESSION_END}

Errors == {"", "session_max_duration_exceeded"}
Session == [msgs : SUBSET Message, error : Errors,
            age : 0 .. SessionMaxDuration + 1]
Report == [sock : Socks, msgs : SUBSET Message, error : Errors,
           from_bpf : BOOLEAN]
Handler == [sock : Socks, dest : Dests,
            flag : {SESSION_START, SESSION_CONTINUE}]

\* No session is not a session.
ASSUME NoneAssumption == None \notin Session

TypeOK ==
    /\ open \in [Socks -> BOOLEAN]
    /\ life \in [Socks -> Nat]
    /\ tracing \subseteq Socks
    /\ handler \in [Cpus -> Handler \cup {None}]
    /\ ring \in [Cpus -> Seq(Event)]
    /\ polling \in BOOLEAN
    /\ session_tracking \in [Socks -> Session \cup {None}]
    /\ expired \subseteq Socks
    /\ sleep_left \in 0 .. SessionMaxDuration
    /\ log \in Seq(Event)
    /\ reports \in Seq(Report)

Init ==
    /\ open = [s \in Socks |-> FALSE]
    /\ life = [s \in Socks |-> 0]
    /\ tracing = {}
    /\ handler = [c \in Cpus |-> None]
    /\ ring = [c \in Cpus |-> <<>>]
    /\ polling = FALSE
    /\ session_tracking = [s \in Socks |-> None]
    /\ expired = {}
    /\ sleep_left = SessionMaxDuration
    /\ log = <<>>
    /\ reports = <<>>

-----------------------------------------------------------------------------
(* The kernel side: probes/udp_session.j2. *)

\* events.perf_submit: appended to the ring of its CPU, or lost when the ring
\* is full or when the worker has not opened the perf buffers yet.
PerfSubmit(c, e) ==
    /\ log' = Append(log, e)
    /\ ring' = IF polling /\ Len(ring[c]) < RingCap
               THEN [ring EXCEPT ![c] = Append(@, e)]
               ELSE ring

\* tracing.update: fails, and the code does not look, when the table is full.
TracingUpdateNoRoom(s) == tracing
TracingUpdate(s) ==
    IF Cardinality(tracing) < TracingCap THEN tracing \cup {s} ELSE tracing

TracingDeleteMissing(s) == tracing
TracingDelete(s) == tracing \ {s}

NewEvent(type, s, d) ==
    [seq |-> Len(log) + 1, type |-> type, sock |-> s, life |-> life[s],
     dest |-> d]

\* A process opens a socket: the kernel may hand out an address used before.
OpenSocket(s) ==
    /\ ~open[s] /\ life[s] < MaxLives
    /\ open' = [open EXCEPT ![s] = TRUE]
    /\ life' = [life EXCEPT ![s] = @ + 1]
    /\ UNCHANGED <<tracing, handler, ring, log, workerVars>>

\* kprobe__udp_sendmsg up to tracing.lookup: a filtered destination returns
\* early and changes nothing.
SendLookup(c, s, d) ==
    /\ handler[c] = None /\ open[s] /\ d \notin FilteredDests
    /\ Len(log) < MaxEvents
    /\ handler' = [handler EXCEPT ![c] =
           [sock |-> s, dest |-> d,
            flag |-> IF s \in tracing THEN SESSION_CONTINUE ELSE SESSION_START]]
    /\ UNCHANGED <<open, life, tracing, ring, log, workerVars>>

\* The rest of kprobe__udp_sendmsg.  Nothing in the worker reads tracing, so
\* perf_submit and tracing.update are one step.
SendSubmit(c) ==
    /\ handler[c] # None
    /\ PerfSubmit(c, NewEvent(handler[c].flag, handler[c].sock, handler[c].dest))
    /\ tracing' = IF handler[c].flag = SESSION_START
                  THEN TracingUpdate(handler[c].sock)
                  ELSE tracing
    /\ handler' = [handler EXCEPT ![c] = None]
    /\ UNCHANGED <<open, life, workerVars>>

\* kprobe__inet_release.  The last reference to the file is gone, so no
\* udp_sendmsg runs on the socket.
kprobe__inet_release(c, s) ==
    /\ handler[c] = None /\ open[s]
    /\ \A cpu \in Cpus : handler[cpu] # None => handler[cpu].sock # s
    /\ open' = [open EXCEPT ![s] = FALSE]
    /\ \/ /\ s \in tracing
          /\ PerfSubmit(c, NewEvent(SESSION_END, s, None))
          /\ tracing' = TracingDelete(s)
       \/ /\ s \notin tracing
          /\ UNCHANGED <<tracing, ring, log>>
    /\ UNCHANGED <<life, handler, workerVars>>

-----------------------------------------------------------------------------
(* The worker process: probes/udp_session.py and BPFProbe._process_events. *)

Tracked(s) == session_tracking[s] # None

\* start_polling opens the perf buffers after the kprobes are attached, the
\* sidecars started and the filters loaded.
StartPolling ==
    /\ ~polling /\ polling' = TRUE
    /\ UNCHANGED <<kernelVars, session_tracking, expired, sleep_left, reports>>

\* What a SESSION_START event leaves under its socket, whatever was there.
NewSessionMerged(e) ==
    [msgs |-> IF Tracked(e.sock) THEN session_tracking[e.sock].msgs \cup {e}
              ELSE {e},
     error |-> "", age |-> 0]
NewSession(e) == [msgs |-> {e}, error |-> "", age |-> 0]

\* What a SESSION_CONTINUE event makes of the session of its socket.
AddMessageUncounted(e) == [session_tracking[e.sock] EXCEPT !.age = 0]
AddMessage(e) ==
    [msgs |-> session_tracking[e.sock].msgs \cup {e},
     error |-> session_tracking[e.sock].error, age |-> 0]

\* session_tracking.pop(sock_key)
PopSessionKept(s) == session_tracking
PopSession(s) == [session_tracking EXCEPT ![s] = None]

\* The event of the session of s, put on output_queue.
OutputNothing(s, from_bpf) == reports
Output(s, from_bpf) ==
    Append(reports, [sock |-> s, msgs |-> session_tracking[s].msgs,
                     error |-> session_tracking[s].error,
                     from_bpf |-> from_bpf])

\* _enrich_event_impl takes the branch of SESSION_CONTINUE.
IsContinueOrEnd(e) == e.type # SESSION_START
IsContinue(e) == e.type = SESSION_CONTINUE

\* The polling thread takes the oldest event of a CPU's ring through
\* _process_events and enrich_event, which holds thread_lock.
Poll(c) ==
    /\ polling /\ ring[c] # <<>>
    /\ ring' = [ring EXCEPT ![c] = Tail(@)]
    /\ LET e == Head(ring[c]) IN
       \/ /\ e.type = SESSION_START
          /\ session_tracking' = [session_tracking EXCEPT ![e.sock] = NewSession(e)]
          /\ UNCHANGED reports
       \/ /\ e.type # SESSION_START /\ Tracked(e.sock) /\ IsContinue(e)
          /\ session_tracking' = [session_tracking EXCEPT ![e.sock] = AddMessage(e)]
          /\ UNCHANGED reports
       \/ /\ e.type # SESSION_START /\ Tracked(e.sock) /\ ~IsContinue(e)
          /\ session_tracking' = PopSession(e.sock)
          /\ reports' = Output(e.sock, TRUE)
       \/ /\ e.type # SESSION_START /\ ~Tracked(e.sock)
          /\ UNCHANGED <<session_tracking, reports>>
    /\ UNCHANGED <<open, life, tracing, handler, log, polling, expired, sleep_left>>

\* A tick of time.monotonic().  An age past the maximum needs no more counting.
Tick ==
    /\ session_tracking' = [s \in Socks |->
           IF Tracked(s) /\ session_tracking[s].age <= SessionMaxDuration
           THEN [session_tracking[s] EXCEPT !.age = @ + 1]
           ELSE session_tracking[s]]
    /\ sleep_left' = IF expired = {} /\ sleep_left > 0 THEN sleep_left - 1
                     ELSE sleep_left
    /\ session_tracking' # session_tracking \/ sleep_left' # sleep_left
    /\ UNCHANGED <<kernelVars, polling, expired, reports>>

\* now - session_data['last_update'] > session_max_duration
IsExpiredNever(s) ==
    Tracked(s) /\ session_tracking[s].age > 2 * SessionMaxDuration
IsExpired(s) == Tracked(s) /\ session_tracking[s].age > SessionMaxDuration

\* _session_expiration_worker wakes up and marks, holding thread_lock, the
\* sessions that are too old; if there is none it sleeps again.
ExpirationScan ==
    /\ expired = {} /\ sleep_left = 0
    /\ expired' = {s \in Socks : IsExpired(s)}
    /\ session_tracking' = [s \in Socks |->
           IF IsExpired(s)
           THEN [session_tracking[s] EXCEPT !.error = "session_max_duration_exceeded"]
           ELSE session_tracking[s]]
    /\ sleep_left' = SessionMaxDuration
    /\ UNCHANGED <<kernelVars, polling, reports>>

\* _session_expiration_worker ends one of them, without the lock in between,
\* with a synthetic SESSION_END.  That event has no mntns_id: with
\* container_labels enrich_container_name raises after the pop, and never_crash
\* starts the worker again, from its sleep.
ExpireOne(s) ==
    /\ s \in expired
    /\ \/ /\ Tracked(s) /\ ContainerLabels
          /\ session_tracking' = PopSession(s)
          /\ expired' = {}
          /\ UNCHANGED reports
       \/ /\ Tracked(s) /\ ~ContainerLabels
          /\ session_tracking' = PopSession(s)
          /\ expired' = expired \ {s}
          /\ reports' = Output(s, FALSE)
       \/ /\ ~Tracked(s)
          /\ expired' = expired \ {s}
          /\ UNCHANGED <<session_tracking, reports>>
    /\ UNCHANGED <<kernelVars, polling, sleep_left>>

-----------------------------------------------------------------------------
Next ==
    \/ \E s \in Socks : OpenSocket(s)
    \/ \E c \in Cpus, s \in Socks, d \in Dests : SendLookup(c, s, d)
    \/ \E c \in Cpus : SendSubmit(c)
    \/ \E c \in Cpus, s \in Socks : kprobe__inet_release(c, s)
    \/ StartPolling
    \/ \E c \in Cpus : Poll(c)
    \/ Tick
    \/ ExpirationScan
    \/ \E s \in Socks : ExpireOne(s)

Spec == Init /\ [][Next]_vars

\* A kprobe runs to its end, start_polling opens the buffers and polls for ever,
\* time passes, and the expiration thread is scheduled.  Nothing forces a
\* process to open, use or close a socket.
Fairness ==
    /\ \A c \in Cpus : WF_vars(SendSubmit(c)) /\ WF_vars(Poll(c))
    /\ \A s \in Socks : WF_vars(ExpireOne(s))
    /\ WF_vars(StartPolling) /\ WF_vars(Tick) /\ WF_vars(ExpirationScan)

FairSpec == Spec /\ Fairness

-----------------------------------------------------------------------------
(* Properties. *)

\* The messages of one use of a socket address.
MessagesOf(s, n) ==
    {log[i] : i \in {j \in 1 .. Len(log) :
        log[j].sock = s /\ log[j].life = n /\ log[j].type # SESSION_END}}

\* No message is counted twice: not in two reported sessions, not in two
\* tracked ones, and not in a reported and a tracked one.  The polling thread
\* and the expiration thread race to end a session; one of them gets it.
NoDoubleCount ==
    /\ \A i, j \in 1 .. Len(reports) :
           i # j => reports[i].msgs \cap reports[j].msgs = {}
    /\ \A s \in Socks : Tracked(s) =>
           /\ \A i \in 1 .. Len(reports) :
                  reports[i].msgs \cap session_tracking[s].msgs = {}
           /\ \A t \in Socks \ {s} : Tracked(t) =>
                  session_tracking[s].msgs \cap session_tracking[t].msgs = {}

OneStart(msgs) == \E m \in msgs : {e \in msgs : e.type = SESSION_START} = {m}

\* A session, tracked or reported, holds exactly one SESSION_START, the event
\* whose pid and process tree it carries, although a lost SESSION_END, a full
\* tracing table or two racing senders produce a second start for the socket.
OneStartPerSession ==
    /\ \A s \in Socks : Tracked(s) => OneStart(session_tracking[s].msgs)
    /\ \A i \in 1 .. Len(reports) : OneStart(reports[i].msgs)

\* The first event of every use of a socket address is a SESSION_START, even
\* when the address was traced in an earlier life: the worker could not tell
\* a session that begins with SESSION_CONTINUE from one whose start was lost.
FirstMessageStarts ==
    \A i \in 1 .. Len(log) :
        \/ log[i].type = SESSION_START
        \/ \E j \in 1 .. i - 1 : /\ log[j].sock = log[i].sock
                                 /\ log[j].life = log[i].life
                                 /\ log[j].type = SESSION_START

\* With one CPU, no loss and a table large enough, a session that ends by a
\* close reports every message sent through that use of the socket address,
\* and none of another use of it.
CloseReportsExact ==
    \A i \in 1 .. Len(reports) : reports[i].from_bpf =>
        \E n \in 1 .. MaxLives : reports[i].msgs = MessagesOf(reports[i].sock, n)

\* Under the same conditions the kernel still traces the socket of a tracked
\* session, or its SESSION_END is on its way: the close will be noticed.
TrackedIsTraced ==
    \A s \in Socks : Tracked(s) =>
        \/ s \in tracing
        \/ \E c \in Cpus : \E i \in 1 .. Len(ring[c]) :
               ring[c][i].sock = s /\ ring[c][i].type = SESSION_END

\* What ends a session puts an event for it on output_queue: enrich_event
\* returns the "event dictionary with process tree at session end".
SessionEndReported ==
    [][\A s \in Socks :
        Tracked(s) /\ session_tracking'[s] = None =>
            \E i \in 1 .. Len(reports') :
                reports'[i].msgs = session_tracking[s].msgs]_vars

\* Every session leaves session_tracking: once traffic stops (MaxEvents), a
\* session whose SESSION_END was lost is expired, also when the expiration
\* worker crashes on every session and is restarted.
SessionsDrain == \A s \in Socks : Tracked(s) ~> ~Tracked(s)
=============================================================================
