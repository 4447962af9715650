-------------------------- MODULE UdpSessionProofs --------------------------
(***************************************************************************)
(* Proofs about UdpSession, for every number of CPUs, sockets and          *)
(* destinations, every capacity and every bound.                           *)
(***************************************************************************)
EXTENDS UdpSession, FiniteSetTheorems, TLAPS

\* An event of a kprobe has its type.
LEMMA NewEventType ==
    ASSUME TypeOK, NEW s \in Socks, NEW d \in Dests \cup {None},
           NEW t \in EventTypes
    PROVE  NewEvent(t, s, d) \in Event
BY DEF TypeOK, NewEvent, Event

\* What perf_submit leaves in the rings and the log has their types.
LEMMA PerfSubmitType ==
    ASSUME TypeOK, NEW c \in Cpus, NEW e \in Event, PerfSubmit(c, e)
    PROVE  /\ ring' \in [Cpus -> Seq(Event)]
           /\ log' \in Seq(Event)
<1>1. log' \in Seq(Event)
  BY DEF TypeOK, PerfSubmit
<1>2. Append(ring[c], e) \in Seq(Event)
  BY DEF TypeOK
<1>3. ring' \in [Cpus -> Seq(Event)]
  BY <1>2 DEF TypeOK, PerfSubmit
<1> QED
  BY <1>1, <1>3

\* A type-correct state steps to a type-correct state: among others every
\* session holds messages only, never a SESSION_END, and ages stay bounded.
LEMMA TypeStep == TypeOK /\ [Next]_vars => TypeOK'
<1> SUFFICES ASSUME TypeOK, [Next]_vars PROVE TypeOK'
  OBVIOUS
<1>0. SessionMaxDuration \in Nat
  BY UdpSessionAssumption
<1>1. ASSUME NEW s \in Socks, OpenSocket(s) PROVE TypeOK'
  BY <1>1 DEF OpenSocket, TypeOK, workerVars
<1>2. ASSUME NEW c \in Cpus, NEW s \in Socks, NEW d \in Dests, SendLookup(c, s, d)
      PROVE  TypeOK'
  BY <1>2 DEF SendLookup, TypeOK, workerVars, Handler
<1>3. ASSUME NEW c \in Cpus, SendSubmit(c) PROVE TypeOK'
  <2>1. handler[c] \in Handler
    BY <1>3 DEF SendSubmit, TypeOK
  <2> DEFINE e == NewEvent(handler[c].flag, handler[c].sock, handler[c].dest)
  <2>2. e \in Event
    BY <2>1, NewEventType DEF Handler, EventTypes
  <2>3. PerfSubmit(c, e)
    BY <1>3 DEF SendSubmit
  <2> HIDE DEF e
  <2>4. ring' \in [Cpus -> Seq(Event)] /\ log' \in Seq(Event)
    BY <2>2, <2>3, PerfSubmitType
  <2>5. tracing' \subseteq Socks
    BY <1>3, <2>1 DEF SendSubmit, TracingUpdate, TypeOK, Handler
  <2>6. handler' \in [Cpus -> Handler \cup {None}]
    BY <1>3 DEF SendSubmit, TypeOK
  <2> QED
    BY <1>3, <2>4, <2>5, <2>6 DEF SendSubmit, TypeOK, workerVars
<1>4. ASSUME NEW c \in Cpus, NEW s \in Socks, kprobe__inet_release(c, s)
      PROVE  TypeOK'
  <2>1. ring' \in [Cpus -> Seq(Event)] /\ log' \in Seq(Event)
    <3>1. CASE s \in tracing
      <4>1. NewEvent(SESSION_END, s, None) \in Event
        BY NewEventType DEF EventTypes
      <4>2. PerfSubmit(c, NewEvent(SESSION_END, s, None))
        BY <1>4, <3>1 DEF kprobe__inet_release
      <4> QED
        BY <4>1, <4>2, PerfSubmitType
    <3>2. CASE s \notin tracing
      BY <1>4, <3>2 DEF kprobe__inet_release, TypeOK
    <3> QED
      BY <3>1, <3>2
  <2>2. tracing' \subseteq Socks /\ open' \in [Socks -> BOOLEAN]
    BY <1>4 DEF kprobe__inet_release, TypeOK, TracingDelete
  <2> QED
    BY <1>4, <2>1, <2>2 DEF kprobe__inet_release, TypeOK, workerVars
<1>5. CASE StartPolling
  BY <1>5 DEF StartPolling, TypeOK, kernelVars
<1>6. ASSUME NEW c \in Cpus, Poll(c) PROVE TypeOK'
  <2> DEFINE e == Head(ring[c])
  <2>1. ring[c] \in Seq(Event) /\ ring[c] # <<>>
    BY <1>6 DEF Poll, TypeOK
  <2>2. e \in Event /\ Tail(ring[c]) \in Seq(Event)
    BY <2>1
  <2>3. ring' \in [Cpus -> Seq(Event)]
    BY <1>6, <2>2 DEF Poll, TypeOK
  <2>4. e.sock \in Socks
    BY <2>2 DEF Event
  <2> HIDE DEF e
  <2>5. \/ /\ e.type = SESSION_START
           /\ session_tracking' = [session_tracking EXCEPT ![e.sock] = NewSession(e)]
           /\ UNCHANGED reports
        \/ /\ e.type # SESSION_START /\ Tracked(e.sock) /\ IsContinue(e)
           /\ session_tracking' = [session_tracking EXCEPT ![e.sock] = AddMessage(e)]
           /\ UNCHANGED reports
        \/ /\ e.type # SESSION_START /\ Tracked(e.sock) /\ ~IsContinue(e)
           /\ session_tracking' = PopSession(e.sock)
           /\ reports' = Output(e.sock, TRUE)
        \/ /\ e.type # SESSION_START /\ ~Tracked(e.sock)
           /\ UNCHANGED <<session_tracking, reports>>
    BY <1>6 DEF Poll, e
  <2>6. /\ session_tracking' \in [Socks -> Session \cup {None}]
        /\ reports' \in Seq(Report)
    <3>1. CASE e.type = SESSION_START
      <4>1. NewSession(e) \in Session
        BY <1>0, <2>2, <3>1 DEF NewSession, Session, Errors, Message,
           SESSION_START, SESSION_END
      <4> QED
        BY <2>4, <2>5, <3>1, <4>1 DEF TypeOK
    <3>2. CASE e.type # SESSION_START /\ Tracked(e.sock) /\ IsContinue(e)
      <4>1. session_tracking[e.sock] \in Session
        BY <2>4, <3>2 DEF TypeOK, Tracked
      <4>2. e \in Message
        BY <2>2, <3>2 DEF Message, IsContinue, SESSION_CONTINUE, SESSION_END
      <4>3. AddMessage(e) \in Session
        BY <1>0, <4>1, <4>2 DEF AddMessage, Session
      <4> QED
        BY <2>4, <2>5, <3>2, <4>3 DEF TypeOK
    <3>3. CASE e.type # SESSION_START /\ Tracked(e.sock) /\ ~IsContinue(e)
      <4>1. session_tracking[e.sock] \in Session
        BY <2>4, <3>3 DEF TypeOK, Tracked
      <4>2. Output(e.sock, TRUE) \in Seq(Report)
        BY <2>4, <4>1 DEF TypeOK, Output, Report, Session
      <4> QED
        BY <2>4, <2>5, <3>3, <4>2 DEF TypeOK, PopSession
    <3>4. CASE e.type # SESSION_START /\ ~Tracked(e.sock)
      BY <2>5, <3>4 DEF TypeOK
    <3> QED
      BY <3>1, <3>2, <3>3, <3>4
  <2> QED
    BY <1>6, <2>3, <2>6 DEF Poll, TypeOK
<1>7. CASE Tick
  <2>1. ASSUME NEW s \in Socks, Tracked(s),
               session_tracking[s].age <= SessionMaxDuration
        PROVE  [session_tracking[s] EXCEPT !.age = @ + 1] \in Session
    <3>1. session_tracking[s] \in Session
      BY <2>1 DEF TypeOK, Tracked
    <3>2. session_tracking[s].age + 1 \in 0 .. SessionMaxDuration + 1
      BY <1>0, <2>1, <3>1 DEF Session
    <3> QED
      BY <3>1, <3>2 DEF Session
  <2>2. session_tracking' \in [Socks -> Session \cup {None}]
    BY <1>7, <2>1 DEF Tick, TypeOK
  <2>3. sleep_left' \in 0 .. SessionMaxDuration
    BY <1>0, <1>7 DEF Tick, TypeOK
  <2> QED
    BY <1>7, <2>2, <2>3 DEF Tick, TypeOK, kernelVars
<1>8. CASE ExpirationScan
  <2>1. ASSUME NEW s \in Socks, IsExpired(s)
        PROVE  [session_tracking[s] EXCEPT
                  !.error = "session_max_duration_exceeded"] \in Session
    BY <2>1 DEF TypeOK, IsExpired, Tracked, Session, Errors
  <2>2. session_tracking' \in [Socks -> Session \cup {None}]
    BY <1>8, <2>1 DEF ExpirationScan, TypeOK
  <2> QED
    BY <1>0, <1>8, <2>2 DEF ExpirationScan, TypeOK, kernelVars
<1>9. ASSUME NEW s \in Socks, ExpireOne(s) PROVE TypeOK'
  <2>1. PopSession(s) \in [Socks -> Session \cup {None}]
    BY DEF PopSession, TypeOK
  <2>2. Tracked(s) => Output(s, FALSE) \in Seq(Report)
    BY DEF TypeOK, Tracked, Output, Report, Session
  <2> QED
    BY <1>9, <2>1, <2>2 DEF ExpireOne, TypeOK, kernelVars
<1>10. CASE UNCHANGED vars
  BY <1>10 DEF vars, kernelVars, workerVars, TypeOK
<1> QED
  BY <1>1, <1>2, <1>3, <1>4, <1>5, <1>6, <1>7, <1>8, <1>9, <1>10 DEF Next

\* The initial state is type correct.
LEMMA TypeInit == Init => TypeOK
<1> SUFFICES ASSUME Init PROVE TypeOK
  OBVIOUS
<1>1. SessionMaxDuration \in 0 .. SessionMaxDuration
  BY UdpSessionAssumption
<1>2. <<>> \in Seq(Event) /\ <<>> \in Seq(Report)
  OBVIOUS
<1>3. ring \in [Cpus -> Seq(Event)]
  BY <1>2 DEF Init
<1> QED
  BY <1>1, <1>2, <1>3 DEF Init, TypeOK

\* TypeOK holds of every behaviour of the probe: what the polling thread and
\* the expiration sidecar leave in session_tracking is always a well-formed
\* session.
THEOREM TypeCorrect == Spec => []TypeOK
BY TypeInit, TypeStep, PTL DEF Spec

-----------------------------------------------------------------------------
(***************************************************************************)
(* No message is counted twice.  NoDoubleCount speaks of sessions and      *)
(* reports only; it is preserved because an event that is still in a ring  *)
(* is in no session and no report, and is in the rings only once.          *)
(***************************************************************************)

\* The parts of the invariant, of the rings rg, the sessions st, the reports rp
\* and n events.
RingKnown(rg, n) ==
    \A c \in Cpus : \A i \in 1 .. Len(rg[c]) : rg[c][i].seq <= n
SessionsKnown(st, n) ==
    \A s \in Socks : st[s] # None => \A m \in st[s].msgs : m.seq <= n
ReportsKnown(rp, n) ==
    \A k \in 1 .. Len(rp) : \A m \in rp[k].msgs : m.seq <= n
RingOnce(rg) ==
    \A c, d \in Cpus : \A i \in 1 .. Len(rg[c]), j \in 1 .. Len(rg[d]) :
        rg[c][i] = rg[d][j] => c = d /\ i = j
RingNotTracked(rg, st) ==
    \A c \in Cpus : \A i \in 1 .. Len(rg[c]) : \A s \in Socks :
        st[s] # None => rg[c][i] \notin st[s].msgs
RingNotReported(rg, rp) ==
    \A c \in Cpus : \A i \in 1 .. Len(rg[c]) : \A k \in 1 .. Len(rp) :
        rg[c][i] \notin rp[k].msgs
ReportsApart(rp) ==
    \A k, l \in 1 .. Len(rp) : k # l => rp[k].msgs \cap rp[l].msgs = {}
SessionsApart(st) ==
    \A s, t \in Socks : st[s] # None /\ st[t] # None /\ s # t =>
        st[s].msgs \cap st[t].msgs = {}
TrackedNotReported(st, rp) ==
    \A s \in Socks : st[s] # None =>
        \A k \in 1 .. Len(rp) : rp[k].msgs \cap st[s].msgs = {}

CountedOnce(rg, st, rp, n) ==
    /\ RingKnown(rg, n) /\ SessionsKnown(st, n) /\ ReportsKnown(rp, n)
    /\ RingOnce(rg) /\ RingNotTracked(rg, st) /\ RingNotReported(rg, rp)
    /\ ReportsApart(rp) /\ SessionsApart(st) /\ TrackedNotReported(st, rp)

\* The event e is one of the n, and nowhere any more.
Unseen(e, rg, st, rp, n) ==
    /\ e.seq <= n
    /\ \A c \in Cpus : \A i \in 1 .. Len(rg[c]) : rg[c][i] # e
    /\ \A s \in Socks : st[s] # None => e \notin st[s].msgs
    /\ \A k \in 1 .. Len(rp) : e \notin rp[k].msgs

\* A new event, submitted or lost, disturbs nothing: its number is fresh.
LEMMA SubmitCountedOnce ==
    ASSUME NEW rg \in [Cpus -> Seq(Event)], NEW st, NEW rp \in Seq(Report),
           NEW n \in Nat, CountedOnce(rg, st, rp, n),
           st \in [Socks -> Session \cup {None}],
           NEW c \in Cpus, NEW e \in Event, e.seq = n + 1
    PROVE  /\ CountedOnce(rg, st, rp, n + 1)
           /\ CountedOnce([rg EXCEPT ![c] = Append(@, e)], st, rp, n + 1)
<1>1. \A d \in Cpus : \A i \in 1 .. Len(rg[d]) : rg[d][i] \in Event
  OBVIOUS
<1>2. \A s \in Socks : st[s] # None => \A m \in st[s].msgs : m \in Event
  BY DEF Session, Message
<1>3. \A k \in 1 .. Len(rp) : \A m \in rp[k].msgs : m \in Event
  <2>1. \A k \in 1 .. Len(rp) : rp[k] \in Report
    OBVIOUS
  <2> QED
    BY <2>1 DEF Report, Message
<1>4. CountedOnce(rg, st, rp, n + 1)
  <2>1. \A m \in Event : m.seq \in Nat
    BY DEF Event
  <2>2. RingKnown(rg, n + 1)
    BY <1>1, <2>1 DEF CountedOnce, RingKnown
  <2>3. SessionsKnown(st, n + 1)
    BY <1>2, <2>1 DEF CountedOnce, SessionsKnown
  <2>4. ReportsKnown(rp, n + 1)
    BY <1>3, <2>1 DEF CountedOnce, ReportsKnown
  <2> QED
    BY <2>2, <2>3, <2>4 DEF CountedOnce
<1> DEFINE rh == [rg EXCEPT ![c] = Append(@, e)]
<1>5. \A d \in Cpus : \A i \in 1 .. Len(rh[d]) :
          \/ i \in 1 .. Len(rg[d]) /\ rh[d][i] = rg[d][i]
          \/ d = c /\ i = Len(rg[c]) + 1 /\ rh[d][i] = e
  OBVIOUS
<1>6. rh \in [Cpus -> Seq(Event)]
  OBVIOUS
<1> HIDE DEF rh
<1>7. /\ \A d \in Cpus : \A i \in 1 .. Len(rg[d]) : rg[d][i] # e
      /\ \A s \in Socks : st[s] # None => e \notin st[s].msgs
      /\ \A k \in 1 .. Len(rp) : e \notin rp[k].msgs
  BY <1>1, <1>2, <1>3
     DEF CountedOnce, RingKnown, SessionsKnown, ReportsKnown, Event
<1>8. CountedOnce(rh, st, rp, n + 1)
  <2>1. RingKnown(rh, n + 1)
    <3>1. RingKnown(rg, n + 1) /\ e.seq <= n + 1
      BY <1>4 DEF CountedOnce
    <3> QED
      BY <1>5, <3>1 DEF RingKnown
  <2>2. RingOnce(rh)
    <3> SUFFICES ASSUME NEW d \in Cpus, NEW f \in Cpus, NEW i \in 1 .. Len(rh[d]),
                        NEW j \in 1 .. Len(rh[f]), rh[d][i] = rh[f][j]
                 PROVE  d = f /\ i = j
      BY DEF RingOnce
    <3>1. RingOnce(rg)
      BY DEF CountedOnce
    <3>2. CASE i \in 1 .. Len(rg[d]) /\ j \in 1 .. Len(rg[f])
      <4>1. rh[d][i] = rg[d][i] \/ rh[d][i] = e
        BY <1>5
      <4>2. rh[f][j] = rg[f][j] \/ rh[f][j] = e
        BY <1>5
      <4>3. rg[d][i] = rg[f][j]
        BY <1>5, <1>7, <3>2, <4>1, <4>2
      <4> QED
        BY <3>1, <3>2, <4>3 DEF RingOnce
    <3>3. CASE ~(i \in 1 .. Len(rg[d]) /\ j \in 1 .. Len(rg[f]))
      <4>1. rh[d][i] = e /\ rh[f][j] = e
        BY <1>5, <3>3
      <4>2. d = c /\ i = Len(rg[c]) + 1
        BY <1>5, <1>7, <4>1
      <4>3. f = c /\ j = Len(rg[c]) + 1
        BY <1>5, <1>7, <4>1
      <4> QED
        BY <4>2, <4>3
    <3> QED
      BY <3>2, <3>3
  <2>3. RingNotTracked(rh, st)
    <3>1. \A d \in Cpus : \A i \in 1 .. Len(rg[d]) : \A s \in Socks :
              st[s] # None => rg[d][i] \notin st[s].msgs
      BY DEF CountedOnce, RingNotTracked
    <3> SUFFICES ASSUME NEW d \in Cpus, NEW i \in 1 .. Len(rh[d]), NEW s \in Socks,
                        st[s] # None
                 PROVE  rh[d][i] \notin st[s].msgs
      BY DEF RingNotTracked
    <3>2. (i \in 1 .. Len(rg[d]) /\ rh[d][i] = rg[d][i]) \/ rh[d][i] = e
      BY <1>5
    <3> QED
      BY <1>7, <3>1, <3>2
  <2>4. RingNotReported(rh, rp)
    BY <1>5, <1>7 DEF CountedOnce, RingNotReported
  <2> QED
    BY <1>4, <2>1, <2>2, <2>3, <2>4 DEF CountedOnce
<1> QED
  BY <1>4, <1>8 DEF rh

\* The event taken from a ring is nowhere else.
LEMMA TakeCountedOnce ==
    ASSUME NEW rg \in [Cpus -> Seq(Event)], NEW st, NEW rp,
           NEW n \in Nat, CountedOnce(rg, st, rp, n),
           NEW c \in Cpus, rg[c] # <<>>
    PROVE  /\ CountedOnce([rg EXCEPT ![c] = Tail(@)], st, rp, n)
           /\ Unseen(Head(rg[c]), [rg EXCEPT ![c] = Tail(@)], st, rp, n)
<1> DEFINE rh == [rg EXCEPT ![c] = Tail(@)]
<1>1. rh \in [Cpus -> Seq(Event)]
  OBVIOUS
<1>2. \A d \in Cpus : \A i \in 1 .. Len(rh[d]) :
          \/ d # c /\ i \in 1 .. Len(rg[d]) /\ rh[d][i] = rg[d][i]
          \/ d = c /\ i + 1 \in 2 .. Len(rg[d]) /\ rh[d][i] = rg[d][i + 1]
  OBVIOUS
<1>3. Head(rg[c]) = rg[c][1] /\ 1 \in 1 .. Len(rg[c])
  OBVIOUS
<1>4. \A d \in Cpus : Len(rh[d]) \in Nat /\ Len(rg[d]) \in Nat
  BY <1>1
<1> HIDE DEF rh
<1>5. RingOnce(rh)
  <2> SUFFICES ASSUME NEW d \in Cpus, NEW f \in Cpus, NEW i \in 1 .. Len(rh[d]),
                      NEW j \in 1 .. Len(rh[f]), rh[d][i] = rh[f][j]
               PROVE  d = f /\ i = j
    BY DEF RingOnce
  <2>1. PICK i1 \in 1 .. Len(rg[d]) :
            rh[d][i] = rg[d][i1] /\ i1 = IF d = c THEN i + 1 ELSE i
    BY <1>2, <1>4
  <2>2. PICK j1 \in 1 .. Len(rg[f]) :
            rh[f][j] = rg[f][j1] /\ j1 = IF f = c THEN j + 1 ELSE j
    BY <1>2, <1>4
  <2>3. RingOnce(rg) /\ rg[d][i1] = rg[f][j1]
    BY <2>1, <2>2 DEF CountedOnce
  <2>4. d = f /\ i1 = j1
    BY <2>3 DEF RingOnce
  <2> QED
    BY <2>1, <2>2, <2>4
<1>6. \A d \in Cpus : \A i \in 1 .. Len(rh[d]) :
          \E j \in 1 .. Len(rg[d]) : rh[d][i] = rg[d][j] /\ (d = c => j # 1)
  BY <1>2, <1>4
<1>7. CountedOnce(rh, st, rp, n)
  <2>1. RingKnown(rh, n)
    BY <1>6 DEF CountedOnce, RingKnown
  <2>2. RingNotTracked(rh, st)
    BY <1>6 DEF CountedOnce, RingNotTracked
  <2>3. RingNotReported(rh, rp)
    BY <1>6 DEF CountedOnce, RingNotReported
  <2> QED
    BY <1>5, <2>1, <2>2, <2>3 DEF CountedOnce
<1>8. Unseen(rg[c][1], rh, st, rp, n)
  <2>1. \A d \in Cpus : \A i \in 1 .. Len(rh[d]) : rh[d][i] # rg[c][1]
    BY <1>3, <1>6 DEF CountedOnce, RingOnce
  <2> QED
    BY <1>3, <2>1
       DEF CountedOnce, RingKnown, RingNotTracked, RingNotReported, Unseen
<1> QED
  BY <1>3, <1>7, <1>8 DEF rh

\* Putting an event that was taken from a ring into one session, alone or with
\* what the session held, keeps the invariant.
LEMMA CountCountedOnce ==
    ASSUME NEW rg, NEW rp, NEW n \in Nat, NEW st \in [Socks -> Session \cup {None}],
           CountedOnce(rg, st, rp, n), NEW e, Unseen(e, rg, st, rp, n),
           NEW s \in Socks, NEW x,
           \A m \in x.msgs : m = e \/ (st[s] # None /\ m \in st[s].msgs)
    PROVE  CountedOnce(rg, [st EXCEPT ![s] = x], rp, n)
<1> DEFINE su == [st EXCEPT ![s] = x]
<1>1. \A t \in Socks : su[t] # None => \A m \in su[t].msgs :
          (t = s /\ m = e) \/ (st[t] # None /\ m \in st[t].msgs)
  OBVIOUS
<1> HIDE DEF su
<1>2. CountedOnce(rg, su, rp, n)
  <2>1. SessionsKnown(su, n)
    BY <1>1 DEF CountedOnce, SessionsKnown, Unseen
  <2>2. RingNotTracked(rg, su)
    BY <1>1 DEF CountedOnce, RingNotTracked, Unseen
  <2>3. SessionsApart(su)
    BY <1>1 DEF CountedOnce, SessionsApart, Unseen
  <2>4. TrackedNotReported(su, rp)
    BY <1>1 DEF CountedOnce, TrackedNotReported, Unseen
  <2> QED
    BY <2>1, <2>2, <2>3, <2>4 DEF CountedOnce
<1> QED
  BY <1>2 DEF su

\* Ending a session moves its messages to a report, or drops them.
LEMMA EndCountedOnce ==
    ASSUME NEW rg, NEW rp \in Seq(Report), NEW n \in Nat,
           NEW st \in [Socks -> Session \cup {None}],
           CountedOnce(rg, st, rp, n),
           NEW s \in Socks, st[s] # None, NEW r \in Report, r.msgs = st[s].msgs
    PROVE  /\ CountedOnce(rg, [st EXCEPT ![s] = None], rp, n)
           /\ CountedOnce(rg, [st EXCEPT ![s] = None], Append(rp, r), n)
<1> DEFINE su == [st EXCEPT ![s] = None]
<1> DEFINE rq == Append(rp, r)
<1>1. \A t \in Socks : su[t] # None => t # s /\ st[t] # None /\ su[t] = st[t]
  OBVIOUS
<1>2. \A k \in 1 .. Len(rq) : \/ k \in 1 .. Len(rp) /\ rq[k] = rp[k]
                              \/ k = Len(rp) + 1 /\ rq[k].msgs = st[s].msgs
  OBVIOUS
<1> HIDE DEF su, rq
<1>3. CountedOnce(rg, su, rp, n)
  BY <1>1 DEF CountedOnce, SessionsKnown, RingNotTracked, SessionsApart,
     TrackedNotReported
<1>4. CountedOnce(rg, su, rq, n)
  <2>1. ReportsKnown(rq, n)
    BY <1>2 DEF CountedOnce, ReportsKnown, SessionsKnown
  <2>2. RingNotReported(rg, rq)
    BY <1>2 DEF CountedOnce, RingNotReported, RingNotTracked
  <2>3. ReportsApart(rq)
    BY <1>2 DEF CountedOnce, ReportsApart, TrackedNotReported
  <2>4. TrackedNotReported(su, rq)
    BY <1>1, <1>2 DEF CountedOnce, TrackedNotReported, SessionsApart
  <2> QED
    BY <1>3, <2>1, <2>2, <2>3, <2>4 DEF CountedOnce
<1> QED
  BY <1>3, <1>4 DEF su, rq

\* Ageing and marking sessions leaves their messages alone.
LEMMA SameMessagesCountedOnce ==
    ASSUME NEW rg, NEW rp, NEW n, NEW st, NEW su, CountedOnce(rg, st, rp, n),
           \A s \in Socks : su[s] # None => st[s] # None /\ su[s].msgs = st[s].msgs
    PROVE  CountedOnce(rg, su, rp, n)
BY DEF CountedOnce, SessionsKnown, RingNotTracked, SessionsApart, TrackedNotReported

\* A kprobe's event keeps the invariant, whether it gets into the ring or not.
LEMMA PerfSubmitCountedOnce ==
    ASSUME TypeOK, CountedOnce(ring, session_tracking, reports, Len(log)),
           NEW c \in Cpus, NEW e \in Event, e.seq = Len(log) + 1, PerfSubmit(c, e)
    PROVE  CountedOnce(ring', session_tracking, reports, Len(log'))
<1>1. Len(log) \in Nat /\ Len(log') = Len(log) + 1
  BY DEF TypeOK, PerfSubmit
<1>2. ring' = ring \/ ring' = [ring EXCEPT ![c] = Append(@, e)]
  BY DEF PerfSubmit
<1>3. /\ ring \in [Cpus -> Seq(Event)] /\ reports \in Seq(Report)
      /\ session_tracking \in [Socks -> Session \cup {None}]
  BY DEF TypeOK
<1> DEFINE n == Len(log)
<1>4. /\ CountedOnce(ring, session_tracking, reports, n + 1)
      /\ CountedOnce([ring EXCEPT ![c] = Append(@, e)], session_tracking, reports, n + 1)
  <2> HIDE DEF n
  <2> QED
    BY <1>1, <1>3, SubmitCountedOnce DEF n
<1> QED
  BY <1>1, <1>2, <1>4

CountInv == CountedOnce(ring, session_tracking, reports, Len(log))

\* Every step of the kernel and of the two threads keeps the invariant.
LEMMA CountStep == TypeOK /\ CountInv /\ [Next]_vars => CountInv'
<1> SUFFICES ASSUME TypeOK, CountInv, [Next]_vars PROVE CountInv'
  OBVIOUS
<1>0. /\ ring \in [Cpus -> Seq(Event)] /\ reports \in Seq(Report)
      /\ session_tracking \in [Socks -> Session \cup {None}]
      /\ Len(log) \in Nat
  BY DEF TypeOK
<1>1. ASSUME UNCHANGED <<ring, session_tracking, reports, log>> PROVE CountInv'
  BY <1>1 DEF CountInv
<1>2. ASSUME NEW c \in Cpus, NEW e \in Event, e.seq = Len(log) + 1,
             PerfSubmit(c, e), UNCHANGED <<session_tracking, reports>>
      PROVE  CountInv'
  BY <1>2, PerfSubmitCountedOnce DEF CountInv
<1>3. ASSUME NEW c \in Cpus, SendSubmit(c) PROVE CountInv'
  <2>1. handler[c] \in Handler
    BY <1>3 DEF SendSubmit, TypeOK
  <2> DEFINE e == NewEvent(handler[c].flag, handler[c].sock, handler[c].dest)
  <2>2. e \in Event
    BY <2>1, NewEventType DEF Handler, EventTypes
  <2>3. e.seq = Len(log) + 1
    BY DEF NewEvent
  <2>4. PerfSubmit(c, e) /\ UNCHANGED <<session_tracking, reports>>
    BY <1>3 DEF SendSubmit, workerVars
  <2> HIDE DEF e
  <2> QED
    BY <1>2, <2>2, <2>3, <2>4
<1>4. ASSUME NEW c \in Cpus, NEW s \in Socks, kprobe__inet_release(c, s)
      PROVE  CountInv'
  <2>1. CASE s \in tracing
    <3>1. NewEvent(SESSION_END, s, None) \in Event
      BY NewEventType DEF EventTypes
    <3>2. NewEvent(SESSION_END, s, None).seq = Len(log) + 1
      BY DEF NewEvent
    <3>3. /\ PerfSubmit(c, NewEvent(SESSION_END, s, None))
          /\ UNCHANGED <<session_tracking, reports>>
      BY <1>4, <2>1 DEF kprobe__inet_release, workerVars
    <3> QED
      BY <1>2, <3>1, <3>2, <3>3
  <2>2. CASE s \notin tracing
    BY <1>1, <1>4, <2>2 DEF kprobe__inet_release, workerVars
  <2> QED
    BY <2>1, <2>2
<1>5. ASSUME NEW c \in Cpus, Poll(c) PROVE CountInv'
  <2> DEFINE e == Head(ring[c])
  <2> DEFINE rh == [ring EXCEPT ![c] = Tail(@)]
  <2>1. ring[c] # <<>> /\ ring' = rh /\ log' = log
    BY <1>5 DEF Poll
  <2>2. /\ CountedOnce(rh, session_tracking, reports, Len(log))
        /\ Unseen(e, rh, session_tracking, reports, Len(log))
    BY <1>0, <2>1, TakeCountedOnce DEF CountInv
  <2>3. e \in Event
    BY <1>0, <2>1
  <2>4. e.sock \in Socks
    BY <2>3 DEF Event
  <2>5. \/ /\ session_tracking' = [session_tracking EXCEPT ![e.sock] = NewSession(e)]
           /\ UNCHANGED reports
        \/ /\ Tracked(e.sock)
           /\ session_tracking' = [session_tracking EXCEPT ![e.sock] = AddMessage(e)]
           /\ UNCHANGED reports
        \/ /\ Tracked(e.sock)
           /\ session_tracking' = PopSession(e.sock)
           /\ reports' = Output(e.sock, TRUE)
        \/ UNCHANGED <<session_tracking, reports>>
    BY <1>5 DEF Poll
  <2> HIDE DEF e, rh
  <2>6. CASE /\ session_tracking' = [session_tracking EXCEPT ![e.sock] = NewSession(e)]
             /\ UNCHANGED reports
    <3>1. \A m \in NewSession(e).msgs : m = e
      BY DEF NewSession
    <3>2. CountedOnce(rh, session_tracking', reports, Len(log))
      BY <1>0, <2>2, <2>4, <2>6, <3>1, CountCountedOnce
    <3> QED
      BY <2>1, <2>6, <3>2 DEF CountInv
  <2>7. CASE /\ Tracked(e.sock)
             /\ session_tracking' = [session_tracking EXCEPT ![e.sock] = AddMessage(e)]
             /\ UNCHANGED reports
    <3>1. \A m \in AddMessage(e).msgs : m = e \/ m \in session_tracking[e.sock].msgs
      BY DEF AddMessage
    <3>2. session_tracking[e.sock] # None
      BY <2>7 DEF Tracked
    <3>3. CountedOnce(rh, session_tracking', reports, Len(log))
      BY <1>0, <2>2, <2>4, <2>7, <3>1, <3>2, CountCountedOnce
    <3> QED
      BY <2>1, <2>7, <3>3 DEF CountInv
  <2>8. CASE /\ Tracked(e.sock)
             /\ session_tracking' = PopSession(e.sock)
             /\ reports' = Output(e.sock, TRUE)
    <3> DEFINE r == [sock |-> e.sock, msgs |-> session_tracking[e.sock].msgs,
                     error |-> session_tracking[e.sock].error, from_bpf |-> TRUE]
    <3>1. session_tracking[e.sock] # None /\ session_tracking[e.sock] \in Session
      BY <1>0, <2>4, <2>8 DEF Tracked
    <3>2. r \in Report /\ r.msgs = session_tracking[e.sock].msgs
      BY <2>4, <3>1 DEF Session, Report
    <3>3. /\ session_tracking' = [session_tracking EXCEPT ![e.sock] = None]
          /\ reports' = Append(reports, r)
      BY <2>8 DEF PopSession, Output
    <3> HIDE DEF r
    <3>4. CountedOnce(rh, session_tracking', reports', Len(log))
      BY <1>0, <2>2, <2>4, <3>1, <3>2, <3>3, EndCountedOnce
    <3> QED
      BY <2>1, <3>4 DEF CountInv
  <2>9. CASE UNCHANGED <<session_tracking, reports>>
    BY <2>1, <2>2, <2>9 DEF CountInv
  <2> QED
    BY <2>5, <2>6, <2>7, <2>8, <2>9
<1>6. ASSUME UNCHANGED <<ring, reports, log>>,
             \A s \in Socks : session_tracking'[s] # None =>
                 /\ session_tracking[s] # None
                 /\ session_tracking'[s].msgs = session_tracking[s].msgs
      PROVE  CountInv'
  BY <1>6, SameMessagesCountedOnce DEF CountInv
<1>7. CASE Tick
  <2>1. \A s \in Socks : session_tracking[s] # None =>
            [session_tracking[s] EXCEPT !.age = @ + 1].msgs = session_tracking[s].msgs
    BY <1>0 DEF Session
  <2> QED
    BY <1>6, <1>7, <2>1 DEF Tick, Tracked, kernelVars
<1>8. CASE ExpirationScan
  <2>1. \A s \in Socks : session_tracking[s] # None =>
            [session_tracking[s] EXCEPT !.error = "session_max_duration_exceeded"].msgs
              = session_tracking[s].msgs
    BY <1>0 DEF Session
  <2> QED
    BY <1>6, <1>8, <2>1 DEF ExpirationScan, IsExpired, Tracked, kernelVars
<1>9. ASSUME NEW s \in Socks, ExpireOne(s) PROVE CountInv'
  <2>0. UNCHANGED <<ring, log>>
    BY <1>9 DEF ExpireOne, kernelVars
  <2>1. CASE Tracked(s)
    <3> DEFINE r == [sock |-> s, msgs |-> session_tracking[s].msgs,
                     error |-> session_tracking[s].error, from_bpf |-> FALSE]
    <3>1. session_tracking[s] # None /\ session_tracking[s] \in Session
      BY <1>0, <2>1 DEF Tracked
    <3>2. r \in Report /\ r.msgs = session_tracking[s].msgs
      BY <3>1 DEF Session, Report
    <3>3. /\ session_tracking' = [session_tracking EXCEPT ![s] = None]
          /\ reports' = reports \/ reports' = Append(reports, r)
      BY <1>9, <2>1 DEF ExpireOne, PopSession, Output
    <3> HIDE DEF r
    <3>4. CountedOnce(ring, session_tracking, reports, Len(log))
      BY DEF CountInv
    <3>5. /\ CountedOnce(ring, session_tracking', reports, Len(log))
          /\ CountedOnce(ring, session_tracking', Append(reports, r), Len(log))
      BY <1>0, <3>1, <3>2, <3>3, <3>4, EndCountedOnce
    <3> QED
      BY <2>0, <3>3, <3>5 DEF CountInv
  <2>2. CASE ~Tracked(s)
    BY <1>1, <1>9, <2>0, <2>2 DEF ExpireOne
  <2> QED
    BY <2>1, <2>2
<1>10. CASE UNCHANGED vars
  BY <1>1, <1>10 DEF vars, kernelVars, workerVars
<1>11. CASE StartPolling
  BY <1>1, <1>11 DEF StartPolling, kernelVars
<1>12. ASSUME NEW s \in Socks, OpenSocket(s) PROVE CountInv'
  BY <1>1, <1>12 DEF OpenSocket, workerVars
<1>13. ASSUME NEW c \in Cpus, NEW s \in Socks, NEW d \in Dests, SendLookup(c, s, d)
       PROVE  CountInv'
  BY <1>1, <1>13 DEF SendLookup, workerVars
<1> QED
  BY <1>3, <1>4, <1>5, <1>7, <1>8, <1>9, <1>10, <1>11, <1>12, <1>13 DEF Next

\* Initially nothing is counted anywhere.
LEMMA CountInit == Init => CountInv
BY DEF Init, CountInv, CountedOnce, RingKnown, SessionsKnown, ReportsKnown, RingOnce,
   RingNotTracked, RingNotReported, ReportsApart, SessionsApart, TrackedNotReported

\* Whatever is lost or expired, and however the polling thread and the
\* expiration thread interleave, no message is counted in two sessions,
\* reported or tracked.
THEOREM NeverCountedTwice == Spec => []NoDoubleCount
<1>1. CountInv => NoDoubleCount
  BY DEF CountInv, CountedOnce, NoDoubleCount, Tracked, ReportsApart, SessionsApart,
     TrackedNotReported
<1>2. Spec => [](TypeOK /\ CountInv)
  BY TypeInit, TypeStep, CountInit, CountStep, PTL DEF Spec
<1> QED
  BY <1>1, <1>2, PTL

-----------------------------------------------------------------------------
(***************************************************************************)
(* Sessions begin with a SESSION_START.                                    *)
(***************************************************************************)

\* A session made by a SESSION_START has one, a SESSION_CONTINUE adds none.
LEMMA OneStartStep == TypeOK /\ OneStartPerSession /\ [Next]_vars => OneStartPerSession'
<1> SUFFICES ASSUME TypeOK, OneStartPerSession, [Next]_vars PROVE OneStartPerSession'
  OBVIOUS
<1>0. /\ ring \in [Cpus -> Seq(Event)] /\ reports \in Seq(Report)
      /\ session_tracking \in [Socks -> Session \cup {None}]
  BY DEF TypeOK
<1>1. ASSUME UNCHANGED reports,
             \A s \in Socks : session_tracking'[s] # None =>
                 OneStart(session_tracking'[s].msgs)
      PROVE  OneStartPerSession'
  BY <1>1 DEF OneStartPerSession, Tracked
<1>2. ASSUME NEW s \in Socks, Tracked(s), NEW r \in Report,
             r.msgs = session_tracking[s].msgs,
             session_tracking' = PopSession(s),
             reports' = reports \/ reports' = Append(reports, r)
      PROVE  OneStartPerSession'
  <2>1. \A t \in Socks : session_tracking'[t] # None => OneStart(session_tracking'[t].msgs)
    BY <1>0, <1>2 DEF PopSession, OneStartPerSession, Tracked
  <2>2. OneStart(r.msgs)
    BY <1>2 DEF OneStartPerSession
  <2>3. \A i \in 1 .. Len(reports') : OneStart(reports'[i].msgs)
    <3>1. CASE reports' = reports
      BY <3>1 DEF OneStartPerSession
    <3>2. CASE reports' = Append(reports, r)
      <4>1. \A i \in 1 .. Len(reports') :
                (i \in 1 .. Len(reports) /\ reports'[i] = reports[i]) \/ reports'[i] = r
        BY <1>0, <3>2
      <4> QED
        BY <2>2, <4>1 DEF OneStartPerSession
    <3> QED
      BY <1>2, <3>1, <3>2
  <2> QED
    BY <2>1, <2>3 DEF OneStartPerSession, Tracked
<1>3. ASSUME UNCHANGED <<session_tracking, reports>> PROVE OneStartPerSession'
  BY <1>3 DEF OneStartPerSession, Tracked
<1>4. ASSUME NEW c \in Cpus, Poll(c) PROVE OneStartPerSession'
  <2> DEFINE e == Head(ring[c])
  <2>1. e \in Event
    BY <1>0, <1>4 DEF Poll
  <2>2. e.sock \in Socks
    BY <2>1 DEF Event
  <2>3. \/ /\ e.type = SESSION_START
           /\ session_tracking' = [session_tracking EXCEPT ![e.sock] = NewSession(e)]
           /\ UNCHANGED reports
        \/ /\ Tracked(e.sock) /\ IsContinue(e)
           /\ session_tracking' = [session_tracking EXCEPT ![e.sock] = AddMessage(e)]
           /\ UNCHANGED reports
        \/ /\ Tracked(e.sock)
           /\ session_tracking' = PopSession(e.sock)
           /\ reports' = Output(e.sock, TRUE)
        \/ UNCHANGED <<session_tracking, reports>>
    BY <1>4 DEF Poll
  <2> HIDE DEF e
  <2>4. CASE /\ e.type = SESSION_START
             /\ session_tracking' = [session_tracking EXCEPT ![e.sock] = NewSession(e)]
             /\ UNCHANGED reports
    <3>1. OneStart(NewSession(e).msgs)
      BY <2>4 DEF NewSession, OneStart
    <3> QED
      BY <1>0, <1>1, <2>2, <2>4, <3>1 DEF OneStartPerSession, Tracked
  <2>5. CASE /\ Tracked(e.sock) /\ IsContinue(e)
             /\ session_tracking' = [session_tracking EXCEPT ![e.sock] = AddMessage(e)]
             /\ UNCHANGED reports
    <3>1. OneStart(session_tracking[e.sock].msgs)
      BY <2>2, <2>5 DEF OneStartPerSession
    <3>2. e.type # SESSION_START
      BY <2>5 DEF IsContinue, SESSION_CONTINUE, SESSION_START
    <3>3. {m \in AddMessage(e).msgs : m.type = SESSION_START}
            = {m \in session_tracking[e.sock].msgs : m.type = SESSION_START}
      BY <3>2 DEF AddMessage
    <3>4. OneStart(AddMessage(e).msgs)
      BY <3>1, <3>3 DEF OneStart, AddMessage
    <3> QED
      BY <1>0, <1>1, <2>2, <2>5, <3>4 DEF OneStartPerSession, Tracked
  <2>6. CASE /\ Tracked(e.sock)
             /\ session_tracking' = PopSession(e.sock)
             /\ reports' = Output(e.sock, TRUE)
    <3> DEFINE r == [sock |-> e.sock, msgs |-> session_tracking[e.sock].msgs,
                     error |-> session_tracking[e.sock].error, from_bpf |-> TRUE]
    <3>1. r \in Report /\ r.msgs = session_tracking[e.sock].msgs
      BY <1>0, <2>2, <2>6 DEF Session, Report, Tracked
    <3>2. reports' = Append(reports, r)
      BY <2>6 DEF Output
    <3> HIDE DEF r
    <3> QED
      BY <1>2, <2>2, <2>6, <3>1, <3>2
  <2> QED
    BY <1>3, <2>3, <2>4, <2>5, <2>6
<1>5. CASE Tick
  <2>1. \A s \in Socks : session_tracking[s] # None =>
            [session_tracking[s] EXCEPT !.age = @ + 1].msgs = session_tracking[s].msgs
    BY <1>0 DEF Session
  <2> QED
    BY <1>1, <1>5, <2>1 DEF Tick, Tracked, OneStartPerSession
<1>6. CASE ExpirationScan
  <2>1. \A s \in Socks : session_tracking[s] # None =>
            [session_tracking[s] EXCEPT !.error = "session_max_duration_exceeded"].msgs
              = session_tracking[s].msgs
    BY <1>0 DEF Session
  <2> QED
    BY <1>1, <1>6, <2>1 DEF ExpirationScan, IsExpired, Tracked, OneStartPerSession
<1>7. ASSUME NEW s \in Socks, ExpireOne(s) PROVE OneStartPerSession'
  <2>1. CASE Tracked(s)
    <3> DEFINE r == [sock |-> s, msgs |-> session_tracking[s].msgs,
                     error |-> session_tracking[s].error, from_bpf |-> FALSE]
    <3>1. r \in Report /\ r.msgs = session_tracking[s].msgs
      BY <1>0, <2>1 DEF Session, Report, Tracked
    <3>2. /\ session_tracking' = PopSession(s)
          /\ reports' = reports \/ reports' = Append(reports, r)
      BY <1>7, <2>1 DEF ExpireOne, Output
    <3> HIDE DEF r
    <3> QED
      BY <1>2, <2>1, <3>1, <3>2
  <2>2. CASE ~Tracked(s)
    BY <1>3, <1>7, <2>2 DEF ExpireOne
  <2> QED
    BY <2>1, <2>2
<1>8. ASSUME NEW c \in Cpus, SendSubmit(c) PROVE OneStartPerSession'
  BY <1>3, <1>8 DEF SendSubmit, workerVars
<1>9. ASSUME NEW c \in Cpus, NEW s \in Socks, kprobe__inet_release(c, s)
      PROVE  OneStartPerSession'
  BY <1>3, <1>9 DEF kprobe__inet_release, workerVars
<1>10. CASE UNCHANGED vars
  BY <1>3, <1>10 DEF vars, workerVars
<1>11. CASE StartPolling
  BY <1>3, <1>11 DEF StartPolling
<1>12. ASSUME NEW s \in Socks, OpenSocket(s) PROVE OneStartPerSession'
  BY <1>3, <1>12 DEF OpenSocket, workerVars
<1>13. ASSUME NEW c \in Cpus, NEW s \in Socks, NEW d \in Dests, SendLookup(c, s, d)
       PROVE  OneStartPerSession'
  BY <1>3, <1>13 DEF SendLookup, workerVars
<1> QED
  BY <1>4, <1>5, <1>6, <1>7, <1>8, <1>9, <1>10, <1>11, <1>12, <1>13 DEF Next

\* Whatever is lost, every session the worker tracks or reports was begun by
\* exactly one SESSION_START, the event its pid and process tree come from.
THEOREM SessionsHaveOneStart == Spec => []OneStartPerSession
<1>1. Init => OneStartPerSession
  BY DEF Init, OneStartPerSession, Tracked
<1> QED
  BY <1>1, TypeInit, TypeStep, OneStartStep, PTL DEF Spec

-----------------------------------------------------------------------------
(***************************************************************************)
(* The first event of every use of a socket address is a SESSION_START.    *)
(* That needs what the tracing table and the running kprobes rely on: a    *)
(* traced socket is open, and its present life has a start in the log.     *)
(***************************************************************************)

\* The present life of s has a SESSION_START in the log.
Started(s) ==
    \E j \in 1 .. Len(log) : /\ log[j].sock = s /\ log[j].life = life[s]
                             /\ log[j].type = SESSION_START

TracedIsStarted == \A s \in tracing : open[s] /\ Started(s)

HandlerIsStarted ==
    \A c \in Cpus : handler[c] # None =>
        /\ open[handler[c].sock]
        /\ handler[c].flag = SESSION_CONTINUE => Started(handler[c].sock)

StartInv == TracedIsStarted /\ HandlerIsStarted /\ FirstMessageStarts

\* Every step of the kernel keeps it; the worker touches none of its variables.
LEMMA StartStep == TypeOK /\ StartInv /\ [Next]_vars => StartInv'
<1> SUFFICES ASSUME TypeOK, StartInv, [Next]_vars PROVE StartInv'
  OBVIOUS
<1> USE DEF TracedIsStarted, HandlerIsStarted
<1>0. /\ open \in [Socks -> BOOLEAN] /\ life \in [Socks -> Nat] /\ log \in Seq(Event)
      /\ handler \in [Cpus -> Handler \cup {None}] /\ tracing \subseteq Socks
  BY DEF TypeOK
<1>1. ASSUME UNCHANGED <<open, life, tracing, handler, log>> PROVE StartInv'
  BY <1>1 DEF StartInv, Started, FirstMessageStarts
<1>2. ASSUME NEW s \in Socks, OpenSocket(s) PROVE StartInv'
  <2>1. ~open[s] /\ log' = log /\ tracing' = tracing /\ handler' = handler
    BY <1>2 DEF OpenSocket
  <2>2. \A t \in Socks : open[t] => t # s /\ open'[t] /\ life'[t] = life[t]
    BY <1>0, <1>2 DEF OpenSocket
  <2>3. \A t \in Socks : open[t] /\ Started(t) => open'[t] /\ Started(t)'
    BY <2>1, <2>2 DEF Started
  <2>4. TracedIsStarted'
    BY <1>0, <2>1, <2>3 DEF StartInv
  <2>5. HandlerIsStarted'
    BY <1>0, <2>1, <2>2, <2>3 DEF StartInv, Handler
  <2> QED
    BY <2>1, <2>4, <2>5 DEF StartInv, FirstMessageStarts
<1>3. ASSUME NEW c \in Cpus, NEW s \in Socks, NEW d \in Dests, SendLookup(c, s, d)
      PROVE  StartInv'
  <2>1. UNCHANGED <<open, life, tracing, log>> /\ open[s]
    BY <1>3 DEF SendLookup
  <2>2. \A t \in Socks : Started(t)' <=> Started(t)
    BY <2>1 DEF Started
  <2>3. /\ handler'[c].sock = s
        /\ handler'[c].flag = SESSION_CONTINUE => s \in tracing
        /\ \A b \in Cpus : b # c => handler'[b] = handler[b]
    BY <1>0, <1>3 DEF SendLookup, SESSION_CONTINUE, SESSION_START
  <2>4. HandlerIsStarted'
    BY <1>0, <2>1, <2>2, <2>3 DEF StartInv, Handler
  <2>5. TracedIsStarted'
    BY <1>0, <2>1, <2>2 DEF StartInv
  <2> QED
    BY <2>1, <2>4, <2>5 DEF StartInv, FirstMessageStarts
<1>4. ASSUME NEW e \in Event, log' = Append(log, e), UNCHANGED life
      PROVE  /\ \A t \in Socks : Started(t) => Started(t)'
             /\ e.type = SESSION_START /\ e.life = life[e.sock] => Started(e.sock)'
             /\ FirstMessageStarts
                  /\ (e.type # SESSION_START => Started(e.sock) /\ e.life = life[e.sock])
                  => FirstMessageStarts'
  <2>1. /\ Len(log) \in Nat /\ Len(log') = Len(log) + 1 /\ log'[Len(log) + 1] = e
        /\ \A i \in 1 .. Len(log) : log'[i] = log[i]
    BY <1>0, <1>4
  <2>2. \A t \in Socks : Started(t) => Started(t)'
    BY <1>4, <2>1 DEF Started
  <2>3. e.type = SESSION_START /\ e.life = life[e.sock] => Started(e.sock)'
    BY <1>4, <2>1 DEF Started
  <2>4. ASSUME FirstMessageStarts,
               e.type # SESSION_START => Started(e.sock) /\ e.life = life[e.sock]
        PROVE  FirstMessageStarts'
    <3> SUFFICES ASSUME NEW i \in 1 .. Len(log'), log'[i].type # SESSION_START
                 PROVE  \E j \in 1 .. i - 1 : /\ log'[j].sock = log'[i].sock
                                              /\ log'[j].life = log'[i].life
                                              /\ log'[j].type = SESSION_START
      BY DEF FirstMessageStarts
    <3>1. CASE i \in 1 .. Len(log)
      <4>1. PICK j \in 1 .. i - 1 : /\ log[j].sock = log[i].sock
                                    /\ log[j].life = log[i].life
                                    /\ log[j].type = SESSION_START
        BY <2>1, <2>4, <3>1 DEF FirstMessageStarts
      <4>2. j \in 1 .. Len(log)
        BY <2>1, <3>1
      <4> QED
        BY <2>1, <3>1, <4>1, <4>2
    <3>2. CASE i = Len(log) + 1
      <4>1. Started(e.sock) /\ e.life = life[e.sock]
        BY <2>1, <2>4, <3>2
      <4>2. PICK j \in 1 .. Len(log) : /\ log[j].sock = e.sock
                                       /\ log[j].life = e.life
                                       /\ log[j].type = SESSION_START
        BY <4>1 DEF Started
      <4>3. j \in 1 .. i - 1
        BY <2>1, <3>2
      <4> QED
        BY <2>1, <3>2, <4>2, <4>3
    <3> QED
      BY <2>1, <3>1, <3>2
  <2> QED
    BY <2>2, <2>3, <2>4
<1>5. ASSUME NEW c \in Cpus, SendSubmit(c) PROVE StartInv'
  <2>1. handler[c] \in Handler /\ handler[c] # None
    BY <1>0, <1>5 DEF SendSubmit
  <2>2. PICK s \in Socks : s = handler[c].sock
    BY <2>1 DEF Handler
  <2>3. PICK e \in Event : e = NewEvent(handler[c].flag, s, handler[c].dest)
    BY <2>1, NewEventType DEF Handler, EventTypes
  <2>4. e.type = handler[c].flag /\ e.sock = s /\ e.life = life[e.sock]
    BY <2>3 DEF NewEvent
  <2>5. log' = Append(log, e) /\ UNCHANGED <<open, life>> /\ open[s]
    BY <1>5, <2>1, <2>2, <2>3 DEF SendSubmit, PerfSubmit, StartInv
  <2>6. /\ handler' = [handler EXCEPT ![c] = None]
        /\ tracing' = tracing \/ (handler[c].flag = SESSION_START /\ tracing' = tracing \cup {s})
    BY <1>5, <2>2 DEF SendSubmit, TracingUpdate
  <2>7. handler[c].flag # SESSION_START => Started(s)
    BY <2>1, <2>2 DEF StartInv, Handler
  <2>8. FirstMessageStarts' /\ \A t \in Socks : Started(t) => Started(t)'
    BY <1>4, <2>4, <2>5, <2>7 DEF StartInv
  <2>9. e.type = SESSION_START => Started(s)'
    BY <1>4, <2>4, <2>5
  <2>10. TracedIsStarted'
    BY <1>0, <2>4, <2>5, <2>6, <2>8, <2>9 DEF StartInv
  <2>11. HandlerIsStarted'
    BY <1>0, <2>5, <2>6, <2>8 DEF StartInv, Handler
  <2> QED
    BY <2>8, <2>10, <2>11 DEF StartInv
<1>6. ASSUME NEW c \in Cpus, NEW s \in Socks, kprobe__inet_release(c, s)
      PROVE  StartInv'
  <2>1. /\ UNCHANGED <<life, handler>>
        /\ \A t \in Socks : t # s => open'[t] = open[t]
        /\ \A b \in Cpus : handler[b] # None => handler[b].sock # s
    BY <1>0, <1>6 DEF kprobe__inet_release
  <2>2. CASE s \in tracing
    <3> DEFINE e == NewEvent(SESSION_END, s, None)
    <3>1. e \in Event
      BY NewEventType DEF EventTypes
    <3>2. e.sock = s /\ e.life = life[e.sock]
      BY DEF NewEvent
    <3>3. log' = Append(log, e) /\ tracing' = tracing \ {s}
      BY <1>6, <2>2 DEF kprobe__inet_release, PerfSubmit, TracingDelete
    <3>4. Started(s)
      BY <2>2 DEF StartInv
    <3> HIDE DEF e
    <3>5. FirstMessageStarts' /\ \A t \in Socks : Started(t) => Started(t)'
      BY <1>4, <2>1, <3>1, <3>2, <3>3, <3>4 DEF StartInv
    <3>6. TracedIsStarted'
      BY <1>0, <2>1, <3>3, <3>5 DEF StartInv
    <3>7. HandlerIsStarted'
      BY <1>0, <2>1, <3>5 DEF StartInv, Handler
    <3> QED
      BY <3>5, <3>6, <3>7 DEF StartInv
  <2>3. CASE s \notin tracing
    <3>1. log' = log /\ tracing' = tracing
      BY <1>6, <2>3 DEF kprobe__inet_release
    <3>2. \A t \in Socks : Started(t)' <=> Started(t)
      BY <2>1, <3>1 DEF Started
    <3>3. TracedIsStarted'
      BY <1>0, <2>1, <2>3, <3>1, <3>2 DEF StartInv
    <3>4. HandlerIsStarted'
      BY <1>0, <2>1, <3>2 DEF StartInv, Handler
    <3> QED
      BY <3>1, <3>3, <3>4 DEF StartInv, FirstMessageStarts
  <2> QED
    BY <2>2, <2>3
<1>7. CASE StartPolling \/ Tick \/ ExpirationScan \/ UNCHANGED vars
  BY <1>1, <1>7 DEF StartPolling, Tick, ExpirationScan, vars, kernelVars
<1>8. ASSUME NEW s \in Socks, ExpireOne(s) PROVE StartInv'
  BY <1>1, <1>8 DEF ExpireOne, kernelVars
<1>9. ASSUME NEW c \in Cpus, Poll(c) PROVE StartInv'
  BY <1>1, <1>9 DEF Poll
<1> QED
  BY <1>2, <1>3, <1>5, <1>6, <1>7, <1>8, <1>9 DEF Next

\* For any number of CPUs sending through a socket at once, any size of the
\* tracing table and any reuse of socket addresses, the kernel never numbers a
\* life's events SESSION_CONTINUE or SESSION_END before a SESSION_START.
THEOREM EveryLifeStarts == Spec => []FirstMessageStarts
<1>1. Init => StartInv
  BY DEF Init, StartInv, TracedIsStarted, HandlerIsStarted, FirstMessageStarts
<1>2. Spec => [](TypeOK /\ StartInv)
  BY <1>1, TypeInit, TypeStep, StartStep, PTL DEF Spec
<1>3. StartInv => FirstMessageStarts
  BY DEF StartInv
<1> QED
  BY <1>2, <1>3, PTL

-----------------------------------------------------------------------------
(* Sessions that end. *)

\* A report that is put on output_queue is there.
LEMMA OutputIsThere ==
    ASSUME TypeOK, NEW s \in Socks, NEW b \in BOOLEAN, reports' = Output(s, b)
    PROVE  \E i \in 1 .. Len(reports') : reports'[i].msgs = session_tracking[s].msgs
<1> DEFINE r == [sock |-> s, msgs |-> session_tracking[s].msgs,
                 error |-> session_tracking[s].error, from_bpf |-> b]
<1>1. r.msgs = session_tracking[s].msgs
  OBVIOUS
<1>2. reports' = Append(reports, r)
  BY DEF Output
<1>3. reports \in Seq(Report)
  BY DEF TypeOK
<1> HIDE DEF r
<1>4. Len(reports') = Len(reports) + 1 /\ Len(reports) \in Nat /\ reports'[Len(reports) + 1] = r
  BY <1>2, <1>3
<1>5. Len(reports) + 1 \in 1 .. Len(reports')
  BY <1>4
<1> QED
  BY <1>1, <1>4, <1>5

\* Only a SESSION_END and the expiration worker end a session, and both report it.
LEMMA EndStep ==
    ASSUME TypeOK, ~ContainerLabels, [Next]_vars, NEW s \in Socks, Tracked(s),
           session_tracking'[s] = None
    PROVE  \E i \in 1 .. Len(reports') : reports'[i].msgs = session_tracking[s].msgs
<1>0. /\ session_tracking \in [Socks -> Session \cup {None}] /\ ring \in [Cpus -> Seq(Event)]
      /\ None \notin Session /\ SessionMaxDuration \in Nat
  BY NoneAssumption, UdpSessionAssumption DEF TypeOK
<1>1. session_tracking[s] \in Session /\ session_tracking[s] # None
  BY <1>0 DEF Tracked
<1>2. ASSUME session_tracking' = session_tracking PROVE FALSE
  BY <1>1, <1>2
<1>3. ASSUME NEW c \in Cpus, Poll(c)
      PROVE  \E i \in 1 .. Len(reports') : reports'[i].msgs = session_tracking[s].msgs
  <2> DEFINE e == Head(ring[c])
  <2>1. e \in Event
    BY <1>0, <1>3 DEF Poll
  <2>2. e.sock \in Socks
    BY <2>1 DEF Event
  <2>3. ASSUME NEW v \in Session, session_tracking' = [session_tracking EXCEPT ![e.sock] = v]
        PROVE  FALSE
    BY <1>0, <1>1, <2>2, <2>3
  <2>4. CASE e.type = SESSION_START
    <3>1. session_tracking' = [session_tracking EXCEPT ![e.sock] = NewSession(e)]
      BY <1>3, <2>4 DEF Poll
    <3> HIDE DEF e
    <3>2. e \in Message
      BY <2>1, <2>4 DEF Message, SESSION_START, SESSION_END
    <3>3. {e} \in SUBSET Message /\ "" \in Errors /\ 0 \in 0 .. SessionMaxDuration + 1
      BY <1>0, <3>2 DEF Errors
    <3>4. NewSession(e) \in Session
      BY <3>3 DEF NewSession, Session
    <3> QED
      BY <2>3, <3>1, <3>4
  <2>5. CASE e.type # SESSION_START /\ Tracked(e.sock) /\ IsContinue(e)
    <3>1. session_tracking[e.sock] \in Session
      BY <1>0, <2>2, <2>5 DEF Tracked
    <3>2. e \in Message
      BY <2>1, <2>5 DEF Message, IsContinue, SESSION_CONTINUE, SESSION_END
    <3>3. AddMessage(e) \in Session
      BY <1>0, <3>1, <3>2 DEF AddMessage, Session
    <3>4. session_tracking' = [session_tracking EXCEPT ![e.sock] = AddMessage(e)]
      BY <1>3, <2>5 DEF Poll
    <3> QED
      BY <2>3, <3>3, <3>4
  <2>6. CASE e.type # SESSION_START /\ Tracked(e.sock) /\ ~IsContinue(e)
    <3>1. session_tracking' = PopSession(e.sock) /\ reports' = Output(e.sock, TRUE)
      BY <1>3, <2>6 DEF Poll
    <3>2. s = e.sock
      BY <1>0, <1>1, <2>2, <3>1 DEF PopSession
    <3> HIDE DEF e
    <3> QED
      BY <3>1, <3>2, OutputIsThere
  <2>7. CASE e.type # SESSION_START /\ ~Tracked(e.sock)
    BY <1>2, <1>3, <2>7 DEF Poll
  <2> QED
    BY <2>4, <2>5, <2>6, <2>7
<1>4. ASSUME NEW t \in Socks, ExpireOne(t)
      PROVE  \E i \in 1 .. Len(reports') : reports'[i].msgs = session_tracking[s].msgs
  <2>1. CASE ~Tracked(t)
    BY <1>2, <1>4, <2>1 DEF ExpireOne
  <2>2. CASE Tracked(t)
    <3>1. session_tracking' = PopSession(t) /\ reports' = Output(t, FALSE)
      BY <1>4, <2>2 DEF ExpireOne
    <3>2. s = t
      BY <1>0, <1>1, <3>1 DEF PopSession
    <3> QED
      BY <3>1, <3>2, OutputIsThere
  <2> QED
    BY <2>1, <2>2
<1>5. CASE Tick
  <2>1. \/ session_tracking'[s] = session_tracking[s]
        \/ session_tracking'[s] = [session_tracking[s] EXCEPT !.age = @ + 1]
           /\ session_tracking[s].age <= SessionMaxDuration
    BY <1>5 DEF Tick
  <2>2. session_tracking[s].age <= SessionMaxDuration =>
            [session_tracking[s] EXCEPT !.age = @ + 1] \in Session
    <3>1. session_tracking[s].age <= SessionMaxDuration =>
              session_tracking[s].age + 1 \in 0 .. SessionMaxDuration + 1
      BY <1>0, <1>1 DEF Session
    <3> QED
      BY <1>1, <3>1 DEF Session
  <2> QED
    BY <1>0, <1>1, <2>1, <2>2
<1>6. CASE ExpirationScan
  <2>1. \/ session_tracking'[s] = session_tracking[s]
        \/ session_tracking'[s]
             = [session_tracking[s] EXCEPT !.error = "session_max_duration_exceeded"]
    BY <1>6 DEF ExpirationScan
  <2>2. [session_tracking[s] EXCEPT !.error = "session_max_duration_exceeded"] \in Session
    BY <1>1 DEF Session, Errors
  <2> QED
    BY <1>0, <1>1, <2>1, <2>2
<1>7. CASE \/ StartPolling \/ UNCHANGED vars
           \/ \E t \in Socks : OpenSocket(t)
           \/ \E c \in Cpus, t \in Socks, d \in Dests : SendLookup(c, t, d)
           \/ \E c \in Cpus : SendSubmit(c)
           \/ \E c \in Cpus, t \in Socks : kprobe__inet_release(c, t)
  BY <1>2, <1>7 DEF StartPolling, OpenSocket, SendLookup, SendSubmit, kprobe__inet_release, vars,
                    workerVars
<1> QED
  BY <1>3, <1>4, <1>5, <1>6, <1>7 DEF Next

\* What ends a session puts an event for it on output_queue, whatever is lost and
\* whichever thread ends it.  With container_labels the expiration worker raises
\* instead.
THEOREM EndsAreReported == ASSUME ~ContainerLabels PROVE Spec => SessionEndReported
<1>1. TypeOK /\ [Next]_vars =>
        [\A s \in Socks : Tracked(s) /\ session_tracking'[s] = None =>
            \E i \in 1 .. Len(reports') : reports'[i].msgs = session_tracking[s].msgs]_vars
  BY EndStep
<1> QED
  BY <1>1, TypeInit, TypeStep, PTL DEF Spec, SessionEndReported

-----------------------------------------------------------------------------
(***************************************************************************)
(* With one CPU, a table with room for every socket and rings that never   *)
(* fill up, sessions are exact.  The ring is then the end of the log, and  *)
(* a tracked session is what the log has of one life of its socket before  *)
(* that end.  The log in turn has the lives of a socket one after the      *)
(* other: the first event of a life is its only start, and a life with     *)
(* events has a SESSION_END, its last, before the next one has an event.   *)
(***************************************************************************)

\* BPF_HASH(tracing) has room for every socket.
TableFits == IsFiniteSet(Socks) /\ Cardinality(Socks) <= TracingCap

\* No event meets a full ring.
RingsHaveRoom == \A c \in Cpus : Len(ring[c]) < RingCap

SameLife(e, f) == e.sock = f.sock /\ e.life = f.life

\* One of the first n events of lg ends the life of e.
LifeEnded(lg, n, e) == \E k \in 1 .. n : SameLife(lg[k], e) /\ lg[k].type = SESSION_END

\* Of two events of one life, the first is no end and the second no start; of two
\* lives of a socket, the first is ended before the second has an event.
LogShape(lg) ==
    \A j \in 1 .. Len(lg) : \A i \in 1 .. j - 1 :
        /\ SameLife(lg[i], lg[j]) => lg[i].type # SESSION_END /\ lg[j].type # SESSION_START
        /\ lg[i].sock = lg[j].sock /\ lg[i].life # lg[j].life => LifeEnded(lg, j - 1, lg[i])

\* An event of the present life of a socket that is open.
Present(e) == open[e.sock] /\ e.life = life[e.sock]

LivesBounded == \A s \in Socks : life[s] \in 0 .. MaxLives /\ (open[s] => life[s] # 0)
TracedIsOpen == \A s \in tracing : open[s]
LogEntries ==
    \A i \in 1 .. Len(log) :
        /\ log[i].life \in 1 .. life[log[i].sock]
        /\ Present(log[i]) => log[i].sock \in tracing /\ log[i].type # SESSION_END
        /\ ~Present(log[i]) => LifeEnded(log, Len(log), log[i])
HandlerAgrees ==
    \A c \in Cpus : handler[c] # None =>
        /\ open[handler[c].sock]
        /\ handler[c].flag = SESSION_START <=> handler[c].sock \notin tracing

KernelInv == LogShape(log) /\ LivesBounded /\ TracedIsOpen /\ LogEntries /\ HandlerAgrees

\* Appending to a log.
LEMMA Appended ==
    ASSUME NEW lg \in Seq(Event), NEW e \in Event
    PROVE  /\ Len(Append(lg, e)) = Len(lg) + 1 /\ Len(lg) \in Nat
           /\ \A i \in 1 .. Len(lg) : Append(lg, e)[i] = lg[i]
           /\ Append(lg, e)[Len(lg) + 1] = e
OBVIOUS

\* A life that is ended stays so.
LEMMA EndedStays ==
    ASSUME NEW lg \in Seq(Event), NEW e \in Event, NEW f \in Event,
           NEW n \in 0 .. Len(lg), LifeEnded(lg, n, f)
    PROVE  LifeEnded(Append(lg, e), n, f) /\ LifeEnded(Append(lg, e), Len(lg) + 1, f)
<1>1. PICK k \in 1 .. n : SameLife(lg[k], f) /\ lg[k].type = SESSION_END
  BY DEF LifeEnded
<1>2. k \in 1 .. Len(lg) /\ k \in 1 .. Len(lg) + 1 /\ Append(lg, e)[k] = lg[k]
  BY Appended
<1> QED
  BY <1>1, <1>2 DEF LifeEnded

\* What a kprobe submits keeps the shape of the log: it is of the present life of
\* an open socket, and is a start exactly when the table does not have the socket.
LEMMA SubmitShape ==
    ASSUME TypeOK, LogShape(log), LogEntries,
           NEW e \in Event, Present(e), e.type = SESSION_START <=> e.sock \notin tracing
    PROVE  LogShape(Append(log, e))
<1>0. log \in Seq(Event) /\ Len(log) \in Nat
  BY DEF TypeOK
<1> DEFINE lh == Append(log, e)
<1>1. /\ Len(lh) = Len(log) + 1
      /\ \A i \in 1 .. Len(log) : lh[i] = log[i]
      /\ lh[Len(log) + 1] = e
  BY <1>0, Appended
<1>2. \A n \in 0 .. Len(log) : \A f \in Event :
          LifeEnded(log, n, f) => LifeEnded(lh, n, f)
  BY <1>0, EndedStays
<1> HIDE DEF lh
<1> SUFFICES ASSUME NEW j \in 1 .. Len(lh), NEW i \in 1 .. j - 1
             PROVE  /\ SameLife(lh[i], lh[j]) => lh[i].type # SESSION_END /\ lh[j].type # SESSION_START
                    /\ lh[i].sock = lh[j].sock /\ lh[i].life # lh[j].life =>
                           LifeEnded(lh, j - 1, lh[i])
  BY DEF LogShape, lh
<1>3. /\ i \in 1 .. Len(log) /\ j - 1 \in 0 .. Len(log)
      /\ j \in 1 .. Len(log) \/ j = Len(log) + 1
  BY <1>0, <1>1
<1>4. lh[i] = log[i] /\ log[i] \in Event
  BY <1>0, <1>1, <1>3
<1>5. CASE j \in 1 .. Len(log)
  <2>1. lh[j] = log[j]
    BY <1>1, <1>5
  <2>2. /\ SameLife(log[i], log[j]) => log[i].type # SESSION_END /\ log[j].type # SESSION_START
        /\ log[i].sock = log[j].sock /\ log[i].life # log[j].life => LifeEnded(log, j - 1, log[i])
    BY <1>5 DEF LogShape
  <2> QED
    BY <1>2, <1>3, <1>4, <2>1, <2>2
<1>6. CASE j = Len(log) + 1
  <2>1. lh[j] = e /\ j - 1 = Len(log)
    BY <1>0, <1>1, <1>6
  <2>2. /\ Present(log[i]) => log[i].sock \in tracing /\ log[i].type # SESSION_END
        /\ ~Present(log[i]) => LifeEnded(log, Len(log), log[i])
    BY <1>3 DEF LogEntries
  <2>3. SameLife(log[i], e) => Present(log[i])
    BY DEF SameLife, Present
  <2>4. log[i].sock = e.sock /\ log[i].life # e.life => ~Present(log[i])
    BY DEF Present
  <2> QED
    BY <1>2, <1>3, <1>4, <2>1, <2>2, <2>3, <2>4 DEF SameLife
<1> QED
  BY <1>3, <1>5, <1>6

\* Where every socket has room, the table takes a new one.
LEMMA TableTakes ==
    ASSUME TypeOK, TableFits, NEW s \in Socks, s \notin tracing
    PROVE  TracingUpdate(s) = tracing \cup {s}
<1>1. tracing \in SUBSET Socks /\ tracing # Socks
  BY DEF TypeOK
<1>2. /\ Cardinality(tracing) <= Cardinality(Socks) /\ Cardinality(tracing) # Cardinality(Socks)
      /\ IsFiniteSet(tracing)
  BY <1>1, FS_Subset DEF TableFits
<1>3. Cardinality(tracing) \in Nat /\ Cardinality(Socks) \in Nat /\ TracingCap \in Nat
  BY <1>2, FS_CardinalityType, UdpSessionAssumption DEF TableFits
<1>4. Cardinality(tracing) < TracingCap
  BY <1>2, <1>3 DEF TableFits
<1> QED
  BY <1>4 DEF TracingUpdate

\* Every step of the kernel keeps what the log, the table and the kprobe have to
\* do with each other; the worker touches none of them.
LEMMA KernelStep ==
    ASSUME NEW cpu, Cpus = {cpu}, TableFits, TypeOK, KernelInv, [Next]_vars
    PROVE  KernelInv'
<1>0. /\ open \in [Socks -> BOOLEAN] /\ life \in [Socks -> Nat] /\ tracing \subseteq Socks
      /\ handler \in [Cpus -> Handler \cup {None}] /\ log \in Seq(Event) /\ Len(log) \in Nat
      /\ \A i \in 1 .. Len(log) : log[i] \in Event /\ log[i].sock \in Socks /\ log[i].life \in Nat
  <2>1. /\ open \in [Socks -> BOOLEAN] /\ life \in [Socks -> Nat] /\ tracing \subseteq Socks
        /\ handler \in [Cpus -> Handler \cup {None}] /\ log \in Seq(Event)
    BY DEF TypeOK
  <2>2. Len(log) \in Nat /\ \A i \in 1 .. Len(log) : log[i] \in Event
    BY <2>1
  <2> QED
    BY <2>1, <2>2 DEF Event
<1>1. LogShape(log) /\ LivesBounded /\ TracedIsOpen /\ LogEntries /\ HandlerAgrees
  BY DEF KernelInv
<1>2. MaxLives \in Nat
  BY UdpSessionAssumption
<1>3. ASSUME UNCHANGED <<open, life, tracing, handler, log>> PROVE KernelInv'
  BY <1>1, <1>3 DEF KernelInv, LivesBounded, TracedIsOpen, LogEntries, Present, HandlerAgrees
<1>4. ASSUME NEW s \in Socks, OpenSocket(s) PROVE KernelInv'
  <2>1. /\ ~open[s] /\ life[s] < MaxLives
        /\ open' = [open EXCEPT ![s] = TRUE] /\ life' = [life EXCEPT ![s] = @ + 1]
        /\ UNCHANGED <<tracing, handler, log>>
    BY <1>4 DEF OpenSocket
  <2>2. /\ open'[s] = TRUE /\ life'[s] = life[s] + 1
        /\ \A t \in Socks \ {s} : open'[t] = open[t] /\ life'[t] = life[t]
    BY <1>0, <2>1
  <2>3. LivesBounded'
    <3>1. \A t \in Socks : life'[t] \in 0 .. MaxLives /\ (open'[t] => life'[t] # 0)
      BY <1>0, <1>1, <1>2, <2>1, <2>2 DEF LivesBounded
    <3> QED
      BY <3>1 DEF LivesBounded
  <2>4. TracedIsOpen'
    BY <1>0, <1>1, <2>1, <2>2 DEF TracedIsOpen
  <2>5. LogEntries'
    <3> SUFFICES ASSUME NEW i \in 1 .. Len(log)
                 PROVE  /\ log[i].life \in 1 .. life'[log[i].sock]
                        /\ Present(log[i])' => log[i].sock \in tracing /\ log[i].type # SESSION_END
                        /\ ~Present(log[i])' => LifeEnded(log, Len(log), log[i])
      BY <2>1 DEF LogEntries, Present
    <3>1. /\ log[i].life \in 1 .. life[log[i].sock]
          /\ Present(log[i]) => log[i].sock \in tracing /\ log[i].type # SESSION_END
          /\ ~Present(log[i]) => LifeEnded(log, Len(log), log[i])
      BY <1>1 DEF LogEntries
    <3>2. CASE log[i].sock = s
      <4>1. ~Present(log[i])
        BY <2>1, <3>2 DEF Present
      <4>2. log[i].life \in 1 .. life'[s] /\ log[i].life # life'[s]
        BY <1>0, <2>2, <3>1, <3>2
      <4>3. ~Present(log[i])'
        BY <2>1, <3>2, <4>2 DEF Present
      <4> QED
        BY <3>1, <3>2, <4>1, <4>2, <4>3
    <3>3. CASE log[i].sock # s
      <4>1. Present(log[i])' <=> Present(log[i])
        BY <1>0, <2>1, <2>2, <3>3 DEF Present
      <4> QED
        BY <1>0, <2>2, <3>1, <3>3, <4>1
    <3> QED
      BY <3>2, <3>3
  <2>6. HandlerAgrees'
    BY <1>0, <1>1, <2>1, <2>2 DEF HandlerAgrees, Handler
  <2> QED
    BY <1>1, <2>1, <2>3, <2>4, <2>5, <2>6 DEF KernelInv
<1>5. ASSUME NEW c \in Cpus, NEW s \in Socks, NEW d \in Dests, SendLookup(c, s, d)
      PROVE  KernelInv'
  <2>1. /\ open[s] /\ UNCHANGED <<open, life, tracing, log>>
        /\ handler' = [handler EXCEPT ![c] =
               [sock |-> s, dest |-> d,
                flag |-> IF s \in tracing THEN SESSION_CONTINUE ELSE SESSION_START]]
    BY <1>5 DEF SendLookup
  <2>2. handler'[c].sock = s /\ (handler'[c].flag = SESSION_START <=> s \notin tracing)
    BY <1>0, <2>1 DEF SESSION_START, SESSION_CONTINUE
  <2>3. HandlerAgrees'
    BY <2>1, <2>2 DEF HandlerAgrees
  <2> QED
    BY <1>1, <2>1, <2>3 DEF KernelInv, LivesBounded, TracedIsOpen, LogEntries, Present
<1>6. ASSUME NEW c \in Cpus, SendSubmit(c) PROVE KernelInv'
  <2> DEFINE s == handler[c].sock
             e == NewEvent(handler[c].flag, s, handler[c].dest)
  <2>1. handler[c] \in Handler /\ s \in Socks
    BY <1>0, <1>6 DEF SendSubmit, Handler
  <2>2. /\ e \in Event /\ e.sock = s /\ e.life = life[s] /\ e.type = handler[c].flag
        /\ e.type # SESSION_END
    <3>1. e \in Event
      BY <2>1, NewEventType DEF Handler, EventTypes
    <3> QED
      BY <2>1, <3>1 DEF NewEvent, Handler, SESSION_START, SESSION_CONTINUE, SESSION_END
  <2>3. open[s] /\ (handler[c].flag = SESSION_START <=> s \notin tracing)
    BY <1>1, <1>6 DEF HandlerAgrees, SendSubmit
  <2>4. /\ log' = Append(log, e) /\ UNCHANGED <<open, life>>
        /\ tracing' = IF handler[c].flag = SESSION_START THEN TracingUpdate(s) ELSE tracing
        /\ handler' = [handler EXCEPT ![c] = None]
    BY <1>6 DEF SendSubmit, PerfSubmit
  <2> HIDE DEF s, e
  <2>5. tracing' = tracing \cup {s}
    <3>1. CASE s \in tracing
      BY <2>3, <2>4, <3>1
    <3>2. CASE s \notin tracing
      BY <2>1, <2>3, <2>4, <3>2, TableTakes
    <3> QED
      BY <3>1, <3>2
  <2>6. Present(e)
    BY <2>2, <2>3 DEF Present
  <2>7. LogShape(log)'
    <3>1. LogShape(Append(log, e))
      BY <1>1, <2>2, <2>3, <2>6, SubmitShape
    <3> QED
      BY <2>4, <3>1
  <2>8. /\ Len(log') = Len(log) + 1 /\ log'[Len(log) + 1] = e
        /\ \A i \in 1 .. Len(log) : log'[i] = log[i]
    BY <1>0, <2>2, <2>4, Appended
  <2>9. LogEntries'
    <3> SUFFICES ASSUME NEW i \in 1 .. Len(log) + 1
                 PROVE  /\ log'[i].life \in 1 .. life[log'[i].sock]
                        /\ Present(log'[i]) => log'[i].sock \in tracing' /\ log'[i].type # SESSION_END
                        /\ ~Present(log'[i]) => LifeEnded(log', Len(log) + 1, log'[i])
      BY <2>4, <2>8 DEF LogEntries, Present
    <3>1. CASE i \in 1 .. Len(log)
      <4>1. /\ log[i].life \in 1 .. life[log[i].sock]
            /\ Present(log[i]) => log[i].sock \in tracing /\ log[i].type # SESSION_END
            /\ ~Present(log[i]) => LifeEnded(log, Len(log), log[i])
        BY <1>1, <3>1 DEF LogEntries
      <4>2. LifeEnded(log, Len(log), log[i]) => LifeEnded(log', Len(log) + 1, log[i])
        BY <1>0, <2>2, <2>4, <3>1, EndedStays
      <4> QED
        BY <2>5, <2>8, <3>1, <4>1, <4>2
    <3>2. CASE i = Len(log) + 1
      <4>1. log'[i] = e
        BY <2>8, <3>2
      <4>2. life[s] \in 1 .. life[s]
        BY <1>0, <1>1, <2>1, <2>3 DEF LivesBounded
      <4> QED
        BY <2>2, <2>5, <2>6, <4>1, <4>2
    <3> QED
      BY <1>0, <3>1, <3>2
  <2>10. TracedIsOpen'
    BY <1>1, <2>3, <2>4, <2>5 DEF TracedIsOpen
  <2>11. HandlerAgrees'
    BY <1>0, <2>4 DEF HandlerAgrees
  <2> QED
    BY <1>1, <2>4, <2>7, <2>9, <2>10, <2>11 DEF KernelInv, LivesBounded
<1>7. ASSUME NEW c \in Cpus, NEW s \in Socks, kprobe__inet_release(c, s) PROVE KernelInv'
  <2>1. /\ open[s] /\ open' = [open EXCEPT ![s] = FALSE]
        /\ handler[c] = None /\ UNCHANGED <<life, handler>>
    BY <1>7 DEF kprobe__inet_release
  <2>2. open'[s] = FALSE /\ \A t \in Socks \ {s} : open'[t] = open[t]
    BY <1>0, <2>1
  <2>3. LivesBounded'
    BY <1>1, <2>1, <2>2 DEF LivesBounded
  <2>4. HandlerAgrees'
    BY <2>1 DEF HandlerAgrees
  <2>5. CASE s \notin tracing
    <3>1. UNCHANGED <<tracing, log>>
      BY <1>7, <2>5 DEF kprobe__inet_release
    <3>2. TracedIsOpen'
      BY <1>0, <1>1, <2>2, <2>5, <3>1 DEF TracedIsOpen
    <3>3. LogEntries'
      <4>1. ASSUME NEW i \in 1 .. Len(log) PROVE Present(log[i])' <=> Present(log[i])
        <5>1. CASE log[i].sock = s
          BY <1>1, <2>2, <2>5, <3>1, <5>1 DEF LogEntries, Present
        <5>2. CASE log[i].sock # s
          BY <1>0, <2>1, <2>2, <3>1, <5>2 DEF Present
        <5> QED
          BY <5>1, <5>2
      <4>2. \A i \in 1 .. Len(log) :
                /\ log[i].life \in 1 .. life[log[i].sock]
                /\ Present(log[i])' => log[i].sock \in tracing /\ log[i].type # SESSION_END
                /\ ~Present(log[i])' => LifeEnded(log, Len(log), log[i])
        BY <1>1, <4>1 DEF LogEntries
      <4> QED
        BY <2>1, <3>1, <4>2 DEF LogEntries, Present
    <3> QED
      BY <1>1, <2>3, <2>4, <3>1, <3>2, <3>3 DEF KernelInv
  <2>6. CASE s \in tracing
    <3> DEFINE e == NewEvent(SESSION_END, s, None)
    <3>1. /\ e \in Event /\ e.sock = s /\ e.life = life[s] /\ e.type = SESSION_END
      <4>1. e \in Event
        BY NewEventType DEF EventTypes
      <4> QED
        BY <4>1 DEF NewEvent
    <3>2. log' = Append(log, e) /\ tracing' = tracing \ {s}
      BY <1>7, <2>6 DEF kprobe__inet_release, PerfSubmit, TracingDelete
    <3> HIDE DEF e
    <3>3. Present(e) /\ (e.type = SESSION_START <=> e.sock \notin tracing)
      BY <2>1, <2>6, <3>1 DEF Present, SESSION_START, SESSION_END
    <3>4. LogShape(log)'
      <4>1. LogShape(Append(log, e))
        BY <1>1, <3>1, <3>3, SubmitShape
      <4> QED
        BY <3>2, <4>1
    <3>5. /\ Len(log') = Len(log) + 1 /\ log'[Len(log) + 1] = e
          /\ \A i \in 1 .. Len(log) : log'[i] = log[i]
      BY <1>0, <3>1, <3>2, Appended
    <3>6. \A i \in 1 .. Len(log) + 1 : SameLife(e, log'[i]) => LifeEnded(log', Len(log) + 1, log'[i])
      BY <1>0, <3>1, <3>5 DEF LifeEnded
    <3>7. LogEntries'
      <4> SUFFICES ASSUME NEW i \in 1 .. Len(log) + 1
                   PROVE  /\ log'[i].life \in 1 .. life[log'[i].sock]
                          /\ Present(log[i])' => log'[i].sock \in tracing' /\ log'[i].type # SESSION_END
                          /\ ~Present(log[i])' => LifeEnded(log', Len(log) + 1, log'[i])
        BY <2>1, <3>5 DEF LogEntries, Present
      <4>1. CASE i \in 1 .. Len(log)
        <5>1. /\ log[i].life \in 1 .. life[log[i].sock]
              /\ Present(log[i]) => log[i].sock \in tracing /\ log[i].type # SESSION_END
              /\ ~Present(log[i]) => LifeEnded(log, Len(log), log[i])
          BY <1>1, <4>1 DEF LogEntries
        <5>2. LifeEnded(log, Len(log), log[i]) => LifeEnded(log', Len(log) + 1, log[i])
          BY <1>0, <3>1, <3>2, <4>1, EndedStays
        <5>3. log'[i] = log[i]
          BY <3>5, <4>1
        <5>4. CASE log[i].sock = s
          <6>1. ~Present(log[i])'
            BY <2>2, <3>5, <4>1, <5>4 DEF Present
          <6>2. CASE log[i].life = life[s]
            BY <3>1, <3>6, <4>1, <5>1, <5>3, <5>4, <6>1, <6>2 DEF SameLife
          <6>3. CASE log[i].life # life[s]
            BY <5>1, <5>2, <5>3, <5>4, <6>1, <6>3 DEF Present
          <6> QED
            BY <6>2, <6>3
        <5>5. CASE log[i].sock # s
          <6>1. Present(log[i])' <=> Present(log[i])
            BY <1>0, <2>1, <2>2, <3>5, <4>1, <5>5 DEF Present
          <6> QED
            BY <3>2, <5>1, <5>2, <5>3, <5>5, <6>1
        <5> QED
          BY <5>4, <5>5
      <4>2. CASE i = Len(log) + 1
        <5>1. log'[i] = e
          BY <3>5, <4>2
        <5>2. ~Present(log[i])'
          BY <2>2, <3>1, <3>5, <4>2 DEF Present
        <5>3. life[s] \in 1 .. life[s]
          BY <1>0, <1>1, <2>1 DEF LivesBounded
        <5> QED
          BY <3>1, <3>6, <5>1, <5>2, <5>3 DEF SameLife
      <4> QED
        BY <1>0, <4>1, <4>2
    <3>8. TracedIsOpen'
      BY <1>0, <1>1, <2>2, <3>2 DEF TracedIsOpen
    <3> QED
      BY <2>3, <2>4, <3>4, <3>7, <3>8 DEF KernelInv
  <2> QED
    BY <2>5, <2>6
<1>8. CASE StartPolling
  BY <1>3, <1>8 DEF StartPolling, kernelVars
<1>9. ASSUME NEW c \in Cpus, Poll(c) PROVE KernelInv'
  BY <1>3, <1>9 DEF Poll
<1>10. CASE Tick
  BY <1>3, <1>10 DEF Tick, kernelVars
<1>11. CASE ExpirationScan
  BY <1>3, <1>11 DEF ExpirationScan, kernelVars
<1>12. ASSUME NEW s \in Socks, ExpireOne(s) PROVE KernelInv'
  BY <1>3, <1>12 DEF ExpireOne, kernelVars
<1>13. CASE UNCHANGED vars
  BY <1>3, <1>13 DEF vars, kernelVars
<1> QED
  BY <1>4, <1>5, <1>6, <1>7, <1>8, <1>9, <1>10, <1>11, <1>12, <1>13 DEF Next

OfLife(e, s, n) == e.sock = s /\ e.life = n

\* The messages of life n of s among the first p events of lg.
Seen(lg, p, s, n) ==
    {lg[i] : i \in {j \in 1 .. p : OfLife(lg[j], s, n) /\ lg[j].type # SESSION_END}}

\* The first p events of lg have life n of s, without its end, and msgs is what
\* they have of it.
HoldsLife(lg, p, s, n, msgs) ==
    /\ msgs = Seen(lg, p, s, n)
    /\ \E i \in 1 .. p : OfLife(lg[i], s, n)
    /\ \A i \in 1 .. p : OfLife(lg[i], s, n) => lg[i].type # SESSION_END

\* The number of events that were taken from the ring of c, or lost before the
\* worker polled it.
Taken(c) == Len(log) - Len(ring[c])

\* The ring is the rest of the log; before the worker polls there is nothing.
RingIsRest(c) ==
    /\ Len(ring[c]) <= Len(log)
    /\ \A i \in 1 .. Len(ring[c]) : ring[c][i] = log[Taken(c) + i]
    /\ ~polling => ring[c] = <<>> /\ \A s \in Socks : ~Tracked(s)

SessionsExact(c) ==
    \A s \in Socks : Tracked(s) =>
        \E n \in 1 .. MaxLives : HoldsLife(log, Taken(c), s, n, session_tracking[s].msgs)

\* A report of a close is a life that is over.
ReportsExact ==
    \A k \in 1 .. Len(reports) : reports[k].from_bpf =>
        \E n \in 1 .. MaxLives :
            /\ reports[k].msgs = Seen(log, Len(log), reports[k].sock, n)
            /\ \E i \in 1 .. Len(log) :
                   OfLife(log[i], reports[k].sock, n) /\ log[i].type = SESSION_END

WorkerInv(c) == RingIsRest(c) /\ SessionsExact(c) /\ ReportsExact

\* An event after the first p changes nothing of what they have.
LEMMA SeenStays ==
    ASSUME NEW lg \in Seq(Event), NEW e \in Event, NEW p \in 0 .. Len(lg), NEW s, NEW n, NEW msgs
    PROVE  /\ Seen(Append(lg, e), p, s, n) = Seen(lg, p, s, n)
           /\ HoldsLife(lg, p, s, n, msgs) => HoldsLife(Append(lg, e), p, s, n, msgs)
<1>1. \A i \in 1 .. p : Append(lg, e)[i] = lg[i]
  BY Appended
<1>2. Seen(Append(lg, e), p, s, n) = Seen(lg, p, s, n)
  BY <1>1 DEF Seen
<1> QED
  BY <1>1, <1>2 DEF HoldsLife

\* The next event, if it is of that life, is added; otherwise it is passed over.
LEMMA SeenNext ==
    ASSUME NEW lg \in Seq(Event), NEW p \in Nat, p < Len(lg), NEW s, NEW n
    PROVE  /\ OfLife(lg[p + 1], s, n) /\ lg[p + 1].type # SESSION_END =>
                  Seen(lg, p + 1, s, n) = Seen(lg, p, s, n) \cup {lg[p + 1]}
           /\ ~OfLife(lg[p + 1], s, n) => Seen(lg, p + 1, s, n) = Seen(lg, p, s, n)
<1>1. \A i : i \in 1 .. p + 1 <=> i \in 1 .. p \/ i = p + 1
  OBVIOUS
<1> QED
  BY <1>1 DEF Seen

LEMMA HoldsNext ==
    ASSUME NEW lg \in Seq(Event), NEW p \in Nat, p < Len(lg), NEW s, NEW n, NEW msgs,
           HoldsLife(lg, p, s, n, msgs)
    PROVE  /\ ~OfLife(lg[p + 1], s, n) => HoldsLife(lg, p + 1, s, n, msgs)
           /\ OfLife(lg[p + 1], s, n) /\ lg[p + 1].type # SESSION_END =>
                  HoldsLife(lg, p + 1, s, n, msgs \cup {lg[p + 1]})
<1>1. \A i : i \in 1 .. p + 1 <=> i \in 1 .. p \/ i = p + 1
  OBVIOUS
<1>2. /\ msgs = Seen(lg, p, s, n)
      /\ \E i \in 1 .. p : OfLife(lg[i], s, n)
      /\ \A i \in 1 .. p : OfLife(lg[i], s, n) => lg[i].type # SESSION_END
  BY DEF HoldsLife
<1> QED
  BY <1>1, <1>2, SeenNext DEF HoldsLife

\* While the first p events have a life of s without its end, the next event of s
\* belongs to it, and does not start it.
LEMMA NextOfLife ==
    ASSUME NEW lg \in Seq(Event), LogShape(lg), NEW p \in Nat, p < Len(lg), NEW s, NEW n, NEW msgs,
           HoldsLife(lg, p, s, n, msgs), lg[p + 1].sock = s
    PROVE  lg[p + 1].life = n /\ lg[p + 1].type # SESSION_START
<1>1. PICK i \in 1 .. p : OfLife(lg[i], s, n)
  BY DEF HoldsLife
<1>2. p + 1 \in 1 .. Len(lg) /\ (p + 1) - 1 = p
  OBVIOUS
<1>3. /\ SameLife(lg[i], lg[p + 1]) => lg[p + 1].type # SESSION_START
      /\ lg[i].sock = lg[p + 1].sock /\ lg[i].life # lg[p + 1].life => LifeEnded(lg, p, lg[i])
  BY <1>1, <1>2 DEF LogShape
<1>4. ~LifeEnded(lg, p, lg[i])
  BY <1>1 DEF LifeEnded, SameLife, HoldsLife, OfLife
<1> QED
  BY <1>1, <1>3, <1>4 DEF SameLife, OfLife

\* The start of a life is its first event.
LEMMA StartHolds ==
    ASSUME NEW lg \in Seq(Event), LogShape(lg), NEW p \in Nat, p < Len(lg),
           lg[p + 1].type = SESSION_START
    PROVE  HoldsLife(lg, p + 1, lg[p + 1].sock, lg[p + 1].life, {lg[p + 1]})
<1> DEFINE e == lg[p + 1]
<1>1. \A i : i \in 1 .. p + 1 <=> i \in 1 .. p \/ i = p + 1
  OBVIOUS
<1>2. p + 1 \in 1 .. Len(lg) /\ (p + 1) - 1 = p
  OBVIOUS
<1>3. \A i \in 1 .. p : ~OfLife(lg[i], e.sock, e.life)
  BY <1>2 DEF LogShape, SameLife, OfLife
<1>4. OfLife(e, e.sock, e.life) /\ e.type # SESSION_END
  BY DEF OfLife, SESSION_START, SESSION_END
<1>5. Seen(lg, p, e.sock, e.life) = {}
  BY <1>3 DEF Seen
<1>6. Seen(lg, p + 1, e.sock, e.life) = {e}
  <2>1. Seen(lg, p + 1, e.sock, e.life) = Seen(lg, p, e.sock, e.life) \cup {e}
    BY <1>4, SeenNext
  <2> QED
    BY <1>5, <2>1
<1> QED
  BY <1>1, <1>3, <1>4, <1>6 DEF HoldsLife

\* The end of a life is its last event.
LEMMA EndIsLast ==
    ASSUME NEW lg \in Seq(Event), LogShape(lg), NEW p \in Nat, p < Len(lg), NEW s, NEW n,
           OfLife(lg[p + 1], s, n), lg[p + 1].type = SESSION_END
    PROVE  Seen(lg, Len(lg), s, n) = Seen(lg, p, s, n)
<1>1. ASSUME NEW i \in 1 .. Len(lg), OfLife(lg[i], s, n), lg[i].type # SESSION_END
      PROVE  i \in 1 .. p
  <2>1. i # p + 1
    BY <1>1
  <2>2. ASSUME i > p + 1 PROVE FALSE
    <3>1. p + 1 \in 1 .. i - 1
      BY <2>2
    <3> QED
      BY <1>1, <3>1 DEF LogShape, SameLife, OfLife
  <2> QED
    BY <2>1, <2>2
<1>2. \A i \in 1 .. p : i \in 1 .. Len(lg)
  OBVIOUS
<1> QED
  BY <1>1, <1>2 DEF Seen

\* A life that is over stays as it is.
LEMMA EndedSeen ==
    ASSUME NEW lg \in Seq(Event), NEW e \in Event, LogShape(Append(lg, e)), NEW s, NEW n,
           NEW i \in 1 .. Len(lg), OfLife(lg[i], s, n), lg[i].type = SESSION_END
    PROVE  Seen(Append(lg, e), Len(lg) + 1, s, n) = Seen(lg, Len(lg), s, n)
<1> DEFINE lh == Append(lg, e)
<1>1. /\ lh \in Seq(Event) /\ Len(lh) = Len(lg) + 1 /\ Len(lg) \in Nat
      /\ lh[i] = lg[i] /\ lh[Len(lg) + 1] = e
  BY Appended
<1>2. Seen(lh, Len(lg), s, n) = Seen(lg, Len(lg), s, n)
  BY <1>1, SeenStays
<1> HIDE DEF lh
<1>3. Len(lg) + 1 \in 1 .. Len(lh) /\ i \in 1 .. (Len(lg) + 1) - 1
  BY <1>1
<1>4. ~OfLife(lh[Len(lg) + 1], s, n)
  BY <1>1, <1>3 DEF LogShape, SameLife, OfLife, lh
<1>5. Seen(lh, Len(lg) + 1, s, n) = Seen(lh, Len(lg), s, n)
  BY <1>1, <1>4, SeenNext
<1> QED
  BY <1>2, <1>5 DEF lh

\* What neither submits nor takes an event leaves the sessions exact: it may drop
\* one, and report it as expired.
LEMMA SameEvents ==
    ASSUME NEW c \in Cpus, WorkerInv(c), UNCHANGED <<log, ring>>, polling => polling',
           \A s \in Socks : Tracked(s)' =>
               Tracked(s) /\ session_tracking'[s].msgs = session_tracking[s].msgs,
           \A k \in 1 .. Len(reports') : reports'[k].from_bpf =>
               k \in 1 .. Len(reports) /\ reports'[k] = reports[k]
    PROVE  WorkerInv(c)'
<1>1. RingIsRest(c) /\ SessionsExact(c) /\ ReportsExact /\ Taken(c)' = Taken(c)
  BY DEF WorkerInv, Taken
<1>2. RingIsRest(c)'
  BY <1>1 DEF RingIsRest
<1>3. SessionsExact(c)'
  <2> SUFFICES ASSUME NEW s \in Socks, Tracked(s)'
               PROVE  \E n \in 1 .. MaxLives :
                          HoldsLife(log, Taken(c), s, n, session_tracking'[s].msgs)
    BY <1>1 DEF SessionsExact
  <2> QED
    BY <1>1 DEF SessionsExact
<1>4. ReportsExact'
  <2> SUFFICES ASSUME NEW k \in 1 .. Len(reports'), reports'[k].from_bpf
               PROVE  \E n \in 1 .. MaxLives :
                          /\ reports'[k].msgs = Seen(log, Len(log), reports'[k].sock, n)
                          /\ \E i \in 1 .. Len(log) :
                                 OfLife(log[i], reports'[k].sock, n) /\ log[i].type = SESSION_END
    BY DEF ReportsExact
  <2> QED
    BY <1>1 DEF ReportsExact
<1> QED
  BY <1>2, <1>3, <1>4 DEF WorkerInv

\* A submitted event goes to the end of the ring, or is lost before there is any
\* session.
LEMMA SubmitExact ==
    ASSUME TypeOK, NEW c \in Cpus, WorkerInv(c), Len(ring[c]) < RingCap,
           NEW e \in Event, PerfSubmit(c, e), LogShape(log'),
           UNCHANGED <<polling, session_tracking, reports>>
    PROVE  WorkerInv(c)'
<1>1. /\ RingIsRest(c) /\ SessionsExact(c) /\ ReportsExact
      /\ log \in Seq(Event) /\ ring \in [Cpus -> Seq(Event)] /\ polling \in BOOLEAN
  BY DEF WorkerInv, TypeOK
<1>2. /\ log' = Append(log, e) /\ Len(log') = Len(log) + 1 /\ Len(log) \in Nat
      /\ \A i \in 1 .. Len(log) : log'[i] = log[i]
      /\ log'[Len(log) + 1] = e
  BY <1>1, Appended DEF PerfSubmit
<1>3. ReportsExact'
  <2> SUFFICES ASSUME NEW k \in 1 .. Len(reports), reports[k].from_bpf
               PROVE  \E n \in 1 .. MaxLives :
                          /\ reports[k].msgs = Seen(log', Len(log) + 1, reports[k].sock, n)
                          /\ \E i \in 1 .. Len(log) + 1 :
                                 OfLife(log'[i], reports[k].sock, n) /\ log'[i].type = SESSION_END
    BY <1>2 DEF ReportsExact
  <2>1. PICK n \in 1 .. MaxLives :
            /\ reports[k].msgs = Seen(log, Len(log), reports[k].sock, n)
            /\ \E i \in 1 .. Len(log) :
                   OfLife(log[i], reports[k].sock, n) /\ log[i].type = SESSION_END
    BY <1>1 DEF ReportsExact
  <2>2. PICK i \in 1 .. Len(log) :
            OfLife(log[i], reports[k].sock, n) /\ log[i].type = SESSION_END
    BY <2>1
  <2>3. Seen(log', Len(log) + 1, reports[k].sock, n) = Seen(log, Len(log), reports[k].sock, n)
    BY <1>1, <1>2, <2>2, EndedSeen
  <2>4. i \in 1 .. Len(log) + 1 /\ log'[i] = log[i]
    BY <1>2
  <2> QED
    BY <2>1, <2>2, <2>3, <2>4
<1>4. CASE ~polling
  <2>1. ring' = ring /\ ring'[c] = <<>> /\ \A s \in Socks : ~Tracked(s)' /\ ~Tracked(s)
    BY <1>1, <1>4 DEF PerfSubmit, RingIsRest, Tracked
  <2>2. RingIsRest(c)' /\ SessionsExact(c)'
    BY <1>2, <2>1 DEF RingIsRest, SessionsExact
  <2> QED
    BY <1>3, <2>2 DEF WorkerInv
<1>5. CASE polling
  <2>1. /\ ring'[c] = Append(ring[c], e) /\ ring[c] \in Seq(Event) /\ Len(ring[c]) \in Nat
        /\ Len(ring'[c]) = Len(ring[c]) + 1 /\ ring'[c][Len(ring[c]) + 1] = e
        /\ \A i \in 1 .. Len(ring[c]) : ring'[c][i] = ring[c][i]
    <3>1. ring'[c] = Append(ring[c], e) /\ ring[c] \in Seq(Event)
      BY <1>1, <1>5 DEF PerfSubmit
    <3> QED
      BY <3>1, Appended
  <2>2. Len(ring[c]) <= Len(log) /\ \A i \in 1 .. Len(ring[c]) : ring[c][i] = log[Taken(c) + i]
    BY <1>1 DEF RingIsRest
  <2>3. Taken(c) \in 0 .. Len(log) /\ Taken(c)' = Taken(c) /\ Taken(c) + Len(ring[c]) = Len(log)
    BY <1>2, <2>1, <2>2 DEF Taken
  <2>4. RingIsRest(c)'
    <3>0. /\ Taken(c) \in Nat /\ Len(ring[c]) \in Nat /\ Len(log) \in Nat
          /\ Taken(c) + Len(ring[c]) = Len(log)
      BY <1>2, <2>1, <2>3
    <3>1. ASSUME NEW i \in 1 .. Len(ring[c]) + 1 PROVE ring'[c][i] = log'[Taken(c) + i]
      <4>1. CASE i \in 1 .. Len(ring[c])
        <5>1. Taken(c) + i \in 1 .. Len(log)
          BY <3>0, <4>1
        <5> QED
          BY <1>2, <2>1, <2>2, <4>1, <5>1
      <4>2. CASE i = Len(ring[c]) + 1
        <5>1. Taken(c) + i = Len(log) + 1
          BY <3>0, <4>2
        <5>2. ring'[c][i] = e
          BY <2>1, <4>2
        <5> QED
          BY <1>2, <5>1, <5>2
      <4> QED
        BY <2>1, <4>1, <4>2
    <3> QED
      <4>1. Len(ring'[c]) <= Len(log')
        BY <1>2, <2>1, <2>2
      <4>2. \A i \in 1 .. Len(ring'[c]) : ring'[c][i] = log'[Taken(c)' + i]
        BY <2>1, <2>3, <3>1
      <4> QED
        BY <1>5, <4>1, <4>2 DEF RingIsRest
  <2>5. SessionsExact(c)'
    <3> SUFFICES ASSUME NEW s \in Socks, Tracked(s)
                 PROVE  \E n \in 1 .. MaxLives :
                            HoldsLife(log', Taken(c), s, n, session_tracking[s].msgs)
      BY <2>3 DEF SessionsExact, Tracked
    <3>1. PICK n \in 1 .. MaxLives : HoldsLife(log, Taken(c), s, n, session_tracking[s].msgs)
      BY <1>1 DEF SessionsExact
    <3> QED
      BY <1>1, <1>2, <2>3, <3>1, SeenStays
  <2> QED
    BY <1>3, <2>4, <2>5 DEF WorkerInv
<1> QED
  BY <1>1, <1>4, <1>5

\* The next event of the log is taken from the ring: a start replaces the session
\* by its life, a continuation is of the life the session has, and an end ends it.
LEMMA PollExact ==
    ASSUME TypeOK, NEW c \in Cpus, WorkerInv(c), LogShape(log), LivesBounded, LogEntries, Poll(c)
    PROVE  WorkerInv(c)'
<1>1. /\ RingIsRest(c) /\ SessionsExact(c) /\ ReportsExact
      /\ log \in Seq(Event) /\ Len(log) \in Nat /\ ring[c] \in Seq(Event) /\ ring[c] # <<>>
      /\ session_tracking \in [Socks -> Session \cup {None}] /\ reports \in Seq(Report)
  BY DEF WorkerInv, TypeOK, Poll
<1>2. polling /\ polling' /\ log' = log /\ ring'[c] = Tail(ring[c])
  BY DEF Poll, TypeOK
<1> DEFINE p == Taken(c)
           e == log[p + 1]
<1>3. /\ Len(ring[c]) \in Nat \ {0} /\ Len(ring'[c]) = Len(ring[c]) - 1
      /\ Head(ring[c]) = ring[c][1]
      /\ \A i \in 1 .. Len(ring'[c]) : ring'[c][i] = ring[c][i + 1] /\ i + 1 \in 1 .. Len(ring[c])
  BY <1>1, <1>2
<1>4. Len(ring[c]) <= Len(log) /\ \A i \in 1 .. Len(ring[c]) : ring[c][i] = log[p + i]
  BY <1>1 DEF RingIsRest
<1>5. p \in Nat /\ p < Len(log) /\ Taken(c)' = p + 1
  <2>1. p = Len(log) - Len(ring[c]) /\ Taken(c)' = Len(log) - Len(ring'[c])
    BY <1>2 DEF Taken
  <2> HIDE DEF p
  <2>2. Len(ring[c]) <= Len(log)
    BY <1>4
  <2> QED
    BY <1>1, <1>3, <2>1, <2>2
<1>6. RingIsRest(c)'
  <2>1. ASSUME NEW i \in 1 .. Len(ring'[c]) PROVE ring'[c][i] = log[(p + 1) + i]
    <3>1. ring'[c][i] = log[p + (i + 1)]
      BY <1>3, <1>4, <2>1
    <3>2. p + (i + 1) = (p + 1) + i
      BY <1>3, <1>5
    <3> QED
      BY <3>1, <3>2
  <2>2. Len(ring'[c]) <= Len(log)
    BY <1>1, <1>3, <1>4
  <2> QED
    BY <1>2, <1>5, <2>1, <2>2 DEF RingIsRest
<1>7. Head(ring[c]) = e /\ e \in Event /\ e.sock \in Socks
  <2>1. Head(ring[c]) = e /\ p + 1 \in 1 .. Len(log)
    BY <1>3, <1>4, <1>5
  <2>2. e \in Event
    BY <1>1, <2>1
  <2> HIDE DEF e
  <2> QED
    BY <2>1, <2>2 DEF Event
<1>8. e.life \in 1 .. MaxLives
  <2>1. p + 1 \in 1 .. Len(log)
    BY <1>1, <1>5
  <2>2. e.life \in 1 .. life[e.sock] /\ life[e.sock] \in 0 .. MaxLives /\ MaxLives \in Nat
    BY <1>7, <2>1, UdpSessionAssumption DEF LogEntries, LivesBounded
  <2> QED
    BY <2>2
<1>9. \/ /\ e.type = SESSION_START
         /\ session_tracking' = [session_tracking EXCEPT ![e.sock] = NewSession(e)]
         /\ UNCHANGED reports
      \/ /\ e.type # SESSION_START /\ Tracked(e.sock) /\ IsContinue(e)
         /\ session_tracking' = [session_tracking EXCEPT ![e.sock] = AddMessage(e)]
         /\ UNCHANGED reports
      \/ /\ e.type # SESSION_START /\ Tracked(e.sock) /\ ~IsContinue(e)
         /\ session_tracking' = PopSession(e.sock)
         /\ reports' = Output(e.sock, TRUE)
      \/ /\ e.type # SESSION_START /\ ~Tracked(e.sock)
         /\ UNCHANGED <<session_tracking, reports>>
  BY <1>7 DEF Poll
<1> HIDE DEF p, e
\* The other sockets' sessions keep what they have.
<1>10. ASSUME NEW s \in Socks, s # e.sock, Tracked(s)
       PROVE  \E n \in 1 .. MaxLives : HoldsLife(log, p + 1, s, n, session_tracking[s].msgs)
  <2>1. PICK n \in 1 .. MaxLives : HoldsLife(log, p, s, n, session_tracking[s].msgs)
    BY <1>1, <1>10 DEF SessionsExact, p
  <2>2. ~OfLife(log[p + 1], s, n)
    BY <1>10 DEF OfLife, e
  <2> QED
    BY <1>1, <1>5, <2>1, <2>2, HoldsNext
<1>11. ASSUME Tracked(e.sock), e.type # SESSION_START
       PROVE  HoldsLife(log, p, e.sock, e.life, session_tracking[e.sock].msgs)
  <2>1. PICK n \in 1 .. MaxLives : HoldsLife(log, p, e.sock, n, session_tracking[e.sock].msgs)
    BY <1>1, <1>7, <1>11 DEF SessionsExact, p
  <2>2. log[p + 1] = e /\ log[p + 1].sock = e.sock
    BY DEF e
  <2>3. log[p + 1].life = n
    <3> DEFINE s == e.sock
               msgs == session_tracking[s].msgs
    <3>1. HoldsLife(log, p, s, n, msgs) /\ log[p + 1].sock = s
      BY <2>1, <2>2
    <3> HIDE DEF s, msgs
    <3> QED
      BY <1>1, <1>5, <3>1, NextOfLife
  <2> QED
    BY <2>1, <2>2, <2>3
<1>12. ASSUME reports' = reports PROVE ReportsExact'
  BY <1>1, <1>2, <1>12 DEF ReportsExact
\* It is enough to know the session of the event's socket afterwards.
<1>13. ASSUME \A s \in Socks \ {e.sock} : session_tracking'[s] = session_tracking[s],
              session_tracking'[e.sock] # None =>
                  HoldsLife(log, p + 1, e.sock, e.life, session_tracking'[e.sock].msgs)
       PROVE  SessionsExact(c)'
  <2> SUFFICES ASSUME NEW s \in Socks, session_tracking'[s] # None
               PROVE  \E n \in 1 .. MaxLives :
                          HoldsLife(log, p + 1, s, n, session_tracking'[s].msgs)
    BY <1>2, <1>5 DEF SessionsExact, Tracked
  <2>1. CASE s = e.sock
    BY <1>8, <1>13, <2>1
  <2>2. CASE s # e.sock
    BY <1>10, <1>13, <2>2 DEF Tracked
  <2> QED
    BY <2>1, <2>2
<1>14. CASE e.type = SESSION_START
  <2>1. session_tracking' = [session_tracking EXCEPT ![e.sock] = NewSession(e)] /\ reports' = reports
    BY <1>9, <1>14
  <2>2. HoldsLife(log, p + 1, e.sock, e.life, {e})
    BY <1>1, <1>5, <1>14, StartHolds DEF e
  <2>3. session_tracking'[e.sock].msgs = {e}
    BY <1>1, <1>7, <2>1 DEF NewSession
  <2>4. SessionsExact(c)'
    BY <1>1, <1>13, <2>1, <2>2, <2>3
  <2> QED
    BY <1>6, <1>12, <2>1, <2>4 DEF WorkerInv
<1>15. CASE e.type # SESSION_START /\ Tracked(e.sock) /\ IsContinue(e)
  <2>1. session_tracking' = [session_tracking EXCEPT ![e.sock] = AddMessage(e)] /\ reports' = reports
    BY <1>9, <1>15
  <2>2. OfLife(e, e.sock, e.life) /\ e.type # SESSION_END
    BY <1>15 DEF OfLife, IsContinue, SESSION_CONTINUE, SESSION_END
  <2>3. HoldsLife(log, p + 1, e.sock, e.life, session_tracking[e.sock].msgs \cup {e})
    BY <1>1, <1>5, <1>11, <1>15, <2>2, HoldsNext DEF e
  <2>4. session_tracking'[e.sock].msgs = session_tracking[e.sock].msgs \cup {e}
    BY <1>1, <1>7, <2>1 DEF AddMessage
  <2>5. SessionsExact(c)'
    BY <1>1, <1>13, <2>1, <2>3, <2>4
  <2> QED
    BY <1>6, <1>12, <2>1, <2>5 DEF WorkerInv
<1>16. CASE e.type # SESSION_START /\ Tracked(e.sock) /\ ~IsContinue(e)
  <2> DEFINE r == [sock |-> e.sock, msgs |-> session_tracking[e.sock].msgs,
                   error |-> session_tracking[e.sock].error, from_bpf |-> TRUE]
  <2>1. session_tracking' = [session_tracking EXCEPT ![e.sock] = None] /\ reports' = Append(reports, r)
    BY <1>9, <1>16 DEF PopSession, Output
  <2>2. session_tracking[e.sock] \in Session
    BY <1>1, <1>7, <1>16 DEF Tracked
  <2>3. r \in Report /\ r.sock = e.sock /\ r.msgs = session_tracking[e.sock].msgs
    BY <1>7, <2>2 DEF Report, Session
  <2> HIDE DEF r
  <2>4. OfLife(e, e.sock, e.life) /\ e.type = SESSION_END
    BY <1>7, <1>16 DEF OfLife, IsContinue, Event, EventTypes
  <2>5. r.msgs = Seen(log, Len(log), e.sock, e.life)
    <3>1. Seen(log, Len(log), e.sock, e.life) = Seen(log, p, e.sock, e.life)
      BY <1>1, <1>5, <2>4, EndIsLast DEF e
    <3> QED
      BY <1>11, <1>16, <2>3, <3>1 DEF HoldsLife
  <2>6. p + 1 \in 1 .. Len(log)
    BY <1>1, <1>5
  <2>7. \A k \in 1 .. Len(reports') : \/ k \in 1 .. Len(reports) /\ reports'[k] = reports[k]
                                      \/ reports'[k] = r
    BY <1>1, <2>1, <2>3
  <2>8. ReportsExact'
    <3> SUFFICES ASSUME NEW k \in 1 .. Len(reports'), reports'[k].from_bpf
                 PROVE  \E n \in 1 .. MaxLives :
                            /\ reports'[k].msgs = Seen(log, Len(log), reports'[k].sock, n)
                            /\ \E i \in 1 .. Len(log) :
                                   OfLife(log[i], reports'[k].sock, n) /\ log[i].type = SESSION_END
      BY <1>2 DEF ReportsExact
    <3>1. CASE k \in 1 .. Len(reports) /\ reports'[k] = reports[k]
      BY <1>1, <3>1 DEF ReportsExact
    <3>2. CASE reports'[k] = r
      <4>1. OfLife(log[p + 1], r.sock, e.life) /\ log[p + 1].type = SESSION_END
        BY <2>3, <2>4 DEF e
      <4> QED
        BY <1>8, <2>3, <2>5, <2>6, <3>2, <4>1
    <3> QED
      BY <2>7, <3>1, <3>2
  <2>9. SessionsExact(c)'
    BY <1>1, <1>7, <1>13, <2>1
  <2> QED
    BY <1>6, <2>8, <2>9 DEF WorkerInv
<1>17. CASE e.type # SESSION_START /\ ~Tracked(e.sock)
  <2>1. session_tracking' = session_tracking /\ reports' = reports
    BY <1>9, <1>17
  <2>2. SessionsExact(c)'
    BY <1>13, <1>17, <2>1 DEF Tracked
  <2> QED
    BY <1>6, <1>12, <2>1, <2>2 DEF WorkerInv
<1> QED
  BY <1>14, <1>15, <1>16, <1>17

\* Every step keeps the sessions and the reports exact.
LEMMA WorkerStep ==
    ASSUME NEW cpu, Cpus = {cpu}, TypeOK, KernelInv, KernelInv', RingsHaveRoom, WorkerInv(cpu),
           [Next]_vars
    PROVE  WorkerInv(cpu)'
<1>0. cpu \in Cpus /\ Len(ring[cpu]) < RingCap
  BY DEF RingsHaveRoom
<1>1. /\ LogShape(log) /\ LivesBounded /\ LogEntries /\ LogShape(log')
      /\ session_tracking \in [Socks -> Session \cup {None}] /\ reports \in Seq(Report)
  BY DEF KernelInv, TypeOK
<1>2. ASSUME UNCHANGED <<log, ring, session_tracking, reports>>, polling => polling'
      PROVE  WorkerInv(cpu)'
  BY <1>0, <1>2, SameEvents DEF Tracked
<1>3. ASSUME NEW s \in Socks, OpenSocket(s) PROVE WorkerInv(cpu)'
  BY <1>2, <1>3 DEF OpenSocket, workerVars
<1>4. ASSUME NEW c \in Cpus, NEW s \in Socks, NEW d \in Dests, SendLookup(c, s, d)
      PROVE  WorkerInv(cpu)'
  BY <1>2, <1>4 DEF SendLookup, workerVars
<1>5. ASSUME NEW c \in Cpus, SendSubmit(c) PROVE WorkerInv(cpu)'
  <2> DEFINE e == NewEvent(handler[cpu].flag, handler[cpu].sock, handler[cpu].dest)
  <2>1. SendSubmit(cpu) /\ handler[cpu] \in Handler
    BY <1>0, <1>5 DEF SendSubmit, TypeOK
  <2>2. e \in Event
    BY <2>1, NewEventType DEF Handler, EventTypes
  <2>3. PerfSubmit(cpu, e) /\ UNCHANGED <<polling, session_tracking, reports>>
    BY <2>1 DEF SendSubmit, workerVars
  <2> HIDE DEF e
  <2> QED
    BY <1>0, <1>1, <2>2, <2>3, SubmitExact
<1>6. ASSUME NEW c \in Cpus, NEW s \in Socks, kprobe__inet_release(c, s) PROVE WorkerInv(cpu)'
  <2>1. kprobe__inet_release(cpu, s)
    BY <1>6
  <2>2. CASE s \in tracing
    <3> DEFINE e == NewEvent(SESSION_END, s, None)
    <3>1. e \in Event
      BY NewEventType DEF EventTypes
    <3>2. PerfSubmit(cpu, e) /\ UNCHANGED <<polling, session_tracking, reports>>
      BY <2>1, <2>2 DEF kprobe__inet_release, workerVars
    <3> HIDE DEF e
    <3> QED
      BY <1>0, <1>1, <3>1, <3>2, SubmitExact
  <2>3. CASE s \notin tracing
    BY <1>2, <2>1, <2>3 DEF kprobe__inet_release, workerVars
  <2> QED
    BY <2>2, <2>3
<1>7. CASE StartPolling
  BY <1>2, <1>7 DEF StartPolling, kernelVars
<1>8. ASSUME NEW c \in Cpus, Poll(c) PROVE WorkerInv(cpu)'
  BY <1>0, <1>1, <1>8, PollExact
<1>9. CASE Tick
  <2>1. UNCHANGED <<log, ring, polling, reports>>
    BY <1>9 DEF Tick, kernelVars
  <2>2. \A s \in Socks : Tracked(s)' =>
            Tracked(s) /\ session_tracking'[s].msgs = session_tracking[s].msgs
    <3> SUFFICES ASSUME NEW s \in Socks, session_tracking'[s] # None
                 PROVE  Tracked(s) /\ session_tracking'[s].msgs = session_tracking[s].msgs
      BY DEF Tracked
    <3>1. \/ Tracked(s) /\ session_tracking'[s] = [session_tracking[s] EXCEPT !.age = @ + 1]
          \/ session_tracking'[s] = session_tracking[s]
      BY <1>9 DEF Tick
    <3>2. Tracked(s) => session_tracking[s] \in Session
      BY <1>1 DEF Tracked
    <3> QED
      BY <3>1, <3>2 DEF Tracked, Session
  <2> QED
    BY <1>0, <2>1, <2>2, SameEvents
<1>10. CASE ExpirationScan
  <2>1. UNCHANGED <<log, ring, polling, reports>>
    BY <1>10 DEF ExpirationScan, kernelVars
  <2>2. \A s \in Socks : Tracked(s)' =>
            Tracked(s) /\ session_tracking'[s].msgs = session_tracking[s].msgs
    <3> SUFFICES ASSUME NEW s \in Socks, session_tracking'[s] # None
                 PROVE  Tracked(s) /\ session_tracking'[s].msgs = session_tracking[s].msgs
      BY DEF Tracked
    <3>1. \/ /\ Tracked(s)
             /\ session_tracking'[s] =
                    [session_tracking[s] EXCEPT !.error = "session_max_duration_exceeded"]
          \/ session_tracking'[s] = session_tracking[s]
      BY <1>10 DEF ExpirationScan, IsExpired
    <3>2. Tracked(s) => session_tracking[s] \in Session
      BY <1>1 DEF Tracked
    <3> QED
      BY <3>1, <3>2 DEF Tracked, Session
  <2> QED
    BY <1>0, <2>1, <2>2, SameEvents
<1>11. ASSUME NEW s \in Socks, ExpireOne(s) PROVE WorkerInv(cpu)'
  <2>1. UNCHANGED <<log, ring, polling>>
    BY <1>11 DEF ExpireOne, kernelVars
  <2>2. \A t \in Socks : Tracked(t)' =>
            Tracked(t) /\ session_tracking'[t].msgs = session_tracking[t].msgs
    BY <1>1, <1>11 DEF ExpireOne, PopSession, Tracked
  <2>3. reports' = reports \/ (Tracked(s) /\ reports' = Output(s, FALSE))
    BY <1>11 DEF ExpireOne
  <2>4. \A k \in 1 .. Len(reports') : reports'[k].from_bpf =>
            k \in 1 .. Len(reports) /\ reports'[k] = reports[k]
    <3> DEFINE r == [sock |-> s, msgs |-> session_tracking[s].msgs,
                     error |-> session_tracking[s].error, from_bpf |-> FALSE]
    <3>1. Tracked(s) => r \in Report /\ ~r.from_bpf
      BY <1>1 DEF Tracked, Session, Report
    <3>2. reports' = reports \/ (Tracked(s) /\ reports' = Append(reports, r))
      BY <2>3 DEF Output
    <3> HIDE DEF r
    <3>3. CASE reports' = reports
      BY <3>3
    <3>4. CASE Tracked(s) /\ reports' = Append(reports, r)
      <4>1. \A k \in 1 .. Len(reports') :
                (k \in 1 .. Len(reports) /\ reports'[k] = reports[k]) \/ reports'[k] = r
        BY <1>1, <3>1, <3>4
      <4> QED
        BY <3>1, <3>4, <4>1
    <3> QED
      BY <3>2, <3>3, <3>4
  <2> QED
    BY <1>0, <2>1, <2>2, <2>4, SameEvents
<1>12. CASE UNCHANGED vars
  BY <1>2, <1>12 DEF vars, kernelVars, workerVars
<1> QED
  BY <1>3, <1>4, <1>5, <1>6, <1>7, <1>8, <1>9, <1>10, <1>11, <1>12 DEF Next

\* Nothing is sent, tracked or reported at first.
LEMMA ExactInit ==
    ASSUME NEW cpu, Cpus = {cpu}, Init
    PROVE  KernelInv /\ WorkerInv(cpu)
<1>1. log = <<>> /\ reports = <<>> /\ ring[cpu] = <<>> /\ tracing = {}
  BY DEF Init
<1>2. KernelInv
  <2>1. LogShape(log) /\ LogEntries
    BY <1>1 DEF LogShape, LogEntries
  <2>2. LivesBounded /\ TracedIsOpen /\ HandlerAgrees
    BY <1>1, UdpSessionAssumption DEF Init, LivesBounded, TracedIsOpen, HandlerAgrees
  <2> QED
    BY <2>1, <2>2 DEF KernelInv
<1>3. WorkerInv(cpu)
  BY <1>1 DEF Init, WorkerInv, RingIsRest, SessionsExact, ReportsExact, Tracked
<1> QED
  BY <1>2, <1>3

\* All of it, of every behaviour without an overflow.
LEMMA ExactInv ==
    ASSUME NEW cpu, Cpus = {cpu}, TableFits
    PROVE  Spec /\ []RingsHaveRoom => [](TypeOK /\ KernelInv /\ WorkerInv(cpu))
<1>1. Init => TypeOK /\ KernelInv /\ WorkerInv(cpu)
  BY TypeInit, ExactInit
<1>2. TypeOK /\ KernelInv /\ WorkerInv(cpu) /\ RingsHaveRoom /\ [Next]_vars =>
          (TypeOK /\ KernelInv /\ WorkerInv(cpu))'
  BY TypeStep, KernelStep, WorkerStep
<1> QED
  BY <1>1, <1>2, PTL DEF Spec

\* A session that is reported at the close of its socket has every message of that
\* use of the socket address and none of another: on one CPU, with room in the
\* table for every socket and rings that never fill up.
THEOREM ClosesAreExact ==
    ASSUME NEW cpu, Cpus = {cpu}, TableFits
    PROVE  Spec /\ []RingsHaveRoom => []CloseReportsExact
<1>1. TypeOK /\ KernelInv /\ WorkerInv(cpu) => CloseReportsExact
  BY DEF WorkerInv, ReportsExact, CloseReportsExact, MessagesOf, Seen, OfLife
<1> QED
  BY <1>1, ExactInv, PTL

\* Under the same conditions the close of the socket of a tracked session is not
\* missed: the table still has the socket, or its SESSION_END is in the ring.
THEOREM ClosesAreNoticed ==
    ASSUME NEW cpu, Cpus = {cpu}, TableFits
    PROVE  Spec /\ []RingsHaveRoom => []TrackedIsTraced
<1>1. TypeOK /\ KernelInv /\ WorkerInv(cpu) => TrackedIsTraced
  <2> SUFFICES ASSUME TypeOK, KernelInv, WorkerInv(cpu), NEW s \in Socks, Tracked(s), s \notin tracing
               PROVE  \E c \in Cpus : \E i \in 1 .. Len(ring[c]) :
                          ring[c][i].sock = s /\ ring[c][i].type = SESSION_END
    BY DEF TrackedIsTraced
  <2>1. /\ log \in Seq(Event) /\ Len(log) \in Nat /\ ring[cpu] \in Seq(Event)
        /\ Len(ring[cpu]) \in Nat
    BY DEF TypeOK
  <2>2. RingIsRest(cpu) /\ SessionsExact(cpu) /\ LogEntries
    BY DEF WorkerInv, KernelInv
  <2>3. Taken(cpu) \in 0 .. Len(log) /\ Taken(cpu) + Len(ring[cpu]) = Len(log)
    BY <2>1, <2>2 DEF RingIsRest, Taken
  <2>4. PICK n \in 1 .. MaxLives : HoldsLife(log, Taken(cpu), s, n, session_tracking[s].msgs)
    BY <2>2 DEF SessionsExact
  <2>5. PICK i \in 1 .. Taken(cpu) : OfLife(log[i], s, n)
    BY <2>4 DEF HoldsLife
  <2>6. LifeEnded(log, Len(log), log[i])
    <3>1. i \in 1 .. Len(log) /\ log[i].sock = s
      BY <2>1, <2>3, <2>5 DEF OfLife
    <3> QED
      BY <2>2, <3>1 DEF LogEntries
  <2>7. PICK k \in 1 .. Len(log) : SameLife(log[k], log[i]) /\ log[k].type = SESSION_END
    BY <2>6 DEF LifeEnded
  <2>8. OfLife(log[k], s, n)
    BY <2>5, <2>7 DEF SameLife, OfLife
  <2>9. k \notin 1 .. Taken(cpu)
    BY <2>4, <2>7, <2>8 DEF HoldsLife
  <2>10. PICK j \in 1 .. Len(ring[cpu]) : k = Taken(cpu) + j
    <3>1. k - Taken(cpu) \in 1 .. Len(ring[cpu]) /\ k = Taken(cpu) + (k - Taken(cpu))
      BY <2>1, <2>3, <2>9
    <3> QED
      BY <3>1
  <2>11. ring[cpu][j] = log[k]
    BY <2>2, <2>10 DEF RingIsRest
  <2> QED
    BY <2>7, <2>8, <2>11 DEF OfLife
<1> QED
  BY <1>1, ExactInv, PTL
=============================================================================
