-------------------------- MODULE UdpLedgerProofs --------------------------
(***************************************************************************)
(* The udp_session probe implements SessionLedger: a proof, step by step,  *)
(* for every number of CPUs, sockets and destinations and every capacity.  *)
(***************************************************************************)
EXTENDS UdpLedger, UdpSessionProofs

\* The ledger's variables in terms of the probe's.
Sent == MessagesIn(log)
Inflight == UNION {MessagesIn(ring[c]) : c \in Cpus}
Account == [s \in Socks |-> IF Tracked(s) THEN session_tracking[s].msgs ELSE {}]
Reported == [i \in 1 .. Len(reports) |-> reports[i].msgs]

\* The number of an event is its place in the log: a new one is new.
LogNumbered == \A i \in 1 .. Len(log) : log[i].seq <= Len(log)

LedgerInv == TypeOK /\ CountInv /\ OneStartPerSession /\ LogNumbered

-----------------------------------------------------------------------------
(* The messages of a sequence of events. *)

\* An event at the end adds itself, if it is a message.
LEMMA MessagesAppend ==
    ASSUME NEW q \in Seq(Event), NEW e \in Event
    PROVE  MessagesIn(Append(q, e)) = IF IsMessage(e) THEN MessagesIn(q) \cup {e} ELSE MessagesIn(q)
<1> DEFINE r == Append(q, e)
<1>1. /\ Len(r) = Len(q) + 1 /\ r[Len(q) + 1] = e /\ Len(q) \in Nat
      /\ \A i \in 1 .. Len(q) : r[i] = q[i]
  OBVIOUS
<1> HIDE DEF r
<1>2. ASSUME NEW m \in MessagesIn(r) PROVE m \in MessagesIn(q) \/ (m = e /\ IsMessage(e))
  <2>1. PICK i \in 1 .. Len(r) : IsMessage(r[i]) /\ m = r[i]
    BY DEF MessagesIn
  <2>2. CASE i \in 1 .. Len(q)
    BY <1>1, <2>1, <2>2 DEF MessagesIn
  <2>3. CASE i = Len(q) + 1
    BY <1>1, <2>1, <2>3
  <2> QED
    BY <1>1, <2>1, <2>2, <2>3
<1>3. ASSUME NEW m \in MessagesIn(q) PROVE m \in MessagesIn(r)
  <2>1. PICK i \in 1 .. Len(q) : IsMessage(q[i]) /\ m = q[i]
    BY DEF MessagesIn
  <2>2. i \in 1 .. Len(r) /\ r[i] = q[i]
    BY <1>1
  <2> QED
    BY <2>1, <2>2 DEF MessagesIn
<1>4. IsMessage(e) => e \in MessagesIn(r)
  <2>1. Len(q) + 1 \in 1 .. Len(r)
    BY <1>1
  <2> QED
    BY <1>1, <2>1 DEF MessagesIn
<1> QED
  BY <1>2, <1>3, <1>4 DEF r

\* Taking the first event takes it out, if it is there once.
LEMMA MessagesTail ==
    ASSUME NEW q \in Seq(Event), q # <<>>,
           \A i, j \in 1 .. Len(q) : q[i] = q[j] => i = j
    PROVE  MessagesIn(Tail(q)) = MessagesIn(q) \ {Head(q)}
<1> DEFINE r == Tail(q)
<1>1. /\ Len(r) = Len(q) - 1 /\ Len(q) \in Nat /\ Len(q) > 0 /\ Head(q) = q[1]
      /\ \A i \in 1 .. Len(r) : r[i] = q[i + 1]
  OBVIOUS
<1> HIDE DEF r
<1>2. ASSUME NEW m \in MessagesIn(r) PROVE m \in MessagesIn(q) /\ m # Head(q)
  <2>1. PICK i \in 1 .. Len(r) : IsMessage(r[i]) /\ m = r[i]
    BY DEF MessagesIn
  <2>2. i + 1 \in 1 .. Len(q) /\ 1 \in 1 .. Len(q) /\ i + 1 # 1 /\ m = q[i + 1]
    BY <1>1, <2>1
  <2>3. m # q[1]
    BY <2>2
  <2> QED
    BY <1>1, <2>1, <2>2, <2>3 DEF MessagesIn
<1>3. ASSUME NEW m \in MessagesIn(q), m # Head(q) PROVE m \in MessagesIn(r)
  <2>1. PICK i \in 1 .. Len(q) : IsMessage(q[i]) /\ m = q[i]
    BY DEF MessagesIn
  <2>2. i - 1 \in 1 .. Len(r) /\ (i - 1) + 1 = i
    BY <1>1, <1>3, <2>1
  <2>3. r[i - 1] = m
    BY <1>1, <2>1, <2>2
  <2> QED
    BY <2>1, <2>2, <2>3 DEF MessagesIn
<1> QED
  BY <1>2, <1>3 DEF r

\* The messages in flight when one ring changes.
LEMMA InflightChange ==
    ASSUME TypeOK, NEW c \in Cpus, NEW q \in Seq(Event), ring' = [ring EXCEPT ![c] = q]
    PROVE  Inflight' = MessagesIn(q) \cup UNION {MessagesIn(ring[d]) : d \in Cpus \ {c}}
<1>1. ring'[c] = q /\ \A d \in Cpus \ {c} : ring'[d] = ring[d]
  BY DEF TypeOK
<1>2. Inflight' = UNION {MessagesIn(ring'[d]) : d \in Cpus}
  BY DEF Inflight, MessagesIn, IsMessage
<1> QED
  BY <1>1, <1>2

-----------------------------------------------------------------------------
(* Steps of the probe as steps of the ledger. *)

\* What is submitted, or lost, is a new message sent.
LEMMA SubmitSends ==
    ASSUME LedgerInv, NEW c \in Cpus, NEW e \in Event, e.seq = Len(log) + 1, PerfSubmit(c, e)
    PROVE  /\ LogNumbered'
           /\ IsMessage(e) => /\ e \notin Sent /\ Sent' = Sent \cup {e}
                              /\ Inflight' = Inflight \/ Inflight' = Inflight \cup {e}
           /\ ~IsMessage(e) => Sent' = Sent /\ Inflight' = Inflight
<1>1. log \in Seq(Event) /\ ring \in [Cpus -> Seq(Event)] /\ log' = Append(log, e)
  BY DEF LedgerInv, TypeOK, PerfSubmit
<1>2. Sent' = MessagesIn(Append(log, e))
  BY <1>1 DEF Sent, MessagesIn, IsMessage
<1>3. e \notin Sent
  BY <1>1 DEF Sent, MessagesIn, LedgerInv, LogNumbered
<1>4. LogNumbered'
  <2>1. /\ Len(log') = Len(log) + 1 /\ Len(log) \in Nat /\ log'[Len(log) + 1] = e
        /\ \A i \in 1 .. Len(log) : log'[i] = log[i]
    BY <1>1
  <2>2. ASSUME NEW i \in 1 .. Len(log') PROVE log'[i].seq <= Len(log')
    <3>1. CASE i \in 1 .. Len(log)
      <4>0. log[i] \in Event
        BY <1>1, <3>1
      <4>1. log[i].seq \in Nat /\ log[i].seq <= Len(log)
        BY <3>1, <4>0 DEF LedgerInv, LogNumbered, Event
      <4> QED
        BY <2>1, <3>1, <4>1
    <3>2. CASE i = Len(log) + 1
      BY <2>1, <3>2
    <3> QED
      BY <2>1, <3>1, <3>2
  <2> QED
    BY <2>2 DEF LogNumbered
<1>5. ring' = ring => Inflight' = Inflight
  BY DEF Inflight, MessagesIn, IsMessage
<1>6. ASSUME ring' # ring
      PROVE  Inflight' = IF IsMessage(e) THEN Inflight \cup {e} ELSE Inflight
  <2>1. ring' = [ring EXCEPT ![c] = Append(ring[c], e)]
    BY <1>6 DEF PerfSubmit
  <2>2. Append(ring[c], e) \in Seq(Event)
    BY <1>1
  <2>3. Inflight' = MessagesIn(Append(ring[c], e)) \cup UNION {MessagesIn(ring[d]) : d \in Cpus \ {c}}
    BY <2>1, <2>2, InflightChange DEF LedgerInv
  <2>4. Inflight = MessagesIn(ring[c]) \cup UNION {MessagesIn(ring[d]) : d \in Cpus \ {c}}
    BY DEF Inflight
  <2>5. MessagesIn(Append(ring[c], e)) =
            IF IsMessage(e) THEN MessagesIn(ring[c]) \cup {e} ELSE MessagesIn(ring[c])
    BY <1>1, MessagesAppend
  <2> QED
    BY <2>3, <2>4, <2>5
<1> QED
  BY <1>1, <1>2, <1>3, <1>4, <1>5, <1>6, MessagesAppend DEF Sent

\* The steps of the ledger, in the probe's terms: a message is sent.
LEMMA IsSend ==
    ASSUME NEW e, e \notin Sent, Sent' = Sent \cup {e},
           Inflight' = Inflight \/ Inflight' = Inflight \cup {e},
           Account' = Account, Reported' = Reported
    PROVE  Ledger!Next
BY DEF Ledger!Next, Ledger!Send, Sent, Inflight, Account, Reported

\* A message is delivered: it begins an account, joins one, or finds none.
LEMMA IsDeliver ==
    ASSUME NEW e \in Inflight, Inflight' = Inflight \ {e},
           \/ Account' = Account
           \/ Account' = [Account EXCEPT ![e.sock] = {e}] /\ e.type = "start"
           \/ Account' = [Account EXCEPT ![e.sock] = @ \cup {e}] /\ Account[e.sock] # {},
           Sent' = Sent, Reported' = Reported
    PROVE  Ledger!Next
BY DEF Ledger!Next, Ledger!Deliver, Sent, Inflight, Account, Reported

\* An account is closed.
LEMMA IsClose ==
    ASSUME NEW s \in Socks, Account[s] # {}, Account' = [Account EXCEPT ![s] = {}],
           Reported' = Reported \/ Reported' = Append(Reported, Account[s]),
           Sent' = Sent, Inflight' = Inflight
    PROVE  Ledger!Next
BY DEF Ledger!Next, Ledger!Close, Sent, Inflight, Account, Reported

\* Nothing happens in the ledger.
LEMMA IsStutter ==
    ASSUME Sent' = Sent, Inflight' = Inflight, Account' = Account, Reported' = Reported
    PROVE  UNCHANGED Ledger!ledgerVars
BY DEF Ledger!ledgerVars, Sent, Inflight, Account, Reported

\* What does not change in the probe does not change in the ledger.
LEMMA LedgerSame ==
    /\ log' = log => Sent' = Sent
    /\ ring' = ring => Inflight' = Inflight
    /\ session_tracking' = session_tracking => Account' = Account
    /\ reports' = reports => Reported' = Reported
BY DEF Sent, Inflight, Account, Reported, MessagesIn, IsMessage, Tracked

\* A session that is begun, gets a message or ends is an account that does.
LEMMA AccountChange ==
    ASSUME TypeOK, NEW s \in Socks, NEW x \in Session \cup {None},
           session_tracking' = [session_tracking EXCEPT ![s] = x]
    PROVE  Account' = [Account EXCEPT ![s] = IF x = None THEN {} ELSE x.msgs]
<1>1. session_tracking'[s] = x /\ \A t \in Socks \ {s} : session_tracking'[t] = session_tracking[t]
  BY DEF TypeOK
<1>2. Account' = [t \in Socks |-> IF session_tracking'[t] # None THEN session_tracking'[t].msgs ELSE {}]
  BY DEF Account, Tracked
<1>3. \A t \in Socks : Account[t] = IF session_tracking[t] # None THEN session_tracking[t].msgs ELSE {}
  BY DEF Account, Tracked
<1>4. DOMAIN Account = Socks
  BY DEF Account
<1> DEFINE y == IF x = None THEN {} ELSE x.msgs
<1>5. Account' = [t \in Socks |-> IF t = s THEN y ELSE Account[t]]
  BY <1>1, <1>2, <1>3
<1> HIDE DEF y
<1>6. [Account EXCEPT ![s] = y] = [t \in Socks |-> IF t = s THEN y ELSE Account[t]]
  BY <1>4
<1> QED
  BY <1>5, <1>6 DEF y

\* A report is the messages of the account it closes.
LEMMA ReportedAppend ==
    ASSUME TypeOK, NEW r \in Report, reports' = Append(reports, r)
    PROVE  Reported' = Append(Reported, r.msgs)
<1>1. /\ reports \in Seq(Report) /\ Len(reports) \in Nat /\ Len(reports') = Len(reports) + 1
      /\ reports'[Len(reports) + 1] = r
      /\ \A i \in 1 .. Len(reports) : reports'[i] = reports[i]
  BY DEF TypeOK
<1>2. Reported' = [i \in 1 .. Len(reports) + 1 |-> reports'[i].msgs]
  BY <1>1 DEF Reported
<1>3. Reported \in Seq(SUBSET Message) /\ Len(Reported) = Len(reports)
  <2>1. \A i \in 1 .. Len(reports) : reports[i].msgs \in SUBSET Message
    <3>1. \A i \in 1 .. Len(reports) : reports[i] \in Report
      BY <1>1
    <3> QED
      BY <3>1 DEF Report
  <2> QED
    BY <1>1, <2>1 DEF Reported
<1>4. Append(Reported, r.msgs) =
          [i \in 1 .. Len(Reported) + 1 |-> IF i = Len(Reported) + 1 THEN r.msgs ELSE Reported[i]]
  BY <1>3
<1>5. \A i \in 1 .. Len(reports) : Reported[i] = reports[i].msgs
  BY DEF Reported
<1> QED
  BY <1>1, <1>2, <1>3, <1>4, <1>5

\* The messages in flight when the polling thread takes an event.
LEMMA PollInflight ==
    ASSUME LedgerInv, NEW c \in Cpus, ring[c] # <<>>, ring' = [ring EXCEPT ![c] = Tail(ring[c])]
    PROVE  /\ Inflight' = Inflight \ {Head(ring[c])}
           /\ Head(ring[c]) \in Inflight <=> IsMessage(Head(ring[c]))
<1> DEFINE e == Head(ring[c])
           rest == UNION {MessagesIn(ring[d]) : d \in Cpus \ {c}}
<1>1. ring[c] \in Seq(Event) /\ Tail(ring[c]) \in Seq(Event)
  BY DEF LedgerInv, TypeOK
<1>2. RingOnce(ring)
  BY DEF LedgerInv, CountInv, CountedOnce
<1>3. MessagesIn(Tail(ring[c])) = MessagesIn(ring[c]) \ {e}
  BY <1>1, <1>2, MessagesTail DEF RingOnce
<1>4. Inflight' = MessagesIn(Tail(ring[c])) \cup rest
  BY <1>1, InflightChange DEF LedgerInv
<1>5. Inflight = MessagesIn(ring[c]) \cup rest
  BY DEF Inflight
<1>6. e = ring[c][1] /\ 1 \in 1 .. Len(ring[c])
  BY <1>1
<1>7. e \notin rest
  <2> SUFFICES ASSUME NEW d \in Cpus \ {c}, e \in MessagesIn(ring[d]) PROVE FALSE
    OBVIOUS
  <2>1. PICK j \in 1 .. Len(ring[d]) : e = ring[d][j]
    BY DEF MessagesIn
  <2> QED
    BY <1>2, <1>6, <2>1 DEF RingOnce
<1>8. e \in MessagesIn(ring[c]) <=> IsMessage(e)
  <2>1. IsMessage(e) => e \in MessagesIn(ring[c])
    BY <1>6 DEF MessagesIn
  <2>2. e \in MessagesIn(ring[c]) => IsMessage(e)
    BY DEF MessagesIn
  <2> QED
    BY <2>1, <2>2
<1> HIDE DEF e, rest
<1> QED
  BY <1>3, <1>4, <1>5, <1>7, <1>8 DEF e

\* The account of a tracked session is not empty: it has its start.
LEMMA AccountTracked ==
    ASSUME LedgerInv, NEW s \in Socks, Tracked(s)
    PROVE  Account[s] = session_tracking[s].msgs /\ Account[s] # {}
<1>1. Account[s] = session_tracking[s].msgs
  BY DEF Account
<1>2. OneStart(session_tracking[s].msgs)
  BY DEF LedgerInv, OneStartPerSession
<1> QED
  BY <1>1, <1>2 DEF OneStart

\* Taking an event delivers a message, or closes an account.
LEMMA PollStep ==
    ASSUME LedgerInv, NEW c \in Cpus, Poll(c)
    PROVE  Ledger!Next \/ UNCHANGED Ledger!ledgerVars
<1> DEFINE e == Head(ring[c])
<1>0. TypeOK
  BY DEF LedgerInv
<1>1. ring[c] \in Seq(Event) /\ ring[c] # <<>> /\ ring' = [ring EXCEPT ![c] = Tail(ring[c])]
  BY DEF Poll, LedgerInv, TypeOK
<1>2. e \in Event /\ e.sock \in Socks
  <2>1. e \in Event
    BY <1>1
  <2> QED
    BY <2>1 DEF Event
<1>3. Inflight' = Inflight \ {e} /\ (e \in Inflight <=> IsMessage(e))
  BY <1>1, PollInflight
<1>4. Sent' = Sent
  BY LedgerSame DEF Poll
<1>5. \/ /\ e.type = SESSION_START
         /\ session_tracking' = [session_tracking EXCEPT ![e.sock] = NewSession(e)]
         /\ UNCHANGED reports
      \/ /\ e.type # SESSION_START /\ Tracked(e.sock) /\ IsContinue(e)
         /\ session_tracking' = [session_tracking EXCEPT ![e.sock] = AddMessage(e)]
         /\ UNCHANGED reports
      \/ /\ e.type # SESSION_START /\ Tracked(e.sock) /\ ~IsContinue(e)
         /\ session_tracking' = PopSession(e.sock)
         /\ reports' = Output(e.sock, TRUE)
      \/ /\ e.type # SESSION_START /\ ~Tracked(e.sock)
         /\ UNCHANGED <<session_tracking, reports>>
  BY DEF Poll
<1> HIDE DEF e
<1>6. CASE e.type = SESSION_START
  <2>1. IsMessage(e) /\ e \in Inflight
    BY <1>3, <1>6 DEF IsMessage, SESSION_START, SESSION_END
  <2>2. /\ session_tracking' = [session_tracking EXCEPT ![e.sock] = NewSession(e)]
        /\ UNCHANGED reports
    BY <1>5, <1>6
  <2>3. NewSession(e) \in Session /\ NewSession(e) # None /\ NewSession(e).msgs = {e}
    <3>1. {e} \in SUBSET Message /\ 0 \in 0 .. SessionMaxDuration + 1
      BY <1>2, <2>1, UdpSessionAssumption DEF Message, IsMessage
    <3>2. NewSession(e) \in Session
      BY <3>1 DEF NewSession, Session, Errors
    <3> QED
      BY <3>2, NoneAssumption DEF NewSession
  <2>4. Account' = [Account EXCEPT ![e.sock] = {e}]
    BY <1>0, <1>2, <2>2, <2>3, AccountChange
  <2> QED
    BY <1>3, <1>4, <1>6, <2>1, <2>2, <2>4, LedgerSame, IsDeliver DEF SESSION_START
<1>7. CASE e.type # SESSION_START /\ Tracked(e.sock) /\ IsContinue(e)
  <2>1. IsMessage(e) /\ e \in Inflight
    BY <1>3, <1>7 DEF IsMessage, IsContinue, SESSION_CONTINUE, SESSION_END
  <2>2. /\ session_tracking' = [session_tracking EXCEPT ![e.sock] = AddMessage(e)]
        /\ UNCHANGED reports
    BY <1>5, <1>7
  <2>3. session_tracking[e.sock] \in Session
    BY <1>0, <1>2, <1>7 DEF TypeOK, Tracked
  <2>4. /\ AddMessage(e) \in Session /\ AddMessage(e) # None
        /\ AddMessage(e).msgs = session_tracking[e.sock].msgs \cup {e}
    <3>1. e \in Message /\ 0 \in 0 .. SessionMaxDuration + 1
      BY <1>2, <2>1, UdpSessionAssumption DEF Message, IsMessage
    <3>2. AddMessage(e) \in Session
      BY <2>3, <3>1 DEF AddMessage, Session
    <3> QED
      BY <3>2, NoneAssumption DEF AddMessage
  <2>5. Account[e.sock] = session_tracking[e.sock].msgs /\ Account[e.sock] # {}
    BY <1>2, <1>7, AccountTracked
  <2>6. Account' = [Account EXCEPT ![e.sock] = @ \cup {e}]
    <3> DEFINE x == AddMessage(e)
    <3>1. /\ x \in Session /\ x # None /\ x.msgs = Account[e.sock] \cup {e}
          /\ session_tracking' = [session_tracking EXCEPT ![e.sock] = x]
      BY <2>2, <2>4, <2>5
    <3> HIDE DEF x
    <3>2. Account' = [Account EXCEPT ![e.sock] = IF x = None THEN {} ELSE x.msgs]
      BY <1>0, <1>2, <3>1, AccountChange
    <3> QED
      BY <3>1, <3>2
  <2> QED
    BY <1>3, <1>4, <2>1, <2>2, <2>5, <2>6, LedgerSame, IsDeliver
<1>8. CASE e.type # SESSION_START /\ Tracked(e.sock) /\ ~IsContinue(e)
  <2>1. ~IsMessage(e) /\ Inflight' = Inflight
    BY <1>2, <1>3, <1>8 DEF IsMessage, IsContinue, Event, EventTypes
  <2>2. session_tracking' = PopSession(e.sock) /\ reports' = Output(e.sock, TRUE)
    BY <1>5, <1>8
  <2>3. Account' = [Account EXCEPT ![e.sock] = {}]
    BY <1>0, <1>2, <2>2, AccountChange DEF PopSession
  <2>4. Account[e.sock] = session_tracking[e.sock].msgs /\ Account[e.sock] # {}
    BY <1>2, <1>8, AccountTracked
  <2> DEFINE r == [sock |-> e.sock, msgs |-> session_tracking[e.sock].msgs,
                   error |-> session_tracking[e.sock].error, from_bpf |-> TRUE]
  <2>5. r \in Report /\ r.msgs = session_tracking[e.sock].msgs
    BY <1>0, <1>2, <1>8 DEF TypeOK, Tracked, Report, Session
  <2>6. reports' = Append(reports, r)
    BY <2>2 DEF Output
  <2> HIDE DEF r
  <2>7. Reported' = Append(Reported, Account[e.sock])
    BY <1>0, <2>4, <2>5, <2>6, ReportedAppend
  <2> QED
    BY <1>2, <1>4, <2>1, <2>3, <2>4, <2>7, IsClose
<1>9. CASE e.type # SESSION_START /\ ~Tracked(e.sock)
  <2>1. Account' = Account /\ Reported' = Reported
    BY <1>5, <1>9, LedgerSame
  <2>2. CASE e \in Inflight
    BY <1>3, <1>4, <2>1, <2>2, IsDeliver
  <2>3. CASE e \notin Inflight
    BY <1>3, <1>4, <2>1, <2>3, IsStutter
  <2> QED
    BY <2>2, <2>3
<1> QED
  BY <1>5, <1>6, <1>7, <1>8, <1>9

\* The expiration thread closes an account, with or without a report.
LEMMA ExpireStep ==
    ASSUME LedgerInv, NEW s \in Socks, ExpireOne(s)
    PROVE  Ledger!Next \/ UNCHANGED Ledger!ledgerVars
<1>0. TypeOK
  BY DEF LedgerInv
<1>1. Sent' = Sent /\ Inflight' = Inflight
  BY LedgerSame DEF ExpireOne, kernelVars
<1>2. CASE ~Tracked(s)
  BY <1>1, <1>2, LedgerSame, IsStutter DEF ExpireOne
<1>3. CASE Tracked(s)
  <2>1. session_tracking' = PopSession(s) /\ (reports' = reports \/ reports' = Output(s, FALSE))
    BY <1>3 DEF ExpireOne
  <2>2. Account' = [Account EXCEPT ![s] = {}]
    BY <1>0, <2>1, AccountChange DEF PopSession
  <2>3. Account[s] = session_tracking[s].msgs /\ Account[s] # {}
    BY <1>3, AccountTracked
  <2> DEFINE r == [sock |-> s, msgs |-> session_tracking[s].msgs,
                   error |-> session_tracking[s].error, from_bpf |-> FALSE]
  <2>4. r \in Report /\ r.msgs = session_tracking[s].msgs
    BY <1>0, <1>3 DEF TypeOK, Tracked, Report, Session
  <2>5. reports' = reports \/ reports' = Append(reports, r)
    BY <2>1 DEF Output
  <2> HIDE DEF r
  <2>6. Reported' = Reported \/ Reported' = Append(Reported, Account[s])
    BY <1>0, <2>3, <2>4, <2>5, ReportedAppend, LedgerSame
  <2> QED
    BY <1>1, <2>2, <2>3, <2>6, IsClose
<1> QED
  BY <1>2, <1>3

\* Ageing and marking sessions leaves the accounts alone.
LEMMA AgeStep ==
    ASSUME LedgerInv, Tick \/ ExpirationScan
    PROVE  UNCHANGED Ledger!ledgerVars
<1>0. session_tracking \in [Socks -> Session \cup {None}]
  BY DEF LedgerInv, TypeOK
<1>1. Sent' = Sent /\ Inflight' = Inflight /\ Reported' = Reported
  BY LedgerSame DEF Tick, ExpirationScan, kernelVars
<1>2. ASSUME NEW s \in Socks
      PROVE  /\ session_tracking'[s] # None <=> session_tracking[s] # None
             /\ session_tracking[s] # None => session_tracking'[s].msgs = session_tracking[s].msgs
  <2>1. CASE session_tracking'[s] = session_tracking[s]
    BY <2>1
  <2>2. CASE session_tracking'[s] # session_tracking[s]
    <3>1. session_tracking[s] # None /\ session_tracking[s] \in Session
      BY <1>0, <2>2 DEF Tick, ExpirationScan, Tracked, IsExpired
    <3>2. CASE Tick
      <4>1. /\ session_tracking[s].age <= SessionMaxDuration
            /\ session_tracking'[s] = [session_tracking[s] EXCEPT !.age = @ + 1]
        BY <2>2, <3>2 DEF Tick
      <4>2. session_tracking[s].age + 1 \in 0 .. SessionMaxDuration + 1
        BY <3>1, <4>1, UdpSessionAssumption DEF Session
      <4>3. session_tracking'[s] \in Session /\ session_tracking'[s].msgs = session_tracking[s].msgs
        BY <3>1, <4>1, <4>2 DEF Session
      <4> QED
        BY <3>1, <4>3, NoneAssumption
    <3>3. CASE ExpirationScan
      <4>1. session_tracking'[s] =
                [session_tracking[s] EXCEPT !.error = "session_max_duration_exceeded"]
        BY <2>2, <3>3 DEF ExpirationScan
      <4>2. session_tracking'[s] \in Session /\ session_tracking'[s].msgs = session_tracking[s].msgs
        BY <3>1, <4>1 DEF Session, Errors
      <4> QED
        BY <3>1, <4>2, NoneAssumption
    <3> QED
      BY <3>2, <3>3
  <2> QED
    BY <2>1, <2>2
<1>3. Account' = [s \in Socks |-> IF session_tracking'[s] # None THEN session_tracking'[s].msgs ELSE {}]
  BY DEF Account, Tracked
<1>4. Account' = Account
  BY <1>2, <1>3 DEF Account, Tracked
<1> QED
  BY <1>1, <1>4, IsStutter

\* Every step of the probe is a step of the ledger or leaves it alone, and keeps
\* the numbers of the log.
LEMMA LedgerStep ==
    LedgerInv /\ [Next]_vars => [Ledger!Next]_(Ledger!ledgerVars) /\ LogNumbered'
<1> SUFFICES ASSUME LedgerInv, [Next]_vars
             PROVE  (Ledger!Next \/ UNCHANGED Ledger!ledgerVars) /\ LogNumbered'
  OBVIOUS
<1>0. TypeOK
  BY DEF LedgerInv
<1>1. log' = log => LogNumbered'
  BY DEF LedgerInv, LogNumbered
<1>2. ASSUME UNCHANGED <<log, ring, session_tracking, reports>>
      PROVE  UNCHANGED Ledger!ledgerVars /\ LogNumbered'
  BY <1>1, <1>2, LedgerSame, IsStutter
<1>3. ASSUME NEW s \in Socks, OpenSocket(s) PROVE UNCHANGED Ledger!ledgerVars /\ LogNumbered'
  BY <1>2, <1>3 DEF OpenSocket, workerVars
<1>4. ASSUME NEW c \in Cpus, NEW s \in Socks, NEW d \in Dests, SendLookup(c, s, d)
      PROVE  UNCHANGED Ledger!ledgerVars /\ LogNumbered'
  BY <1>2, <1>4 DEF SendLookup, workerVars
<1>5. ASSUME NEW c \in Cpus, SendSubmit(c) PROVE Ledger!Next /\ LogNumbered'
  <2>1. handler[c] \in Handler
    BY <1>0, <1>5 DEF SendSubmit, TypeOK
  <2> DEFINE e == NewEvent(handler[c].flag, handler[c].sock, handler[c].dest)
  <2>2. e \in Event
    BY <1>0, <2>1, NewEventType DEF Handler, EventTypes
  <2>3. e.seq = Len(log) + 1 /\ IsMessage(e)
    BY <2>1 DEF NewEvent, IsMessage, Handler, SESSION_START, SESSION_CONTINUE, SESSION_END
  <2>4. PerfSubmit(c, e) /\ UNCHANGED <<session_tracking, reports>>
    BY <1>5 DEF SendSubmit, workerVars
  <2> HIDE DEF e
  <2>5. /\ LogNumbered' /\ e \notin Sent /\ Sent' = Sent \cup {e}
        /\ Inflight' = Inflight \/ Inflight' = Inflight \cup {e}
    BY <2>2, <2>3, <2>4, SubmitSends
  <2> QED
    BY <2>4, <2>5, LedgerSame, IsSend
<1>6. ASSUME NEW c \in Cpus, NEW s \in Socks, kprobe__inet_release(c, s)
      PROVE  UNCHANGED Ledger!ledgerVars /\ LogNumbered'
  <2>1. UNCHANGED <<session_tracking, reports>>
    BY <1>6 DEF kprobe__inet_release, workerVars
  <2>2. CASE s \in tracing
    <3> DEFINE e == NewEvent(SESSION_END, s, None)
    <3>1. e \in Event
      BY <1>0, NewEventType DEF EventTypes
    <3>2. e.seq = Len(log) + 1 /\ ~IsMessage(e)
      BY DEF NewEvent, IsMessage
    <3>3. PerfSubmit(c, e)
      BY <1>6, <2>2 DEF kprobe__inet_release
    <3> HIDE DEF e
    <3>4. LogNumbered' /\ Sent' = Sent /\ Inflight' = Inflight
      BY <3>1, <3>2, <3>3, SubmitSends
    <3> QED
      BY <2>1, <3>4, LedgerSame, IsStutter
  <2>3. CASE s \notin tracing
    BY <1>2, <1>6, <2>1, <2>3 DEF kprobe__inet_release
  <2> QED
    BY <2>2, <2>3
<1>7. CASE StartPolling
  BY <1>2, <1>7 DEF StartPolling, kernelVars
<1>8. ASSUME NEW c \in Cpus, Poll(c)
      PROVE  (Ledger!Next \/ UNCHANGED Ledger!ledgerVars) /\ LogNumbered'
  BY <1>1, <1>8, PollStep DEF Poll
<1>9. CASE Tick \/ ExpirationScan
  BY <1>1, <1>9, AgeStep DEF Tick, ExpirationScan, kernelVars
<1>10. ASSUME NEW s \in Socks, ExpireOne(s)
       PROVE  (Ledger!Next \/ UNCHANGED Ledger!ledgerVars) /\ LogNumbered'
  BY <1>1, <1>10, ExpireStep DEF ExpireOne, kernelVars
<1>11. CASE UNCHANGED vars
  BY <1>2, <1>11 DEF vars, kernelVars, workerVars
<1> QED
  BY <1>3, <1>4, <1>5, <1>6, <1>7, <1>8, <1>9, <1>10, <1>11 DEF Next

\* The probe starts with an empty ledger.
LEMMA LedgerInit == Init => Ledger!Init
<1> SUFFICES ASSUME Init PROVE Ledger!Init
  OBVIOUS
<1>1. MessagesIn(<<>>) = {}
  BY DEF MessagesIn
<1>2. Sent = {} /\ Inflight = {}
  BY <1>1 DEF Init, Sent, Inflight
<1>3. Account = [s \in Socks |-> {}]
  BY DEF Init, Account, Tracked
<1>4. Reported = <<>>
  BY DEF Init, Reported
<1> QED
  BY <1>2, <1>3, <1>4 DEF Ledger!Init, Sent, Inflight, Account, Reported

\* The udp_session probe implements the ledger: whatever the rings lose or
\* reorder, and whichever of the polling thread and the expiration thread ends a
\* session first, a message enters at most one account, that of its socket, and
\* an account is closed once and as a whole.
THEOREM ProbeImplementsLedger == Spec => ImplementsLedger
<1>1. Init => LedgerInv
  BY TypeInit, CountInit DEF Init, LedgerInv, OneStartPerSession, LogNumbered, Tracked
<1>2. LedgerInv /\ [Next]_vars => LedgerInv' /\ [Ledger!Next]_(Ledger!ledgerVars)
  BY TypeStep, CountStep, OneStartStep, LedgerStep DEF LedgerInv
<1> QED
  BY <1>1, <1>2, LedgerInit, PTL DEF Spec, ImplementsLedger, Ledger!Spec
=============================================================================
