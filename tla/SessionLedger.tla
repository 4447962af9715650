--------------------------- MODULE SessionLedger ---------------------------
(***************************************************************************)
(* What the udp_session probe promises about messages, whatever is lost,   *)
(* reordered or expired on the way: a message is delivered at most once,   *)
(* to the account of its socket; an account is closed as a whole; and a    *)
(* report is one closed account.  So every message is in at most one       *)
(* report, and only together with messages of its own socket.              *)
(***************************************************************************)
EXTENDS Sequences

CONSTANTS Socks

VARIABLES
    sent,     \* messages sent so far
    inflight, \* sent and neither delivered nor lost
    account,  \* account[s]: the delivered messages of the session of s
    reports   \* the message sets of the sessions reported, in order

ledgerVars == <<sent, inflight, account, reports>>

Init ==
    /\ sent = {} /\ inflight = {}
    /\ account = [s \in Socks |-> {}]
    /\ reports = <<>>

\* A message that is lost is lost when it is sent.
Send ==
    /\ \E m \in sent' \ sent : /\ sent' = sent \cup {m}
                               /\ inflight' \in {inflight, inflight \cup {m}}
    /\ UNCHANGED <<account, reports>>

\* It begins an account, is added to one that there is, or finds none.
Deliver ==
    /\ \E m \in inflight :
           /\ inflight' = inflight \ {m}
           /\ account' \in {account,
                            [account EXCEPT ![m.sock] = {m}],
                            [account EXCEPT ![m.sock] = @ \cup {m}]}
           /\ account[m.sock] = {} /\ account' # account => m.type = "start"
    /\ UNCHANGED <<sent, reports>>

\* A session ends, with a report or, when one could not be made, without.
Close ==
    /\ \E s \in Socks :
           /\ account[s] # {} /\ account' = [account EXCEPT ![s] = {}]
           /\ reports' \in {reports, Append(reports, account[s])}
    /\ UNCHANGED <<sent, inflight>>

Next == Send \/ Deliver \/ Close

Spec == Init /\ [][Next]_ledgerVars
=============================================================================
