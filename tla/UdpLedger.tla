----------------------------- MODULE UdpLedger -----------------------------
(* The udp_session probe implements SessionLedger. *)
EXTENDS UdpSession

IsMessage(e) == e.type # SESSION_END
MessagesIn(seq) == {seq[i] : i \in {j \in 1 .. Len(seq) : IsMessage(seq[j])}}

Ledger == INSTANCE SessionLedger WITH
    sent     <- MessagesIn(log),
    inflight <- UNION {MessagesIn(ring[c]) : c \in Cpus},
    account  <- [s \in Socks |-> IF Tracked(s) THEN session_tracking[s].msgs ELSE {}],
    reports  <- [i \in 1 .. Len(reports) |-> reports[i].msgs]

\* Every step of the kprobes, of the polling thread and of the expiration thread
\* is a step of the ledger or changes nothing in it: whatever the rings lose or
\* reorder and whichever thread ends a session first, its account is closed once
\* and as a whole, and no message enters two.
ImplementsLedger == Ledger!Spec
=============================================================================
