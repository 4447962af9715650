---------------------------- MODULE MCUdpSession ----------------------------
(* UdpSession for TLC: sockets and destinations are model values. *)
EXTENDS UdpLedger, TLC

CONSTANTS s1, s2, d1, d2

MCSocks2 == {s1, s2}
MCDests1 == {d1}
MCDests2 == {d1, d2}
MCFiltered == {d2}

\* Sound for the safety runs: no formula names a socket.
Symmetry == Permutations(MCSocks2) \cup Permutations(Cpus)
=============================================================================
