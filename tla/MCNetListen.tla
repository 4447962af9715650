---------------------------- MODULE MCNetListen ----------------------------
(* NetListen for TLC. *)
EXTENDS NetListen

CONSTANTS st, su, e1, e2

MCSocks == {st, su}
MCSockInfo == [s \in MCSocks |-> [proto |-> IF s = st THEN "tcp" ELSE "udp",
                                  home |-> s = st, owned |-> TRUE]]
MCEndpoints == {e1, e2}
MCConfigs == {[net |-> {e1}, port |-> {}, valid |-> TRUE],
              [net |-> {}, port |-> {e2}, valid |-> TRUE],
              [net |-> {}, port |-> {}, valid |-> FALSE]}

Probe(fns, labels, random, same_ns, snapshot) ==
    [fns |-> fns, labels |-> labels, random |-> random, same_ns |-> same_ns,
     snapshot |-> snapshot]

\* tcp_connect, net_listen for both protocols without random binds, for UDP in
\* its own namespace, and with container_labels.
MCSettings == {Probe({"connect"}, FALSE, FALSE, FALSE, FALSE),
               Probe({"bind", "listen"}, FALSE, TRUE, FALSE, TRUE),
               Probe({"bind"}, FALSE, FALSE, TRUE, TRUE),
               Probe({"listen"}, TRUE, FALSE, FALSE, TRUE)}
=============================================================================
