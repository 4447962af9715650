---------------------------- MODULE MCFilterLoad ----------------------------
(* FilterLoad for TLC: 2-bit addresses, 4 ports, and configurations chosen to  *)
(* replace, split, nest, overflow and change mode.                             *)
EXTENDS FilterLoad

Filter(net, len, except, include) ==
    [network |-> net, prefixlen |-> len, except_ports |-> except, include_ports |-> include]
One(p) == [lower |-> p, upper |-> p]
Span(p, q) == [lower |-> p, upper |-> q]
IntPort(p) == [lower |-> p, upper |-> p, is_range |-> FALSE]
Range(p, q) == [lower |-> p, upper |-> q, is_range |-> TRUE]

\* The lower half of the addresses, given by its second address.
Half == [filters |-> <<Filter(1, 1, <<>>, <<>>)>>, ports |-> {IntPort(1)}, mode |-> "exclude"]
\* Its two quarters, one filtered but for a port, the other only for some.
Quarters ==
    [filters |-> <<Filter(0, 2, <<One(1)>>, <<>>), Filter(1, 2, <<>>, <<Span(2, 3)>>)>>,
     ports |-> {Range(1, 2)}, mode |-> "exclude"]
\* Other addresses: with those of Half or Quarters more than the map may hold.
\* Port 0 is where the mode is kept.
Upper ==
    [filters |-> <<Filter(2, 2, <<>>, <<>>), Filter(3, 2, <<>>, <<>>)>>,
     ports |-> {IntPort(0), IntPort(2)}, mode |-> "include"]
\* A network inside another one.
Nested ==
    [filters |-> <<Filter(0, 0, <<>>, <<One(2)>>), Filter(2, 1, <<One(1)>>, <<>>)>>,
     ports |-> {}, mode |-> "exclude"]
\* More port ranges than a value holds, after a filter with both lists of ports.
Ranges ==
    [filters |-> <<Filter(3, 2, <<One(1)>>, <<One(2)>>),
                   Filter(0, 1, <<One(1), One(2), One(3)>>, <<>>)>>,
     ports |-> {}, mode |-> "exclude"]

\* More filters than the map of Half holds.
Four ==
    [filters |-> <<Filter(0, 2, <<>>, <<>>), Filter(1, 2, <<>>, <<>>),
                   Filter(2, 2, <<>>, <<One(1)>>), Filter(3, 2, <<>>, <<>>)>>,
     ports |-> {IntPort(1)}, mode |-> "exclude"]

MCConfigs == {Half, Quarters, Upper, Nested, Ranges, Four}
=============================================================================
