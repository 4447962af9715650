----------------------------- MODULE NetFilter -----------------------------
(***************************************************************************)
(* Network and port filters: what a configuration asks for (filtering.py)  *)
(* and what the maps compiled into a probe decide (probes/utils.j2).       *)
(* Addresses are AddrBits wide and written most significant bit first, the *)
(* order in which the LPM trie compares them.  Netmasks are contiguous:    *)
(* netmask_to_prefixlen raises on any other.                               *)
(* Ports of a filter may be given as a range "a-b"; class NetFilter itself *)
(* takes single ports only (int() refuses a range), the maps take both.    *)
(***************************************************************************)
EXTENDS Naturals, Sequences, FiniteSets

CONSTANTS
    AddrBits,   \* 32 in the code
    MaxPort,    \* 65535 in the code
    MaxRanges   \* NET_FILTER_MAX_PORT_RANGES, 8 in the code

ASSUME NetFilterAssumption ==
    AddrBits \in Nat /\ MaxPort \in Nat \ {0} /\ MaxRanges \in Nat

Addr == 0 .. 2 ^ AddrBits - 1
Port == 0 .. MaxPort
PrefixLen == 0 .. AddrBits

\* What Mask needs of 2 ^ n, whatever AddrBits is.
ASSUME PowerAssumption == \A n \in PrefixLen : 2 ^ n \in Nat \ {0}

PortFilterMode == {"all", "exclude", "include"}
PortRange == [lower : Port, upper : Port]

\* An entry of "filters"; a single port is the range from it to itself.
IpPortFilter == [network : Addr, prefixlen : PrefixLen,
                 except_ports : Seq(PortRange), include_ports : Seq(PortRange)]

\* An entry of "includeports" or "excludeports": an int, or a string "a-b".
PortSpec == {s \in [lower : Port, upper : Port, is_range : BOOLEAN] :
                 s.is_range \/ s.lower = s.upper}

\* network & network_mask
Mask(addr, prefixlen) == addr - (addr % 2 ^ (AddrBits - prefixlen))

InRanges(port, ranges) ==
    \E i \in 1 .. Len(ranges) : ranges[i].lower <= port /\ port <= ranges[i].upper

-----------------------------------------------------------------------------
(* What the configuration asks for: class NetFilter. *)

InNetwork(f, addr) == Mask(addr, f.prefixlen) = Mask(f.network, f.prefixlen)

MatchesFilter(f, addr, port) ==
    /\ InNetwork(f, addr)
    /\ ~InRanges(port, f.except_ports)
    /\ f.include_ports = <<>> \/ InRanges(port, f.include_ports)

\* NetFilter.is_filtered
is_filtered(filters, addr, port) ==
    \E i \in 1 .. Len(filters) : MatchesFilter(filters[i], addr, port)

-----------------------------------------------------------------------------
(* What is loaded into the maps. *)

CFilterKey == [prefixlen : PrefixLen, data : Addr]
CFilterValue == [mode : PortFilterMode, ranges : Seq(PortRange)]

\* CFilterKey.from_network_definition
FilterKeyUnmasked(f) == [prefixlen |-> f.prefixlen, data |-> f.network]
FilterKey(f) == [prefixlen |-> f.prefixlen, data |-> Mask(f.network, f.prefixlen)]

\* The value of an entry: except_ports has precedence over include_ports.
FilterValue(f) ==
    IF f.except_ports # <<>>
    THEN [mode |-> "exclude", ranges |-> f.except_ports]
    ELSE IF f.include_ports # <<>>
    THEN [mode |-> "include", ranges |-> f.include_ports]
    ELSE [mode |-> "all", ranges |-> <<>>]

\* range_array_t(*port_ranges) raises when given more than its length.
TooManyRanges(f) == Len(FilterValue(f).ranges) > MaxRanges

AtMost(m, n) == IF m < n THEN m ELSE n
AtLeast(m, n) == IF m > n THEN m ELSE n

\* range(max(1, from_p), min(65535, to_p + 1)): the end is exclusive twice.
port_range_mapper(spec) ==
    {p \in Port : AtLeast(1, spec.lower) <= p /\ p < AtMost(MaxPort, spec.upper + 1)}

\* The set loaded into the port array.
PortSet(specs) ==
    UNION {IF spec.is_range THEN port_range_mapper(spec) ELSE {spec.lower} :
               spec \in specs}

-----------------------------------------------------------------------------
(* What a probe decides: probes/utils.j2. *)

MatchingKeys(map, addr) ==
    {k \in DOMAIN map : Mask(addr, k.prefixlen) = k.data}

\* The lookup of a BPF_LPM_TRIE: the longest matching prefix.
LpmLookup(map, addr) ==
    map[CHOOSE k \in MatchingKeys(map, addr) :
            \A l \in MatchingKeys(map, addr) : l.prefixlen <= k.prefixlen]

is_addr_port_filtered(map, addr, port) ==
    /\ MatchingKeys(map, addr) # {}
    /\ LET val == LpmLookup(map, addr) IN
       \/ val.mode = "all"
       \/ val.mode = "include" /\ InRanges(port, val.ranges)
       \/ val.mode = "exclude" /\ ~InRanges(port, val.ranges)

\* BPF_ARRAY(port_filter_map): element 0 holds the mode, the others 0 or 1.
ModeValue(mode) == CASE mode = "all" -> 0 [] mode = "exclude" -> 1 [] mode = "include" -> 2

is_port_globally_filtered(array, port) ==
    \/ array[0] = ModeValue("exclude") /\ array[port] # 0
    \/ array[0] = ModeValue("include") /\ array[port] = 0
=============================================================================
