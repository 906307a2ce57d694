------------------------------ MODULE Subnets ------------------------------
(* The subnets an install landed in, from the masks its devices report and  *)
(* from the gateways they share (_smallest_network and _subnet_groups of    *)
(* shape.py), and the checks over them.                                    *)
EXTENDS Findings, Sequences, SequencesExt

CONSTANTS
    Bits,       \* the width of an address: 32
    Widest,     \* WIDEST_INFERRED_PREFIX: 16
    Bucket      \* the prefix assumed of an address nothing else places: 24

ASSUME SubnetsAssumption ==
    /\ Bits \in Nat /\ Widest \in 0..Bits /\ Bucket \in 0..Bits

NoMask    == -1
NoGateway == -1
\* A network is its first address and its prefix; strict=False clears the host bits.
Powers[n \in 0..Bits] == IF n = 0 THEN 1 ELSE 2 * Powers[n - 1]
Size(prefix) == Powers[Bits - prefix]
Address == 0 .. (Size(0) - 1)
NetOf(addr, prefix) == [base |-> addr - (addr % Size(prefix)), prefix |-> prefix]
Inside(addr, net) == addr \in net.base .. (net.base + Size(net.prefix) - 1)

Lowest(addrs)  == CHOOSE a \in addrs : \A b \in addrs : a <= b
Highest(addrs) == CHOOSE a \in addrs : \A b \in addrs : a >= b
\* _smallest_network(): the longest prefix the lowest and the highest agree on,
\* never wider than Widest: a pair further apart is given the lowest's network.
SmallestNetwork(addrs) ==
    LET agree == {p \in 0..Bits : NetOf(Lowest(addrs), p) = NetOf(Highest(addrs), p)}
        longest == Highest(agree)
    IN  NetOf(Lowest(addrs), IF longest < Widest THEN Widest ELSE longest)

\* The subnets so far: a row holds its network, where it comes from and the
\* devices counted in it.  The most specific row that holds every address wins.
Containing(rows, addrs) == {r \in rows : \A a \in addrs : Inside(a, r.net)}
MostSpecific(rows) == CHOOSE r \in rows : \A q \in rows : r.net.prefix >= q.net.prefix
CountIn(rows, row, devices) == (rows \ {row}) \cup {[row EXCEPT !.devices = @ \cup devices]}

Masked(ds)  == {d \in ds : d.mask # NoMask}
Behind(ds, g) == {d \in ds : d.mask = NoMask /\ d.gateway = g}
Loose(ds)   == Behind(ds, NoGateway)
\* What the devices say themselves.
Reported(ds) ==
    {[net |-> net, source |-> "reported", devices |-> {d \in Masked(ds) : NetOf(d.ip, d.mask) = net}] :
        net \in {NetOf(d.ip, d.mask) : d \in Masked(ds)}}
\* One gateway: its devices join a subnet that holds them all and the gateway,
\* or make the smallest one that does.
PlaceGateway(ds, rows, g) ==
    LET members == Behind(ds, g)
        addrs == {d.ip : d \in members} \cup {g}
        known == Containing(rows, addrs)
    IN  IF known # {}
        THEN CountIn(rows, MostSpecific(known), members)
        ELSE rows \cup {[net |-> SmallestNetwork(addrs), source |-> "inferred", devices |-> members]}
\* A device with neither joins the subnet that holds it, or else its bucket.
MutPlaceLoose(ds, rows) ==
    rows \cup {[net |-> NetOf(d.ip, Bucket), source |-> "assumed",
                devices |-> {e \in Loose(ds) : NetOf(e.ip, Bucket) = NetOf(d.ip, Bucket)}] : d \in Loose(ds)}
PlaceLoose(ds, rows) ==
    LET placed == {d \in Loose(ds) : Containing(rows, {d.ip}) # {}}
        joined == {[r EXCEPT !.devices = @ \cup {d \in placed : MostSpecific(Containing(rows, {d.ip})) = r}] : r \in rows}
        rest == Loose(ds) \ placed
    IN  joined \cup {[net |-> net, source |-> "assumed", devices |-> {d \in rest : NetOf(d.ip, Bucket) = net}] :
                        net \in {NetOf(d.ip, Bucket) : d \in rest}}
\* _subnet_groups(): the gateways in the order their first devices are listed.
Placing(ds, order) ==
    LET after[i \in 0..Len(order)] ==
            CASE i = 0 -> Reported(ds)
              [] i > 0 /\ Behind(ds, order[i]) = {} -> after[i - 1]
              [] OTHER -> PlaceGateway(ds, after[i - 1], order[i])
    IN  after
SubnetGroups(ds, order) == PlaceLoose(ds, Placing(ds, order)[Len(order)])

---------------------------------------------------------------------------
\* check_ap_addressing(): an online AP with no address, several subnets, or one.
ApAddressing(subnets, missing) ==
    CASE subnets = {} /\ missing = {} -> Finding("ap-addressing", "skipped", {})
      [] missing # {} -> Finding("ap-addressing", "warning", {})
      [] missing = {} /\ Cardinality(subnets) > 1 ->
            Finding("ap-addressing", "info", {<<"subnet", s.net>> : s \in subnets})
      [] OTHER -> Finding("ap-addressing", "ok", {})
ExternalIp(external) ==
    CASE external = {} -> Finding("external-ip", "skipped", {})
      [] Cardinality(external) > 1 -> Finding("external-ip", "info", {<<"ip", e>> : e \in external})
      [] OTHER -> Finding("external-ip", "ok", {<<"ip", e>> : e \in external})
DhcpPools(pools) ==
    Judged("dhcp-pools", pools = {}, {<<"pool", p.name>> : p \in {q \in pools : q.full}}, "warning")
============================================================================
