------------------------------- MODULE LanSweep -------------------------------
(***************************************************************************)
(* Which interface discovery uses and which addresses it pings:            *)
(* select_private_interface and ping_sweep (collectors/network.py).        *)
(* Addresses are numbers; the network of an interface is the aligned block *)
(* of size addresses that its own lies in.                                 *)
(***************************************************************************)
EXTENDS Integers, Sequences, FiniteSets

CONSTANTS
    BlockSize,      \* addresses of the widest sweep, 256 for a /24
    MaxHosts        \* settings.max_discovery_hosts

ASSUME BlockAssumption == BlockSize \in Nat \ {0}
ASSUME MaxHostsAssumption == MaxHosts \in Nat \ {0}

First(ip, size) == ip - (ip % size)

Block(ip, size) == First(ip, size)..(First(ip, size) + size - 1)

\* ip_network.hosts(): without the network and broadcast addresses, except in
\* blocks of one or two addresses.
HostsOf(ip, size) ==
    IF size <= 2 THEN Block(ip, size)
    ELSE (First(ip, size) + 1)..(First(ip, size) + size - 2)

\* A virtual or tunnel name counts before the size, the size before the order.
Better(a, b) ==
    \/ a.penalty < b.penalty
    \/ a.penalty = b.penalty /\ a.size < b.size

\* sorted(candidates, key=score)[0], of a non-empty list.
Selected(candidates) ==
    candidates[CHOOSE i \in 1..Len(candidates) :
                 \A j \in 1..Len(candidates) :
                    /\ ~Better(candidates[j], candidates[i])
                    /\ j < i => Better(candidates[i], candidates[j])]

\* A network with more than max_hosts hosts is replaced by the /24 around the
\* address of the interface.
SweptSize(iface) == IF iface.size - 2 > MaxHosts THEN BlockSize ELSE iface.size

Network(iface) == Block(iface.ip, SweptSize(iface))

\* Mutant: the interface's own address takes a place in the list.
SweptWithLocal(iface) ==
    LET hosts == HostsOf(iface.ip, SweptSize(iface))
    IN  {h \in hosts : Cardinality({g \in hosts : g < h}) < MaxHosts} \ {iface.ip}

\* The first max_hosts hosts in numerical order, the interface's own left out.
Swept(iface) ==
    LET hosts == HostsOf(iface.ip, SweptSize(iface)) \ {iface.ip}
    IN  {h \in hosts : Cardinality({g \in hosts : g < h}) < MaxHosts}
=============================================================================
