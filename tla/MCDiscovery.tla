----------------------------- MODULE MCDiscovery -----------------------------
(***************************************************************************)
(* Small LANs for Discovery.  A "/24" is scaled to 8 addresses.  The host  *)
(* has an ordinary interface and a virtual one on a smaller network, or    *)
(* the ordinary one alone, or none.                                        *)
(***************************************************************************)
EXTENDS Discovery

Ordinary(ip, size) == [penalty |-> 0, ip |-> ip, size |-> size]
Virtual(ip, size) == [penalty |-> 1, ip |-> ip, size |-> size]

\* A LAN of 16 addresses, cut to the 8 around the host, one of 8 and one of 4.
MCLists == {<<>>, <<Virtual(30, 2), Ordinary(5, 16)>>, <<Ordinary(5, 8)>>, <<Ordinary(5, 4)>>}
MCOccupied == {2, 6}

\* A LAN of 4 addresses.
SmallLists == {<<Ordinary(5, 4)>>}
=============================================================================
