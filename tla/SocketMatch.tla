----------------------------- MODULE SocketMatch -----------------------------
(***************************************************************************)
(* How a packet gets its process: match_process (collectors/packet.py)     *)
(* looks its addresses up in the sockets the monitor has published, and    *)
(* collect_listeners (collectors/host.py) picks the listeners from them.   *)
(* A socket is a record of its protocol, its two ends, whether its status  *)
(* is LISTEN, and its owner, the name and pid of its process.              *)
(***************************************************************************)
EXTENDS Integers, Sequences

CONSTANTS
    Ips, Ports,     \* addresses and ports of packets
    None,           \* what an unconnected socket has in place of a peer
    Owners,         \* names and pids of processes
    NoOwner         \* the pair of None that stands for no socket found

Ends == [ip : Ips \cup {None}, port : Ports \cup {None}]

\* The sockets psutil shows: one that listens has no peer.
Sockets == {s \in [proto : {"tcp", "udp"}, local : Ends, remote : Ends,
                   listen : BOOLEAN, owner : Owners] :
              s.listen => s.remote.ip = None}

\* What normalized_packet makes of a packet; one that is neither TCP nor UDP has
\* no ports.
Flows == [proto : {"tcp", "udp", "ip"}, src : [ip : Ips, port : Ports \cup {None}],
          dst : [ip : Ips, port : Ports \cup {None}]]

\* A TCP socket listens by its status, a UDP socket when it has a port and no peer.
Listening(s) ==
    IF s.proto = "tcp" THEN s.listen
    ELSE s.local.port # None /\ s.remote.ip = None

\* Both ends of the socket are those of the flow, in either order.
Matches(flow, s) ==
    /\ s.proto = flow.proto
    /\ \/ s.local = flow.src /\ s.remote = flow.dst
       \/ s.local = flow.dst /\ s.remote = flow.src

Hits(flow, sockets) == {i \in 1..Len(sockets) : Matches(flow, sockets[i])}

\* The owner of the first socket that matches.
MatchProcess(flow, sockets) ==
    IF Hits(flow, sockets) = {} THEN NoOwner
    ELSE sockets[CHOOSE i \in Hits(flow, sockets) :
                   \A j \in Hits(flow, sockets) : i <= j].owner
=============================================================================
