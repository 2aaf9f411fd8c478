------------------------------- MODULE Capture -------------------------------
(***************************************************************************)
(* The packet sensor: PacketCaptureWorker (sentinel/worker.py) with the    *)
(* part of normalized_packet (collectors/packet.py) it depends on, and     *)
(* record_flow, record_device_packet, upsert_dns_record, record_dns_event  *)
(* and known_device_ips (storage.py).                                      *)
(*                                                                         *)
(* Scapy calls _handle_packet for one packet after the other.  A packet is *)
(* a flow row, up to two device counters and the DNS messages it carries,  *)
(* each in a transaction of its own, one value of pc each; time goes on in *)
(* between.  The process a flow is attributed to, sizes and ports are left *)
(* out, and so is the timeline event of a new flow (one of the events of   *)
(* Incidents).                                                             *)
(*                                                                         *)
(* Scapy is not in the repository.  The version the code pins calls prn    *)
(* inside a try of its own: an exception of _handle_packet closes the      *)
(* socket and ends sniff with a warning.  Only an exception of sniff       *)
(* itself, which could not open the interface, reaches worker.py.          *)
(***************************************************************************)
EXTENDS Integers, Sequences, FiniteSetsExt

CONSTANTS
    Addresses,      \* IPv4 addresses on the wire
    Resolved,       \* what the host name resolves to, and the loopback address
    LocalIp,        \* the address of the interface discovery has selected
    Neighbours,     \* those discovery may store as devices
    Packets,        \* [src, dst, dns], dns a sequence of <<domain, answer>>
    NoAnswer,       \* the answer of a query
    Lag,            \* seconds the set of device addresses is kept
    Gap,            \* seconds between two events for one DNS message
    MaxTime,        \* bound on the clock
    MaxPackets,     \* bound on the packets of a behaviour
    MaxFailures     \* bound on the database errors

Messages == UNION {{p.dns[i] : i \in DOMAIN p.dns} : p \in Packets}
Answered == {m \in Messages : m[2] # NoAnswer}
Directions == {"outbound", "inbound", "transit"}

ASSUME TimeAssumption == {Lag, Gap, MaxTime} \subseteq Nat \ {0}
ASSUME BoundAssumption == MaxPackets \in Nat /\ MaxFailures \in Nat
ASSUME HostAssumption == LocalIp \in Addresses /\ Resolved \subseteq Addresses
ASSUME NeighbourAssumption == Neighbours \subseteq Addresses
ASSUME PacketAssumption ==
    \A p \in Packets :
       p.src \in Addresses /\ p.dst \in Addresses /\ p.dns \in Seq(Messages)

VARIABLES
    clock,
    since,          \* the devices table: when an address was stored, Never if not
    discovered,     \* runtime.data["network_info"] is there
    flows,          \* the flows table: packets per row
    traffic,        \* the device_traffic table: packets from and to an address
    records,        \* the dns_records of type PACKET
    lastEvent,      \* the newest timeline event of a DNS message
    pc,             \* where the thread is
    packet,         \* the packet in hand
    row,            \* the flow it belongs to, until it is stored
    now,            \* _handle_packet's clock reading
    messages,       \* the DNS messages of the packet that are still to be stored
    cached,         \* device_ips
    refreshed,      \* device_ips_refreshed
    recentDns,      \* recent_dns
    captured,       \* runtime.data["capture_packets"]
    running,        \* runtime.data["capture_running"]
    stopEvent,
    lastSeen,       \* history: when a DNS message was last on the wire
    missed,         \* history: how long a device was known when it was not counted
    pruned,         \* history: packets of flows that were pruned
    failures

lan == <<since, discovered>>
memory == <<cached, refreshed, recentDns>>
handler == <<packet, row, now, messages>>
tables == <<flows, traffic, records, lastEvent>>
history == <<lastSeen, missed, pruned>>
vars == <<clock, lan, tables, pc, handler, memory, captured, running,
          stopEvent, history, failures>>

Never == -1
NoPacket == [src |-> "none", dst |-> "none", dns |-> <<>>]
NoRow == <<>>
Epoch == Lag + Gap
Times == Epoch..(Epoch + MaxTime)
FlowKeys == Addresses \X Addresses \X Directions
Sides == {"from", "to"}
Handling == {"flow", "look", "refresh", "from", "to", "dns", "log"}

TypeOK ==
    /\ clock \in Times
    /\ since \in [Addresses -> Times \cup {Never}]
    /\ discovered \in BOOLEAN
    /\ flows \in [FlowKeys -> 0..MaxPackets]
    /\ traffic \in [Sides \X Addresses -> 0..MaxPackets]
    /\ records \subseteq Answered
    /\ lastEvent \in [Messages -> Times \cup {Never}]
    /\ pc \in {"start", "sniff", "ended"} \cup Handling
    /\ packet \in Packets \cup {NoPacket}
    /\ row \in FlowKeys \cup {NoRow}
    /\ now \in Times \cup {Never}
    /\ messages \in Seq(Messages)
    /\ cached \subseteq Addresses
    /\ refreshed \in Times \cup {0}
    /\ recentDns \in [Messages -> Times \cup {0}]
    /\ captured \in 0..MaxPackets
    /\ running \in BOOLEAN
    /\ stopEvent \in BOOLEAN
    /\ lastSeen \in [Messages -> Times \cup {Never}]
    /\ missed \subseteq Nat
    /\ pruned \in Nat
    /\ failures \in 0..MaxFailures

\* The clock is far from zero, which device_ips_refreshed and recent_dns start
\* with.
Init ==
    /\ clock = Epoch
    /\ since = [a \in Addresses |-> Never] /\ discovered = FALSE
    /\ flows = [k \in FlowKeys |-> 0]
    /\ traffic = [e \in Sides \X Addresses |-> 0]
    /\ records = {} /\ lastEvent = [m \in Messages |-> Never]
    /\ pc = "start"
    /\ packet = NoPacket /\ row = NoRow /\ now = Never /\ messages = <<>>
    /\ cached = {} /\ refreshed = 0 /\ recentDns = [m \in Messages |-> 0]
    /\ captured = 0 /\ running = FALSE
    /\ stopEvent = FALSE
    /\ lastSeen = [m \in Messages |-> Never] /\ missed = {} /\ pruned = 0
    /\ failures = 0

-----------------------------------------------------------------------------
(* A packet. *)

\* The thread ends at once when it is disabled or Scapy is missing.
Start(usable) ==
    /\ pc = "start"
    /\ running' = usable
    /\ pc' = IF usable THEN "sniff" ELSE "ended"
    /\ UNCHANGED <<clock, lan, tables, handler, memory, captured, stopEvent, history,
                   failures>>

\* stop() is seen when sniff returns, after a second at the most; packets are
\* handled until then.
SniffEnds ==
    /\ pc = "sniff"
    /\ stopEvent
    /\ running' = FALSE
    /\ pc' = "ended"
    /\ UNCHANGED <<clock, lan, tables, handler, memory, captured, stopEvent,
                   history, failures>>

\* The interface cannot be opened, at the start or when sniff is called again.
SniffFails ==
    /\ pc = "sniff"
    /\ running' = FALSE
    /\ pc' = "ended"
    /\ UNCHANGED <<clock, lan, tables, handler, memory, captured, stopEvent,
                   history, failures>>

\* Once discovery has selected an interface, only its address counts as local;
\* before, the addresses the host name resolves to.
LocalAddresses == IF discovered THEN {LocalIp} ELSE Resolved

Direction(p) ==
    IF p.src \in LocalAddresses THEN "outbound"
    ELSE IF p.dst \in LocalAddresses THEN "inbound" ELSE "transit"

FlowKey(p) ==
    IF Direction(p) = "inbound" THEN <<p.dst, p.src, "inbound">>
    ELSE <<p.src, p.dst, Direction(p)>>

\* The packets Scapy has handed over so far: each is counted or met an error.
Taken == captured + failures

\* Whether a packet is the machine's own is decided before anything is stored.
Take(p) ==
    /\ pc = "sniff"
    /\ Taken < MaxPackets
    /\ packet' = p
    /\ row' = FlowKey(p)
    /\ messages' = p.dns
    /\ pc' = "flow"
    /\ UNCHANGED <<clock, lan, tables, now, memory, captured, running, stopEvent,
                   history, failures>>

RecordFlow ==
    /\ pc = "flow"
    /\ flows' = [flows EXCEPT ![row] = @ + 1]
    /\ row' = NoRow
    /\ pc' = "look"
    /\ UNCHANGED <<clock, lan, traffic, records, lastEvent, packet, now, messages,
                   memory, captured, running, stopEvent, history, failures>>

\* Mutant: one second late.
StaleLater == clock - refreshed > Lag

Stale == clock - refreshed >= Lag

\* The handler reads the clock once, after the flow is stored, and has the set
\* of devices read again when it is too old.
Look ==
    /\ pc = "look"
    /\ now' = clock
    /\ pc' = IF Stale THEN "refresh" ELSE "from"
    /\ UNCHANGED <<clock, lan, tables, packet, row, messages, memory, captured,
                   running, stopEvent, history, failures>>

Refresh ==
    /\ pc = "refresh"
    /\ cached' = {a \in Addresses : since[a] # Never}
    /\ refreshed' = now
    /\ pc' = "from"
    /\ UNCHANGED <<clock, lan, tables, handler, recentDns, captured, running,
                   stopEvent, history, failures>>

\* record_device_packet for an address that is known as a device.
RecordDevice(side) ==
    LET ip == IF side = "from" THEN packet.src ELSE packet.dst
    IN  /\ pc = side
        /\ IF ip \in cached
           THEN /\ traffic' = [traffic EXCEPT ![<<side, ip>>] = @ + 1]
                /\ UNCHANGED missed
           ELSE /\ missed' = IF since[ip] # Never /\ since[ip] <= now
                             THEN missed \cup {now - since[ip]} ELSE missed
                /\ UNCHANGED traffic
        /\ pc' = IF side = "from" THEN "to" ELSE "dns"
        /\ UNCHANGED <<clock, lan, flows, records, lastEvent, handler, memory,
                       captured, running, stopEvent, lastSeen, pruned, failures>>

\* Mutant: queries, too, are stored as DNS records.
AnyMessage(m) == TRUE

HasAnswer(m) == m[2] # NoAnswer

\* A message with an answer is stored as a record before it is logged.
RecordDns ==
    /\ pc = "dns"
    /\ messages # <<>>
    /\ HasAnswer(Head(messages))
    /\ records' = records \cup {Head(messages)}
    /\ pc' = "log"
    /\ UNCHANGED <<clock, lan, flows, traffic, lastEvent, handler, memory, captured,
                   running, stopEvent, history, failures>>

\* Mutant: one entry per domain, whatever the answer.
LoggedAtDomain(m) == Max({recentDns[n] : n \in {n \in Messages : n[1] = m[1]}})

LoggedAt(m) == recentDns[m]

\* record_dns_event, unless the message was logged less than Gap ago.
LogDns ==
    LET m == Head(messages)
    IN  /\ pc \in {"dns", "log"}
        /\ pc = "dns" => messages # <<>> /\ ~HasAnswer(m)
        /\ IF now - LoggedAt(m) >= Gap
           THEN /\ lastEvent' = [lastEvent EXCEPT ![m] = clock]
                /\ recentDns' = [recentDns EXCEPT ![m] = now]
           ELSE UNCHANGED <<lastEvent, recentDns>>
        /\ messages' = Tail(messages)
        /\ pc' = "dns"
        /\ UNCHANGED <<clock, lan, flows, traffic, records, packet, row, now, cached,
                       refreshed, captured, running, stopEvent, history, failures>>

\* What the handler leaves when it returns or is left.
Done == packet' = NoPacket /\ row' = NoRow /\ now' = Never /\ messages' = <<>>

\* increment_capture, and back to Scapy.
Count ==
    /\ pc = "dns"
    /\ messages = <<>>
    /\ captured' = captured + 1
    /\ lastSeen' = [m \in Messages |->
                      IF \E i \in DOMAIN packet.dns : packet.dns[i] = m THEN now
                      ELSE lastSeen[m]]
    /\ Done
    /\ pc' = "sniff"
    /\ UNCHANGED <<clock, lan, tables, memory, running, stopEvent, missed, pruned,
                   failures>>

\* Where the handler may be writing.
AtDatabase == pc \in Handling \ {"look"} /\ (pc = "dns" => messages # <<>>)

\* Mutant: the packet is counted in a finally clause.
FailCounts ==
    /\ AtDatabase
    /\ failures < MaxFailures
    /\ failures' = failures + 1
    /\ captured' = captured + 1
    /\ Done
    /\ pc' = "sniff"
    /\ UNCHANGED <<clock, lan, tables, memory, running, stopEvent, history>>

\* An error of the database ends the handling of the packet.  It stays within
\* Scapy, and the loop of run calls sniff again.
Fail ==
    /\ AtDatabase
    /\ failures < MaxFailures
    /\ failures' = failures + 1
    /\ Done
    /\ pc' = "sniff"
    /\ UNCHANGED <<clock, lan, tables, memory, captured, running, stopEvent, history>>

Sensor ==
    \/ SniffEnds \/ SniffFails
    \/ RecordFlow \/ Look \/ Refresh \/ RecordDns \/ LogDns \/ Count \/ Fail
    \/ \E usable \in BOOLEAN : Start(usable)
    \/ \E p \in Packets : Take(p)
    \/ \E side \in Sides : RecordDevice(side)

-----------------------------------------------------------------------------
(* The rest of the program. *)

Tick ==
    /\ clock < Epoch + MaxTime
    /\ clock' = clock + 1
    /\ UNCHANGED <<lan, tables, pc, handler, memory, captured, running,
                   stopEvent, history, failures>>

\* Discovery stores a device.
AddDevice(a) ==
    /\ since[a] = Never
    /\ since' = [since EXCEPT ![a] = clock]
    /\ UNCHANGED <<clock, discovered, tables, pc, handler, memory, captured,
                   running, stopEvent, history, failures>>

\* A discovery cycle shows its network, or that it found none.
ShowNetwork(there) ==
    /\ discovered # there
    /\ discovered' = there
    /\ UNCHANGED <<clock, since, tables, pc, handler, memory, captured,
                   running, stopEvent, history, failures>>

\* prune_history deletes an old flow.
PruneFlow(k) ==
    /\ flows[k] > 0
    /\ flows' = [flows EXCEPT ![k] = 0]
    /\ pruned' = pruned + flows[k]
    /\ UNCHANGED <<clock, lan, traffic, records, lastEvent, pc, handler,
                   memory, captured, running, stopEvent, lastSeen, missed, failures>>

\* prune_history deletes an old DNS record.
PruneRecord(m) ==
    /\ m \in records
    /\ records' = records \ {m}
    /\ UNCHANGED <<clock, lan, flows, traffic, lastEvent, pc, handler,
                   memory, captured, running, stopEvent, history, failures>>

Stop ==
    /\ ~stopEvent
    /\ stopEvent' = TRUE
    /\ UNCHANGED <<clock, lan, tables, pc, handler, memory, captured,
                   running, history, failures>>

Next ==
    \/ Sensor
    \/ Tick \/ Stop
    \/ \E a \in Neighbours : AddDevice(a)
    \/ \E there \in BOOLEAN : ShowNetwork(there)
    \/ \E k \in FlowKeys : PruneFlow(k)
    \/ \E m \in Answered : PruneRecord(m)

Spec == Init /\ [][Next]_vars

-----------------------------------------------------------------------------
(* Properties. *)

\* One element for each packet the flow table counts.
StoredPackets == UNION {{k} \X (1..flows[k]) : k \in FlowKeys}

\* The flow table never counts fewer packets than the dashboard, and at most one
\* more for each database error, the packet in hand apart.
PacketsAreCounted ==
    LET stored == Cardinality(StoredPackets) + pruned
    IN  /\ stored - captured \in 0..(failures + 1)
        /\ pc \notin Handling => stored - captured \in 0..failures

\* A packet from or to a device is counted for it, unless the device was stored
\* less than Lag seconds before.
KnownDevicesAreCounted == \A age \in missed : age < Lag

\* A DNS message on the wire is in the timeline with an event that is not older
\* than Gap: the rate limit drops repetitions, never another answer.
DnsIsLogged ==
    \A m \in Messages :
        lastSeen[m] # Never =>
            lastEvent[m] # Never /\ lastSeen[m] - lastEvent[m] < Gap
=============================================================================
