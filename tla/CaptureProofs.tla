----------------------------- MODULE CaptureProofs -----------------------------
(***************************************************************************)
(* Proofs about the packet sensor, for any packets, addresses, intervals   *)
(* and number of failures: the thread (Capture) and the attribution of a   *)
(* packet to a process (SocketMatch).                                      *)
(***************************************************************************)
EXTENDS Capture, SocketMatch, FiniteSetTheorems, TLAPS

-----------------------------------------------------------------------------
(* The process of a packet. *)

Reversed(flow) == [flow EXCEPT !.src = flow.dst, !.dst = flow.src]

\* A packet and its answer are attributed to the same process, also where several
\* sockets share their ends.
THEOREM DirectionDoesNotMatter ==
  ASSUME NEW flow \in Flows, NEW sockets \in Seq(Sockets)
  PROVE  MatchProcess(Reversed(flow), sockets) = MatchProcess(flow, sockets)
<1>1. /\ Reversed(flow).proto = flow.proto
      /\ Reversed(flow).src = flow.dst /\ Reversed(flow).dst = flow.src
  BY DEF Reversed, Flows
<1>2. ASSUME NEW i \in 1..Len(sockets)
      PROVE  Matches(Reversed(flow), sockets[i]) <=> Matches(flow, sockets[i])
  BY <1>1 DEF Matches
<1>3. Hits(Reversed(flow), sockets) = Hits(flow, sockets)
  BY <1>2 DEF Hits
<1> QED BY <1>3 DEF MatchProcess

\* No packet is attributed by way of a listener: traffic of a UDP server, which
\* has one socket without a peer, stays without a process.
THEOREM ListenersNeverMatch ==
  ASSUME None \notin Ips, NEW flow \in Flows, NEW sockets \in Seq(Sockets),
         NEW i \in Hits(flow, sockets)
  PROVE  ~Listening(sockets[i])
<1>1. /\ sockets[i] \in Sockets /\ Matches(flow, sockets[i])
  BY DEF Hits
<1>2. sockets[i].remote.ip \in Ips
  BY <1>1 DEF Matches, Flows
<1>3. sockets[i].remote.ip # None
  BY <1>2
<1> QED BY <1>1, <1>3 DEF Listening, Sockets

\* A packet that is neither TCP nor UDP has no process, whatever sockets there are.
THEOREM OtherProtocolsHaveNoProcess ==
  ASSUME NEW flow \in Flows, flow.proto = "ip", NEW sockets \in Seq(Sockets)
  PROVE  MatchProcess(flow, sockets) = NoOwner
<1>1. ASSUME NEW i \in 1..Len(sockets)
      PROVE  ~Matches(flow, sockets[i])
  <2>1. sockets[i] \in Sockets
    OBVIOUS
  <2>2. sockets[i].proto \in {"tcp", "udp"}
    BY <2>1 DEF Sockets
  <2> QED BY <2>2 DEF Matches
<1>2. Hits(flow, sockets) = {}
  BY <1>1 DEF Hits
<1> QED BY <1>2 DEF MatchProcess

-----------------------------------------------------------------------------
(* The inductive invariant of the thread. *)

\* The handler's locals are set where they are used.
LocalsSet ==
    /\ pc \in Handling => packet \in Packets /\ Taken < MaxPackets
    /\ pc = "flow" => row \in FlowKeys
    /\ pc \in {"refresh", "from", "to", "dns", "log"} => now \in Times
    /\ pc = "log" => messages # <<>>

\* No row counts more packets than were taken, the one in hand included.
CountsBounded ==
    /\ \A k \in FlowKeys : flows[k] <= Taken + 1
    /\ pc \in {"start", "sniff", "flow"} => \A k \in FlowKeys : flows[k] <= Taken
    /\ \A x \in Sides \X Addresses : traffic[x] <= Taken + 1
    /\ pc \in {"start", "sniff", "flow", "look", "refresh", "from"} =>
          \A a \in Addresses : traffic[<<"from", a>>] <= Taken
    /\ pc \in {"start", "sniff", "flow", "look", "refresh", "from", "to"} =>
          \A a \in Addresses : traffic[<<"to", a>>] <= Taken

\* What a clock reading is compared with is not ahead of the clock.
ClocksOrdered ==
    /\ now <= clock /\ refreshed <= clock
    /\ \A m \in Messages : /\ lastEvent[m] <= clock
                           /\ recentDns[m] # 0 => /\ lastEvent[m] # Never
                                                  /\ recentDns[m] <= lastEvent[m]

\* A device that is not in the cached set was stored after it was read, which the
\* handler did less than Lag before it looks an address up.
CacheFresh ==
    /\ \A a \in Addresses \ cached : since[a] # Never => since[a] >= refreshed
    /\ pc \in {"from", "to"} => now - refreshed < Lag

Logged(m, t) == lastEvent[m] # Never /\ t - lastEvent[m] < Gap

\* A message of the packet in hand is in the timeline or still to be logged.
MessagesPending ==
    pc \in Handling =>
        \A i \in 1..Len(packet.dns) :
            \/ pc \in {"dns", "log"} /\ Logged(packet.dns[i], now)
            \/ \E j \in 1..Len(messages) : messages[j] = packet.dns[i]

IInv ==
    /\ TypeOK /\ LocalsSet /\ CountsBounded /\ ClocksOrdered /\ CacheFresh
    /\ MessagesPending /\ KnownDevicesAreCounted /\ DnsIsLogged

\* All times are numbers, and a time that is not the clock's is smaller.
LEMMA TimeFacts ==
  /\ Lag \in Nat /\ Lag > 0 /\ Gap \in Nat /\ Gap > 0 /\ MaxTime \in Nat
  /\ Epoch \in Nat /\ Epoch >= Gap /\ Epoch > 0
  /\ \A t \in Times : t \in Nat /\ t >= Epoch /\ t # Never /\ t # 0
  /\ Never \in Int /\ Never < 0
BY TimeAssumption DEF Epoch, Times, Never

LEMMA CaptureInit == Init => IInv
<1> SUFFICES ASSUME Init PROVE IInv
  OBVIOUS
<1> USE TimeFacts
<1>1. TypeOK
  <2>1. 0 \in 0..MaxPackets /\ 0 \in 0..MaxFailures /\ Epoch \in Times
    BY BoundAssumption DEF Times
  <2>2. /\ flows \in [FlowKeys -> 0..MaxPackets]
        /\ traffic \in [Sides \X Addresses -> 0..MaxPackets]
    BY <2>1 DEF Init
  <2>3. /\ since \in [Addresses -> Times \cup {Never}]
        /\ lastEvent \in [Messages -> Times \cup {Never}]
        /\ recentDns \in [Messages -> Times \cup {0}]
        /\ lastSeen \in [Messages -> Times \cup {Never}]
    BY DEF Init
  <2>4. /\ clock \in Times /\ refreshed \in Times \cup {0} /\ messages \in Seq(Messages)
        /\ captured \in 0..MaxPackets /\ failures \in 0..MaxFailures
        /\ records \subseteq Answered /\ cached \subseteq Addresses
        /\ missed \subseteq Nat /\ pruned \in Nat
    BY <2>1 DEF Init
  <2>5. /\ discovered \in BOOLEAN /\ running \in BOOLEAN /\ stopEvent \in BOOLEAN
        /\ pc \in {"start", "sniff", "ended"} \cup Handling
        /\ packet \in Packets \cup {NoPacket}
        /\ row \in FlowKeys \cup {NoRow}
        /\ now \in Times \cup {Never}
    BY DEF Init
  <2> QED BY <2>2, <2>3, <2>4, <2>5 DEF TypeOK
<1>2. LocalsSet /\ MessagesPending
  BY DEF Init, LocalsSet, MessagesPending, Handling
<1>3. CountsBounded
  BY DEF Init, CountsBounded, Sides, Taken
<1>4. ClocksOrdered /\ CacheFresh
  BY DEF Init, ClocksOrdered, CacheFresh
<1>5. KnownDevicesAreCounted /\ DnsIsLogged
  BY DEF Init, KnownDevicesAreCounted, DnsIsLogged
<1> QED BY <1>1, <1>2, <1>3, <1>4, <1>5 DEF IInv

LEMMA StartStep ==
  ASSUME IInv, NEW usable \in BOOLEAN, Start(usable) \/ SniffEnds \/ SniffFails
  PROVE  IInv'
<1> USE DEF lan, tables, memory, handler, history, Taken
<1>1. TypeOK' /\ LocalsSet'
  BY DEF IInv, TypeOK, LocalsSet, Handling, Start, SniffEnds, SniffFails
<1>2. CountsBounded'
  <2>1. captured \in Nat /\ failures \in Nat /\ flows \in [FlowKeys -> Nat] /\ traffic \in [Sides \X Addresses -> Nat]
    BY BoundAssumption DEF IInv, TypeOK
  <2> QED BY <2>1 DEF IInv, CountsBounded, Sides, Start, SniffEnds, SniffFails
<1>3. ClocksOrdered' /\ CacheFresh'
  BY DEF IInv, ClocksOrdered, CacheFresh, Start, SniffEnds, SniffFails
<1>4. MessagesPending' /\ KnownDevicesAreCounted' /\ DnsIsLogged'
  BY DEF IInv, MessagesPending, KnownDevicesAreCounted, DnsIsLogged, Handling, Start, SniffEnds, SniffFails
<1> QED BY <1>1, <1>2, <1>3, <1>4 DEF IInv

LEMMA TakeStep ==
  ASSUME IInv, NEW p \in Packets, Take(p)
  PROVE  IInv'
<1> USE DEF lan, tables, memory, handler, history, Taken
<1>1. p.src \in Addresses /\ p.dst \in Addresses /\ p.dns \in Seq(Messages)
  BY PacketAssumption
<1>2. FlowKey(p) \in FlowKeys
  BY <1>1 DEF FlowKey, FlowKeys, Direction, Directions
<1>3. TypeOK'
  BY <1>1, <1>2 DEF IInv, TypeOK, Handling, Take
<1>4. LocalsSet'
  BY <1>2 DEF IInv, LocalsSet, Handling, Take
<1>5. CountsBounded' /\ ClocksOrdered' /\ CacheFresh'
  BY DEF IInv, CountsBounded, ClocksOrdered, CacheFresh, Take
<1>6. MessagesPending'
  BY DEF MessagesPending, Take
<1>7. KnownDevicesAreCounted' /\ DnsIsLogged'
  BY DEF IInv, KnownDevicesAreCounted, DnsIsLogged, Take
<1> QED BY <1>3, <1>4, <1>5, <1>6, <1>7 DEF IInv

LEMMA RecordFlowStep ==
  ASSUME IInv, RecordFlow
  PROVE  IInv'
<1> USE DEF lan, tables, memory, handler, history, Taken
<1>1. /\ TypeOK /\ row \in FlowKeys /\ captured \in Nat /\ failures \in Nat
      /\ Taken < MaxPackets /\ MaxPackets \in Nat /\ flows \in [FlowKeys -> 0..MaxPackets]
      /\ \A k \in FlowKeys : flows[k] \in Nat /\ flows[k] <= Taken
  BY BoundAssumption DEF IInv, TypeOK, LocalsSet, CountsBounded, Handling, RecordFlow
<1>2. /\ flows' \in [FlowKeys -> 0..MaxPackets]
      /\ \A k \in FlowKeys : flows'[k] <= Taken + 1
  BY <1>1 DEF RecordFlow
<1>3. TypeOK'
  BY <1>1, <1>2 DEF TypeOK, Handling, RecordFlow
<1>4. LocalsSet'
  BY DEF IInv, LocalsSet, Handling, RecordFlow
<1>5. CountsBounded'
  BY <1>2 DEF IInv, CountsBounded, RecordFlow
<1>6. ClocksOrdered' /\ CacheFresh' /\ MessagesPending'
  BY DEF IInv, ClocksOrdered, CacheFresh, MessagesPending, Handling, RecordFlow
<1>7. KnownDevicesAreCounted' /\ DnsIsLogged'
  BY DEF IInv, KnownDevicesAreCounted, DnsIsLogged, RecordFlow
<1> QED BY <1>3, <1>4, <1>5, <1>6, <1>7 DEF IInv

LEMMA LookStep ==
  ASSUME IInv, Look
  PROVE  IInv'
<1> USE DEF lan, tables, memory, handler, history, Taken
<1>1. TypeOK' /\ LocalsSet'
  BY DEF IInv, TypeOK, LocalsSet, Handling, Look
<1>2. CountsBounded'
  BY DEF IInv, CountsBounded, Look
<1>3. ClocksOrdered'
  <2>1. clock \in Int
    BY TimeFacts DEF IInv, TypeOK
  <2> QED BY <2>1 DEF IInv, ClocksOrdered, Look
<1>4. CacheFresh'
  <2>1. clock \in Int /\ refreshed \in Int /\ Lag \in Nat
    BY TimeFacts DEF IInv, TypeOK
  <2> QED BY <2>1 DEF IInv, CacheFresh, Look, Stale
<1>5. MessagesPending'
  BY DEF IInv, MessagesPending, Handling, Look
<1>6. KnownDevicesAreCounted' /\ DnsIsLogged'
  BY DEF IInv, KnownDevicesAreCounted, DnsIsLogged, Look
<1> QED BY <1>1, <1>2, <1>3, <1>4, <1>5, <1>6 DEF IInv

LEMMA RefreshStep ==
  ASSUME IInv, Refresh
  PROVE  IInv'
<1> USE DEF lan, tables, memory, handler, history, Taken
<1>1. TypeOK' /\ LocalsSet'
  BY DEF IInv, TypeOK, LocalsSet, Handling, Refresh
<1>2. CountsBounded'
  BY DEF IInv, CountsBounded, Refresh
<1>3. now \in Int /\ clock \in Int /\ now <= clock /\ Lag > 0 /\ Lag \in Nat
  BY TimeFacts DEF IInv, TypeOK, LocalsSet, ClocksOrdered, Refresh
<1>4. ClocksOrdered'
  BY <1>3 DEF IInv, ClocksOrdered, Refresh
<1>5. CacheFresh'
  BY <1>3 DEF IInv, CacheFresh, Refresh
<1>6. MessagesPending'
  BY DEF IInv, MessagesPending, Handling, Refresh
<1>7. KnownDevicesAreCounted' /\ DnsIsLogged'
  BY DEF IInv, KnownDevicesAreCounted, DnsIsLogged, Refresh
<1> QED BY <1>1, <1>2, <1>4, <1>5, <1>6, <1>7 DEF IInv

\* record_device_packet, or a known device whose packet is not counted: its age is
\* less than Lag, because the set of devices was read less than Lag ago.
LEMMA RecordDeviceStep ==
  ASSUME IInv, NEW side \in Sides, RecordDevice(side)
  PROVE  IInv'
<1> USE DEF lan, tables, memory, handler, history, Taken
<1> DEFINE ip == IF side = "from" THEN packet.src ELSE packet.dst
<1>1. /\ TypeOK /\ pc = side /\ side \in {"from", "to"} /\ packet \in Packets
      /\ ip \in Addresses /\ captured \in Nat /\ failures \in Nat
      /\ Taken < MaxPackets /\ MaxPackets \in Nat
  BY PacketAssumption, BoundAssumption
     DEF IInv, TypeOK, LocalsSet, Handling, Sides, RecordDevice
<1>2. pc' = (IF side = "from" THEN "to" ELSE "dns")
      /\ UNCHANGED <<clock, lan, flows, records, lastEvent, handler, memory, captured,
                     running, stopEvent, lastSeen, pruned, failures>>
  BY DEF RecordDevice
<1>3. \/ traffic' = [traffic EXCEPT ![<<side, ip>>] = @ + 1] /\ missed' = missed
      \/ traffic' = traffic /\ missed' = missed
      \/ /\ traffic' = traffic /\ missed' = missed \cup {now - since[ip]}
         /\ ip \notin cached /\ since[ip] # Never /\ since[ip] <= now
  BY DEF RecordDevice
<1>4. now \in Nat /\ refreshed \in Nat /\ now - refreshed < Lag /\ Lag \in Nat
      /\ since[ip] \in Int
  BY <1>1, TimeFacts DEF IInv, TypeOK, LocalsSet, CacheFresh
<1>5. ip \notin cached /\ since[ip] # Never => since[ip] >= refreshed
  BY <1>1 DEF IInv, CacheFresh
<1> HIDE DEF ip
<1>6. missed' \subseteq Nat /\ KnownDevicesAreCounted'
  <2> DEFINE age == now - since[ip]
  <2>1. missed' = missed \/ (missed' = missed \cup {age} /\ age \in Nat /\ age < Lag)
    BY <1>3, <1>4, <1>5
  <2> HIDE DEF age
  <2>2. missed \subseteq Nat /\ \A a \in missed : a < Lag
    BY <1>1 DEF IInv, TypeOK, KnownDevicesAreCounted
  <2>3. \A a \in missed' : a \in Nat /\ a < Lag
    BY <2>1, <2>2
  <2> QED BY <2>3 DEF KnownDevicesAreCounted
<1> DEFINE key == <<side, ip>>
<1>7. key \in Sides \X Addresses /\ \A x \in Sides \X Addresses : traffic[x] \in Nat
  BY <1>1 DEF TypeOK
<1>8. traffic[key] <= Taken
  <2>1. CASE side = "from"
    BY <1>1, <2>1 DEF IInv, CountsBounded
  <2>2. CASE side = "to"
    BY <1>1, <2>2 DEF IInv, CountsBounded
  <2> QED BY <1>1, <2>1, <2>2
<1>9. /\ \A x \in (Sides \X Addresses) \ {key} : traffic'[x] = traffic[x]
      /\ traffic'[key] <= Taken + 1
  <2> HIDE DEF key
  <2>1. traffic' = [traffic EXCEPT ![key] = @ + 1] \/ traffic' = traffic
    BY <1>3 DEF key
  <2> QED BY <1>1, <1>7, <1>8, <2>1 DEF TypeOK
<1>10. traffic' \in [Sides \X Addresses -> 0..MaxPackets]
  <2> HIDE DEF key
  <2>1. traffic' = [traffic EXCEPT ![key] = @ + 1] \/ traffic' = traffic
    BY <1>3 DEF key
  <2>2. traffic[key] + 1 \in 0..MaxPackets
    BY <1>1, <1>7, <1>8
  <2> QED BY <1>1, <1>7, <2>1, <2>2 DEF TypeOK
<1>11. TypeOK'
  BY <1>1, <1>2, <1>6, <1>10 DEF TypeOK, Handling
<1>12. LocalsSet'
  BY <1>1, <1>2 DEF IInv, LocalsSet, Handling
<1>13. CountsBounded'
  <2>1. \A x \in Sides \X Addresses : traffic'[x] <= Taken + 1
    BY <1>9 DEF IInv, CountsBounded
  <2>2. pc' = "to" => \A a \in Addresses : traffic'[<<"to", a>>] <= Taken
    <3> SUFFICES ASSUME pc' = "to", NEW a \in Addresses
                 PROVE  traffic'[<<"to", a>>] <= Taken
      OBVIOUS
    <3>1. side = "from" /\ pc = "from"
      BY <1>1, <1>2
    <3>2. traffic'[<<"to", a>>] = traffic[<<"to", a>>]
      BY <1>9, <3>1 DEF Sides
    <3> QED BY <3>1, <3>2 DEF IInv, CountsBounded
  <2>3. pc' \in {"to", "dns"}
    BY <1>1, <1>2
  <2> QED BY <1>2, <2>1, <2>2, <2>3 DEF IInv, CountsBounded
<1>14. ClocksOrdered' /\ CacheFresh' /\ DnsIsLogged'
  BY <1>1, <1>2 DEF IInv, ClocksOrdered, CacheFresh, DnsIsLogged
<1>15. MessagesPending'
  BY <1>1, <1>2 DEF IInv, MessagesPending, Handling
<1> QED BY <1>6, <1>11, <1>12, <1>13, <1>14, <1>15 DEF IInv

LEMMA RecordDnsStep ==
  ASSUME IInv, RecordDns
  PROVE  IInv'
<1> USE DEF lan, tables, memory, handler, history, Taken
<1>1. Head(messages) \in Answered
  BY DEF IInv, TypeOK, RecordDns, HasAnswer, Answered
<1>2. TypeOK'
  BY <1>1 DEF IInv, TypeOK, Handling, RecordDns
<1>3. LocalsSet'
  BY DEF IInv, LocalsSet, Handling, RecordDns
<1>4. CountsBounded'
  BY DEF IInv, CountsBounded, RecordDns
<1>5. ClocksOrdered' /\ CacheFresh'
  BY DEF IInv, ClocksOrdered, CacheFresh, RecordDns
<1>6. MessagesPending'
  BY DEF IInv, MessagesPending, Logged, Handling, RecordDns
<1>7. KnownDevicesAreCounted' /\ DnsIsLogged'
  BY DEF IInv, KnownDevicesAreCounted, DnsIsLogged, RecordDns
<1> QED BY <1>2, <1>3, <1>4, <1>5, <1>6, <1>7 DEF IInv

\* After the step the message at the head is in the timeline, be it by this event
\* or by one that is recent enough; the others keep theirs.
LEMMA LogDnsStep ==
  ASSUME IInv, LogDns
  PROVE  IInv'
<1> USE DEF lan, tables, memory, handler, history, Taken
<1> DEFINE m == Head(messages)
<1>1. /\ TypeOK /\ pc \in {"dns", "log"} /\ pc' = "dns" /\ messages # <<>>
      /\ m \in Messages /\ messages' = Tail(messages) /\ messages \in Seq(Messages)
      /\ packet \in Packets /\ packet.dns \in Seq(Messages)
  BY PacketAssumption DEF IInv, TypeOK, LocalsSet, Handling, LogDns
<1>2. UNCHANGED <<clock, lan, flows, traffic, records, packet, row, now, cached,
                  refreshed, captured, running, stopEvent, history, failures>>
  BY DEF LogDns
<1>3. /\ clock \in Nat /\ clock \in Times /\ now \in Nat /\ now \in Times /\ now >= Gap
      /\ now <= clock
      /\ \A n \in Messages : lastEvent[n] \in Int /\ recentDns[n] \in Nat /\ lastSeen[n] \in Int
  BY <1>1, TimeFacts DEF IInv, TypeOK, LocalsSet, ClocksOrdered
<1> HIDE DEF m
<1>4. \/ /\ lastEvent' = [lastEvent EXCEPT ![m] = clock]
         /\ recentDns' = [recentDns EXCEPT ![m] = now]
      \/ lastEvent' = lastEvent /\ recentDns' = recentDns /\ now - recentDns[m] < Gap
  BY <1>1, <1>3, TimeFacts DEF LogDns, LoggedAt, m
<1>5. /\ lastEvent' \in [Messages -> Times \cup {Never}]
      /\ recentDns' \in [Messages -> Times \cup {0}]
      /\ \A n \in Messages \ {m} : lastEvent'[n] = lastEvent[n] /\ recentDns'[n] = recentDns[n]
  BY <1>1, <1>3, <1>4 DEF TypeOK
<1>6. /\ lastEvent'[m] # Never /\ now - lastEvent'[m] < Gap
      /\ lastEvent'[m] >= lastEvent[m] /\ lastEvent'[m] <= clock
      /\ recentDns'[m] <= lastEvent'[m]
  <2>1. CASE lastEvent' = [lastEvent EXCEPT ![m] = clock]
             /\ recentDns' = [recentDns EXCEPT ![m] = now]
    <3>1. lastEvent'[m] = clock /\ recentDns'[m] = now
      BY <1>1, <2>1 DEF TypeOK
    <3>2. lastEvent[m] <= clock
      BY <1>1 DEF IInv, ClocksOrdered
    <3> QED BY <1>1, <1>3, <3>1, <3>2, TimeFacts
  <2>2. CASE lastEvent' = lastEvent /\ recentDns' = recentDns /\ now - recentDns[m] < Gap
    <3>1. recentDns[m] # 0
      BY <1>1, <1>3, <2>2, TimeFacts
    <3>2. lastEvent[m] # Never /\ recentDns[m] <= lastEvent[m] /\ lastEvent[m] <= clock
      BY <1>1, <3>1 DEF IInv, ClocksOrdered
    <3> QED BY <1>1, <1>3, <2>2, <3>2, TimeFacts
  <2> QED BY <1>4, <2>1, <2>2
<1>7. ASSUME NEW n \in Messages
      PROVE  /\ lastEvent'[n] \in Int /\ lastEvent'[n] >= lastEvent[n]
             /\ lastEvent[n] # Never => lastEvent'[n] # Never
             /\ lastEvent'[n] <= clock
             /\ recentDns'[n] # 0 => lastEvent'[n] # Never /\ recentDns'[n] <= lastEvent'[n]
  <2>1. lastEvent'[n] \in Int
    BY <1>5, TimeFacts
  <2>2. CASE n = m
    BY <1>6, <2>1, <2>2
  <2>3. CASE n # m
    BY <1>3, <1>5, <2>1, <2>3 DEF IInv, ClocksOrdered
  <2> QED BY <2>2, <2>3
<1>8. TypeOK'
  BY <1>1, <1>2, <1>5 DEF TypeOK, Handling
<1>9. LocalsSet' /\ CountsBounded' /\ CacheFresh' /\ KnownDevicesAreCounted'
  BY <1>1, <1>2, <1>3 DEF IInv, LocalsSet, CountsBounded, CacheFresh, KnownDevicesAreCounted,
                          Handling
<1>10. ClocksOrdered'
  BY <1>2, <1>7 DEF IInv, ClocksOrdered
<1>11. DnsIsLogged'
  <2> SUFFICES ASSUME NEW n \in Messages, lastSeen[n] # Never
               PROVE  lastEvent'[n] # Never /\ lastSeen[n] - lastEvent'[n] < Gap
    BY <1>2 DEF DnsIsLogged
  <2>1. lastEvent[n] # Never /\ lastSeen[n] - lastEvent[n] < Gap
    BY DEF IInv, DnsIsLogged
  <2> QED BY <1>3, <1>7, <2>1, TimeFacts
<1>12. MessagesPending'
  <2> SUFFICES ASSUME NEW i \in 1..Len(packet.dns)
               PROVE  \/ Logged(packet.dns[i], now)'
                      \/ \E j \in 1..Len(messages') : messages'[j] = packet.dns[i]
    BY <1>1, <1>2 DEF MessagesPending
  <2> DEFINE n == packet.dns[i]
  <2>1. n \in Messages
    BY <1>1
  <2>2. CASE Logged(n, now)
    <3>1. lastEvent'[n] # Never /\ now - lastEvent'[n] < Gap
      BY <1>3, <1>7, <2>1, <2>2, TimeFacts DEF Logged
    <3> QED BY <1>2, <3>1 DEF Logged
  <2>3. CASE n = m
    BY <1>2, <1>6, <2>3 DEF Logged
  <2>4. CASE ~Logged(n, now) /\ n # m
    <3>1. PICK j \in 1..Len(messages) : messages[j] = n
      BY <1>1, <2>4 DEF IInv, MessagesPending, Handling
    <3>2. j # 1
      BY <1>1, <2>4, <3>1 DEF m
    <3>3. j - 1 \in 1..Len(messages') /\ messages'[j - 1] = n
      BY <1>1, <3>1, <3>2
    <3> QED BY <3>3
  <2> QED BY <2>2, <2>3, <2>4
<1> QED BY <1>8, <1>9, <1>10, <1>11, <1>12 DEF IInv

LEMMA CountStep ==
  ASSUME IInv, Count
  PROVE  IInv'
<1> USE DEF lan, tables, memory, handler, history, Taken
<1>1. /\ TypeOK /\ pc = "dns" /\ pc' = "sniff" /\ messages = <<>> /\ captured' = captured + 1
      /\ captured \in Nat /\ failures \in Nat /\ Taken < MaxPackets /\ MaxPackets \in Nat
      /\ packet \in Packets /\ packet.dns \in Seq(Messages) /\ now \in Times
      /\ packet' = NoPacket /\ row' = NoRow /\ now' = Never /\ messages' = <<>>
  BY PacketAssumption, BoundAssumption DEF IInv, TypeOK, LocalsSet, Handling, Count, Done
<1>2. UNCHANGED <<clock, lan, tables, memory, running, stopEvent, missed, pruned, failures>>
  BY DEF Count
<1>3. ASSUME NEW m \in Messages
      PROVE  lastSeen'[m] = lastSeen[m] \/ (lastSeen'[m] = now /\ Logged(m, now))
  <2>1. CASE \E i \in DOMAIN packet.dns : packet.dns[i] = m
    <3>1. PICK i \in 1..Len(packet.dns) : packet.dns[i] = m
      BY <1>1, <2>1
    <3>2. Logged(m, now)
      BY <1>1, <3>1 DEF IInv, MessagesPending, Handling
    <3>3. lastSeen'[m] = now
      BY <2>1 DEF Count
    <3> QED BY <3>2, <3>3
  <2>2. CASE ~(\E i \in DOMAIN packet.dns : packet.dns[i] = m)
    BY <2>2 DEF Count
  <2> QED BY <2>1, <2>2
<1>4. lastSeen' \in [Messages -> Times \cup {Never}]
  <2>1. \A m \in Messages : lastSeen'[m] \in Times \cup {Never}
    BY <1>1, <1>3 DEF TypeOK
  <2>2. lastSeen' = [m \in Messages |->
                       IF \E i \in DOMAIN packet.dns : packet.dns[i] = m THEN now
                       ELSE lastSeen[m]]
    BY DEF Count
  <2> QED BY <2>1, <2>2
<1>5. TypeOK'
  BY <1>1, <1>2, <1>4 DEF TypeOK
<1>6. LocalsSet' /\ MessagesPending'
  BY <1>1 DEF LocalsSet, MessagesPending, Handling
<1>7. CountsBounded'
  <2>1. \A x \in Sides \X Addresses : traffic[x] \in Nat /\ traffic[x] <= Taken + 1
    BY <1>1 DEF IInv, TypeOK, CountsBounded
  <2>2. \A k \in FlowKeys : flows[k] \in Nat /\ flows[k] <= Taken + 1
    BY <1>1 DEF IInv, TypeOK, CountsBounded
  <2>3. \A x \in Sides \X Addresses : traffic'[x] <= Taken' /\ traffic'[x] <= Taken' + 1
    BY <1>1, <1>2, <2>1
  <2>4. \A k \in FlowKeys : flows'[k] <= Taken' /\ flows'[k] <= Taken' + 1
    BY <1>1, <1>2, <2>2
  <2> QED BY <2>3, <2>4 DEF CountsBounded, Sides
<1>8. ClocksOrdered' /\ CacheFresh' /\ KnownDevicesAreCounted'
  <2>1. clock \in Nat
    BY <1>1, TimeFacts DEF TypeOK
  <2> QED BY <1>1, <1>2, <2>1, TimeFacts
          DEF IInv, ClocksOrdered, CacheFresh, KnownDevicesAreCounted
<1>9. DnsIsLogged'
  BY <1>2, <1>3 DEF IInv, DnsIsLogged, Logged
<1> QED BY <1>5, <1>6, <1>7, <1>8, <1>9 DEF IInv

LEMMA FailStep ==
  ASSUME IInv, Fail
  PROVE  IInv'
<1> USE DEF lan, tables, memory, handler, history, Taken
<1>1. TypeOK /\ failures' \in 0..MaxFailures
  BY BoundAssumption DEF IInv, TypeOK, Fail
<1>2. TypeOK'
  <2>1. packet' = NoPacket /\ row' = NoRow /\ now' = Never /\ messages' = <<>>
        /\ pc' = "sniff"
    BY DEF Fail, Done
  <2>2. UNCHANGED <<clock, lan, tables, memory, captured, running, stopEvent, history>>
    BY DEF Fail
  <2>3. <<>> \in Seq(Messages)
    OBVIOUS
  <2> QED BY <1>1, <2>1, <2>2, <2>3 DEF TypeOK
<1>3. LocalsSet' /\ MessagesPending'
  BY DEF LocalsSet, MessagesPending, Handling, Fail
<1>4. CountsBounded'
  <2>1. /\ captured \in Nat /\ failures \in Nat /\ failures' = failures + 1
        /\ captured' = captured /\ flows' = flows /\ traffic' = traffic
    BY BoundAssumption DEF IInv, TypeOK, Fail
  <2>2. \A k \in FlowKeys : flows[k] \in Nat /\ flows[k] <= Taken + 1
    BY DEF IInv, TypeOK, CountsBounded
  <2>3. \A x \in Sides \X Addresses : traffic[x] \in Nat /\ traffic[x] <= Taken + 1
    BY DEF IInv, TypeOK, CountsBounded
  <2>4. \A k \in FlowKeys : flows'[k] <= Taken' /\ flows'[k] <= Taken' + 1
    BY <2>1, <2>2
  <2>5. \A x \in Sides \X Addresses : traffic'[x] <= Taken' /\ traffic'[x] <= Taken' + 1
    BY <2>1, <2>3
  <2> QED BY <2>4, <2>5 DEF CountsBounded, Sides
<1>5. ClocksOrdered' /\ CacheFresh'
  <2>1. clock \in Nat
    BY <1>1, TimeFacts DEF TypeOK
  <2> QED BY <2>1, TimeFacts DEF IInv, ClocksOrdered, CacheFresh, Fail, Done
<1>6. KnownDevicesAreCounted' /\ DnsIsLogged'
  BY DEF IInv, KnownDevicesAreCounted, DnsIsLogged, Fail
<1> QED BY <1>2, <1>3, <1>4, <1>5, <1>6 DEF IInv

\* What the rest of the program does to the sensor's state.
LEMMA OthersStep ==
  ASSUME IInv,
         \/ Tick \/ Stop \/ \E a \in Neighbours : AddDevice(a)
         \/ \E there \in BOOLEAN : ShowNetwork(there)
         \/ \E m \in Answered : PruneRecord(m)
         \/ UNCHANGED vars
  PROVE  IInv'
<1> USE DEF lan, tables, memory, handler, history, vars, Taken
<1>1. /\ UNCHANGED <<flows, traffic, lastEvent, pc, handler, memory, captured, running,
                     history, failures>>
      /\ clock' = clock \/ (clock' = clock + 1 /\ clock < Epoch + MaxTime)
      /\ records' \subseteq records
      /\ \/ since' = since
         \/ \E a \in Neighbours : since[a] = Never /\ since' = [since EXCEPT ![a] = clock]
      /\ discovered' \in BOOLEAN /\ stopEvent' \in BOOLEAN
  <2>1. discovered \in BOOLEAN /\ stopEvent \in BOOLEAN
    BY DEF IInv, TypeOK
  <2>2. CASE Tick
    BY <2>1, <2>2 DEF Tick
  <2>3. CASE Stop
    BY <2>1, <2>3 DEF Stop
  <2>4. CASE \E a \in Neighbours : AddDevice(a)
    BY <2>1, <2>4 DEF AddDevice
  <2>5. CASE \E there \in BOOLEAN : ShowNetwork(there)
    BY <2>1, <2>5 DEF ShowNetwork
  <2>6. CASE \E m \in Answered : PruneRecord(m)
    BY <2>1, <2>6 DEF PruneRecord
  <2>7. CASE UNCHANGED vars
    BY <2>1, <2>7
  <2> QED BY <2>2, <2>3, <2>4, <2>5, <2>6, <2>7
<1>2. TypeOK /\ clock \in Times /\ clock \in Int
  BY TimeFacts DEF IInv, TypeOK
<1>3. clock' \in Times /\ clock' >= clock
  BY <1>1, <1>2, TimeFacts DEF Times
<1>4. since' \in [Addresses -> Times \cup {Never}]
  BY <1>1, <1>2, NeighbourAssumption DEF TypeOK
<1>5. TypeOK'
  BY <1>1, <1>2, <1>3, <1>4 DEF TypeOK
<1>6. LocalsSet' /\ CountsBounded' /\ MessagesPending'
  BY <1>1 DEF IInv, LocalsSet, CountsBounded, MessagesPending, Logged
<1>7. ClocksOrdered'
  <2>1. now \in Int /\ refreshed \in Int /\ \A m \in Messages : lastEvent[m] \in Int
    <3>1. now \in Times \cup {Never} /\ refreshed \in Times \cup {0}
          /\ \A m \in Messages : lastEvent[m] \in Times \cup {Never}
      BY <1>2 DEF TypeOK
    <3> QED BY <3>1, TimeFacts
  <2>2. clock' \in Int
    BY <1>3, TimeFacts
  <2> QED BY <1>1, <1>2, <1>3, <2>1, <2>2 DEF IInv, ClocksOrdered
<1>8. CacheFresh'
  <2>1. ASSUME NEW a \in Addresses \ cached, since'[a] # Never
        PROVE  since'[a] >= refreshed
    <3>1. CASE since'[a] = since[a]
      BY <2>1, <3>1 DEF IInv, CacheFresh
    <3>2. CASE since'[a] # since[a]
      <4>1. since'[a] = clock
        BY <1>1, <1>2, <3>2, NeighbourAssumption DEF TypeOK
      <4> QED BY <4>1 DEF IInv, ClocksOrdered
    <3> QED BY <3>1, <3>2
  <2> QED BY <1>1, <2>1 DEF IInv, CacheFresh
<1>9. KnownDevicesAreCounted' /\ DnsIsLogged'
  BY <1>1 DEF IInv, KnownDevicesAreCounted, DnsIsLogged
<1> QED BY <1>5, <1>6, <1>7, <1>8, <1>9 DEF IInv

LEMMA PruneFlowStep ==
  ASSUME IInv, NEW k \in FlowKeys, PruneFlow(k)
  PROVE  IInv'
<1> USE DEF lan, tables, memory, handler, history, Taken
<1>1. /\ TypeOK /\ flows \in [FlowKeys -> 0..MaxPackets] /\ captured \in Nat /\ failures \in Nat
      /\ MaxPackets \in Nat /\ flows' = [flows EXCEPT ![k] = 0] /\ flows[k] \in Nat
  BY BoundAssumption DEF IInv, TypeOK, PruneFlow
<1>2. /\ flows' \in [FlowKeys -> 0..MaxPackets]
      /\ \A j \in FlowKeys : flows'[j] = flows[j] \/ flows'[j] = 0
  BY <1>1
<1>3. TypeOK'
  BY <1>1, <1>2 DEF TypeOK, PruneFlow
<1>4. CountsBounded'
  <2>1. \A j \in FlowKeys : flows'[j] <= flows[j] /\ flows[j] \in Nat /\ flows'[j] \in Nat
    BY <1>1, <1>2
  <2>2. UNCHANGED <<captured, failures, traffic, pc>>
    BY DEF PruneFlow
  <2> QED BY <1>1, <2>1, <2>2 DEF IInv, CountsBounded
<1>5. LocalsSet' /\ ClocksOrdered' /\ CacheFresh' /\ MessagesPending'
  BY DEF IInv, LocalsSet, ClocksOrdered, CacheFresh, MessagesPending, Logged, PruneFlow
<1>6. KnownDevicesAreCounted' /\ DnsIsLogged'
  BY DEF IInv, KnownDevicesAreCounted, DnsIsLogged, PruneFlow
<1> QED BY <1>3, <1>4, <1>5, <1>6 DEF IInv

LEMMA CaptureInductive == IInv /\ [Next]_vars => IInv'
<1> SUFFICES ASSUME IInv, [Next]_vars PROVE IInv'
  OBVIOUS
<1>1. CASE RecordFlow \/ Look \/ Refresh \/ RecordDns \/ LogDns \/ Count \/ Fail
  BY <1>1, RecordFlowStep, LookStep, RefreshStep, RecordDnsStep, LogDnsStep, CountStep, FailStep
<1>2. CASE SniffEnds \/ SniffFails \/ \E usable \in BOOLEAN : Start(usable)
  BY <1>2, StartStep
<1>3. CASE \E p \in Packets : Take(p)
  BY <1>3, TakeStep
<1>4. CASE \E side \in Sides : RecordDevice(side)
  BY <1>4, RecordDeviceStep
<1>5. CASE \E k \in FlowKeys : PruneFlow(k)
  BY <1>5, PruneFlowStep
<1>6. CASE \/ Tick \/ Stop \/ \E a \in Neighbours : AddDevice(a)
           \/ \E there \in BOOLEAN : ShowNetwork(there)
           \/ \E m \in Answered : PruneRecord(m)
           \/ UNCHANGED vars
  BY <1>6, OthersStep
<1> QED BY <1>1, <1>2, <1>3, <1>4, <1>5, <1>6 DEF Next, Sensor

-----------------------------------------------------------------------------
(* Theorems about the thread. *)

LEMMA Invariance == Spec => []IInv
  BY CaptureInit, CaptureInductive, PTL DEF Spec

\* The thread, its memory and the rows it writes have the types the code gives
\* them; no row counts more packets than were taken.
THEOREM Typing == Spec => []TypeOK
<1>1. IInv => TypeOK
  BY DEF IInv
<1> QED BY <1>1, Invariance, PTL

\* A packet from or to a known device is counted for it, unless the device was
\* stored less than the age of the cached set before.
THEOREM KnownDevicesAlwaysCounted == Spec => []KnownDevicesAreCounted
<1>1. IInv => KnownDevicesAreCounted
  BY DEF IInv
<1> QED BY <1>1, Invariance, PTL

\* The rate limit drops repetitions only: a DNS message on the wire has an event
\* in the timeline that is not older than the gap.
THEOREM DnsAlwaysLogged == Spec => []DnsIsLogged
<1>1. IInv => DnsIsLogged
  BY DEF IInv
<1> QED BY <1>1, Invariance, PTL

-----------------------------------------------------------------------------
(* The counters. *)

\* The flow table is one ahead of the counter of the dashboard while a packet is
\* between the two, and for every packet an error took in there.
CountsAgree ==
    LET stored == Cardinality(StoredPackets) + pruned
    IN  /\ IsFiniteSet(StoredPackets)
        /\ pc \notin Handling \ {"flow"} => stored - captured \in 0..failures
        /\ pc \in Handling \ {"flow"} => stored - captured \in 1..(failures + 1)

\* The packets of one row.
LEMMA RowCount ==
  ASSUME NEW k, NEW n \in Nat
  PROVE  IsFiniteSet({k} \X (1..n)) /\ Cardinality({k} \X (1..n)) = n
<1> DEFINE f == [i \in 1..n |-> <<k, i>>]
<1>1. IsFiniteSet(1..n) /\ Cardinality(1..n) = n
  BY FS_Interval
<1>2. f \in Bijection(1..n, {k} \X (1..n))
  <2>1. f \in [1..n -> {k} \X (1..n)]
    OBVIOUS
  <2>2. \A i, j \in 1..n : f[i] = f[j] => i = j
    OBVIOUS
  <2>3. \A x \in {k} \X (1..n) : \E i \in 1..n : f[i] = x
    <3> TAKE x \in {k} \X (1..n)
    <3>1. x = <<k, x[2]>> /\ x[2] \in 1..n
      OBVIOUS
    <3> WITNESS x[2] \in 1..n
    <3> QED BY <3>1
  <2> HIDE DEF f
  <2> QED BY <2>1, <2>2, <2>3, Zenon DEF Bijection, Injection, Surjection, IsInjective
<1>3. ExistsBijection(1..n, {k} \X (1..n))
  BY <1>2 DEF ExistsBijection
<1> QED BY <1>1, <1>3, FS_Bijection

\* A packet belongs to the row it is counted in.
LEMMA StoredPacket ==
  ASSUME NEW x
  PROVE  x \in StoredPackets <=>
             \E k \in FlowKeys : \E i \in 1..flows[k] : x = <<k, i>>
BY DEF StoredPackets

LEMMA AgreeInit == Init => CountsAgree
<1> SUFFICES ASSUME Init PROVE CountsAgree
  OBVIOUS
<1>1. StoredPackets = {}
  BY DEF Init, StoredPackets
<1> QED BY <1>1, FS_EmptySet DEF Init, CountsAgree, Handling

\* A packet more in the row of the packet in hand.
LEMMA AgreeRecordFlow ==
  ASSUME IInv, CountsAgree, RecordFlow
  PROVE  CountsAgree'
<1> DEFINE x == <<row, flows[row] + 1>>
<1>1. /\ row \in FlowKeys /\ flows \in [FlowKeys -> 0..MaxPackets] /\ MaxPackets \in Nat
      /\ flows[row] \in Nat /\ captured \in Nat /\ pruned \in Nat
  BY BoundAssumption DEF IInv, TypeOK, LocalsSet, RecordFlow
<1>2. /\ flows'[row] = flows[row] + 1
      /\ \A k \in FlowKeys : k # row => flows'[k] = flows[k]
  BY <1>1 DEF RecordFlow
<1>3. x \notin StoredPackets
  BY <1>1 DEF StoredPackets
<1>4. StoredPackets' = StoredPackets \cup {x}
  <2>1. {row} \X (1..flows'[row]) = ({row} \X (1..flows[row])) \cup {x}
    BY <1>1, <1>2
  <2> QED BY <1>1, <1>2, <2>1 DEF StoredPackets
<1>5. IsFiniteSet(StoredPackets') /\ Cardinality(StoredPackets') = Cardinality(StoredPackets) + 1
  BY <1>3, <1>4, FS_AddElement DEF CountsAgree
<1>6. /\ pruned' = pruned /\ captured' = captured /\ failures' = failures
      /\ pc = "flow" /\ pc' = "look" /\ failures \in Nat
  BY BoundAssumption DEF IInv, TypeOK, RecordFlow, history
<1>7. Cardinality(StoredPackets) \in Nat
  BY FS_CardinalityType DEF CountsAgree
<1> HIDE DEF x
<1> QED BY <1>1, <1>5, <1>6, <1>7 DEF CountsAgree, Handling

\* What leaves the table is added to the packets that were pruned.
LEMMA AgreePruneFlow ==
  ASSUME IInv, CountsAgree, NEW k \in FlowKeys, PruneFlow(k)
  PROVE  CountsAgree'
<1> DEFINE Gone == {k} \X (1..flows[k])
           Kept == StoredPackets'
<1>1. /\ flows \in [FlowKeys -> 0..MaxPackets] /\ MaxPackets \in Nat
      /\ flows[k] \in Nat /\ captured \in Nat /\ pruned \in Nat
  BY BoundAssumption DEF IInv, TypeOK
<1>2. flows'[k] = 0 /\ \A j \in FlowKeys : j # k => flows'[j] = flows[j]
  BY <1>1 DEF PruneFlow
<1>3. StoredPackets = Kept \cup Gone
  BY <1>1, <1>2 DEF StoredPackets
<1>4. Kept \cap Gone = {}
  BY <1>1, <1>2 DEF StoredPackets
<1>5. IsFiniteSet(Gone) /\ Cardinality(Gone) = flows[k]
  BY <1>1, RowCount
<1>6. IsFiniteSet(Kept) /\ Cardinality(Kept) \in Nat
  BY <1>3, FS_Subset, FS_CardinalityType DEF CountsAgree
<1>7. Cardinality(StoredPackets) = Cardinality(Kept) + flows[k]
  <2> HIDE DEF Kept, Gone
  <2>1. Cardinality(Kept \cup Gone) = Cardinality(Kept) + Cardinality(Gone) - Cardinality({})
    BY <1>4, <1>5, <1>6, FS_Union
  <2> QED BY <1>1, <1>3, <1>5, <1>6, <2>1, FS_EmptySet
<1>8. /\ pruned' = pruned + flows[k] /\ captured' = captured /\ failures' = failures /\ pc' = pc
      /\ Cardinality(StoredPackets) + pruned = Cardinality(StoredPackets)' + pruned'
  BY <1>1, <1>6, <1>7 DEF PruneFlow
<1> QED BY <1>6, <1>8 DEF CountsAgree

\* The packet is counted at the end of its handling; an error before it leaves one
\* packet more that is stored and not counted, if it was stored.
LEMMA AgreeStep ==
  ASSUME IInv, CountsAgree, [Next]_vars
  PROVE  CountsAgree'
<1>1. CASE RecordFlow
  BY <1>1, AgreeRecordFlow
<1>2. CASE \E k \in FlowKeys : PruneFlow(k)
  BY <1>2, AgreePruneFlow
<1> DEFINE Other ==
      \/ SniffEnds \/ SniffFails \/ Look \/ Refresh \/ RecordDns \/ LogDns \/ Count \/ Fail
      \/ \E usable \in BOOLEAN : Start(usable)
      \/ \E p \in Packets : Take(p)
      \/ \E side \in Sides : RecordDevice(side)
      \/ Tick \/ Stop
      \/ \E a \in Neighbours : AddDevice(a)
      \/ \E there \in BOOLEAN : ShowNetwork(there)
      \/ \E m \in Answered : PruneRecord(m)
      \/ UNCHANGED vars
<1>3. CASE Other
  <2>1. flows' = flows /\ pruned' = pruned
    BY <1>3
    DEF SniffEnds, SniffFails, Look, Refresh, RecordDns, LogDns, Count, Fail, Start, Take, RecordDevice,
        Tick, Stop, AddDevice, ShowNetwork, PruneRecord, vars, tables, history
  <2>2. StoredPackets' = StoredPackets
    BY <2>1 DEF StoredPackets
  <2>3. captured \in Nat /\ failures \in Nat /\ pruned \in Nat /\ Cardinality(StoredPackets) \in Nat
    BY BoundAssumption, FS_CardinalityType DEF IInv, TypeOK, CountsAgree
  <2>4. \/ captured' = captured /\ failures' = failures /\ pc' = pc
        \/ /\ captured' = captured /\ failures' = failures
           /\ pc \in {"start", "sniff"} /\ pc' \in {"sniff", "flow", "ended"}
        \/ captured' = captured /\ failures' = failures + 1 /\ pc \in Handling /\ pc' = "sniff"
        \/ /\ captured' = captured /\ failures' = failures
           /\ pc \in Handling \ {"flow"} /\ pc' \in Handling \ {"flow"}
        \/ captured' = captured + 1 /\ failures' = failures /\ pc = "dns" /\ pc' = "sniff"
    BY <1>3
    DEF SniffEnds, SniffFails, Look, Refresh, RecordDns, LogDns, Count, Fail, Start, Take,
        RecordDevice, Tick, Stop, AddDevice, ShowNetwork, PruneRecord, vars, AtDatabase,
        Handling, Sides
  <2> QED BY <2>1, <2>2, <2>3, <2>4 DEF CountsAgree, Handling
<1> QED BY <1>1, <1>2, <1>3 DEF Next, Sensor

\* The rows of the flow table, with what prune_history took out of it, count every
\* packet the dashboard counts, and besides the packet in hand at most one for each
\* database error, wherever in the handling it strikes.
THEOREM PacketsAlwaysCounted == Spec => []PacketsAreCounted
<1>1. CountsAgree /\ IInv => PacketsAreCounted
  <2> SUFFICES ASSUME CountsAgree, IInv PROVE PacketsAreCounted
    OBVIOUS
  <2>1. captured \in Nat /\ failures \in Nat /\ pruned \in Nat /\ Cardinality(StoredPackets) \in Nat
    BY BoundAssumption, FS_CardinalityType DEF IInv, TypeOK, CountsAgree
  <2>2. pc \in {"start", "sniff", "ended"} \cup Handling
    BY DEF IInv, TypeOK
  <2> QED BY <2>1, <2>2 DEF CountsAgree, PacketsAreCounted, Handling
<1>2. IInv /\ CountsAgree /\ [Next]_vars => CountsAgree'
  BY AgreeStep
<1> QED BY <1>1, <1>2, AgreeInit, Invariance, PTL DEF Spec
=============================================================================
