------------------------------ MODULE Discovery ------------------------------
(***************************************************************************)
(* The discovery thread and the device table: DiscoveryWorker              *)
(* (sentinel/worker.py), discover_network (collectors/network.py),         *)
(* process_devices (detectors.py), upsert_device and set_device_trusted    *)
(* (storage.py).                                                           *)
(*                                                                         *)
(* A cycle looks at the LAN, writes one row per device, each in its own    *)
(* transaction, and after a row that is news an alert in another.  What    *)
(* the LAN answers is free within the addresses that may be occupied.      *)
(***************************************************************************)
EXTENDS LanSweep, FiniteSetsExt

CONSTANTS
    Occupied,       \* addresses that may answer or be in the ARP table
    Macs,           \* MAC addresses
    NoMac,          \* an address whose MAC is not known
    InterfaceLists, \* what the private IPv4 interfaces of the host may be
    LocalMac,       \* the MAC of the interface
    MaxFailures     \* bound on the errors a behaviour may contain

ASSUME FailuresAssumption == MaxFailures \in Nat
ASSUME MacAssumption == NoMac \notin Macs /\ LocalMac \in Macs \cup {NoMac}

ASSUME AddressAssumption ==
    /\ Occupied \subseteq Nat \ {0}
    /\ InterfaceLists \subseteq Seq([penalty : Nat, ip : Nat \ {0}, size : Nat \ {0}])

Interfaces == UNION {{list[i] : i \in 1..Len(list)} : list \in InterfaceLists}
Addresses == Occupied \cup {iface.ip : iface \in Interfaces}

VARIABLES
    device,         \* the devices table
    announced,      \* history: addresses a new_device alert was stored for
    silent,         \* history: MAC changes stored without their alert
    pc,             \* where DiscoveryWorker.run is
    found,          \* devices of the cycle that are still to be stored
    gateway,        \* the default gateway the cycle found
    news,           \* the status upsert_device returned
    iface,          \* the interface the cycle sweeps
    networkInfo,    \* the gateway in runtime.data["network_info"], if there is one
    failed,         \* runtime.data["discovery_error"] is not None
    stopEvent,
    active,         \* settings.active_discovery, read at start
    failures        \* errors so far

thread == <<pc, found, gateway, news, iface>>
shown == <<networkInfo, failed>>
given == <<stopEvent, active>>
vars == <<device, announced, silent, thread, shown, given, failures>>

NoAddress == 0
NoNews == [d |-> NoAddress, kind |-> "none"]
NoInterfaceYet == [penalty |-> 0, ip |-> NoAddress, size |-> 0]
NoRow == [row |-> FALSE]
Rows == [row : {TRUE}, mac : Macs \cup {NoMac}, gateway : BOOLEAN, trusted : BOOLEAN]
Known == {d \in Addresses : device[d].row}
Entries == Addresses \X (Macs \cup {NoMac})

TypeOK ==
    /\ device \in [Addresses -> Rows \cup {NoRow}]
    /\ announced \subseteq Addresses
    /\ silent \in Nat
    /\ pc \in {"check", "collect", "sweep", "upsert", "alert", "clear", "wait", "done"}
    /\ found \subseteq Entries
    /\ gateway \in Addresses \cup {NoAddress}
    /\ news \in [d : Addresses, kind : {"new", "mac_changed"}] \cup {NoNews}
    /\ iface \in Interfaces \cup {NoInterfaceYet}
    /\ networkInfo \in Addresses \cup {NoAddress}
    /\ failed \in BOOLEAN
    /\ stopEvent \in BOOLEAN
    /\ active \in BOOLEAN
    /\ failures \in 0..MaxFailures

Init ==
    /\ device = [d \in Addresses |-> NoRow]
    /\ announced = {}
    /\ silent = 0
    /\ pc = "check"
    /\ found = {}
    /\ gateway = NoAddress
    /\ news = NoNews
    /\ iface = NoInterfaceYet
    /\ networkInfo = NoAddress
    /\ failed = FALSE
    /\ stopEvent = FALSE
    /\ active \in BOOLEAN
    /\ failures = 0

-----------------------------------------------------------------------------
(* A cycle. *)

Check ==
    /\ pc = "check"
    /\ pc' = IF stopEvent THEN "done" ELSE "collect"
    /\ UNCHANGED <<device, announced, silent, found, gateway, news, iface, shown,
                   given, failures>>

\* Mutant: every address that was pinged is listed, whoever answered.
ListedUnanswered(item, pinged, arp, gw) ==
    {item.ip} \cup Swept(item)
    \cup {d \in DOMAIN arp : d \in Network(item)}
    \cup (IF gw = NoAddress THEN {} ELSE {gw})

\* The devices of an active cycle: the host itself, who answered the ping, who
\* is in the ARP table with an address of the network, and the gateway.
Listed(item, pinged, arp, gw) ==
    {item.ip} \cup pinged
    \cup {d \in DOMAIN arp : d \in Network(item)}
    \cup (IF gw = NoAddress THEN {} ELSE {gw})

\* The MAC of a listed device: the one the ARP table has (the last one, when it
\* has several), else that of the interface for the host itself.
MacOf(item, arp, d) ==
    IF d \in DOMAIN arp THEN arp[d] ELSE IF d = item.ip THEN LocalMac ELSE NoMac

\* discover_network: the interface, and what the LAN answers.
Select(list) ==
    /\ active
    /\ pc = "collect"
    /\ list # <<>>
    /\ iface' = Selected(list)
    /\ pc' = "sweep"
    /\ UNCHANGED <<device, announced, silent, found, gateway, news, shown, given,
                   failures>>

Sweep(pinged, arp, gw) ==
    /\ pc = "sweep"
    /\ pinged \subseteq Swept(iface)
    /\ found' = {<<d, MacOf(iface, arp, d)>> : d \in Listed(iface, pinged, arp, gw)}
    /\ gateway' = gw
    /\ iface' = NoInterfaceYet
    /\ pc' = "upsert"
    /\ UNCHANGED <<device, announced, silent, news, shown, given, failures>>

\* Without an interface the cycle only reports the error.
NoInterface ==
    /\ active
    /\ pc = "collect"
    /\ <<>> \in InterfaceLists
    /\ failed' = TRUE
    /\ networkInfo' = NoAddress
    /\ pc' = "clear"
    /\ UNCHANGED <<device, announced, silent, found, gateway, news, iface,
                   given, failures>>

\* A passive cycle stores the ARP table, all the entries of an address.
ReadArp ==
    /\ ~active
    /\ pc = "collect"
    /\ found' \in SUBSET (Occupied \X Macs)
    /\ pc' = "upsert"
    /\ UNCHANGED <<device, announced, silent, gateway, news, iface, shown,
                   given, failures>>

\* Mutant: another MAC is reported only for devices that are not trusted.
StatusTrusting(d, mac) ==
    IF ~device[d].row THEN "new"
    ELSE IF device[d].mac # NoMac /\ mac # NoMac /\ device[d].mac # mac
            /\ ~device[d].trusted
         THEN "mac_changed" ELSE "seen"

\* What upsert_device returns.
Status(d, mac) ==
    IF ~device[d].row THEN "new"
    ELSE IF device[d].mac # NoMac /\ mac # NoMac /\ device[d].mac # mac
         THEN "mac_changed" ELSE "seen"

\* Mutant: the flag of a known device is left alone.
StoredKeepsGateway(d, mac) ==
    IF ~device[d].row
    THEN [row |-> TRUE, mac |-> mac, gateway |-> (d = gateway), trusted |-> FALSE]
    ELSE [device[d] EXCEPT !.mac = IF mac = NoMac THEN @ ELSE mac]

\* Mutant: the row is replaced by a new one.
StoredAnew(d, mac) ==
    [row |-> TRUE, mac |-> mac, gateway |-> (d = gateway), trusted |-> FALSE]

\* The row it leaves: a missing MAC keeps the old one, the gateway flag is that
\* of this cycle, trust is the user's.
Stored(d, mac) ==
    IF ~device[d].row
    THEN [row |-> TRUE, mac |-> mac, gateway |-> (d = gateway), trusted |-> FALSE]
    ELSE [device[d] EXCEPT !.mac = IF mac = NoMac THEN @ ELSE mac,
                           !.gateway = (d = gateway)]

\* The next entry: an active cycle goes by address, the ARP table has its own
\* order.
Due == {e \in found : active => e[1] = Min({f[1] : f \in found})}

Upsert(e) ==
    /\ pc = "upsert"
    /\ e \in Due
    /\ found' = found \ {e}
    /\ device' = [device EXCEPT ![e[1]] = Stored(e[1], e[2])]
    /\ silent' = IF /\ device[e[1]].row
                    /\ device[e[1]].mac # NoMac
                    /\ device'[e[1]].mac # device[e[1]].mac
                 THEN silent + 1 ELSE silent
    /\ news' = IF Status(e[1], e[2]) = "seen" THEN NoNews
               ELSE [d |-> e[1], kind |-> Status(e[1], e[2])]
    /\ pc' = IF news' = NoNews THEN "upsert" ELSE "alert"
    /\ UNCHANGED <<announced, gateway, iface, shown, given, failures>>

\* add_alert for a new device or another MAC.
Alert ==
    /\ pc = "alert"
    /\ announced' = IF news.kind = "new" THEN announced \cup {news.d} ELSE announced
    /\ silent' = IF news.kind = "mac_changed" THEN silent - 1 ELSE silent
    /\ news' = NoNews
    /\ pc' = "upsert"
    /\ UNCHANGED <<device, found, gateway, iface, shown, given, failures>>

\* Everything is stored: an active cycle shows its network and clears the
\* error, a passive one shows nothing.
Publish ==
    /\ pc = "upsert"
    /\ found = {}
    /\ networkInfo' = IF active THEN gateway ELSE networkInfo
    /\ failed' = (failed /\ ~active)
    /\ pc' = "clear"
    /\ UNCHANGED <<device, announced, silent, found, gateway, news, iface, given,
                   failures>>

\* An exception in the middle of the cycle, of the database or of what looks at
\* the LAN (the pool of pings gets no thread, say).
Fail ==
    /\ pc \in {"collect", "sweep", "upsert", "alert"}
    /\ pc = "upsert" => found # {}
    /\ failures < MaxFailures
    /\ failures' = failures + 1
    /\ failed' = TRUE
    /\ found' = {}
    /\ news' = NoNews
    /\ iface' = NoInterfaceYet
    /\ pc' = "clear"
    /\ UNCHANGED <<device, announced, silent, gateway, networkInfo, given>>

\* The end of the cycle; its locals are gone.  scan_event, cleared here, only
\* shortens the wait.
Clear ==
    /\ pc = "clear"
    /\ pc' = "wait"
    /\ gateway' = NoAddress
    /\ UNCHANGED <<device, announced, silent, found, news, iface, shown, given,
                   failures>>

\* The wait ends with the interval, or sooner.
WakeUp ==
    /\ pc = "wait"
    /\ pc' = "check"
    /\ UNCHANGED <<device, announced, silent, found, gateway, news, iface, shown,
                   given, failures>>

Cycle ==
    \/ Check \/ NoInterface \/ ReadArp \/ Alert \/ Publish \/ Fail
    \/ Clear \/ WakeUp
    \/ \E list \in InterfaceLists : Select(list)
    \/ \E pinged \in SUBSET Occupied, gw \in Occupied \cup {NoAddress},
          arp \in UNION {[S -> Macs] : S \in SUBSET Occupied} :
              Sweep(pinged, arp, gw)
    \/ \E e \in found : Upsert(e)

-----------------------------------------------------------------------------
(* The endpoints and the shutdown hook. *)

Trust(d, trusted) ==
    /\ device[d].row
    /\ device[d].trusted # trusted
    /\ device' = [device EXCEPT ![d].trusted = trusted]
    /\ UNCHANGED <<announced, silent, thread, shown, given, failures>>

Stop ==
    /\ stopEvent' = TRUE
    /\ UNCHANGED <<device, announced, silent, thread, shown, active, failures>>

Next ==
    \/ Cycle \/ Stop
    \/ \E d \in Addresses, trusted \in BOOLEAN : Trust(d, trusted)

Spec == Init /\ [][Next]_vars

-----------------------------------------------------------------------------
(* Properties. *)

\* A new row is announced, a changed MAC reported: only a failed cycle can lose
\* such news, and one item at most (the row is committed before the alert).
DeviceNewsIsLostByFailureOnly ==
    Cardinality(Known \ announced) + silent
        <= failures + (IF news = NoNews THEN 0 ELSE 1)

\* Once a cycle has ended well, the gateway shown with the network is flagged in
\* the table, also after the LAN got another gateway.
GatewayIsFlagged ==
    pc = "wait" /\ ~failed /\ networkInfo # NoAddress => device[networkInfo].gateway

\* Discovery pings no address outside the network of the interface it selected.
SweepStaysOnLan ==
    iface # NoInterfaceYet => Swept(iface) \subseteq HostsOf(iface.ip, iface.size)

\* A LAN that is small enough is swept completely.  The machine itself takes no
\* place in the limit, unless the LAN is not of the size of the block.
SmallLanIsSwept ==
    LET lan == HostsOf(iface.ip, iface.size)
        hosts == lan \ {iface.ip}
        limited == IF iface.size = BlockSize THEN hosts ELSE lan
    IN  iface # NoInterfaceYet /\ Cardinality(limited) <= MaxHosts
        => hosts \subseteq Swept(iface)

\* Trust is the user's: no cycle gives it, and none takes it away, whatever
\* becomes of the rest of the row.
TrustIsTheUsers ==
    [][pc' # pc \/ found' # found =>
          \A d \in Known : device'[d].row /\ device'[d].trusted = device[d].trusted]_vars
=============================================================================
