# Network Sentinel in TLA+

Network Sentinel is one Python process that watches the machine it runs on and
the private LAN around it. Five daemon threads collect, one SQLite file
remembers, one in-memory dictionary reports, and a FastAPI server with a
JavaScript dashboard lets a user look and intervene. This directory holds TLA+
models of its logic, TLC configurations that check them on small instances, and
proofs that TLAPS checks for every size. File and line references are to
`sentinel/` unless a path says otherwise.

## 1. Inventory

### Components, their state and operations

| component | state | operations |
|---|---|---|
| Fleet scheduling: `FleetWorker` (worker.py 304-396), endpoints (app.py 206-209, 244-249) | `stop_event`, `scan_event`, `manual_targets` under `queue_lock`, the `fleet_*` fields | a cycle (take targets, read the device table, probe, record, publish, clear, wait), `trigger`, `stop` |
| Fleet prober (collectors/device_probe.py) | two thread pools, for the time of a batch | `parse_ports`, `probe_device` (ping, liveness ports, service checks), `probe_devices` |
| Probe results: `record_device_probe` (storage.py 411-535) | `device_samples`, `device_services`, `devices.last_seen` (not modelled), `alerts` | one transaction for sample and services, then up to three notices |
| Discovery loop: `DiscoveryWorker` (worker.py 399-448) | `scan_event`, `stop_event`, `network_info`, `discovery_error` | an active or a passive cycle, `trigger`, `stop` |
| LAN sweep (collectors/network.py, arp.py) | none | choose an interface, ping sweep, merge with the ARP table |
| Device inventory: `upsert_device`, `set_device_trusted` (storage.py 191-222), `process_devices` (detectors.py 1-34) | `devices` | insert or update, alert for a new device or another MAC |
| Monitor loop: `MonitorWorker` (worker.py 16-94), detectors.py 37-85 | previous counters and connection count; `listeners` | sockets, listeners, spikes, communications |
| Behaviour baseline: intelligence.py 99-217, storage.py 292-362 | `processes`, `communications`, `dns_records`, start time | learn, and alert once the warm-up is over |
| Intelligence loop: `IntelligenceWorker` (worker.py 97-173) | `last_prune` | DNS cache, correlation, hourly pruning |
| Incident correlation (storage.py 244-274, 667-751, 858) | `security_events`, `incidents` | add an event, correlate, close, prune |
| Packet sensor: `PacketCaptureWorker` (worker.py 176-300), collectors/packet.py | `recent_dns`, `device_ips`, `flows`, `device_traffic`, counters | handle a packet |
| Risk and attention scores (intelligence.py 25-96, app.py 121-175) | none | two bounded heuristics |
| Runtime state (state.py) | a dictionary and a history of 300 points, one lock | update, snapshot, baseline status |
| Storage frame (storage.py 167-189) | the SQLite file, an `RLock` for writers | a connection and a transaction per call |
| Dashboard (static/app.js) | what is on the screen | refresh every few seconds, open a device |

### How they interact

Threads never call each other. They meet in three places: the database (every
call is a transaction of its own, writers queue for `Storage.lock`, readers do
not), the runtime dictionary (each `update` is atomic, two are not), and the
events and the target set that endpoints leave for the fleet and discovery
threads. A user's request therefore returns before anything was done, and what
the threads do is a sequence of short transactions with other threads, the
clock, an exception or the end of the process between any two of them.

### What is hard

- Wake-up events that are cleared at the end of a cycle, whoever set them since.
- One requested target turns the next cycle into a cycle of requested targets.
- Tables committed before the alert that announces the change.
- Cooldowns that drop an alert for good, while the change it was about is stored.
- Pruning that makes the memory of a device, an endpoint or an event disappear.
- A clock read before a lock is waited for.
- Boundaries: an event exactly one window old, an alert exactly a cooldown old.
- One `except` around a cycle of many steps.
- A probe that looks at a device several times while it changes.

`PROJECT.json` lists each hazard at its line with the properties that cover it.

### What makes each component correct

- Fleet scheduling: no request is lost or merged into an older probe; a stop is
  prompt and always ends the thread; without requests everything is probed.
- Probe results: tables agree with each other after any sequence of probes and
  crashes; every change is covered by an alert; alerts keep their distance.
- Fleet prober: a result describes the device as it was during its probe; one
  exception costs one result; the batch returns.
- Incidents: counts match events; open incidents of one activity do not
  overlap; severity is backed by the score; closed is final.
- Sweep: only addresses of the chosen LAN are pinged, and a small LAN completely.
- Inventory: a row is announced, a changed MAC reported; trust is the user's.
- Monitor and baseline: a process is announced at most once and never when it
  was learnt in a warm-up; a spike is measured against what is shown.
- Intelligence loop: a serious event becomes part of an incident before it
  leaves the window; history goes when its retention is over; a name with
  "xn--" is announced.
- Packet sensor: counters add up; a device known for 15 s is attributed; the
  rate limit drops repetitions only.
- Scores: they stay in their range, and attention never lowers them.

## 2. The modules

| module | models | extended or instantiated by |
|---|---|---|
| `ProbeRequests` | the abstract promise to a user who asks for a probe | `FleetScheduler` (refinement mapping) |
| `FleetScheduler` | `FleetWorker`, `trigger`, `stop`, both fleet endpoints, `probe_devices` as one step per address | `MCFleetScheduler`, `FleetSchedulerProofs` |
| `DeviceProbe` | that step: `parse_ports`, `probe_device`, `probe_devices` with their pools | `MCDeviceProbe`, `DeviceProbeProofs` |
| `ProbeStore` | `record_device_probe`, `recent_alert`, `add_alert`, pruning of samples | `MCProbeStore`, `ProbeStoreProofs` |
| `Incidents` | events, `correlate_incidents`, closing, pruning of events | `MCIncidents`, `IncidentsProofs`, `IntelligenceLoop` (refinement) |
| `IntelligenceLoop` | `IntelligenceWorker`, `process_dns_records`, `upsert_dns_record`, pruning | `MCIntelligenceLoop`, `IntelligenceLoopProofs` |
| `LanSweep` | choice of the interface, range and host list, as operators | `Discovery`, and through it `DiscoveryProofs` |
| `Discovery` | `DiscoveryWorker`, `discover_network`, `process_devices`, `upsert_device`, trust | `MCDiscovery`, `DiscoveryProofs` |
| `Monitor` | `MonitorWorker`, `process_listeners`, `process_connection_spike`, `process_communications` and their tables | `MCMonitor`, `MonitorProofs` |
| `Capture` | `PacketCaptureWorker._handle_packet` and its thread, flow, device and DNS rows | `MCCapture`, `CaptureProofs` |
| `SocketMatch` | `match_process`, `collect_listeners`, as operators | `CaptureProofs`, which has its theorems |
| `Scores` | `device_risk`, and the overview with its counts, as operators | `DiscoveryProofs`, which has its theorems |

One action is one lock region or one database transaction, the unit in which
threads of this program interleave; everything a handler does within it belongs
to the action. `pc` is the place in the thread's `run` or in the handler, named
for the next thing it does. Locals that live across two actions are variables,
dead locals get a fixed value. Comments mark variables that exist only to state
a property as `history`. Operators commented as `Mutant` are plausible bugs: a
property is kept only when replacing the named definition by such an operator
makes TLC report it.

**FleetScheduler.** `Check`, `Take`, `Read`, `Probe`, `Record`/`RecordedAll`,
`Publish`, `Clear` and `WakeUp` are the successive parts of `FleetWorker.run`
and `_take_targets`. `Fail` is the `except` branch, from any call of the
database and from `probe_devices`, whose pool may get no thread. `ProbeNow`,
`Enqueue` and `Signal` are the existence check of the endpoint and the two
halves of `trigger(ip)`; `ScanNow` is `trigger()`; `Stop` and `StopSignal` the
two sets of `stop()`. `WakeUp` needs no event since the wait is timed. A request
counts as in flight from the moment its set is emptied until its result is
recorded.

**DeviceProbe.** `Submit` is the call of `probe_devices`, `Start` a worker of
the outer pool taking a device, `Ping` and `TryLiveness` the two ways to find
out whether it is there, `CheckPort` one `check(port)` of the inner pool,
`Checked` the end of a probe and `Return` the end of the call. `Fail` is an
exception in a probe, which becomes a result; `SubmitFails` one of the outer
pool, which is raised once the probes submitted before it have ended (`raised`)
and which the fleet thread sees as the failure of its cycle. `Change` is a
device that goes, returns, opens or closes ports, at most `MaxChanges` times in
a batch; `sometimes` and `always` remember what it did since its probe began. A
port is open, refused or silent, which is what `_tcp_status` tells apart.

**ProbeStore.** `Begin` is the call, which reads the clock and waits for the lock;
`Commit` is the transaction of sample and service rows; the steps after it are
the queries and inserts of the notices. `Abort` may end the call after any of
them. The transaction also sets `devices.last_seen`, which is left out: none of
these calls reads it. An alert about new services names the first
`MaxNamed` of them (8 in the code). Of the alerts only the newest time of each
kind and device is kept, which is all `recent_alert` asks for.

**Incidents.** `TakeNow` reads the clock, `Correlate` is the transaction over
all groups behind the lock. Other threads add events, users close incidents and
the clock runs between the two. Scores and levels are those of the code.

**IntelligenceLoop.** It has the variables of `Incidents` and uses its actions
through `Inc == INSTANCE Incidents`. `Begin` reads the clock, the state of the
warm-up and the DNS cache; `StoreRecord` is one `upsert_dns_record`, `Decide`
what `process_dns_records` makes of the new names, `Announce` one alert;
`TakeNow` and `Correlate` are the correlation, `Prune` the hourly pruning with
its test. `Fail` is the single `except`, from any of these steps. Around the
loop, events are added, users close incidents, and the packet sensor stores
names of its own (`Sniff`). Time is bounded by an assumption, `InTime`: a cycle
begins within `Period` of the one before.

**Discovery.** A cycle either sweeps (`Select`, `Sweep`) or reads the ARP table,
then alternates `Upsert` and `Alert`. Addresses are numbers, an interface
carries the size of its network, and `BlockSize` addresses stand for the 256 of
a /24. What answers is free among the swept addresses, what the ARP table holds
among all occupied ones. `Fail` is the `except` of `run`, from any of these
steps, those that look at the LAN included.

**Monitor.** `Collect` takes the sockets and reads whether the baseline is
ready; `StoreListener` and `StoreRow` are one upsert each, `Announce` the alert
that may follow; `Anomaly` looks for a recent alert of its kind and stores one.
`Expire` is an alert that leaves its cooldown, `WarmUpEnds` the clock passing
`baseline_warmup_seconds`, `Restart` the process dying anywhere and starting
again on the same database. `Prune` deletes any endpoints but those seen in this
cycle or the one before (`recent`, reset by `Check`): the code compares their
`last_seen` with a retention of at least a day (config.py:57-60), and two cycles
are assumed to take less. That what is shown is spared follows from the order in
which a cycle stores and publishes, and is proved (`ShownIsRecent`). The
dashboard gets the first thousand sockets; here it gets all.

**Capture.** `pc` names what `_handle_packet` stores next, and `messages` holds
the DNS messages of the packet it has still to store and log. The handler reads
the clock in `Look`, after the flow is stored, and uses this reading for the
rest; the clock runs on. `Fail` is a database error while a packet is handled.
The `try` of `run` is around `sniff`, but Scapy 2.6.1 (requirements-capture.txt)
calls `prn` inside a `try` of its own: the exception ends the handling of this
packet, `sniff` returns, and the loop calls it again. `SniffFails` is an
exception of `sniff` itself, an interface that cannot be opened: it ends the
thread (worker.py:290-299). `SniffEnds` is the end after `stop()`. Scapy is not
part of the repository: what it does is taken from this release and modelled as
external behaviour.

## 3. The runs

| run | instance | shows |
|---|---|---|
| `scheduler` | 3 addresses (1 public), 1 client, 1 error | typing, a prompt stop that ends the thread, the promise of `ProbeRequests`, requests served, a quiet fleet probed |
| `device_probe` | 3 devices, 2 workers, 3 ports, 1 change per batch, 1 exception of a probe or of the pool | results describe devices, exceptions are isolated, batches return |
| `probe_store` | 1 device, 2 ports, 6 units of time, cooldowns 1 and 2 | tables agree, changes are covered, alerts are spaced |
| `incidents` | 3 events of 2 activities, window 1, 3 units of time | counts, spacing, scores, closing |
| `intelligence` | 1 event, 1 name, window and hour 3, retention 1, 8 units of time, 1 error | correlation in time, pruning in time, names announced, refinement of `Incidents` |
| `discovery` | 4 interface lists, 2 occupied addresses, 2 MACs, 1 error in any step | news, gateway flag, small LANs, trust |
| `monitor` | 1 port, 2 processes, 3 remotes, 1 error, 1 restart | news, single announcement, spikes, the shown sockets, recovery |
| `capture` | 3 addresses, 2 DNS messages, 3 packets, 2 units of time, 1 error | counters, attribution, DNS log |
| `scan_wiped` | 2 addresses, 1 client | **violated**: a queued full scan is forgotten |
| `service_cooldown` | 1 device, 2 ports | **violated**: a new service without an alert |
| `ignored_service` | 1 device, 3 ports | **violated**: a device with an open monitored port is offline |
| `off_lan` | a LAN of 4 addresses, limit 1 | **violated**: addresses outside the LAN are pinged |

Why the bounds suffice:

- *Clients and addresses.* The client asks again and again, so a request is in
  flight while the next is under way; the set of targets, the set being probed
  and a bystander need at most three addresses, of which one public. A second
  client would only matter for `RequestsKept`, `TypeOK` and
  `AtMostOneCycleAfterStop`, which are proved for any number.
- *Devices under probe.* Three devices for two workers make one wait. Of the
  ports one is monitored and tried for liveness, one only tried, one only
  monitored: the three roles a port can have. One change per batch is what
  TLC can take with three devices; `ResultsDescribeDevices` is for any number.
- *Time.* All comparisons are between a reading of the clock and an earlier one
  plus a constant. Cooldowns, windows and lags of 1 or 2 units show both sides
  of every boundary, and the clock runs far enough for the second alert, the
  second incident or the second refresh to come after the first has expired.
  `Retention` is longer than the cooldowns, as a day is longer than 600 s.
- *The loop.* One event is enough for `SeriousEventsBecomeIncidents` and
  `HistoryIsPruned`, which speak of each event alone; `incidents` has the groups.
  Eight units of time take it through its window, its retention and two
  prunings, also when the one error strikes the second of them: with a period of 1
  the bound is then 7 for its age (1 + 3 + 3 * 1) and 3 for the window, both below
  8. An error that sets the time of a pruning that did not happen (`FailPruned`)
  is reported. One name with a row of the cache and one of the packet sensor has
  both orders of arrival; the cap of announcements is one and never exceeded,
  which `IdnAlwaysAnnounced` covers for any cap.
- *Errors and restarts.* What an error does depends on the state it strikes,
  not on earlier errors, except through the tables; those reach the same values
  without it. The news properties count errors, so one is enough to tell
  "lost by a failure" from "lost otherwise".
- *Sockets, packets, MACs.* Two endpoints reach the thresholds of 2 for spike,
  fan-out and churn, and one scan without a name takes the way of "unknown".
  Three packets are first sight, repetition within the gap, repetition after it.
- *LANs.* With blocks of 8 addresses the interface lists cover a LAN wider than
  the block, one of its size, a smaller one, none at all, and a virtual
  interface that loses although its network is smaller.
- *Deadlock.* `monitor`, `capture` and `intelligence` do not check it: the threads
  end after `stop()`, the sensor also when `sniff` raises, and the clock of
  `intelligence` is bounded. The other passing runs do.

Symmetry is used for devices and ports in `probe_store` and for events in
`incidents`, whose properties are safety properties.

### Fairness

`FleetScheduler.FairSpec` assumes that the thread keeps running (`WF` of the
thread as a whole: the code is a loop of calls with time-outs, and its wait is
timed), that an API call that has started goes on, and that `stop()` completes.
`Monitor.FairSpec` assumes the same of the monitor thread, and
`DeviceProbe.FairSpec` of the workers of the pool, each for its device: every
call of a probe has a time-out. Nothing obliges a
user to ask, a device to exist or answer, an error to happen, or the server to
stop; `QuietFleetIsProbed` has as its premise that requests end, since
a cycle with requests probes nothing else.

## 4. Findings

Each is a violated run; `PROJECT.json` quotes the sentence the code contradicts.

1. `scan_wiped` - `scan_event.clear()` at the end of a cycle (worker.py:393)
   also clears a scan that was accepted while that cycle was probing or recording
   a requested device. The reply said `queued`. The whole fleet is probed after
   the next interval, unless further single requests come first.
2. `service_cooldown` - the cooldown of the service alert is per device, so the
   second new service within 600 s is stored as known and never alerted
   (storage.py:511).
3. `ignored_service` - the liveness pass for devices that ignore pings tries a
   fixed list of ports, not the monitored ones. A device that drops everything
   but a monitored port outside the list is stored as offline and its service
   never looked at (collectors/device_probe.py:118).
4. `off_lan` - the test for too large a network compares with the configured
   host limit and then takes a /24, which is larger than a LAN of 128 addresses
   or fewer (network.py:116).

Observed while modelling, without a run of their own since they follow from one
line each:

- Offline, online, offline within 300 s leaves "Device back online" as the newest
  alert of a device that is down (storage.py:489).
- An unanswered probe leaves the service rows as they are, and the drawer shows
  them as currently open (storage.py:453).
- A DNS burst counts names of new rows as "previously unseen", also known names
  with another address (intelligence.py:199-203).
- The host limit is compared with the hosts of the LAN including the machine
  itself, but applied to those without it: a LAN of another size than a /24 with
  exactly one host more than the limit is replaced by the enclosing /24 although
  sweeping it would have stayed within the limit (network.py:116).
  `SmallLanIsSwept` is stated with this difference; its proof needed it.
- A UDP server has one socket without a peer, so none of its packets is ever
  attributed to its process (`ListenersNeverMatch`).

## 5. What is proved

All theorems hold for every value of the constants that satisfies the ASSUMEs
of the module: any sets of addresses, clients, ports and events (events finite),
any cooldowns, windows and retention, any number of errors.

- **`FleetSchedulerProofs`.** `Typing` is inductive by itself. `StopIsPrompt`
  needs `LateInv`: before the stop no cycle is late, and a thread that is about
  to take targets has not been late yet. `RequestsImplemented` proves
  the refinement of `ProbeRequests` step by step under `KnownInv`: whatever is
  requested or being enqueued is in the device table. Without it, a target
  that is taken but not in the table would vanish from the batch unanswered,
  a step `ProbeRequests` does not have.
- **`ProbeStoreProofs`.** `IInv` adds to the type invariant that times lie in
  the past, and for each step of a call what the query before it has
  established (`CallInv`): the clock may run between query and insert, which
  only makes a found alert older and so never invalidates "none is recent".
  From it follow `SamplesMatch`, `ChangesCovered`, `AlertsSpaced` and
  `ServicesClose`.
- **`IncidentsProofs`.** `IInv` joins counting, spacing and scores with
  `Past` (no incident is younger than the clock reading that waits for the
  lock) and `Assigned` (an event points at an incident of its own activity).
  The heart is `RecentIsNewest`: among the incidents of one activity only the
  newest can be extended. It rests on spacing, and spacing rests on it.
  `ClosingIsFinal` is the action property from the same invariant.
- **`IntelligenceLoopProofs`.** `LoopImplementsIncidents` maps every step of the
  loop to one of `Incidents` or to a stutter, with the identity as the mapping:
  what is proved of `Incidents` holds for the program with its loop.
  `IdnAlwaysAnnounced` is not inductive by itself: `Decided` adds that between
  the decision and the last alert every new name is still to be announced, or
  has been, or is excused; and the assumption that rows of the cache and of the
  packet sensor differ in their type keeps the sensor from hiding a name.
  The two bounds in time, `HistoryAlwaysPruned` and `SeriousEventsCorrelated`,
  follow from `LoopInv`: the order of the three clock readings (`Clocks`), how
  old the last pruning may be at each place of the loop (`PruningDue`) and what
  it left behind (`PrunedThen`), and how old an event may be that no correlation
  has seen (`CorrelatedThen`), each in periods, one more for every error. They
  use `InTime`, the bound on the length of a cycle.
- **`DeviceProbeProofs`.** The hard one is `ResultsDescribeDevices`, a statement
  about a device that changes under the probe. The invariant has a part per
  stage: what a device does now it has done at some time, and it has always done
  only that (`Observed`); what the liveness pass has tried in vain was not always
  answered (`RuledOut`); the ports found open were so at some time, and one that
  is open all the time is found or still to be checked (`LookedAt`).
  `FailuresIsolated` counts the error results. `LivenessPortsSuffice` is the
  positive side of finding 3: with every monitored port among the liveness ports,
  no device with an open service is reported offline.
- **`MonitorProofs`.** `ShownAlwaysStored` rests on `ScanIsStored`, what a cycle has
  gone through is in the tables, and on `ShownIsRecent`, what is shown was seen in
  this cycle or the one before, the two whose rows pruning spares.
  `SpikesOfShownCounts` needs that the remembered count is
  that of the sockets shown, also after an error. `ProcessesAnnouncedOnce` needs
  that news has no alert yet and was not learnt in a warm-up (`NewsIsFresh`), and
  `NewsLostByFailureOnly` counts what is stored without an alert apart from
  the news in hand.
- **`DiscoveryProofs`.** `SweepIsBounded`: whatever the interfaces, at most the
  configured number of addresses is pinged, never the machine's own.
  `SmallLanAlwaysSwept` counts the hosts below each host of a LAN.
  `SweepStaysOnLargeLans` is the positive side of finding 4: when the limit
  covers every LAN smaller than the block, nothing outside the LAN is pinged. Of
  the thread, `NewsLostByFailureOnly` and `GatewayAlwaysFlagged` need what each
  place of a cycle has still in hand (`NewsPending`, `GatewayStored`), and
  `TrustAlwaysTheUsers` is an action property of every step.
  The theorems about `Scores` are here as well: the risk of a device lies between
  0 and 83, a trusted device is always of level low, neither trust nor absence
  raises it, and the devices an overview calls risky are among those it calls
  unknown. The attention score lies between 0 and 100 and never falls when alerts
  are acknowledged, although anomalies count twice and are counted by a later
  query. The counts of devices in one overview are consistent although the table
  is read twice.
- **`CaptureProofs`.** `KnownDevicesAlwaysCounted` needs `CacheFresh` (a device
  that is not in the cached set was stored after it was read) and the order of
  the clock readings; `DnsAlwaysLogged` needs `MessagesPending` (a message of the
  packet in hand is in the timeline or still to be logged) and that the memory of
  the rate limit is never ahead of the timeline. `PacketsAlwaysCounted` adds
  `CountsAgree`, by how much table and counter differ at each place of the
  handler: by the packet in hand, and by one for every error, since the sensor
  goes on after it. The table's packets are counted as the elements of `StoredPackets`, so
  that the proof needs no induction over its rows.
  The theorems about `SocketMatch` are here as well: a packet and its answer get
  the same process; listeners and protocols without ports never give one.

`IInv`, `LoopInv` and `CountsAgree` were checked by TLC on the instances of their
runs before they were proved. What the proofs assume of the constants is what the code gives:
numbers are natural and counts positive (`max(..., 1)` in config.py), the
devices, the events, a reading of the sockets and one of the DNS cache are finite
sets, and values that are told apart by their form in the code are different
(`NamesAssumption`, `RecordsAssumption`, `MacAssumption`).

Every safety invariant and every action property of a passing run is proved; left
to TLC are the liveness properties (`StopEndsThread`, `ManualProbeServed`,
`QuietFleetIsProbed`, `BatchReturns`, `MonitoringRecovers`), which rest on
fairness and so on ENABLED, out of the prover's reach.

## 6. What is not modelled

- Parsing of command output (ARP, DNS, routes) and Scapy decoding: pure
  input without state. Their results are free within the types the code gives
  them.
- Wording of alerts and events, vendor and host names, sizes, traffic rates and
  latencies: no property depends on them.
- `DiscoveryWorker.trigger` and its event: they end a wait that the model lets
  end at any time. Like `scan_wiped`, a trigger that arrives during a cycle is
  cleared at its end (worker.py:446).
- The dashboard: it renders what it fetches anew every 3 s. Answers of two
  overlapping refreshes may come in the wrong order, which the next repairs.
- Endpoints that return one query, configuration, schema creation, packaging.
- Database contention: a write that waits for the lock is a later action, one
  that times out is a `Fail`.

## 7. Plan

What is left:

1. Under which constants the other findings cannot occur, as `SweepStaysOnLargeLans`
   and `LivenessPortsSuffice` say it of two: a fleet nobody asks single devices of
   keeps its queued scan.
2. Operators beyond what the invariants need: that the risk of a device is
   monotone in its open services, and that the selected interface is the first of
   the best ones whatever their order.
3. Safety parts of the liveness properties: a request never leaves the set of
   pending ones but by a result, and a cycle after an error starts from a state a
   good cycle can start from.
