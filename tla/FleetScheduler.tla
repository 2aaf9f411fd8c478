---------------------------- MODULE FleetScheduler ----------------------------
(***************************************************************************)
(* The fleet thread (FleetWorker, sentinel/worker.py) with everybody who   *)
(* talks to it: the API threads that ask for a probe of one device or of   *)
(* the whole fleet, the discovery thread that adds devices, and the        *)
(* shutdown hook.                                                          *)
(*                                                                         *)
(* A cycle of the thread takes the requested targets, reads the device     *)
(* table, probes, records the results one by one, publishes a summary,     *)
(* clears its wake-up event and waits on it.  The steps of a cycle are the *)
(* points between which another thread can run: every lock region and      *)
(* every database call is one action.                                      *)
(***************************************************************************)
EXTENDS Naturals, FiniteSets, FiniteSetsExt

CONSTANTS
    Devices,        \* the IPv4 addresses, as numbers: probe results are sorted
    Private,        \* those _is_private_ipv4 accepts, the only ones probed
    Clients,        \* API threads (the server's thread pool)
    Enabled,        \* settings.device_monitoring
    MaxFailures     \* bound on the errors a behaviour may contain

ASSUME DevicesAssumption == Devices \subseteq Nat \ {0}
ASSUME PrivateAssumption == Private \subseteq Devices
ASSUME EnabledAssumption == Enabled \in BOOLEAN
ASSUME FailuresAssumption == MaxFailures \in Nat

VARIABLES
    known,          \* rows of the devices table
    pc,             \* where FleetWorker.run is
    stopEvent,      \* FleetWorker.stop_event
    scanEvent,      \* FleetWorker.scan_event
    manualTargets,  \* FleetWorker.manual_targets
    targets,        \* local of _take_targets: the requested addresses
    todo,           \* addresses still to probe or results still to record
    fleetRunning,   \* runtime.data["fleet_running"]
    fleetError,     \* runtime.data["fleet_error"] is not None
    call,           \* what each API thread is doing inside trigger()
    stopper,        \* the shutdown hook inside stop()
    failures,       \* errors of a cycle so far
    scanOwed,       \* history: a full scan was accepted in a cycle of single targets
    late            \* history: cycles that took targets after stop_event

threadVars == <<pc, targets, todo, fleetRunning, fleetError, late>>
eventVars  == <<stopEvent, scanEvent, manualTargets>>
userVars   == <<known, call, stopper>>
vars == <<threadVars, eventVars, userVars, failures, scanOwed>>

NoDevice == 0
Idle == [at |-> "idle", ip |-> NoDevice]
Calls == {Idle} \cup [at : {"enqueue", "signal"}, ip : Devices]

Labels == {"start", "check", "take", "read", "probe", "record", "publish",
           "clear", "wait", "done"}

TypeOK ==
    /\ known \subseteq Devices
    /\ pc \in Labels
    /\ stopEvent \in BOOLEAN
    /\ scanEvent \in BOOLEAN
    /\ manualTargets \subseteq Devices
    /\ targets \subseteq Devices
    /\ todo \subseteq Private
    /\ fleetRunning \in BOOLEAN
    /\ fleetError \in BOOLEAN
    /\ call \in [Clients -> Calls]
    /\ stopper \in {"up", "stopping", "down"}
    /\ failures \in 0..MaxFailures
    /\ scanOwed \in BOOLEAN
    /\ late \in 0..2

Init ==
    /\ known = {}
    /\ pc = "start"
    /\ stopEvent = FALSE
    /\ scanEvent = FALSE
    /\ manualTargets = {}
    /\ targets = {}
    /\ todo = {}
    /\ fleetRunning = FALSE
    /\ fleetError = FALSE
    /\ call = [c \in Clients |-> Idle]
    /\ stopper = "up"
    /\ failures = 0
    /\ scanOwed = FALSE
    /\ late = 0

-----------------------------------------------------------------------------
(* The fleet thread. *)

\* A requested device is being probed or recorded; a cycle that was given targets
\* leaves the other devices alone.
SingleTargets == targets # {} /\ todo # {}

\* run() up to the loop: a disabled monitor reports so and ends its thread.
Start ==
    /\ pc = "start"
    /\ pc' = IF Enabled THEN "check" ELSE "done"
    /\ fleetError' = ~Enabled
    /\ UNCHANGED <<targets, todo, fleetRunning, late, eventVars, userVars,
                   failures, scanOwed>>

\* Mutant: the loop never looks at stop_event.
CheckForever ==
    /\ pc = "check"
    /\ pc' = "take"
    /\ fleetRunning' = TRUE
    /\ fleetError' = FALSE
    /\ UNCHANGED <<targets, todo, late, eventVars, userVars, failures, scanOwed>>

\* The loop condition, and the fields set at the head of a cycle.
Check ==
    /\ pc = "check"
    /\ pc' = IF stopEvent THEN "done" ELSE "take"
    /\ fleetRunning' = ~stopEvent
    /\ fleetError' = (stopEvent /\ fleetError)
    /\ UNCHANGED <<targets, todo, late, eventVars, userVars, failures, scanOwed>>

\* _take_targets under queue_lock: copy the requested targets, empty the set.
Take ==
    /\ pc = "take"
    /\ pc' = "read"
    /\ targets' = manualTargets
    /\ manualTargets' = {}
    /\ late' = IF stopEvent /\ late < 2 THEN late + 1 ELSE late
    /\ UNCHANGED <<todo, fleetRunning, fleetError, stopEvent, scanEvent,
                   userVars, failures, scanOwed>>

\* Mutant: public addresses are probed too.
ChosenPublic == IF targets = {} THEN known ELSE known \cap targets

\* Mutant: no requested target means no device instead of every device.
ChosenTargets == (known \cap targets) \cap Private

\* The addresses of a cycle: every known one, or the requested ones if there
\* are any; then only those that are private.
Chosen == (IF targets = {} THEN known ELSE known \cap targets) \cap Private

\* The rest of _take_targets, outside the lock: the device table is read.
Read ==
    /\ pc = "read"
    /\ pc' = "probe"
    /\ todo' = Chosen
    /\ scanOwed' = (scanOwed /\ targets # {})
    /\ UNCHANGED <<targets, fleetRunning, fleetError, late, eventVars, userVars,
                   failures>>

\* probe_devices: an exception inside a probe becomes an offline result, so
\* every address yields exactly one.
Probe ==
    /\ pc = "probe"
    /\ pc' = "record"
    /\ UNCHANGED <<targets, todo, fleetRunning, fleetError, late, eventVars,
                   userVars, failures, scanOwed>>

\* One record_device_probe call; the results are sorted by address.
Recording(d) == pc = "record" /\ todo # {} /\ d = Min(todo)

Record ==
    /\ \E d \in todo : Recording(d) /\ todo' = todo \ {d}
    /\ UNCHANGED <<pc, targets, fleetRunning, fleetError, late, eventVars,
                   userVars, failures, scanOwed>>

RecordedAll ==
    /\ pc = "record"
    /\ todo = {}
    /\ pc' = "publish"
    /\ UNCHANGED <<targets, todo, fleetRunning, fleetError, late, eventVars,
                   userVars, failures, scanOwed>>

\* fleet_summary and the runtime update, then the finally block.
Publish ==
    /\ pc = "publish"
    /\ pc' = "clear"
    /\ fleetRunning' = FALSE
    /\ fleetError' = FALSE
    /\ UNCHANGED <<targets, todo, late, eventVars, userVars, failures, scanOwed>>

\* Any of the cycle's database calls may raise (sqlite3 gives up on a locked
\* file after 10 s), and probe_devices when its pool gets no thread: the rest of
\* the cycle is skipped, the finally block runs.
Fail ==
    /\ \/ pc \in {"read", "probe", "publish"}
       \/ pc = "record" /\ todo # {}
    /\ failures < MaxFailures
    /\ failures' = failures + 1
    /\ pc' = "clear"
    /\ todo' = {}
    /\ fleetRunning' = FALSE
    /\ fleetError' = TRUE
    /\ UNCHANGED <<targets, late, eventVars, userVars, scanOwed>>

\* Mutant: the requests are cleared with the event.
ClearRequests ==
    /\ pc = "clear"
    /\ pc' = "wait"
    /\ scanEvent' = FALSE
    /\ manualTargets' = {}
    /\ UNCHANGED <<targets, todo, fleetRunning, fleetError, late, stopEvent,
                   userVars, failures, scanOwed>>

\* scan_event.clear(), whoever has set it since the last wait.
Clear ==
    /\ pc = "clear"
    /\ pc' = "wait"
    /\ scanEvent' = FALSE
    /\ UNCHANGED <<targets, todo, fleetRunning, fleetError, late, stopEvent,
                   manualTargets, userVars, failures, scanOwed>>

\* Mutant: the wait has no timeout.
WakeUpOnlyWhenSet ==
    /\ pc = "wait"
    /\ scanEvent
    /\ pc' = "check"
    /\ UNCHANGED <<targets, todo, fleetRunning, fleetError, late, eventVars,
                   userVars, failures, scanOwed>>

\* scan_event.wait returns when the event is set, or after 5 s or the probe
\* interval; how long it may sleep is abstracted, that it wakes up is not.
WakeUp ==
    /\ pc = "wait"
    /\ pc' = "check"
    /\ UNCHANGED <<targets, todo, fleetRunning, fleetError, late, eventVars,
                   userVars, failures, scanOwed>>

FleetThread ==
    \/ Start \/ Check \/ Take \/ Read \/ Probe \/ Record \/ RecordedAll
    \/ Publish \/ Fail \/ Clear \/ WakeUp

-----------------------------------------------------------------------------
(* The threads around it. *)

\* Discovery adds a row (Storage.upsert_device); rows are never deleted.
Discover(d) ==
    /\ d \notin known
    /\ known' = known \cup {d}
    /\ UNCHANGED <<threadVars, eventVars, call, stopper, failures, scanOwed>>

\* POST /api/devices/{ip}/probe found the profile (404 otherwise).
ProbeNow(c, d) ==
    /\ call[c] = Idle
    /\ d \in known
    /\ call' = [call EXCEPT ![c] = [at |-> "enqueue", ip |-> d]]
    /\ UNCHANGED <<threadVars, eventVars, known, stopper, failures, scanOwed>>

\* trigger(ip), first half: manual_targets.add under queue_lock.
Enqueue(c) ==
    /\ call[c].at = "enqueue"
    /\ manualTargets' = manualTargets \cup {call[c].ip}
    /\ call' = [call EXCEPT ![c].at = "signal"]
    /\ UNCHANGED <<threadVars, stopEvent, scanEvent, known, stopper, failures,
                   scanOwed>>

\* trigger(ip), second half: scan_event.set(), and the reply "queued".
Signal(c) ==
    /\ call[c].at = "signal"
    /\ scanEvent' = TRUE
    /\ call' = [call EXCEPT ![c] = Idle]
    /\ UNCHANGED <<threadVars, stopEvent, manualTargets, known, stopper,
                   failures, scanOwed>>

\* POST /api/fleet/scan: trigger() without an address, and the reply "queued".
\* It is owed when the cycle that is running is one of single targets.
ScanNow(c) ==
    /\ call[c] = Idle
    /\ scanEvent' = TRUE
    /\ scanOwed' = (scanOwed \/ SingleTargets)
    /\ UNCHANGED <<threadVars, stopEvent, manualTargets, userVars, failures>>

\* stop(), called once by the shutdown hook: two events, one after the other.
Stop ==
    /\ stopper = "up"
    /\ stopper' = "stopping"
    /\ stopEvent' = TRUE
    /\ UNCHANGED <<threadVars, scanEvent, manualTargets, known, call, failures,
                   scanOwed>>

StopSignal ==
    /\ stopper = "stopping"
    /\ stopper' = "down"
    /\ scanEvent' = TRUE
    /\ UNCHANGED <<threadVars, stopEvent, manualTargets, known, call, failures,
                   scanOwed>>

Around ==
    \/ \E d \in Devices : Discover(d)
    \/ \E c \in Clients : \/ \E d \in Devices : ProbeNow(c, d)
                          \/ Enqueue(c) \/ Signal(c) \/ ScanNow(c)
    \/ Stop \/ StopSignal

Next == FleetThread \/ Around

Spec == Init /\ [][Next]_vars

\* The thread keeps running, and a call that has started goes on.  Nothing
\* obliges a user to ask, the LAN to show devices or the server to stop.
Fairness ==
    /\ WF_vars(FleetThread)
    /\ \A c \in Clients : WF_vars(Enqueue(c)) /\ WF_vars(Signal(c))
    /\ WF_vars(StopSignal)

FairSpec == Spec /\ Fairness

-----------------------------------------------------------------------------
(* Properties. *)

\* The requests of the running cycle: taken, and not yet recorded.
InFlight ==
    {d \in targets : \/ pc = "read"
                     \/ pc \in {"probe", "record"} /\ d \in todo}

Requests == INSTANCE ProbeRequests
                WITH asked <- manualTargets, probing <- InFlight,
                     broken <- failures

\* trigger(), _take_targets and the cycle implement the promise of
\* ProbeRequests: no request is lost to a race with the cycle or merged into
\* a probe that began before it.
RequestsKept == Requests!Spec

\* Shutdown: after stop() has set stop_event the thread takes targets for at
\* most one more cycle (it may have just passed its loop condition).
AtMostOneCycleAfterStop == late <= 1

\* Shutdown: the thread ends, although its own clear() may wipe the wake-up
\* stop() sends; the timed wait is what saves it.
StopEndsThread == stopEvent ~> pc = "done"

\* A requested private device is probed and recorded, whatever the interleaving
\* of trigger() with the cycle, unless the server stops or the error of a cycle is
\* reported.
ManualProbeServed ==
    \A d \in Private : d \in manualTargets ~> (Recording(d) \/ stopEvent \/ fleetError)

\* Once nobody asks for single devices any more, every known private device
\* is recorded again and again until the server stops.
QuietFleetIsProbed ==
    <>[](manualTargets = {} /\ \A c \in Clients : call[c] = Idle) =>
        \A d \in Private : [](d \in known => <>(Recording(d) \/ stopEvent))

\* A full scan that was accepted while single devices were probed, and that no full
\* cycle has begun to serve, is still signalled when the thread goes to sleep (the
\* reply says "queued").
QueuedScanIsKept == (pc = "wait" /\ scanOwed) => scanEvent
=============================================================================
