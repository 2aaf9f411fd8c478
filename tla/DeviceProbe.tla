------------------------------ MODULE DeviceProbe ------------------------------
(***************************************************************************)
(* What FleetScheduler takes for one step: probe_devices and probe_device  *)
(* (sentinel/collectors/device_probe.py), and parse_ports for the list of  *)
(* ports.  A pool of workers probes the devices of a batch; each probe     *)
(* pings, tries the liveness ports in turn when nobody answered, and then  *)
(* connects to the monitored ports from a pool of its own, in whatever     *)
(* order.  Meanwhile devices come, go, and open and close their ports.     *)
(* Addresses that are not private are dropped before the pool is filled.   *)
(* An exception in a probe costs its result, one of the pool the batch.    *)
(***************************************************************************)
EXTENDS Naturals, Sequences, FiniteSets

CONSTANTS
    Devices,        \* the private addresses of the devices table
    Hosts,          \* how a device may behave: [ping, tcp], tcp per port
    Setting,        \* the numbers in SENTINEL_DEVICE_SERVICE_PORTS, 0 for a token that is none
    DefaultPorts,   \* DEFAULT_PORTS
    MaxPort,        \* 65535
    LivenessPorts,  \* LIVENESS_PORTS, in their order
    Workers,        \* settings.device_probe_workers
    MaxChanges,     \* bound on the changes of devices during one batch
    MaxFailures     \* bound on the exceptions of a behaviour

\* Mutant: only the lower end of the range is checked.
ParsePortsAbove(tokens) ==
    LET valid == {t \in tokens : 1 <= t}
    IN  IF valid = {} THEN DefaultPorts ELSE valid

\* parse_ports: what is not a port is skipped, and an empty list replaced.
ParsePorts(tokens) ==
    LET valid == {t \in tokens : 1 <= t /\ t <= MaxPort}
    IN  IF valid = {} THEN DefaultPorts ELSE valid

Ports == ParsePorts(Setting)
Live == {LivenessPorts[i] : i \in DOMAIN LivenessPorts}
Statuses == {"open", "refused", "silent"}

ASSUME DevicesFinite == IsFiniteSet(Devices)
ASSUME PortsAssumption ==
    /\ MaxPort \in Nat /\ Setting \subseteq Nat
    /\ DefaultPorts \subseteq 1..MaxPort /\ DefaultPorts # {}
    /\ LivenessPorts \in Seq(1..MaxPort) /\ LivenessPorts # <<>>
ASSUME HostsAssumption ==
    Hosts # {} /\ Hosts \subseteq [ping : BOOLEAN, tcp : [Ports \cup Live -> Statuses]]
ASSUME NumbersAssumption == Workers \in Nat \ {0} /\ MaxChanges \in Nat /\ MaxFailures \in Nat

VARIABLES
    host,       \* how each device behaves now
    stage,      \* where the probe of each device is
    next,       \* the position of the liveness port it tries
    unchecked,  \* the monitored ports it has still to connect to
    open,       \* those that were open
    result,     \* results of the batch
    raised,     \* the call will end with an exception
    sometimes,  \* history: what the device did at some time since its probe began
    always,     \* history: what it did all the time
    changes,
    failures

probe == <<stage, next, unchecked, open, result>>
history == <<sometimes, always>>
vars == <<host, probe, raised, history, changes, failures>>

Stages == {"idle", "queued", "ping", "liveness", "services", "done"}
NoResult == [online |-> FALSE, services |-> {}, error |-> FALSE]
ErrorResult == [online |-> FALSE, services |-> {}, error |-> TRUE]

\* What a device does, as far as a probe can tell.
Signals(h) == {<<"ping", 0>> : x \in {y \in {0} : h.ping}}
              \cup {<<"answers", p>> : p \in {q \in Ports \cup Live : h.tcp[q] # "silent"}}
              \cup {<<"open", p>> : p \in {q \in Ports \cup Live : h.tcp[q] = "open"}}
AllSignals == {<<"ping", 0>>} \cup {"answers", "open"} \X (Ports \cup Live)

TypeOK ==
    /\ host \in [Devices -> Hosts]
    /\ stage \in [Devices -> Stages]
    /\ next \in [Devices -> DOMAIN LivenessPorts]
    /\ unchecked \in [Devices -> SUBSET (1..MaxPort)]
    /\ open \in [Devices -> SUBSET (1..MaxPort)]
    /\ result \in [Devices -> [online : BOOLEAN, services : SUBSET (1..MaxPort), error : BOOLEAN]]
    /\ raised \in BOOLEAN
    /\ sometimes \in [Devices -> SUBSET AllSignals]
    /\ always \in [Devices -> SUBSET AllSignals]
    /\ changes \in 0..MaxChanges
    /\ failures \in 0..MaxFailures

Init ==
    /\ host \in [Devices -> Hosts]
    /\ stage = [d \in Devices |-> "idle"]
    /\ next = [d \in Devices |-> 1]
    /\ unchecked = [d \in Devices |-> {}]
    /\ open = [d \in Devices |-> {}]
    /\ result = [d \in Devices |-> NoResult] /\ raised = FALSE
    /\ sometimes = [d \in Devices |-> {}] /\ always = [d \in Devices |-> {}]
    /\ changes = 0 /\ failures = 0

-----------------------------------------------------------------------------
(* The batch. *)

Running == {d \in Devices : stage[d] \in {"ping", "liveness", "services"}}

\* probe_devices is called: every device of the batch is submitted.
Submit(batch) ==
    /\ ~raised
    /\ \A d \in Devices : stage[d] = "idle"
    /\ stage' = [d \in Devices |-> IF d \in batch THEN "queued" ELSE "idle"]
    /\ changes' = 0
    /\ UNCHANGED <<host, next, unchecked, open, result, raised, history, failures>>

\* The pool gets no thread for one of them: those submitted so far are probed by the
\* threads it has, which the end of the with block waits for.
SubmitFails(part) ==
    /\ ~raised
    /\ failures < MaxFailures
    /\ \A d \in Devices : stage[d] = "idle"
    /\ stage' = [d \in Devices |-> IF d \in part THEN "queued" ELSE "idle"]
    /\ changes' = 0
    /\ raised' = TRUE
    /\ failures' = failures + 1
    /\ UNCHANGED <<host, next, unchecked, open, result, history>>

\* A worker takes a device.
Start(d) ==
    /\ stage[d] = "queued"
    /\ Cardinality(Running) < Workers
    /\ stage' = [stage EXCEPT ![d] = "ping"]
    /\ sometimes' = [sometimes EXCEPT ![d] = Signals(host[d])]
    /\ always' = [always EXCEPT ![d] = Signals(host[d])]
    /\ UNCHANGED <<host, next, unchecked, open, result, raised, changes, failures>>

\* No probe is under way any more: the results go to the caller, or are lost with
\* the exception; the rest is forgotten.
Return ==
    /\ raised \/ \E d \in Devices : stage[d] = "done"
    /\ \A d \in Devices : stage[d] \in {"idle", "done"}
    /\ stage' = [d \in Devices |-> "idle"]
    /\ result' = [d \in Devices |-> NoResult]
    /\ raised' = FALSE
    /\ sometimes' = [d \in Devices |-> {}] /\ always' = [d \in Devices |-> {}]
    /\ UNCHANGED <<host, next, unchecked, open, changes, failures>>

\* The probe of a device ends with a result.
Finish(d, r) ==
    /\ stage' = [stage EXCEPT ![d] = "done"]
    /\ result' = [result EXCEPT ![d] = r]
    /\ next' = [next EXCEPT ![d] = 1]
    /\ unchecked' = [unchecked EXCEPT ![d] = {}]
    /\ open' = [open EXCEPT ![d] = {}]

\* The device has answered: its monitored ports are looked at.
Answered(d) ==
    /\ stage' = [stage EXCEPT ![d] = "services"]
    /\ unchecked' = [unchecked EXCEPT ![d] = Ports]
    /\ next' = [next EXCEPT ![d] = 1]
    /\ UNCHANGED <<open, result>>

Ping(d) ==
    /\ stage[d] = "ping"
    /\ \/ host[d].ping /\ Answered(d)
       \/ /\ ~host[d].ping
          /\ stage' = [stage EXCEPT ![d] = "liveness"]
          /\ UNCHANGED <<next, unchecked, open, result>>
    /\ UNCHANGED <<host, raised, history, changes, failures>>

\* Mutant: only an open port counts as an answer.
RespondedOpen(d, p) == host[d].tcp[p] = "open"

\* _tcp_status: a refused connection is an answer, too.
Responded(d, p) == host[d].tcp[p] \in {"open", "refused"}

\* Mutant: a port that does not answer is tried again.
TryLivenessAgain(d) ==
    /\ stage[d] = "liveness"
    /\ \/ Responded(d, LivenessPorts[next[d]]) /\ Answered(d)
       \/ ~Responded(d, LivenessPorts[next[d]]) /\ UNCHANGED probe
    /\ UNCHANGED <<host, raised, history, changes, failures>>

\* One of LIVENESS_PORTS after the other, until one answers.
TryLiveness(d) ==
    /\ stage[d] = "liveness"
    /\ \/ Responded(d, LivenessPorts[next[d]]) /\ Answered(d)
       \/ /\ ~Responded(d, LivenessPorts[next[d]])
          /\ next[d] < Len(LivenessPorts)
          /\ next' = [next EXCEPT ![d] = @ + 1]
          /\ UNCHANGED <<stage, unchecked, open, result>>
       \/ /\ ~Responded(d, LivenessPorts[next[d]])
          /\ next[d] = Len(LivenessPorts)
          /\ Finish(d, NoResult)
    /\ UNCHANGED <<host, raised, history, changes, failures>>

\* check(port), from the probe's own pool.
CheckPort(d, p) ==
    /\ p \in unchecked[d]
    /\ unchecked' = [unchecked EXCEPT ![d] = @ \ {p}]
    /\ open' = [open EXCEPT ![d] = IF host[d].tcp[p] = "open" THEN @ \cup {p} ELSE @]
    /\ UNCHANGED <<host, stage, next, result, raised, history, changes, failures>>

Checked(d) ==
    /\ stage[d] = "services"
    /\ unchecked[d] = {}
    /\ Finish(d, [online |-> TRUE, services |-> open[d], error |-> FALSE])
    /\ UNCHANGED <<host, raised, history, changes, failures>>

\* Mutant: one handler around the batch: the exception costs all that are not done.
FailBatch(d) ==
    /\ stage[d] \in {"liveness", "services"}
    /\ failures < MaxFailures
    /\ failures' = failures + 1
    /\ stage' = [e \in Devices |-> IF stage[e] = "idle" THEN "idle" ELSE "done"]
    /\ result' = [e \in Devices |-> IF stage[e] \in {"idle", "done"} THEN result[e]
                                   ELSE ErrorResult]
    /\ UNCHANGED <<host, next, unchecked, open, raised, history, changes>>

\* A probe finds no socket, or no thread for its own pool: the exception becomes
\* an offline result of this device alone.
Fail(d) ==
    /\ stage[d] \in {"liveness", "services"}
    /\ failures < MaxFailures
    /\ failures' = failures + 1
    /\ Finish(d, ErrorResult)
    /\ UNCHANGED <<host, raised, history, changes>>

\* A device changes: it goes away, comes back, opens or closes a port.
Change(d, h) ==
    /\ changes < MaxChanges
    /\ d \in Running
    /\ host[d] # h
    /\ changes' = changes + 1
    /\ host' = [host EXCEPT ![d] = h]
    /\ sometimes' = [sometimes EXCEPT ![d] = @ \cup Signals(h)]
    /\ always' = [always EXCEPT ![d] = @ \cap Signals(h)]
    /\ UNCHANGED <<probe, raised, failures>>

Step(d) == Start(d) \/ Ping(d) \/ TryLiveness(d) \/ Checked(d) \/ \E p \in Ports : CheckPort(d, p)

Next ==
    \/ \E batch \in (SUBSET Devices) \ {{}} : Submit(batch)
    \/ \E part \in SUBSET Devices : SubmitFails(part)
    \/ Return
    \/ \E d \in Devices : Step(d) \/ Fail(d) \/ \E h \in Hosts : Change(d, h)

Spec == Init /\ [][Next]_vars

\* The pool's threads go on: every call of a probe has a time-out.
FairSpec == Spec /\ WF_vars(Return) /\ \A d \in Devices : WF_vars(Step(d))

-----------------------------------------------------------------------------
(* Properties. *)

\* A device that answers a ping or one of the liveness ports, as seen in s.
Visible(s) == <<"ping", 0>> \in s \/ \E p \in Live : <<"answers", p>> \in s
OpenIn(s) == {p \in Ports : <<"open", p>> \in s}

\* The result describes the device however it changed while it was probed: who
\* was visible all the time is online, who is online was visible at some time,
\* and the services lie between those always and those sometimes open.
ResultDescribesDevice ==
    \A d \in Devices : stage[d] = "done" /\ ~result[d].error =>
        /\ Visible(always[d]) => result[d].online
        /\ result[d].online => Visible(sometimes[d]) /\ OpenIn(always[d]) \subseteq result[d].services
        /\ result[d].services \subseteq OpenIn(sometimes[d])
        /\ result[d].services # {} => result[d].online

\* An exception in a probe costs the result of one device: no other one is
\* reported offline although it was visible all the time.
FailuresAreIsolated ==
    Cardinality({d \in Devices : /\ stage[d] = "done"
                                 /\ ~result[d].online
                                 /\ Visible(always[d])}) <= failures

\* The call returns, whatever the devices do and also when it is to raise: every
\* device gets its turn at a worker, and the liveness pass ends.
BatchReturns == \A d \in Devices : stage[d] = "queued" ~> stage[d] = "idle"

\* A device with a monitored service open all the time is not reported offline.
MonitoredServiceCounts ==
    \A d \in Devices : stage[d] = "done" /\ ~result[d].error /\ OpenIn(always[d]) # {} =>
        result[d].online
=============================================================================
