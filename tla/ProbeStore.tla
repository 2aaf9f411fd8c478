------------------------------ MODULE ProbeStore ------------------------------
(***************************************************************************)
(* What a probe result does to the database: Storage.record_device_probe   *)
(* (sentinel/storage.py), with prune_history and the clock beside it.      *)
(*                                                                         *)
(* Only the fleet thread records results, one after the other.  A call     *)
(* reads the clock, waits for the lock, and is then one transaction that   *)
(* stores the sample and the service rows, followed by up to three notices *)
(* (a state alert, a service alert, an event) in transactions of their     *)
(* own; an alert is preceded by a query for a recent alert of the same     *)
(* title.  An exception or the end of the process may strike in between:   *)
(* the tables survive, the rest of the call does not.  The transaction     *)
(* also sets devices.last_seen, which nothing here reads: it is left out.  *)
(***************************************************************************)
EXTENDS Naturals, FiniteSets

CONSTANTS
    Devices,            \* addresses of the devices table
    Ports,              \* the monitored TCP ports
    StateCooldown,      \* 300 s between alerts of one state of one device
    ServiceCooldown,    \* 600 s between service alerts of one device
    MaxNamed,           \* 8 services are named in an alert
    Retention,          \* history_retention_days, in the same unit
    MaxTime,            \* bound on the clock
    MayAbort            \* whether a call may be cut short

ASSUME TimesAssumption ==
    /\ StateCooldown \in Nat /\ ServiceCooldown \in Nat
    /\ Retention \in Nat /\ MaxTime \in Nat
ASSUME NamedAssumption == MaxNamed \in Nat
ASSUME AbortAssumption == MayAbort \in BOOLEAN

VARIABLES
    now,        \* time.time()
    sample,     \* the newest row of device_samples of each device
    service,    \* device_services: the row of each port
    last,       \* alerts: the time of the newest one of each kind
    pc,         \* where the fleet thread is in record_device_probe
    call,       \* the locals of that call
    met         \* history: devices probed at least once

tables == <<sample, service, last>>
vars == <<now, tables, pc, call, met>>

Offline == "device_offline"
Online  == "device_online"
Added   == "device_service_added"
Kinds == {Offline, Online, Added}

\* What recent_alert is asked for.
Cooldown(k) == IF k = Added THEN ServiceCooldown ELSE StateCooldown

Never == 0                          \* the clock starts at 1
NoSample == [at |-> Never, online |-> FALSE, ports |-> {}]
NoCall == [dev |-> "none", at |-> Never, online |-> FALSE, open |-> {},
           change |-> "none", added |-> {}, fresh |-> {}, listed |-> {}]

Samples == [at : Nat, online : BOOLEAN, ports : SUBSET Ports]
Rows == {"absent", "active", "inactive"}
\* fresh and listed are history: the added services that had no row before,
\* and those an alert of this call names.
Calls == [dev : Devices, at : Nat \ {0}, online : BOOLEAN, open : SUBSET Ports,
          change : {"none", Offline, Online}, added : SUBSET Ports, fresh : SUBSET Ports, listed : SUBSET Ports]
Steps == {"store", "check_state", "add_state", "check_service", "add_service", "finish"}

Active(d) == {p \in Ports : service[d][p] = "active"}
HasSample(d) == sample[d].at # Never

TypeOK ==
    /\ now \in Nat \ {0}
    /\ sample \in [Devices -> Samples]
    /\ service \in [Devices -> [Ports -> Rows]]
    /\ last \in [Kinds -> [Devices -> Nat]]
    /\ \/ pc = "idle" /\ call = NoCall
       \/ pc \in Steps /\ call \in Calls
    /\ pc = "add_state" => call.change # "none"
    /\ pc = "add_service" => call.added # {}
    /\ met \subseteq Devices

Init ==
    /\ now = 1
    /\ sample = [d \in Devices |-> NoSample]
    /\ service = [d \in Devices |-> [p \in Ports |-> "absent"]]
    /\ last = [k \in Kinds |-> [d \in Devices |-> Never]]
    /\ pc = "idle"
    /\ call = NoCall
    /\ met = {}

-----------------------------------------------------------------------------
(* The call. *)

\* Mutant: the rows are not reset before the open ports are marked.
MarkedOver(d, online, open) ==
    [p \in Ports |-> IF p \in open THEN "active" ELSE service[d][p]]

\* Mutant: an unanswered probe closes the services too.
MarkedAlways(d, online, open) ==
    [p \in Ports |-> IF p \in open THEN "active"
                     ELSE IF service[d][p] = "active" THEN "inactive"
                     ELSE service[d][p]]

\* The service rows of a device after a probe: those of a device that answered
\* are reset, then the open ports are marked.
Marked(d, online, open) ==
    [p \in Ports |-> IF p \in open THEN "active"
                     ELSE IF online /\ service[d][p] = "active" THEN "inactive"
                     ELSE service[d][p]]

\* record_device_probe is called: it reads the clock, and waits for the lock.  A
\* probe finds open ports only on a device that answered.
Begin(d, online, open) ==
    /\ pc = "idle"
    /\ ~online => open = {}
    /\ pc' = "store"
    /\ call' = [NoCall EXCEPT !.dev = d, !.at = now, !.online = online, !.open = open]
    /\ UNCHANGED <<now, tables, met>>

\* The first transaction: the sample and, for a device that answered, its
\* service rows; what changed is left in the call's locals.  A device without
\* an earlier sample has nothing to compare with.
Commit(d) ==
    /\ pc = "store"
    /\ d = call.dev
    /\ pc' = "check_state"
    /\ call' =
         [call EXCEPT
          !.change = IF HasSample(d) /\ sample[d].online # call.online
                     THEN IF call.online THEN Online ELSE Offline
                     ELSE "none",
          !.added  = IF HasSample(d) THEN call.open \ Active(d) ELSE {},
          !.fresh  = {p \in call.open : d \in met /\ service[d][p] = "absent"}]
    /\ sample' = [sample EXCEPT ![d] =
                    [at |-> call.at, online |-> call.online, ports |-> call.open]]
    /\ service' = [service EXCEPT ![d] = Marked(d, call.online, call.open)]
    /\ met' = met \cup {d}
    /\ UNCHANGED <<now, last>>

\* Mutant: the cutoff itself is left out.
RecentStrictly(k, d) == last[k][d] # Never /\ last[k][d] + Cooldown(k) > now

\* Mutant: the query does not look at the kind.
RecentOfAnyKind(k, d) ==
    \E j \in Kinds : last[j][d] # Never /\ last[j][d] + Cooldown(k) >= now

\* recent_alert: some alert of this kind and device is within the cooldown.
Recent(k, d) == last[k][d] # Never /\ last[k][d] + Cooldown(k) >= now

AddAlert(k) == last' = [last EXCEPT ![k][call.dev] = now]

CheckState ==
    /\ pc = "check_state"
    /\ pc' = IF call.change # "none" /\ ~Recent(call.change, call.dev)
             THEN "add_state" ELSE "check_service"
    /\ UNCHANGED <<now, tables, call, met>>

AddState ==
    /\ pc = "add_state"
    /\ pc' = "check_service"
    /\ AddAlert(call.change)
    /\ UNCHANGED <<now, sample, service, call, met>>

\* Mutant: the cooldown alone decides.
CheckServiceAlways ==
    /\ pc = "check_service"
    /\ pc' = IF Recent(Added, call.dev) THEN "finish" ELSE "add_service"
    /\ UNCHANGED <<now, tables, call, met>>

CheckService ==
    /\ pc = "check_service"
    /\ pc' = IF call.added # {} /\ ~Recent(Added, call.dev)
             THEN "add_service" ELSE "finish"
    /\ UNCHANGED <<now, tables, call, met>>

\* One alert for all the new services; its text names the first of them.
AddService ==
    /\ pc = "add_service"
    /\ pc' = "finish"
    /\ AddAlert(Added)
    /\ \E named \in SUBSET call.added :
          /\ named = call.added \/ Cardinality(named) = MaxNamed
          /\ Cardinality(named) <= MaxNamed
          /\ call' = [call EXCEPT !.listed = named]
    /\ UNCHANGED <<now, sample, service, met>>

\* The return.  (The event for services that are gone, written just before it,
\* touches none of these tables.)
Finish ==
    /\ pc = "finish"
    /\ pc' = "idle"
    /\ call' = NoCall
    /\ UNCHANGED <<now, tables, met>>

\* An exception between two transactions, or the end of the process.
Abort ==
    /\ MayAbort
    /\ pc # "idle"
    /\ pc' = "idle"
    /\ call' = NoCall
    /\ UNCHANGED <<now, tables, met>>

-----------------------------------------------------------------------------
(* Beside the call. *)

\* prune_history, run by the intelligence thread at its start and then hourly:
\* samples older than the retention go, service rows and alerts stay.
Prune ==
    /\ sample' = [d \in Devices |->
                    IF sample[d].at + Retention < now THEN NoSample
                    ELSE sample[d]]
    /\ sample' # sample
    /\ UNCHANGED <<now, service, last, pc, call, met>>

Tick ==
    /\ now < MaxTime
    /\ now' = now + 1
    /\ UNCHANGED <<tables, pc, call, met>>

Next ==
    \/ \E d \in Devices, online \in BOOLEAN, open \in SUBSET Ports :
           Begin(d, online, open)
    \/ \E d \in Devices : Commit(d)
    \/ CheckState \/ AddState \/ CheckService \/ AddService \/ Finish
    \/ Abort \/ Prune \/ Tick

Spec == Init /\ [][Next]_vars

-----------------------------------------------------------------------------
(* Properties. *)

\* The dashboard joins the newest sample with the active service rows: for a
\* device that answered they tell the same, whatever was aborted or pruned.
SampleMatchesServices ==
    \A d \in Devices : sample[d].online => sample[d].ports = Active(d)

\* When a call returns, each change it stored has its alert: one the call
\* added, or one whose cooldown covered the moment of the change.
ChangesAreCovered ==
    pc = "finish" =>
        \A k \in Kinds :
            k = call.change \/ (k = Added /\ call.added # {}) =>
                /\ last[k][call.dev] # Never
                /\ last[k][call.dev] + Cooldown(k) >= call.at

\* Two alerts of one kind about one device are further apart than the cooldown,
\* although query and insert are separate transactions.
AlertsAreSpaced ==
    [][\A k \in Kinds, d \in Devices :
          last'[k][d] # last[k][d] /\ last[k][d] # Never =>
              last'[k][d] > last[k][d] + Cooldown(k)]_vars

\* A service is given up only on the evidence of a probe that was answered.
ServicesCloseOnEvidence ==
    [][\A d \in Devices, p \in Ports :
          service[d][p] = "active" /\ service'[d][p] # "active" =>
              sample'[d].online /\ p \notin sample'[d].ports]_vars

\* A call that stores a service never seen before on a device that was probed
\* before has raised an alert that names it.
NewServicesAreListed == pc = "finish" => call.fresh \subseteq call.listed
=============================================================================
