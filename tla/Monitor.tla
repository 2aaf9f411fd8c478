------------------------------- MODULE Monitor -------------------------------
(***************************************************************************)
(* The host monitor and its behaviour baseline: MonitorWorker              *)
(* (sentinel/worker.py), process_listeners and process_connection_spike    *)
(* (detectors.py), process_communications (intelligence.py), and the       *)
(* tables they keep (storage.py).                                          *)
(*                                                                         *)
(* A cycle takes the sockets of the host and stores them row by row; each  *)
(* row and each alert is a transaction of its own.  An error skips the     *)
(* rest of the cycle, a restart of the program forgets everything but the  *)
(* tables.                                                                 *)
(***************************************************************************)
EXTENDS Integers, FiniteSets

CONSTANTS
    Processes,
    Unknown,            \* the name given to sockets without a process
    Public, Private,    \* remote endpoints
    AddressOf,          \* the address of each public one
    Listeners,          \* listening sockets
    Scans,              \* what psutil may return, sets of sockets
    SpikeThreshold, FanoutThreshold, ChurnThreshold,
    MaxFailures,        \* bound on the errors of a behaviour
    MaxRestarts         \* bound on its restarts

Pairs == Processes \X (Public \cup Private)
Sockets == Listeners \cup Pairs

ASSUME ProcessAssumption == Unknown \in Processes
ASSUME RemoteAssumption == Public \cap Private = {} /\ DOMAIN AddressOf = Public
\* A row, a process and a listener are never mistaken for each other.
ASSUME NamesAssumption ==
    /\ Processes \cap Sockets = {}
    /\ "none" \notin Processes \cup Listeners
ASSUME ScanAssumption ==
    /\ Listeners \cap Pairs = {}
    /\ Scans \subseteq SUBSET Sockets /\ \A s \in Scans : IsFiniteSet(s)
ASSUME ThresholdAssumption ==
    {SpikeThreshold, FanoutThreshold, ChurnThreshold} \subseteq Nat \ {0}
ASSUME BoundAssumption == MaxFailures \in Nat /\ MaxRestarts \in Nat

VARIABLES
    processes,          \* the processes table
    endpoints,          \* the communications table
    listening,          \* the listeners table
    current,            \* endpoints with a last_seen of this cycle
    recent,             \* endpoints with a last_seen of this cycle or of the one before
    announced,          \* alerts "new process" and "new listener" stored for each
    cooling,            \* alerts younger than the cooldown of their kind
    quiet,              \* history: processes learnt during a warm-up
    pc,                 \* where MonitorWorker.run is
    scan,               \* the connections of the cycle
    todo,               \* what the loop it is in has still to go through
    ready,              \* baseline_ready, read at the start of the cycle
    fresh,              \* endpoints that were new to this cycle
    news,               \* row stored, alert not yet decided on
    spiked,             \* this cycle stored a spike alert
    previous,           \* previous_connection_count, NotYet for None
    shown,              \* runtime.data["connections"]
    error,              \* runtime.data["error"] is not None
    warm,               \* the warm-up is over
    stopEvent,
    failures, restarts

lastSeen == <<current, recent>>
tables == <<processes, endpoints, listening, lastSeen>>
alerts == <<announced, cooling, quiet>>
cycle == <<scan, todo, ready, fresh, news, spiked>>
runtime == <<shown, error>>
bounds == <<failures, restarts>>
vars == <<tables, alerts, pc, cycle, previous, runtime, warm, stopEvent, bounds>>

NotYet == -1
NoNews == "none"
AnomalyKinds == {"process", "fanout", "churn"}

TypeOK ==
    /\ processes \subseteq Processes
    /\ endpoints \subseteq Processes \X Public
    /\ listening \subseteq Listeners
    /\ current \subseteq recent /\ recent \subseteq endpoints
    /\ announced \in [Processes \cup Listeners -> Nat]
    /\ cooling \subseteq AnomalyKinds \X (Processes \ {Unknown}) \cup {"fanout", "churn"} \X {Unknown}
    /\ quiet \subseteq processes
    /\ pc \in {"check", "collect", "listeners", "rows", "fanout", "churn", "wait", "done"}
    /\ scan \in Scans \cup {{}}
    /\ todo \subseteq Sockets \cup Processes
    /\ ready \in BOOLEAN
    /\ fresh \subseteq endpoints
    /\ news \in Processes \cup Listeners \cup {NoNews}
    /\ spiked \in BOOLEAN
    /\ previous \in Nat \cup {NotYet}
    /\ shown \in Scans \cup {{}}
    /\ error \in BOOLEAN
    /\ warm \in BOOLEAN
    /\ stopEvent \in BOOLEAN
    /\ failures \in 0..MaxFailures
    /\ restarts \in 0..MaxRestarts

Init ==
    /\ processes = {} /\ endpoints = {} /\ listening = {}
    /\ current = {} /\ recent = {}
    /\ announced = [x \in Processes \cup Listeners |-> 0]
    /\ cooling = {} /\ quiet = {}
    /\ pc = "check"
    /\ scan = {} /\ todo = {} /\ ready = FALSE /\ fresh = {} /\ news = NoNews
    /\ spiked = FALSE /\ previous = NotYet
    /\ shown = {} /\ error = FALSE
    /\ warm = FALSE /\ stopEvent = FALSE
    /\ failures = 0 /\ restarts = 0

-----------------------------------------------------------------------------
(* A cycle. *)

\* A cycle begins, unless stop() was called: what was of this cycle is of the last.
Check ==
    /\ pc = "check"
    /\ IF stopEvent
       THEN pc' = "done" /\ UNCHANGED lastSeen
       ELSE pc' = "collect" /\ recent' = current /\ current' = {}
    /\ UNCHANGED <<processes, endpoints, listening, alerts, cycle, previous, runtime,
                   warm, stopEvent, bounds>>

\* The sockets of the host, and whether the baseline is ready.
Collect(s) ==
    /\ pc = "collect"
    /\ scan' = s
    /\ todo' = s \cap Listeners
    /\ ready' = warm
    /\ pc' = "listeners"
    /\ UNCHANGED <<tables, alerts, fresh, news, spiked, previous, runtime, warm,
                   stopEvent, bounds>>

\* Mutant: listeners, too, are announced after the warm-up only.
StoreListenerReady(l) ==
    /\ pc = "listeners" /\ news = NoNews
    /\ l \in todo
    /\ todo' = todo \ {l}
    /\ listening' = listening \cup {l}
    /\ news' = IF l \in listening \/ ~ready THEN NoNews ELSE l
    /\ UNCHANGED <<processes, endpoints, lastSeen, alerts, pc, scan, ready, fresh,
                   spiked, previous, runtime, warm, stopEvent, bounds>>

\* upsert_listener; a new row is news.
StoreListener(l) ==
    /\ pc = "listeners" /\ news = NoNews
    /\ l \in todo
    /\ todo' = todo \ {l}
    /\ listening' = listening \cup {l}
    /\ news' = IF l \in listening THEN NoNews ELSE l
    /\ UNCHANGED <<processes, endpoints, lastSeen, alerts, pc, scan, ready, fresh,
                   spiked, previous, runtime, warm, stopEvent, bounds>>

\* Mutant: every socket with a remote address counts.
ExternalAll == scan \cap Pairs

\* external_connections: sockets with a public remote address.
External == scan \cap (Processes \X Public)

IsSpike == previous # NotYet /\ Cardinality(scan) - previous >= SpikeThreshold

\* Mutant: the count is remembered before the cycle is through.
SpikeRemembers ==
    /\ pc = "listeners" /\ news = NoNews
    /\ todo = {}
    /\ spiked' = IsSpike
    /\ previous' = Cardinality(scan)
    /\ todo' = External
    /\ pc' = "rows"
    /\ UNCHANGED <<tables, alerts, scan, ready, fresh, news, runtime, warm,
                   stopEvent, bounds>>

\* process_connection_spike, after the last listener.
Spike ==
    /\ pc = "listeners" /\ news = NoNews
    /\ todo = {}
    /\ spiked' = IsSpike
    /\ todo' = External
    /\ pc' = "rows"
    /\ UNCHANGED <<tables, alerts, scan, ready, fresh, news, previous, runtime, warm,
                   stopEvent, bounds>>

\* Mutant: a process is new when none of its endpoints is known.
IsNewWithoutEndpoint(p) == \A e \in endpoints : e[1] # p

IsNew(p) == p \notin processes

\* Mutant: only a new row gets a last_seen.
StoreRowOnce(row) ==
    /\ pc = "rows" /\ news = NoNews
    /\ row \in todo
    /\ todo' = todo \ {row}
    /\ processes' = processes \cup {row[1]}
    /\ endpoints' = endpoints \cup {row}
    /\ current' = IF row \in endpoints THEN current ELSE current \cup {row}
    /\ recent' = IF row \in endpoints THEN recent ELSE recent \cup {row}
    /\ fresh' = IF row \in endpoints THEN fresh ELSE fresh \cup {row}
    /\ quiet' = IF IsNew(row[1]) /\ ~ready THEN quiet \cup {row[1]} ELSE quiet
    /\ news' = IF ready /\ IsNew(row[1]) /\ row[1] # Unknown THEN row[1] ELSE NoNews
    /\ UNCHANGED <<listening, announced, cooling, pc, scan, ready, spiked, previous,
                   runtime, warm, stopEvent, bounds>>

\* upsert_communication: process and endpoint in one transaction.
StoreRow(row) ==
    /\ pc = "rows" /\ news = NoNews
    /\ row \in todo
    /\ todo' = todo \ {row}
    /\ processes' = processes \cup {row[1]}
    /\ endpoints' = endpoints \cup {row}
    /\ current' = current \cup {row} /\ recent' = recent \cup {row}
    /\ fresh' = IF row \in endpoints THEN fresh ELSE fresh \cup {row}
    /\ quiet' = IF IsNew(row[1]) /\ ~ready THEN quiet \cup {row[1]} ELSE quiet
    /\ news' = IF ready /\ IsNew(row[1]) /\ row[1] # Unknown THEN row[1] ELSE NoNews
    /\ UNCHANGED <<listening, announced, cooling, pc, scan, ready, spiked, previous,
                   runtime, warm, stopEvent, bounds>>

\* The alert for a new row; one for a process only outside its cooldown.
Announce ==
    /\ news # NoNews
    /\ news' = NoNews
    /\ IF <<"process", news>> \in cooling THEN UNCHANGED <<announced, cooling>>
       ELSE /\ announced' = [announced EXCEPT ![news] = @ + 1]
            /\ cooling' = IF news \in Processes THEN cooling \cup {<<"process", news>>}
                          ELSE cooling
    /\ UNCHANGED <<tables, quiet, pc, scan, todo, ready, fresh, spiked, previous,
                   runtime, warm, stopEvent, bounds>>

\* The processes with many addresses in this cycle, and with many new endpoints.
FannedOut ==
    {p \in Processes :
        Cardinality({AddressOf[row[2]] : row \in {e \in External : e[1] = p}})
            >= FanoutThreshold}
Churning ==
    {p \in Processes : Cardinality({e \in fresh : e[1] = p}) >= ChurnThreshold}

\* After the last row: the fan-out of each process, then its churn.  During the
\* warm-up there is neither.
RowsDone ==
    /\ pc = "rows" /\ news = NoNews
    /\ todo = {}
    /\ todo' = IF ready THEN FannedOut ELSE {}
    /\ pc' = "fanout"
    /\ UNCHANGED <<tables, alerts, scan, ready, fresh, news, spiked, previous, runtime,
                   warm, stopEvent, bounds>>

FanoutDone ==
    /\ pc = "fanout"
    /\ todo = {}
    /\ todo' = IF ready THEN Churning ELSE {}
    /\ pc' = "churn"
    /\ UNCHANGED <<tables, alerts, scan, ready, fresh, news, spiked, previous, runtime,
                   warm, stopEvent, bounds>>

Anomaly(p) ==
    /\ pc \in {"fanout", "churn"}
    /\ p \in todo
    /\ todo' = todo \ {p}
    /\ cooling' = cooling \cup {<<pc, p>>}
    /\ UNCHANGED <<tables, announced, quiet, pc, scan, ready, fresh, news, spiked,
                   previous, runtime, warm, stopEvent, bounds>>

\* The dashboard gets the cycle in one step; its locals are gone.  Of more than a
\* thousand sockets it gets the first thousand, which is left out.
Publish ==
    /\ pc = "churn"
    /\ todo = {}
    /\ previous' = Cardinality(scan)
    /\ shown' = scan
    /\ error' = FALSE
    /\ scan' = {} /\ ready' = FALSE /\ fresh' = {} /\ spiked' = FALSE
    /\ pc' = "wait"
    /\ UNCHANGED <<tables, alerts, todo, news, warm, stopEvent, bounds>>

\* The wait ends with the interval, or with stop().
WakeUp ==
    /\ pc = "wait"
    /\ pc' = "check"
    /\ UNCHANGED <<tables, alerts, cycle, previous, runtime, warm, stopEvent, bounds>>

\* Mutant: the thread ends with the error, as the packet sensor's does when sniff
\* raises one.
FailEnds ==
    /\ pc \in {"collect", "listeners", "rows", "fanout", "churn"}
    /\ failures < MaxFailures
    /\ failures' = failures + 1
    /\ error' = TRUE
    /\ scan' = {} /\ todo' = {} /\ ready' = FALSE /\ fresh' = {} /\ news' = NoNews
    /\ spiked' = FALSE
    /\ pc' = "done"
    /\ UNCHANGED <<tables, alerts, previous, shown, warm, stopEvent, restarts>>

\* An error of psutil or of the database.
Fail ==
    /\ pc \in {"collect", "listeners", "rows", "fanout", "churn"}
    /\ failures < MaxFailures
    /\ failures' = failures + 1
    /\ error' = TRUE
    /\ scan' = {} /\ todo' = {} /\ ready' = FALSE /\ fresh' = {} /\ news' = NoNews
    /\ spiked' = FALSE
    /\ pc' = "wait"
    /\ UNCHANGED <<tables, alerts, previous, shown, warm, stopEvent, restarts>>

Work ==
    \/ Check \/ Spike \/ Announce \/ RowsDone \/ FanoutDone \/ Publish \/ WakeUp
    \/ \E s \in Scans : Collect(s)
    \/ \E l \in Listeners : StoreListener(l)
    \/ \E row \in Pairs : StoreRow(row)
    \/ \E p \in Processes : Anomaly(p)

-----------------------------------------------------------------------------
(* The rest of the program. *)

\* The warm-up is counted from the start of the program.
WarmUpEnds ==
    /\ ~warm
    /\ warm' = TRUE
    /\ UNCHANGED <<tables, alerts, pc, cycle, previous, runtime, stopEvent, bounds>>

\* An alert leaves its cooldown.
Expire(a) ==
    /\ a \in cooling
    /\ cooling' = cooling \ {a}
    /\ UNCHANGED <<tables, announced, quiet, pc, cycle, previous, runtime, warm,
                   stopEvent, bounds>>

\* prune_history deletes endpoints not seen for a day or more, which two cycles do
\* not take: those of this cycle and of the one before are spared.
Prune(old) ==
    /\ old # {}
    /\ old \cap recent = {}
    /\ endpoints' = endpoints \ old
    /\ UNCHANGED <<processes, listening, lastSeen, alerts, pc, cycle, previous, runtime,
                   warm, stopEvent, bounds>>

Stop ==
    /\ ~stopEvent
    /\ stopEvent' = TRUE
    /\ UNCHANGED <<tables, alerts, pc, cycle, previous, runtime, warm, bounds>>

\* The process ends, at any point, and is started again on the same database.
Restart ==
    /\ restarts < MaxRestarts
    /\ restarts' = restarts + 1
    /\ pc' = "check"
    /\ scan' = {} /\ todo' = {} /\ ready' = FALSE /\ fresh' = {} /\ news' = NoNews
    /\ spiked' = FALSE /\ previous' = NotYet
    /\ shown' = {} /\ error' = FALSE
    /\ warm' = FALSE /\ stopEvent' = FALSE
    /\ UNCHANGED <<tables, alerts, failures>>

Next ==
    \/ Work \/ Fail
    \/ WarmUpEnds \/ Stop \/ Restart
    \/ \E a \in cooling : Expire(a)
    \/ \E old \in SUBSET endpoints : Prune(old)

Spec == Init /\ [][Next]_vars

\* The thread keeps running.
FairSpec == Spec /\ WF_vars(Work)

-----------------------------------------------------------------------------
(* Properties. *)

\* Every listener, and every process stored after the warm-up, gets its alert: a
\* failed cycle and a restart can each lose one, nothing else can.
NewsIsLostByFailureOnly ==
    Cardinality({x \in processes \cup listening :
                    announced[x] = 0 /\ x \notin quiet /\ x # Unknown})
        <= failures + restarts + (IF news = NoNews THEN 0 ELSE 1)

\* A process is announced once for all cycles and restarts, and not at all when
\* it was learnt during a warm-up.
AnnouncedOnce ==
    \A p \in Processes : announced[p] <= IF p \in quiet THEN 0 ELSE 1

\* A spike alert is stored exactly when the cycle has at least SpikeThreshold
\* sockets more than the dashboard shows, also after cycles that failed; the
\* first cycle after a start stores none.
SpikeIsOfShownCounts ==
    pc \in {"rows", "fanout", "churn"} =>
        (spiked <=> /\ previous # NotYet
                    /\ Cardinality(scan) - Cardinality(shown) >= SpikeThreshold)

\* As long as no error is shown, every socket on the dashboard is in the tables:
\* pruning takes rows away beside the cycle, but none that is shown.
ShownIsStored ==
    ~error => /\ shown \cap Listeners \subseteq listening
              /\ shown \cap (Processes \X Public) \subseteq endpoints

\* A failed cycle does not end monitoring: its error is replaced by the data of
\* a good one, unless the program is shut down first.
MonitoringRecovers == error ~> (~error \/ stopEvent)
=============================================================================
