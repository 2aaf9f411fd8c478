--------------------------- MODULE IntelligenceLoop ---------------------------
(***************************************************************************)
(* The intelligence thread around Incidents: IntelligenceWorker            *)
(* (sentinel/worker.py), process_dns_records (intelligence.py) and         *)
(* upsert_dns_record (storage.py).                                         *)
(*                                                                         *)
(* A cycle stores the names of the DNS cache, each in a transaction of its *)
(* own, decides on DNS alerts, correlates, and prunes once an hour.  One   *)
(* handler catches the errors of all of that, so an error anywhere skips   *)
(* the rest.  Incidents lets the correlation happen at any time; here the  *)
(* loop decides when, and this module is shown to implement it.            *)
(***************************************************************************)
EXTENDS Integers, Sequences, FiniteSets, FiniteSetsExt

CONSTANTS
    EventIds, Subjects, Kinds, Lower, Window, MinScore, Retention, MaxTime,
    Records,        \* <<name, data>> rows the DNS cache may show
    Sniffed,        \* rows of type PACKET, from the packet sensor
    Idn,            \* the names with "xn--"
    Caches,         \* what collect_dns_cache may return, sets of records
    BurstThreshold,
    IdnCap,         \* names with "xn--" announced per cycle: 5
    WarmUp,         \* baseline_warmup_seconds
    Hour,           \* time from one pruning to the next
    Period,         \* interval and the longest cycle together
    MaxFailures     \* bound on the errors of a behaviour

ASSUME RecordsAssumption ==
    /\ Records \cap Sniffed = {}
    /\ Caches \subseteq SUBSET Records /\ \A c \in Caches : IsFiniteSet(c)
\* What Incidents assumes of its constants.
ASSUME IncidentsAssumption ==
    /\ IsFiniteSet(EventIds)
    /\ \A kind \in Kinds : kind[2] \in {"info", "low", "medium", "high"}
    /\ {Window, MinScore, Retention, MaxTime} \subseteq Nat
ASSUME LoopAssumption ==
    /\ {BurstThreshold, IdnCap, Period} \subseteq Nat \ {0}
    /\ {WarmUp, Hour, MaxFailures} \subseteq Nat

VARIABLES
    now, event, incident, pc, at,       \* as in Incidents
    step,           \* where IntelligenceWorker.run is
    cycleNow,       \* its local now, read at the start of a cycle
    ready,          \* its baseline_ready
    seen,           \* the records of its snapshot of the cache
    todo,           \* records, then names, it has still to go through
    added,          \* records that were new to this cycle
    rows,           \* the dns_records table
    burst,          \* a burst alert is younger than its cooldown
    announced,      \* names with an alert
    excused,        \* history: names learnt in the warm-up, by a cycle that failed
                    \* or beyond the cap
    lastPrune,
    failures

Inc == INSTANCE Incidents

base == <<now, event, incident, pc, at>>
cycle == <<cycleNow, ready, seen, todo, added>>
dns == <<rows, burst, announced, excused>>
vars == <<base, step, cycle, dns, lastPrune, failures>>

Name(r) == r[1]
Names(rs) == {Name(r) : r \in rs}
Steps == {"begin", "dns", "idn", "correlate", "prune", "ended"}

TypeOK ==
    /\ Inc!TypeOK
    /\ pc = "lock" => step = "correlate"
    /\ step \in Steps
    /\ cycleNow \in Nat /\ ready \in BOOLEAN
    /\ seen \subseteq Records
    /\ todo \in (SUBSET Records) \cup (SUBSET Idn)
    /\ added \subseteq Records
    /\ rows \subseteq Records \cup Sniffed
    /\ burst \in BOOLEAN
    /\ announced \subseteq Idn /\ excused \subseteq Idn \ announced
    /\ lastPrune \in Int /\ lastPrune <= cycleNow
    /\ failures \in 0..MaxFailures

\* last_prune starts at the epoch, so the first cycle prunes.
Init ==
    /\ Inc!Init
    /\ step = "begin" /\ cycleNow = 0 /\ ready = FALSE
    /\ seen = {} /\ todo = {} /\ added = {}
    /\ rows = {} /\ burst = FALSE /\ announced = {} /\ excused = {}
    /\ lastPrune = 0 - Hour
    /\ failures = 0

-----------------------------------------------------------------------------
(* A cycle. *)

\* Mutant: correlation, too, is left out when the cache shows nothing.
BeginSkips(cache) ==
    /\ step = "begin"
    /\ step' = IF cache = {} THEN "prune" ELSE "dns"
    /\ cycleNow' = now
    /\ ready' = (now >= WarmUp)
    /\ seen' = cache /\ todo' = cache
    /\ UNCHANGED <<base, added, dns, lastPrune, failures>>

\* The interval is over: the state of the warm-up, the clock and the DNS cache.
\* With DNS monitoring disabled the cache counts as empty.
Begin(cache) ==
    /\ step = "begin"
    /\ step' = "dns"
    /\ cycleNow' = now
    /\ ready' = (now >= WarmUp)
    /\ seen' = cache /\ todo' = cache
    /\ UNCHANGED <<base, added, dns, lastPrune, failures>>

\* stop(): the event is looked at between two cycles only, and ends the wait.
Stop ==
    /\ step = "begin"
    /\ step' = "ended"
    /\ UNCHANGED <<base, cycle, dns, lastPrune, failures>>

\* Mutant: a name the packet sensor has stored is not new.
IsNewName(r) == Name(r) \notin Names(rows)

\* upsert_dns_record tells a row from another by name, type and data.
IsNew(r) == r \notin rows

StoreRecord(r) ==
    /\ step = "dns"
    /\ r \in todo
    /\ todo' = todo \ {r}
    /\ rows' = rows \cup {r}
    /\ added' = IF IsNew(r) THEN added \cup {r} ELSE added
    /\ UNCHANGED <<base, step, cycleNow, ready, seen, burst, announced, excused, lastPrune,
                   failures>>

IsBurst == Cardinality(Names(added)) >= BurstThreshold
NewIdn == Names(added) \cap Idn

\* After the last record: a burst of new names, unless there was one lately, and
\* the names to announce.  During the warm-up there is neither.
Decide(chosen) ==
    /\ step = "dns" /\ todo = {}
    /\ chosen \in IF ready THEN kSubset(Min({IdnCap, Cardinality(NewIdn)}), NewIdn)
                  ELSE {{}}
    /\ todo' = chosen
    /\ excused' = excused \cup (NewIdn \ (chosen \cup announced))
    /\ burst' = (burst \/ (ready /\ IsBurst))
    /\ step' = "idn"
    /\ UNCHANGED <<base, cycleNow, ready, seen, added, rows, announced, lastPrune,
                   failures>>

\* The alert for a name; one in its cooldown has been announced before.
Announce(name) ==
    /\ step = "idn"
    /\ name \in todo
    /\ todo' = todo \ {name}
    /\ announced' = announced \cup {name}
    /\ excused' = excused \ {name}
    /\ UNCHANGED <<base, step, cycleNow, ready, seen, added, rows, burst, lastPrune,
                   failures>>

Announced ==
    /\ step = "idn" /\ todo = {}
    /\ step' = "correlate"
    /\ UNCHANGED <<base, cycle, dns, lastPrune, failures>>

\* Mutant: the cutoff is counted from the start of the cycle.
TakeNowOfCycle ==
    /\ step = "correlate"
    /\ pc = "idle" /\ pc' = "lock"
    /\ at' = cycleNow
    /\ UNCHANGED <<now, event, incident, step, cycle, dns, lastPrune, failures>>

\* correlate_incidents, with a clock of its own.
TakeNow ==
    /\ step = "correlate"
    /\ Inc!TakeNow
    /\ UNCHANGED <<step, cycle, dns, lastPrune, failures>>

Correlate ==
    /\ step = "correlate"
    /\ Inc!Correlate
    /\ step' = "prune"
    /\ UNCHANGED <<cycle, dns, lastPrune, failures>>

Old(e) == Inc!Exists(e) /\ event[e].inc = 0 /\ event[e].at + Retention < now

\* prune_history, an hour after the last time, for events and for names not seen
\* lately (never those of this cycle); then the interval begins.
Prune(old) ==
    /\ step = "prune"
    /\ old \cap seen = {}
    /\ IF cycleNow - lastPrune >= Hour
       THEN /\ IF \E e \in EventIds : Old(e) THEN Inc!Prune ELSE UNCHANGED base
            /\ rows' = rows \ old
            /\ lastPrune' = cycleNow
       ELSE old = {} /\ UNCHANGED <<base, rows, lastPrune>>
    /\ seen' = {} /\ added' = {} /\ ready' = FALSE
    /\ step' = "begin"
    /\ UNCHANGED <<cycleNow, todo, burst, announced, excused, failures>>

\* Mutant: last_prune is set before prune_history has succeeded.
FailPruned ==
    /\ step \in {"dns", "idn", "correlate", "prune"}
    /\ failures < MaxFailures
    /\ failures' = failures + 1
    /\ IF pc = "lock" THEN Inc!Fail ELSE UNCHANGED base
    /\ excused' = excused \cup (NewIdn \ announced)
    /\ lastPrune' = IF step = "prune" /\ cycleNow - lastPrune >= Hour
                    THEN cycleNow ELSE lastPrune
    /\ seen' = {} /\ todo' = {} /\ added' = {} /\ ready' = FALSE
    /\ step' = "begin"
    /\ UNCHANGED <<cycleNow, rows, burst, announced>>

\* Mutant: an error of the correlation leaves the transaction open.
FailHolds ==
    /\ step \in {"dns", "idn", "correlate", "prune"}
    /\ failures < MaxFailures
    /\ failures' = failures + 1
    /\ UNCHANGED base
    /\ excused' = excused \cup (NewIdn \ announced)
    /\ seen' = {} /\ todo' = {} /\ added' = {} /\ ready' = FALSE
    /\ step' = "begin"
    /\ UNCHANGED <<cycleNow, rows, burst, announced, lastPrune>>

\* The error of any step: what has been committed stays, the rest is skipped.
Fail ==
    /\ step \in {"dns", "idn", "correlate", "prune"}
    /\ failures < MaxFailures
    /\ failures' = failures + 1
    /\ IF pc = "lock" THEN Inc!Fail ELSE UNCHANGED base
    /\ excused' = excused \cup (NewIdn \ announced)
    /\ seen' = {} /\ todo' = {} /\ added' = {} /\ ready' = FALSE
    /\ step' = "begin"
    /\ UNCHANGED <<cycleNow, rows, burst, announced, lastPrune>>

-----------------------------------------------------------------------------
(* The rest of the program. *)

loop == <<step, cycle, lastPrune, failures>>

AddEvent(e, s, kind) == Inc!AddEvent(e, s, kind) /\ UNCHANGED <<loop, dns>>
Close(k, i) == Inc!Close(k, i) /\ UNCHANGED <<loop, dns>>

\* The packet sensor stores an answer it has seen on the wire.
Sniff(r) ==
    /\ r \notin rows
    /\ rows' = rows \cup {r}
    /\ UNCHANGED <<base, loop, burst, announced, excused>>

\* The burst alert leaves its cooldown.
Expire ==
    /\ burst
    /\ burst' = FALSE
    /\ UNCHANGED <<base, loop, rows, announced, excused>>

\* The assumption on time: a cycle begins within Period of the one before.
InTime == now - cycleNow < Period

Tick ==
    /\ InTime
    /\ Inc!Tick
    /\ UNCHANGED <<loop, dns>>

Cycle ==
    \/ \E cache \in Caches : Begin(cache)
    \/ \E r \in Records : StoreRecord(r)
    \/ \E chosen \in SUBSET Idn : Decide(chosen)
    \/ \E name \in Idn : Announce(name)
    \/ Announced \/ TakeNow \/ Correlate
    \/ \E old \in SUBSET rows : Prune(old)
    \/ Fail

Next ==
    \/ Cycle
    \/ \E e \in EventIds, s \in Subjects, kind \in Kinds : AddEvent(e, s, kind)
    \/ \E k \in Inc!Keys : \E i \in 1..Len(incident[k]) : Close(k, i)
    \/ \E r \in Sniffed : Sniff(r)
    \/ Expire \/ Stop \/ Tick

Spec == Init /\ [][Next]_vars

-----------------------------------------------------------------------------
(* Properties. *)

\* The loop correlates and prunes only as Incidents allows, so all that holds for
\* Incidents holds for it.
ImplementsIncidents == Inc!Spec

\* An event that calls for an incident by itself.
Serious(e) ==
    /\ Inc!Exists(e)
    /\ Inc!Fingerprint(event[e].who) # Inc!NoKey
    /\ Inc!Attention({e}) /\ Inc!Score({e}) >= MinScore

\* Two clock readings of the correlation are at most two periods apart, one more
\* for every cycle that fails.  When the window covers that, no serious event
\* falls out of it before it has been correlated.
SeriousEventsBecomeIncidents ==
    \A e \in EventIds :
        /\ step # "ended" /\ Serious(e) /\ event[e].inc = 0
        /\ event[e].at + Window < (IF pc = "lock" THEN at ELSE now)
        => (failures + 2) * Period > Window

\* An event outside incidents outlives its retention by an hour and a few cycles,
\* one more for every error, although errors before it skip the pruning.
HistoryIsPruned ==
    \A e \in EventIds :
        step # "ended" /\ Inc!Exists(e) /\ event[e].inc = 0 =>
            now - event[e].at <= Retention + Hour + (failures + 2) * Period

\* A name with "xn--" that the DNS cache has shown since the warm-up is announced,
\* whatever the packet sensor stored before, unless its cycle failed or had more
\* such names than the cap.
IdnIsAnnounced ==
    \A name \in Idn :
        name \in Names(rows \cap Records) =>
            \/ name \in announced \cup excused
            \/ name \in Names(added) /\ step \in {"dns", "idn"}
=============================================================================
