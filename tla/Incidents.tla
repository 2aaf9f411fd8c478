------------------------------ MODULE Incidents ------------------------------
(***************************************************************************)
(* Security events and the incidents they are correlated into:             *)
(* Storage.correlate_incidents, close_incident, the event part of          *)
(* prune_history, and add_event / add_alert as the source of events        *)
(* (sentinel/storage.py).                                                  *)
(*                                                                         *)
(* Every thread adds events; only the intelligence thread correlates and   *)
(* prunes.  It reads the clock before it waits for the storage lock, so    *)
(* the clock, new events and a user who closes incidents can slip in       *)
(* between; the correlation itself is one transaction over all groups.     *)
(***************************************************************************)
EXTENDS Integers, Sequences, FiniteSets, FiniteSetsExt

CONSTANTS
    EventIds,       \* the rows security_events can hold
    Subjects,       \* [process, remote_ip, domain] an event may carry
    Kinds,          \* <<category, severity>> pairs the sources emit
    Lower,          \* str.lower() on the names that occur
    Window,         \* incident_window_seconds
    MinScore,       \* incident_min_score
    Retention,      \* history_retention_days, in the same unit
    MaxTime         \* bound on the clock

Severities == {"info", "low", "medium", "high"}

ASSUME EventsAssumption == IsFiniteSet(EventIds)
ASSUME KindsAssumption == \A kind \in Kinds : kind[2] \in Severities
ASSUME NumbersAssumption ==
    Window \in Nat /\ MinScore \in Nat /\ Retention \in Nat /\ MaxTime \in Nat

VARIABLES
    now,        \* time.time()
    event,      \* security_events
    incident,   \* incidents, per fingerprint in the order of their ids
    pc,         \* the intelligence thread: "idle", or waiting for the lock
    at          \* its local now, read before the lock

vars == <<now, event, incident, pc, at>>

NoKey == <<"none", "">>

\* What an event is grouped by: its process unless that is unknown, else its
\* remote address, else its domain.
Fingerprint(s) ==
    IF s.process \notin {"", "unknown"} THEN <<"process", Lower[s.process]>>
    ELSE IF s.remote_ip # "" THEN <<"ip", s.remote_ip>>
    ELSE IF s.domain # "" THEN <<"domain", Lower[s.domain]>>
    ELSE NoKey

Keys == {Fingerprint(s) : s \in Subjects} \ {NoKey}

\* Rows that do not exist yet, and rows that prune_history has deleted.
NoEvent == [row |-> "none"]
Pruned == [row |-> "pruned"]
\* inc is the position of the event's incident among those of its fingerprint,
\* 0 for incident_id IS NULL.
Rows == [row : {"row"}, at : Nat, who : Subjects, kind : Kinds, inc : Nat]

IncidentRows == [status : {"open", "closed"}, created : Nat, updated : Nat,
                 severity : {"low", "medium", "high"}, count : Nat, score : 0..100]

TypeOK ==
    /\ now \in Nat
    /\ event \in [EventIds -> Rows \cup {NoEvent, Pruned}]
    /\ incident \in [Keys -> Seq(IncidentRows)]
    /\ pc \in {"idle", "lock"}
    /\ at \in Nat

Init ==
    /\ now = 0
    /\ event = [e \in EventIds |-> NoEvent]
    /\ incident = [k \in Keys |-> <<>>]
    /\ pc = "idle"
    /\ at = 0

-----------------------------------------------------------------------------
(* Scoring a group of events. *)

Having(group, severity) == {e \in group : event[e].kind[2] = severity}
Categories(group) == {event[e].kind[1] : e \in group}
AtLeast0(n) == IF n < 0 THEN 0 ELSE n

Weight(group) ==
    1 * Cardinality(Having(group, "info")) + 5 * Cardinality(Having(group, "low"))
    + 22 * Cardinality(Having(group, "medium"))
    + 45 * Cardinality(Having(group, "high"))

Score(group) ==
    LET sum == Weight(group) + 10 * AtLeast0(Cardinality(Categories(group)) - 1)
               + 2 * AtLeast0(Cardinality(group) - 2)
    IN  IF sum > 100 THEN 100 ELSE sum

Attention(group) == Having(group, "medium") # {} \/ Having(group, "high") # {}

\* Mutant: the weakest level is called info.
LevelInfo(score) ==
    IF score >= 65 THEN "high" ELSE IF score >= 35 THEN "medium" ELSE "info"

Level(score) ==
    IF score >= 65 THEN "high" ELSE IF score >= 35 THEN "medium" ELSE "low"

-----------------------------------------------------------------------------
(* The actions. *)

\* add_event, and the event of add_alert, in their own transaction.
AddEvent(e, s, kind) ==
    /\ event[e] = NoEvent
    /\ event' = [event EXCEPT ![e] =
                   [row |-> "row", at |-> now, who |-> s, kind |-> kind, inc |-> 0]]
    /\ UNCHANGED <<now, incident, pc, at>>

\* correlate_incidents reads the clock, then waits for the lock.
TakeNow ==
    /\ pc = "idle"
    /\ pc' = "lock"
    /\ at' = now
    /\ UNCHANGED <<now, event, incident>>

Exists(e) == event[e] \notin {NoEvent, Pruned}

\* The rows the query returns, and those of one fingerprint.
Fresh(e) == Exists(e) /\ event[e].inc = 0 /\ event[e].at + Window >= at
Group(k) == {e \in EventIds : Fresh(e) /\ Fingerprint(event[e].who) = k}

Qualifies(group) ==
    /\ group # {}
    /\ Score(group) >= MinScore
    /\ Attention(group) \/ Cardinality(Categories(group)) >= 3

\* Mutant: an incident updated exactly a window ago is not recent.
RecentStrictly(k) == {i \in 1..Len(incident[k]) :
                        /\ incident[k][i].status = "open"
                        /\ incident[k][i].updated + Window > at}

\* Mutant: closed incidents are extended as well.
RecentOrClosed(k) == {i \in 1..Len(incident[k]) :
                        incident[k][i].updated + Window >= at}

\* The open incidents of a fingerprint that are still in the window.
Recent(k) == {i \in 1..Len(incident[k]) :
                 /\ incident[k][i].status = "open"
                 /\ incident[k][i].updated + Window >= at}

\* The incident a qualifying group goes to: the newest recent one, or a new one.
Target(k) == IF Recent(k) = {} THEN Len(incident[k]) + 1 ELSE Max(Recent(k))

\* Mutant: the severity is kept, the score replaced.
ExtendedSwapped(old, group) ==
    [old EXCEPT !.updated = at,
                !.count = old.count + Cardinality(group),
                !.score = Score(group)]

\* The row after the group has been added to it.  The severity is the group's
\* own, the score the largest so far.
Extended(old, group) ==
    [old EXCEPT !.updated = at,
                !.severity = Level(Score(group)),
                !.count = old.count + Cardinality(group),
                !.score = IF Score(group) > old.score THEN Score(group) ELSE old.score]

Created(group) ==
    [status |-> "open", created |-> at, updated |-> at,
     severity |-> Level(Score(group)), count |-> Cardinality(group),
     score |-> Score(group)]

Correlated(k) ==
    IF ~Qualifies(Group(k)) THEN incident[k]
    ELSE IF Recent(k) = {} THEN Append(incident[k], Created(Group(k)))
    ELSE [incident[k] EXCEPT ![Target(k)] = Extended(@, Group(k))]

\* The transaction: every group that qualifies goes to its incident.
Correlate ==
    /\ pc = "lock"
    /\ pc' = "idle"
    /\ incident' = [k \in Keys |-> Correlated(k)]
    /\ event' = [e \in EventIds |->
                   IF /\ Fresh(e)
                      /\ Fingerprint(event[e].who) \in Keys
                      /\ Qualifies(Group(Fingerprint(event[e].who)))
                   THEN [event[e] EXCEPT !.inc = Target(Fingerprint(event[e].who))]
                   ELSE event[e]]
    /\ UNCHANGED <<now, at>>

\* The transaction is rolled back, or the process ends before the commit.
Fail ==
    /\ pc = "lock"
    /\ pc' = "idle"
    /\ UNCHANGED <<now, event, incident, at>>

\* POST /api/incidents/{id}/close, for an incident in whatever state.
Close(k, i) ==
    /\ incident' = [incident EXCEPT ![k][i].status = "closed", ![k][i].updated = now]
    /\ UNCHANGED <<now, event, pc, at>>

\* Mutant: events of incidents are pruned with the others.
PruneAll ==
    /\ pc = "idle"
    /\ event' = [e \in EventIds |->
                   IF Exists(e) /\ event[e].at + Retention < now
                   THEN Pruned ELSE event[e]]
    /\ event' # event
    /\ UNCHANGED <<now, incident, pc, at>>

\* prune_history: old events go unless they belong to an incident.
Prune ==
    /\ pc = "idle"
    /\ event' = [e \in EventIds |->
                   IF Exists(e) /\ event[e].inc = 0 /\ event[e].at + Retention < now
                   THEN Pruned ELSE event[e]]
    /\ event' # event
    /\ UNCHANGED <<now, incident, pc, at>>

Tick ==
    /\ now < MaxTime
    /\ now' = now + 1
    /\ UNCHANGED <<event, incident, pc, at>>

Next ==
    \/ \E e \in EventIds, s \in Subjects, kind \in Kinds : AddEvent(e, s, kind)
    \/ TakeNow \/ Correlate \/ Fail
    \/ \E k \in Keys : \E i \in 1..Len(incident[k]) : Close(k, i)
    \/ Prune \/ Tick

Spec == Init /\ [][Next]_vars

-----------------------------------------------------------------------------
(* Properties. *)

\* The events of an incident.
EventsOf(k, i) == {e \in EventIds : /\ Exists(e)
                                    /\ event[e].inc = i
                                    /\ Fingerprint(event[e].who) = k}

\* The count shown for an incident is the number of events its page lists,
\* however often it was extended, closed or pruned around.
EventCountMatches ==
    \A k \in Keys : \A i \in 1..Len(incident[k]) :
        incident[k][i].count = Cardinality(EventsOf(k, i))

\* While an incident is open, the same process, address or domain gets another
\* one only after a silence longer than the window.
OpenIncidentsAreSpaced ==
    \A k \in Keys : \A i, j \in 1..Len(incident[k]) :
        i < j /\ incident[k][i].status = "open" =>
            incident[k][j].created > incident[k][i].updated + Window

\* The severity of an incident never claims more than its score, which is never
\* below the configured minimum.
ScoreSupportsSeverity ==
    \A k \in Keys : \A i \in 1..Len(incident[k]) :
        /\ incident[k][i].score >= MinScore
        /\ incident[k][i].severity = "high" => incident[k][i].score >= 65
        /\ incident[k][i].severity = "medium" => incident[k][i].score >= 35

\* What is closed stays as it was closed: a correlation that was waiting for the
\* lock while the user closed the incident does not write to it.
ClosedIsFinal ==
    [][\A k \in Keys : \A i \in 1..Len(incident[k]) :
          incident[k][i].status = "closed" =>
              /\ incident'[k][i].status = "closed"
              /\ incident'[k][i].count = incident[k][i].count
              /\ incident'[k][i].score = incident[k][i].score
              /\ EventsOf(k, i)' = EventsOf(k, i)]_vars
=============================================================================
