-------------------------------- MODULE Scores --------------------------------
(***************************************************************************)
(* The two heuristic scores.  device_risk (sentinel/intelligence.py) rates *)
(* a device profile, a record of what the score looks at: gateway,         *)
(* trusted, online, randomized, vendor, hostname, traffic (all Boolean),   *)
(* age in seconds, and the number of exposed services.  The overview       *)
(* endpoint (app.py) makes the attention score from counts (storage.py)    *)
(* that are one query each, although a reader expects them to add up.      *)
(*                                                                         *)
(* There, profiles are a function from addresses to records with the       *)
(* Booleans online, trusted, gateway, monitored (there is a sample) and    *)
(* answered (the last one was online); alerts one from ids to records with *)
(* their severity, open and anomaly.                                       *)
(***************************************************************************)
EXTENDS Integers, FiniteSets

-----------------------------------------------------------------------------
(* The risk of a device. *)

Points(condition, n) == IF condition THEN n ELSE 0
Clamped(n) == IF n < 0 THEN 0 ELSE IF n > 100 THEN 100 ELSE n

AgePoints(p) == IF p.age < 600 THEN 18 ELSE Points(p.age < 3600, 8)
ExposurePoints(p) == IF p.exposed >= 8 THEN 12 ELSE Points(p.exposed >= 4, 5)

\* What counts before trust and absence are deducted.
Suspicion(p) ==
    IF p.gateway THEN Points(~p.trusted, 5)
    ELSE Points(p.online /\ ~p.trusted, 28) + AgePoints(p)
         + Points(p.randomized, 12) + Points(~p.vendor, 6)
         + Points(~p.hostname, 4) + ExposurePoints(p)
         + Points(p.traffic /\ ~p.trusted, 3)

Risk(p) ==
    Clamped(Clamped(Suspicion(p) - Points(p.trusted, 35)) - Points(~p.online, 8))

RiskLevel(p) == IF Risk(p) >= 60 THEN "high" ELSE IF Risk(p) >= 30 THEN "medium" ELSE "low"

Profile == [gateway : BOOLEAN, trusted : BOOLEAN, online : BOOLEAN,
            randomized : BOOLEAN, vendor : BOOLEAN, hostname : BOOLEAN,
            traffic : BOOLEAN, age : Nat, exposed : Nat]

-----------------------------------------------------------------------------
(* The overview. *)

AtMost(n, cap) == IF n > cap THEN cap ELSE n

Alerts == [severity : {"low", "medium", "high"}, open : BOOLEAN, anomaly : BOOLEAN]

\* alert_counts and open_anomaly_count.
OpenAlerts(alerts, severity) ==
    Cardinality({a \in DOMAIN alerts : alerts[a].open /\ alerts[a].severity = severity})
OpenAnomalies(alerts) ==
    Cardinality({a \in DOMAIN alerts : alerts[a].open /\ alerts[a].anomaly})

\* acknowledge_alert for one id, acknowledge_all_alerts for all of them.
Acknowledged(alerts, ids) ==
    [a \in DOMAIN alerts |->
        IF a \in ids THEN [alerts[a] EXCEPT !.open = FALSE] ELSE alerts[a]]

Online(profiles) == {d \in DOMAIN profiles : profiles[d].online}
UnknownOnline(profiles) ==
    {d \in Online(profiles) : ~profiles[d].trusted /\ ~profiles[d].gateway}

\* For profiles of the set Profile.
RiskyOnline(profiles) == {d \in Online(profiles) : Risk(profiles[d]) >= 30}

Counts == [high : Nat, medium : Nat, low : Nat, unknown : Nat, anomalies : Nat,
           incidents : Nat]

\* What the score deducts for.  The profiles are read first, the alerts then,
\* the anomalies and the open incidents last.
CountsOf(profiles, alerts, later, incidents) ==
    [high |-> OpenAlerts(alerts, "high"), medium |-> OpenAlerts(alerts, "medium"),
     low |-> OpenAlerts(alerts, "low"),
     unknown |-> Cardinality(UnknownOnline(profiles)),
     anomalies |-> OpenAnomalies(later), incidents |-> incidents]

Deduction(c) ==
    18 * c.high + 6 * c.medium + 2 * c.low + 2 * c.unknown
    + AtMost(4 * c.anomalies, 20) + AtMost(8 * c.incidents, 28)

SentinelScore(c) == IF Deduction(c) > 100 THEN 0 ELSE 100 - Deduction(c)

\* fleet_summary.
Monitored(profiles) == {d \in DOMAIN profiles : profiles[d].monitored}
Reachable(profiles) == {d \in Monitored(profiles) : profiles[d].answered}
Unreachable(profiles) ==
    LET n == Cardinality(Monitored(profiles)) - Cardinality(Reachable(profiles))
    IN  IF n < 0 THEN 0 ELSE n
=============================================================================
