----------------------------- MODULE MonitorProofs -----------------------------
(***************************************************************************)
(* What is proved of Monitor for any processes, sockets, thresholds and    *)
(* number of errors and restarts: its typing, that what the dashboard      *)
(* shows is stored, that spike alerts are about the counts shown, that a   *)
(* process is announced once, and that only errors and restarts lose news. *)
(***************************************************************************)
EXTENDS Monitor, FiniteSetTheorems, TLAPS

-----------------------------------------------------------------------------
(* The inductive invariant. *)

Storing == pc \in {"rows", "fanout", "churn"}

\* What the loop a cycle is in goes through.
TodoOfLoop ==
    /\ pc = "listeners" => todo \subseteq Listeners
    /\ pc = "rows" => todo \subseteq External
    /\ pc \in {"fanout", "churn"} => todo \subseteq Processes

\* What is new to this cycle has been gone through.
FreshOfCycle == IF Storing THEN fresh \subseteq External \ todo ELSE fresh = {}

\* What a cycle has gone through is stored, its rows as seen in this cycle.
ScanIsStored ==
    /\ pc = "listeners" => (scan \cap Listeners) \ todo \subseteq listening
    /\ Storing => /\ scan \cap Listeners \subseteq listening
                  /\ External \ todo \subseteq current

\* The endpoints shown were seen in this cycle or in the one before it; between
\* two cycles, in the one that showed them.
ShownExternal == shown \cap (Processes \X Public)
ShownIsRecent ==
    ~error => /\ shown \cap Listeners \subseteq listening
              /\ ShownExternal \subseteq recent
              /\ pc \in {"wait", "check"} => ShownExternal \subseteq current

\* The count remembered is that of the sockets shown.
PreviousIsShown == previous # NotYet => previous = Cardinality(shown)

\* News has been stored, was not learnt in a warm-up and has no alert yet.
NewsIsFresh ==
    news # NoNews =>
        /\ news \in (processes \cup listening) \ quiet
        /\ news # Unknown /\ announced[news] = 0

\* Only a stored process has an alert, and one has if an alert is in its cooldown.
AlertsOfStored ==
    /\ \A x \in Processes \cup Listeners :
          announced[x] > 0 => x \in processes \cup listening
    /\ \A p \in Processes : <<"process", p>> \in cooling => announced[p] > 0

\* What never got its alert, apart from the news that may still get it.
Unheard == {x \in processes \cup listening :
               announced[x] = 0 /\ x \notin quiet /\ x # Unknown}
LostCounted ==
    /\ IsFiniteSet(Unheard)
    /\ Cardinality(Unheard \ {news}) <= failures + restarts

CycleInv == TodoOfLoop /\ FreshOfCycle /\ ScanIsStored
AlertInv == NewsIsFresh /\ AlertsOfStored /\ AnnouncedOnce
IInv == /\ TypeOK /\ CycleInv /\ ShownIsRecent
        /\ PreviousIsShown /\ SpikeIsOfShownCounts
        /\ AlertInv /\ LostCounted

-----------------------------------------------------------------------------
(* Typing. *)

\* A set of sockets is counted.
LEMMA ScanCount ==
  ASSUME TypeOK
  PROVE  /\ Cardinality(scan) \in Nat /\ Cardinality(shown) \in Nat
         /\ scan \subseteq Sockets /\ shown \subseteq Sockets
<1>1. \A s \in Scans \cup {{}} : IsFiniteSet(s) /\ s \subseteq Sockets
  BY ScanAssumption, FS_EmptySet DEF ScanAssumption
<1> QED BY <1>1, FS_CardinalityType DEF TypeOK

LEMMA TypeInit == Init => TypeOK
<1> SUFFICES ASSUME Init PROVE TypeOK
  OBVIOUS
<1>1. 0 \in 0..MaxFailures /\ 0 \in 0..MaxRestarts
  BY BoundAssumption DEF BoundAssumption
<1>2. announced \in [Processes \cup Listeners -> Nat]
  BY DEF Init
<1> QED BY <1>1, <1>2 DEF Init, TypeOK

LEMMA TypeStep ==
  ASSUME TypeOK, CycleInv, NewsIsFresh, [Next]_vars
  PROVE  TypeOK'
<1> USE DEF lastSeen, tables, alerts, cycle, runtime, bounds
<1>1. CASE Check \/ WakeUp \/ WarmUpEnds \/ Stop
  <2>1. CASE Check \/ WakeUp
    BY <2>1 DEF Check, WakeUp, TypeOK
  <2>2. CASE WarmUpEnds
    BY <2>2 DEF WarmUpEnds, TypeOK
  <2>3. CASE Stop
    BY <2>3 DEF Stop, TypeOK
  <2> QED BY <1>1, <2>1, <2>2, <2>3
<1>2. ASSUME NEW s \in Scans, Collect(s)
      PROVE  TypeOK'
  <2>1. /\ scan' \in Scans \cup {{}} /\ todo' \subseteq Sockets \cup Processes
        /\ pc' = "listeners" /\ ready' \in BOOLEAN
    BY <1>2 DEF Collect, TypeOK, Sockets
  <2> QED BY <1>2, <2>1 DEF Collect, TypeOK
<1>3. ASSUME NEW l \in Listeners, StoreListener(l)
      PROVE  TypeOK'
  BY <1>3 DEF StoreListener, TypeOK
<1>4. CASE Spike
  <2>1. spiked' \in BOOLEAN
    BY <1>4 DEF Spike, IsSpike
  <2>2. todo' \subseteq Sockets
    BY <1>4 DEF Spike, External, TypeOK, Sockets, Pairs
  <2> QED BY <1>4, <2>1, <2>2 DEF Spike, TypeOK
<1>5. ASSUME NEW row \in Pairs, StoreRow(row)
      PROVE  TypeOK'
  <2>1. row \in Processes \X Public /\ row[1] \in Processes
    BY <1>5 DEF StoreRow, CycleInv, TodoOfLoop, External
  <2>2. quiet' \subseteq processes'
    BY <1>5, <2>1 DEF StoreRow, TypeOK
  <2>3. fresh' \subseteq endpoints' /\ current' \subseteq recent' /\ recent' \subseteq endpoints'
    BY <1>5 DEF StoreRow, TypeOK
  <2>4. news' \in Processes \cup {NoNews}
    BY <1>5, <2>1 DEF StoreRow
  <2> QED BY <1>5, <2>1, <2>2, <2>3, <2>4 DEF StoreRow, TypeOK
<1>6. CASE Announce
  <2>1. news \in Processes \cup Listeners /\ news # Unknown
    BY <1>6 DEF Announce, TypeOK, NewsIsFresh
  <2>2. announced' \in [Processes \cup Listeners -> Nat]
    BY <1>6, <2>1 DEF Announce, TypeOK
  <2>3. cooling' \subseteq cooling \cup {<<"process", p>> : p \in Processes \ {Unknown}}
    BY <1>6, <2>1 DEF Announce
  <2>4. cooling' \subseteq AnomalyKinds \X (Processes \ {Unknown}) \cup {"fanout", "churn"} \X {Unknown}
    BY <2>3 DEF TypeOK, AnomalyKinds
  <2> QED BY <1>6, <2>2, <2>4 DEF Announce, TypeOK
<1>7. CASE RowsDone \/ FanoutDone
  BY <1>7 DEF RowsDone, FanoutDone, FannedOut, Churning, TypeOK
<1>8. ASSUME NEW p \in Processes, Anomaly(p)
      PROVE  TypeOK'
  <2>1. cooling' \subseteq AnomalyKinds \X (Processes \ {Unknown}) \cup {"fanout", "churn"} \X {Unknown}
    BY <1>8 DEF Anomaly, TypeOK, AnomalyKinds
  <2> QED BY <1>8, <2>1 DEF Anomaly, TypeOK
<1>9. CASE Publish
  BY <1>9, ScanCount DEF Publish, TypeOK
<1>10. CASE Fail
  <2>1. failures' \in 0..MaxFailures
    BY <1>10, BoundAssumption DEF Fail, TypeOK, BoundAssumption
  <2> QED BY <1>10, <2>1 DEF Fail, TypeOK
<1>11. CASE Restart
  <2>1. restarts' \in 0..MaxRestarts
    BY <1>11, BoundAssumption DEF Restart, TypeOK, BoundAssumption
  <2> QED BY <1>11, <2>1 DEF Restart, TypeOK
<1>12. ASSUME NEW a \in cooling, Expire(a)
       PROVE  TypeOK'
  BY <1>12 DEF Expire, TypeOK
<1>13. ASSUME NEW old \in SUBSET endpoints, Prune(old)
       PROVE  TypeOK'
  <2>1. fresh \cap old = {}
    BY <1>13 DEF Prune, TypeOK, CycleInv, FreshOfCycle, ScanIsStored
  <2> QED BY <1>13, <2>1 DEF Prune, TypeOK
<1>14. CASE UNCHANGED vars
  BY <1>14 DEF vars, TypeOK
<1> QED BY <1>1, <1>2, <1>3, <1>4, <1>5, <1>6, <1>7, <1>8, <1>9, <1>10, <1>11, <1>12,
           <1>13, <1>14 DEF Next, Work

-----------------------------------------------------------------------------
(* What is shown is stored. *)

LEMMA CycleStep ==
  ASSUME TypeOK, CycleInv, [Next]_vars
  PROVE  CycleInv'
<1> USE DEF lastSeen, tables, alerts, cycle, runtime, bounds, CycleInv, TodoOfLoop, FreshOfCycle,
            ScanIsStored, Storing
<1>1. CASE Check \/ WakeUp \/ WarmUpEnds \/ Stop
  BY <1>1 DEF Check, WakeUp, WarmUpEnds, Stop, External
<1>2. ASSUME NEW s \in Scans, Collect(s)
      PROVE  CycleInv'
  BY <1>2 DEF Collect
<1>3. ASSUME NEW l \in Listeners, StoreListener(l)
      PROVE  CycleInv'
  BY <1>3 DEF StoreListener
<1>4. CASE Spike
  BY <1>4 DEF Spike, External
<1>5. ASSUME NEW row \in Pairs, StoreRow(row)
      PROVE  CycleInv'
  BY <1>5 DEF StoreRow, External
<1>6. CASE Announce
  BY <1>6 DEF Announce, External
<1>7. CASE RowsDone \/ FanoutDone
  <2>1. /\ pc' \in {"fanout", "churn"} /\ todo' \subseteq Processes /\ Storing /\ todo = {}
        /\ UNCHANGED <<scan, fresh, listening, current>>
    BY <1>7 DEF RowsDone, FanoutDone, FannedOut, Churning
  <2>2. External \cap Processes = {}
    BY NamesAssumption, ScanCount DEF NamesAssumption, External
  <2> QED BY <2>1, <2>2 DEF External
<1>8. ASSUME NEW p \in Processes, Anomaly(p)
      PROVE  CycleInv'
  <2>1. External \cap Processes = {}
    BY NamesAssumption, ScanCount DEF NamesAssumption, External
  <2> QED BY <1>8, <2>1 DEF Anomaly, External
<1>9. CASE Publish \/ Fail \/ Restart
  BY <1>9 DEF Publish, Fail, Restart
<1>10. ASSUME NEW a \in cooling, Expire(a)
       PROVE  CycleInv'
  BY <1>10 DEF Expire, External
<1>11. ASSUME NEW old \in SUBSET endpoints, Prune(old)
       PROVE  CycleInv'
  BY <1>11 DEF Prune, External
<1>12. CASE UNCHANGED vars
  BY <1>12 DEF vars, External
<1> QED BY <1>1, <1>2, <1>3, <1>4, <1>5, <1>6, <1>7, <1>8, <1>9, <1>10, <1>11, <1>12
        DEF Next, Work

\* A cycle publishes what it has stored; the next one makes these rows those of the
\* cycle before, and pruning spares both.
LEMMA ShownStep ==
  ASSUME TypeOK, CycleInv, ShownIsRecent, [Next]_vars
  PROVE  ShownIsRecent'
<1> USE DEF lastSeen, tables, alerts, cycle, runtime, bounds, ShownIsRecent, ShownExternal
<1>1. ASSUME UNCHANGED <<shown, error>>, listening \subseteq listening',
             current \subseteq current', recent \subseteq recent',
             pc' \in {"wait", "check"} => pc \in {"wait", "check"}
      PROVE  ShownIsRecent'
  BY <1>1
<1>2. CASE Check \/ WakeUp \/ WarmUpEnds \/ Stop
  <2>1. CASE Check
    BY <2>1 DEF Check
  <2>2. CASE WakeUp \/ WarmUpEnds \/ Stop
    BY <1>1, <2>2 DEF WakeUp, WarmUpEnds, Stop
  <2> QED BY <1>2, <2>1, <2>2
<1>3. ASSUME NEW s \in Scans, Collect(s)
      PROVE  ShownIsRecent'
  BY <1>1, <1>3 DEF Collect
<1>4. ASSUME NEW l \in Listeners, StoreListener(l)
      PROVE  ShownIsRecent'
  BY <1>1, <1>4 DEF StoreListener
<1>5. CASE Spike \/ RowsDone \/ FanoutDone \/ Announce
  BY <1>1, <1>5 DEF Spike, RowsDone, FanoutDone, Announce
<1>6. ASSUME NEW row \in Pairs, StoreRow(row)
      PROVE  ShownIsRecent'
  BY <1>1, <1>6 DEF StoreRow
<1>7. ASSUME NEW p \in Processes, Anomaly(p)
      PROVE  ShownIsRecent'
  BY <1>1, <1>7 DEF Anomaly
<1>8. CASE Publish
  <2>1. /\ scan \cap Listeners \subseteq listening /\ External \subseteq current
        /\ current \subseteq recent
    BY <1>8 DEF Publish, CycleInv, ScanIsStored, Storing, TypeOK
  <2>2. shown' = scan /\ UNCHANGED <<listening, current, recent>>
    BY <1>8 DEF Publish
  <2> QED BY <2>1, <2>2 DEF External
<1>9. CASE Fail \/ Restart
  BY <1>9 DEF Fail, Restart
<1>10. ASSUME NEW a \in cooling, Expire(a)
       PROVE  ShownIsRecent'
  BY <1>1, <1>10 DEF Expire
<1>11. ASSUME NEW old \in SUBSET endpoints, Prune(old)
       PROVE  ShownIsRecent'
  BY <1>1, <1>11 DEF Prune
<1>12. CASE UNCHANGED vars
  BY <1>1, <1>12 DEF vars
<1> QED BY <1>2, <1>3, <1>4, <1>5, <1>6, <1>7, <1>8, <1>9, <1>10, <1>11, <1>12
        DEF Next, Work

-----------------------------------------------------------------------------
(* Spikes. *)

\* Between the decision on a spike and the publication nothing it was made from
\* changes, and what is remembered is what is shown, also after errors.
LEMMA SpikeStep ==
  ASSUME TypeOK, PreviousIsShown, SpikeIsOfShownCounts, [Next]_vars
  PROVE  PreviousIsShown' /\ SpikeIsOfShownCounts'
<1> USE DEF lastSeen, tables, alerts, cycle, runtime, bounds, PreviousIsShown, SpikeIsOfShownCounts
<1>1. ASSUME UNCHANGED <<previous, shown, scan, spiked>>,
             pc' \in {"rows", "fanout", "churn"} => pc \in {"rows", "fanout", "churn"}
      PROVE  PreviousIsShown' /\ SpikeIsOfShownCounts'
  BY <1>1
<1>2. CASE Check \/ WakeUp \/ WarmUpEnds \/ Stop
  BY <1>1, <1>2 DEF Check, WakeUp, WarmUpEnds, Stop
<1>3. ASSUME NEW s \in Scans, Collect(s)
      PROVE  PreviousIsShown' /\ SpikeIsOfShownCounts'
  BY <1>3 DEF Collect
<1>4. ASSUME NEW l \in Listeners, StoreListener(l)
      PROVE  PreviousIsShown' /\ SpikeIsOfShownCounts'
  BY <1>1, <1>4 DEF StoreListener
<1>5. CASE RowsDone \/ FanoutDone \/ Announce
  BY <1>1, <1>5 DEF RowsDone, FanoutDone, Announce
<1>6. ASSUME NEW row \in Pairs, StoreRow(row)
      PROVE  PreviousIsShown' /\ SpikeIsOfShownCounts'
  BY <1>1, <1>6 DEF StoreRow
<1>7. ASSUME NEW p \in Processes, Anomaly(p)
      PROVE  PreviousIsShown' /\ SpikeIsOfShownCounts'
  BY <1>1, <1>7 DEF Anomaly
<1>8. CASE Spike
  <2>1. spiked' = IsSpike /\ UNCHANGED <<previous, shown, scan>>
    BY <1>8 DEF Spike
  <2>2. IsSpike <=> /\ previous # NotYet
                    /\ Cardinality(scan) - Cardinality(shown) >= SpikeThreshold
    BY DEF IsSpike
  <2> QED BY <2>1, <2>2
<1>9. CASE Publish \/ Fail \/ Restart
  BY <1>9 DEF Publish, Fail, Restart
<1>10. ASSUME NEW a \in cooling, Expire(a)
       PROVE  PreviousIsShown' /\ SpikeIsOfShownCounts'
  BY <1>1, <1>10 DEF Expire
<1>11. ASSUME NEW old \in SUBSET endpoints, Prune(old)
       PROVE  PreviousIsShown' /\ SpikeIsOfShownCounts'
  BY <1>1, <1>11 DEF Prune
<1>12. CASE UNCHANGED vars
  BY <1>1, <1>12 DEF vars
<1> QED BY <1>2, <1>3, <1>4, <1>5, <1>6, <1>7, <1>8, <1>9, <1>10, <1>11, <1>12
        DEF Next, Work

-----------------------------------------------------------------------------
(* Alerts. *)

\* Steps that decide on no alert.
AlertsAlone == UNCHANGED <<processes, listening, announced, quiet, news>> /\ cooling' \subseteq cooling

LEMMA AlertsAloneInv ==
  ASSUME AlertInv, AlertsAlone
  PROVE  AlertInv'
BY DEF AlertInv, AlertsAlone, NewsIsFresh, AlertsOfStored, AnnouncedOnce

\* The steps, as far as alerts go.
LEMMA AlertSummary ==
  ASSUME TypeOK, CycleInv, [Next]_vars
  PROVE  \/ AlertsAlone /\ failures' = failures /\ restarts' = restarts
         \/ \E l \in Listeners : StoreListener(l)
         \/ \E row \in Processes \X Public : StoreRow(row)
         \/ Announce
         \/ /\ UNCHANGED <<processes, listening, announced, quiet, cooling>>
            /\ news' = NoNews
            /\ \/ failures' = failures + 1 /\ restarts' = restarts
               \/ failures' = failures /\ restarts' = restarts + 1
         \/ /\ \E p \in Processes, kind \in {"fanout", "churn"} :
                  cooling' = cooling \cup {<<kind, p>>}
            /\ UNCHANGED <<processes, listening, announced, quiet, news, failures, restarts>>
<1> USE DEF lastSeen, tables, alerts, cycle, runtime, bounds
<1>1. CASE Check \/ WakeUp \/ WarmUpEnds \/ Stop
  BY <1>1 DEF Check, WakeUp, WarmUpEnds, Stop, AlertsAlone
<1>2. ASSUME NEW s \in Scans, Collect(s)
      PROVE  AlertsAlone /\ failures' = failures /\ restarts' = restarts
  BY <1>2 DEF Collect, AlertsAlone
<1>3. CASE Spike \/ RowsDone \/ FanoutDone \/ Publish
  BY <1>3 DEF Spike, RowsDone, FanoutDone, Publish, AlertsAlone
<1>4. ASSUME NEW row \in Pairs, StoreRow(row)
      PROVE  row \in Processes \X Public
  BY <1>4 DEF StoreRow, CycleInv, TodoOfLoop, External
<1>5. CASE Fail \/ Restart
  BY <1>5 DEF Fail, Restart
<1>6. ASSUME NEW p \in Processes, Anomaly(p)
      PROVE  /\ cooling' = cooling \cup {<<pc, p>>} /\ pc \in {"fanout", "churn"}
             /\ UNCHANGED <<processes, listening, announced, quiet, news, failures, restarts>>
  BY <1>6 DEF Anomaly
<1>7. ASSUME NEW a \in cooling, Expire(a)
      PROVE  AlertsAlone /\ failures' = failures /\ restarts' = restarts
  BY <1>7 DEF Expire, AlertsAlone
<1>8. ASSUME NEW old \in SUBSET endpoints, Prune(old)
      PROVE  AlertsAlone /\ failures' = failures /\ restarts' = restarts
  BY <1>8 DEF Prune, AlertsAlone
<1>9. CASE UNCHANGED vars
  BY <1>9 DEF vars, AlertsAlone
<1> QED BY <1>1, <1>2, <1>3, <1>4, <1>5, <1>6, <1>7, <1>8, <1>9 DEF Next, Work

\* A name is not a listener.
LEMMA NamesDiffer == Processes \cap Listeners = {} /\ NoNews \notin Processes \cup Listeners
BY NamesAssumption DEF NamesAssumption, Sockets, NoNews

\* News is of a new row, so it has never been announced, and its alert is not in
\* a cooldown of an older one.
LEMMA AnnounceCounts ==
  ASSUME TypeOK, AlertInv, Announce
  PROVE  /\ news \in Processes \cup Listeners /\ announced[news] = 0 /\ news \notin quiet
         /\ news \in processes \cup listening
         /\ announced' = [announced EXCEPT ![news] = 1]
         /\ cooling' = IF news \in Processes THEN cooling \cup {<<"process", news>>}
                       ELSE cooling
<1>1. /\ news # NoNews /\ news \in Processes \cup Listeners
      /\ news \in (processes \cup listening) \ quiet
      /\ announced[news] = 0
  BY DEF Announce, TypeOK, AlertInv, NewsIsFresh
<1>2. <<"process", news>> \notin cooling
  BY <1>1, NamesDiffer DEF TypeOK, AlertInv, AlertsOfStored
<1> QED BY <1>1, <1>2 DEF Announce, TypeOK

LEMMA AlertStep ==
  ASSUME TypeOK, CycleInv, AlertInv, [Next]_vars
  PROVE  AlertInv'
<1>1. ASSUME NEW l \in Listeners, StoreListener(l)
      PROVE  AlertInv'
  <2>1. /\ listening' = listening \cup {l} /\ news = NoNews
        /\ news' = IF l \in listening THEN NoNews ELSE l
        /\ UNCHANGED <<processes, announced, quiet, cooling>>
    BY <1>1 DEF StoreListener, alerts
  <2>2. AlertsOfStored' /\ AnnouncedOnce'
    BY <2>1 DEF AlertInv, AlertsOfStored, AnnouncedOnce
  <2>3. l \notin processes /\ l # Unknown
    BY NamesDiffer, ProcessAssumption DEF TypeOK, ProcessAssumption
  <2>4. l \notin listening => announced[l] = 0
    BY <2>3 DEF TypeOK, AlertInv, AlertsOfStored
  <2>5. NewsIsFresh'
    BY <2>1, <2>3, <2>4 DEF NewsIsFresh, TypeOK
  <2> QED BY <2>2, <2>5 DEF AlertInv
<1>2. ASSUME NEW row \in Processes \X Public, StoreRow(row)
      PROVE  AlertInv'
  <2> DEFINE p == row[1]
  <2>1. /\ p \in Processes
        /\ processes' = processes \cup {p} /\ news = NoNews
        /\ quiet' = IF IsNew(p) /\ ~ready THEN quiet \cup {p} ELSE quiet
        /\ news' = IF ready /\ IsNew(p) /\ p # Unknown THEN p ELSE NoNews
        /\ UNCHANGED <<listening, announced, cooling>>
    BY <1>2 DEF StoreRow
  <2> HIDE DEF p
  <2>2. AlertsOfStored'
    BY <2>1 DEF AlertInv, AlertsOfStored
  <2>3. IsNew(p) => announced[p] = 0 /\ p \notin quiet
    BY <2>1, NamesDiffer DEF IsNew, AlertInv, AlertsOfStored, TypeOK
  <2>4. AnnouncedOnce'
    BY <2>1, <2>3 DEF AlertInv, AnnouncedOnce
  <2>5. NewsIsFresh'
    BY <2>1, <2>3 DEF NewsIsFresh
  <2> QED BY <2>2, <2>4, <2>5 DEF AlertInv
<1>3. CASE Announce
  <2>1. news' = NoNews /\ UNCHANGED <<processes, listening, quiet>>
    BY <1>3 DEF Announce, tables
  <2>2. AlertsOfStored'
    BY <1>3, <2>1, AnnounceCounts DEF AlertInv, AlertsOfStored, TypeOK
  <2>3. AnnouncedOnce'
    BY <1>3, <2>1, AnnounceCounts DEF AlertInv, AnnouncedOnce, TypeOK
  <2> QED BY <2>1, <2>2, <2>3 DEF AlertInv, NewsIsFresh
<1>4. CASE UNCHANGED <<processes, listening, announced, quiet, cooling>> /\ news' = NoNews
  BY <1>4 DEF AlertInv, NewsIsFresh, AlertsOfStored, AnnouncedOnce
<1>5. ASSUME NEW p \in Processes, NEW kind \in {"fanout", "churn"},
             cooling' = cooling \cup {<<kind, p>>},
             UNCHANGED <<processes, listening, announced, quiet, news>>
      PROVE  AlertInv'
  BY <1>5 DEF AlertInv, NewsIsFresh, AlertsOfStored, AnnouncedOnce
<1> QED BY <1>1, <1>2, <1>3, <1>4, <1>5, AlertSummary, AlertsAloneInv

-----------------------------------------------------------------------------
(* News that is lost. *)

\* What may be said of a set with one element more or less.
LEMMA LessOne ==
  ASSUME NEW S, IsFiniteSet(S), NEW x
  PROVE  /\ IsFiniteSet(S \ {x}) /\ Cardinality(S \ {x}) \in Nat
         /\ Cardinality(S) \in Nat
         /\ Cardinality(S) <= Cardinality(S \ {x}) + 1
<1>1. IsFiniteSet(S \ {x}) /\ Cardinality(S) \in Nat /\ Cardinality(S \ {x}) \in Nat
  BY FS_Difference, FS_CardinalityType, FS_Subset
<1>2. CASE x \in S
  BY <1>1, <1>2, FS_RemoveElement
<1>3. CASE x \notin S
  <2>1. S \ {x} = S
    BY <1>3
  <2> QED BY <1>1, <2>1
<1> QED BY <1>1, <1>2, <1>3

\* Only what is named was ever stored, so no news is none of it.
LEMMA UnheardNames ==
  ASSUME TypeOK
  PROVE  NoNews \notin Unheard
BY NamesDiffer DEF Unheard, TypeOK

LEMMA LostStep ==
  ASSUME TypeOK, TypeOK', CycleInv, AlertInv, LostCounted, [Next]_vars
  PROVE  LostCounted'
<1> DEFINE waiting == Unheard \ {news}
<1>1. failures \in Nat /\ restarts \in Nat
  BY DEF TypeOK
<1>2. /\ IsFiniteSet(Unheard) /\ IsFiniteSet(waiting) /\ Cardinality(waiting) \in Nat
      /\ Cardinality(Unheard) \in Nat /\ Cardinality(Unheard) <= Cardinality(waiting) + 1
      /\ Cardinality(waiting) <= failures + restarts
  BY LessOne DEF LostCounted
<1>3. ASSUME IsFiniteSet(Unheard'), waiting' \subseteq waiting,
             failures' = failures, restarts' = restarts
      PROVE  LostCounted'
  <2>1. Cardinality(waiting') <= Cardinality(waiting) /\ Cardinality(waiting') \in Nat
    BY <1>2, <1>3, FS_Subset, FS_CardinalityType
  <2> QED BY <1>1, <1>2, <1>3, <2>1 DEF LostCounted
<1>4. ASSUME NEW x, Unheard' \subseteq Unheard \cup {x}
      PROVE  IsFiniteSet(Unheard')
  <2>1. IsFiniteSet(Unheard \cup {x})
    BY <1>2, FS_AddElement
  <2> QED BY <1>4, <2>1, FS_Subset
<1>5. CASE AlertsAlone /\ failures' = failures /\ restarts' = restarts
  <2>1. Unheard' = Unheard /\ waiting' = waiting
    BY <1>5 DEF AlertsAlone, Unheard
  <2> QED BY <1>2, <1>3, <1>5, <2>1
<1>6. ASSUME NEW l \in Listeners, StoreListener(l)
      PROVE  LostCounted'
  <2>1. /\ listening' = listening \cup {l} /\ news = NoNews
        /\ news' = IF l \in listening THEN NoNews ELSE l
        /\ UNCHANGED <<processes, announced, quiet, failures, restarts>>
    BY <1>6 DEF StoreListener, alerts, bounds
  <2>2. Unheard' \subseteq Unheard \cup {l}
    BY <2>1 DEF Unheard
  <2>3. waiting' \subseteq waiting
    BY <2>1, UnheardNames DEF Unheard
  <2> QED BY <1>3, <1>4, <2>1, <2>2, <2>3
<1>7. ASSUME NEW row \in Processes \X Public, StoreRow(row)
      PROVE  LostCounted'
  <2> DEFINE p == row[1]
  <2>1. /\ processes' = processes \cup {p} /\ news = NoNews
        /\ quiet' = IF IsNew(p) /\ ~ready THEN quiet \cup {p} ELSE quiet
        /\ news' = IF ready /\ IsNew(p) /\ p # Unknown THEN p ELSE NoNews
        /\ UNCHANGED <<listening, announced, failures, restarts>>
    BY <1>7 DEF StoreRow, bounds
  <2> HIDE DEF p
  <2>2. Unheard' \subseteq Unheard \cup {p}
    BY <2>1 DEF Unheard
  <2>3. waiting' \subseteq waiting
    BY <2>1, UnheardNames DEF Unheard, IsNew
  <2> QED BY <1>3, <1>4, <2>1, <2>2, <2>3
<1>8. CASE Announce
  <2>1. news' = NoNews /\ UNCHANGED <<processes, listening, quiet, failures, restarts>>
    BY <1>8 DEF Announce, tables, bounds
  <2>2. Unheard' = waiting
    BY <1>8, <2>1, AnnounceCounts DEF Unheard, TypeOK
  <2>3. waiting' \subseteq waiting
    BY <2>2
  <2> QED BY <1>2, <1>3, <2>1, <2>2, <2>3
<1>9. CASE /\ UNCHANGED <<processes, listening, announced, quiet>>
           /\ news' = NoNews
           /\ \/ failures' = failures + 1 /\ restarts' = restarts
              \/ failures' = failures /\ restarts' = restarts + 1
  <2>1. Unheard' = Unheard /\ waiting' = Unheard
    BY <1>9, UnheardNames DEF Unheard
  <2> QED BY <1>1, <1>2, <1>9, <2>1 DEF LostCounted
<1>10. CASE UNCHANGED <<processes, listening, announced, quiet, news, failures, restarts>>
  <2>1. Unheard' = Unheard /\ waiting' = waiting
    BY <1>10 DEF Unheard
  <2> QED BY <1>2, <1>3, <1>10, <2>1
<1> QED BY <1>5, <1>6, <1>7, <1>8, <1>9, <1>10, AlertSummary

-----------------------------------------------------------------------------
(* The theorems. *)

LEMMA InvInit == Init => IInv
<1> SUFFICES ASSUME Init PROVE IInv
  OBVIOUS
<1>1. CycleInv /\ ShownIsRecent
  BY DEF Init, CycleInv, TodoOfLoop, FreshOfCycle, ScanIsStored, Storing, ShownIsRecent,
         ShownExternal
<1>2. PreviousIsShown /\ SpikeIsOfShownCounts
  BY DEF Init, PreviousIsShown, SpikeIsOfShownCounts
<1>3. AlertInv
  BY DEF Init, AlertInv, NewsIsFresh, AlertsOfStored, AnnouncedOnce
<1>4. Unheard = {} /\ Unheard \ {news} = {} /\ failures = 0 /\ restarts = 0
  BY DEF Init, Unheard
<1>5. LostCounted
  BY <1>4, FS_EmptySet DEF LostCounted
<1> QED BY <1>1, <1>2, <1>3, <1>5, TypeInit DEF IInv

LEMMA Inductive == Spec => []IInv
<1>1. ASSUME IInv, [Next]_vars PROVE IInv'
  <2>1. TypeOK'
    BY <1>1, TypeStep DEF IInv, AlertInv
  <2> QED BY <1>1, <2>1, CycleStep, ShownStep, SpikeStep, AlertStep, LostStep DEF IInv
<1> QED BY <1>1, InvInit, PTL DEF Spec

\* The variables keep their types; the endpoints new to a cycle stay stored while
\* it runs, although pruning goes on beside it.
THEOREM Typing == Spec => []TypeOK
BY Inductive, PTL DEF IInv

\* Every socket the dashboard shows is in the tables as long as it shows no error,
\* whatever prune_history deletes and wherever cycles fail.
THEOREM ShownAlwaysStored == Spec => []ShownIsStored
<1>1. IInv => ShownIsStored
  BY DEF IInv, TypeOK, ShownIsRecent, ShownExternal, ShownIsStored
<1> QED BY <1>1, Inductive, PTL

\* A spike alert is about the counts the dashboard shows, after errors and
\* restarts as well.
THEOREM SpikesOfShownCounts == Spec => []SpikeIsOfShownCounts
BY Inductive, PTL DEF IInv

\* A process is announced once for all cycles and restarts, and never when it was
\* learnt in a warm-up.
THEOREM ProcessesAnnouncedOnce == Spec => []AnnouncedOnce
BY Inductive, PTL DEF IInv, AlertInv

\* Each error and each restart loses the alert of one listener or process at
\* most, and nothing else does.
THEOREM NewsLostByFailureOnly == Spec => []NewsIsLostByFailureOnly
<1>1. ASSUME IInv PROVE NewsIsLostByFailureOnly
  <2>1. /\ Cardinality(Unheard) \in Nat /\ Cardinality(Unheard \ {news}) \in Nat
        /\ Cardinality(Unheard) <= Cardinality(Unheard \ {news}) + 1
        /\ Cardinality(Unheard \ {news}) <= failures + restarts
    BY <1>1, LessOne DEF IInv, LostCounted
  <2>2. failures \in Nat /\ restarts \in Nat
    BY <1>1 DEF IInv, TypeOK
  <2>3. news = NoNews => Unheard \ {news} = Unheard
    BY <1>1, UnheardNames DEF IInv
  <2>4. Cardinality(Unheard) <= failures + restarts + (IF news = NoNews THEN 0 ELSE 1)
    BY <2>1, <2>2, <2>3
  <2> QED BY <2>4 DEF NewsIsLostByFailureOnly, Unheard
<1> QED BY <1>1, Inductive, PTL
=============================================================================
