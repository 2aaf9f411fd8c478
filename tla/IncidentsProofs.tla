--------------------------- MODULE IncidentsProofs ---------------------------
(***************************************************************************)
(* What is proved of Incidents for every finite set of events, all         *)
(* subjects, kinds, windows and scores: its typing, that counts match the  *)
(* events, that open incidents of one activity are spaced, that severities *)
(* are supported by scores and that closing is final.                      *)
(***************************************************************************)
EXTENDS Incidents, FiniteSetTheorems, TLAPS

-----------------------------------------------------------------------------
(* Lemmas about groups and scores. *)

\* Any set of events is finite, so its cardinality is a number.
LEMMA GroupFinite ==
  ASSUME NEW G \in SUBSET EventIds
  PROVE  IsFiniteSet(G) /\ Cardinality(G) \in Nat
BY EventsAssumption, FS_Subset, FS_CardinalityType DEF EventsAssumption

\* There are at most as many categories as events.
LEMMA CategoriesFinite ==
  ASSUME NEW G \in SUBSET EventIds
  PROVE  Cardinality(Categories(G)) \in Nat
<1> DEFINE f == [e \in G |-> event[e].kind[1]]
<1>1. f \in Surjection(G, Categories(G))
  BY DEF Surjection, Categories
<1>2. IsFiniteSet(Categories(G))
  BY <1>1, GroupFinite, FS_Surjection
<1> QED BY <1>2, FS_CardinalityType

\* A score is a percentage.
LEMMA ScoreType ==
  ASSUME NEW G \in SUBSET EventIds
  PROVE  Score(G) \in 0..100
<1>1. /\ Cardinality(Having(G, "info")) \in Nat
      /\ Cardinality(Having(G, "low")) \in Nat
      /\ Cardinality(Having(G, "medium")) \in Nat
      /\ Cardinality(Having(G, "high")) \in Nat
  BY GroupFinite DEF Having
<1>2. Weight(G) \in Nat
  BY <1>1 DEF Weight
<1>3. ASSUME NEW n \in Int PROVE AtLeast0(n) \in Nat
  BY DEF AtLeast0
<1>4. /\ AtLeast0(Cardinality(Categories(G)) - 1) \in Nat
      /\ AtLeast0(Cardinality(G) - 2) \in Nat
  BY <1>3, GroupFinite, CategoriesFinite
<1> DEFINE sum == Weight(G) + 10 * AtLeast0(Cardinality(Categories(G)) - 1)
                  + 2 * AtLeast0(Cardinality(G) - 2)
<1>5. sum \in Nat
  BY <1>2, <1>4
<1>6. Score(G) = IF sum > 100 THEN 100 ELSE sum
  BY DEF Score
<1> HIDE DEF sum
<1> QED BY <1>5, <1>6

\* A level claims no more than the score it is made from.
LEMMA LevelType ==
  ASSUME NEW score \in 0..100
  PROVE  /\ Level(score) \in {"low", "medium", "high"}
         /\ Level(score) = "high" => score >= 65
         /\ Level(score) = "medium" => score >= 35
BY DEF Level

\* What exists is a full row.
LEMMA ExistingRow ==
  ASSUME TypeOK, NEW e \in EventIds, Exists(e)
  PROVE  event[e] \in Rows
BY DEF TypeOK, Exists

LEMMA GroupType ==
  \A k \in Keys : /\ Group(k) \in SUBSET EventIds
                  /\ Cardinality(Group(k)) \in Nat
                  /\ IsFiniteSet(Group(k))
                  /\ Score(Group(k)) \in 0..100
BY GroupFinite, ScoreType DEF Group

LEMMA Disjoint ==
  \A k \in Keys : \A i \in Nat \ {0} : Group(k) \cap EventsOf(k, i) = {}
BY DEF Group, Fresh, EventsOf

-----------------------------------------------------------------------------
(* The inductive invariant. *)

\* Incidents are created no later than now, and not after a clock reading that
\* is waiting for the lock.
Past ==
    /\ at <= now
    /\ \A k \in Keys : \A i \in 1..Len(incident[k]) :
           /\ incident[k][i].created <= now
           /\ pc = "lock" => incident[k][i].created <= at

\* An assigned event points at an incident of its own fingerprint.
Assigned ==
    \A e \in EventIds :
        Exists(e) /\ event[e].inc # 0 =>
            /\ Fingerprint(event[e].who) \in Keys
            /\ event[e].inc \in 1..Len(incident[Fingerprint(event[e].who)])

IInv == /\ TypeOK /\ Past /\ Assigned
        /\ EventCountMatches /\ OpenIncidentsAreSpaced /\ ScoreSupportsSeverity

\* The incident a group extends is always the newest of its fingerprint.
LEMMA RecentIsNewest ==
  ASSUME TypeOK, Past, OpenIncidentsAreSpaced, pc = "lock", NEW k \in Keys
  PROVE  Recent(k) \subseteq {Len(incident[k])}
<1> SUFFICES ASSUME NEW i \in Recent(k) PROVE i = Len(incident[k])
  OBVIOUS
<1> DEFINE n == Len(incident[k])
<1>1. incident[k] \in Seq(IncidentRows) /\ n \in Nat
  BY DEF TypeOK
<1>2. /\ i \in 1..n
      /\ incident[k][i].status = "open"
      /\ incident[k][i].updated + Window >= at
  BY DEF Recent
<1>3. incident[k][i] \in IncidentRows /\ incident[k][n] \in IncidentRows
  BY <1>1, <1>2
<1>4. /\ incident[k][i].updated \in Nat /\ incident[k][n].created \in Nat
      /\ at \in Nat /\ Window \in Nat
  BY <1>3, NumbersAssumption DEF IncidentRows, TypeOK, NumbersAssumption
<1>5. incident[k][n].created <= at
  BY <1>1, <1>2 DEF Past
<1>6. i < n => incident[k][n].created > incident[k][i].updated + Window
  BY <1>1, <1>2 DEF OpenIncidentsAreSpaced
<1> QED BY <1>1, <1>2, <1>4, <1>5, <1>6

\* So the target is the newest incident, or the next one.
LEMMA TargetValue ==
  ASSUME TypeOK, Past, OpenIncidentsAreSpaced, pc = "lock", NEW k \in Keys
  PROVE  /\ Recent(k) = {} => Target(k) = Len(incident[k]) + 1
         /\ Recent(k) # {} => /\ Target(k) = Len(incident[k])
                              /\ Target(k) \in 1..Len(incident[k])
                              /\ Recent(k) = {Target(k)}
         /\ Target(k) \in Nat \ {0}
<1>1. Len(incident[k]) \in Nat
  BY DEF TypeOK
<1>2. Recent(k) \subseteq {Len(incident[k])}
  BY RecentIsNewest
<1>3. CASE Recent(k) = {}
  BY <1>1, <1>3 DEF Target
<1>4. CASE Recent(k) # {}
  <2>1. Recent(k) = {Len(incident[k])}
    BY <1>2, <1>4
  <2>2. Max({Len(incident[k])}) = Len(incident[k])
    BY <1>1 DEF Max
  <2>3. Len(incident[k]) \in 1..Len(incident[k])
    BY <2>1 DEF Recent
  <2>4. Target(k) = Max(Recent(k))
    BY <1>4 DEF Target
  <2>5. Target(k) = Len(incident[k])
    BY <2>1, <2>2, <2>4
  <2> QED BY <1>1, <1>4, <2>1, <2>3, <2>5
<1> QED BY <1>3, <1>4

\* What a correlation does to the sequence of incidents of one fingerprint.
LEMMA CorrelatedValue ==
  ASSUME TypeOK, Past, OpenIncidentsAreSpaced, pc = "lock", NEW k \in Keys,
         Qualifies(Group(k))
  PROVE  /\ Correlated(k) \in Seq(IncidentRows)
         /\ Len(Correlated(k)) = IF Recent(k) = {} THEN Len(incident[k]) + 1
                                 ELSE Len(incident[k])
         /\ Target(k) \in 1..Len(Correlated(k))
         /\ Recent(k) = {} => Correlated(k)[Target(k)] = Created(Group(k))
         /\ Recent(k) # {} => Correlated(k)[Target(k)] =
                                 Extended(incident[k][Target(k)], Group(k))
         /\ \A i \in 1..Len(incident[k]) :
               i # Target(k) => Correlated(k)[i] = incident[k][i]
<1> DEFINE n == Len(incident[k])
<1>1. incident[k] \in Seq(IncidentRows) /\ n \in Nat /\ at \in Nat
  BY DEF TypeOK
<1>2. /\ Score(Group(k)) \in 0..100 /\ Cardinality(Group(k)) \in Nat
      /\ Level(Score(Group(k))) \in {"low", "medium", "high"}
  BY GroupType, LevelType
<1>3. CASE Recent(k) = {}
  <2>1. Correlated(k) = Append(incident[k], Created(Group(k)))
    BY <1>3 DEF Correlated
  <2>2. Created(Group(k)) \in IncidentRows
    BY <1>1, <1>2 DEF Created, IncidentRows
  <2>3. Target(k) = n + 1
    BY <1>3, TargetValue
  <2> HIDE DEF Created
  <2> QED BY <1>1, <1>3, <2>1, <2>2, <2>3
<1>4. CASE Recent(k) # {}
  <2>1. Target(k) = n /\ n \in 1..n
    BY <1>4, TargetValue
  <2>2. Correlated(k) =
          [incident[k] EXCEPT ![Target(k)] = Extended(incident[k][Target(k)], Group(k))]
    BY <1>4 DEF Correlated
  <2>3. incident[k][n] \in IncidentRows
    BY <1>1, <2>1
  <2>4. Extended(incident[k][n], Group(k)) \in IncidentRows
    <3> DEFINE old == incident[k][n]
               best == IF Score(Group(k)) > old.score THEN Score(Group(k))
                       ELSE old.score
    <3>1. best \in 0..100 /\ old.count + Cardinality(Group(k)) \in Nat
      BY <1>2, <2>3 DEF IncidentRows
    <3>2. Extended(old, Group(k)) =
            [old EXCEPT !.updated = at, !.severity = Level(Score(Group(k))),
                        !.count = old.count + Cardinality(Group(k)),
                        !.score = best]
      BY DEF Extended
    <3> HIDE DEF best
    <3> QED BY <1>1, <1>2, <2>3, <3>1, <3>2 DEF IncidentRows
  <2> QED BY <1>1, <1>4, <2>1, <2>2, <2>4
<1> QED BY <1>3, <1>4

\* What a correlation does to the events of one incident.
LEMMA CorrelatedEvents ==
  ASSUME TypeOK, Past, OpenIncidentsAreSpaced, Correlate,
         NEW k \in Keys, NEW i \in Nat \ {0}
  PROVE  EventsOf(k, i)' = IF Qualifies(Group(k)) /\ i = Target(k)
                           THEN EventsOf(k, i) \cup Group(k) ELSE EventsOf(k, i)
<1>1. ASSUME NEW e \in EventIds
      PROVE  \/ /\ Fresh(e) /\ event[e] \in Rows
                /\ Fingerprint(event[e].who) \in Keys
                /\ Qualifies(Group(Fingerprint(event[e].who)))
                /\ event'[e] = [event[e] EXCEPT !.inc =
                                  Target(Fingerprint(event[e].who))]
             \/ /\ ~(/\ Fresh(e) /\ Fingerprint(event[e].who) \in Keys
                     /\ Qualifies(Group(Fingerprint(event[e].who))))
                /\ event'[e] = event[e]
  BY ExistingRow DEF Correlate, Fresh
<1>2. ASSUME NEW e \in EventIds
      PROVE  e \in EventsOf(k, i)' <=>
                \/ e \in EventsOf(k, i)
                \/ Qualifies(Group(k)) /\ i = Target(k) /\ e \in Group(k)
  <2>1. CASE Fresh(e) /\ Fingerprint(event[e].who) = k /\ Qualifies(Group(k))
    <3>1. event[e] \in Rows /\ event'[e] = [event[e] EXCEPT !.inc = Target(k)]
      BY <1>1, <2>1
    <3>2. event'[e] \in [row : {"row"}, at : Nat, who : Subjects, kind : Kinds,
                         inc : {Target(k)}]
          /\ event'[e].who = event[e].who
      BY <3>1 DEF Rows
    <3>3. Exists(e)' /\ event'[e].inc = Target(k)
      BY <3>2 DEF Exists, NoEvent, Pruned
    <3>4. e \in Group(k) /\ e \notin EventsOf(k, i)
      BY <2>1 DEF Group, EventsOf, Fresh
    <3>5. e \in EventsOf(k, i)' <=> i = Target(k)
      BY <2>1, <3>2, <3>3 DEF EventsOf
    <3> QED BY <2>1, <3>4, <3>5
  <2>2. CASE Fresh(e) /\ Fingerprint(event[e].who) # k
    <3>1. e \notin Group(k) /\ e \notin EventsOf(k, i)
      BY <2>2 DEF Group, EventsOf
    <3>2. event'[e] = event[e] \/ event'[e].who = event[e].who
      BY <1>1 DEF Rows
    <3>3. e \notin EventsOf(k, i)'
      BY <2>2, <3>2 DEF EventsOf
    <3> QED BY <3>1, <3>3
  <2>3. CASE ~Fresh(e) \/ (Fingerprint(event[e].who) = k /\ ~Qualifies(Group(k)))
    <3>1. event'[e] = event[e]
      BY <1>1, <2>3
    <3>2. e \in EventsOf(k, i)' <=> e \in EventsOf(k, i)
      BY <3>1 DEF EventsOf, Exists
    <3>3. ~(Qualifies(Group(k)) /\ e \in Group(k))
      BY <2>3 DEF Group
    <3> QED BY <3>2, <3>3
  <2> QED BY <2>1, <2>2, <2>3
<1>3. EventsOf(k, i) \subseteq EventIds /\ EventsOf(k, i)' \subseteq EventIds
      /\ Group(k) \subseteq EventIds
  BY DEF EventsOf, Group
<1> QED BY <1>2, <1>3

LEMMA InitInv == Init => IInv
<1> SUFFICES ASSUME Init PROVE IInv
  OBVIOUS
<1>1. TypeOK
  BY DEF Init, TypeOK
<1>2. Past /\ EventCountMatches /\ OpenIncidentsAreSpaced /\ ScoreSupportsSeverity
  BY DEF Init, Past, EventCountMatches, OpenIncidentsAreSpaced,
         ScoreSupportsSeverity
<1>3. Assigned
  BY DEF Init, Assigned, Exists
<1> QED BY <1>1, <1>2, <1>3 DEF IInv

\* The transaction preserves the invariant.
LEMMA CorrelateInv == IInv /\ Correlate => IInv'
<1> SUFFICES ASSUME IInv, Correlate PROVE IInv'
  OBVIOUS
<1>1. /\ TypeOK /\ Past /\ Assigned /\ EventCountMatches
      /\ OpenIncidentsAreSpaced /\ ScoreSupportsSeverity
  BY DEF IInv
<1>2. /\ pc = "lock" /\ pc' = "idle" /\ UNCHANGED <<now, at>>
      /\ at \in Nat /\ now \in Nat /\ Window \in Nat /\ MinScore \in Nat
  BY <1>1, NumbersAssumption DEF Correlate, TypeOK, NumbersAssumption
<1>3. ASSUME NEW k \in Keys
      PROVE  /\ incident[k] \in Seq(IncidentRows)
             /\ incident'[k] = Correlated(k)
             /\ ~Qualifies(Group(k)) => incident'[k] = incident[k]
  BY <1>1 DEF Correlate, TypeOK, Correlated
<1>4. ASSUME NEW k \in Keys, NEW i \in 1..Len(incident'[k])
      PROVE  \/ /\ Qualifies(Group(k)) /\ Recent(k) = {} /\ i = Target(k)
                /\ i = Len(incident[k]) + 1
                /\ incident'[k][i] = Created(Group(k))
             \/ /\ Qualifies(Group(k)) /\ Recent(k) # {} /\ i = Target(k)
                /\ i \in 1..Len(incident[k]) /\ i = Len(incident[k])
                /\ incident'[k][i] = Extended(incident[k][i], Group(k))
             \/ /\ ~(Qualifies(Group(k)) /\ i = Target(k))
                /\ i \in 1..Len(incident[k])
                /\ incident'[k][i] = incident[k][i]
  <2>1. Len(incident[k]) \in Nat
    BY <1>3
  <2>2. CASE ~Qualifies(Group(k))
    BY <1>3, <1>4, <2>2
  <2>3. CASE Qualifies(Group(k))
    BY <1>1, <1>2, <1>3, <1>4, <2>1, <2>3, TargetValue, CorrelatedValue
  <2> QED BY <2>2, <2>3
<1>5. TypeOK'
  <2>1. ASSUME NEW k \in Keys PROVE incident'[k] \in Seq(IncidentRows)
    BY <1>1, <1>2, <1>3, CorrelatedValue
  <2>2. incident' \in [Keys -> Seq(IncidentRows)]
    BY <2>1 DEF Correlate
  <2>3. ASSUME NEW e \in EventIds
        PROVE  event'[e] \in Rows \cup {NoEvent, Pruned}
    <3>1. CASE event'[e] = event[e]
      BY <1>1, <3>1 DEF TypeOK
    <3>2. CASE event'[e] # event[e]
      <4>1. /\ Fresh(e) /\ Fingerprint(event[e].who) \in Keys
            /\ event'[e] =
                 [event[e] EXCEPT !.inc = Target(Fingerprint(event[e].who))]
        BY <3>2 DEF Correlate
      <4>2. event[e] \in Rows
        BY <1>1, <4>1, ExistingRow DEF Fresh
      <4>3. Target(Fingerprint(event[e].who)) \in Nat
        BY <1>1, <1>2, <4>1, TargetValue
      <4> QED BY <4>1, <4>2, <4>3 DEF Rows
    <3> QED BY <3>1, <3>2
  <2>4. event' \in [EventIds -> Rows \cup {NoEvent, Pruned}]
    BY <2>3 DEF Correlate
  <2> QED BY <1>2, <2>2, <2>4 DEF TypeOK
<1>6. Past'
  <2> SUFFICES ASSUME NEW k \in Keys, NEW i \in 1..Len(incident'[k])
               PROVE  incident'[k][i].created <= now
    BY <1>1, <1>2 DEF Past
  <2>1. CASE incident'[k][i] = Created(Group(k))
    BY <1>1, <1>2, <2>1 DEF Created, Past
  <2>2. CASE /\ i \in 1..Len(incident[k])
             /\ incident'[k][i] = Extended(incident[k][i], Group(k))
    <3>1. incident[k][i] \in IncidentRows
      BY <1>3, <2>2
    <3> QED BY <1>1, <2>2, <3>1 DEF Extended, IncidentRows, Past
  <2>3. CASE i \in 1..Len(incident[k]) /\ incident'[k][i] = incident[k][i]
    BY <1>1, <2>3 DEF Past
  <2> QED BY <1>4, <2>1, <2>2, <2>3
<1>7. Assigned'
  <2> SUFFICES ASSUME NEW e \in EventIds, Exists(e)', event'[e].inc # 0
               PROVE  /\ Fingerprint(event'[e].who) \in Keys
                      /\ event'[e].inc \in
                            1..Len(incident'[Fingerprint(event'[e].who)])
    BY DEF Assigned
  <2>1. CASE event'[e] = event[e]
    <3> DEFINE k == Fingerprint(event[e].who)
    <3>1. k \in Keys /\ event[e].inc \in 1..Len(incident[k])
      BY <1>1, <2>1 DEF Assigned, Exists
    <3>2. Len(incident[k]) \in Nat /\ Len(incident'[k]) \in Nat
          /\ Len(incident[k]) <= Len(incident'[k])
      BY <1>1, <1>2, <1>3, <3>1, CorrelatedValue
    <3> QED BY <2>1, <3>1, <3>2
  <2>2. CASE event'[e] # event[e]
    <3> DEFINE k == Fingerprint(event[e].who)
    <3>1. /\ Fresh(e) /\ k \in Keys /\ Qualifies(Group(k))
          /\ event'[e] = [event[e] EXCEPT !.inc = Target(k)]
      BY <2>2 DEF Correlate
    <3>2. event[e] \in Rows
      BY <1>1, <3>1, ExistingRow DEF Fresh
    <3>3. event'[e].who = event[e].who /\ event'[e].inc = Target(k)
      BY <3>1, <3>2 DEF Rows
    <3>4. Target(k) \in 1..Len(incident'[k])
      BY <1>1, <1>2, <1>3, <3>1, CorrelatedValue
    <3> QED BY <3>1, <3>3, <3>4
  <2> QED BY <2>1, <2>2
<1>8. EventCountMatches'
  <2> SUFFICES ASSUME NEW k \in Keys, NEW i \in 1..Len(incident'[k])
               PROVE  incident'[k][i].count = Cardinality(EventsOf(k, i)')
    BY DEF EventCountMatches
  <2>1. i \in Nat \ {0} /\ Len(incident[k]) \in Nat
    BY <1>3
  <2>2. EventsOf(k, i)' = IF Qualifies(Group(k)) /\ i = Target(k)
                          THEN EventsOf(k, i) \cup Group(k) ELSE EventsOf(k, i)
    BY <1>1, <2>1, CorrelatedEvents
  <2>3. /\ IsFiniteSet(EventsOf(k, i)) /\ Cardinality(EventsOf(k, i)) \in Nat
        /\ IsFiniteSet(Group(k)) /\ Cardinality(Group(k)) \in Nat
    BY GroupFinite, GroupType DEF EventsOf
  <2>4. Cardinality(EventsOf(k, i) \cup Group(k)) =
          Cardinality(EventsOf(k, i)) + Cardinality(Group(k))
    <3>1. EventsOf(k, i) \cap Group(k) = {}
      BY <2>1, Disjoint
    <3>2. Cardinality(EventsOf(k, i) \cap Group(k)) = 0
      BY <3>1, FS_EmptySet
    <3>3. Cardinality(EventsOf(k, i) \cup Group(k)) =
            Cardinality(EventsOf(k, i)) + Cardinality(Group(k))
            - Cardinality(EventsOf(k, i) \cap Group(k))
      BY <2>3, FS_Union
    <3> QED BY <2>3, <3>2, <3>3
  <2>5. CASE /\ Qualifies(Group(k)) /\ i = Target(k)
             /\ i = Len(incident[k]) + 1
             /\ incident'[k][i] = Created(Group(k))
    <3>1. EventsOf(k, i) = {}
      <4> SUFFICES ASSUME NEW e \in EventsOf(k, i) PROVE FALSE
        OBVIOUS
      <4>1. event[e].inc \in 1..Len(incident[k])
        BY <1>1, <2>1 DEF EventsOf, Assigned
      <4> QED BY <2>1, <2>5, <4>1 DEF EventsOf
    <3>2. EventsOf(k, i)' = Group(k)
      BY <2>2, <2>5, <3>1
    <3> QED BY <2>5, <3>2 DEF Created
  <2>6. CASE /\ Qualifies(Group(k)) /\ i = Target(k)
             /\ i \in 1..Len(incident[k])
             /\ incident'[k][i] = Extended(incident[k][i], Group(k))
    <3>1. incident[k][i] \in IncidentRows
      BY <1>3, <2>6
    <3>2. incident[k][i].count = Cardinality(EventsOf(k, i))
      BY <1>1, <2>6 DEF EventCountMatches
    <3>3. incident'[k][i].count = incident[k][i].count + Cardinality(Group(k))
      BY <2>6, <3>1 DEF Extended, IncidentRows
    <3> QED BY <2>2, <2>4, <2>6, <3>2, <3>3
  <2>7. CASE /\ ~(Qualifies(Group(k)) /\ i = Target(k))
             /\ i \in 1..Len(incident[k]) /\ incident'[k][i] = incident[k][i]
    BY <1>1, <2>2, <2>7 DEF EventCountMatches
  <2> QED BY <1>4, <2>5, <2>6, <2>7
<1>9. OpenIncidentsAreSpaced'
  <2> SUFFICES ASSUME NEW k \in Keys,
                      NEW i \in 1..Len(incident'[k]), NEW j \in 1..Len(incident'[k]),
                      i < j, incident'[k][i].status = "open"
               PROVE  incident'[k][j].created > incident'[k][i].updated + Window
    BY <1>2 DEF OpenIncidentsAreSpaced
  <2>1. Len(incident[k]) \in Nat /\ Len(incident'[k]) \in Nat
        /\ Len(incident'[k]) <= Len(incident[k]) + 1
    BY <1>1, <1>2, <1>3, CorrelatedValue
  <2>2. i \in 1..Len(incident[k]) /\ incident[k][i] \in IncidentRows
    BY <1>3, <2>1
  <2>3. incident'[k][i] = incident[k][i]
    <3>1. i < Len(incident'[k])
      BY <2>1
    <3>2. i = Target(k) => ~Qualifies(Group(k)) \/ Recent(k) = {}
      BY <1>1, <1>2, <1>3, <2>1, <3>1, TargetValue, CorrelatedValue
    <3>3. Recent(k) = {} => Target(k) = Len(incident[k]) + 1
      BY <1>1, <1>2, TargetValue
    <3> QED BY <1>4, <2>1, <2>2, <3>2, <3>3
  <2>4. CASE incident'[k][j] = Created(Group(k)) /\ Recent(k) = {}
    <3>1. ~(incident[k][i].updated + Window >= at)
      BY <2>2, <2>3, <2>4 DEF Recent
    <3> QED BY <1>2, <2>2, <2>3, <2>4, <3>1 DEF Created, IncidentRows
  <2>5. CASE /\ j \in 1..Len(incident[k])
             /\ incident'[k][j] = Extended(incident[k][j], Group(k))
    <3>1. incident[k][j] \in IncidentRows
      BY <1>3, <2>5
    <3>2. incident'[k][j].created = incident[k][j].created
      BY <2>5, <3>1 DEF Extended, IncidentRows
    <3> QED BY <1>1, <2>2, <2>3, <2>5, <3>2 DEF OpenIncidentsAreSpaced
  <2>6. CASE j \in 1..Len(incident[k]) /\ incident'[k][j] = incident[k][j]
    BY <1>1, <2>2, <2>3, <2>6 DEF OpenIncidentsAreSpaced
  <2> QED BY <1>4, <2>4, <2>5, <2>6
<1>10. ScoreSupportsSeverity'
  <2> SUFFICES ASSUME NEW k \in Keys, NEW i \in 1..Len(incident'[k])
               PROVE  /\ incident'[k][i].score >= MinScore
                      /\ incident'[k][i].severity = "high" =>
                            incident'[k][i].score >= 65
                      /\ incident'[k][i].severity = "medium" =>
                            incident'[k][i].score >= 35
    BY DEF ScoreSupportsSeverity
  <2> DEFINE s == Score(Group(k))
  <2>1. /\ s \in 0..100
        /\ Level(s) = "high" => s >= 65
        /\ Level(s) = "medium" => s >= 35
        /\ Qualifies(Group(k)) => s >= MinScore
    BY GroupType, LevelType DEF Qualifies
  <2>2. CASE Qualifies(Group(k)) /\ incident'[k][i] = Created(Group(k))
    BY <2>1, <2>2 DEF Created
  <2>3. CASE /\ Qualifies(Group(k)) /\ i \in 1..Len(incident[k])
             /\ incident'[k][i] = Extended(incident[k][i], Group(k))
    <3>1. incident[k][i] \in IncidentRows
      BY <1>3, <2>3
    <3>2. /\ incident'[k][i].severity = Level(s)
          /\ incident'[k][i].score = IF s > incident[k][i].score THEN s
                                     ELSE incident[k][i].score
      BY <2>3, <3>1 DEF Extended, IncidentRows
    <3>3. incident[k][i].score \in 0..100 /\ incident[k][i].score >= MinScore
      BY <1>1, <2>3, <3>1 DEF IncidentRows, ScoreSupportsSeverity
    <3> DEFINE old == incident[k][i].score
               new == incident'[k][i].score
    <3>4. /\ s \in 0..100 /\ old \in 0..100 /\ old >= MinScore
          /\ MinScore \in Nat /\ new = IF s > old THEN s ELSE old
      BY <1>2, <2>1, <3>2, <3>3
    <3>5. /\ incident'[k][i].severity = "high" => s >= 65
          /\ incident'[k][i].severity = "medium" => s >= 35
      BY <2>1, <3>2
    <3> HIDE DEF s, old, new
    <3>6. new >= s /\ new >= MinScore /\ new \in 0..100
      BY <3>4
    <3>7. /\ incident'[k][i].severity = "high" => new >= 65
          /\ incident'[k][i].severity = "medium" => new >= 35
      BY <3>4, <3>5, <3>6
    <3> QED BY <3>6, <3>7 DEF new
  <2>4. CASE i \in 1..Len(incident[k]) /\ incident'[k][i] = incident[k][i]
    BY <1>1, <2>4 DEF ScoreSupportsSeverity
  <2> QED BY <1>4, <2>2, <2>3, <2>4
<1> QED BY <1>5, <1>6, <1>7, <1>8, <1>9, <1>10 DEF IInv

\* A new event belongs to no incident; a pruned one did not either.
LEMMA AddEventInv ==
  ASSUME IInv, NEW e \in EventIds, NEW s \in Subjects, NEW kind \in Kinds,
         AddEvent(e, s, kind)
  PROVE  IInv'
<1> DEFINE new == [row |-> "row", at |-> now, who |-> s, kind |-> kind, inc |-> 0]
<1>1. /\ TypeOK /\ Past /\ Assigned /\ EventCountMatches
      /\ OpenIncidentsAreSpaced /\ ScoreSupportsSeverity
  BY DEF IInv
<1>2. /\ event[e] = NoEvent /\ event' = [event EXCEPT ![e] = new]
      /\ UNCHANGED <<now, incident, pc, at>>
  BY DEF AddEvent
<1>3. new \in Rows
  BY <1>1 DEF Rows, TypeOK
<1>4. TypeOK'
  BY <1>1, <1>2, <1>3 DEF TypeOK
<1>5. event'[e] = new /\ \A x \in EventIds : x # e => event'[x] = event[x]
  BY <1>1, <1>2 DEF TypeOK
<1>6. ASSUME NEW k \in Keys, NEW i \in Nat \ {0}
      PROVE  EventsOf(k, i)' = EventsOf(k, i)
  BY <1>2, <1>5 DEF EventsOf, Exists
<1>7. Past' /\ OpenIncidentsAreSpaced' /\ ScoreSupportsSeverity'
  BY <1>1, <1>2 DEF Past, OpenIncidentsAreSpaced, ScoreSupportsSeverity
<1>8. Assigned'
  BY <1>1, <1>2, <1>5 DEF Assigned, Exists
<1>9. EventCountMatches'
  BY <1>1, <1>2, <1>6 DEF EventCountMatches
<1> QED BY <1>4, <1>7, <1>8, <1>9 DEF IInv

LEMMA PruneInv == IInv /\ Prune => IInv'
<1> SUFFICES ASSUME IInv, Prune PROVE IInv'
  OBVIOUS
<1>1. /\ TypeOK /\ Past /\ Assigned /\ EventCountMatches
      /\ OpenIncidentsAreSpaced /\ ScoreSupportsSeverity
  BY DEF IInv
<1>2. UNCHANGED <<now, incident, pc, at>>
  BY DEF Prune
<1>3. ASSUME NEW e \in EventIds
      PROVE  \/ event'[e] = event[e]
             \/ event'[e] = Pruned /\ event[e].inc = 0
  BY DEF Prune
<1>4. TypeOK'
  <2>1. event' \in [EventIds -> Rows \cup {NoEvent, Pruned}]
    BY <1>1 DEF Prune, TypeOK
  <2> QED BY <1>1, <1>2, <2>1 DEF TypeOK
<1>5. ASSUME NEW e \in EventIds
      PROVE  Exists(e)' => Exists(e) /\ event'[e] = event[e]
  BY <1>3 DEF Exists
<1>6. ASSUME NEW k \in Keys, NEW i \in Nat \ {0}
      PROVE  EventsOf(k, i)' = EventsOf(k, i)
  BY <1>3, <1>5 DEF EventsOf, Exists
<1>7. Past' /\ OpenIncidentsAreSpaced' /\ ScoreSupportsSeverity'
  BY <1>1, <1>2 DEF Past, OpenIncidentsAreSpaced, ScoreSupportsSeverity
<1>8. Assigned'
  BY <1>1, <1>2, <1>5 DEF Assigned
<1>9. EventCountMatches'
  BY <1>1, <1>2, <1>6 DEF EventCountMatches
<1> QED BY <1>4, <1>7, <1>8, <1>9 DEF IInv

LEMMA CloseInv ==
  ASSUME IInv, NEW k \in Keys, NEW i \in 1..Len(incident[k]), Close(k, i)
  PROVE  IInv'
<1> DEFINE old == incident[k][i]
           new == [old EXCEPT !.status = "closed", !.updated = now]
<1>1. /\ TypeOK /\ Past /\ Assigned /\ EventCountMatches
      /\ OpenIncidentsAreSpaced /\ ScoreSupportsSeverity
  BY DEF IInv
<1>2. UNCHANGED <<now, event, pc, at>>
  BY DEF Close
<1>3. incident[k] \in Seq(IncidentRows) /\ old \in IncidentRows
  BY <1>1 DEF TypeOK
<1>4. incident' = [incident EXCEPT ![k] = [incident[k] EXCEPT ![i] = new]]
  BY DEF Close
<1>5. /\ new \in IncidentRows /\ new.status = "closed"
      /\ new.count = old.count /\ new.score = old.score
      /\ new.severity = old.severity /\ new.created = old.created
  BY <1>1, <1>3 DEF IncidentRows, TypeOK
<1> HIDE DEF new
<1>6. incident' \in [Keys -> Seq(IncidentRows)]
  BY <1>1, <1>3, <1>4, <1>5 DEF TypeOK
<1>7. \A x \in Keys : Len(incident'[x]) = Len(incident[x])
  BY <1>1, <1>3, <1>4 DEF TypeOK
<1>8. \A x \in Keys : \A j \in 1..Len(incident[x]) :
        incident'[x][j] = IF x = k /\ j = i THEN new ELSE incident[x][j]
  BY <1>1, <1>3, <1>4 DEF TypeOK
<1>9. TypeOK'
  BY <1>1, <1>2, <1>6 DEF TypeOK
<1>10. Past'
  BY <1>1, <1>2, <1>5, <1>7, <1>8 DEF Past
<1>11. Assigned'
  BY <1>1, <1>2, <1>7 DEF Assigned, Exists
<1>12. EventCountMatches'
  BY <1>1, <1>2, <1>5, <1>7, <1>8 DEF EventCountMatches, EventsOf, Exists
<1>13. OpenIncidentsAreSpaced'
  BY <1>1, <1>5, <1>7, <1>8 DEF OpenIncidentsAreSpaced
<1>14. ScoreSupportsSeverity'
  BY <1>1, <1>5, <1>7, <1>8 DEF ScoreSupportsSeverity
<1> QED BY <1>9, <1>10, <1>11, <1>12, <1>13, <1>14 DEF IInv

\* Reading the clock, giving up and the clock itself touch no table.
LEMMA QuietInv ==
  ASSUME IInv, TakeNow \/ Fail \/ Tick \/ UNCHANGED vars
  PROVE  IInv'
<1>1. UNCHANGED <<event, incident>>
  BY DEF TakeNow, Fail, Tick, vars
<1>2. /\ TypeOK /\ Past /\ Assigned /\ EventCountMatches
      /\ OpenIncidentsAreSpaced /\ ScoreSupportsSeverity
  BY DEF IInv
<1>3. TypeOK'
  BY <1>2 DEF TakeNow, Fail, Tick, vars, TypeOK
<1>4. Assigned' /\ EventCountMatches' /\ OpenIncidentsAreSpaced'
      /\ ScoreSupportsSeverity'
  BY <1>1, <1>2 DEF Assigned, EventCountMatches, OpenIncidentsAreSpaced,
                    ScoreSupportsSeverity, EventsOf, Exists
<1>5. Past'
  <2>1. now' >= now /\ at' <= now' /\ now \in Nat /\ now' \in Nat
    BY <1>2 DEF TakeNow, Fail, Tick, vars, TypeOK, Past
  <2>2. ASSUME NEW k \in Keys, NEW i \in 1..Len(incident[k])
        PROVE  /\ incident[k][i].created <= now'
               /\ pc' = "lock" => incident[k][i].created <= at'
    <3>1. incident[k][i] \in IncidentRows
      BY <1>2 DEF TypeOK
    <3>2. incident[k][i].created \in Nat /\ incident[k][i].created <= now
      BY <1>2, <3>1 DEF IncidentRows, Past
    <3> QED
      BY <1>2, <2>1, <3>2 DEF TakeNow, Fail, Tick, vars, Past
  <2> QED BY <1>1, <2>1, <2>2 DEF Past
<1> QED BY <1>3, <1>4, <1>5 DEF IInv

LEMMA Inductive == Spec => []IInv
<1>1. IInv /\ [Next]_vars => IInv'
  BY CorrelateInv, AddEventInv, PruneInv, CloseInv, QuietInv DEF Next
<1> QED BY <1>1, InitInv, PTL DEF Spec

-----------------------------------------------------------------------------
\* Every state Incidents reaches is well typed.
THEOREM Typing == Spec => []TypeOK
BY Inductive, PTL DEF IInv

\* The count of an incident is the number of its events, for ever.
THEOREM CountsMatch == Spec => []EventCountMatches
BY Inductive, PTL DEF IInv

\* Open incidents of one activity are separated by more than the window.
THEOREM OpenIncidentsSpaced == Spec => []OpenIncidentsAreSpaced
BY Inductive, PTL DEF IInv

\* No incident has a severity its score does not support.
THEOREM ScoresSupport == Spec => []ScoreSupportsSeverity
BY Inductive, PTL DEF IInv

\* A correlation writes to open incidents only, also when the incident was
\* closed after the correlation had read the clock.
THEOREM ClosingIsFinal == Spec => ClosedIsFinal
<1>1. ASSUME IInv, [Next]_vars, NEW k \in Keys, NEW i \in 1..Len(incident[k]),
             incident[k][i].status = "closed"
      PROVE  /\ incident'[k][i].status = "closed"
             /\ incident'[k][i].count = incident[k][i].count
             /\ incident'[k][i].score = incident[k][i].score
             /\ EventsOf(k, i)' = EventsOf(k, i)
  <2>1. /\ TypeOK /\ Past /\ OpenIncidentsAreSpaced
        /\ incident[k] \in Seq(IncidentRows) /\ i \in Nat \ {0}
    BY <1>1 DEF IInv, TypeOK
  <2>2. CASE Correlate
    <3>1. pc = "lock" /\ incident'[k] = Correlated(k)
      BY <2>2 DEF Correlate
    <3>2. i # Target(k)
      <4>1. i \notin Recent(k) /\ i <= Len(incident[k])
        BY <1>1, <2>1 DEF Recent
      <4> QED BY <2>1, <3>1, <4>1, TargetValue
    <3>3. EventsOf(k, i)' = EventsOf(k, i)
      BY <2>1, <2>2, <3>2, CorrelatedEvents
    <3>4. incident'[k][i] = incident[k][i]
      <4>1. CASE Qualifies(Group(k))
        BY <2>1, <3>1, <3>2, <4>1, CorrelatedValue
      <4>2. CASE ~Qualifies(Group(k))
        BY <3>1, <4>2 DEF Correlated
      <4> QED BY <4>1, <4>2
    <3> QED BY <1>1, <3>3, <3>4
  <2>3. ASSUME NEW x \in Keys, NEW j \in 1..Len(incident[x]), Close(x, j)
        PROVE  /\ incident'[k][i].status = "closed"
               /\ incident'[k][i].count = incident[k][i].count
               /\ incident'[k][i].score = incident[k][i].score
               /\ EventsOf(k, i)' = EventsOf(k, i)
    <3>1. EventsOf(k, i)' = EventsOf(k, i)
      BY <2>3 DEF Close, EventsOf, Exists
    <3>2. incident[k][i] \in IncidentRows
      BY <2>1
    <3>3. \/ incident'[k][i] = incident[k][i]
          \/ incident'[k][i] =
                [incident[k][i] EXCEPT !.status = "closed", !.updated = now]
      <4> DEFINE new == [incident[x][j] EXCEPT !.status = "closed", !.updated = now]
      <4>1. incident' = [incident EXCEPT ![x] = [incident[x] EXCEPT ![j] = new]]
        BY <2>3 DEF Close
      <4>2. /\ incident \in [Keys -> Seq(IncidentRows)]
            /\ i \in 1..Len(incident[k])
        BY <1>1, <2>1 DEF TypeOK
      <4>3. new = [incident[x][j] EXCEPT !.status = "closed", !.updated = now]
        OBVIOUS
      <4> HIDE DEF new
      <4>4. CASE x # k
        BY <2>3, <4>1, <4>2, <4>4
      <4>5. CASE x = k
        <5>1. incident'[k] = [incident[k] EXCEPT ![j] = new]
          BY <4>1, <4>2, <4>5
        <5>2. CASE i = j
          <6>1. incident'[k][i] = new
            BY <2>1, <4>2, <5>1, <5>2
          <6>2. incident[x][j] = incident[k][i]
            BY <4>5, <5>2
          <6> QED BY <4>3, <6>1, <6>2, Zenon
        <5>3. CASE i # j
          BY <2>1, <4>2, <5>1, <5>3
        <5> QED BY <5>2, <5>3
      <4> QED BY <4>4, <4>5
    <3> QED BY <1>1, <3>1, <3>2, <3>3 DEF IncidentRows
  <2>4. ASSUME NEW e \in EventIds, NEW s \in Subjects, NEW kind \in Kinds,
               AddEvent(e, s, kind)
        PROVE  UNCHANGED incident /\ EventsOf(k, i)' = EventsOf(k, i)
    <3>1. /\ event[e] = NoEvent /\ event'[e].inc = 0 /\ UNCHANGED incident
          /\ \A x \in EventIds : x # e => event'[x] = event[x]
      BY <2>1, <2>4 DEF AddEvent, TypeOK
    <3> QED BY <2>1, <3>1 DEF EventsOf, Exists
  <2>5. CASE Prune
    <3>1. ASSUME NEW e \in EventIds
          PROVE  event'[e] = event[e] \/ (event'[e] = Pruned /\ event[e].inc = 0)
      BY <2>5 DEF Prune
    <3>2. EventsOf(k, i)' = EventsOf(k, i) /\ UNCHANGED incident
      BY <2>1, <2>5, <3>1 DEF EventsOf, Exists, Prune
    <3> QED BY <1>1, <3>2
  <2>6. CASE TakeNow \/ Fail \/ Tick \/ UNCHANGED vars
    BY <1>1, <2>6 DEF TakeNow, Fail, Tick, vars, EventsOf, Exists
  <2> QED BY <1>1, <2>2, <2>3, <2>4, <2>5, <2>6 DEF Next
<1>2. IInv /\ [Next]_vars =>
        [\A k \in Keys : \A i \in 1..Len(incident[k]) :
           incident[k][i].status = "closed" =>
               /\ incident'[k][i].status = "closed"
               /\ incident'[k][i].count = incident[k][i].count
               /\ incident'[k][i].score = incident[k][i].score
               /\ EventsOf(k, i)' = EventsOf(k, i)]_vars
  BY <1>1
<1> QED BY <1>2, Inductive, PTL DEF Spec, ClosedIsFinal
=============================================================================
