------------------------ MODULE IntelligenceLoopProofs ------------------------
(***************************************************************************)
(* What is proved of IntelligenceLoop for any DNS cache, any names, any    *)
(* thresholds, periods and number of errors: the loop implements           *)
(* Incidents, every name with "xn--" is announced or excused, and history  *)
(* is pruned and serious events are correlated in time.                    *)
(***************************************************************************)
EXTENDS IntelligenceLoop, FiniteSetTheorems, WellFoundedInduction, TLAPS

-----------------------------------------------------------------------------
(* The refinement. *)

\* A step of the loop or of the program around it is one of Incidents, or leaves
\* its variables alone.
LEMMA StepImplements == [Next]_vars => [Inc!Next]_(Inc!vars)
<1> SUFFICES ASSUME [Next]_vars
             PROVE  Inc!Next \/ UNCHANGED base
  BY DEF base, Inc!vars
<1>1. ASSUME NEW cache \in Caches, Begin(cache)
      PROVE  UNCHANGED base
  BY <1>1 DEF Begin
<1>2. ASSUME NEW r \in Records, StoreRecord(r)
      PROVE  UNCHANGED base
  BY <1>2 DEF StoreRecord
<1>3. ASSUME NEW chosen \in SUBSET Idn, Decide(chosen)
      PROVE  UNCHANGED base
  BY <1>3 DEF Decide
<1>4. ASSUME NEW name \in Idn, Announce(name)
      PROVE  UNCHANGED base
  BY <1>4 DEF Announce
<1>5. CASE Announced
  BY <1>5 DEF Announced
<1>6. CASE TakeNow
  BY <1>6 DEF TakeNow, Inc!Next
<1>7. CASE Correlate
  BY <1>7 DEF Correlate, Inc!Next
<1>8. ASSUME NEW old \in SUBSET rows, Prune(old)
      PROVE  Inc!Prune \/ UNCHANGED base
  BY <1>8 DEF Prune
<1>9. CASE Fail
  <2>1. Inc!Fail \/ UNCHANGED base
    BY <1>9 DEF Fail
  <2> QED BY <2>1 DEF Inc!Next
<1>10. ASSUME NEW e \in EventIds, NEW s \in Subjects, NEW kind \in Kinds,
              AddEvent(e, s, kind)
       PROVE  Inc!Next
  BY <1>10 DEF AddEvent, Inc!Next
<1>11. ASSUME NEW k \in Inc!Keys, NEW i \in 1..Len(incident[k]), Close(k, i)
       PROVE  Inc!Next
  BY <1>11 DEF Close, Inc!Next
<1>12. ASSUME NEW r \in Sniffed, Sniff(r)
       PROVE  UNCHANGED base
  BY <1>12 DEF Sniff
<1>13. CASE Expire \/ Stop
  BY <1>13 DEF Expire, Stop
<1>14. CASE Tick
  BY <1>14 DEF Tick, Inc!Next
<1>15. CASE UNCHANGED vars
  BY <1>15 DEF vars
<1>16. CASE Cycle
  BY <1>1, <1>2, <1>3, <1>4, <1>5, <1>6, <1>7, <1>8, <1>9, <1>16 DEF Cycle, Inc!Next
<1> QED BY <1>10, <1>11, <1>12, <1>13, <1>14, <1>15, <1>16 DEF Next

\* The loop correlates and prunes only as Incidents allows: every theorem about
\* Incidents holds for the program with its loop.
THEOREM LoopImplementsIncidents == Spec => ImplementsIncidents
<1>1. Init => Inc!Init
  BY DEF Init
<1> QED BY <1>1, StepImplements, PTL DEF Spec, ImplementsIncidents, Inc!Spec
-----------------------------------------------------------------------------
(* Names with "xn--". *)

\* Between the decision and the last alert, every new name is still to be
\* announced, or has been, or is excused.
Decided == step = "idn" => NewIdn \subseteq todo \cup announced \cup excused

IInv == Decided /\ IdnIsAnnounced

LEMMA IdnInit == Init => IInv
BY DEF Init, IInv, Decided, IdnIsAnnounced, Names

\* Steps that leave the names, the place and the list alone.
LEMMA IdnQuiet ==
  ASSUME IInv, UNCHANGED <<step, todo, added, rows, announced, excused>>
  PROVE  IInv'
BY DEF IInv, Decided, IdnIsAnnounced, NewIdn, Names, Name

\* Rows of the DNS cache come only from the loop, and only go with prune_history.
LEMMA IdnFewerRows ==
  ASSUME IInv, step \notin {"dns", "idn"}, step' # "idn",
         (rows \cap Records)' \subseteq rows \cap Records,
         UNCHANGED <<announced, excused>>
  PROVE  IInv'
BY DEF IInv, Decided, IdnIsAnnounced, Names

LEMMA IdnStore ==
  ASSUME IInv, NEW r \in Records, StoreRecord(r)
  PROVE  IInv'
<1>1. /\ step = "dns" /\ step' = "dns" /\ rows' = rows \cup {r}
      /\ added' = IF IsNew(r) THEN added \cup {r} ELSE added
      /\ UNCHANGED <<announced, excused>>
  BY DEF StoreRecord
<1>2. ASSUME NEW name \in Idn, name \in Names(rows' \cap Records)
      PROVE  name \in announced \cup excused \cup Names(added')
  <2>1. PICK q \in rows' \cap Records : name = Name(q)
    BY <1>2 DEF Names
  <2>2. CASE q \in rows
    BY <1>1, <2>1, <2>2 DEF IInv, IdnIsAnnounced, Names
  <2>3. CASE q \notin rows
    BY <1>1, <2>1, <2>3 DEF IsNew, Names
  <2> QED BY <2>2, <2>3
<1> QED BY <1>1, <1>2 DEF IInv, Decided, IdnIsAnnounced, Names

LEMMA IdnDecide ==
  ASSUME IInv, NEW chosen \in SUBSET Idn, Decide(chosen)
  PROVE  IInv'
<1>1. /\ step = "dns" /\ step' = "idn" /\ todo' = chosen
      /\ excused' = excused \cup (NewIdn \ (chosen \cup announced))
      /\ UNCHANGED <<added, rows, announced>>
  BY DEF Decide
<1>2. NewIdn' = NewIdn
  BY <1>1 DEF NewIdn, Names
<1>3. Decided'
  BY <1>1, <1>2 DEF Decided
<1>4. IdnIsAnnounced'
  BY <1>1 DEF IInv, IdnIsAnnounced, Names
<1> QED BY <1>3, <1>4 DEF IInv

LEMMA IdnAnnounce ==
  ASSUME IInv, NEW name \in Idn, Announce(name)
  PROVE  IInv'
<1>1. /\ step = "idn" /\ todo' = todo \ {name}
      /\ announced' = announced \cup {name} /\ excused' = excused \ {name}
      /\ UNCHANGED <<step, added, rows>>
  BY DEF Announce
<1>2. NewIdn' = NewIdn
  BY <1>1 DEF NewIdn, Names
<1>3. Decided'
  BY <1>1, <1>2 DEF IInv, Decided
<1>4. IdnIsAnnounced'
  BY <1>1 DEF IInv, IdnIsAnnounced, Names
<1> QED BY <1>3, <1>4 DEF IInv

\* The last name is announced: nothing new is left without an alert or an excuse.
LEMMA IdnAnnounced ==
  ASSUME IInv, Announced
  PROVE  IInv'
<1>1. /\ step = "idn" /\ todo = {} /\ step' = "correlate"
      /\ UNCHANGED <<added, rows, announced, excused>>
  BY DEF Announced, cycle, dns
<1>2. NewIdn \subseteq announced \cup excused
  BY <1>1 DEF IInv, Decided
<1>3. IdnIsAnnounced'
  BY <1>1, <1>2 DEF IInv, IdnIsAnnounced, NewIdn, Names
<1> QED BY <1>1, <1>3 DEF IInv, Decided

LEMMA IdnFail ==
  ASSUME IInv, Fail
  PROVE  IInv'
<1>1. /\ step' = "begin" /\ excused' = excused \cup (NewIdn \ announced)
      /\ UNCHANGED <<rows, announced>>
  BY DEF Fail
<1>2. IdnIsAnnounced'
  BY <1>1 DEF IInv, IdnIsAnnounced, NewIdn, Names
<1> QED BY <1>1, <1>2 DEF IInv, Decided

LEMMA IdnStep == IInv /\ [Next]_vars => IInv'
<1> SUFFICES ASSUME IInv, [Next]_vars
             PROVE  IInv'
  OBVIOUS
<1>1. ASSUME NEW cache \in Caches, Begin(cache)
      PROVE  IInv'
  BY <1>1, IdnFewerRows DEF Begin, dns
<1>2. CASE TakeNow
  BY <1>2, IdnQuiet DEF TakeNow, cycle, dns
<1>3. CASE Correlate
  BY <1>3, IdnFewerRows DEF Correlate, dns
<1>4. ASSUME NEW old \in SUBSET rows, Prune(old)
      PROVE  IInv'
  <2>1. /\ step = "prune" /\ step' = "begin" /\ UNCHANGED <<announced, excused>>
        /\ rows' \subseteq rows
    BY <1>4 DEF Prune
  <2> QED BY <2>1, IdnFewerRows
<1>5. ASSUME NEW e \in EventIds, NEW s \in Subjects, NEW kind \in Kinds,
             AddEvent(e, s, kind)
      PROVE  IInv'
  BY <1>5, IdnQuiet DEF AddEvent, loop, cycle, dns
<1>6. ASSUME NEW k \in Inc!Keys, NEW i \in 1..Len(incident[k]), Close(k, i)
      PROVE  IInv'
  BY <1>6, IdnQuiet DEF Close, loop, cycle, dns
<1>7. ASSUME NEW r \in Sniffed, Sniff(r)
      PROVE  IInv'
  <2>1. /\ (rows \cap Records)' = rows \cap Records
        /\ UNCHANGED <<step, todo, added, announced, excused>>
    BY <1>7, RecordsAssumption DEF Sniff, loop, cycle, RecordsAssumption
  <2>2. Names((rows \cap Records)') = Names(rows \cap Records) /\ NewIdn' = NewIdn
    BY <2>1 DEF Names, NewIdn
  <2> QED BY <2>1, <2>2 DEF IInv, Decided, IdnIsAnnounced, Names
<1>8. CASE Expire
  BY <1>8, IdnQuiet DEF Expire, loop, cycle
<1>9. CASE Stop
  BY <1>9, IdnFewerRows DEF Stop, dns
<1>10. CASE Tick
  BY <1>10, IdnQuiet DEF Tick, loop, cycle, dns
<1>11. CASE UNCHANGED vars
  BY <1>11, IdnQuiet DEF vars, cycle, dns
<1>12. CASE Cycle
  BY <1>1, <1>2, <1>3, <1>4, <1>12, IdnStore, IdnDecide, IdnAnnounce, IdnAnnounced,
     IdnFail DEF Cycle
<1> QED BY <1>5, <1>6, <1>7, <1>8, <1>9, <1>10, <1>11, <1>12 DEF Next

\* A name with "xn--" in the DNS cache is announced, unless it was learnt in the
\* warm-up, by a cycle that failed or beyond the cap, whatever the cache shows and
\* the packet sensor stores.
THEOREM IdnAlwaysAnnounced == Spec => []IdnIsAnnounced
<1>1. IInv => IdnIsAnnounced
  BY DEF IInv
<1> QED BY <1>1, IdnInit, IdnStep, PTL DEF Spec

-----------------------------------------------------------------------------
(* Typing. *)

\* A set of positions has a largest one.
LEMMA LargestPosition ==
  ASSUME NEW n \in Nat, NEW S \in SUBSET (1..n), S # {}
  PROVE  Inc!Max(S) \in S
<1> DEFINE T == {m \in Nat : n - m \in S}
<1>1. T \subseteq Nat /\ T # {}
  <2>1. PICK i \in S : TRUE
    OBVIOUS
  <2>2. n - i \in Nat /\ n - (n - i) = i
    BY <2>1
  <2> QED BY <2>1, <2>2
<1>2. PICK m \in T : \A k \in T : ~(<<k, m>> \in OpToRel(<, Nat))
  <2> HIDE DEF T
  <2> QED BY <1>1, NatLessThanWellFounded, WFMin
<1>3. \A k \in T : k >= m
  <2> SUFFICES ASSUME NEW k \in T, k < m PROVE FALSE
    BY <1>1
  <2> QED BY <1>2 DEF OpToRel
<1>4. n - m \in S /\ \A j \in S : n - m >= j
  <2>1. ASSUME NEW j \in S PROVE n - m >= j
    <3>1. n - j \in Nat /\ n - (n - j) = j
      OBVIOUS
    <3>2. n - j \in T
      BY <3>1
    <3>3. n - j >= m
      BY <1>3, <3>2
    <3> QED BY <3>1, <3>3
  <2> QED BY <2>1
<1> QED BY <1>4 DEF Inc!Max

\* Incidents counts as this module does.
LEMMA SameCount == \A S : Inc!Cardinality(S) = Cardinality(S)
BY DEF Inc!Cardinality, Cardinality

\* Any set of events is finite, and a larger one has no fewer events, nor fewer
\* of a severity, nor fewer categories.
LEMMA GroupsGrow ==
  ASSUME NEW G \in SUBSET EventIds, NEW H \in SUBSET G
  PROVE  /\ Cardinality(H) \in Nat /\ Cardinality(G) \in Nat
         /\ Cardinality(H) <= Cardinality(G)
         /\ Cardinality(Inc!Categories(H)) \in Nat /\ Cardinality(Inc!Categories(G)) \in Nat
         /\ Cardinality(Inc!Categories(H)) <= Cardinality(Inc!Categories(G))
<1>1. IsFiniteSet(G)
  BY IncidentsAssumption, FS_Subset DEF IncidentsAssumption
<1>2. /\ Cardinality(H) \in Nat /\ Cardinality(G) \in Nat
      /\ Cardinality(H) <= Cardinality(G)
  BY <1>1, FS_Subset, FS_CardinalityType
<1> DEFINE f == [e \in G |-> event[e].kind[1]]
<1>3. f \in Surjection(G, Inc!Categories(G))
  BY DEF Surjection, Inc!Categories
<1>4. IsFiniteSet(Inc!Categories(G))
  BY <1>1, <1>3, FS_Surjection
<1>5. Inc!Categories(H) \subseteq Inc!Categories(G)
  BY DEF Inc!Categories
<1> QED BY <1>2, <1>4, <1>5, FS_Subset, FS_CardinalityType

\* A score is a percentage, and no event of a group lowers it.
LEMMA ScoreGrows ==
  ASSUME NEW G \in SUBSET EventIds, NEW H \in SUBSET G
  PROVE  /\ Inc!Score(G) \in 0..100 /\ Inc!Score(H) \in 0..100
         /\ Inc!Score(H) <= Inc!Score(G)
<1> DEFINE count(K, s) == Cardinality(Inc!Having(K, s))
           more(K) == Inc!AtLeast0(Cardinality(Inc!Categories(K)) - 1)
           many(K) == Inc!AtLeast0(Cardinality(K) - 2)
           sum(K) == Inc!Weight(K) + 10 * more(K) + 2 * many(K)
<1>1. ASSUME NEW s
      PROVE  count(H, s) \in Nat /\ count(G, s) \in Nat /\ count(H, s) <= count(G, s)
  <2>1. /\ Inc!Having(G, s) \in SUBSET EventIds
        /\ Inc!Having(H, s) \in SUBSET Inc!Having(G, s)
    BY DEF Inc!Having
  <2> QED BY <2>1, GroupsGrow
<1>2. /\ Inc!Weight(H) \in Nat /\ Inc!Weight(G) \in Nat
      /\ Inc!Weight(H) <= Inc!Weight(G)
  <2>1. \A K : Inc!Weight(K) = 1 * count(K, "info") + 5 * count(K, "low")
                              + 22 * count(K, "medium") + 45 * count(K, "high")
    BY SameCount DEF Inc!Weight
  <2> HIDE DEF count
  <2>2. /\ count(H, "info") \in Nat /\ count(G, "info") \in Nat
        /\ count(H, "info") <= count(G, "info")
        /\ count(H, "low") \in Nat /\ count(G, "low") \in Nat
        /\ count(H, "low") <= count(G, "low")
        /\ count(H, "medium") \in Nat /\ count(G, "medium") \in Nat
        /\ count(H, "medium") <= count(G, "medium")
        /\ count(H, "high") \in Nat /\ count(G, "high") \in Nat
        /\ count(H, "high") <= count(G, "high")
    BY <1>1
  <2> QED BY <2>1, <2>2
<1>3. /\ more(H) \in Nat /\ more(G) \in Nat /\ more(H) <= more(G)
      /\ many(H) \in Nat /\ many(G) \in Nat /\ many(H) <= many(G)
  BY GroupsGrow DEF Inc!AtLeast0
<1>4. \A K : Inc!Score(K) = IF sum(K) > 100 THEN 100 ELSE sum(K)
  BY SameCount DEF Inc!Score
<1> HIDE DEF more, many
<1>5. sum(H) \in Nat /\ sum(G) \in Nat /\ sum(H) <= sum(G)
  BY <1>2, <1>3
<1> HIDE DEF sum
<1> QED BY <1>4, <1>5

LEMMA LevelType ==
  ASSUME NEW score \in 0..100
  PROVE  Inc!Level(score) \in {"low", "medium", "high"}
BY DEF Inc!Level

\* What exists is a full row.
LEMMA ExistingRow ==
  ASSUME Inc!TypeOK, NEW e \in EventIds, Inc!Exists(e)
  PROVE  event[e] \in Inc!Rows
BY DEF Inc!TypeOK, Inc!Exists

\* A group goes to a position of its incidents, or to the one after the last.
LEMMA TargetType ==
  ASSUME Inc!TypeOK, NEW k \in Inc!Keys
  PROVE  /\ Inc!Target(k) \in Nat \ {0}
         /\ Inc!Recent(k) # {} => Inc!Target(k) \in 1..Len(incident[k])
<1>1. Len(incident[k]) \in Nat
  BY DEF Inc!TypeOK
<1>2. CASE Inc!Recent(k) = {}
  BY <1>1, <1>2 DEF Inc!Target
<1>3. CASE Inc!Recent(k) # {}
  <2>1. Inc!Recent(k) \in SUBSET (1..Len(incident[k]))
    BY DEF Inc!Recent
  <2>2. Inc!Max(Inc!Recent(k)) \in Inc!Recent(k)
    BY <1>1, <1>3, <2>1, LargestPosition
  <2>3. Inc!Target(k) = Inc!Max(Inc!Recent(k))
    BY <1>3 DEF Inc!Target
  <2> QED BY <1>1, <1>3, <2>1, <2>2, <2>3
<1> QED BY <1>2, <1>3

LEMMA CorrelatedType ==
  ASSUME Inc!TypeOK, NEW k \in Inc!Keys
  PROVE  Inc!Correlated(k) \in Seq(Inc!IncidentRows)
<1> DEFINE G == Inc!Group(k)
<1>1. incident[k] \in Seq(Inc!IncidentRows) /\ at \in Nat
  BY DEF Inc!TypeOK
<1>2. G \in SUBSET EventIds
  BY DEF Inc!Group
<1>3. Inc!Score(G) \in 0..100 /\ Inc!Cardinality(G) \in Nat
  BY <1>2, ScoreGrows, GroupsGrow, SameCount
<1>4. Inc!Level(Inc!Score(G)) \in {"low", "medium", "high"}
  BY <1>3, LevelType
<1>5. CASE ~Inc!Qualifies(G)
  BY <1>1, <1>5 DEF Inc!Correlated
<1>6. CASE Inc!Qualifies(G) /\ Inc!Recent(k) = {}
  <2>1. Inc!Correlated(k) = Append(incident[k], Inc!Created(G))
    BY <1>6 DEF Inc!Correlated
  <2>2. Inc!Created(G) \in Inc!IncidentRows
    BY <1>1, <1>3, <1>4 DEF Inc!Created, Inc!IncidentRows
  <2> HIDE DEF G
  <2> QED BY <1>1, <2>1, <2>2
<1>7. CASE Inc!Qualifies(G) /\ Inc!Recent(k) # {}
  <2> DEFINE t == Inc!Target(k)
             old == incident[k][t]
             best == IF Inc!Score(G) > old.score THEN Inc!Score(G) ELSE old.score
  <2>1. t \in 1..Len(incident[k])
    BY <1>7, TargetType
  <2>2. Inc!Correlated(k) = [incident[k] EXCEPT ![t] = Inc!Extended(old, G)]
    BY <1>7 DEF Inc!Correlated
  <2>3. old \in Inc!IncidentRows
    BY <1>1, <2>1
  <2>4. best \in 0..100 /\ old.count + Inc!Cardinality(G) \in Nat
    BY <1>3, <2>3 DEF Inc!IncidentRows
  <2>5. Inc!Extended(old, G) =
          [old EXCEPT !.updated = at, !.severity = Inc!Level(Inc!Score(G)),
                      !.count = old.count + Inc!Cardinality(G), !.score = best]
    BY DEF Inc!Extended
  <2>6. Inc!Extended(old, G) \in Inc!IncidentRows
    <3> HIDE DEF best
    <3> QED BY <1>1, <1>4, <2>3, <2>4, <2>5 DEF Inc!IncidentRows
  <2> HIDE DEF t, old
  <2> QED BY <1>1, <2>1, <2>2, <2>6
<1> QED BY <1>5, <1>6, <1>7

\* What a correlation does to an event: nothing, or it assigns it.
LEMMA CorrelatedEvent ==
  ASSUME Inc!TypeOK, Inc!Correlate, NEW e \in EventIds
  PROVE  \/ event'[e] = event[e]
         \/ /\ Inc!Fresh(e) /\ event[e] \in Inc!Rows
            /\ \E i \in Nat \ {0} : event'[e] = [event[e] EXCEPT !.inc = i]
<1> DEFINE k == Inc!Fingerprint(event[e].who)
<1>1. CASE Inc!Fresh(e) /\ k \in Inc!Keys /\ event'[e] = [event[e] EXCEPT !.inc = Inc!Target(k)]
  <2>1. event[e] \in Inc!Rows
    BY <1>1, ExistingRow DEF Inc!Fresh
  <2>2. Inc!Target(k) \in Nat \ {0}
    BY <1>1, TargetType
  <2> QED BY <1>1, <2>1, <2>2
<1> QED BY <1>1 DEF Inc!Correlate

LEMMA IncCorrelateType ==
  ASSUME Inc!TypeOK, Inc!Correlate
  PROVE  Inc!TypeOK'
<1>1. incident' \in [Inc!Keys -> Seq(Inc!IncidentRows)]
  BY CorrelatedType DEF Inc!Correlate
<1>2. ASSUME NEW e \in EventIds
      PROVE  event'[e] \in Inc!Rows \cup {Inc!NoEvent, Inc!Pruned}
  <2>1. CASE event'[e] = event[e]
    BY <2>1 DEF Inc!TypeOK
  <2>2. ASSUME event[e] \in Inc!Rows, NEW i \in Nat \ {0},
               event'[e] = [event[e] EXCEPT !.inc = i]
        PROVE  event'[e] \in Inc!Rows
    BY <2>2 DEF Inc!Rows
  <2> QED BY <2>1, <2>2, CorrelatedEvent
<1>3. event' \in [EventIds -> Inc!Rows \cup {Inc!NoEvent, Inc!Pruned}]
  BY <1>2 DEF Inc!Correlate
<1> QED BY <1>1, <1>3 DEF Inc!Correlate, Inc!TypeOK

LEMMA IncCloseType ==
  ASSUME Inc!TypeOK, NEW k \in Inc!Keys, NEW i \in 1..Len(incident[k]), Inc!Close(k, i)
  PROVE  Inc!TypeOK'
<1> DEFINE old == incident[k][i]
           new == [old EXCEPT !.status = "closed", !.updated = now]
<1>1. incident[k] \in Seq(Inc!IncidentRows) /\ old \in Inc!IncidentRows
  BY DEF Inc!TypeOK
<1>2. incident' = [incident EXCEPT ![k] = [incident[k] EXCEPT ![i] = new]]
  BY DEF Inc!Close
<1>3. new \in Inc!IncidentRows
  BY <1>1 DEF Inc!IncidentRows, Inc!TypeOK
<1> HIDE DEF new
<1>4. incident' \in [Inc!Keys -> Seq(Inc!IncidentRows)]
  BY <1>1, <1>2, <1>3 DEF Inc!TypeOK
<1> QED BY <1>4 DEF Inc!Close, Inc!TypeOK

\* The variables of Incidents keep their types.
LEMMA IncType == Inc!TypeOK /\ [Inc!Next]_(Inc!vars) => Inc!TypeOK'
<1> SUFFICES ASSUME Inc!TypeOK, [Inc!Next]_(Inc!vars)
             PROVE  Inc!TypeOK'
  OBVIOUS
<1>1. ASSUME NEW e \in EventIds, NEW s \in Subjects, NEW kind \in Kinds,
             Inc!AddEvent(e, s, kind)
      PROVE  Inc!TypeOK'
  <2> DEFINE new == [row |-> "row", at |-> now, who |-> s, kind |-> kind, inc |-> 0]
  <2>1. new \in Inc!Rows
    BY DEF Inc!Rows, Inc!TypeOK
  <2>2. event' = [event EXCEPT ![e] = new] /\ UNCHANGED <<now, incident, pc, at>>
    BY <1>1 DEF Inc!AddEvent
  <2> HIDE DEF new
  <2> QED BY <2>1, <2>2 DEF Inc!TypeOK
<1>2. CASE Inc!TakeNow \/ Inc!Fail \/ Inc!Tick
  BY <1>2 DEF Inc!TakeNow, Inc!Fail, Inc!Tick, Inc!TypeOK
<1>3. CASE Inc!Prune
  <2>1. event' \in [EventIds -> Inc!Rows \cup {Inc!NoEvent, Inc!Pruned}]
    BY <1>3 DEF Inc!Prune, Inc!TypeOK
  <2> QED BY <1>3, <2>1 DEF Inc!Prune, Inc!TypeOK
<1>4. CASE UNCHANGED Inc!vars
  BY <1>4 DEF Inc!vars, Inc!TypeOK
<1> QED BY <1>1, <1>2, <1>3, <1>4, IncCorrelateType, IncCloseType DEF Inc!Next

-----------------------------------------------------------------------------
(* The clocks of the loop. *)

\* The time of so many periods.
Delay(n) == n * Period

LEMMA DelayGrows ==
  ASSUME NEW n \in Nat
  PROVE  /\ Delay(n) \in Nat
         /\ Delay(n + 1) = Delay(n) + Period
         /\ Delay(n + 2) = Delay(n) + Period + Period
         /\ Delay((n + 1) + 2) = Delay(n) + Period + Period + Period
         /\ Delay(0) = 0
         /\ Period \in Nat \ {0}
BY LoopAssumption DEF LoopAssumption, Delay

\* The clock reading of the cycle, the one of its correlation and the clock.
Clocks ==
    /\ cycleNow <= now /\ now <= cycleNow + Period
    /\ pc = "lock" => cycleNow <= at /\ at <= now

\* The last pruning is an hour old at most, not counting the cycle that is under
\* way and the ones that failed.
PruningDue ==
    step # "ended" =>
        cycleNow <= lastPrune + Hour + Delay(IF step = "begin" THEN failures ELSE failures + 1)

\* That pruning left no older event outside incidents.
PrunedThen ==
    \A e \in EventIds :
        Inc!Exists(e) /\ event[e].inc = 0 => lastPrune <= event[e].at + Retention

\* The cycles that may have gone by since the last correlation.
Missed ==
    IF step = "prune" THEN 0 ELSE IF step = "begin" THEN failures ELSE failures + 1

\* When the window covers the failures, every serious event outside incidents is
\* newer than the last correlation that went through.
CorrelatedThen ==
    step # "ended" /\ Delay(failures + 2) <= Window =>
        \A e \in EventIds :
            Serious(e) /\ event[e].inc = 0 => cycleNow <= event[e].at + Delay(Missed)

LoopInv == TypeOK /\ Clocks /\ PruningDue /\ PrunedThen /\ CorrelatedThen

LEMMA LoopInit == Init => LoopInv
<1> SUFFICES ASSUME Init PROVE LoopInv
  OBVIOUS
<1>1. /\ {Hour, MaxFailures, Window, MinScore, Retention, MaxTime} \subseteq Nat
      /\ Period \in Nat
  BY LoopAssumption, IncidentsAssumption DEF LoopAssumption, IncidentsAssumption
<1>2. Inc!TypeOK
  BY DEF Init, Inc!Init, Inc!TypeOK
<1>3. /\ now = 0 /\ pc = "idle" /\ step = "begin" /\ cycleNow = 0
      /\ lastPrune = 0 - Hour /\ failures = 0
      /\ \A e \in EventIds : ~Inc!Exists(e)
  BY DEF Init, Inc!Init, Inc!Exists
<1>4. 0 \in 0..MaxFailures /\ lastPrune \in Int /\ lastPrune <= 0
  BY <1>1, <1>3
<1>5. TypeOK
  <2>1. ready \in BOOLEAN /\ burst \in BOOLEAN
    BY DEF Init
  <2>2. seen = {} /\ todo = {} /\ added = {} /\ rows = {} /\ announced = {} /\ excused = {}
    BY DEF Init
  <2>3. /\ lastPrune \in Int /\ lastPrune <= cycleNow /\ cycleNow \in Nat
        /\ failures \in 0..MaxFailures
    BY <1>3, <1>4
  <2> QED BY <1>2, <1>3, <2>1, <2>2, <2>3 DEF TypeOK, Steps
<1>6. Clocks
  BY <1>1, <1>3 DEF Clocks
<1>7. PruningDue
  BY <1>1, <1>3, DelayGrows DEF PruningDue
<1>8. PrunedThen /\ CorrelatedThen
  BY <1>3 DEF PrunedThen, CorrelatedThen, Serious
<1> QED BY <1>5, <1>6, <1>7, <1>8 DEF LoopInv

\* The clock never goes back, and a cycle begins at what it shows.
LEMMA LoopTypeStep ==
  ASSUME TypeOK, Clocks, [Next]_vars
  PROVE  TypeOK'
<1>1. Inc!TypeOK'
  BY StepImplements, IncType DEF TypeOK
<1>2. /\ now \in Nat /\ pc \in {"idle", "lock"}
  BY DEF TypeOK, Inc!TypeOK
<1>3. MaxFailures \in Nat
  BY LoopAssumption DEF LoopAssumption
<1>4. ASSUME NEW cache \in Caches, Begin(cache)
      PROVE  TypeOK'
  <2>1. cache \subseteq Records
    BY RecordsAssumption DEF RecordsAssumption
  <2> QED BY <1>1, <1>2, <1>4, <2>1 DEF Begin, TypeOK, Clocks, Steps, base, dns
<1>5. ASSUME NEW r \in Records, StoreRecord(r)
      PROVE  TypeOK'
  BY <1>1, <1>5 DEF StoreRecord, TypeOK, Steps, base
<1>6. ASSUME NEW chosen \in SUBSET Idn, Decide(chosen)
      PROVE  TypeOK'
  <2>1. burst' \in BOOLEAN
    BY <1>6 DEF Decide
  <2>2. excused' \subseteq Idn \ announced
    BY <1>6 DEF Decide, TypeOK, NewIdn
  <2> QED BY <1>1, <1>6, <2>1, <2>2 DEF Decide, TypeOK, Steps, base
<1>7. ASSUME NEW name \in Idn, Announce(name)
      PROVE  TypeOK'
  BY <1>1, <1>7 DEF Announce, TypeOK, Steps, base
<1>8. CASE Announced
  BY <1>1, <1>8 DEF Announced, TypeOK, Steps, base, cycle, dns
<1>9. CASE TakeNow
  BY <1>1, <1>9 DEF TakeNow, TypeOK, Steps, cycle, dns
<1>10. CASE Correlate
  BY <1>1, <1>10 DEF Correlate, Inc!Correlate, TypeOK, Steps, cycle, dns
<1>11. ASSUME NEW old \in SUBSET rows, Prune(old)
       PROVE  TypeOK'
  <2>1. pc' = "idle" /\ rows' \subseteq rows
    BY <1>2, <1>11 DEF Prune, TypeOK, Inc!Prune, base
  <2>2. lastPrune' \in Int /\ lastPrune' <= cycleNow
    BY <1>11 DEF Prune, TypeOK
  <2> QED BY <1>1, <1>11, <2>1, <2>2 DEF Prune, TypeOK, Steps
<1>12. CASE Fail
  <2>1. pc' = "idle" /\ failures' \in 0..MaxFailures
    BY <1>2, <1>3, <1>12 DEF Fail, TypeOK, Inc!Fail, base
  <2> QED BY <1>1, <1>12, <2>1 DEF Fail, TypeOK, Steps, NewIdn
<1>13. ASSUME NEW e \in EventIds, NEW s \in Subjects, NEW kind \in Kinds,
              AddEvent(e, s, kind)
       PROVE  TypeOK'
  BY <1>1, <1>13 DEF AddEvent, Inc!AddEvent, TypeOK, Steps, loop, cycle, dns
<1>14. ASSUME NEW k \in Inc!Keys, NEW i \in 1..Len(incident[k]), Close(k, i)
       PROVE  TypeOK'
  BY <1>1, <1>14 DEF Close, Inc!Close, TypeOK, Steps, loop, cycle, dns
<1>15. ASSUME NEW r \in Sniffed, Sniff(r)
       PROVE  TypeOK'
  BY <1>1, <1>15 DEF Sniff, TypeOK, Steps, base, loop, cycle
<1>16. CASE Expire
  BY <1>1, <1>16 DEF Expire, TypeOK, Steps, base, loop, cycle
<1>17. CASE Stop
  BY <1>1, <1>17 DEF Stop, TypeOK, Steps, base, cycle, dns
<1>18. CASE Tick
  BY <1>1, <1>18 DEF Tick, Inc!Tick, TypeOK, Steps, loop, cycle, dns
<1>19. CASE UNCHANGED vars
  BY <1>1, <1>19 DEF vars, TypeOK, Steps, base, cycle, dns
<1>20. CASE Cycle
  BY <1>4, <1>5, <1>6, <1>7, <1>8, <1>9, <1>10, <1>11, <1>12, <1>20 DEF Cycle
<1> QED BY <1>13, <1>14, <1>15, <1>16, <1>17, <1>18, <1>19, <1>20 DEF Next

LEMMA ClocksStep ==
  ASSUME TypeOK, Clocks, [Next]_vars
  PROVE  Clocks'
<1>1. now \in Nat /\ cycleNow \in Nat /\ at \in Nat /\ Period \in Nat \ {0}
  BY LoopAssumption DEF TypeOK, Inc!TypeOK, LoopAssumption
<1>2. ASSUME NEW cache \in Caches, Begin(cache)
      PROVE  Clocks'
  <2>1. cycleNow' = now /\ now' = now /\ pc' = pc /\ pc # "lock"
    BY <1>2 DEF Begin, base, TypeOK
  <2> QED BY <1>1, <2>1 DEF Clocks
<1>3. CASE TakeNow
  BY <1>1, <1>3 DEF TakeNow, Inc!TakeNow, cycle, Clocks
<1>4. CASE Correlate \/ Fail
  <2>1. UNCHANGED <<now, cycleNow, at>> /\ (pc' = pc \/ pc' = "idle")
    BY <1>4 DEF Correlate, Fail, Inc!Correlate, Inc!Fail, cycle, base
  <2> QED BY <2>1 DEF Clocks
<1>5. ASSUME NEW old \in SUBSET rows, Prune(old)
      PROVE  Clocks'
  <2>1. UNCHANGED <<now, cycleNow, at, pc>>
    BY <1>5 DEF Prune, Inc!Prune, base
  <2> QED BY <2>1 DEF Clocks
<1>6. CASE Tick
  <2>1. /\ now' = now + 1 /\ now < cycleNow + Period
        /\ UNCHANGED <<cycleNow, at, pc>>
    BY <1>1, <1>6 DEF Tick, Inc!Tick, InTime, loop, cycle
  <2> QED BY <1>1, <2>1 DEF Clocks
<1>7. ASSUME UNCHANGED <<now, cycleNow, at, pc>>
      PROVE  Clocks'
  BY <1>7 DEF Clocks
<1>8. ASSUME NEW r \in Records, StoreRecord(r)
      PROVE  Clocks'
  BY <1>7, <1>8 DEF StoreRecord, base
<1>9. ASSUME NEW chosen \in SUBSET Idn, Decide(chosen)
      PROVE  Clocks'
  BY <1>7, <1>9 DEF Decide, base
<1>10. ASSUME NEW name \in Idn, Announce(name)
       PROVE  Clocks'
  BY <1>7, <1>10 DEF Announce, base
<1>11. CASE Announced \/ Stop
  BY <1>7, <1>11 DEF Announced, Stop, base, cycle
<1>12. ASSUME NEW e \in EventIds, NEW s \in Subjects, NEW kind \in Kinds,
              AddEvent(e, s, kind)
       PROVE  Clocks'
  BY <1>7, <1>12 DEF AddEvent, Inc!AddEvent, loop, cycle
<1>13. ASSUME NEW k \in Inc!Keys, NEW i \in 1..Len(incident[k]), Close(k, i)
       PROVE  Clocks'
  BY <1>7, <1>13 DEF Close, Inc!Close, loop, cycle
<1>14. ASSUME NEW r \in Sniffed, Sniff(r)
       PROVE  Clocks'
  BY <1>7, <1>14 DEF Sniff, base, loop, cycle
<1>15. CASE Expire
  BY <1>7, <1>15 DEF Expire, base, loop, cycle
<1>16. CASE UNCHANGED vars
  BY <1>7, <1>16 DEF vars, base, cycle
<1>17. CASE Cycle
  BY <1>2, <1>3, <1>4, <1>5, <1>8, <1>9, <1>10, <1>11, <1>17 DEF Cycle
<1> QED BY <1>6, <1>11, <1>12, <1>13, <1>14, <1>15, <1>16, <1>17 DEF Next

\* The steps, as far as the age of events and of the last pruning go.
Onward ==
    /\ UNCHANGED <<event, cycleNow, lastPrune, failures>>
    /\ \/ step' = step
       \/ step \in {"dns", "idn"} /\ step' \in {"idn", "correlate"}
       \/ step' = "ended"
Begun ==
    /\ step = "begin" /\ step' = "dns" /\ cycleNow' = now
    /\ UNCHANGED <<event, lastPrune, failures>>
Failed ==
    /\ step \in {"dns", "idn", "correlate", "prune"} /\ step' = "begin"
    /\ failures' = failures + 1
    /\ UNCHANGED <<event, cycleNow, lastPrune>>
Added ==
    /\ \E e \in EventIds, s \in Subjects, kind \in Kinds : Inc!AddEvent(e, s, kind)
    /\ UNCHANGED <<step, cycleNow, lastPrune, failures>>

LEMMA StepSummary ==
  ASSUME TypeOK, [Next]_vars
  PROVE  Onward \/ Begun \/ Failed \/ Added \/ Correlate \/ \E old \in SUBSET rows : Prune(old)
<1>1. ASSUME NEW cache \in Caches, Begin(cache)
      PROVE  Begun
  BY <1>1 DEF Begin, Begun, base
<1>2. ASSUME NEW r \in Records, StoreRecord(r)
      PROVE  Onward
  BY <1>2 DEF StoreRecord, Onward, base
<1>3. ASSUME NEW chosen \in SUBSET Idn, Decide(chosen)
      PROVE  Onward
  BY <1>3 DEF Decide, Onward, base
<1>4. ASSUME NEW name \in Idn, Announce(name)
      PROVE  Onward
  BY <1>4 DEF Announce, Onward, base
<1>5. CASE Announced
  BY <1>5 DEF Announced, Onward, base, cycle
<1>6. CASE TakeNow
  BY <1>6 DEF TakeNow, Inc!TakeNow, Onward, cycle
<1>7. CASE Fail
  BY <1>7 DEF Fail, Inc!Fail, Failed, base
<1>8. ASSUME NEW e \in EventIds, NEW s \in Subjects, NEW kind \in Kinds,
             AddEvent(e, s, kind)
      PROVE  Added
  BY <1>8 DEF AddEvent, Added, loop, cycle
<1>9. ASSUME NEW k \in Inc!Keys, NEW i \in 1..Len(incident[k]), Close(k, i)
      PROVE  Onward
  BY <1>9 DEF Close, Inc!Close, Onward, loop, cycle
<1>10. ASSUME NEW r \in Sniffed, Sniff(r)
       PROVE  Onward
  BY <1>10 DEF Sniff, Onward, base, loop, cycle
<1>11. CASE Expire
  BY <1>11 DEF Expire, Onward, base, loop, cycle
<1>12. CASE Stop
  BY <1>12 DEF Stop, Onward, base, cycle
<1>13. CASE Tick
  BY <1>13 DEF Tick, Inc!Tick, Onward, loop, cycle
<1>14. CASE UNCHANGED vars
  BY <1>14 DEF vars, Onward, base, cycle
<1>15. CASE Cycle
  BY <1>1, <1>2, <1>3, <1>4, <1>5, <1>6, <1>7, <1>15 DEF Cycle
<1> QED BY <1>8, <1>9, <1>10, <1>11, <1>12, <1>13, <1>14, <1>15 DEF Next

LEMMA PruningDueStep ==
  ASSUME TypeOK, Clocks, PruningDue, [Next]_vars
  PROVE  PruningDue'
<1>1. /\ now \in Nat /\ cycleNow \in Nat /\ lastPrune \in Int /\ Hour \in Nat
      /\ failures \in Nat /\ failures + 1 \in Nat
  BY LoopAssumption DEF TypeOK, Inc!TypeOK, LoopAssumption
<1>2. /\ Period \in Nat /\ Delay(failures) \in Nat /\ Delay(failures + 1) \in Nat
      /\ Delay(failures + 1) = Delay(failures) + Period
  BY <1>1, DelayGrows
<1>3. CASE Onward
  BY <1>3 DEF Onward, PruningDue, Delay
<1>4. CASE Begun
  BY <1>1, <1>2, <1>4 DEF Begun, PruningDue, Clocks, Delay
<1>5. CASE Failed
  BY <1>1, <1>2, <1>5 DEF Failed, PruningDue, Delay
<1>6. CASE Added \/ Correlate
  BY <1>6 DEF Added, Correlate, cycle, PruningDue, Delay
<1>7. ASSUME NEW old \in SUBSET rows, Prune(old)
      PROVE  PruningDue'
  <2>1. /\ step' = "begin" /\ UNCHANGED <<cycleNow, failures>>
        /\ \/ lastPrune' = cycleNow
           \/ lastPrune' = lastPrune /\ cycleNow - lastPrune < Hour
    BY <1>1, <1>7 DEF Prune
  <2>2. cycleNow' <= lastPrune' + Hour + Delay(failures)
    BY <1>1, <1>2, <2>1
  <2> QED BY <2>1, <2>2 DEF PruningDue, Delay
<1> QED BY <1>3, <1>4, <1>5, <1>6, <1>7, StepSummary

\* A correlation takes the time of no event, and sets none free.
LEMMA CorrelatedTimes ==
  ASSUME Inc!TypeOK, Inc!Correlate, NEW e \in EventIds, Inc!Exists(e)', event'[e].inc = 0
  PROVE  Inc!Exists(e) /\ event'[e] = event[e]
<1>1. ASSUME event[e] \in Inc!Rows, NEW i \in Nat \ {0},
             event'[e] = [event[e] EXCEPT !.inc = i]
      PROVE  event'[e].inc = i
  BY <1>1 DEF Inc!Rows
<1>2. event'[e] = event[e]
  BY <1>1, CorrelatedEvent
<1> QED BY <1>2 DEF Inc!Exists

LEMMA PrunedThenStep ==
  ASSUME TypeOK, Clocks, PrunedThen, [Next]_vars
  PROVE  PrunedThen'
<1>1. /\ now \in Nat /\ cycleNow \in Nat /\ lastPrune \in Int /\ lastPrune <= cycleNow
      /\ Retention \in Nat /\ cycleNow <= now
  BY IncidentsAssumption DEF TypeOK, Inc!TypeOK, IncidentsAssumption, Clocks
<1>2. CASE Onward \/ Begun \/ Failed
  BY <1>2 DEF Onward, Begun, Failed, PrunedThen, Inc!Exists
<1>3. CASE Added
  <2> SUFFICES ASSUME NEW e \in EventIds, Inc!Exists(e)', event'[e].inc = 0
               PROVE  lastPrune <= event'[e].at + Retention
    BY <1>3 DEF Added, PrunedThen
  <2>1. CASE event'[e] = event[e]
    BY <2>1 DEF PrunedThen, Inc!Exists
  <2>2. CASE event'[e] # event[e]
    <3>1. event'[e].at = now
      BY <1>3, <2>2 DEF Added, Inc!AddEvent, TypeOK, Inc!TypeOK
    <3> QED BY <1>1, <3>1
  <2> QED BY <2>1, <2>2
<1>4. CASE Correlate
  BY <1>4, CorrelatedTimes DEF Correlate, cycle, PrunedThen, TypeOK
<1>5. ASSUME NEW old \in SUBSET rows, Prune(old)
      PROVE  PrunedThen'
  <2> SUFFICES ASSUME NEW e \in EventIds, Inc!Exists(e)', event'[e].inc = 0
               PROVE  lastPrune' <= event'[e].at + Retention
    BY DEF PrunedThen
  <2>1. event'[e] = event[e] /\ Inc!Exists(e)
    BY <1>5 DEF Prune, Inc!Prune, base, Inc!Exists
  <2>2. event[e].at \in Nat
    BY <2>1, ExistingRow DEF TypeOK, Inc!Rows
  <2>3. CASE cycleNow - lastPrune >= Hour
    <3>1. ~Old(e)
      BY <1>5, <2>1, <2>3 DEF Prune, Inc!Prune, Old, Inc!Exists
    <3> QED BY <1>1, <1>5, <2>1, <2>2, <2>3, <3>1 DEF Old, Prune
  <2>4. CASE ~(cycleNow - lastPrune >= Hour)
    BY <1>5, <2>1, <2>4 DEF Prune, PrunedThen
  <2> QED BY <2>3, <2>4
<1> QED BY <1>2, <1>3, <1>4, <1>5, StepSummary

\* Whether an event is serious depends on the event alone.
LEMMA SeriousAlone ==
  ASSUME NEW e \in EventIds, event'[e] = event[e]
  PROVE  Serious(e)' <=> Serious(e)
<1>1. /\ \A s : Inc!Having({e}, s)' = Inc!Having({e}, s)
      /\ Inc!Categories({e})' = Inc!Categories({e})
  BY DEF Inc!Having, Inc!Categories
<1>2. Inc!Weight({e})' = Inc!Weight({e})
  BY <1>1 DEF Inc!Weight
<1>3. Inc!Score({e})' = Inc!Score({e})
  BY <1>1, <1>2 DEF Inc!Score
<1>4. Inc!Attention({e})' <=> Inc!Attention({e})
  BY <1>1 DEF Inc!Attention
<1> QED BY <1>3, <1>4 DEF Serious, Inc!Exists

\* A serious event qualifies whatever else is in its group: a correlation that
\* has it in its window assigns it.
LEMMA SeriousIsAssigned ==
  ASSUME Inc!TypeOK, Inc!Correlate, NEW e \in EventIds, Serious(e), Inc!Fresh(e)
  PROVE  event'[e].inc # 0
<1> DEFINE k == Inc!Fingerprint(event[e].who)
           G == Inc!Group(k)
<1>1. event[e] \in Inc!Rows
  BY ExistingRow DEF Serious
<1>2. k \in Inc!Keys
  BY <1>1 DEF Serious, Inc!Keys, Inc!Rows
<1>3. G \in SUBSET EventIds /\ {e} \in SUBSET G
  BY DEF Inc!Group
<1>4. Inc!Score({e}) <= Inc!Score(G) /\ Inc!Score({e}) \in 0..100 /\ Inc!Score(G) \in 0..100
  BY <1>3, ScoreGrows
<1>5. Inc!Attention(G)
  BY <1>3 DEF Serious, Inc!Attention, Inc!Having
<1>6. MinScore \in Nat /\ Inc!Score({e}) >= MinScore
  BY IncidentsAssumption DEF IncidentsAssumption, Serious
<1>7. Inc!Qualifies(G)
  BY <1>3, <1>4, <1>5, <1>6 DEF Inc!Qualifies
<1>8. event'[e] = [event[e] EXCEPT !.inc = Inc!Target(k)]
  BY <1>2, <1>7 DEF Inc!Correlate
<1>9. Inc!Target(k) \in Nat \ {0}
  BY <1>2, TargetType
<1> QED BY <1>1, <1>8, <1>9 DEF Inc!Rows

LEMMA CorrelatedThenStep ==
  ASSUME TypeOK, Clocks, CorrelatedThen, [Next]_vars
  PROVE  CorrelatedThen'
<1>1. /\ now \in Nat /\ cycleNow \in Nat /\ at \in Nat /\ Window \in Nat
      /\ failures \in Nat /\ failures + 1 \in Nat /\ failures + 2 \in Nat
      /\ cycleNow <= now /\ now <= cycleNow + Period
  <2>1. now \in Nat /\ at \in Nat
    BY DEF TypeOK, Inc!TypeOK
  <2>2. Window \in Nat /\ MaxFailures \in Nat
    BY IncidentsAssumption, LoopAssumption DEF IncidentsAssumption, LoopAssumption
  <2>3. cycleNow \in Nat /\ failures \in 0..MaxFailures
    BY DEF TypeOK
  <2>4. failures \in Nat /\ failures + 1 \in Nat /\ failures + 2 \in Nat
    BY <2>2, <2>3
  <2> QED BY <2>1, <2>2, <2>3, <2>4 DEF Clocks
<1>2. /\ Period \in Nat /\ Delay(0) = 0 /\ Delay(failures) \in Nat
      /\ Delay(failures + 1) = Delay(failures) + Period
      /\ Delay(failures + 2) = Delay(failures) + Period + Period
      /\ Delay((failures + 1) + 2) = Delay(failures) + Period + Period + Period
  BY <1>1, DelayGrows
<1> SUFFICES ASSUME step' # "ended", (Delay(failures + 2) <= Window)',
                    NEW e \in EventIds, Serious(e)', event'[e].inc = 0
             PROVE  (cycleNow <= event[e].at + Delay(Missed))'
  BY DEF CorrelatedThen
<1>3. failures' \in {failures, failures + 1}
  BY StepSummary DEF Onward, Begun, Failed, Added, Correlate, Prune, cycle
<1>4. Delay(failures + 2) <= Window
  <2>1. CASE failures' = failures
    BY <2>1 DEF Delay
  <2>2. CASE failures' = failures + 1
    <3>1. Delay((failures + 1) + 2) <= Window
      BY <2>2 DEF Delay
    <3> QED BY <1>1, <1>2, <3>1
  <2> QED BY <1>3, <2>1, <2>2
<1>5. ASSUME event'[e] = event[e]
      PROVE  /\ Serious(e) /\ event[e].inc = 0 /\ event[e].at \in Nat
             /\ step # "ended" => cycleNow <= event[e].at + Delay(Missed)
  <2>1. Serious(e) /\ event[e].inc = 0
    BY <1>5, SeriousAlone
  <2>2. event[e].at \in Nat
    BY <2>1, ExistingRow DEF TypeOK, Inc!Rows, Serious
  <2> QED BY <1>4, <2>1, <2>2 DEF CorrelatedThen
<1>6. CASE Onward
  <2>1. (Missed' = Missed /\ step # "ended") \/ step = "ended"
    BY <1>6 DEF Onward, Missed
  <2> QED BY <1>5, <1>6, <2>1 DEF Onward, Delay
<1>7. CASE Begun
  <2>1. /\ Missed = failures /\ Missed' = failures + 1 /\ cycleNow' = now
        /\ event' = event
    BY <1>7 DEF Begun, Missed
  <2>2. cycleNow <= event[e].at + Delay(failures) /\ event[e].at \in Nat
    BY <1>5, <1>7, <2>1 DEF Begun
  <2>3. now <= event[e].at + Delay(failures + 1)
    BY <1>1, <1>2, <2>2
  <2> QED BY <2>1, <2>3 DEF Delay
<1>8. CASE Failed
  <2>1. /\ Missed \in {0, failures + 1} /\ Missed' = failures + 1
        /\ UNCHANGED <<cycleNow, event>>
    BY <1>8 DEF Failed, Missed
  <2>2. cycleNow <= event[e].at + Delay(Missed) /\ event[e].at \in Nat
    BY <1>5, <1>8, <2>1 DEF Failed
  <2>3. cycleNow <= event[e].at + Delay(failures + 1)
    BY <1>1, <1>2, <2>1, <2>2
  <2> QED BY <2>1, <2>3 DEF Delay
<1>9. CASE Added
  <2>1. UNCHANGED <<step, cycleNow, failures>> /\ Missed' = Missed
    BY <1>9 DEF Added, Missed
  <2>2. CASE event'[e] = event[e]
    BY <1>5, <2>1, <2>2 DEF Delay
  <2>3. CASE event'[e] # event[e]
    <3>1. event'[e].at = now
      BY <1>9, <2>3 DEF Added, Inc!AddEvent, TypeOK, Inc!TypeOK
    <3>2. Delay(Missed) \in Nat
      BY <1>1, <1>2, DelayGrows DEF Missed
    <3> QED BY <1>1, <2>1, <3>1, <3>2 DEF Delay
  <2> QED BY <2>2, <2>3
<1>10. CASE Correlate
  <2>1. /\ step = "correlate" /\ Inc!Correlate /\ pc = "lock" /\ Missed = failures + 1
    BY <1>10 DEF Correlate, Inc!Correlate, Missed
  <2>2. event'[e] = event[e]
    BY <2>1, CorrelatedTimes DEF TypeOK, Serious
  <2>3. /\ Serious(e) /\ event[e].inc = 0 /\ event[e].at \in Nat
        /\ cycleNow <= event[e].at + Delay(failures + 1)
    BY <1>5, <2>1, <2>2
  <2>4. at <= cycleNow + Period
    BY <1>1, <1>2, <2>1 DEF Clocks
  <2>5. event[e].at + Window >= at
    BY <1>1, <1>2, <1>4, <2>3, <2>4
  <2>6. Inc!Fresh(e)
    BY <2>3, <2>5 DEF Serious, Inc!Fresh
  <2> QED BY <2>1, <2>2, <2>3, <2>6, SeriousIsAssigned DEF TypeOK
<1>11. ASSUME NEW old \in SUBSET rows, Prune(old)
       PROVE  (cycleNow <= event[e].at + Delay(Missed))'
  <2>1. /\ event'[e] = event[e] /\ step = "prune" /\ Missed = 0 /\ Missed' = failures
        /\ UNCHANGED <<cycleNow, failures>>
    BY <1>11 DEF Prune, Inc!Prune, base, Serious, Inc!Exists, Missed
  <2>2. cycleNow <= event[e].at + Delay(0) /\ event[e].at \in Nat
    BY <1>5, <2>1
  <2>3. cycleNow <= event[e].at + Delay(failures)
    BY <1>1, <1>2, <2>2
  <2> QED BY <2>1, <2>3 DEF Delay
<1> QED BY <1>6, <1>7, <1>8, <1>9, <1>10, <1>11, StepSummary

LEMMA LoopInductive == Spec => []LoopInv
<1>1. LoopInv /\ [Next]_vars => LoopInv'
  BY LoopTypeStep, ClocksStep, PruningDueStep, PrunedThenStep, CorrelatedThenStep
  DEF LoopInv
<1> QED BY <1>1, LoopInit, PTL DEF Spec

-----------------------------------------------------------------------------
(* The theorems about time. *)

\* The variables keep their types, those of Incidents included.
THEOREM Typing == Spec => []TypeOK
BY LoopInductive, PTL DEF LoopInv

\* An event outside incidents outlives its retention by an hour and two periods,
\* and a period more for every error, however the errors fall.
THEOREM HistoryAlwaysPruned == Spec => []HistoryIsPruned
<1>1. ASSUME LoopInv PROVE HistoryIsPruned
  <2> SUFFICES ASSUME NEW e \in EventIds, step # "ended", Inc!Exists(e), event[e].inc = 0
               PROVE  now - event[e].at <= Retention + Hour + (failures + 2) * Period
    BY DEF HistoryIsPruned
  <2>1. /\ now \in Nat /\ cycleNow \in Nat /\ lastPrune \in Int /\ failures \in Nat
        /\ Retention \in Nat /\ Hour \in Nat /\ event[e].at \in Nat
    BY <1>1, ExistingRow, IncidentsAssumption, LoopAssumption
    DEF LoopInv, TypeOK, Inc!TypeOK, Inc!Rows, IncidentsAssumption, LoopAssumption
  <2>2. /\ Period \in Nat /\ Delay(failures) \in Nat
        /\ Delay(failures + 1) = Delay(failures) + Period
        /\ Delay(failures + 2) = Delay(failures) + Period + Period
    BY <2>1, DelayGrows
  <2>3. cycleNow <= lastPrune + Hour + Delay(failures + 1)
    BY <1>1, <2>1, <2>2 DEF LoopInv, PruningDue
  <2>4. lastPrune <= event[e].at + Retention /\ now <= cycleNow + Period
    BY <1>1 DEF LoopInv, PrunedThen, Clocks
  <2>5. now - event[e].at <= Retention + Hour + Delay(failures + 2)
    BY <2>1, <2>2, <2>3, <2>4
  <2> QED BY <2>5 DEF Delay
<1> QED BY <1>1, LoopInductive, PTL

\* No serious event falls out of the window before it has been correlated, when
\* the window covers two periods and one more for every error.
THEOREM SeriousEventsCorrelated == Spec => []SeriousEventsBecomeIncidents
<1>1. ASSUME LoopInv PROVE SeriousEventsBecomeIncidents
  <2> SUFFICES ASSUME NEW e \in EventIds, step # "ended", Serious(e), event[e].inc = 0,
                      event[e].at + Window < (IF pc = "lock" THEN at ELSE now)
               PROVE  (failures + 2) * Period > Window
    BY DEF SeriousEventsBecomeIncidents
  <2>1. /\ now \in Nat /\ cycleNow \in Nat /\ at \in Nat /\ failures \in Nat
        /\ Window \in Nat /\ event[e].at \in Nat
    BY <1>1, ExistingRow, IncidentsAssumption, LoopAssumption
    DEF LoopInv, TypeOK, Inc!TypeOK, Inc!Rows, Serious, IncidentsAssumption, LoopAssumption
  <2>2. /\ Period \in Nat /\ Delay(failures) \in Nat /\ Delay(0) = 0
        /\ Delay(failures + 1) = Delay(failures) + Period
        /\ Delay(failures + 2) = Delay(failures) + Period + Period
    BY <2>1, DelayGrows
  <2>3. event[e].at + Window < cycleNow + Period
    BY <1>1, <2>1, <2>2 DEF LoopInv, Clocks
  <2>4. Missed \in {0, failures, failures + 1}
    BY DEF Missed
  <2>5. Delay(Missed) \in Nat /\ Delay(Missed) <= Delay(failures + 1)
    BY <2>2, <2>4
  <2>6. ASSUME Delay(failures + 2) <= Window
        PROVE  FALSE
    <3>1. cycleNow <= event[e].at + Delay(Missed)
      BY <1>1, <2>6 DEF LoopInv, CorrelatedThen
    <3> QED BY <2>1, <2>2, <2>3, <2>5, <2>6, <3>1
  <2>7. Delay(failures + 2) > Window
    BY <2>1, <2>2, <2>6
  <2> QED BY <2>7 DEF Delay
<1> QED BY <1>1, LoopInductive, PTL
=============================================================================
