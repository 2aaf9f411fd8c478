---------------------------- MODULE DiscoveryProofs ----------------------------
(***************************************************************************)
(* Proofs about the devices: the discovery thread that finds and stores    *)
(* them (Discovery, LanSweep), for any LAN, any interfaces and any number  *)
(* of failures, and the scores computed of what is stored (Scores).        *)
(***************************************************************************)
EXTENDS Discovery, Scores, FiniteSetTheorems, WellFoundedInduction, TLAPS

-----------------------------------------------------------------------------
(* The interface and the sweep. *)

Networks == [penalty : Nat, ip : Nat \ {0}, size : Nat \ {0}]

\* A non-empty set of natural numbers has a least element.
LEMMA LeastNumber ==
  ASSUME NEW S, S \subseteq Nat, S # {}
  PROVE  \E m \in S : \A n \in S : m <= n
<1>1. PICK m \in S : \A n \in S : ~(<<n, m>> \in OpToRel(<, Nat))
  BY NatLessThanWellFounded, WFMin
<1>2. \A n \in S : ~(n < m)
  BY <1>1 DEF OpToRel
<1> QED BY <1>2

\* sorted(...)[0] is one of the candidates, and none of them is better.
LEMMA SelectedIsBest ==
  ASSUME NEW list \in Seq(Networks), list # <<>>
  PROVE  \E i \in 1..Len(list) :
            /\ Selected(list) = list[i]
            /\ \A j \in 1..Len(list) : ~Better(list[j], list[i])
<1> DEFINE I == 1..Len(list)
           Penalties == {list[i].penalty : i \in I}
<1>0. I # {} /\ I \subseteq Nat /\ \A i \in I : list[i] \in Networks
  OBVIOUS
<1>1. PICK p \in Penalties : \A q \in Penalties : p <= q
  <2>1. Penalties \subseteq Nat /\ Penalties # {}
    BY <1>0 DEF Networks
  <2> QED BY <2>1, LeastNumber
<1> DEFINE Sizes == {list[i].size : i \in {k \in I : list[k].penalty = p}}
<1>2. PICK s \in Sizes : \A t \in Sizes : s <= t
  <2>1. Sizes \subseteq Nat /\ Sizes # {}
    BY <1>0, <1>1 DEF Networks
  <2> QED BY <2>1, LeastNumber
<1> DEFINE Best == {i \in I : list[i].penalty = p /\ list[i].size = s}
<1>3. PICK i \in Best : \A j \in Best : i <= j
  <2>1. Best \subseteq Nat /\ Best # {}
    BY <1>0, <1>2
  <2> QED BY <2>1, LeastNumber
<1> DEFINE Chosen(k) == \A j \in I : /\ ~Better(list[j], list[k])
                                     /\ j < k => Better(list[k], list[j])
<1>4. ASSUME NEW j \in I
      PROVE  /\ list[j].penalty \in Nat /\ list[j].size \in Nat
             /\ p <= list[j].penalty
             /\ list[j].penalty = p => s <= list[j].size
  BY <1>0, <1>1, <1>2 DEF Networks
<1>5. p \in Nat /\ s \in Nat /\ i \in I /\ list[i].penalty = p /\ list[i].size = s
  BY <1>0, <1>1, <1>2, <1>3 DEF Networks
<1>6. Chosen(i)
  <2> SUFFICES ASSUME NEW j \in I
               PROVE  /\ ~Better(list[j], list[i])
                      /\ j < i => Better(list[i], list[j])
    OBVIOUS
  <2>1. ~Better(list[j], list[i])
    BY <1>4, <1>5 DEF Better
  <2>2. ASSUME j < i PROVE Better(list[i], list[j])
    <3>1. j \notin Best
      BY <1>0, <1>3, <2>2
    <3>2. list[j].penalty # p \/ list[j].size # s
      BY <3>1
    <3> QED BY <1>4, <1>5, <3>2 DEF Better
  <2> QED BY <2>1, <2>2
<1>7. PICK k \in I : Selected(list) = list[k] /\ Chosen(k)
  BY <1>5, <1>6 DEF Selected
<1> QED BY <1>7

\* The hosts of a network are a range, of its size or of two less.
LEMMA HostCount ==
  ASSUME NEW ip \in Nat, NEW size \in Nat \ {0}
  PROVE  /\ HostsOf(ip, size) = (IF size <= 2
                THEN First(ip, size)..(First(ip, size) + size - 1)
                ELSE (First(ip, size) + 1)..(First(ip, size) + size - 2))
         /\ First(ip, size) \in Int
         /\ IsFiniteSet(HostsOf(ip, size))
         /\ Cardinality(HostsOf(ip, size)) = IF size <= 2 THEN size ELSE size - 2
<1>1. First(ip, size) \in Int
  <2>1. ip % size \in Int
    OBVIOUS
  <2> QED BY <2>1 DEF First
<1> DEFINE a == IF size <= 2 THEN First(ip, size) ELSE First(ip, size) + 1
           b == IF size <= 2 THEN First(ip, size) + size - 1 ELSE First(ip, size) + size - 2
<1>2. a \in Int /\ b \in Int /\ HostsOf(ip, size) = a..b
  BY <1>1 DEF HostsOf, Block
<1>3. b - a + 1 = (IF size <= 2 THEN size ELSE size - 2) /\ ~(a > b)
  BY <1>1
<1>4. IsFiniteSet(a..b) /\ Cardinality(a..b) = IF a > b THEN 0 ELSE b - a + 1
  BY <1>2, FS_Interval
<1> QED BY <1>1, <1>2, <1>3, <1>4 DEF HostsOf, Block

\* A finite set and the part of it below one of its elements.
LEMMA FewerBelow ==
  ASSUME NEW H, H \subseteq Int, IsFiniteSet(H), NEW h \in H
  PROVE  LET below == {g \in H : g < h}
         IN  /\ IsFiniteSet(below)
             /\ Cardinality(below) \in Nat /\ Cardinality(H) \in Nat
             /\ Cardinality(below) < Cardinality(H)
<1> DEFINE below == {g \in H : g < h}
<1>1. below \subseteq H \ {h}
  OBVIOUS
<1>2. /\ IsFiniteSet(H \ {h}) /\ Cardinality(H \ {h}) = Cardinality(H) - 1
      /\ Cardinality(H) \in Nat
  BY FS_RemoveElement, FS_CardinalityType
<1>3. /\ IsFiniteSet(below) /\ Cardinality(below) <= Cardinality(H \ {h})
      /\ Cardinality(below) \in Nat
  BY <1>1, <1>2, FS_Subset, FS_CardinalityType
<1> QED BY <1>2, <1>3

\* A network that is small enough is swept completely, the machine itself left
\* out.
LEMMA SmallNetworkIsSwept ==
  ASSUME NEW n \in Networks,
         LET lan == HostsOf(n.ip, n.size)
             hosts == lan \ {n.ip}
         IN  Cardinality(IF n.size = BlockSize THEN hosts ELSE lan) <= MaxHosts
  PROVE  HostsOf(n.ip, n.size) \ {n.ip} \subseteq Swept(n)
<1> DEFINE lan == HostsOf(n.ip, n.size)
           hosts == lan \ {n.ip}
<1>1. n.ip \in Nat /\ n.size \in Nat \ {0} /\ MaxHosts \in Nat \ {0}
  BY MaxHostsAssumption DEF Networks
<1>2. /\ lan \subseteq Int /\ IsFiniteSet(lan)
      /\ Cardinality(lan) = IF n.size <= 2 THEN n.size ELSE n.size - 2
  <2>1. /\ lan = (IF n.size <= 2
                  THEN First(n.ip, n.size)..(First(n.ip, n.size) + n.size - 1)
                  ELSE (First(n.ip, n.size) + 1)..(First(n.ip, n.size) + n.size - 2))
        /\ First(n.ip, n.size) \in Int
    BY <1>1, HostCount
  <2>2. lan \subseteq Int
    BY <1>1, <2>1
  <2> QED BY <1>1, <2>2, HostCount
<1>3. IsFiniteSet(hosts) /\ hosts \subseteq Int
      /\ Cardinality(hosts) \in Nat /\ Cardinality(hosts) <= Cardinality(lan)
  BY <1>2, FS_Subset, FS_CardinalityType
<1>4. SweptSize(n) = n.size
  <2>1. CASE n.size = BlockSize
    BY <2>1 DEF SweptSize
  <2>2. CASE n.size # BlockSize
    <3>1. Cardinality(lan) <= MaxHosts
      BY <2>2
    <3>2. ~(n.size - 2 > MaxHosts)
      BY <1>1, <1>2, <3>1
    <3> QED BY <3>2 DEF SweptSize
  <2> QED BY <2>1, <2>2
<1>5. Cardinality(hosts) <= MaxHosts
  <2>1. CASE n.size = BlockSize
    BY <2>1
  <2>2. CASE n.size # BlockSize
    <3>1. Cardinality(lan) <= MaxHosts
      BY <2>2
    <3> QED BY <1>1, <1>2, <1>3, <3>1
  <2> QED BY <2>1, <2>2
<1>6. ASSUME NEW h \in hosts
      PROVE  h \in Swept(n)
  <2>1. /\ Cardinality({g \in hosts : g < h}) \in Nat
        /\ Cardinality({g \in hosts : g < h}) < Cardinality(hosts)
    BY <1>3, FewerBelow
  <2>2. Cardinality({g \in hosts : g < h}) < MaxHosts
    BY <1>1, <1>3, <1>5, <2>1
  <2> QED BY <1>4, <2>2 DEF Swept
<1> QED BY <1>6

\* What a cycle selects is the address and the size of a network.
LEMMA InterfacesAreNetworks == Interfaces \subseteq Networks
<1> SUFFICES ASSUME NEW list \in InterfaceLists, NEW i \in 1..Len(list)
             PROVE  list[i] \in Networks
  BY DEF Interfaces
<1>1. list \in Seq(Networks)
  BY AddressAssumption DEF Networks
<1> QED BY <1>1

\* Division with remainder.
LEMMA Division ==
  ASSUME NEW a \in Nat, NEW b \in Nat \ {0}
  PROVE  /\ a \div b \in Nat /\ a % b \in 0..(b - 1)
         /\ a = b * (a \div b) + (a % b)
BY Z3

\* A block begins at a multiple of its size.
LEMMA FirstIsMultiple ==
  ASSUME NEW ip \in Nat, NEW b \in Nat \ {0}
  PROVE  First(ip, b) = b * (ip \div b)
<1>1. /\ ip % b \in Int /\ b * (ip \div b) \in Int
      /\ ip = b * (ip \div b) + (ip % b)
  BY Division
<1>2. ip - (ip % b) = b * (ip \div b)
  <2> DEFINE r == ip % b
             y == b * (ip \div b)
  <2>1. r \in Int /\ y \in Int /\ ip = y + r
    BY <1>1
  <2> HIDE DEF r, y
  <2>2. ip - r = y
    BY <2>1
  <2> QED BY <2>2 DEF r, y
<1> QED BY <1>2 DEF First

\* Multiples of a number are ordered as their factors.
LEMMA Multiples ==
  ASSUME NEW b \in Nat \ {0}, NEW a \in Int, NEW c \in Int
  PROVE  /\ a <= c => b * a <= b * c
         /\ b * a < b * (c + 1) => a <= c
OBVIOUS

\* The block around an address lies within the network around it, when the size of
\* the network is a multiple of that of the block.
LEMMA BlockOfNetwork ==
  ASSUME NEW ip \in Nat, NEW b \in Nat \ {0}, NEW m \in Nat \ {0}
  PROVE  /\ First(ip, b * m) <= First(ip, b)
         /\ First(ip, b) + b <= First(ip, b * m) + b * m
<1> DEFINE s == b * m
           k == ip \div b
           q == ip \div s
           j == m * q
<1>1. s \in Nat \ {0}
  OBVIOUS
<1>2. /\ k \in Nat /\ ip = b * k + (ip % b) /\ ip % b \in 0..(b - 1)
      /\ q \in Nat /\ ip = s * q + (ip % s) /\ ip % s \in 0..(s - 1)
  BY <1>1, Division
<1>3. First(ip, b) = b * k /\ First(ip, s) = s * q
  BY <1>1, FirstIsMultiple
<1>4. j \in Nat /\ s * q = b * j /\ b * j + b * m = b * (j + m)
  BY <1>2
<1>5. b * k <= ip /\ ip < b * (k + 1) /\ b * j <= ip /\ ip < b * (j + m)
  <2>1. b * (k + 1) = b * k + b
    BY <1>2
  <2> HIDE DEF k, q, j
  <2> QED BY <1>1, <1>2, <1>4, <2>1
<1> HIDE DEF k, q, j
<1>6. j <= k
  <2>1. b * j < b * (k + 1)
    BY <1>2, <1>4, <1>5
  <2> QED BY <1>2, <1>4, <2>1, Multiples
<1>7. k + 1 <= j + m
  <2>1. b * k < b * ((j + m - 1) + 1)
    BY <1>2, <1>4, <1>5
  <2>2. k <= j + m - 1
    BY <1>2, <1>4, <2>1, Multiples
  <2> QED BY <1>2, <1>4, <2>2
<1>8. b * j <= b * k /\ b * (k + 1) <= b * (j + m) /\ b * (k + 1) = b * k + b
  BY <1>2, <1>4, <1>6, <1>7, Multiples
<1> QED BY <1>3, <1>4, <1>8

\* A network that is swept as it is, or replaced by a part of it.
Covering(n) == n.size - 2 <= MaxHosts \/ \E m \in Nat \ {0} : n.size = BlockSize * m

\* Of such a network, only hosts are pinged.
LEMMA SweepWithinNetwork ==
  ASSUME BlockSize > 2, NEW n \in Networks, Covering(n)
  PROVE  Swept(n) \subseteq HostsOf(n.ip, n.size)
<1>1. n.ip \in Nat /\ n.size \in Nat \ {0} /\ BlockSize \in Nat \ {0} /\ MaxHosts \in Nat
  BY BlockAssumption, MaxHostsAssumption DEF Networks
<1>2. Swept(n) \subseteq HostsOf(n.ip, SweptSize(n))
  BY DEF Swept
<1>3. CASE n.size - 2 <= MaxHosts
  BY <1>1, <1>2, <1>3 DEF SweptSize
<1>4. CASE n.size - 2 > MaxHosts
  <2>1. PICK m \in Nat \ {0} : n.size = BlockSize * m
    BY <1>1, <1>4 DEF Covering
  <2>2. SweptSize(n) = BlockSize
    BY <1>4 DEF SweptSize
  <2>3. /\ First(n.ip, n.size) <= First(n.ip, BlockSize)
        /\ First(n.ip, BlockSize) + BlockSize <= First(n.ip, n.size) + n.size
    BY <1>1, <2>1, BlockOfNetwork
  <2>4. First(n.ip, n.size) \in Int /\ First(n.ip, BlockSize) \in Int
    BY <1>1, HostCount
  <2>5. n.size > 2
    BY <1>1, <2>3, <2>4
  <2>6. (First(n.ip, BlockSize) + 1)..(First(n.ip, BlockSize) + BlockSize - 2)
          \subseteq (First(n.ip, n.size) + 1)..(First(n.ip, n.size) + n.size - 2)
    BY <1>1, <2>3, <2>4
  <2> QED BY <1>1, <1>2, <2>2, <2>5, <2>6 DEF HostsOf
<1> QED BY <1>1, <1>3, <1>4

\* Discovery never pings more than max_discovery_hosts addresses in a cycle, nor
\* the machine's own.
THEOREM SweepIsBounded ==
  ASSUME NEW n \in Networks
  PROVE  /\ IsFiniteSet(Swept(n)) /\ Cardinality(Swept(n)) <= MaxHosts
         /\ n.ip \notin Swept(n)
<1> DEFINE lan == HostsOf(n.ip, SweptSize(n))
           hosts == lan \ {n.ip}
           S == Swept(n)
<1>1. n.ip \in Nat /\ SweptSize(n) \in Nat \ {0} /\ MaxHosts \in Nat \ {0}
  BY MaxHostsAssumption, BlockAssumption DEF Networks, SweptSize
<1>2. PICK b \in Int : \A h \in lan : h \in Int /\ h <= b
  <2>1. lan = IF SweptSize(n) <= 2
              THEN First(n.ip, SweptSize(n))..(First(n.ip, SweptSize(n)) + SweptSize(n) - 1)
              ELSE (First(n.ip, SweptSize(n)) + 1)..(First(n.ip, SweptSize(n)) + SweptSize(n) - 2)
    BY <1>1, HostCount
  <2>2. First(n.ip, SweptSize(n)) \in Int
    BY <1>1, HostCount
  <2>3. \A h \in lan : h \in Int /\ h <= First(n.ip, SweptSize(n)) + SweptSize(n)
    BY <1>1, <2>1, <2>2
  <2> QED BY <1>1, <2>2, <2>3
<1>3. IsFiniteSet(lan) /\ IsFiniteSet(hosts) /\ hosts \subseteq Int
  BY <1>1, <1>2, HostCount, FS_Subset
<1>4. S = {h \in hosts : Cardinality({g \in hosts : g < h}) < MaxHosts}
  BY DEF Swept
<1>5. IsFiniteSet(S) /\ S \subseteq hosts /\ Cardinality(S) \in Nat
  BY <1>3, <1>4, FS_Subset, FS_CardinalityType
<1> HIDE DEF S
<1>6. Cardinality(S) <= MaxHosts
  <2>1. CASE S = {}
    BY <1>1, <2>1, FS_EmptySet
  <2>2. CASE S # {}
    <3> DEFINE D == {b - h : h \in S}
    <3>1. D \subseteq Nat /\ D # {}
      BY <1>2, <1>5, <2>2
    <3>2. PICK d \in D : \A e \in D : d <= e
      <4> HIDE DEF D
      <4> QED BY <3>1, LeastNumber
    <3>3. PICK m \in S : d = b - m
      BY <3>2
    <3>4. ASSUME NEW h \in S, h # m PROVE h < m
      <4>1. b - m <= b - h
        BY <3>2, <3>3
      <4> QED BY <1>2, <1>5, <3>4, <4>1
    <3> DEFINE below == {g \in hosts : g < m}
    <3>5. S \ {m} \subseteq below
      BY <1>5, <3>4
    <3>6. IsFiniteSet(below) /\ Cardinality(below) \in Nat
      BY <1>3, FS_Subset, FS_CardinalityType
    <3>7. Cardinality(S \ {m}) <= Cardinality(below)
      BY <3>5, <3>6, FS_Subset
    <3>8. Cardinality(S \ {m}) = Cardinality(S) - 1
      BY <1>5, <3>3, FS_RemoveElement
    <3>9. Cardinality(below) < MaxHosts
      BY <1>4, <3>3
    <3> QED BY <1>1, <1>5, <3>6, <3>7, <3>8, <3>9
  <2> QED BY <2>1, <2>2
<1> QED BY <1>5, <1>6 DEF S

-----------------------------------------------------------------------------
(* The inductive invariant. *)

\* The locals of a cycle are set where they are used.
LocalsSet ==
    /\ pc = "sweep" => active /\ iface \in Interfaces
    /\ pc = "alert" <=> news # NoNews
    /\ ~active => gateway = NoAddress /\ networkInfo = NoAddress

\* What is still to be announced is in the table.
NewsPending ==
    /\ announced \subseteq Known
    /\ news.kind = "new" => news.d \in Known \ announced
    /\ news.kind = "mac_changed" => silent > 0

NewsCounted == IsFiniteSet(Known) /\ DeviceNewsIsLostByFailureOnly

Flagged(d) == device[d].row /\ device[d].gateway

\* The gateway of a cycle is flagged or still to be stored; the one shown is
\* flagged from the end of a good cycle to the start of the next.
GatewayStored ==
    /\ pc \in {"upsert", "alert"} /\ gateway # NoAddress =>
          Flagged(gateway) \/ \E e \in found : e[1] = gateway
    /\ pc \in {"clear", "wait"} /\ ~failed /\ networkInfo # NoAddress =>
          Flagged(networkInfo)

IInv == TypeOK /\ LocalsSet /\ NewsPending /\ NewsCounted /\ GatewayStored

\* A row of the table is the row of a device or none.
LEMMA RowOrNone ==
  ASSUME TypeOK, NEW d \in Addresses
  PROVE  /\ device[d] \in Rows \cup {NoRow}
         /\ device[d].row <=> device[d] \in Rows
<1>1. device[d] \in Rows \cup {NoRow}
  BY DEF TypeOK
<1>2. \A r \in Rows : r.row = TRUE
  BY DEF Rows
<1>3. NoRow.row = FALSE
  BY DEF NoRow
<1> QED BY <1>1, <1>2, <1>3

\* What upsert_device leaves of a row and what it says of it.
LEMMA StoredRow ==
  ASSUME TypeOK, NEW d \in Addresses, NEW mac \in Macs \cup {NoMac}
  PROVE  /\ Stored(d, mac) \in Rows
         /\ Stored(d, mac).row
         /\ Stored(d, mac).gateway <=> d = gateway
         /\ device[d].row => Stored(d, mac).trusted = device[d].trusted
         /\ Status(d, mac) \in {"new", "mac_changed", "seen"}
         /\ Status(d, mac) = "new" <=> ~device[d].row
         /\ Status(d, mac) = "mac_changed" <=>
               /\ device[d].row
               /\ device[d].mac # NoMac
               /\ Stored(d, mac).mac # device[d].mac
<1>1. device[d].row <=> device[d] \in Rows
  BY RowOrNone
<1>2. PICK f \in BOOLEAN : f = (d = gateway)
  OBVIOUS
<1>3. CASE ~device[d].row
  <2>1. Stored(d, mac) =
          [row |-> TRUE, mac |-> mac, gateway |-> f, trusted |-> FALSE]
    BY <1>2, <1>3 DEF Stored
  <2>2. /\ Stored(d, mac) \in Rows /\ Stored(d, mac).row
        /\ Stored(d, mac).gateway = f
    BY <1>2, <2>1 DEF Rows
  <2>3. Status(d, mac) = "new"
    BY <1>3 DEF Status
  <2> QED BY <1>2, <1>3, <2>2, <2>3
<1>4. CASE device[d].row
  <2> DEFINE r == device[d]
             m == IF mac = NoMac THEN r.mac ELSE mac
  <2>1. r \in Rows
    BY <1>1, <1>4
  <2> HIDE DEF r
  <2>2. m \in Macs \cup {NoMac}
    BY <2>1 DEF Rows
  <2>3. Stored(d, mac) = [r EXCEPT !.mac = m, !.gateway = f]
    BY <1>2, <1>4 DEF Stored, r
  <2>4. /\ Stored(d, mac) \in Rows /\ Stored(d, mac).row
        /\ Stored(d, mac).gateway = f /\ Stored(d, mac).mac = m
        /\ Stored(d, mac).trusted = r.trusted
    <3> HIDE DEF m
    <3> QED BY <1>2, <2>1, <2>2, <2>3 DEF Rows
  <2> QED BY <1>2, <1>4, <2>4 DEF Status, r
<1> QED BY <1>3, <1>4

LEMMA DiscoveryInit == Init => IInv
<1> SUFFICES ASSUME Init PROVE IInv
  OBVIOUS
<1>1. Known = {}
  BY DEF Init, Known, NoRow
<1>2. IsFiniteSet({}) /\ Cardinality({}) = 0 /\ Known \ announced = {}
  BY <1>1, FS_EmptySet
<1>3. TypeOK
  <2>1. [d \in Addresses |-> NoRow] \in [Addresses -> Rows \cup {NoRow}]
    OBVIOUS
  <2>2. 0 \in 0..MaxFailures
    BY FailuresAssumption
  <2> QED BY <2>1, <2>2 DEF Init, TypeOK
<1>4. NewsPending /\ LocalsSet
  BY <1>1 DEF Init, NewsPending, LocalsSet, NoNews, NoInterfaceYet
<1>5. NewsCounted
  BY <1>1, <1>2 DEF Init, NewsCounted, DeviceNewsIsLostByFailureOnly
<1>6. GatewayStored
  BY DEF Init, GatewayStored
<1> QED BY <1>3, <1>4, <1>5, <1>6 DEF IInv

\* A step that touches neither table nor history keeps the account of the news,
\* unless it forgets some.
LEMMA NewsKept ==
  ASSUME NewsPending, NewsCounted,
         UNCHANGED <<device, announced, silent, news, failures>>
  PROVE  NewsPending' /\ NewsCounted'
<1>1. Known' = Known
  BY DEF Known
<1> QED BY <1>1 DEF NewsPending, NewsCounted, DeviceNewsIsLostByFailureOnly

LEMMA CheckStep ==
  ASSUME IInv, Check
  PROVE  IInv'
<1> USE DEF thread, shown, given
<1>1. TypeOK'
  BY DEF IInv, TypeOK, Check
<1>2. LocalsSet' /\ GatewayStored'
  BY DEF IInv, LocalsSet, GatewayStored, Flagged, Check
<1>3. NewsPending' /\ NewsCounted'
  BY NewsKept DEF IInv, Check
<1> QED BY <1>1, <1>2, <1>3 DEF IInv

LEMMA SelectStep ==
  ASSUME IInv, NEW list \in InterfaceLists, Select(list)
  PROVE  IInv'
<1> USE DEF thread, shown, given
<1>1. Selected(list) \in Interfaces
  <2>1. list \in Seq(Networks) /\ list # <<>>
    BY AddressAssumption DEF Networks, Select
  <2>2. PICK i \in 1..Len(list) : Selected(list) = list[i]
    BY <2>1, SelectedIsBest
  <2> QED BY <2>2 DEF Interfaces
<1>2. TypeOK'
  BY <1>1 DEF IInv, TypeOK, Select
<1>3. LocalsSet' /\ GatewayStored'
  BY <1>1 DEF IInv, LocalsSet, GatewayStored, Flagged, Select
<1>4. NewsPending' /\ NewsCounted'
  BY NewsKept DEF IInv, Select
<1> QED BY <1>2, <1>3, <1>4 DEF IInv

\* What a sweep lists is an address that may be occupied or the machine's own.
LEMMA SweepStep ==
  ASSUME IInv, NEW pinged \in SUBSET Occupied, NEW gw \in Occupied \cup {NoAddress},
         NEW S \in SUBSET Occupied, NEW arp \in [S -> Macs],
         Sweep(pinged, arp, gw)
  PROVE  IInv'
<1> USE DEF thread, shown, given
<1>1. iface \in Interfaces /\ iface.ip \in Addresses
  BY DEF IInv, LocalsSet, Sweep, Addresses
<1>2. ASSUME NEW d \in Listed(iface, pinged, arp, gw)
      PROVE  <<d, MacOf(iface, arp, d)>> \in Entries
  <2>1. d \in Addresses
    BY <1>1 DEF Listed, Addresses
  <2>2. MacOf(iface, arp, d) \in Macs \cup {NoMac}
    BY MacAssumption DEF MacOf
  <2> QED BY <2>1, <2>2 DEF Entries
<1>3. found' \subseteq Entries
  BY <1>2 DEF Sweep
<1>4. gateway' \in Addresses \cup {NoAddress}
  BY DEF Sweep, Addresses
<1>5. TypeOK'
  BY <1>3, <1>4 DEF IInv, TypeOK, Sweep
<1>6. LocalsSet'
  <2>1. active
    BY DEF IInv, LocalsSet, Sweep
  <2> QED BY <2>1 DEF IInv, LocalsSet, Sweep
<1>7. GatewayStored'
  <2>1. gw # NoAddress => gw \in Listed(iface, pinged, arp, gw)
    BY DEF Listed
  <2>2. gw # NoAddress => <<gw, MacOf(iface, arp, gw)>> \in found'
    BY <2>1 DEF Sweep
  <2> QED BY <2>2 DEF GatewayStored, Sweep
<1>8. NewsPending' /\ NewsCounted'
  BY NewsKept DEF IInv, Sweep
<1> QED BY <1>5, <1>6, <1>7, <1>8 DEF IInv

LEMMA NoInterfaceStep ==
  ASSUME IInv, NoInterface
  PROVE  IInv'
<1> USE DEF thread, shown, given
<1>1. TypeOK'
  BY DEF IInv, TypeOK, NoInterface
<1>2. LocalsSet' /\ GatewayStored'
  BY DEF IInv, LocalsSet, GatewayStored, Flagged, NoInterface
<1>3. NewsPending' /\ NewsCounted'
  BY NewsKept DEF IInv, NoInterface
<1> QED BY <1>1, <1>2, <1>3 DEF IInv

LEMMA ReadArpStep ==
  ASSUME IInv, ReadArp
  PROVE  IInv'
<1> USE DEF thread, shown, given
<1>1. found' \subseteq Entries
  BY DEF ReadArp, Entries, Addresses
<1>2. TypeOK'
  BY <1>1 DEF IInv, TypeOK, ReadArp
<1>3. LocalsSet' /\ GatewayStored'
  BY DEF IInv, LocalsSet, GatewayStored, Flagged, ReadArp
<1>4. NewsPending' /\ NewsCounted'
  BY NewsKept DEF IInv, ReadArp
<1> QED BY <1>2, <1>3, <1>4 DEF IInv

\* upsert_device writes the row, which is news when it is new or has another MAC.
LEMMA UpsertStep ==
  ASSUME IInv, NEW e \in found, Upsert(e)
  PROVE  IInv'
<1> USE DEF thread, shown, given
<1> DEFINE d == e[1]
           new == Stored(d, e[2])
           kind == Status(d, e[2])
<1>1. TypeOK /\ d \in Addresses /\ e[2] \in Macs \cup {NoMac}
  BY DEF IInv, TypeOK, Entries
<1>2. /\ new \in Rows /\ new.row
      /\ new.gateway <=> d = gateway
      /\ kind \in {"new", "mac_changed", "seen"}
      /\ kind = "new" <=> ~device[d].row
      /\ kind = "mac_changed" <=>
            device[d].row /\ device[d].mac # NoMac /\ new.mac # device[d].mac
  BY <1>1, StoredRow
<1> HIDE DEF d, new, kind
<1>3. /\ device' = [device EXCEPT ![d] = new] /\ device \in [Addresses -> Rows \cup {NoRow}]
      /\ device'[d] = new
      /\ \A a \in Addresses \ {d} : device'[a] = device[a]
  BY <1>1 DEF Upsert, TypeOK, d, new
<1>4. /\ silent' = IF kind = "mac_changed" THEN silent + 1 ELSE silent
      /\ news' = IF kind = "seen" THEN NoNews ELSE [d |-> d, kind |-> kind]
      /\ pc' = IF news' = NoNews THEN "upsert" ELSE "alert"
      /\ pc = "upsert" /\ news = NoNews
      /\ UNCHANGED <<announced, gateway, networkInfo, failed, active, failures>>
  <2>1. silent' = IF /\ device[d].row
                     /\ device[d].mac # NoMac
                     /\ new.mac # device[d].mac
                  THEN silent + 1 ELSE silent
    BY <1>3 DEF Upsert, d
  <2>2. silent' = IF kind = "mac_changed" THEN silent + 1 ELSE silent
    BY <1>2, <2>1
  <2>3. /\ news' = IF kind = "seen" THEN NoNews ELSE [d |-> d, kind |-> kind]
        /\ pc' = IF news' = NoNews THEN "upsert" ELSE "alert"
    BY DEF Upsert, d, kind
  <2>4. pc = "upsert" /\ news = NoNews
    BY DEF IInv, LocalsSet, Upsert
  <2> QED BY <2>2, <2>3, <2>4 DEF Upsert
<1>5. kind # "seen" => /\ news' \in [d : Addresses, kind : {"new", "mac_changed"}]
                       /\ news'.d = d /\ news'.kind = kind
                       /\ news' # NoNews
  <2>1. NoNews.kind = "none"
    BY DEF NoNews
  <2> QED BY <1>1, <1>2, <1>4, <2>1
<1>6. kind = "seen" => news' = NoNews
  BY <1>4
<1>7. TypeOK'
  <2>1. device' \in [Addresses -> Rows \cup {NoRow}]
    BY <1>2, <1>3
  <2>2. silent' \in Nat
    BY <1>1, <1>4 DEF TypeOK
  <2>3. news' \in [d : Addresses, kind : {"new", "mac_changed"}] \cup {NoNews}
    BY <1>2, <1>5, <1>6
  <2>4. pc' \in {"upsert", "alert"}
    BY <1>4
  <2> QED BY <1>1, <2>1, <2>2, <2>3, <2>4 DEF TypeOK, Upsert
<1>8. LocalsSet'
  BY <1>4 DEF IInv, LocalsSet, Upsert
<1>9. Known' = Known \cup {d}
  <2>1. \A a \in Addresses : device'[a].row <=> a = d \/ device[a].row
    BY <1>2, <1>3
  <2> QED BY <1>1, <2>1 DEF Known
<1>10. d \in Known <=> kind # "new"
  BY <1>1, <1>2 DEF Known
<1>11. NewsPending'
  <2>1. announced' \subseteq Known'
    BY <1>4, <1>9 DEF IInv, NewsPending
  <2>2. news'.kind = "new" => news'.d \in Known' \ announced'
    <3> SUFFICES ASSUME news'.kind = "new" PROVE news'.d \in Known' \ announced'
      OBVIOUS
    <3>1. kind = "new"
      BY <1>5, <1>6 DEF NoNews
    <3>2. d \notin Known /\ announced \subseteq Known
      BY <1>10, <3>1 DEF IInv, NewsPending
    <3> QED BY <1>4, <1>5, <1>9, <3>1, <3>2
  <2>3. news'.kind = "mac_changed" => silent' > 0
    <3> SUFFICES ASSUME news'.kind = "mac_changed" PROVE silent' > 0
      OBVIOUS
    <3>1. kind = "mac_changed"
      BY <1>5, <1>6 DEF NoNews
    <3> QED BY <1>1, <1>4, <3>1 DEF TypeOK
  <2> QED BY <2>1, <2>2, <2>3 DEF NewsPending
<1>12. NewsCounted'
  <2>1. IsFiniteSet(Known')
    BY <1>9, FS_AddElement DEF IInv, NewsCounted
  <2> DEFINE quiet == Known \ announced
  <2>2. IsFiniteSet(quiet) /\ Cardinality(quiet) \in Nat
    BY FS_Subset, FS_CardinalityType DEF IInv, NewsCounted
  <2>3. Cardinality(quiet) + silent <= failures /\ silent \in Nat /\ failures \in Nat
    BY <1>1, <1>4, FailuresAssumption DEF IInv, NewsCounted, DeviceNewsIsLostByFailureOnly, TypeOK
  <2>4. CASE kind = "new"
    <3>1. (Known \ announced)' = quiet \cup {d}
      BY <1>4, <1>9, <1>10, <2>4 DEF IInv, NewsPending
    <3>2. Cardinality((Known \ announced)') <= Cardinality(quiet) + 1
          /\ Cardinality((Known \ announced)') \in Nat
      <4> HIDE DEF quiet
      <4>1. /\ IsFiniteSet(quiet \cup {d})
            /\ Cardinality(quiet \cup {d}) = IF d \in quiet THEN Cardinality(quiet)
                                             ELSE Cardinality(quiet) + 1
        BY <2>2, FS_AddElement
      <4>2. Cardinality((Known \ announced)') = Cardinality(quiet \cup {d})
        BY <3>1
      <4> QED BY <2>2, <4>1, <4>2
    <3>3. silent' = silent /\ failures' = failures /\ news' # NoNews
      BY <1>4, <1>5, <2>4
    <3>4. Cardinality((Known \ announced)') + silent' <= failures' + 1
      BY <2>2, <2>3, <3>2, <3>3
    <3> QED BY <2>1, <3>3, <3>4 DEF NewsCounted, DeviceNewsIsLostByFailureOnly
  <2>5. CASE kind # "new"
    <3>1. (Known \ announced)' = quiet
      BY <1>4, <1>9, <1>10, <2>5
    <3>2. CASE kind = "mac_changed"
      <4>1. silent' = silent + 1 /\ failures' = failures /\ news' # NoNews
        BY <1>4, <1>5, <3>2
      <4>2. Cardinality((Known \ announced)') + silent' <= failures' + 1
        BY <2>2, <2>3, <3>1, <4>1
      <4> QED BY <2>1, <4>1, <4>2 DEF NewsCounted, DeviceNewsIsLostByFailureOnly
    <3>3. CASE kind = "seen"
      <4>1. silent' = silent /\ failures' = failures /\ news' = NoNews
        BY <1>4, <1>6, <3>3
      <4>2. Cardinality((Known \ announced)') + silent' <= failures' + 0
        BY <2>2, <2>3, <3>1, <4>1
      <4> QED BY <2>1, <4>1, <4>2 DEF NewsCounted, DeviceNewsIsLostByFailureOnly
    <3> QED BY <1>2, <2>5, <3>2, <3>3
  <2> QED BY <2>4, <2>5
<1>13. GatewayStored'
  <2> SUFFICES ASSUME gateway # NoAddress
               PROVE  Flagged(gateway)' \/ \E f \in found' : f[1] = gateway'
    BY <1>4 DEF GatewayStored
  <2>1. gateway \in Addresses /\ gateway' = gateway
    BY <1>1, <1>4 DEF TypeOK
  <2>2. CASE d = gateway
    BY <1>2, <1>3, <2>1, <2>2 DEF Flagged
  <2>3. CASE d # gateway
    <3>1. device'[gateway] = device[gateway]
      BY <1>3, <2>1, <2>3
    <3>2. Flagged(gateway) \/ \E f \in found : f[1] = gateway
      BY <1>4 DEF IInv, GatewayStored
    <3>3. \A f \in found : f[1] = gateway => f \in found'
      BY <2>3 DEF Upsert, d
    <3> QED BY <2>1, <3>1, <3>2, <3>3 DEF Flagged
  <2> QED BY <2>2, <2>3
<1> QED BY <1>7, <1>8, <1>11, <1>12, <1>13 DEF IInv

\* add_alert settles the news upsert_device left.
LEMMA AlertStep ==
  ASSUME IInv, Alert
  PROVE  IInv'
<1> USE DEF thread, shown, given
<1>1. /\ TypeOK /\ pc = "alert" /\ pc' = "upsert" /\ news' = NoNews
      /\ news \in [d : Addresses, kind : {"new", "mac_changed"}]
      /\ Known' = Known
  BY DEF IInv, TypeOK, LocalsSet, Alert, Known
<1>2. CASE news.kind = "new"
  <2>1. announced' = announced \cup {news.d} /\ silent' = silent
    BY <1>2 DEF Alert
  <2>2. TypeOK'
    BY <1>1, <2>1 DEF TypeOK, Alert
  <2>3. NewsPending'
    BY <1>1, <1>2, <2>1 DEF IInv, NewsPending, NoNews
  <2>4. NewsCounted'
    <3> DEFINE quiet == Known \ announced
    <3>1. news.d \in quiet /\ (Known \ announced)' = quiet \ {news.d}
      BY <1>1, <1>2, <2>1 DEF IInv, NewsPending
    <3>2. IsFiniteSet(quiet) /\ Cardinality(quiet) \in Nat
      BY FS_Subset, FS_CardinalityType DEF IInv, NewsCounted
    <3>3. Cardinality(quiet) + silent <= failures + 1
      BY <1>1 DEF IInv, NewsCounted, DeviceNewsIsLostByFailureOnly, LocalsSet
    <3>4. Cardinality((Known \ announced)') = Cardinality(quiet) - 1
      <4> HIDE DEF quiet
      <4>1. Cardinality(quiet \ {news.d}) = Cardinality(quiet) - 1
        BY <3>1, <3>2, FS_RemoveElement
      <4> QED BY <3>1, <4>1
    <3>5. silent \in Nat /\ failures \in Nat /\ failures' = failures
      BY <1>1, FailuresAssumption DEF TypeOK, Alert
    <3>6. Cardinality((Known \ announced)') + silent' <= failures' + 0
      BY <2>1, <3>2, <3>3, <3>4, <3>5
    <3> QED BY <1>1, <3>6 DEF IInv, NewsCounted, DeviceNewsIsLostByFailureOnly
  <2>5. LocalsSet' /\ GatewayStored'
    BY <1>1 DEF IInv, LocalsSet, GatewayStored, Flagged, Alert
  <2> QED BY <2>2, <2>3, <2>4, <2>5 DEF IInv
<1>3. CASE news.kind = "mac_changed"
  <2>1. announced' = announced /\ silent' = silent - 1 /\ silent > 0
    BY <1>3 DEF IInv, NewsPending, Alert
  <2>2. TypeOK'
    BY <1>1, <2>1 DEF TypeOK, Alert
  <2>3. NewsPending'
    BY <1>1, <2>1 DEF IInv, NewsPending, NoNews
  <2>4. NewsCounted'
    <3> DEFINE n == Cardinality(Known \ announced)
    <3>1. n \in Nat
      BY FS_Subset, FS_CardinalityType DEF IInv, NewsCounted
    <3>2. n + silent <= failures + 1
      BY <1>1 DEF IInv, NewsCounted, DeviceNewsIsLostByFailureOnly, LocalsSet
    <3>3. silent \in Nat /\ failures \in Nat /\ failures' = failures
      BY <1>1, FailuresAssumption DEF TypeOK, Alert
    <3>4. Cardinality((Known \ announced)') = n
      BY <1>1, <2>1
    <3>5. Cardinality((Known \ announced)') + silent' <= failures' + 0
      BY <2>1, <3>1, <3>2, <3>3, <3>4
    <3> QED BY <1>1, <3>5 DEF IInv, NewsCounted, DeviceNewsIsLostByFailureOnly
  <2>5. LocalsSet' /\ GatewayStored'
    BY <1>1 DEF IInv, LocalsSet, GatewayStored, Flagged, Alert
  <2> QED BY <2>2, <2>3, <2>4, <2>5 DEF IInv
<1> QED BY <1>1, <1>2, <1>3

LEMMA PublishStep ==
  ASSUME IInv, Publish
  PROVE  IInv'
<1> USE DEF thread, shown, given
<1>1. TypeOK'
  BY DEF IInv, TypeOK, Publish
<1>2. LocalsSet'
  BY DEF IInv, LocalsSet, Publish
<1>3. GatewayStored'
  <2> SUFFICES ASSUME networkInfo' # NoAddress
               PROVE  Flagged(networkInfo)'
    BY DEF GatewayStored, Publish
  <2>1. networkInfo' = gateway /\ gateway # NoAddress
    BY DEF IInv, LocalsSet, Publish
  <2>2. Flagged(gateway)
    BY <2>1 DEF IInv, GatewayStored, Publish
  <2> QED BY <2>1, <2>2 DEF Flagged, Publish
<1>4. NewsPending' /\ NewsCounted'
  BY NewsKept DEF IInv, Publish
<1> QED BY <1>1, <1>2, <1>3, <1>4 DEF IInv

\* A failure forgets at most the one item in hand.
LEMMA FailStep ==
  ASSUME IInv, Fail
  PROVE  IInv'
<1> USE DEF thread, shown, given
<1>1. TypeOK /\ failures \in Nat /\ failures' = failures + 1 /\ news' = NoNews
      /\ Known' = Known /\ UNCHANGED <<announced, silent>>
  BY FailuresAssumption DEF IInv, TypeOK, Fail, Known
<1>2. TypeOK'
  BY <1>1, FailuresAssumption DEF TypeOK, Fail
<1>3. LocalsSet' /\ GatewayStored'
  BY DEF IInv, LocalsSet, GatewayStored, Fail
<1>4. NewsPending'
  BY <1>1 DEF IInv, NewsPending, NoNews
<1>5. NewsCounted'
  <2> DEFINE n == Cardinality(Known \ announced)
  <2>1. n \in Nat
    BY FS_Subset, FS_CardinalityType DEF IInv, NewsCounted
  <2>2. n + silent <= failures + 1 /\ silent \in Nat
    <3>1. n + silent <= failures + (IF news = NoNews THEN 0 ELSE 1)
      BY DEF IInv, NewsCounted, DeviceNewsIsLostByFailureOnly
    <3> QED BY <1>1, <2>1, <3>1 DEF TypeOK
  <2>3. Cardinality((Known \ announced)') = n
    BY <1>1
  <2>4. Cardinality((Known \ announced)') + silent' <= failures' + 0
    BY <1>1, <2>1, <2>2, <2>3
  <2> QED BY <1>1, <2>4 DEF IInv, NewsCounted, DeviceNewsIsLostByFailureOnly
<1> QED BY <1>2, <1>3, <1>4, <1>5 DEF IInv

LEMMA EndStep ==
  ASSUME IInv, Clear \/ WakeUp \/ Stop
  PROVE  IInv'
<1> USE DEF thread, shown, given
<1>1. TypeOK'
  BY DEF IInv, TypeOK, Clear, WakeUp, Stop
<1>2. LocalsSet' /\ GatewayStored'
  BY DEF IInv, LocalsSet, GatewayStored, Flagged, Clear, WakeUp, Stop
<1>3. NewsPending' /\ NewsCounted'
  BY NewsKept DEF IInv, Clear, WakeUp, Stop
<1> QED BY <1>1, <1>2, <1>3 DEF IInv

\* set_device_trusted leaves the rest of the row alone.
LEMMA TrustStep ==
  ASSUME IInv, NEW d \in Addresses, NEW trusted \in BOOLEAN, Trust(d, trusted)
  PROVE  IInv'
<1> USE DEF thread, shown, given
<1> DEFINE new == [device[d] EXCEPT !.trusted = trusted]
<1>1. TypeOK /\ device[d] \in Rows
  BY RowOrNone DEF IInv, Trust
<1>2. new \in Rows /\ new.row /\ new.gateway = device[d].gateway
  BY <1>1 DEF Rows
<1> HIDE DEF new
<1>3. /\ device' = [device EXCEPT ![d] = new] /\ device \in [Addresses -> Rows \cup {NoRow}]
      /\ device'[d] = new
      /\ \A a \in Addresses \ {d} : device'[a] = device[a]
  BY <1>1 DEF Trust, TypeOK, new
<1>4. device' \in [Addresses -> Rows \cup {NoRow}]
  BY <1>2, <1>3
<1>5. TypeOK'
  BY <1>1, <1>4 DEF TypeOK, Trust
<1>6. \A a \in Addresses : /\ device'[a].row <=> device[a].row
                           /\ Flagged(a)' <=> Flagged(a)
  BY <1>1, <1>2, <1>3 DEF Flagged, Rows
<1>7. Known' = Known
  BY <1>6 DEF Known
<1>8. NewsPending' /\ NewsCounted'
  BY <1>7 DEF IInv, NewsPending, NewsCounted, DeviceNewsIsLostByFailureOnly, Trust
<1>9. LocalsSet'
  BY DEF IInv, LocalsSet, Trust
<1>10. GatewayStored'
  BY <1>1, <1>6 DEF IInv, GatewayStored, Trust, TypeOK
<1> QED BY <1>5, <1>8, <1>9, <1>10 DEF IInv

LEMMA DiscoveryInductive == IInv /\ [Next]_vars => IInv'
<1> SUFFICES ASSUME IInv, [Next]_vars PROVE IInv'
  OBVIOUS
<1>1. CASE Check \/ NoInterface \/ ReadArp \/ Alert \/ Publish \/ Fail \/ Clear \/ WakeUp \/ Stop
  BY <1>1, CheckStep, NoInterfaceStep, ReadArpStep, AlertStep, PublishStep, FailStep, EndStep
<1>2. CASE \E list \in InterfaceLists : Select(list)
  BY <1>2, SelectStep
<1>3. CASE \E pinged \in SUBSET Occupied, gw \in Occupied \cup {NoAddress},
              arp \in UNION {[S -> Macs] : S \in SUBSET Occupied} : Sweep(pinged, arp, gw)
  BY <1>3, SweepStep
<1>4. CASE \E e \in found : Upsert(e)
  BY <1>4, UpsertStep
<1>5. CASE \E d \in Addresses, trusted \in BOOLEAN : Trust(d, trusted)
  BY <1>5, TrustStep
<1>6. CASE UNCHANGED vars
  <2> USE DEF vars, thread, shown, given
  <2>1. TypeOK' /\ LocalsSet' /\ GatewayStored'
    BY <1>6 DEF IInv, TypeOK, LocalsSet, GatewayStored, Flagged
  <2>2. NewsPending' /\ NewsCounted'
    BY <1>6, NewsKept DEF IInv
  <2> QED BY <2>1, <2>2 DEF IInv
<1> QED BY <1>1, <1>2, <1>3, <1>4, <1>5, <1>6 DEF Next, Cycle

-----------------------------------------------------------------------------
(* Theorems about the discovery thread. *)

LEMMA Invariance == Spec => []IInv
  BY DiscoveryInit, DiscoveryInductive, PTL DEF Spec

\* The thread, the table and what is shown have the types the code gives them.
THEOREM Typing == Spec => []TypeOK
<1>1. IInv => TypeOK
  BY DEF IInv
<1> QED BY <1>1, Invariance, PTL

\* A new device or another MAC goes unreported only where a cycle failed, one
\* item per failure at most.
THEOREM NewsLostByFailureOnly == Spec => []DeviceNewsIsLostByFailureOnly
<1>1. IInv => DeviceNewsIsLostByFailureOnly
  BY DEF IInv, NewsCounted
<1> QED BY <1>1, Invariance, PTL

\* After a good cycle, the gateway shown is the one the table flags.
THEOREM GatewayAlwaysFlagged == Spec => []GatewayIsFlagged
<1>1. IInv => GatewayIsFlagged
  BY DEF IInv, GatewayStored, GatewayIsFlagged, Flagged
<1> QED BY <1>1, Invariance, PTL

\* With a limit that no network smaller than the block exceeds, discovery stays on
\* the LAN: only such a network is ever left for the block around it, which is
\* larger.  The default limit is of this kind, 100 is not.
THEOREM SweepStaysOnLargeLans ==
  ASSUME BlockSize > 2, \A n \in Interfaces : Covering(n)
  PROVE  Spec => []SweepStaysOnLan
<1>1. IInv => SweepStaysOnLan
  <2> SUFFICES ASSUME IInv, iface # NoInterfaceYet
               PROVE  Swept(iface) \subseteq HostsOf(iface.ip, iface.size)
    BY DEF SweepStaysOnLan
  <2>1. iface \in Interfaces
    BY DEF IInv, TypeOK
  <2>2. iface \in Networks
    BY <2>1, InterfacesAreNetworks
  <2> QED BY <2>1, <2>2, SweepWithinNetwork
<1> QED BY <1>1, Invariance, PTL

\* Whichever interface a cycle selects, a LAN within the limit is swept completely.
THEOREM SmallLanAlwaysSwept == Spec => []SmallLanIsSwept
<1>1. TypeOK => SmallLanIsSwept
  <2> SUFFICES ASSUME TypeOK, iface # NoInterfaceYet PROVE SmallLanIsSwept
    BY DEF SmallLanIsSwept
  <2>1. iface \in Networks
    <3>1. iface \in Interfaces
      BY DEF TypeOK
    <3> QED BY <3>1, InterfacesAreNetworks
  <2> QED BY <2>1, SmallNetworkIsSwept DEF SmallLanIsSwept
<1> QED BY <1>1, Typing, PTL

\* Cycles write rows, trust is written by users: no step of the thread changes
\* it, nor removes a device.
THEOREM TrustAlwaysTheUsers == Spec => TrustIsTheUsers
<1> DEFINE Kept == pc' # pc \/ found' # found =>
                     \A d \in Known : device'[d].row /\ device'[d].trusted = device[d].trusted
<1>1. TypeOK /\ [Next]_vars => [Kept]_vars
  <2> USE DEF thread, shown, given
  <2> SUFFICES ASSUME TypeOK, Next PROVE Kept
    OBVIOUS
  <2>1. CASE UNCHANGED device
    BY <2>1 DEF Known
  <2>2. CASE \E d \in Addresses, trusted \in BOOLEAN : Trust(d, trusted)
    BY <2>2 DEF Trust
  <2>3. ASSUME NEW e \in found, Upsert(e)
        PROVE  Kept
    <3> DEFINE d == e[1]
               new == Stored(d, e[2])
    <3>1. d \in Addresses /\ e[2] \in Macs \cup {NoMac}
      BY DEF TypeOK, Entries
    <3>2. new.row /\ (device[d].row => new.trusted = device[d].trusted)
      BY <3>1, StoredRow
    <3> HIDE DEF d, new
    <3>3. /\ device'[d] = new
          /\ \A a \in Addresses \ {d} : device'[a] = device[a]
      BY <2>3, <3>1 DEF Upsert, TypeOK, d, new
    <3> QED BY <3>2, <3>3 DEF Known
  <2>4. CASE Cycle /\ ~(\E e \in found : Upsert(e))
    <3>1. UNCHANGED device
      BY <2>4 DEF Cycle, Check, NoInterface, ReadArp, Alert, Publish, Fail, Clear, WakeUp,
                  Select, Sweep
    <3> QED BY <2>1, <3>1
  <2>5. CASE Stop
    BY <2>1, <2>5 DEF Stop
  <2> QED BY <2>2, <2>3, <2>4, <2>5 DEF Next
<1> QED BY <1>1, Typing, PTL DEF Spec, TrustIsTheUsers

-----------------------------------------------------------------------------
(* Theorems about the risk of a device. *)

\* The points before deductions lie in a small range: 83 at most.
LEMMA SuspicionRange ==
  ASSUME NEW p \in Profile
  PROVE  /\ Suspicion(p) \in 0..83
         /\ p.trusted => Suspicion(p) \in 0..52
         /\ p.trusted /\ p.gateway => Suspicion(p) = 0
  BY DEF Suspicion, Profile, Points, AgePoints, ExposurePoints

\* The score is a number from 0 to 83 (the final min and max of device_risk
\* never cut anything from above).
THEOREM RiskRange ==
  ASSUME NEW p \in Profile
  PROVE  Risk(p) \in 0..83
  BY SuspicionRange DEF Risk, Clamped, Points, Profile

\* A trusted device is of level low, however exposed, new or anonymous it is.
THEOREM TrustedIsLow ==
  ASSUME NEW p \in Profile, p.trusted
  PROVE  Risk(p) <= 17 /\ RiskLevel(p) = "low"
<1>1. Suspicion(p) \in 0..52
  BY SuspicionRange
<1>2. Risk(p) <= 17 /\ Risk(p) \in Int
  BY <1>1 DEF Risk, Clamped, Points, Profile
<1> QED BY <1>2 DEF RiskLevel

\* The devices an overview calls risky are among those it calls unknown: neither
\* a trusted device nor the gateway reaches the limit.
THEOREM RiskyIsUnknown ==
  ASSUME NEW Ips, NEW profiles \in [Ips -> Profile]
  PROVE  RiskyOnline(profiles) \subseteq UnknownOnline(profiles)
<1> SUFFICES ASSUME NEW d \in RiskyOnline(profiles)
             PROVE  d \in UnknownOnline(profiles)
  OBVIOUS
<1> DEFINE p == profiles[d]
<1>1. d \in Online(profiles) /\ p \in Profile /\ Risk(p) >= 30
  BY DEF RiskyOnline, Online
<1>2. ~p.trusted
  <2>1. p.trusted => Risk(p) <= 17
    BY <1>1, TrustedIsLow
  <2>2. Risk(p) \in Int
    BY <1>1, RiskRange
  <2> QED BY <1>1, <2>1, <2>2
<1>3. ~p.gateway
  <2>1. SUFFICES ASSUME p.gateway
                 PROVE  FALSE
    OBVIOUS
  <2>2. Suspicion(p) \in 0..5
    BY <2>1 DEF Suspicion, Points
  <2>3. Risk(p) <= 5 /\ Risk(p) \in Int
    BY <1>1, <1>2, <2>2 DEF Risk, Clamped, Points, Profile
  <2> QED BY <1>1, <2>3
<1> QED BY <1>1, <1>2, <1>3 DEF UnknownOnline

\* Trusting a device never raises its score.
THEOREM TrustNeverRaises ==
  ASSUME NEW p \in Profile
  PROVE  Risk([p EXCEPT !.trusted = TRUE]) <= Risk([p EXCEPT !.trusted = FALSE])
<1> DEFINE t == [p EXCEPT !.trusted = TRUE]
           u == [p EXCEPT !.trusted = FALSE]
<1>1. /\ t \in Profile /\ t.trusted /\ u \in Profile /\ ~u.trusted
      /\ t.online = u.online
  BY DEF Profile
<1>2. Suspicion(t) <= Suspicion(u)
  BY <1>1 DEF Suspicion, Profile, Points, AgePoints, ExposurePoints
<1>3. Suspicion(t) \in Int /\ Suspicion(u) \in Int
  BY <1>1, SuspicionRange
<1> HIDE DEF t, u
<1>4. Risk(t) <= Risk(u)
  BY <1>1, <1>2, <1>3 DEF Risk, Clamped, Points
<1> QED BY <1>4 DEF t, u

\* A device that goes offline is not ranked above itself online.
THEOREM AbsenceNeverRaises ==
  ASSUME NEW p \in Profile
  PROVE  Risk([p EXCEPT !.online = FALSE]) <= Risk([p EXCEPT !.online = TRUE])
<1> DEFINE f == [p EXCEPT !.online = FALSE]
           o == [p EXCEPT !.online = TRUE]
<1>1. /\ f \in Profile /\ ~f.online /\ o \in Profile /\ o.online
      /\ f.trusted = o.trusted /\ f.trusted \in BOOLEAN
  BY DEF Profile
<1>2. Suspicion(f) <= Suspicion(o)
  BY <1>1 DEF Suspicion, Profile, Points, AgePoints, ExposurePoints
<1>3. Suspicion(f) \in Int /\ Suspicion(o) \in Int
  BY <1>1, SuspicionRange
<1> HIDE DEF f, o
<1>4. Risk(f) <= Risk(o)
  BY <1>1, <1>2, <1>3 DEF Risk, Clamped, Points
<1> QED BY <1>4 DEF f, o

-----------------------------------------------------------------------------
(* Theorems about the attention score and the overview. *)

\* The deduction is a number, and grows with every count.
LEMMA DeductionGrows ==
  ASSUME NEW c \in Counts, NEW d \in Counts,
         c.high <= d.high, c.medium <= d.medium, c.low <= d.low,
         c.unknown <= d.unknown, c.anomalies <= d.anomalies,
         c.incidents <= d.incidents
  PROVE  Deduction(c) \in Nat /\ Deduction(d) \in Nat /\ Deduction(c) <= Deduction(d)
<1>1. /\ c.high \in Nat /\ c.medium \in Nat /\ c.low \in Nat /\ c.unknown \in Nat
      /\ c.anomalies \in Nat /\ c.incidents \in Nat
      /\ d.high \in Nat /\ d.medium \in Nat /\ d.low \in Nat /\ d.unknown \in Nat
      /\ d.anomalies \in Nat /\ d.incidents \in Nat
  BY DEF Counts
<1>2. /\ AtMost(4 * c.anomalies, 20) \in Nat /\ AtMost(4 * d.anomalies, 20) \in Nat
      /\ AtMost(4 * c.anomalies, 20) <= AtMost(4 * d.anomalies, 20)
  BY <1>1 DEF AtMost
<1>3. /\ AtMost(8 * c.incidents, 28) \in Nat /\ AtMost(8 * d.incidents, 28) \in Nat
      /\ AtMost(8 * c.incidents, 28) <= AtMost(8 * d.incidents, 28)
  BY <1>1 DEF AtMost
<1> QED BY <1>1, <1>2, <1>3 DEF Deduction

\* The score shown is a number from 0 to 100, however many alerts are open.
THEOREM ScoreRange ==
  ASSUME NEW c \in Counts
  PROVE  SentinelScore(c) \in 0..100
<1>1. Deduction(c) \in Nat
  <2>1. /\ c.high \in Nat /\ c.medium \in Nat /\ c.low \in Nat /\ c.unknown \in Nat
        /\ c.anomalies \in Nat /\ c.incidents \in Nat
    BY DEF Counts
  <2> QED BY <2>1, DeductionGrows
<1> QED BY <1>1 DEF SentinelScore

\* Fewer open alerts, unknown devices, anomalies or incidents never give a lower
\* score: acknowledging, closing and trusting never make the dashboard look worse.
THEOREM ScoreRewardsAttention ==
  ASSUME NEW c \in Counts, NEW d \in Counts,
         c.high <= d.high, c.medium <= d.medium, c.low <= d.low,
         c.unknown <= d.unknown, c.anomalies <= d.anomalies,
         c.incidents <= d.incidents
  PROVE  SentinelScore(d) <= SentinelScore(c)
<1>1. Deduction(c) \in Nat /\ Deduction(d) \in Nat /\ Deduction(c) <= Deduction(d)
  BY DeductionGrows
<1> QED BY <1>1 DEF SentinelScore

\* Whether some alerts are open that the others have open, too.
OpenAmong(fewer, alerts) ==
    /\ DOMAIN fewer \subseteq DOMAIN alerts
    /\ \A a \in DOMAIN fewer :
          fewer[a].open => /\ alerts[a].open
                           /\ alerts[a].severity = fewer[a].severity
                           /\ alerts[a].anomaly = fewer[a].anomaly

\* With fewer alerts open no count is larger.
LEMMA FewerOpenAlerts ==
  ASSUME NEW alerts, IsFiniteSet(DOMAIN alerts), NEW fewer, OpenAmong(fewer, alerts)
  PROVE  /\ \A s \in {"low", "medium", "high"} :
              /\ OpenAlerts(fewer, s) \in Nat /\ OpenAlerts(alerts, s) \in Nat
              /\ OpenAlerts(fewer, s) <= OpenAlerts(alerts, s)
         /\ OpenAnomalies(fewer) \in Nat /\ OpenAnomalies(alerts) \in Nat
         /\ OpenAnomalies(fewer) <= OpenAnomalies(alerts)
<1>1. ASSUME NEW s \in {"low", "medium", "high"}
      PROVE  /\ OpenAlerts(fewer, s) \in Nat /\ OpenAlerts(alerts, s) \in Nat
             /\ OpenAlerts(fewer, s) <= OpenAlerts(alerts, s)
  <2> DEFINE Open == {a \in DOMAIN alerts : alerts[a].open /\ alerts[a].severity = s}
             Fewer == {a \in DOMAIN fewer : fewer[a].open /\ fewer[a].severity = s}
  <2>1. Open \subseteq DOMAIN alerts /\ Fewer \subseteq Open
    BY DEF OpenAmong
  <2>2. IsFiniteSet(Open)
    BY <2>1, FS_Subset
  <2>3. IsFiniteSet(Fewer) /\ Cardinality(Fewer) <= Cardinality(Open)
    BY <2>1, <2>2, FS_Subset
  <2> QED BY <2>2, <2>3, FS_CardinalityType DEF OpenAlerts
<1>2. /\ OpenAnomalies(fewer) \in Nat /\ OpenAnomalies(alerts) \in Nat
      /\ OpenAnomalies(fewer) <= OpenAnomalies(alerts)
  <2> DEFINE Open == {a \in DOMAIN alerts : alerts[a].open /\ alerts[a].anomaly}
             Fewer == {a \in DOMAIN fewer : fewer[a].open /\ fewer[a].anomaly}
  <2>1. Open \subseteq DOMAIN alerts /\ Fewer \subseteq Open
    BY DEF OpenAmong
  <2>2. IsFiniteSet(Open)
    BY <2>1, FS_Subset
  <2>3. IsFiniteSet(Fewer) /\ Cardinality(Fewer) <= Cardinality(Open)
    BY <2>1, <2>2, FS_Subset
  <2> QED BY <2>2, <2>3, FS_CardinalityType DEF OpenAnomalies
<1> QED BY <1>1, <1>2

\* Acknowledging opens no alert.
LEMMA AcknowledgedOpensNone ==
  ASSUME NEW Ids, NEW alerts \in [Ids -> Alerts], NEW ids
  PROVE  OpenAmong(Acknowledged(alerts, ids), alerts)
<1> DEFINE after == Acknowledged(alerts, ids)
<1>1. DOMAIN after = Ids /\ DOMAIN alerts = Ids
  BY DEF Acknowledged
<1>2. ASSUME NEW a \in Ids, after[a].open
      PROVE  after[a] = alerts[a]
  <2>1. CASE a \in ids
    <3>1. after[a] = [alerts[a] EXCEPT !.open = FALSE] /\ alerts[a] \in Alerts
      BY <2>1 DEF Acknowledged
    <3>2. ~after[a].open
      BY <3>1 DEF Alerts
    <3> QED BY <1>2, <3>2
  <2>2. CASE a \notin ids
    BY <2>2 DEF Acknowledged
  <2> QED BY <2>1, <2>2
<1> HIDE DEF after
<1>3. OpenAmong(after, alerts)
  BY <1>1, <1>2 DEF OpenAmong
<1> QED BY <1>3 DEF after

\* An anomaly is an alert as well and deducted for twice, up to the cap; still
\* acknowledging, of one alert or of all, never lowers the score, whatever is
\* written between the two queries that count the alerts and the anomalies.
THEOREM AcknowledgingNeverLowers ==
  ASSUME NEW Ids, IsFiniteSet(Ids), NEW alerts \in [Ids -> Alerts],
         NEW LaterIds, IsFiniteSet(LaterIds), NEW later \in [LaterIds -> Alerts],
         NEW ids, NEW profiles, IsFiniteSet(DOMAIN profiles), NEW incidents \in Nat
  PROVE  SentinelScore(CountsOf(profiles, alerts, later, incidents))
           <= SentinelScore(CountsOf(profiles, Acknowledged(alerts, ids),
                                     Acknowledged(later, ids), incidents))
<1> DEFINE fewer == Acknowledged(alerts, ids)
           fewerLater == Acknowledged(later, ids)
           c == CountsOf(profiles, fewer, fewerLater, incidents)
           d == CountsOf(profiles, alerts, later, incidents)
<1>1. Cardinality(UnknownOnline(profiles)) \in Nat
  <2>1. UnknownOnline(profiles) \subseteq DOMAIN profiles
    BY DEF UnknownOnline, Online
  <2> QED BY <2>1, FS_Subset, FS_CardinalityType
<1>2. /\ OpenAmong(fewer, alerts) /\ IsFiniteSet(DOMAIN alerts)
      /\ OpenAmong(fewerLater, later) /\ IsFiniteSet(DOMAIN later)
  BY AcknowledgedOpensNone
<1> HIDE DEF fewer, fewerLater
<1>3. /\ c \in Counts /\ d \in Counts
      /\ c.high <= d.high /\ c.medium <= d.medium /\ c.low <= d.low
      /\ c.unknown <= d.unknown /\ c.anomalies <= d.anomalies
      /\ c.incidents <= d.incidents
  BY <1>1, <1>2, FewerOpenAlerts DEF CountsOf, Counts
<1> HIDE DEF c, d
<1>4. SentinelScore(d) <= SentinelScore(c)
  BY <1>3, ScoreRewardsAttention
<1> QED BY <1>4 DEF c, d, fewer, fewerLater

\* The numbers of one overview add up: reachable and unreachable make the
\* monitored devices, so the max(0, ...) of the code never cuts anything, and these
\* are known ones.  The devices are read twice, for the counts and later for the
\* fleet; no row of a device is ever deleted, so the devices online are among those
\* counted, and these never more than the fleet.
THEOREM OverviewAddsUp ==
  ASSUME NEW profiles, NEW then, IsFiniteSet(DOMAIN then), DOMAIN profiles \subseteq DOMAIN then
  PROVE  /\ Cardinality(Reachable(then)) + Unreachable(then) = Cardinality(Monitored(then))
         /\ Cardinality(Monitored(then)) <= Cardinality(DOMAIN then)
         /\ Cardinality(UnknownOnline(profiles)) <= Cardinality(Online(profiles))
         /\ Cardinality(Online(profiles)) <= Cardinality(DOMAIN profiles)
         /\ Cardinality(DOMAIN profiles) <= Cardinality(DOMAIN then)
<1>1. /\ Monitored(then) \subseteq DOMAIN then
      /\ Reachable(then) \subseteq Monitored(then)
  BY DEF Monitored, Reachable
<1>2. /\ IsFiniteSet(Monitored(then))
      /\ Cardinality(Monitored(then)) <= Cardinality(DOMAIN then)
  BY <1>1, FS_Subset
<1>3. /\ IsFiniteSet(Reachable(then))
      /\ Cardinality(Reachable(then)) <= Cardinality(Monitored(then))
  BY <1>1, <1>2, FS_Subset
<1>4. Cardinality(Reachable(then)) \in Nat /\ Cardinality(Monitored(then)) \in Nat
  BY <1>2, <1>3, FS_CardinalityType
<1>5. /\ IsFiniteSet(DOMAIN profiles)
      /\ Cardinality(DOMAIN profiles) <= Cardinality(DOMAIN then)
  BY FS_Subset
<1>6. /\ Online(profiles) \subseteq DOMAIN profiles
      /\ UnknownOnline(profiles) \subseteq Online(profiles)
  BY DEF Online, UnknownOnline
<1>7. /\ IsFiniteSet(Online(profiles))
      /\ Cardinality(Online(profiles)) <= Cardinality(DOMAIN profiles)
  BY <1>5, <1>6, FS_Subset
<1>8. Cardinality(UnknownOnline(profiles)) <= Cardinality(Online(profiles))
  BY <1>6, <1>7, FS_Subset
<1> QED BY <1>2, <1>3, <1>4, <1>5, <1>7, <1>8 DEF Unreachable
=============================================================================
