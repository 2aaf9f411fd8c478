--------------------------- MODULE ProbeStoreProofs ---------------------------
(***************************************************************************)
(* What is proved of ProbeStore for every set of devices and ports, every  *)
(* cooldown and retention: its typing, the agreement of samples and        *)
(* service rows, and that alerts are neither missing nor too close.        *)
(***************************************************************************)
EXTENDS ProbeStore, TLAPS

\* Everything that happened, happened by now.
Past ==
    /\ \A k \in Kinds, d \in Devices : last[k][d] <= now
    /\ pc # "idle" => call.at <= now

\* An alert covers a change if it is no older than the cooldown allows.
Covered(k) ==
    last[k][call.dev] # Never /\ last[k][call.dev] + Cooldown(k) >= call.at

\* What the call has established at each of its steps.
CallInv ==
    /\ pc = "add_state" =>
          call.change # "none" /\ ~Recent(call.change, call.dev)
    /\ pc = "add_service" => call.added # {} /\ ~Recent(Added, call.dev)
    /\ pc \in {"check_service", "add_service", "finish"} =>
          (call.change # "none" => Covered(call.change))
    /\ pc = "finish" => (call.added # {} => Covered(Added))

IInv == TypeOK /\ Past /\ CallInv /\ SampleMatchesServices

LEMMA CooldownType == \A k \in Kinds : Cooldown(k) \in Nat
BY TimesAssumption DEF Cooldown, TimesAssumption

LEMMA InitInv == Init => IInv
<1> SUFFICES ASSUME Init PROVE IInv
  OBVIOUS
<1>1. TypeOK
  <2>1. sample \in [Devices -> Samples]
    BY DEF Init, NoSample, Samples, Never
  <2>2. last \in [Kinds -> [Devices -> Nat]]
    BY DEF Init, Never
  <2>3. service \in [Devices -> [Ports -> Rows]]
    BY DEF Init, Rows
  <2>4. now \in Nat \ {0} /\ pc = "idle" /\ call = NoCall /\ met \subseteq Devices
    BY DEF Init
  <2> QED BY <2>1, <2>2, <2>3, <2>4 DEF TypeOK
<1>2. Past /\ CallInv
  BY DEF Init, Past, CallInv, Never
<1>3. SampleMatchesServices
  BY DEF Init, SampleMatchesServices, NoSample
<1> QED BY <1>1, <1>2, <1>3 DEF IInv

\* Each step of the call and of its surroundings preserves the invariant.
LEMMA StepInv == IInv /\ [Next]_vars => IInv'
<1> SUFFICES ASSUME IInv, [Next]_vars PROVE IInv'
  OBVIOUS
<1> USE DEF IInv, tables
<1>10. ASSUME NEW d \in Devices, NEW online \in BOOLEAN, NEW open \in SUBSET Ports,
              Begin(d, online, open)
       PROVE  IInv'
  <2>1. call' \in Calls /\ call'.at = now /\ pc' = "store"
    BY <1>10 DEF Begin, NoCall, Calls, TypeOK
  <2>2. UNCHANGED <<now, sample, service, last, met>>
    BY <1>10 DEF Begin
  <2>3. TypeOK' /\ Past'
    BY <2>1, <2>2 DEF TypeOK, Past, Steps
  <2>4. CallInv' /\ SampleMatchesServices'
    BY <2>1, <2>2 DEF CallInv, SampleMatchesServices, Active
  <2> QED BY <2>3, <2>4
<1>1. ASSUME NEW d \in Devices, Commit(d)
      PROVE  IInv'
  <2>0. call \in Calls /\ pc' = "check_state" /\ UNCHANGED <<now, last>>
    BY <1>1 DEF Commit, TypeOK
  <2>1. call' \in Calls /\ call'.at = call.at
    BY <1>1, <2>0 DEF Commit, Calls
  <2>2. sample' \in [Devices -> Samples]
    BY <1>1, <2>0 DEF Commit, Samples, Calls, TypeOK
  <2>3. service' \in [Devices -> [Ports -> Rows]]
    BY <1>1, <2>0 DEF Commit, Marked, Rows, TypeOK
  <2>4. TypeOK'
    BY <1>1, <2>0, <2>1, <2>2, <2>3 DEF Commit, TypeOK, Steps
  <2>5. Past'
    BY <1>1, <2>0, <2>1 DEF Commit, Past, TypeOK
  <2>6. CallInv'
    BY <2>0 DEF CallInv
  <2>7. SampleMatchesServices'
    <3> SUFFICES ASSUME NEW e \in Devices, sample'[e].online
                 PROVE  sample'[e].ports = Active(e)'
      BY DEF SampleMatchesServices
    <3>1. CASE e # d
      BY <1>1, <3>1 DEF Commit, TypeOK, SampleMatchesServices, Active
    <3>2. CASE e = d
      <4>1. call.online /\ sample'[e].ports = call.open /\ call.open \subseteq Ports
        BY <1>1, <2>0, <3>2 DEF Commit, TypeOK, Calls
      <4>2. \A p \in Ports : service'[d][p] = "active" <=> p \in call.open
        BY <1>1, <4>1 DEF Commit, Marked, TypeOK, Rows
      <4> QED BY <3>2, <4>1, <4>2 DEF Active
    <3> QED BY <3>1, <3>2
  <2> QED BY <2>4, <2>5, <2>6, <2>7
<1>2. CASE CheckState
  <2>1. TypeOK' /\ Past' /\ SampleMatchesServices'
    BY <1>2 DEF CheckState, TypeOK, Steps, Past, SampleMatchesServices, Active,
                NoCall
  <2>2. CallInv'
    <3>1. call.change # "none" /\ Recent(call.change, call.dev) =>
            Covered(call.change)
      <4>1. call \in Calls
        BY <1>2 DEF CheckState, TypeOK
      <4>2. SUFFICES ASSUME call.change # "none", Recent(call.change, call.dev)
                     PROVE  Covered(call.change)
        OBVIOUS
      <4>3. call.change \in Kinds /\ call.dev \in Devices /\ call.at \in Nat
        BY <4>1, <4>2 DEF Calls, Kinds
      <4>4. call.at <= now /\ now \in Nat
        BY <1>2 DEF CheckState, Past, TypeOK
      <4>5. last[call.change][call.dev] \in Nat
        BY <4>3 DEF TypeOK
      <4> QED BY <4>2, <4>3, <4>4, <4>5, CooldownType DEF Recent, Covered
    <3> QED BY <1>2, <3>1 DEF CheckState, CallInv, Covered, Recent
  <2> QED BY <2>1, <2>2
<1>3. CASE AddState
  <2>1. call \in Calls /\ call.change \in Kinds /\ call.dev \in Devices
    BY <1>3 DEF AddState, TypeOK, CallInv, Calls, Kinds
  <2>2. call.at \in Nat /\ call.at <= now /\ now \in Nat \ {0}
    BY <1>3, <2>1 DEF AddState, TypeOK, Past, Calls
  <2>3. /\ last' \in [Kinds -> [Devices -> Nat]]
        /\ last'[call.change][call.dev] = now
    BY <1>3, <2>1, <2>2 DEF AddState, AddAlert, TypeOK
  <2>4. TypeOK'
    BY <1>3, <2>1, <2>3 DEF AddState, TypeOK, Steps
  <2>5. Past'
    BY <1>3, <2>1, <2>2 DEF AddState, AddAlert, Past, TypeOK
  <2>6. Covered(call.change)'
    BY <1>3, <2>1, <2>2, <2>3, CooldownType
       DEF AddState, Covered, Never, Cooldown
  <2>7. CallInv'
    BY <1>3, <2>6 DEF AddState, CallInv, Covered
  <2>8. SampleMatchesServices'
    BY <1>3 DEF AddState, SampleMatchesServices, Active
  <2> QED BY <2>4, <2>5, <2>7, <2>8
<1>4. CASE CheckService
  <2>1. TypeOK' /\ Past' /\ SampleMatchesServices'
    BY <1>4 DEF CheckService, TypeOK, Steps, Past, SampleMatchesServices,
                Active, NoCall
  <2>2. Recent(Added, call.dev) => Covered(Added)
    <3>1. call \in Calls /\ Added \in Kinds
      BY <1>4 DEF CheckService, TypeOK, Kinds
    <3>2. call.dev \in Devices /\ call.at \in Nat /\ call.at <= now
      BY <1>4, <3>1 DEF CheckService, Past, Calls
    <3>3. last[Added][call.dev] \in Nat /\ now \in Nat
      BY <3>1, <3>2 DEF TypeOK
    <3> QED BY <3>1, <3>2, <3>3, CooldownType DEF Recent, Covered
  <2>3. CallInv'
    BY <1>4, <2>2 DEF CheckService, CallInv, Covered, Recent
  <2> QED BY <2>1, <2>3
<1>5. CASE AddService
  <2>1. call \in Calls /\ Added \in Kinds /\ call.dev \in Devices
    BY <1>5 DEF AddService, TypeOK, Calls, Kinds
  <2>2. call.at \in Nat /\ call.at <= now /\ now \in Nat \ {0}
    BY <1>5, <2>1 DEF AddService, TypeOK, Past, Calls
  <2>3. call' \in Calls /\ UNCHANGED <<call.dev, call.at, call.change, call.added>>
    <3> PICK named \in SUBSET call.added : call' = [call EXCEPT !.listed = named]
      BY <1>5 DEF AddService
    <3> QED BY <2>1 DEF Calls
  <2>4. /\ last' \in [Kinds -> [Devices -> Nat]]
        /\ last'[Added][call.dev] = now
        /\ \A k \in Kinds : k # Added => last'[k] = last[k]
    BY <1>5, <2>1, <2>2 DEF AddService, AddAlert, TypeOK
  <2>5. TypeOK'
    BY <1>5, <2>3, <2>4 DEF AddService, TypeOK, Steps
  <2>6. Past'
    BY <1>5, <2>1, <2>2, <2>3 DEF AddService, AddAlert, Past, TypeOK
  <2>7. Covered(Added)'
    BY <2>2, <2>3, <2>4, CooldownType, <2>1 DEF Covered, Never, Cooldown
  <2>8. call.change # "none" => Covered(call.change)'
    <3> SUFFICES ASSUME call.change # "none" PROVE Covered(call.change)'
      OBVIOUS
    <3>1. Covered(call.change)
      BY <1>5 DEF AddService, CallInv
    <3>2. call.change \in Kinds /\ call.change # Added
      BY <2>1 DEF Calls, Kinds, Added, Offline, Online
    <3> QED BY <3>1, <3>2, <2>3, <2>4 DEF Covered, Cooldown
  <2>9. CallInv'
    BY <1>5, <2>3, <2>7, <2>8 DEF AddService, CallInv, Covered
  <2>10. SampleMatchesServices'
    BY <1>5 DEF AddService, SampleMatchesServices, Active
  <2> QED BY <2>5, <2>6, <2>9, <2>10
<1>6. CASE Finish \/ Abort
  BY <1>6 DEF Finish, Abort, TypeOK, Past, CallInv, SampleMatchesServices, Active
<1>7. CASE Prune
  <2>1. \A d \in Devices : sample'[d] = sample[d] \/ sample'[d] = NoSample
    BY <1>7 DEF Prune
  <2>2. sample' \in [Devices -> Samples]
    BY <1>7 DEF Prune, TypeOK, NoSample, Samples, Never
  <2>3. SampleMatchesServices'
    BY <1>7, <2>1 DEF Prune, SampleMatchesServices, Active, NoSample
  <2>4. TypeOK' /\ Past' /\ CallInv'
    BY <1>7, <2>2 DEF Prune, TypeOK, Past, CallInv, Covered, Recent
  <2> QED BY <2>3, <2>4
<1>8. CASE Tick
  <2>1. now' = now + 1 /\ now \in Nat
    BY <1>8 DEF Tick, TypeOK
  <2>2. TypeOK' /\ SampleMatchesServices'
    BY <1>8, <2>1 DEF Tick, TypeOK, SampleMatchesServices, Active
  <2>3. pc # "idle" =>
          call \in Calls /\ call.dev \in Devices /\ call.at \in Nat
    BY DEF TypeOK, Calls
  <2>4. Past'
    BY <1>8, <2>1, <2>3 DEF Tick, Past, TypeOK
  <2>5. ASSUME NEW k \in Kinds, NEW d \in Devices, ~Recent(k, d)
        PROVE  ~Recent(k, d)'
    <3>1. last[k][d] \in Nat /\ Cooldown(k) \in Nat
      BY CooldownType DEF TypeOK
    <3> QED BY <1>8, <2>1, <2>5, <3>1 DEF Tick, Recent, Cooldown
  <2>6. call.change # "none" /\ pc # "idle" => call.change \in Kinds
    BY DEF TypeOK, Calls, Kinds
  <2>7. CallInv'
    <3> UNCHANGED <<pc, call>>
      BY <1>8 DEF Tick
    <3>1. pc = "add_state" => ~Recent(call.change, call.dev)'
      BY <2>3, <2>5, <2>6 DEF CallInv, Recent, Cooldown
    <3>2. pc = "add_service" => ~Recent(Added, call.dev)'
      BY <2>3, <2>5 DEF CallInv, Kinds, Recent, Cooldown
    <3> QED BY <1>8, <3>1, <3>2 DEF Tick, CallInv, Covered, Recent, Cooldown
  <2> QED BY <2>2, <2>4, <2>7
<1>9. CASE UNCHANGED vars
  BY <1>9 DEF vars, TypeOK, Past, CallInv, SampleMatchesServices, Active,
              Covered, Recent
<1> QED
  BY <1>1, <1>2, <1>3, <1>4, <1>5, <1>6, <1>7, <1>8, <1>9, <1>10 DEF Next

LEMMA Inductive == Spec => []IInv
BY InitInv, StepInv, PTL DEF Spec

-----------------------------------------------------------------------------
\* Every state ProbeStore reaches is well typed.
THEOREM Typing == Spec => []TypeOK
BY Inductive, PTL DEF IInv

\* The newest sample of a device that answered and its active service rows
\* name the same ports, at every moment another thread can read them.
THEOREM SamplesMatch == Spec => []SampleMatchesServices
BY Inductive, PTL DEF IInv

\* A call never returns with a stored change that no alert covers.
THEOREM ChangesCovered == Spec => []ChangesAreCovered
<1>1. IInv => ChangesAreCovered
  BY DEF IInv, CallInv, Covered, ChangesAreCovered, Offline, Online, Added, TypeOK,
         Calls, Kinds
<1> QED BY <1>1, Inductive, PTL

\* The query and the insert of an alert being two transactions does no harm as
\* long as only the fleet thread records: what was not recent stays so.
THEOREM AlertsSpaced == Spec => AlertsAreSpaced
<1>1. ASSUME IInv, [Next]_vars, NEW k \in Kinds, NEW d \in Devices,
             last'[k][d] # last[k][d], last[k][d] # Never
      PROVE  last'[k][d] > last[k][d] + Cooldown(k)
  <2> USE <1>1 DEF IInv, tables
  <2>1. ASSUME NEW j \in Kinds, AddAlert(j), ~Recent(j, call.dev)
        PROVE  last'[k][d] > last[k][d] + Cooldown(k)
    <3>1. last'[k][d] = IF k = j /\ d = call.dev THEN now ELSE last[k][d]
      BY <2>1 DEF AddAlert, TypeOK
    <3>2. k = j /\ d = call.dev /\ last'[k][d] = now
      BY <3>1
    <3>3. last[k][d] \in Nat /\ now \in Nat /\ Cooldown(k) \in Nat
      BY CooldownType DEF TypeOK
    <3> QED BY <2>1, <3>2, <3>3 DEF Recent
  <2>2. CASE AddState
    <3>1. call.change \in Kinds /\ ~Recent(call.change, call.dev)
      BY <2>2 DEF AddState, CallInv, TypeOK, Calls, Kinds
    <3> QED BY <2>1, <2>2, <3>1 DEF AddState
  <2>3. CASE AddService
    BY <2>1, <2>3 DEF AddService, CallInv, Kinds
  <2>4. CASE UNCHANGED last
    BY <2>4
  <2> QED
    BY <2>2, <2>3, <2>4 DEF Next, Begin, Commit, CheckState, CheckService, Finish, Abort,
                            Prune, Tick, vars
<1>2. IInv /\ [Next]_vars =>
        [\A k \in Kinds, d \in Devices :
           last'[k][d] # last[k][d] /\ last[k][d] # Never =>
               last'[k][d] > last[k][d] + Cooldown(k)]_vars
  BY <1>1
<1> QED BY <1>2, Inductive, PTL DEF Spec, AlertsAreSpaced

\* A device that merely stopped answering keeps its services: they are closed
\* only by a probe that was answered and did not find them.
THEOREM ServicesClose == Spec => ServicesCloseOnEvidence
<1>1. ASSUME IInv, [Next]_vars, NEW d \in Devices, NEW p \in Ports,
             service[d][p] = "active", service'[d][p] # "active"
      PROVE  sample'[d].online /\ p \notin sample'[d].ports
  <2> USE <1>1 DEF IInv, tables
  <2>1. ASSUME NEW e \in Devices, Commit(e)
        PROVE  sample'[d].online /\ p \notin sample'[d].ports
    <3>1. d = e
      BY <2>1 DEF Commit, Marked, TypeOK
    <3>2. sample'[d].online = call.online /\ sample'[d].ports = call.open
      BY <2>1, <3>1 DEF Commit, Marked, TypeOK
    <3>3. call.online /\ p \notin call.open
      BY <2>1, <3>1 DEF Commit, Marked, TypeOK
    <3> QED BY <3>2, <3>3
  <2>2. CASE UNCHANGED service
    BY <2>2
  <2> QED
    BY <2>1, <2>2 DEF Next, Begin, CheckState, AddState, CheckService, AddService, Finish,
                      Abort, Prune, Tick, vars
<1>2. IInv /\ [Next]_vars =>
        [\A d \in Devices, p \in Ports :
           service[d][p] = "active" /\ service'[d][p] # "active" =>
               sample'[d].online /\ p \notin sample'[d].ports]_vars
  BY <1>1
<1> QED BY <1>2, Inductive, PTL DEF Spec, ServicesCloseOnEvidence
=============================================================================
