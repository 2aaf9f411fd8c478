-------------------------- MODULE DeviceProbeProofs --------------------------
(***************************************************************************)
(* What is proved of DeviceProbe for any devices, ports, pool size and     *)
(* number of changes and errors: its typing, that a result describes the   *)
(* device however it changed meanwhile, and that an error costs the result *)
(* of one device only.                                                     *)
(***************************************************************************)
EXTENDS DeviceProbe, FiniteSetTheorems, TLAPS

-----------------------------------------------------------------------------
(* Lemmas about ports and signals. *)

\* parse_ports returns ports, and at least one.
LEMMA PortsAreValid == Ports \subseteq 1..MaxPort /\ Ports # {}
<1> DEFINE valid == {t \in Setting : 1 <= t /\ t <= MaxPort}
<1>1. Ports = IF valid = {} THEN DefaultPorts ELSE valid
  BY DEF Ports, ParsePorts
<1>2. ASSUME NEW t \in valid PROVE t \in 1..MaxPort
  <2>1. t \in Nat /\ MaxPort \in Nat
    BY PortsAssumption DEF PortsAssumption
  <2> QED BY <2>1
<1> HIDE DEF valid
<1> QED BY <1>1, <1>2, PortsAssumption DEF PortsAssumption

LEMMA LiveAreValid == Live \subseteq 1..MaxPort
BY PortsAssumption DEF PortsAssumption, Live

\* A signal is there exactly when the device does what it stands for.
LEMMA SignalMeaning ==
  ASSUME NEW h \in Hosts
  PROVE  /\ <<"ping", 0>> \in Signals(h) <=> h.ping
         /\ \A p \in Ports \cup Live :
                /\ <<"answers", p>> \in Signals(h) <=> h.tcp[p] # "silent"
                /\ <<"open", p>> \in Signals(h) <=> h.tcp[p] = "open"
<1>1. <<"ping", 0>> \in Signals(h) <=> h.ping
  BY DEF Signals
<1>2. ASSUME NEW p \in Ports \cup Live
      PROVE  /\ <<"answers", p>> \in Signals(h) <=> h.tcp[p] # "silent"
             /\ <<"open", p>> \in Signals(h) <=> h.tcp[p] = "open"
  BY DEF Signals
<1> QED BY <1>1, <1>2

LEMMA SignalType ==
  ASSUME NEW h \in Hosts
  PROVE  Signals(h) \subseteq AllSignals
BY DEF Signals, AllSignals

\* A device answers at a liveness port unless it is silent there.
LEMMA RespondedMeaning ==
  ASSUME TypeOK, NEW d \in Devices, NEW p \in Live
  PROVE  Responded(d, p) <=> <<"answers", p>> \in Signals(host[d])
<1>1. host[d] \in Hosts /\ host[d].tcp[p] \in Statuses
  BY HostsAssumption DEF TypeOK, HostsAssumption
<1>2. <<"answers", p>> \in Signals(host[d]) <=> host[d].tcp[p] # "silent"
  BY <1>1, SignalMeaning
<1> QED BY <1>1, <1>2 DEF Responded, Statuses

-----------------------------------------------------------------------------
(* Typing. *)

LEMMA TypeInit == Init => TypeOK
<1> SUFFICES ASSUME Init PROVE TypeOK
  OBVIOUS
<1>1. 1 \in DOMAIN LivenessPorts
  BY PortsAssumption DEF PortsAssumption
<1>2. 0 \in 0..MaxChanges /\ 0 \in 0..MaxFailures
  BY NumbersAssumption DEF NumbersAssumption
<1> QED BY <1>1, <1>2 DEF Init, TypeOK, Stages, NoResult

\* The end of a probe, with whatever result.
LEMMA FinishType ==
  ASSUME TypeOK, NEW d \in Devices, NEW s \in SUBSET (1..MaxPort),
         NEW on \in BOOLEAN, NEW err \in BOOLEAN,
         Finish(d, [online |-> on, services |-> s, error |-> err]),
         UNCHANGED <<host, raised, history, changes>>, failures' \in 0..MaxFailures
  PROVE  TypeOK'
<1>1. 1 \in DOMAIN LivenessPorts
  BY PortsAssumption DEF PortsAssumption
<1> QED BY <1>1 DEF Finish, TypeOK, Stages, history

LEMMA AnsweredType ==
  ASSUME TypeOK, NEW d \in Devices, Answered(d),
         UNCHANGED <<host, raised, history, changes, failures>>
  PROVE  TypeOK'
<1>1. 1 \in DOMAIN LivenessPorts
  BY PortsAssumption DEF PortsAssumption
<1> QED BY <1>1, PortsAreValid DEF Answered, TypeOK, Stages, history

LEMMA TypeStep == TypeOK /\ [Next]_vars => TypeOK'
<1> SUFFICES ASSUME TypeOK, [Next]_vars
             PROVE  TypeOK'
  OBVIOUS
<1>1. ASSUME NEW batch \in SUBSET Devices, Submit(batch)
      PROVE  TypeOK'
  BY <1>1, NumbersAssumption DEF Submit, TypeOK, Stages, history, NumbersAssumption
<1>2. ASSUME NEW part \in SUBSET Devices, SubmitFails(part)
      PROVE  TypeOK'
  <2>1. failures' \in 0..MaxFailures /\ changes' \in 0..MaxChanges
    BY <1>2, NumbersAssumption DEF SubmitFails, TypeOK, NumbersAssumption
  <2> QED BY <1>2, <2>1 DEF SubmitFails, TypeOK, Stages, history
<1>11. CASE Return
  BY <1>11 DEF Return, TypeOK, Stages, NoResult
<1>3. ASSUME NEW d \in Devices, Start(d)
      PROVE  TypeOK'
  BY <1>3, SignalType DEF Start, TypeOK, Stages
<1>4. ASSUME NEW d \in Devices, Ping(d)
      PROVE  TypeOK'
  <2>1. CASE Answered(d)
    BY <1>4, <2>1, AnsweredType DEF Ping
  <2>2. CASE /\ stage' = [stage EXCEPT ![d] = "liveness"]
             /\ UNCHANGED <<next, unchecked, open, result>>
    BY <1>4, <2>2 DEF Ping, TypeOK, Stages, history
  <2> QED BY <1>4, <2>1, <2>2 DEF Ping
<1>5. ASSUME NEW d \in Devices, TryLiveness(d)
      PROVE  TypeOK'
  <2>1. CASE Answered(d)
    BY <1>5, <2>1, AnsweredType DEF TryLiveness
  <2>2. CASE /\ next[d] < Len(LivenessPorts)
             /\ next' = [next EXCEPT ![d] = @ + 1]
             /\ UNCHANGED <<stage, unchecked, open, result>>
    <3>1. next[d] + 1 \in DOMAIN LivenessPorts
      BY <2>2, PortsAssumption DEF TypeOK, PortsAssumption
    <3> QED BY <1>5, <2>2, <3>1 DEF TryLiveness, TypeOK, history
  <2>3. CASE Finish(d, NoResult)
    <3>1. UNCHANGED <<host, raised, history, changes>> /\ failures' \in 0..MaxFailures
      BY <1>5 DEF TryLiveness, TypeOK
    <3> QED BY <2>3, <3>1, FinishType DEF NoResult
  <2> QED BY <1>5, <2>1, <2>2, <2>3 DEF TryLiveness
<1>6. ASSUME NEW d \in Devices, Checked(d)
      PROVE  TypeOK'
  <2>1. /\ Finish(d, [online |-> TRUE, services |-> open[d], error |-> FALSE])
        /\ open[d] \in SUBSET (1..MaxPort)
        /\ UNCHANGED <<host, raised, history, changes>> /\ failures' \in 0..MaxFailures
    BY <1>6 DEF Checked, TypeOK
  <2> QED BY <2>1, FinishType
<1>7. ASSUME NEW d \in Devices, NEW p \in Ports, CheckPort(d, p)
      PROVE  TypeOK'
  BY <1>7, PortsAreValid DEF CheckPort, TypeOK, history
<1>8. ASSUME NEW d \in Devices, Fail(d)
      PROVE  TypeOK'
  <2>1. /\ UNCHANGED <<host, raised, history, changes>>
        /\ failures' \in 0..MaxFailures
    BY <1>8, NumbersAssumption DEF Fail, TypeOK, NumbersAssumption
  <2> QED BY <1>8, <2>1, FinishType DEF Fail, ErrorResult
<1>9. ASSUME NEW d \in Devices, NEW h \in Hosts, Change(d, h)
      PROVE  TypeOK'
  <2>1. changes' \in 0..MaxChanges
    BY <1>9, NumbersAssumption DEF Change, TypeOK, NumbersAssumption
  <2> QED BY <1>9, <2>1, SignalType DEF Change, TypeOK, probe
<1>10. CASE UNCHANGED vars
  BY <1>10 DEF vars, probe, history, TypeOK
<1> QED BY <1>1, <1>2, <1>3, <1>4, <1>5, <1>6, <1>7, <1>8, <1>9, <1>10, <1>11 DEF Next, Step

\* The variables keep their types: the liveness pass never leaves its list, and
\* only ports are reported.
THEOREM Typing == Spec => []TypeOK
BY TypeInit, TypeStep, PTL DEF Spec

-----------------------------------------------------------------------------
(* The inductive invariant. *)

\* While a device is probed, it has done what it does now, and has always done
\* only that.
Observed(d) ==
    stage[d] \in {"ping", "liveness", "services"} =>
        Signals(host[d]) \subseteq sometimes[d] /\ always[d] \subseteq Signals(host[d])

\* A device in its liveness pass did not always answer what was tried before.
RuledOut(d) ==
    stage[d] = "liveness" =>
        /\ <<"ping", 0>> \notin always[d]
        /\ \A i \in 1..(next[d] - 1) : <<"answers", LivenessPorts[i]>> \notin always[d]

\* A device whose services are looked at has answered; the ports found open were
\* so at some time, and one that is open all the time is found or to be checked.
LookedAt(d) ==
    stage[d] = "services" =>
        /\ Visible(sometimes[d])
        /\ open[d] \subseteq OpenIn(sometimes[d])
        /\ OpenIn(always[d]) \subseteq open[d] \cup unchecked[d]

\* What a stage does not use is reset.
Cleared(d) ==
    /\ stage[d] # "services" => open[d] = {} /\ unchecked[d] = {}
    /\ stage[d] # "liveness" => next[d] = 1

\* What ResultDescribesDevice says of one device.
Described(d) ==
    stage[d] = "done" /\ ~result[d].error =>
        /\ Visible(always[d]) => result[d].online
        /\ result[d].online => Visible(sometimes[d]) /\ OpenIn(always[d]) \subseteq result[d].services
        /\ result[d].services \subseteq OpenIn(sometimes[d])
        /\ result[d].services # {} => result[d].online

ProbeInv(d) == Observed(d) /\ RuledOut(d) /\ LookedAt(d) /\ Cleared(d) /\ Described(d)

\* Every error result stands for an error.
Errors == {d \in Devices : stage[d] = "done" /\ result[d].error}
ErrorsCounted == Cardinality(Errors) <= failures

IInv == TypeOK /\ (\A d \in Devices : ProbeInv(d)) /\ ErrorsCounted

-----------------------------------------------------------------------------
(* One device. *)

DeviceAlone(d) == UNCHANGED <<host[d], stage[d], next[d], unchecked[d], open[d],
                              result[d], sometimes[d], always[d]>>

\* A step that leaves all about a device alone leaves its invariant alone.
LEMMA ProbeFrame ==
  ASSUME NEW d \in Devices, ProbeInv(d), DeviceAlone(d)
  PROVE  ProbeInv(d)'
BY DEF DeviceAlone, ProbeInv, Observed, RuledOut, LookedAt, Cleared, Described, Visible,
       OpenIn

\* The probe of one device, its error, and its change, touch no other device.
LEMMA OthersAlone ==
  ASSUME TypeOK, NEW d \in Devices, NEW e \in Devices \ {d},
         Step(d) \/ Fail(d) \/ \E h \in Hosts : Change(d, h)
  PROVE  DeviceAlone(e)
<1>1. CASE Start(d)
  BY <1>1 DEF Start, TypeOK, DeviceAlone
<1>2. CASE Ping(d)
  BY <1>2 DEF Ping, Answered, TypeOK, DeviceAlone, history
<1>3. CASE TryLiveness(d)
  BY <1>3 DEF TryLiveness, Answered, Finish, TypeOK, DeviceAlone, history
<1>4. CASE Checked(d)
  BY <1>4 DEF Checked, Finish, TypeOK, DeviceAlone, history
<1>5. ASSUME NEW p \in Ports, CheckPort(d, p)
      PROVE  DeviceAlone(e)
  BY <1>5 DEF CheckPort, TypeOK, DeviceAlone, history
<1>6. CASE Fail(d)
  BY <1>6 DEF Fail, Finish, TypeOK, DeviceAlone, history
<1>7. ASSUME NEW h \in Hosts, Change(d, h)
      PROVE  DeviceAlone(e)
  BY <1>7 DEF Change, TypeOK, DeviceAlone, probe
<1> QED BY <1>1, <1>2, <1>3, <1>4, <1>5, <1>6, <1>7 DEF Step

LEMMA StartInv ==
  ASSUME TypeOK, NEW d \in Devices, ProbeInv(d), Start(d)
  PROVE  ProbeInv(d)'
<1>1. /\ stage[d] = "queued" /\ stage'[d] = "ping"
      /\ sometimes'[d] = Signals(host[d]) /\ always'[d] = Signals(host[d])
      /\ UNCHANGED <<host, next, unchecked, open, result>>
  BY DEF Start, TypeOK
<1>2. Observed(d)'
  BY <1>1 DEF Observed, Signals
<1>3. RuledOut(d)' /\ LookedAt(d)' /\ Cleared(d)' /\ Described(d)'
  BY <1>1 DEF ProbeInv, RuledOut, LookedAt, Cleared, Described
<1> QED BY <1>2, <1>3 DEF ProbeInv

\* An answer, now: the device is visible, and all its services are to be checked.
LEMMA AnsweredInv ==
  ASSUME TypeOK, NEW d \in Devices, ProbeInv(d), stage[d] \in {"ping", "liveness"},
         Visible(Signals(host[d])), Answered(d), UNCHANGED <<host, history>>
  PROVE  ProbeInv(d)'
<1>1. /\ stage'[d] = "services" /\ unchecked'[d] = Ports /\ open'[d] = open[d]
      /\ next'[d] = 1
      /\ UNCHANGED <<host, sometimes, always>>
  BY DEF Answered, TypeOK, history
<1>2. Signals(host[d]) \subseteq sometimes[d] /\ open[d] = {}
  BY DEF ProbeInv, Observed, Cleared
<1>3. Observed(d)'
  BY <1>1 DEF ProbeInv, Observed, Signals
<1>4. LookedAt(d)'
  BY <1>1, <1>2 DEF LookedAt, Visible, OpenIn
<1>5. RuledOut(d)' /\ Cleared(d)' /\ Described(d)'
  BY <1>1 DEF RuledOut, Cleared, Described
<1> QED BY <1>3, <1>4, <1>5 DEF ProbeInv

LEMMA PingInv ==
  ASSUME TypeOK, NEW d \in Devices, ProbeInv(d), Ping(d)
  PROVE  ProbeInv(d)'
<1>1. host[d] \in Hosts
  BY DEF TypeOK
<1>2. <<"ping", 0>> \in Signals(host[d]) <=> host[d].ping
  BY <1>1, SignalMeaning
<1>3. CASE host[d].ping /\ Answered(d)
  BY <1>2, <1>3, AnsweredInv DEF Ping, Visible
<1>4. CASE ~host[d].ping /\ stage' = [stage EXCEPT ![d] = "liveness"]
           /\ UNCHANGED <<next, unchecked, open, result>>
  <2>1. /\ stage[d] = "ping" /\ stage'[d] = "liveness"
        /\ UNCHANGED <<host, sometimes, always, next, unchecked, open, result>>
    BY <1>4 DEF Ping, TypeOK, history
  <2>2. <<"ping", 0>> \notin always[d]
    BY <1>2, <1>4, <2>1 DEF ProbeInv, Observed
  <2>3. next[d] = 1
    BY <2>1 DEF ProbeInv, Cleared
  <2> QED BY <2>1, <2>2, <2>3 DEF ProbeInv, Observed, RuledOut, LookedAt, Cleared, Described, Signals
<1> QED BY <1>3, <1>4 DEF Ping

\* The end of a probe: its result has to describe the device.
LEMMA FinishInv ==
  ASSUME TypeOK, NEW d \in Devices, NEW s, NEW on \in BOOLEAN, NEW err \in BOOLEAN,
         Finish(d, [online |-> on, services |-> s, error |-> err]),
         UNCHANGED <<host, history>>,
         ~err => /\ Visible(always[d]) => on
                 /\ on => Visible(sometimes[d]) /\ OpenIn(always[d]) \subseteq s
                 /\ s \subseteq OpenIn(sometimes[d])
                 /\ s # {} => on
  PROVE  ProbeInv(d)'
<1>1. /\ stage'[d] = "done" /\ next'[d] = 1 /\ unchecked'[d] = {} /\ open'[d] = {}
      /\ result'[d] = [online |-> on, services |-> s, error |-> err]
      /\ UNCHANGED <<sometimes, always>>
  BY DEF Finish, TypeOK, history
<1>2. Described(d)'
  BY <1>1 DEF Described, Visible, OpenIn
<1> QED BY <1>1, <1>2 DEF ProbeInv, Observed, RuledOut, LookedAt, Cleared

LEMMA TryLivenessInv ==
  ASSUME TypeOK, NEW d \in Devices, ProbeInv(d), TryLiveness(d)
  PROVE  ProbeInv(d)'
<1> DEFINE p == LivenessPorts[next[d]]
<1>1. /\ stage[d] = "liveness" /\ UNCHANGED <<host, history>>
      /\ next[d] \in 1..Len(LivenessPorts) /\ Len(LivenessPorts) \in Nat
      /\ p \in Live
  <2>1. stage[d] = "liveness" /\ UNCHANGED <<host, history>>
    BY DEF TryLiveness
  <2>2. /\ Len(LivenessPorts) \in Nat /\ DOMAIN LivenessPorts = 1..Len(LivenessPorts)
    BY PortsAssumption DEF PortsAssumption
  <2>3. next[d] \in DOMAIN LivenessPorts
    BY DEF TypeOK
  <2> QED BY <2>1, <2>2, <2>3 DEF Live
<1>2. Responded(d, p) <=> <<"answers", p>> \in Signals(host[d])
  BY <1>1, RespondedMeaning
<1>3. ~Responded(d, p) => \A i \in 1..next[d] : <<"answers", LivenessPorts[i]>> \notin always[d]
  <2> SUFFICES ASSUME ~Responded(d, p), NEW i \in 1..next[d]
               PROVE  <<"answers", LivenessPorts[i]>> \notin always[d]
    OBVIOUS
  <2>1. CASE i = next[d]
    <3>1. always[d] \subseteq Signals(host[d])
      BY <1>1 DEF ProbeInv, Observed
    <3> QED BY <1>2, <2>1, <3>1
  <2>2. CASE i \in 1..(next[d] - 1)
    BY <1>1, <2>2 DEF ProbeInv, RuledOut
  <2> QED BY <1>1, <2>1, <2>2
<1>4. <<"ping", 0>> \notin always[d]
  BY <1>1 DEF ProbeInv, RuledOut
<1>5. CASE Responded(d, p) /\ Answered(d)
  <2>1. Visible(Signals(host[d]))
    BY <1>1, <1>2, <1>5 DEF Visible
  <2> QED BY <1>1, <1>5, <2>1, AnsweredInv
<1>6. CASE /\ ~Responded(d, p)
           /\ next' = [next EXCEPT ![d] = @ + 1]
           /\ UNCHANGED <<stage, unchecked, open, result>>
  <2>1. /\ next'[d] = next[d] + 1 /\ next'[d] - 1 = next[d]
        /\ UNCHANGED <<sometimes, always>>
    BY <1>1, <1>6 DEF TypeOK, history
  <2>2. RuledOut(d)'
    BY <1>3, <1>4, <1>6, <2>1 DEF RuledOut
  <2>3. Observed(d)' /\ LookedAt(d)' /\ Cleared(d)' /\ Described(d)'
    BY <1>1, <1>6, <2>1 DEF ProbeInv, Observed, LookedAt, Cleared, Described, Signals
  <2> QED BY <2>2, <2>3 DEF ProbeInv
<1>7. CASE /\ ~Responded(d, p)
           /\ next[d] = Len(LivenessPorts)
           /\ Finish(d, NoResult)
  <2>1. Live = {LivenessPorts[i] : i \in 1..next[d]}
    BY <1>7, PortsAssumption DEF Live, PortsAssumption
  <2>2. ~Visible(always[d])
    BY <1>3, <1>4, <1>7, <2>1 DEF Visible
  <2> QED BY <1>1, <1>7, <2>2, FinishInv DEF NoResult
<1> QED BY <1>5, <1>6, <1>7 DEF TryLiveness

LEMMA CheckPortInv ==
  ASSUME TypeOK, NEW d \in Devices, NEW p \in Ports, ProbeInv(d), CheckPort(d, p)
  PROVE  ProbeInv(d)'
<1>1. /\ p \in unchecked[d] /\ unchecked'[d] = unchecked[d] \ {p}
      /\ open'[d] = IF host[d].tcp[p] = "open" THEN open[d] \cup {p} ELSE open[d]
      /\ UNCHANGED <<host, stage, next, result, sometimes, always>>
  BY DEF CheckPort, TypeOK, history
<1>2. host[d] \in Hosts
  BY DEF TypeOK
<1>3. <<"open", p>> \in Signals(host[d]) <=> host[d].tcp[p] = "open"
  BY <1>2, SignalMeaning
<1>4. stage[d] = "services"
  BY <1>1 DEF ProbeInv, Cleared
<1>5. LookedAt(d)'
  BY <1>1, <1>3, <1>4 DEF ProbeInv, LookedAt, Observed, OpenIn, Visible
<1>6. Observed(d)' /\ RuledOut(d)' /\ Cleared(d)' /\ Described(d)'
  BY <1>1, <1>4 DEF ProbeInv, Observed, RuledOut, Cleared, Described, Signals
<1> QED BY <1>5, <1>6 DEF ProbeInv

LEMMA CheckedInv ==
  ASSUME TypeOK, NEW d \in Devices, ProbeInv(d), Checked(d)
  PROVE  ProbeInv(d)'
<1>1. /\ stage[d] = "services" /\ unchecked[d] = {}
      /\ UNCHANGED <<host, history>>
      /\ Finish(d, [online |-> TRUE, services |-> open[d], error |-> FALSE])
  BY DEF Checked
<1>2. /\ Visible(sometimes[d]) /\ OpenIn(always[d]) \subseteq open[d]
      /\ open[d] \subseteq OpenIn(sometimes[d])
  BY <1>1 DEF ProbeInv, LookedAt
<1> QED BY <1>1, <1>2, FinishInv

LEMMA FailInv ==
  ASSUME TypeOK, NEW d \in Devices, Fail(d)
  PROVE  ProbeInv(d)'
BY FinishInv DEF Fail, ErrorResult

\* More may have been seen of a device that changes, and less all the time.
LEMMA ChangeInv ==
  ASSUME TypeOK, NEW d \in Devices, ProbeInv(d), NEW h \in Hosts, Change(d, h)
  PROVE  ProbeInv(d)'
<1>1. /\ host'[d] = h /\ stage[d] \in {"ping", "liveness", "services"}
      /\ sometimes'[d] = sometimes[d] \cup Signals(h)
      /\ always'[d] = always[d] \cap Signals(h)
      /\ UNCHANGED <<stage, next, unchecked, open, result>>
  BY DEF Change, TypeOK, probe, Running
<1>2. Observed(d)'
  BY <1>1 DEF Observed, Signals
<1>3. RuledOut(d)' /\ Cleared(d)' /\ Described(d)'
  BY <1>1 DEF ProbeInv, RuledOut, Cleared, Described
<1>4. LookedAt(d)'
  BY <1>1 DEF ProbeInv, LookedAt, Visible, OpenIn
<1> QED BY <1>2, <1>3, <1>4 DEF ProbeInv

-----------------------------------------------------------------------------
(* All devices, and the errors. *)

LEMMA StepInv ==
  ASSUME TypeOK, \A d \in Devices : ProbeInv(d), [Next]_vars
  PROVE  \A d \in Devices : ProbeInv(d)'
<1>1. ASSUME NEW batch \in SUBSET Devices, Submit(batch), NEW d \in Devices
      PROVE  ProbeInv(d)'
  <2>1. /\ stage[d] = "idle" /\ stage'[d] \in {"idle", "queued"}
        /\ UNCHANGED <<next, unchecked, open>>
    BY <1>1 DEF Submit
  <2> QED BY <2>1 DEF ProbeInv, Observed, RuledOut, LookedAt, Cleared, Described
<1>2. ASSUME NEW part \in SUBSET Devices, SubmitFails(part), NEW d \in Devices
      PROVE  ProbeInv(d)'
  <2>1. /\ stage[d] = "idle" /\ stage'[d] \in {"idle", "queued"}
        /\ UNCHANGED <<next, unchecked, open>>
    BY <1>2 DEF SubmitFails
  <2> QED BY <2>1 DEF ProbeInv, Observed, RuledOut, LookedAt, Cleared, Described
<1>5. ASSUME Return, NEW d \in Devices
      PROVE  ProbeInv(d)'
  <2>1. /\ stage[d] \in {"idle", "done"} /\ stage'[d] = "idle"
        /\ UNCHANGED <<next, unchecked, open>>
    BY <1>5 DEF Return
  <2> QED BY <2>1 DEF ProbeInv, Observed, RuledOut, LookedAt, Cleared, Described
<1>3. ASSUME NEW d \in Devices, Step(d) \/ Fail(d) \/ \E h \in Hosts : Change(d, h),
             NEW e \in Devices
      PROVE  ProbeInv(e)'
  <2>1. CASE e # d
    BY <1>3, <2>1, OthersAlone, ProbeFrame
  <2>2. ProbeInv(d)'
    BY <1>3, StartInv, PingInv, TryLivenessInv, CheckPortInv, CheckedInv, FailInv,
       ChangeInv DEF Step
  <2> QED BY <2>1, <2>2
<1>4. ASSUME UNCHANGED vars, NEW d \in Devices
      PROVE  ProbeInv(d)'
  BY <1>4, ProbeFrame DEF vars, probe, history, DeviceAlone
<1> QED BY <1>1, <1>2, <1>3, <1>4, <1>5 DEF Next

LEMMA ErrorsFinite ==
  ASSUME NEW S \in SUBSET Devices
  PROVE  IsFiniteSet(S) /\ Cardinality(S) \in Nat
BY DevicesFinite, FS_Subset, FS_CardinalityType DEF DevicesFinite

\* As long as no device more has an error result, none more has to be counted.
LEMMA FewerErrors ==
  ASSUME ErrorsCounted, Errors' \subseteq Errors, TypeOK, failures' = failures
  PROVE  ErrorsCounted'
<1>1. Errors \in SUBSET Devices
  BY DEF Errors
<1>2. /\ Cardinality(Errors') <= Cardinality(Errors)
      /\ Cardinality(Errors') \in Nat /\ Cardinality(Errors) \in Nat
  BY <1>1, ErrorsFinite, FS_Subset
<1> QED BY <1>2 DEF ErrorsCounted, TypeOK

\* Only an error adds an error result, and only one.
LEMMA ErrorsStep ==
  ASSUME TypeOK, ErrorsCounted, [Next]_vars
  PROVE  ErrorsCounted'
<1>1. ASSUME NEW batch \in SUBSET Devices, Submit(batch)
      PROVE  Errors' \subseteq Errors /\ failures' = failures
  BY <1>1 DEF Submit, Errors
<1>2. CASE Return
  <2>1. Errors' \subseteq Errors /\ failures' = failures
    BY <1>2 DEF Return, Errors
  <2> QED BY <2>1, FewerErrors
<1>3. ASSUME NEW d \in Devices, Step(d)
      PROVE  Errors' \subseteq Errors /\ failures' = failures
  <2>1. CASE Start(d)
    BY <2>1 DEF Start, Errors, TypeOK
  <2>2. CASE Ping(d)
    BY <2>2 DEF Ping, Answered, Errors, TypeOK
  <2>3. CASE TryLiveness(d)
    BY <2>3 DEF TryLiveness, Answered, Finish, NoResult, Errors, TypeOK
  <2>4. CASE Checked(d)
    BY <2>4 DEF Checked, Finish, Errors, TypeOK
  <2>5. ASSUME NEW p \in Ports, CheckPort(d, p)
        PROVE  Errors' \subseteq Errors /\ failures' = failures
    BY <2>5 DEF CheckPort, Errors
  <2> QED BY <1>3, <2>1, <2>2, <2>3, <2>4, <2>5 DEF Step
<1>4. ASSUME NEW d \in Devices, Fail(d)
      PROVE  ErrorsCounted'
  <2>1. Errors' \subseteq Errors \cup {d} /\ failures' = failures + 1
    BY <1>4 DEF Fail, Finish, Errors, TypeOK
  <2>2. /\ IsFiniteSet(Errors) /\ IsFiniteSet(Errors \cup {d})
        /\ Cardinality(Errors) \in Nat /\ Cardinality(Errors \cup {d}) \in Nat
        /\ Cardinality(Errors') \in Nat
    BY ErrorsFinite DEF Errors
  <2>3. Cardinality(Errors') <= Cardinality(Errors \cup {d})
    BY <2>1, <2>2, FS_Subset
  <2>4. Cardinality(Errors \cup {d}) <= Cardinality(Errors) + 1
    BY <2>2, FS_AddElement
  <2> QED BY <2>1, <2>2, <2>3, <2>4 DEF ErrorsCounted, TypeOK
<1>7. ASSUME NEW part \in SUBSET Devices, SubmitFails(part)
      PROVE  ErrorsCounted'
  <2>1. Errors' = {} /\ failures' \in Nat
    BY <1>7 DEF SubmitFails, Errors, TypeOK
  <2> QED BY <2>1, FS_EmptySet DEF ErrorsCounted
<1>5. ASSUME NEW d \in Devices, NEW h \in Hosts, Change(d, h)
      PROVE  Errors' \subseteq Errors /\ failures' = failures
  BY <1>5 DEF Change, Errors, probe
<1>6. CASE UNCHANGED vars
  <2>1. Errors' \subseteq Errors /\ failures' = failures
    BY <1>6 DEF vars, probe, Errors
  <2> QED BY <2>1, FewerErrors
<1> QED BY <1>1, <1>2, <1>3, <1>4, <1>5, <1>6, <1>7, FewerErrors DEF Next

LEMMA IInvInit == Init => IInv
<1> SUFFICES ASSUME Init PROVE IInv
  OBVIOUS
<1>1. \A d \in Devices : ProbeInv(d)
  BY DEF Init, ProbeInv, Observed, RuledOut, LookedAt, Cleared, Described
<1>2. Errors = {}
  BY DEF Init, Errors
<1>3. ErrorsCounted
  BY <1>2, FS_EmptySet DEF Init, ErrorsCounted
<1> QED BY <1>1, <1>3, TypeInit DEF IInv

LEMMA Inductive == Spec => []IInv
<1>1. IInv /\ [Next]_vars => IInv'
  BY TypeStep, StepInv, ErrorsStep DEF IInv
<1> QED BY <1>1, IInvInit, PTL DEF Spec

-----------------------------------------------------------------------------
(* The theorems. *)

\* Whoever was visible all the time is online, who is online was visible at some
\* time, and the services lie between the ports always and sometimes open,
\* whatever the devices, the ports and the order of the pools.
THEOREM ResultsDescribeDevices == Spec => []ResultDescribesDevice
<1>1. IInv => ResultDescribesDevice
  BY DEF IInv, ProbeInv, Described, ResultDescribesDevice
<1> QED BY <1>1, Inductive, PTL

\* No more visible devices are reported offline than errors have happened.
THEOREM FailuresIsolated == Spec => []FailuresAreIsolated
<1>1. ASSUME IInv
      PROVE  FailuresAreIsolated
  <2> DEFINE lost == {d \in Devices : /\ stage[d] = "done"
                                      /\ ~result[d].online
                                      /\ Visible(always[d])}
  <2>1. lost \subseteq Errors
    BY <1>1 DEF IInv, ProbeInv, Described, Errors
  <2>2. /\ IsFiniteSet(Errors) /\ Cardinality(Errors) \in Nat /\ Cardinality(lost) \in Nat
    BY <2>1, ErrorsFinite DEF Errors
  <2>3. Cardinality(lost) <= Cardinality(Errors)
    BY <2>1, <2>2, FS_Subset
  <2> HIDE DEF lost
  <2>4. Cardinality(lost) <= failures
    BY <1>1, <2>2, <2>3 DEF IInv, ErrorsCounted, TypeOK
  <2> QED BY <2>4 DEF FailuresAreIsolated, lost
<1> QED BY <1>1, Inductive, PTL

\* An open port answers.
OpenAnswers ==
    \A d \in Devices : \A p \in Ports : <<"open", p>> \in always[d] => <<"answers", p>> \in always[d]

LEMMA OpenAnswersStep ==
  ASSUME TypeOK, OpenAnswers, [Next]_vars
  PROVE  OpenAnswers'
<1>1. ASSUME NEW h, NEW p, <<"open", p>> \in Signals(h)
      PROVE  <<"answers", p>> \in Signals(h)
  BY <1>1 DEF Signals
<1>2. CASE \E d \in Devices : Start(d)
  <2> PICK d \in Devices : Start(d)
    BY <1>2
  <2>1. always' = [always EXCEPT ![d] = Signals(host[d])] /\ DOMAIN always = Devices
    BY DEF Start, TypeOK
  <2> QED BY <1>1, <2>1 DEF OpenAnswers
<1>3. CASE \E d \in Devices : \E h \in Hosts : Change(d, h)
  <2> PICK d \in Devices, h \in Hosts : Change(d, h)
    BY <1>3
  <2>1. always' = [always EXCEPT ![d] = @ \cap Signals(h)] /\ DOMAIN always = Devices
    BY DEF Change, TypeOK
  <2> QED BY <1>1, <2>1 DEF OpenAnswers
<1>4. CASE Return
  BY <1>4 DEF Return, OpenAnswers
<1>5. CASE always' = always
  BY <1>5 DEF OpenAnswers
<1>6. \/ \E d \in Devices : Start(d) \/ \E h \in Hosts : Change(d, h)
      \/ Return
      \/ always' = always
  BY DEF Next, Step, Submit, SubmitFails, Ping, TryLiveness, CheckPort, Checked, Fail, vars, history
<1> QED BY <1>2, <1>3, <1>4, <1>5, <1>6

\* What would make the promise of the fleet true: when every monitored port is one
\* of the liveness ports, no device with an open service is reported offline.
THEOREM LivenessPortsSuffice ==
  ASSUME Ports \subseteq Live
  PROVE  Spec => []MonitoredServiceCounts
<1>1. Init => OpenAnswers
  BY DEF Init, OpenAnswers
<1>2. OpenAnswers /\ ResultDescribesDevice => MonitoredServiceCounts
  BY DEF OpenAnswers, ResultDescribesDevice, MonitoredServiceCounts, Visible, OpenIn
<1>3. TypeOK /\ OpenAnswers /\ [Next]_vars => OpenAnswers'
  BY OpenAnswersStep
<1> QED BY <1>1, <1>2, <1>3, Typing, ResultsDescribeDevices, PTL DEF Spec
=============================================================================
