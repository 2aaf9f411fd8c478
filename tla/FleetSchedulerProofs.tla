------------------------- MODULE FleetSchedulerProofs -------------------------
(***************************************************************************)
(* What is proved of FleetScheduler for every set of devices and clients   *)
(* and every number of failures: its typing, that shutdown lets at most    *)
(* one more cycle take targets, and that it implements ProbeRequests.      *)
(***************************************************************************)
EXTENDS FleetScheduler, TLAPS

\* Every state FleetScheduler reaches is well typed.
THEOREM Typing == Spec => []TypeOK
<1>1. Init => TypeOK
  <2> SUFFICES ASSUME Init PROVE TypeOK
    OBVIOUS
  <2>1. failures \in 0..MaxFailures
    BY FailuresAssumption DEF Init, FailuresAssumption
  <2>2. call \in [Clients -> Calls]
    BY DEF Init, Calls
  <2>3. pc \in Labels /\ stopper \in {"up", "stopping", "down"}
    BY DEF Init, Labels
  <2>4. /\ known \subseteq Devices /\ manualTargets \subseteq Devices
        /\ targets \subseteq Devices /\ todo \subseteq Private
    BY DEF Init
  <2>5. late \in 0..2
    BY DEF Init
  <2>6. /\ stopEvent \in BOOLEAN /\ scanEvent \in BOOLEAN
        /\ fleetRunning \in BOOLEAN /\ fleetError \in BOOLEAN
        /\ scanOwed \in BOOLEAN
    BY DEF Init
  <2> QED BY <2>1, <2>2, <2>3, <2>4, <2>5, <2>6 DEF TypeOK
<1>2. TypeOK /\ [Next]_vars => TypeOK'
  <2> SUFFICES ASSUME TypeOK, [Next]_vars PROVE TypeOK'
    OBVIOUS
  <2> USE DevicesAssumption, PrivateAssumption, EnabledAssumption,
          FailuresAssumption
      DEF DevicesAssumption, PrivateAssumption, EnabledAssumption,
          FailuresAssumption, TypeOK, Labels, vars, threadVars, eventVars,
          userVars
  <2>1. CASE Start
    BY <2>1 DEF Start
  <2>2. CASE Check
    BY <2>2 DEF Check
  <2>3. CASE Take
    BY <2>3 DEF Take
  <2>4. CASE Read
    BY <2>4 DEF Read, Chosen
  <2>5. CASE Probe
    BY <2>5 DEF Probe
  <2>6. CASE Record
    BY <2>6 DEF Record
  <2>7. CASE RecordedAll
    BY <2>7 DEF RecordedAll
  <2>8. CASE Publish
    BY <2>8 DEF Publish
  <2>9. CASE Fail
    <3>1. failures' \in 0..MaxFailures
      BY <2>9 DEF Fail
    <3>2. pc' = "clear" /\ todo' = {} /\ fleetRunning' = FALSE
          /\ fleetError' = TRUE
      BY <2>9 DEF Fail
    <3>3. UNCHANGED <<targets, late, eventVars, userVars, scanOwed>>
      BY <2>9 DEF Fail
    <3> QED BY <3>1, <3>2, <3>3
  <2>10. CASE Clear
    BY <2>10 DEF Clear
  <2>11. CASE WakeUp
    BY <2>11 DEF WakeUp
  <2>12. CASE \E d \in Devices : Discover(d)
    BY <2>12 DEF Discover
  <2>13. ASSUME NEW c \in Clients,
                (\E d \in Devices : ProbeNow(c, d)) \/ Enqueue(c) \/ Signal(c)
                \/ ScanNow(c)
         PROVE  TypeOK'
    <3>1. CASE \E d \in Devices : ProbeNow(c, d)
      BY <3>1 DEF ProbeNow, Calls
    <3>2. CASE Enqueue(c)
      <4>1. call[c] \in Calls /\ call[c].at = "enqueue"
        BY <3>2 DEF Enqueue
      <4>2. call[c].ip \in Devices
        BY <4>1 DEF Calls, Idle
      <4>3. [call[c] EXCEPT !.at = "signal"] \in Calls
        BY <4>1, <4>2 DEF Calls, Idle
      <4> QED BY <3>2, <4>2, <4>3 DEF Enqueue
    <3>3. CASE Signal(c)
      BY <3>3 DEF Signal, Calls
    <3>4. CASE ScanNow(c)
      BY <3>4 DEF ScanNow
    <3> QED BY <2>13, <3>1, <3>2, <3>3, <3>4
  <2>14. CASE Stop
    BY <2>14 DEF Stop
  <2>15. CASE StopSignal
    BY <2>15 DEF StopSignal
  <2>16. CASE UNCHANGED vars
    BY <2>16
  <2> QED
    BY <2>1, <2>2, <2>3, <2>4, <2>5, <2>6, <2>7, <2>8, <2>9, <2>10, <2>11,
       <2>12, <2>13, <2>14, <2>15, <2>16 DEF Next, FleetThread, Around
<1> QED BY <1>1, <1>2, PTL DEF Spec

-----------------------------------------------------------------------------
\* Shutdown: stop_event is tested between two takes, so once it is set a take
\* leaves the thread where no further take can follow.
LateInv ==
    /\ ~stopEvent => late = 0
    /\ late \in 0..1
    /\ pc = "take" => late = 0

\* After stop() the thread takes targets for at most one more cycle.
THEOREM StopIsPrompt == Spec => []AtMostOneCycleAfterStop
<1>1. Init => LateInv
  BY DEF Init, LateInv
<1>2. LateInv /\ [Next]_vars => LateInv'
  <2> SUFFICES ASSUME LateInv, [Next]_vars PROVE LateInv'
    OBVIOUS
  <2> USE DEF LateInv, vars, threadVars, eventVars, userVars
  <2>1. CASE Check
    BY <2>1 DEF Check
  <2>2. CASE Take
    BY <2>2 DEF Take
  <2>3. CASE Stop
    BY <2>3 DEF Stop
  <2>4. CASE Start \/ Read \/ Probe \/ Record \/ RecordedAll
    BY <2>4 DEF Start, Read, Chosen, Probe, Record, RecordedAll
  <2>5. CASE Publish \/ Fail \/ Clear \/ WakeUp
    BY <2>5 DEF Publish, Fail, Clear, WakeUp
  <2>6. CASE StopSignal \/ (\E d \in Devices : Discover(d))
    BY <2>6 DEF StopSignal, Discover
  <2>7. CASE \E c \in Clients : \/ \E d \in Devices : ProbeNow(c, d)
                                \/ Enqueue(c) \/ Signal(c) \/ ScanNow(c)
    BY <2>7 DEF ProbeNow, Enqueue, Signal, ScanNow
  <2>8. CASE UNCHANGED vars
    BY <2>8
  <2> QED
    BY <2>1, <2>2, <2>3, <2>4, <2>5, <2>6, <2>7, <2>8
       DEF Next, FleetThread, Around
<1>3. LateInv => AtMostOneCycleAfterStop
  BY DEF LateInv, AtMostOneCycleAfterStop
<1> QED BY <1>1, <1>2, <1>3, PTL DEF Spec

-----------------------------------------------------------------------------
\* Nobody asks for a device without a row: trigger(ip) follows the profile
\* check, and rows are never deleted.
KnownInv ==
    /\ manualTargets \subseteq known
    /\ targets \subseteq known
    /\ \A c \in Clients : call[c].at = "enqueue" => call[c].ip \in known

\* A requested address always has a row in the device table.
LEMMA RequestsAreKnown == Spec => []KnownInv
<1>1. Init => KnownInv
  BY DEF Init, KnownInv, Idle
<1>2. TypeOK /\ KnownInv /\ [Next]_vars => KnownInv'
  <2> SUFFICES ASSUME TypeOK, KnownInv, [Next]_vars PROVE KnownInv'
    OBVIOUS
  <2> USE DEF KnownInv, vars, threadVars, eventVars, userVars
  <2>1. CASE Start \/ Check \/ Read \/ Probe \/ Record \/ RecordedAll
    BY <2>1 DEF Start, Check, Read, Chosen, Probe, Record, RecordedAll
  <2>2. CASE Publish \/ Fail \/ Clear \/ WakeUp
    BY <2>2 DEF Publish, Fail, Clear, WakeUp
  <2>3. CASE Take
    BY <2>3 DEF Take
  <2>4. CASE \E d \in Devices : Discover(d)
    BY <2>4 DEF Discover
  <2>5. CASE Stop \/ StopSignal
    BY <2>5 DEF Stop, StopSignal
  <2>6. ASSUME NEW c \in Clients,
               (\E d \in Devices : ProbeNow(c, d)) \/ Enqueue(c) \/ Signal(c)
               \/ ScanNow(c)
        PROVE  KnownInv'
    <3> call \in [Clients -> Calls]
      BY DEF TypeOK
    <3>1. CASE \E d \in Devices : ProbeNow(c, d)
      BY <3>1 DEF ProbeNow
    <3>2. CASE Enqueue(c)
      BY <3>2 DEF Enqueue
    <3>3. CASE Signal(c)
      BY <3>3 DEF Signal, Idle
    <3>4. CASE ScanNow(c)
      BY <3>4 DEF ScanNow
    <3> QED BY <2>6, <3>1, <3>2, <3>3, <3>4
  <2>7. CASE UNCHANGED vars
    BY <2>7
  <2> QED
    BY <2>1, <2>2, <2>3, <2>4, <2>5, <2>6, <2>7
       DEF Next, FleetThread, Around
<1> QED BY <1>1, <1>2, Typing, PTL DEF Spec

\* The scheduler implements ProbeRequests: a request waits for the next cycle,
\* is answered by a probe that began after it, and is given up only by a cycle
\* that failed after taking it.
THEOREM RequestsImplemented == Spec => RequestsKept
<1>1. Init => Requests!Init
  BY DEF Init, Requests!Init, InFlight
<1>2. TypeOK /\ KnownInv /\ [Next]_vars => [Requests!Next]_(Requests!vars)
  <2> SUFFICES ASSUME TypeOK, KnownInv, [Next]_vars
               PROVE  Requests!Next \/ UNCHANGED Requests!vars
    OBVIOUS
  <2> USE DEF threadVars, eventVars, userVars, Requests!vars
  <2>1. CASE Start \/ Check \/ Probe \/ WakeUp \/ Publish \/ Clear
    BY <2>1 DEF Start, Check, Probe, WakeUp, Publish, Clear, InFlight
  <2>2. CASE Take
    BY <2>2 DEF Take, InFlight, Requests!Next, Requests!Begin
  <2>3. CASE Read
    <3>1. targets \subseteq known /\ targets' = targets
      BY <2>3 DEF Read, Chosen, KnownInv
    <3>2. InFlight' = InFlight \cap Private
      BY <2>3, <3>1 DEF Read, Chosen, InFlight
    <3> QED
      BY <2>3, <3>2 DEF Read, Chosen, Requests!Next, Requests!Refuse
  <2>4. CASE Record
    <3>1. PICK d \in todo : Recording(d) /\ todo' = todo \ {d}
      BY <2>4 DEF Record
    <3>2. pc = "record" /\ UNCHANGED <<pc, targets, manualTargets, failures>>
      BY <2>4, <3>1 DEF Record, Recording
    <3>3. InFlight' = InFlight \ {d}
      BY <3>1, <3>2 DEF InFlight
    <3>4. d \in Private /\ d \in Devices
      BY <3>1, PrivateAssumption DEF TypeOK, PrivateAssumption
    <3>5. CASE d \in InFlight
      BY <3>2, <3>3, <3>4, <3>5 DEF Requests!Next, Requests!Answer
    <3>6. CASE d \notin InFlight
      BY <3>2, <3>3, <3>6
    <3> QED BY <3>5, <3>6
  <2>5. CASE RecordedAll
    BY <2>5 DEF RecordedAll, InFlight
  <2>6. CASE Fail
    BY <2>6 DEF Fail, InFlight, Requests!Next, Requests!GiveUp
  <2>7. CASE Stop \/ StopSignal \/ (\E d \in Devices : Discover(d))
    BY <2>7 DEF Stop, StopSignal, Discover, InFlight
  <2>8. ASSUME NEW c \in Clients,
               (\E d \in Devices : ProbeNow(c, d)) \/ Signal(c) \/ ScanNow(c)
        PROVE  UNCHANGED Requests!vars
    BY <2>8 DEF ProbeNow, Signal, ScanNow, InFlight
  <2>9. ASSUME NEW c \in Clients, Enqueue(c)
        PROVE  Requests!Next
    <3>1. call[c].ip \in Devices
      <4>1. call[c] \in Calls /\ call[c].at = "enqueue"
        BY <2>9 DEF Enqueue, TypeOK
      <4> QED BY <4>1 DEF Calls, Idle
    <3>2. InFlight' = InFlight
      BY <2>9 DEF Enqueue, InFlight
    <3>3. Requests!Ask(call[c].ip)
      BY <2>9, <3>2 DEF Enqueue, Requests!Ask
    <3> QED BY <3>1, <3>3 DEF Requests!Next
  <2>10. CASE UNCHANGED vars
    BY <2>10 DEF vars, InFlight
  <2> QED
    BY <2>1, <2>2, <2>3, <2>4, <2>5, <2>6, <2>7, <2>8, <2>9, <2>10
       DEF Next, FleetThread, Around
<1> QED
  BY <1>1, <1>2, Typing, RequestsAreKnown, PTL
     DEF Spec, RequestsKept, Requests!Spec
=============================================================================
