---------------------------- MODULE ProbeRequests ----------------------------
(***************************************************************************)
(* What the fleet monitor promises a user who asks for the probe of a      *)
(* device, independent of threads, locks and wake-up events:               *)
(*   - a request waits until a batch begins, and is part of that batch;    *)
(*   - a batch answers its requests one device at a time;                  *)
(*   - a request made while its device is being probed is a new request;   *)
(*   - only a failure of the batch may give up requests, and only those    *)
(*     the batch has begun; a public address is refused, not probed.       *)
(***************************************************************************)
EXTENDS Naturals

CONSTANTS
    Devices,    \* addresses a user may ask for
    Private     \* those that may be probed

VARIABLES
    asked,      \* requests no batch has begun to serve
    probing,    \* requests of the running batch
    broken      \* batches that failed so far

vars == <<asked, probing, broken>>

Init == asked = {} /\ probing = {} /\ broken = 0

Ask(d) ==
    /\ asked' = asked \cup {d}
    /\ UNCHANGED <<probing, broken>>

Begin ==
    /\ probing = {}
    /\ probing' = asked
    /\ asked' = {}
    /\ UNCHANGED broken

Refuse ==
    /\ probing' = probing \cap Private
    /\ UNCHANGED <<asked, broken>>

Answer(d) ==
    /\ d \in probing \cap Private
    /\ probing' = probing \ {d}
    /\ UNCHANGED <<asked, broken>>

GiveUp ==
    /\ probing' = {}
    /\ broken' = broken + 1
    /\ UNCHANGED asked

Next ==
    \/ \E d \in Devices : Ask(d) \/ Answer(d)
    \/ Begin \/ Refuse \/ GiveUp

Spec == Init /\ [][Next]_vars
=============================================================================
