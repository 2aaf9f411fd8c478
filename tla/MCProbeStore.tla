----------------------------- MODULE MCProbeStore -----------------------------
(***************************************************************************)
(* Small instances of ProbeStore.  A unit of time is 300 s: the cooldowns  *)
(* are 1 and 2, and a retention of at least a day is shortened to the      *)
(* least number that keeps it longer than both.                            *)
(***************************************************************************)
EXTENDS ProbeStore, TLC

\* Devices are alike, and so are ports; the properties are all safety.
Alike == Permutations(Devices) \cup Permutations(Ports)
=============================================================================
