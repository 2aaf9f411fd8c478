--------------------------- MODULE MCFleetScheduler ---------------------------
(* Small instances of FleetScheduler: three addresses, one of them public. *)
EXTENDS FleetScheduler

MCDevices == 1..3
MCPrivate == {1, 2}
=============================================================================
