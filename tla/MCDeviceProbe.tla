---------------------------- MODULE MCDeviceProbe ----------------------------
(***************************************************************************)
(* Three devices for two workers.  Port 80 is monitored and a liveness     *)
(* port, 22 a liveness port only, 8080 monitored only; the setting has a   *)
(* token that is no number and a number that is no port.                   *)
(***************************************************************************)
EXTENDS DeviceProbe

MCSetting == {0, 80, 8080, 70000}
MCLivenessPorts == <<22, 80>>

Host(ping, ssh, http, alt) ==
    [ping |-> ping,
     tcp |-> [p \in Ports \cup Live |->
                IF p = 22 THEN ssh ELSE IF p = 80 THEN http ELSE alt]]

\* Gone; answering pings, with two services; ignoring pings and refusing port
\* 80, with a service at 8080.
MCHosts == {Host(FALSE, "silent", "silent", "silent"),
            Host(TRUE, "silent", "open", "open"),
            Host(FALSE, "silent", "refused", "open")}

\* Dropping everything but its one service.
MCFirewalled == {Host(FALSE, "silent", "silent", "open")}
=============================================================================
