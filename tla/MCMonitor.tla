------------------------------ MODULE MCMonitor ------------------------------
(***************************************************************************)
(* A host with one listening port, one named process and sockets without   *)
(* a process.  The port alone; a local connection and an anonymous one; and *)
(* two endpoints of the process: a spike, a fan-out and churn.             *)
(***************************************************************************)
EXTENDS Monitor, TLC

CONSTANTS app, unknown, web, dns, lan, port

MCAddressOf == web :> web @@ dns :> dns

MCScans ==
    {{port}, {<<unknown, web>>, <<app, lan>>}, {port, <<app, web>>, <<app, dns>>}}
=============================================================================
