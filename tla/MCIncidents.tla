----------------------------- MODULE MCIncidents -----------------------------
(***************************************************************************)
(* A small instance of Incidents: three events of two activities.  With a  *)
(* minimum of 20 a lone medium event makes an incident of level low, two   *)
(* different signals with one of medium make it medium, three of medium    *)
(* high; three different signals qualify without one that needs attention, *)
(* two do not.                                                             *)
(***************************************************************************)
EXTENDS Incidents, TLC

Subject(p, ip, dom) == [process |-> p, remote_ip |-> ip, domain |-> dom]

\* Two activities on one address: of a process, and of an unknown one.
MCSubjects == {Subject("Curl", "ip1", ""), Subject("unknown", "ip1", "")}
MCLower == [n \in {"Curl"} |-> "curl"]
MCKinds == {<<"alert", "medium">>, <<"anomaly", "low">>, <<"flow", "info">>,
            <<"dns", "info">>}

Alike == Permutations(EventIds)
=============================================================================
