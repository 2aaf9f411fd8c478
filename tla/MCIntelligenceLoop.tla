-------------------------- MODULE MCIntelligenceLoop --------------------------
(***************************************************************************)
(* One event of one process, serious or not, which lives through its       *)
(* window, its retention and two prunings; and a DNS cache that may show a *)
(* name with "xn--" the packet sensor may have seen.                       *)
(***************************************************************************)
EXTENDS IntelligenceLoop

CONSTANTS x, a, wire

MCSubjects == {[process |-> "Curl", remote_ip |-> "", domain |-> ""]}
MCLower == [n \in {"Curl"} |-> "curl"]
MCKinds == {<<"alert", "high">>, <<"flow", "info">>}

MCRecords == {<<x, a>>}
MCSniffed == {<<x, wire>>}
MCCaches == SUBSET MCRecords
=============================================================================
