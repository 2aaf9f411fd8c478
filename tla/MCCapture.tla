------------------------------ MODULE MCCapture ------------------------------
(***************************************************************************)
(* A machine with two interfaces, whose name resolves to the one that      *)
(* discovery does not select, and one other device, which discovery may    *)
(* store at any time.  The device sends a query to one interface and gets  *)
(* an answer from the other.                                               *)
(***************************************************************************)
EXTENDS Capture

CONSTANTS eth, vpn, dev, name, addr

MCPackets ==
    {[src |-> dev, dst |-> vpn, dns |-> <<<<name, NoAnswer>>>>],
     [src |-> eth, dst |-> dev, dns |-> <<<<name, NoAnswer>>, <<name, addr>>>>]}
=============================================================================
