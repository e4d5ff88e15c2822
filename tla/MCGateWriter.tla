---------------------------- MODULE MCGateWriter ----------------------------
(***************************************************************************)
(* Instances of GateWriter for TLC.  Two signatures alternate in pairs,    *)
(* the hazard falls after a rise, and one regime is not admitted.          *)
(***************************************************************************)
EXTENDS GateWriter

Pairs == [t \in Times |-> (t \div 2) % 2]
RiseAndFall == [t \in Times |-> IF t % 3 = 1 THEN 2 ELSE 1]
OneNeutral == [t \in Times |-> IF t = 2 THEN "neutral" ELSE "trend_bull"]
Bulls == {"trend_bull"}

AllStreamFaults == StreamKinds
AllGateFaults == GateKinds

=============================================================================
