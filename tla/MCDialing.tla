------------------------------ MODULE MCDialing ------------------------------
(* Values for the constants of Dialing.                                    *)
EXTENDS Dialing

MCParsed == [e \in Endpoint |-> 0]

(* A state.json with every endpoint enabled and "ok", in an order.         *)
MCOrdered ==
  {[e \in Endpoint |-> [enabled |-> TRUE, status |-> "ok",
                        priority |-> IF e = first THEN 0 ELSE 1]] : first \in Unstable}
=============================================================================
