------------------------------- MODULE MCPool -------------------------------
(* Values for the constants of EndpointPool.                               *)
EXTENDS EndpointPool

MCParsed == [e \in Endpoint |-> 0]
MCSaved == Pool \cup {None}
=============================================================================
