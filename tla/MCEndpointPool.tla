--------------------------- MODULE MCEndpointPool ---------------------------
(* Values for the constants of EndpointPoolHistory.                        *)
EXTENDS EndpointPoolHistory

MCParsed == [e \in Endpoint |-> 0]
MCSaved == Pool \cup {None}
=============================================================================
