----------------------------- MODULE MCHandshake -----------------------------
(* Instances of Handshake: a asks for an id, p is configured with one that *)
(* the router will not give out soon.                                      *)
EXTENDS Handshake

CONSTANTS a, p

MCPreId == [e \in Endpoints |-> IF e = p THEN 7 ELSE 0]

(* a may lose its first connection.                                        *)
MCMaxConns == [e \in Endpoints |-> IF e = a THEN 2 ELSE 1]

(* Only the answers to a may be late.                                      *)
MCMaxEarly == [e \in Endpoints |-> IF e = a THEN 1 ELSE 0]
=============================================================================
