---------------------------- MODULE MCRouterNodes ----------------------------
(* Instances of RouterNodes: an endpoint that is restarted, and a router.  *)
EXTENDS RouterNodes

CONSTANTS c1, c2, c3, e1, e2, m1

(* c1 and c2 are connections of two instances of the endpoint e1, c3 is    *)
(* one of the router e2, behind which the first instance of e1 may be.     *)
MCIdOf == [c \in Conns |-> IF c = c3 THEN e2 ELSE e1]
MCInstOf == [c \in Conns |-> IF c = c2 THEN 2 ELSE 1]
FirstBehind == {<<e1, 1>>}

(* In a behaviour either both instances of the endpoint connect directly,  *)
(* or the first one is behind the router and the second one connects.      *)
VARIABLE absent

MCInit == Init /\ absent \in {c1, c3}
MCNext == Next /\ peer'[absent] = "unused" /\ UNCHANGED absent

(* The fairness of RouterNodes: what it asks for never opens a connection. *)
MCSpec == MCInit /\ [][MCNext]_<<vars, absent>> /\ Fairness
=============================================================================
