----------------------------- MODULE MCResources -----------------------------
(* Two servers and a consumer that asks for one resource.                  *)
EXTENDS Resources

CONSTANTS s1, s2, b1, b2

MCSinkOf == [b \in Blob |-> stream]
Scenario(pieces, losses) ==
    [to |-> {consumer}, expected |-> FALSE, pieces |-> pieces, expires |-> FALSE,
     losses |-> losses, rushes |-> 0, calm |-> TRUE]
Setup(has, opens, silences, leaves, drops) ==
    [has |-> has, opens |-> opens, silences |-> silences, leaves |-> leaves, drops |-> drops]

(* A server cannot open what it has, or has not got it, and a message is   *)
(* lost; a server falls silent; a server leaves and may come back.         *)
MCScenarios == {Scenario({1}, 0)}
MCSetups == {
    Setup({s1, s2}, {s1}, 0, 0, 1), Setup({s1}, {s1}, 0, 0, 0),
    Setup({s1, s2}, {s1, s2}, 1, 0, 0), Setup({s1, s2}, {s1, s2}, 0, 1, 0)}
=============================================================================
