------------------------------- MODULE MCBlobs -------------------------------
(* One blob, sent to one target or to two.                                 *)
EXTENDS Blobs

CONSTANTS t1, t2, b1

MCSinkOf == [b \in Blob |-> b]
Scenario(to, expected, pieces, expires, losses, rushes) ==
    [to |-> to, expected |-> expected, pieces |-> pieces, expires |-> expires,
     losses |-> losses, rushes |-> rushes, calm |-> ~expires /\ rushes = 0]

(* A resource that is streamed, over a network that is patient or not; a   *)
(* blob posted by an endpoint, with fragments of two sizes; a broadcast.   *)
MCScenarios == {
    Scenario({t1}, TRUE, {2}, FALSE, 2, 0), Scenario({t1}, TRUE, {2}, TRUE, 1, 1),
    Scenario({t1}, FALSE, {2, 3}, FALSE, 2, 0),
    Scenario({t1, t2}, FALSE, {2}, TRUE, 1, 0)}
=============================================================================
