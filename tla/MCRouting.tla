------------------------------ MODULE MCRouting ------------------------------
(***************************************************************************)
(* Three routers, one below the other, and two endpoints: e, at the lowest,*)
(* posts, and f, at one of the others, moves.                              *)
(***************************************************************************)
EXTENDS Routing

CONSTANTS top, mid, low, e, f, one, all

MCParent == [r \in Routers |-> IF r = top THEN None ELSE IF r = low THEN mid ELSE top]
MCHomes == {[x \in Endpoints |-> IF x = e THEN low ELSE r] : r \in {top, mid}}
MCSrc == [m \in Data |-> e]
MCBudgets == {
    [posts |-> 0, moves |-> 2, blocks |-> 0, losses |-> 0, alive |-> 2],
    [posts |-> 1, moves |-> 2, blocks |-> 0, losses |-> 0, alive |-> 1],
    [posts |-> 1, moves |-> 0, blocks |-> 0, losses |-> 1, alive |-> 1],
    [posts |-> 1, moves |-> 0, blocks |-> 1, losses |-> 0, alive |-> 1]}
MCDst == [m \in Data |-> IF m = one THEN f ELSE All]
=============================================================================
