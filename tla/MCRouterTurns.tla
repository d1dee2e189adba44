---------------------------- MODULE MCRouterTurns ----------------------------
(***************************************************************************)
(* What a router does alone: its id allocator, and its turns with worker   *)
(* threads.  A behaviour is of one of the two; the variables of the other  *)
(* keep their initial values.                                              *)
(***************************************************************************)
EXTENDS RouterTurns

VARIABLE which

Msg(kind, source, target, number) ==
    [kind |-> kind, source |-> source, target |-> target, number |-> number, from |-> source]
FromParent(m) == [m EXCEPT !.from = 9]
Script(first, second, third, parent) ==
    [l \in {1, 2, 3, 9} |-> CASE l = 1 -> first [] l = 2 -> second [] l = 3 -> third [] l = 9 -> parent]

(* Endpoints that subscribe while another one leaves, with a message from  *)
(* above; queries of the router while a node leaves; and what only nodes   *)
(* should send, from the parent.                                           *)
MCScripts ==
    {Script(<<Msg("notARouter", 1, 0, 1), Msg("subscribTo", 1, 0, 2), Msg("data", 1, 3, 3)>>,
            <<Msg("subscribTo", 2, 0, 1)>>,
            <<Msg("notARouter", 3, 0, 1), Msg("byeByeEndp", 3, 0, 2)>>,
            <<FromParent(Msg("data", 7, 1, 1))>>),
     Script(<<Msg("topoQuery", 1, 0, 1)>>,
            <<Msg("notARouter", 2, 0, 1), Msg("subscribTo", 2, 0, 2), Msg("byeByeEndp", 2, 0, 3)>>,
            <<Msg("ping", 3, 9, 1)>>,
            <<>>),
     Script(<<>>, <<Msg("subscribTo", 2, 0, 1)>>, <<>>,
            <<FromParent(Msg("byeByeEndp", 7, 0, 1)), FromParent(Msg("notARouter", 7, 0, 2))>>)}

MCInit ==
    /\ Init
    /\ TurnsInit
    /\ \/ which = "ids" /\ script = CHOOSE s \in MCScripts : TRUE
       \/ which = "turns"

MCNext ==
    \/ which = "ids" /\ Next /\ UNCHANGED <<which, turnsVars>>
    \/ which = "turns" /\ TurnsNext /\ UNCHANGED <<which, vars>>

MCFairness ==
    /\ WF_vars(which = "ids" /\ GetNextId)
    /\ WF_turnsVars(which = "turns" /\ MainStep)
    /\ \A w \in Workers : WF_turnsVars(which = "turns" /\ WorkerStep(w))

MCSpec == MCInit /\ [][MCNext]_<<which, vars, turnsVars>> /\ MCFairness
=============================================================================
