------------------------------- MODULE Sudoku -------------------------------
(***************************************************************************)
(* The sudoku service: helpers that expand boards, the solver that hands   *)
(* boards out to helpers and keeps what is not explored yet, and the       *)
(* tiling driver that generates a plane of boards, each of which borders   *)
(* on the ones solved before (services/sudoku_impl.cpp, services/          *)
(* sudoku.cpp, and the tiling and helper programs).                        *)
(*                                                                         *)
(* The four ranks of the service share nothing but the code, so one rank   *)
(* is modelled.  A board is a node of a search tree (the constant          *)
(* Alternatives), with the neighbours' solutions that its border blocks    *)
(* were copied from, and the initial board it goes back to.                *)
(***************************************************************************)
EXTENDS Integers, Sequences, FiniteSets, SequencesExt, FiniteSetsExt, Functions

CONSTANTS
    Helpers,        \* endpoints that run a sudoku_helper
    Root,           \* the board that a tile begins with
    Alternatives,   \* node |-> the sequence of nodes one more cell leads to
    Solved,         \* the nodes that are solved boards
    MaxRecursion,   \* msgbus.sudoku.helper.max_recursion
    MaxBacklog,     \* boards a helper keeps, 20 in the code
    AliveBelow,     \* a helper with fewer boards says it is alive, 6 in the code
    BatchSize,      \* helpers served by one update of the solver, 8 in the code
    Side,           \* cells per side of a tile, S * (S - 1)
    MinCell, MaxCell, \* extent of the plane, in cells: <<u, v>>
    MaxFaults       \* bound: lost and late messages, early timeouts, lost connections, restarts

Nodes == DOMAIN Alternatives

\* Messages that others overtake arrive by a way of their own
Late == "late"
Ways == Helpers \cup {Late}

ASSUME SudokuAssumption ==
    /\ Solved \subseteq Nodes /\ Root \in Nodes \ Solved
    /\ \A n \in Nodes : Range(Alternatives[n]) \subseteq Nodes
    /\ {MaxRecursion, MaxFaults} \subseteq Nat
    /\ {MaxBacklog, AliveBelow, BatchSize, Side} \subseteq Nat \ {0}

VARIABLES
    helper,   \* [Helpers -> [backlog, searched]]
    solver,   \* the solver's rank info, see SolverInit
    tiling,   \* the driver: [boards, cellsDone, run]
    queries,  \* [Helpers -> Seq]: boards on the way to a helper
    answers,  \* [Ways -> Seq]: messages on the way from a helper, or late
    canWork,  \* the solver has an id and a usable connection
    faults    \* [count, answerLost]: what went wrong so far

vars == <<helper, solver, tiling, queries, answers, canWork, faults>>

-----------------------------------------------------------------------------
(* The plane and its tiles.                                                *)

FloorDiv(a) == a \div Side
CeilDiv(a)  == -((-a) \div Side)

\* boards_extent: negative limits are rounded down and positive ones up
TileLimit(c) == IF c < 0 THEN FloorDiv(c) ELSE CeilDiv(c)

Tiles == (TileLimit(MinCell[1]) .. TileLimit(MaxCell[1]) - 1) \X
         (TileLimit(MinCell[2]) .. TileLimit(MaxCell[2]) - 1)

CellCount == (MaxCell[1] - MinCell[1]) * (MaxCell[2] - MinCell[2])

\* cells of the tile that are inside of the extent
CellsPerTile(c) ==
    LET Cells(i) == Min({(c[i] + 1) * Side, MaxCell[i]}) - Max({c[i] * Side, MinCell[i]})
    IN  Cells(1) * Cells(2)

\* do_enqueue: the neighbours, nearer to the origin, that have to be solved
Neighbours(c) ==
    LET Nearer(a) == IF a > 0 THEN a - 1 ELSE a + 1
    IN  (IF c[1] = 0 THEN {} ELSE {<<Nearer(c[1]), c[2]>>}) \cup
        (IF c[2] = 0 THEN {} ELSE {<<c[1], Nearer(c[2])>>})

Complete(t) == Tiles \subseteq DOMAIN t.boards

TilingSize == <<TileLimit(MaxCell[1]) - TileLimit(MinCell[1]),
                TileLimit(MaxCell[2]) - TileLimit(MinCell[2])>>

-----------------------------------------------------------------------------
(* The solver's queues.                                                    *)

SolverInit == [keyBoards |-> <<>>, pending |-> <<>>, remaining |-> <<>>,
               ready |-> {}, querySequence |-> 0]

Board(node, base, run) == [node |-> node, base |-> base, run |-> run]

\* The boards of a key are kept with the fewest alternatives at the end
AddBoard(s, key, board) ==
    LET queue == IF key \in DOMAIN s.keyBoards THEN s.keyBoards[key] ELSE <<>>
        fewer == {i \in DOMAIN queue :
                    Len(Alternatives[board.node]) > Len(Alternatives[queue[i].node])}
        pos   == IF fewer = {} THEN Len(queue) + 1 ELSE CHOOSE i \in fewer : \A j \in fewer : i <= j
    IN  [s EXCEPT !.keyBoards = (key :> InsertAt(queue, pos, board)) @@ @]

WithoutKey(s, key) == [s EXCEPT !.keyBoards = Restrict(@, DOMAIN @ \ {key})]

HasEnqueued(s, key) ==
    key \in DOMAIN s.keyBoards \/ \E e \in Range(s.pending) : e.key = key

HasWork == DOMAIN solver.keyBoards # {} \/ solver.pending # <<>>

AlreadyDone(t, key) == key \in DOMAIN t.boards

\* The order of the keys in the map
KeySeq(s) == SetToSortSeq(DOMAIN s.keyBoards,
                          LAMBDA a, b : a[1] < b[1] \/ (a[1] = b[1] /\ a[2] < b[2]))

Query(h, seq, board) == [helper |-> h, seq |-> seq, board |-> board]

\* send_board_to: the turn of the next key, whose last board goes to the helper
SendBoardTo(acc, h) ==
    LET s     == acc.solver
        keys  == KeySeq(s)
        key   == keys[1 + (s.querySequence % Len(keys))]
        queue == s.keyBoards[key]
        seq   == s.querySequence + 1
        board == Last(queue)
    IN  IF keys = <<>> THEN acc
        ELSE IF queue = <<>>
        THEN [acc EXCEPT !.solver = [WithoutKey(s, key) EXCEPT !.querySequence = seq]]
        ELSE [solver |-> [s EXCEPT
                !.querySequence = seq,
                !.keyBoards[key] = Front(queue),
                !.pending = Append(@, [board |-> board, helper |-> h, seq |-> seq, key |-> key]),
                !.ready = @ \ {h}],
              sent |-> Append(acc.sent, Query(h, seq, board))]

SendBoards(s, order) ==
    FoldLeft(SendBoardTo, [solver |-> s, sent |-> <<>>],
             SubSeq(order, 1, Min({Len(order), BatchSize})))

\* Mutant: the board that timed out is dropped
HandleTimeoutedDropping(st, late) ==
    [st.solver EXCEPT !.pending = SelectSeq(@, LAMBDA e : e.seq \notin late)]

\* handle_timeouted: boards that came too late are queued again
HandleTimeouted(st, late) ==
    LET Again(acc, e) == IF e.seq \in late /\ ~AlreadyDone(st.tiling, e.key)
                         THEN AddBoard(acc, e.key, e.board) ELSE acc
        queued == FoldLeft(Again, st.solver, st.solver.pending)
    IN  [queued EXCEPT !.pending = SelectSeq(@, LAMBDA e : e.seq \notin late)]

-----------------------------------------------------------------------------
(* The tiling.                                                             *)

\* The board of a tile whose neighbours are solved
NewBoard(t, c) == Board(Root, {<<n, t.boards[n]>> : n \in Neighbours(c)}, 0)

\* set_board: the first solution of a tile stays
SetBoard(t, key, board) ==
    IF AlreadyDone(t, key) THEN t
    ELSE [t EXCEPT !.boards = (key :> board) @@ @, !.cellsDone = @ + CellsPerTile(key)]

EnqueueIncomplete(s, t) ==
    LET Enqueued(c) == /\ ~AlreadyDone(t, c)
                       /\ ~HasEnqueued(s, c)
                       /\ Neighbours(c) # {}
                       /\ Neighbours(c) \subseteq DOMAIN t.boards
    IN  FoldSet(LAMBDA c, acc : AddBoard(acc, c, NewBoard(t, c)), s,
                {c \in Tiles : Enqueued(c)})

\* (re)initialize: nothing of the former run is kept, but the sequence number
\* and the helpers; the tile in the origin gets the generated board
Reinitialized(s, t) ==
    LET run == t.run + 1
    IN  [solver |-> AddBoard([SolverInit EXCEPT !.ready = s.ready, !.querySequence = s.querySequence],
                             <<0, 0>>, Board(Root, {}, run)),
         tiling |-> [boards |-> <<>>, cellsDone |-> 0, run |-> run]]

Init ==
    LET start == Reinitialized(SolverInit, [boards |-> <<>>, cellsDone |-> 0, run |-> 0])
    IN  /\ helper = [h \in Helpers |-> [backlog |-> <<>>, searched |-> FALSE]]
        /\ solver = start.solver
        /\ tiling = start.tiling
        /\ queries = [h \in Helpers |-> <<>>]
        /\ answers = [h \in Ways |-> <<>>]
        /\ canWork = FALSE
        /\ faults = [count |-> 0, answerLost |-> FALSE]

-----------------------------------------------------------------------------
(* The helpers.                                                            *)

Answers[levels \in 0 .. MaxRecursion, node \in Nodes] ==
    LET Alternative(acc, a) ==
            IF a \in Solved THEN [sent |-> Append(acc.sent, a), done |-> TRUE]
            ELSE IF acc.done THEN acc
            ELSE IF levels = 0 THEN [acc EXCEPT !.sent = Append(@, a)]
            ELSE [sent |-> acc.sent \o Answers[levels - 1, a].sent,
                  done |-> Answers[levels - 1, a].done]
    IN  FoldLeft(Alternative, [sent |-> <<>>, done |-> FALSE], Alternatives[node])

Alive(h) == [type |-> "alive", helper |-> h, seq |-> 0]
Done(h, seq) == [type |-> "done", helper |-> h, seq |-> seq]
Response(h, seq, board) ==
    [type |-> IF board.node \in Solved THEN "solved" ELSE "candidate",
     helper |-> h, seq |-> seq, board |-> board]

\* add_board: how many of the n boards that came are kept; the others, that
\* find the backlog full, are dropped
Accepted(backlog, n) == Min({n, MaxBacklog - Len(backlog)})

\* update_and_process_all: the helper tells it is alive and expands the board
\* that came last; then it takes the queries that arrived, the last one first
HelperTurn(h, n) ==
    LET backlog == helper[h].backlog
        rest    == IF backlog = <<>> THEN <<>> ELSE Front(backlog)
        query   == Last(backlog)
        sent    == Answers[MaxRecursion, query.board.node].sent
        alive   == IF helper[h].searched /\ Len(backlog) < AliveBelow THEN <<Alive(h)>> ELSE <<>>
        results == IF backlog = <<>> THEN <<>>
                   ELSE [i \in DOMAIN sent |->
                            Response(h, query.seq, [query.board EXCEPT !.node = sent[i]])]
                        \o <<Done(h, query.seq)>>
        accepted == Accepted(rest, n)
    IN  /\ n > 0 \/ helper[h].searched \/ backlog # <<>>
        /\ helper' = [helper EXCEPT ![h] =
              [backlog |-> rest \o SubSeq(Reverse(SubSeq(queries[h], 1, n)), 1, accepted), searched |-> accepted > 0]]
        /\ queries' = [queries EXCEPT ![h] = SubSeq(@, n + 1, Len(@))]
        /\ answers' = [answers EXCEPT ![h] = @ \o alive \o results]
        /\ UNCHANGED <<solver, tiling, canWork, faults>>

-----------------------------------------------------------------------------
(* The solver's handlers: each maps the solver and the tiling.             *)

IndexOf(entries, seq) == {i \in DOMAIN entries : entries[i].seq = seq}

HandleAlive(st, m) == [st EXCEPT !.solver.ready = @ \cup {m.helper}]

\* A candidate is queued; a solution ends the work on its key, goes to the
\* tiling and lets it enqueue the tiles that border on the new one
ProcessResponse(st, entry, m) ==
    IF m.type = "candidate"
    THEN [st EXCEPT !.solver = AddBoard(@, entry.key, m.board)]
    ELSE LET t == SetBoard(st.tiling, entry.key, m.board)
         IN  [solver |-> EnqueueIncomplete(WithoutKey(st.solver, entry.key), t), tiling |-> t]

HandleResponse(st, m) ==
    LET ps == IndexOf(st.solver.pending, m.seq)
        rs == IndexOf(st.solver.remaining, m.seq)
        i  == CHOOSE j \in IF ps # {} THEN ps ELSE rs : TRUE
    IN  IF ps # {} THEN ProcessResponse(st, st.solver.pending[i], m)
        ELSE IF rs = {} THEN st
        ELSE LET res == ProcessResponse(st, st.solver.remaining[i], m)
             IN  IF m.type = "solved" THEN [res EXCEPT !.solver.remaining = RemoveAt(@, i)] ELSE res

\* Mutant: the board is forgotten as soon as the helper is done
HandleDoneForgetting(st, m) ==
    LET is == IndexOf(st.solver.pending, m.seq)
        i  == CHOOSE j \in is : TRUE
    IN  IF is = {} THEN st
        ELSE [st EXCEPT !.solver.ready = @ \cup {st.solver.pending[i].helper},
                        !.solver.pending = RemoveAt(@, i)]

\* pending_done: the helper is ready, its board is kept for answers that come late
HandleDone(st, m) ==
    LET is == IndexOf(st.solver.pending, m.seq)
        i  == CHOOSE j \in is : TRUE
        e  == st.solver.pending[i]
    IN  IF is = {} THEN st
        ELSE [st EXCEPT
                !.solver.ready = @ \cup {e.helper},
                !.solver.remaining = IF AlreadyDone(st.tiling, e.key)
                                     THEN SelectSeq(@, LAMBDA x : x.key # e.key)
                                     ELSE Append(@, e),
                !.solver.pending = RemoveAt(@, i)]

\* process_all: the queues of the message types are emptied one by one, and what
\* came last is handled first (message_priority_queue)
ProcessAll(st, arrived) ==
    LET OfType(type) == Reverse(SelectSeq(arrived, LAMBDA m : m.type = type))
        queues == OfType("alive") \o OfType("candidate") \o OfType("solved") \o OfType("done")
        Handle(acc, m) == CASE m.type = "alive" -> HandleAlive(acc, m)
                            [] m.type = "done"  -> HandleDone(acc, m)
                            [] OTHER            -> HandleResponse(acc, m)
    IN  FoldLeft(Handle, st, queues)

-----------------------------------------------------------------------------
(* The program that drives the solver, and what can go wrong around it.    *)

SentBy(h) == Range(answers[h]) \cup {m \in Range(answers[Late]) : m.helper = h}

\* Pending boards that no helper works on and that no message is due for
Overdue(s) ==
    {e.seq : e \in {x \in Range(s.pending) :
        \A m \in Range(queries[x.helper]) \cup Range(helper[x.helper].backlog) \cup
            {d \in SentBy(x.helper) : d.type = "done"} : m.seq # x.seq}}

\* sudoku_solver_impl::update: the boards that came too late, for which the
\* program suspends sending; otherwise boards for the ready helpers.  A longer
\* suspension is a turn that comes later
Update(st, late, order) ==
    LET checked  == HandleTimeouted(st, late)
        requeued == \E e \in Range(st.solver.pending) :
                        e.seq \in late /\ ~AlreadyDone(st.tiling, e.key)
    IN  IF requeued \/ ~canWork THEN [solver |-> checked, sent |-> <<>>]
        ELSE SendBoards(checked, order)

\* Bound: the search is seen by helpers that nothing is going on with; the
\* others do as if they had been searched when they get a board
Idle == {h \in Helpers \ solver.ready :
            helper[h].backlog = <<>> /\ queries[h] = <<>> /\ SentBy(h) = {}}

\* The broadcast that searches for helpers reaches some of them
SearchHelpers(searched) ==
    [h \in Helpers |-> [helper[h] EXCEPT !.searched = @ \/ (canWork /\ h \in searched)]]

\* Boards time out when nobody works on them any more; that one times out
\* although its helper is only slow is a fault
LateBoards(s, diligent) ==
    LET gone == Overdue(s)
        slow == {e.seq : e \in Range(s.pending)} \ gone
    IN  {gone} \cup (IF diligent THEN {} ELSE {{}}) \cup
        (IF diligent \/ faults.count = MaxFaults THEN {} ELSE {gone \cup {q} : q \in slow})

Arrivals(heard) == FlattenSeq(SetToSeq({answers[h] : h \in heard}))

\* TilingModel::update: the messages that arrived are processed, then the
\* solver is updated
SolverTurn(heard, diligent) ==
    /\ ~Complete(tiling)
    /\ \E st \in {ProcessAll([solver |-> solver, tiling |-> tiling], Arrivals(heard))} :
       \E order \in SetToSeqs(st.solver.ready), late \in LateBoards(st.solver, diligent) :
       \E sent \in {Update(st, late, order)} :
          /\ solver' = sent.solver
          /\ tiling' = st.tiling
          /\ queries' = [h \in Helpers |->
                queries[h] \o SelectSeq(sent.sent, LAMBDA q : q.helper = h)]
          /\ faults' = [faults EXCEPT !.count = @ + Cardinality(late \ Overdue(st.solver))]
    /\ answers' = [h \in Ways |-> IF h \in heard THEN <<>> ELSE answers[h]]
    /\ \E searched \in IF diligent THEN {Idle} ELSE {{}, Idle} :
          helper' = SearchHelpers(searched)
    /\ UNCHANGED canWork

Fault == /\ faults.count < MaxFaults
         /\ faults' = [faults EXCEPT !.count = @ + 1]

\* The solution took too long, or the user asked for another one
Reinitialize ==
    /\ Fault
    /\ LET new == Reinitialized(solver, tiling)
       IN  solver' = new.solver /\ tiling' = new.tiling
    /\ UNCHANGED <<helper, queries, answers, canWork>>

IdAssigned == /\ ~canWork
              /\ canWork' = TRUE
              /\ UNCHANGED <<helper, solver, tiling, queries, answers, faults>>

ConnectionLost == /\ canWork
                  /\ Fault
                  /\ canWork' = FALSE
                  /\ UNCHANGED <<helper, solver, tiling, queries, answers>>

\* Connections that carry datagrams lose messages, and let others overtake them
Lose(h) ==
    /\ Fault
    /\ \/ \E i \in DOMAIN queries[h] :
            queries' = [queries EXCEPT ![h] = RemoveAt(@, i)] /\ UNCHANGED answers
       \/ \E i \in DOMAIN answers[h] :
            /\ answers[h][i].type \in {"alive", "done"}
            /\ answers' = [answers EXCEPT ![h] = RemoveAt(@, i)] /\ UNCHANGED queries
    /\ UNCHANGED <<helper, solver, tiling, canWork>>

LoseAnswer(h) ==
    /\ faults.count < MaxFaults
    /\ \E i \in DOMAIN answers[h] :
        /\ answers[h][i].type \in {"candidate", "solved"}
        /\ answers' = [answers EXCEPT ![h] = RemoveAt(@, i)]
    /\ faults' = [count |-> faults.count + 1, answerLost |-> TRUE]
    /\ UNCHANGED <<helper, solver, tiling, queries, canWork>>

Delay(h) ==
    /\ Fault
    /\ \E i \in DOMAIN answers[h] :
          answers' = [answers EXCEPT ![h] = RemoveAt(@, i), ![Late] = Append(@, answers[h][i])]
    /\ UNCHANGED <<helper, solver, tiling, queries, canWork>>

Next ==
    \/ \E h \in Helpers : \/ \E n \in 0 .. Len(queries[h]) : HelperTurn(h, n)
                         \/ Lose(h) \/ LoseAnswer(h) \/ Delay(h)
    \/ \E heard \in SUBSET Ways : SolverTurn(heard, FALSE)
    \/ Reinitialize \/ IdAssigned \/ ConnectionLost

\* The programs take their turns in a loop; what was sent and not lost arrives,
\* the search is repeated, and a board that nobody works on times out
DiligentTurn == SolverTurn(Ways, TRUE)
Quiet ==
    \/ Complete(tiling)
    \/ /\ \A h \in Ways : answers[h] = <<>>
       /\ Overdue(solver) = {}
       /\ canWork => /\ Idle \subseteq {h \in Helpers : helper[h].searched}
                     /\ solver.ready = {} \/ DOMAIN solver.keyBoards = {}

Fairness ==
    /\ WF_vars(IdAssigned)
    /\ \A h \in Helpers : WF_vars(HelperTurn(h, Len(queries[h])))
    /\ []<>Quiet \/ []<><<DiligentTurn>>_vars

Spec == Init /\ [][Next]_vars /\ Fairness

-----------------------------------------------------------------------------
(* What the service promises.                                              *)

\* No part of a search is lost: as long as no answer of a helper was lost on
\* the way, each tile that is being worked on and is not solved has a board
\* that leads to a solution: queued, with a helper, or in an answer that the
\* solver will still accept (add_board, pending_done, handle_timeouted)
Solvable[n \in Nodes] == n \in Solved \/ \E a \in Range(Alternatives[n]) : Solvable[a]

Begun(c) == c = <<0, 0>> \/ (Neighbours(c) # {} /\ Neighbours(c) \subseteq DOMAIN tiling.boards)

SearchIsCovered ==
    \A c \in Tiles :
        \/ AlreadyDone(tiling, c)
        \/ ~Begun(c)
        \/ faults.answerLost
        \/ c \in DOMAIN solver.keyBoards /\ \E b \in Range(solver.keyBoards[c]) : Solvable[b.node]
        \/ \E e \in Range(solver.pending) : e.key = c /\ Solvable[e.board.node]
        \/ \E e \in Range(solver.remaining) : \E m \in SentBy(e.helper) :
              /\ m.type \in {"candidate", "solved"} /\ m.seq = e.seq
              /\ e.key = c /\ Solvable[m.board.node]

\* The tiles fit: each was derived from the very solutions of its neighbours
\* that are in the plane, although a tile may be solved several times and
\* answers to boards of an earlier run still arrive (do_enqueue, set_board, reset)
TilesFit ==
    \A c \in DOMAIN tiling.boards :
        /\ tiling.boards[c].run = IF c = <<0, 0>> THEN tiling.run ELSE 0
        /\ tiling.boards[c].base = {<<n, tiling.boards[n]>> :
                                       n \in Neighbours(c) \cap DOMAIN tiling.boards}

\* The progress is right: all cells of the plane are counted as done exactly
\* when all tiles are solved, whatever the tiles that the extent cuts through
\* and the number of times a tile was solved (solution_progress, cells_per_tile)
ProgressIsRight == Complete(tiling) <=> tiling.cellsDone = CellCount

\* The plane is searched without losing, misplacing or miscounting a part of it
\* (sudoku_impl.cpp, process_done, do_enqueue and solution_progress)
PlaneIsRight == SearchIsCovered /\ TilesFit /\ ProgressIsRight

\* If no answer is lost, the plane becomes complete in spite of lost boards,
\* full backlogs, lost helpers and boards that time out too early
Completes == []<>(Complete(tiling) \/ faults.answerLost)
=============================================================================
