------------------------------ MODULE MCSudoku ------------------------------
(* Two helpers, one of whose boards has two solutions and a dead end.      *)
EXTENDS Sudoku
CONSTANTS h1, h2
MCHelpers == {h1, h2}
MCAlternatives == [start |-> <<"left">>, left |-> <<"a", "b">>, a |-> <<>>, b |-> <<>>]
MCSolved == {"a", "b"}
MCMin == <<-1, 0>>
MCMax == <<2, 1>>
=============================================================================
