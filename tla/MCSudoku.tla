-------------------------------- MODULE MCSudoku --------------------------------
(* SudokuSolver on boards of four by four.                                 *)
EXTENDS SudokuSolver

Board4 == <<1, 2, 3, 4,  3, 4, 1, 2,  2, 1, 4, 3,  4, 3, 2, 1>>
Puzzle(s) == [p \in 0..15 |-> s[p + 1]]
WithGaps(Gaps) == [p \in 0..15 |-> IF p \in Gaps THEN 0 ELSE Board4[p + 1]]

\* One gap at the end; gaps that begin and end the board, which only the boxes decide;
\* two solutions; one; four, below the empty upper half; and none, which shows only in
\* the last cell.
MCPuzzles ==
  {WithGaps({15}),
   WithGaps({0, 3, 6, 9, 12, 15}),
   WithGaps({0, 1, 4, 5}),
   WithGaps({0, 2, 8, 10, 13, 15}),
   WithGaps(0..7),
   Puzzle(<<0, 0, 3, 4,  3, 4, 1, 2,  2, 0, 0, 1,  4, 3, 2, 0>>)}
=============================================================================
