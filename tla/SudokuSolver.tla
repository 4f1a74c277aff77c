------------------------------ MODULE SudokuSolver ------------------------------
(***************************************************************************)
(* The sudoku solver of lab9 and the service it plays against.             *)
(*                                                                         *)
(* The solver asks for the board ("S"), keeps a stack of boards still to   *)
(* be completed, each with its first empty cell, and searches until the    *)
(* stack is empty.  Then it sets the empty cells of the first solution one  *)
(* by one ("V"), reading a reply each time, and asks for a check ("C").    *)
(* A cell is its number in reading order, 9 * row + col in the code.       *)
(* Operators marked "Variant" are slips the code avoids.                   *)
(***************************************************************************)
EXTENDS Integers, SequencesExt

CONSTANTS N,        \* 9 in the code
          B,        \* side of a box, 3 in the code
          Puzzles   \* the boards the service may start with, 0 for an empty cell

Cells == 0 .. N * N - 1
End == N * N
Numbers == 1..N

Row(p) == p \div N
Col(p) == p % N
Box(p) == <<Row(p) \div B, Col(p) \div B>>

\* Two cells that may not hold the same number.
Peers(p, q) == p # q /\ (Row(p) = Row(q) \/ Col(p) = Col(q) \/ Box(p) = Box(q))
Consistent(v) == \A p, q \in Cells : Peers(p, q) /\ v[p] # 0 => v[p] # v[q]

ASSUME SizeAssumption == B \in Nat \ {0} /\ N = B * B
\* The service gives a puzzle: some cell is empty and no two clues collide.  (The
\* solver starts a full board at row 9.)
ASSUME PuzzlesAssumption ==
  \A P \in Puzzles : /\ P \in [Cells -> 0..N]
                     /\ Consistent(P)
                     /\ \E p \in Cells : P[p] = 0

VARIABLES
  pc,          \* "asking", "searching", "trying", "filling", "waiting", "done", "crashed"
  puzzle,      \* initBoard.board
  stack,       \* temp: boards, each with its first empty cell
  current,     \* currentBoard, currentRow and currentCol
  number,      \* i of the loop over the numbers
  solutions,   \* possibleSolution
  cursor,      \* where the loops that send the solution are
  toService,   \* commands not yet read by the service
  toSolver,    \* replies not yet read by the solver
  given,       \* the puzzle of the service
  field,       \* the service's board
  verdict      \* what its check said: "none", "solved" or "wrong"

searchVars == <<puzzle, stack, current, number, solutions>>
serviceVars == <<given, field, verdict>>
vars == <<pc, searchVars, cursor, toService, toSolver, serviceVars>>

-----------------------------------------------------------------------------
(* class Board: the numbers, and what each row, column and box has.        *)

Rows == {Row(p) : p \in Cells}
Cols == {Col(p) : p \in Cells}
Boxes == {Box(p) : p \in Cells}

Boards == [value : [Cells -> 0..N], row : [Rows -> SUBSET Numbers],
           col : [Cols -> SUBSET Numbers], cell : [Boxes -> SUBSET Numbers]]

\* setValue() for every clue of v.
BoardOf(v) ==
  [value |-> v,
   row |-> [r \in Rows |-> {v[p] : p \in {q \in Cells : Row(q) = r}} \ {0}],
   col |-> [c \in Cols |-> {v[p] : p \in {q \in Cells : Col(q) = c}} \ {0}],
   cell |-> [k \in Boxes |-> {v[p] : p \in {q \in Cells : Box(q) = k}} \ {0}]]

\* Variant: the boxes are not looked at.
CheckLines(b, p, i) == i \notin b.row[Row(p)] /\ i \notin b.col[Col(p)]

CheckValue(b, p, i) ==
  i \notin b.row[Row(p)] /\ i \notin b.col[Col(p)] /\ i \notin b.cell[Box(p)]

\* Variant: the number is not entered for the column.
SetForgetCol(b, p, i) ==
  [b EXCEPT !.value[p] = i, !.row[Row(p)] = @ \cup {i}, !.cell[Box(p)] = @ \cup {i}]

SetValue(b, p, i) ==
  [value |-> [b.value EXCEPT ![p] = i],
   row |-> [b.row EXCEPT ![Row(p)] = @ \cup {i}],
   col |-> [b.col EXCEPT ![Col(p)] = @ \cup {i}],
   cell |-> [b.cell EXCEPT ![Box(p)] = @ \cup {i}]]

\* The first empty cell of v from p on, or End.
EmptyFrom(v, p) ==
  IF \E q \in Cells : q >= p /\ v[q] = 0
  THEN CHOOSE q \in Cells : q >= p /\ v[q] = 0 /\ \A r \in Cells : r >= p /\ v[r] = 0 => q <= r
  ELSE End

-----------------------------------------------------------------------------
(* The solver.                                                             *)

\* read() of the answer to "S", and the search's first entry.
Load ==
  /\ pc = "asking"
  /\ toSolver # <<>>
  /\ puzzle' = Head(toSolver)
  /\ toSolver' = <<>>
  /\ stack' = <<[board |-> BoardOf(puzzle'), at |-> EmptyFrom(puzzle', 0)]>>
  /\ pc' = "searching"
  /\ UNCHANGED <<current, number, solutions, cursor, toService, serviceVars>>

Pop ==
  /\ pc = "searching"
  /\ stack # <<>>
  /\ current' = Last(stack)
  /\ stack' = Front(stack)
  /\ number' = 1
  /\ pc' = "trying"
  /\ UNCHANGED <<puzzle, solutions, cursor, toService, toSolver, serviceVars>>

\* The board with the number tried in the current cell.
Filled == SetValue(current.board, current.at, number)

\* Where newBoard goes.
Keep ==
  LET next == EmptyFrom(Filled.value, current.at + 1)
  IN IF next = End
     THEN solutions' = Append(solutions, Filled.value) /\ UNCHANGED stack
     ELSE stack' = Append(stack, [board |-> Filled, at |-> next]) /\ UNCHANGED solutions

\* Variant: the loop ends a number too early.
LastTriedShort == N - 1
LastTried == N

\* One round of the loop over the numbers.
Try ==
  /\ pc = "trying"
  /\ IF CheckValue(current.board, current.at, number)
     THEN Keep
     ELSE UNCHANGED <<stack, solutions>>
  /\ number' = number + 1
  /\ pc' = IF number = LastTried THEN "searching" ELSE "trying"
  /\ UNCHANGED <<puzzle, current, cursor, toService, toSolver, serviceVars>>

EndOfSearch ==
  /\ pc = "searching"
  /\ stack = <<>>
  /\ pc' = "filling"
  /\ UNCHANGED <<searchVars, cursor, toService, toSolver, serviceVars>>

Commands == [kind : {"S", "C"}] \cup [kind : {"V"}, at : Cells, value : 0..N]

\* "V row col value" for the next cell that was empty.
SendValue ==
  LET p == EmptyFrom(puzzle, cursor)
  IN /\ pc = "filling"
     /\ p # End
     /\ solutions # <<>>
     /\ toService' = Append(toService, [kind |-> "V", at |-> p, value |-> solutions[1][p]])
     /\ cursor' = p + 1
     /\ pc' = "waiting"
     /\ UNCHANGED <<searchVars, toSolver, serviceVars>>

\* Without a solution possibleSolution[0] refers to the address 0, and the first
\* empty cell is read from there.
ReadNothing ==
  /\ pc = "filling"
  /\ EmptyFrom(puzzle, cursor) # End
  /\ solutions = <<>>
  /\ pc' = "crashed"
  /\ UNCHANGED <<searchVars, cursor, toService, toSolver, serviceVars>>

\* Variant: the next value is sent without reading the reply.
TakeNoReply ==
  /\ pc = "waiting"
  /\ pc' = "filling"
  /\ UNCHANGED <<searchVars, cursor, toService, toSolver, serviceVars>>

TakeReply ==
  /\ pc = "waiting"
  /\ toSolver # <<>>
  /\ toSolver' = <<>>
  /\ pc' = "filling"
  /\ UNCHANGED <<searchVars, cursor, toService, serviceVars>>

SendCheck ==
  /\ pc = "filling"
  /\ EmptyFrom(puzzle, cursor) = End
  /\ toService' = Append(toService, [kind |-> "C"])
  /\ pc' = "done"
  /\ UNCHANGED <<searchVars, cursor, toSolver, serviceVars>>

-----------------------------------------------------------------------------
(* The service.  A stream has no message boundaries: what is there when it  *)
(* reads is one command, or no command it understands.                     *)

Solved(v) == (\A p \in Cells : v[p] # 0) /\ Consistent(v)

Execute(command) ==
  \/ /\ command.kind = "S"
     /\ UNCHANGED <<field, verdict>>
  \/ /\ command.kind = "V"
     /\ field' = [field EXCEPT ![command.at] = command.value]
     /\ UNCHANGED verdict
  \/ /\ command.kind = "C"
     /\ verdict' = IF Solved(field) THEN "solved" ELSE "wrong"
     /\ UNCHANGED field

Serve ==
  /\ toService # <<>>
  /\ toService' = <<>>
  /\ IF Len(toService) = 1 THEN Execute(Head(toService)) ELSE UNCHANGED <<field, verdict>>
  /\ toSolver' = Append(toSolver, field')
  /\ UNCHANGED <<pc, searchVars, cursor, given>>

Blank == [p \in Cells |-> 0]

\* "S" is sent before anything is read.
Init ==
  /\ given \in Puzzles
  /\ pc = "asking" /\ puzzle = Blank /\ stack = <<>> /\ solutions = <<>>
  /\ current = [board |-> BoardOf(Blank), at |-> 0] /\ number = 1 /\ cursor = 0
  /\ toService = <<[kind |-> "S"]>> /\ toSolver = <<>>
  /\ field = given /\ verdict = "none"

Solver == \/ Load \/ Pop \/ Try \/ EndOfSearch
          \/ SendValue \/ ReadNothing \/ TakeReply \/ SendCheck

Next == Solver \/ Serve

\* The solver is one process that waits for the service only, and the service
\* answers.
Fairness == WF_vars(Solver) /\ WF_vars(Serve)

Spec == Init /\ [][Next]_vars /\ Fairness

-----------------------------------------------------------------------------
(* Properties.                                                             *)

\* The boards that complete P by the rules of the game.
Completion(P, v) ==
  /\ v \in [Cells -> Numbers]
  /\ \A p \in Cells : P[p] # 0 => v[p] = P[p]
  /\ Consistent(v)

Completions ==
  [P \in Puzzles |->
    LET Fill(g) == [p \in Cells |-> IF P[p] = 0 THEN g[p] ELSE P[p]]
    IN {v \in {Fill(g) : g \in [{p \in Cells : P[p] = 0} -> Numbers]} : Completion(P, v)}]

\* Every variable has its type, and the masks of a board say what is on it.
TypeOK ==
  /\ pc \in {"asking", "searching", "trying", "filling", "waiting", "done", "crashed"}
  /\ puzzle \in [Cells -> 0..N]
  /\ stack \in Seq([board : Boards, at : Cells])
  /\ \A e \in Range(stack) : e.board = BoardOf(e.board.value)
  /\ current \in [board : Boards, at : Cells]
  /\ current.board = BoardOf(current.board.value)
  /\ number \in 1..N + 1
  /\ solutions \in Seq([Cells -> Numbers])
  /\ cursor \in Cells \cup {End}
  /\ toService \in Seq(Commands)
  /\ toSolver \in Seq([Cells -> 0..N])
  /\ given \in Puzzles
  /\ field \in [Cells -> 0..N]
  /\ verdict \in {"none", "solved", "wrong"}

\* The completion v may still be found below the board w.
Reaches(w, v) == \A p \in Cells : w[p] # 0 => w[p] = v[p]
\* Where the search still leads to v: entries of the stack, and 0 for the board that
\* is being tried.
Places(v) ==
  {k \in DOMAIN stack : Reaches(stack[k].board.value, v)} \cup
  {k \in {0} : pc = "trying" /\ Reaches(current.board.value, v) /\ v[current.at] >= number}

\* At every moment of the search a completion of the puzzle has been found exactly
\* once, or is found below exactly one board the search has still to visit: none is
\* lost, none comes twice, and nothing else is taken for a solution.
SearchExact ==
  /\ \A k \in DOMAIN solutions : solutions[k] \in Completions[given]
  /\ IsInjective(solutions)
  /\ pc # "asking" =>
       \A v \in Completions[given] :
         IF v \in Range(solutions) THEN Places(v) = {} ELSE \E k \in 0..Len(stack) : Places(v) = {k}

\* The check the solver asks for never fails: by then the service has understood
\* every value, and together they solve its puzzle.
CheckNeverFails == verdict # "wrong"

\* A puzzle that can be solved is solved and checked; without a solution the solver
\* crashes.
SolvesWhatCanBeSolved ==
  <>(IF Completions[given] = {} THEN pc = "crashed" ELSE verdict = "solved")
=============================================================================
