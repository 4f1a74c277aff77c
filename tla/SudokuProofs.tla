------------------------------ MODULE SudokuProofs ------------------------------
(* Theorems of SudokuSolver, for boards of every size and every set of      *)
(* puzzles.                                                                *)
EXTENDS SudokuSolver, SequenceTheorems, WellFoundedInduction, TLAPS

(* The inductive invariant.  SearchExact needs what an entry of the stack   *)
(* is: the clues, and consistent numbers in every cell before the one it    *)
(* waits for.  The check at the end needs what the service has by then.     *)

\* The values w of a board that waits for a number at p.
OpenBoard(w, p) ==
  /\ w[p] = 0
  /\ Consistent(w)
  /\ \A q \in Cells : puzzle[q] # 0 => w[q] = puzzle[q]
  /\ \A q \in Cells : q >= p => w[q] = puzzle[q]
  /\ \A q \in Cells : q < p => w[q] # 0

EntriesOpen ==
  /\ \A k \in DOMAIN stack : OpenBoard(stack[k].board.value, stack[k].at)
  /\ pc = "trying" => OpenBoard(current.board.value, current.at) /\ number \in Numbers

\* The search is about the service's puzzle.
PuzzleGiven == pc # "asking" => puzzle = given

\* The service's board when the empty cells before c have been set.
Expected(c) == [p \in Cells |-> IF given[p] = 0 /\ p < c THEN solutions[1][p] ELSE given[p]]

\* The solver and the service take turns.
Turns ==
  /\ pc = "asking" =>
       /\ field = given /\ cursor = 0 /\ solutions = <<>> /\ stack = <<>> /\ verdict = "none"
       /\ \/ toService = <<[kind |-> "S"]>> /\ toSolver = <<>>
          \/ toService = <<>> /\ toSolver = <<given>>
  /\ pc \in {"searching", "trying"} =>
       /\ toService = <<>> /\ toSolver = <<>> /\ field = given /\ cursor = 0 /\ verdict = "none"
  /\ pc = "filling" =>
       /\ toService = <<>> /\ toSolver = <<>> /\ field = Expected(cursor) /\ verdict = "none"
       /\ solutions = <<>> => cursor = 0
  /\ pc = "waiting" =>
       /\ solutions # <<>> /\ verdict = "none"
       /\ \/ /\ \E p \in Cells : /\ cursor = p + 1 /\ field = Expected(p) /\ given[p] = 0
                                 /\ toService = <<[kind |-> "V", at |-> p, value |-> solutions[1][p]]>>
             /\ toSolver = <<>>
          \/ toService = <<>> /\ toSolver # <<>> /\ field = Expected(cursor)
  /\ pc = "done" =>
       /\ solutions # <<>> /\ field = solutions[1] /\ verdict # "wrong"
       /\ toService \in {<<>>, <<[kind |-> "C"]>>}
  /\ pc = "crashed" => toService = <<>> /\ verdict = "none"

Inv ==
  /\ TypeOK
  /\ EntriesOpen
  /\ PuzzleGiven
  /\ SearchExact
  /\ Turns

-----------------------------------------------------------------------------
(* Numbers and cells.                                                      *)

\* The size of the board is a number, and cells are numbers.
LEMMA Sizes ==
  /\ N \in Nat /\ N >= 1 /\ End \in Nat
  /\ Cells = 0 .. End - 1 /\ Cells \subseteq Nat /\ End \notin Cells
  /\ Numbers \subseteq 0..N /\ 0 \notin Numbers
<1>1. B \in Nat /\ B >= 1 /\ N = B * B
  BY SizeAssumption
<1>2. N \in Nat /\ N >= 1
  BY <1>1
<1>3. End \in Nat
  BY <1>2 DEF End
<1> QED BY <1>2, <1>3 DEF Cells, End, Numbers

\* A non-empty set of numbers has a least element.
LEMMA Least ==
  ASSUME NEW S \in SUBSET Nat, S # {}
  PROVE  \E m \in S : \A k \in S : m <= k
<1>1. IsWellFoundedOn(OpToRel(<, Nat), Nat)
  BY NatLessThanWellFounded
<1>2. PICK m \in S : \A k \in S : ~(<<k, m>> \in OpToRel(<, Nat))
  BY <1>1, WFMin
<1>3. \A k \in S : ~(k < m)
  BY <1>2 DEF OpToRel
<1> QED BY <1>3

\* EmptyFrom gives the first empty cell from p on, or End when all are filled.
LEMMA EmptyFromFirst ==
  ASSUME NEW v \in [Cells -> 0..N], NEW p \in Nat
  PROVE  /\ EmptyFrom(v, p) \in Cells \cup {End}
         /\ EmptyFrom(v, p) = End => \A q \in Cells : q >= p => v[q] # 0
         /\ EmptyFrom(v, p) # End =>
              /\ EmptyFrom(v, p) >= p /\ v[EmptyFrom(v, p)] = 0
              /\ \A q \in Cells : q >= p /\ q < EmptyFrom(v, p) => v[q] # 0
<1> DEFINE Above == {q \in Cells : q >= p /\ v[q] = 0}
<1>1. CASE Above = {}
  <2>1. EmptyFrom(v, p) = End
    BY <1>1 DEF EmptyFrom
  <2> QED BY <1>1, <2>1
<1>2. CASE Above # {}
  <2>1. \E m \in Above : \A k \in Above : m <= k
    BY <1>2, Least, Sizes
  <2>2. \E q \in Cells : q >= p /\ v[q] = 0
                         /\ \A r \in Cells : r >= p /\ v[r] = 0 => q <= r
    BY <2>1
  <2> DEFINE e == EmptyFrom(v, p)
  <2>3. e \in Cells /\ e >= p /\ v[e] = 0 /\ \A r \in Cells : r >= p /\ v[r] = 0 => e <= r
    BY <2>2 DEF EmptyFrom
  <2>4. \A q \in Cells : q >= p /\ q < e => v[q] # 0
    BY <2>3, Sizes
  <2>5. e # End
    BY <2>3, Sizes
  <2> QED BY <2>3, <2>4, <2>5
<1> QED BY <1>1, <1>2

-----------------------------------------------------------------------------
(* Boards.                                                                 *)

\* The masks of a board say which numbers its rows, columns and boxes have.
LEMMA BoardType ==
  ASSUME NEW v \in [Cells -> 0..N]
  PROVE  BoardOf(v) \in Boards /\ BoardOf(v).value = v
BY Sizes DEF BoardOf, Boards, Numbers

\* checkValue() says whether a number fits the cell.
LEMMA CheckValueFits ==
  ASSUME NEW v \in [Cells -> 0..N], NEW p \in Cells, NEW i \in Numbers, v[p] = 0
  PROVE  CheckValue(BoardOf(v), p, i) <=> \A q \in Cells : Peers(p, q) => v[q] # i
<1>1. i # 0 /\ v[p] # i
  BY Sizes
<1>2. i \in BoardOf(v).row[Row(p)] <=> \E q \in Cells : Row(q) = Row(p) /\ v[q] = i
  BY <1>1 DEF BoardOf, Rows
<1>3. i \in BoardOf(v).col[Col(p)] <=> \E q \in Cells : Col(q) = Col(p) /\ v[q] = i
  BY <1>1 DEF BoardOf, Cols
<1>4. i \in BoardOf(v).cell[Box(p)] <=> \E q \in Cells : Box(q) = Box(p) /\ v[q] = i
  BY <1>1 DEF BoardOf, Boxes
<1> QED BY <1>1, <1>2, <1>3, <1>4 DEF CheckValue, Peers

\* setValue() of an empty cell keeps the masks true of the board.
LEMMA SetValueBoard ==
  ASSUME NEW v \in [Cells -> 0..N], NEW p \in Cells, NEW i \in Numbers, v[p] = 0
  PROVE  SetValue(BoardOf(v), p, i) = BoardOf([v EXCEPT ![p] = i])
<1> DEFINE w == [v EXCEPT ![p] = i]
           b == SetValue(BoardOf(v), p, i)
<1>1. w \in [Cells -> 0..N] /\ i # 0 /\ w[p] = i /\ \A q \in Cells : q # p => w[q] = v[q]
  BY Sizes
<1>2. b = [value |-> w,
           row |-> [BoardOf(v).row EXCEPT ![Row(p)] = @ \cup {i}],
           col |-> [BoardOf(v).col EXCEPT ![Col(p)] = @ \cup {i}],
           cell |-> [BoardOf(v).cell EXCEPT ![Box(p)] = @ \cup {i}]]
  BY BoardType DEF SetValue
<1>3. [BoardOf(v).row EXCEPT ![Row(p)] = @ \cup {i}] = BoardOf(w).row
  <2>1. ASSUME NEW r \in Rows
        PROVE  {w[q] : q \in {s \in Cells : Row(s) = r}} \ {0}
                 = IF r = Row(p) THEN ({v[q] : q \in {s \in Cells : Row(s) = r}} \ {0}) \cup {i}
                                 ELSE {v[q] : q \in {s \in Cells : Row(s) = r}} \ {0}
    BY <1>1
  <2> QED BY <2>1 DEF BoardOf, Rows
<1>4. [BoardOf(v).col EXCEPT ![Col(p)] = @ \cup {i}] = BoardOf(w).col
  <2>1. ASSUME NEW r \in Cols
        PROVE  {w[q] : q \in {s \in Cells : Col(s) = r}} \ {0}
                 = IF r = Col(p) THEN ({v[q] : q \in {s \in Cells : Col(s) = r}} \ {0}) \cup {i}
                                 ELSE {v[q] : q \in {s \in Cells : Col(s) = r}} \ {0}
    BY <1>1
  <2> QED BY <2>1 DEF BoardOf, Cols
<1>5. [BoardOf(v).cell EXCEPT ![Box(p)] = @ \cup {i}] = BoardOf(w).cell
  <2>1. ASSUME NEW r \in Boxes
        PROVE  {w[q] : q \in {s \in Cells : Box(s) = r}} \ {0}
                 = IF r = Box(p) THEN ({v[q] : q \in {s \in Cells : Box(s) = r}} \ {0}) \cup {i}
                                 ELSE {v[q] : q \in {s \in Cells : Box(s) = r}} \ {0}
    BY <1>1
  <2> QED BY <2>1 DEF BoardOf, Boxes
<1> QED BY <1>2, <1>3, <1>4, <1>5 DEF BoardOf

\* Completions lists the completions of a puzzle.
LEMMA CompletionsListed ==
  ASSUME NEW P \in Puzzles, NEW v
  PROVE  v \in Completions[P] <=> Completion(P, v)
<1> DEFINE G == [{p \in Cells : P[p] = 0} -> Numbers]
           Fill(g) == [p \in Cells |-> IF P[p] = 0 THEN g[p] ELSE P[p]]
<1>1. Completions[P] = {w \in {Fill(g) : g \in G} : Completion(P, w)}
  BY DEF Completions
<1>2. ASSUME Completion(P, v) PROVE v \in {Fill(g) : g \in G}
  <2> DEFINE g == [p \in {q \in Cells : P[q] = 0} |-> v[p]]
  <2>1. v \in [Cells -> Numbers] /\ \A p \in Cells : P[p] # 0 => v[p] = P[p]
    BY <1>2 DEF Completion
  <2>2. g \in G
    BY <2>1
  <2>3. v = Fill(g)
    BY <2>1
  <2> QED BY <2>2, <2>3
<1> QED BY <1>1, <1>2

-----------------------------------------------------------------------------
(* One number in one cell.                                                 *)

\* A number that fits makes a board whose next empty cell waits, or a completion.
LEMMA FillFits ==
  ASSUME NEW w \in [Cells -> 0..N], NEW p \in Cells, NEW i \in Numbers,
         puzzle \in [Cells -> 0..N], OpenBoard(w, p), CheckValue(BoardOf(w), p, i)
  PROVE  LET n == [w EXCEPT ![p] = i]
             e == EmptyFrom(n, p + 1)
         IN /\ n \in [Cells -> 0..N] /\ BoardOf(n) \in Boards
            /\ SetValue(BoardOf(w), p, i) = BoardOf(n)
            /\ e = End => Completion(puzzle, n)
            /\ e # End => e \in Cells /\ OpenBoard(n, e)
<1> DEFINE n == [w EXCEPT ![p] = i]
           e == EmptyFrom(n, p + 1)
<1>1. n \in [Cells -> 0..N] /\ n[p] = i /\ i # 0 /\ \A q \in Cells : q # p => n[q] = w[q]
  BY Sizes
<1>2. w[p] = 0 /\ SetValue(BoardOf(w), p, i) = BoardOf(n)
  BY SetValueBoard DEF OpenBoard
<1>3. \A q \in Cells : Peers(p, q) => w[q] # i
  BY <1>2, CheckValueFits
<1>4. Consistent(n)
  <2> SUFFICES ASSUME NEW a \in Cells, NEW b \in Cells, Peers(a, b), n[a] # 0
               PROVE  n[a] # n[b]
    BY DEF Consistent
  <2>1. Peers(b, a) /\ a # b
    BY DEF Peers
  <2>2. w[a] # 0 => w[a] # w[b]
    BY DEF OpenBoard, Consistent
  <2> QED BY <1>1, <1>3, <2>1, <2>2
<1>5. \A q \in Cells : puzzle[q] # 0 => n[q] = puzzle[q]
  BY <1>1, <1>2 DEF OpenBoard
<1>6. \A q \in Cells : q < p + 1 => n[q] # 0
  BY <1>1, Sizes DEF OpenBoard
<1>7. \A q \in Cells : q >= p + 1 => n[q] = puzzle[q]
  BY <1>1, Sizes DEF OpenBoard
<1>8. p + 1 \in Nat
  BY Sizes
<1>9. /\ e \in Cells \cup {End}
      /\ e = End => \A q \in Cells : q >= p + 1 => n[q] # 0
      /\ e # End => /\ e >= p + 1 /\ n[e] = 0
                    /\ \A q \in Cells : q >= p + 1 /\ q < e => n[q] # 0
  BY <1>1, <1>8, EmptyFromFirst
<1>10. e = End => Completion(puzzle, n)
  <2> SUFFICES ASSUME e = End PROVE Completion(puzzle, n)
    OBVIOUS
  <2>1. \A q \in Cells : n[q] # 0
    BY <1>6, <1>9, Sizes
  <2>2. n \in [Cells -> Numbers]
    BY <1>1, <2>1, Sizes DEF Numbers
  <2> QED BY <2>2, <1>4, <1>5 DEF Completion
<1>11. e # End => e \in Cells /\ OpenBoard(n, e)
  <2> SUFFICES ASSUME e # End PROVE e \in Cells /\ OpenBoard(n, e)
    OBVIOUS
  <2>1. e \in Cells /\ e >= p + 1 /\ n[e] = 0
    BY <1>9
  <2>2. \A q \in Cells : q < e => n[q] # 0
    <3> SUFFICES ASSUME NEW q \in Cells, q < e PROVE n[q] # 0
      OBVIOUS
    <3>1. q < p + 1 \/ q >= p + 1
      BY Sizes
    <3> QED BY <1>6, <1>9, <3>1
  <2>3. \A q \in Cells : q >= e => n[q] = puzzle[q]
    BY <1>7, <2>1, Sizes
  <2> QED BY <1>4, <1>5, <2>1, <2>2, <2>3 DEF OpenBoard
<1>12. BoardOf(n) \in Boards
  BY <1>1, BoardType
<1> QED BY <1>1, <1>2, <1>10, <1>11, <1>12

\* The new board leads to the completions of the old one with that number, and no
\* completion has a number that does not fit.
LEMMA FillReaches ==
  ASSUME NEW w \in [Cells -> 0..N], NEW p \in Cells, NEW i \in Numbers,
         NEW v, Completion(puzzle, v), OpenBoard(w, p)
  PROVE  /\ Reaches([w EXCEPT ![p] = i], v) <=> Reaches(w, v) /\ v[p] = i
         /\ Reaches(w, v) /\ v[p] = i => CheckValue(BoardOf(w), p, i)
         /\ v[p] \in Numbers
<1> DEFINE n == [w EXCEPT ![p] = i]
<1>1. n[p] = i /\ i # 0 /\ w[p] = 0 /\ \A q \in Cells : q # p => n[q] = w[q]
  BY Sizes DEF OpenBoard
<1>2. v \in [Cells -> Numbers]
  BY DEF Completion
<1>3. Reaches(n, v) <=> Reaches(w, v) /\ v[p] = i
  BY <1>1 DEF Reaches
<1>4. ASSUME Reaches(w, v), v[p] = i
      PROVE  CheckValue(BoardOf(w), p, i)
  <2>1. ASSUME NEW q \in Cells, Peers(p, q) PROVE w[q] # i
    <3>1. v[p] # v[q]
      BY <1>1, <1>4, <2>1 DEF Completion, Consistent
    <3> QED BY <1>1, <1>4, <3>1 DEF Reaches
  <2> QED BY <1>1, <2>1, CheckValueFits
<1> QED BY <1>2, <1>3, <1>4

\* A full board leads to itself alone.
LEMMA FullReaches ==
  ASSUME NEW n, Completion(puzzle, n), NEW v, Completion(puzzle, v)
  PROVE  Reaches(n, v) <=> v = n
<1>1. n \in [Cells -> Numbers] /\ v \in [Cells -> Numbers] /\ 0 \notin Numbers
  BY Sizes DEF Completion
<1> QED BY <1>1 DEF Reaches

-----------------------------------------------------------------------------
(* The steps of the search.                                                *)

\* A stack gives back what was put on it last.
LEMMA Popped ==
  ASSUME NEW S, NEW s \in Seq(S), s # <<>>
  PROVE  /\ Last(s) \in S /\ Len(s) \in DOMAIN s /\ Last(s) = s[Len(s)]
         /\ Front(s) \in Seq(S)
         /\ DOMAIN Front(s) = (DOMAIN s) \ {Len(s)}
         /\ \A k \in DOMAIN Front(s) : Front(s)[k] = s[k]
<1>1. Len(s) \in Nat /\ Len(s) > 0 /\ DOMAIN s = 1..Len(s)
  BY EmptySeq, LenProperties
<1>2. \A k \in 1..Len(s) : s[k] \in S
  BY ElementOfSeq
<1>3. /\ Front(s) \in Seq(S) /\ Len(Front(s)) = Len(s) - 1
      /\ \A k \in 1..Len(s) - 1 : Front(s)[k] = s[k]
  BY <1>1, <1>2, SubSeqProperties DEF Front
<1>4. DOMAIN Front(s) = 1..Len(s) - 1
  BY <1>1, <1>3, LenProperties
<1> QED BY <1>1, <1>2, <1>3, <1>4 DEF Last

\* Append puts one more element at the end.
LEMMA Appended ==
  ASSUME NEW S, NEW s \in Seq(S), NEW x \in S
  PROVE  /\ Append(s, x) \in Seq(S)
         /\ Len(s) + 1 \notin DOMAIN s /\ Len(s) + 1 \in Nat /\ Len(s) + 1 > 0
         /\ DOMAIN Append(s, x) = DOMAIN s \cup {Len(s) + 1}
         /\ Append(s, x)[Len(s) + 1] = x
         /\ \A k \in DOMAIN s : Append(s, x)[k] = s[k]
<1>1. Len(s) \in Nat /\ DOMAIN s = 1..Len(s)
  BY LenProperties
<1>2. /\ Append(s, x) \in Seq(S) /\ Len(Append(s, x)) = Len(s) + 1
      /\ Append(s, x)[Len(s) + 1] = x
      /\ \A k \in 1..Len(s) : Append(s, x)[k] = s[k]
  BY AppendProperties
<1>3. DOMAIN Append(s, x) = 1..Len(s) + 1
  BY <1>2, LenProperties
<1> QED BY <1>1, <1>2, <1>3

\* What is known while a number is tried: w is the current board, p its cell.
LEMMA InHand ==
  ASSUME Inv, pc = "trying"
  PROVE  /\ puzzle = given /\ puzzle \in [Cells -> 0..N] /\ given \in Puzzles
         /\ current.at \in Cells /\ current.board.value \in [Cells -> 0..N]
         /\ current.board = BoardOf(current.board.value)
         /\ OpenBoard(current.board.value, current.at)
         /\ number \in Numbers
<1>1. current.board \in Boards /\ current.at \in Cells
  BY DEF Inv, TypeOK
<1> QED BY <1>1 DEF Inv, TypeOK, EntriesOpen, PuzzleGiven, Boards

\* A solution in the list is found; the places of a completion are in the stack and
\* in the hand.
LEMMA PlaceMember ==
  ASSUME NEW v, NEW k
  PROVE  k \in Places(v) <=> \/ k \in DOMAIN stack /\ Reaches(stack[k].board.value, v)
                             \/ k = 0 /\ pc = "trying" /\ Reaches(current.board.value, v)
                                /\ v[current.at] >= number
BY DEF Places

LEMMA PlaceMemberNext ==
  ASSUME NEW v, NEW k
  PROVE  k \in Places(v)' <=> \/ k \in DOMAIN stack' /\ Reaches(stack[k].board.value, v)'
                              \/ k = 0 /\ pc' = "trying" /\ Reaches(current.board.value, v)'
                                 /\ (v[current.at] >= number)'
BY DEF Places

\* The hand after a number was tried.
LEMMA TryHand ==
  ASSUME Inv, Try, NEW v, v \in Completions[given]
  PROVE  /\ Completion(puzzle, v)
         /\ 0 \notin DOMAIN stack
         /\ 0 \in Places(v) <=> Reaches(current.board.value, v) /\ v[current.at] >= number
         /\ pc' = "trying" /\ Reaches(current.board.value, v)' /\ (v[current.at] >= number)'
              <=> 0 \in Places(v) /\ v[current.at] # number
<1> DEFINE w == current.board.value
           p == current.at
<1>1. pc = "trying"
  BY DEF Try
<1>2. puzzle = given /\ p \in Cells /\ w \in [Cells -> 0..N] /\ OpenBoard(w, p) /\ number \in Numbers
      /\ given \in Puzzles
  BY <1>1, InHand
<1>3. Completion(puzzle, v)
  BY <1>2, CompletionsListed
<1>4. v[p] \in Numbers
  BY <1>2, <1>3, FillReaches
<1>5. 0 \notin DOMAIN stack
  BY LenProperties DEF Inv, TypeOK
<1>6. 0 \in Places(v) <=> Reaches(w, v) /\ v[p] >= number
  BY <1>1, <1>5, PlaceMember
<1>7. current' = current /\ number' = number + 1 /\ (pc' = "trying" <=> number # N)
  BY DEF Try, LastTried
<1>8. Reaches(current.board.value, v)' <=> Reaches(w, v)
  BY <1>7 DEF Reaches
<1>9. pc' = "trying" /\ v[p] >= number + 1 <=> v[p] >= number /\ v[p] # number
  BY <1>2, <1>4, <1>7, Sizes DEF Numbers
<1> QED BY <1>3, <1>5, <1>6, <1>7, <1>8, <1>9

\* A number that does not fit loses nothing.
LEMMA TryUnfit ==
  ASSUME Inv, Try, ~CheckValue(current.board, current.at, number)
  PROVE  SearchExact' /\ EntriesOpen'
<1> DEFINE w == current.board.value
           p == current.at
<1>1. pc = "trying"
  BY DEF Try
<1>2. /\ puzzle = given /\ p \in Cells /\ w \in [Cells -> 0..N] /\ OpenBoard(w, p)
      /\ number \in Numbers /\ current.board = BoardOf(w)
  BY <1>1, InHand
<1>3. /\ stack' = stack /\ solutions' = solutions /\ given' = given /\ current' = current
      /\ puzzle' = puzzle /\ number' = number + 1 /\ (pc' = "trying" <=> number # N)
      /\ pc' # "asking"
  BY DEF Try, serviceVars, LastTried
<1>4. EntriesOpen'
  <2>1. pc' = "trying" => number' \in Numbers
    BY <1>2, <1>3, Sizes DEF Numbers
  <2> QED BY <1>1, <1>3, <2>1 DEF Inv, EntriesOpen, OpenBoard
<1>5. ASSUME NEW v \in Completions[given]
      PROVE  Places(v)' = Places(v)
  <2>1. Reaches(w, v) => v[p] # number
    <3>1. Completion(puzzle, v)
      BY TryHand
    <3>2. Reaches(w, v) /\ v[p] = number => CheckValue(BoardOf(w), p, number)
      BY <1>2, <3>1, FillReaches
    <3> QED BY <1>2, <3>2
  <2>2. 0 \in Places(v) => v[p] # number
    BY <2>1, TryHand
  <2>3. \A k : k \in Places(v)' <=> k \in Places(v)
    BY <1>1, <1>3, <2>2, TryHand, PlaceMember, PlaceMemberNext DEF Reaches
  <2> QED BY <2>3
<1>6. \A v \in Completions[given] :
        IF v \in Range(solutions) THEN Places(v)' = {} ELSE \E k \in 0..Len(stack) : Places(v)' = {k}
  BY <1>1, <1>5 DEF Inv, SearchExact
<1> QED BY <1>3, <1>4, <1>6 DEF Inv, SearchExact, Range, IsInjective

\* The facts the two cases of a number that fits share: n is the new board, e its
\* first empty cell.
LEMMA TryFit ==
  ASSUME Inv, Try, CheckValue(current.board, current.at, number)
  PROVE  LET n == [current.board.value EXCEPT ![current.at] = number]
             e == EmptyFrom(n, current.at + 1)
         IN /\ n \in [Cells -> 0..N] /\ BoardOf(n) \in Boards /\ BoardOf(n).value = n
            /\ Filled = BoardOf(n)
            /\ e = End => /\ Completion(puzzle, n) /\ n \in Completions[given]
                          /\ stack' = stack /\ solutions' = Append(solutions, n)
            /\ e # End => /\ e \in Cells /\ OpenBoard(n, e)
                          /\ stack' = Append(stack, [board |-> BoardOf(n), at |-> e])
                          /\ solutions' = solutions
            /\ \A v \in Completions[given] :
                 Reaches(n, v) <=> 0 \in Places(v) /\ v[current.at] = number
<1> DEFINE w == current.board.value
           p == current.at
           n == [w EXCEPT ![p] = number]
           e == EmptyFrom(n, p + 1)
<1>1. pc = "trying"
  BY DEF Try
<1>2. /\ puzzle = given /\ p \in Cells /\ w \in [Cells -> 0..N] /\ OpenBoard(w, p)
      /\ number \in Numbers /\ current.board = BoardOf(w) /\ given \in Puzzles
      /\ puzzle \in [Cells -> 0..N]
  BY <1>1, InHand
<1>3. /\ n \in [Cells -> 0..N] /\ BoardOf(n) \in Boards
      /\ SetValue(BoardOf(w), p, number) = BoardOf(n)
      /\ e = End => Completion(puzzle, n)
      /\ e # End => e \in Cells /\ OpenBoard(n, e)
  BY <1>2, FillFits
<1>4. Filled = BoardOf(n) /\ BoardOf(n).value = n
  BY <1>2, <1>3, BoardType DEF Filled
<1>5. Keep
  BY DEF Try
<1>6. e = End => stack' = stack /\ solutions' = Append(solutions, n)
  BY <1>4, <1>5 DEF Keep
<1>7. e # End => /\ stack' = Append(stack, [board |-> BoardOf(n), at |-> e])
                 /\ solutions' = solutions
  BY <1>4, <1>5 DEF Keep
<1>8. e = End => n \in Completions[given]
  BY <1>2, <1>3, CompletionsListed
<1>9. ASSUME NEW v \in Completions[given]
      PROVE  Reaches(n, v) <=> 0 \in Places(v) /\ v[p] = number
  <2>1. Completion(puzzle, v) /\ (0 \in Places(v) <=> Reaches(w, v) /\ v[p] >= number)
    BY TryHand
  <2>2. Reaches(n, v) <=> Reaches(w, v) /\ v[p] = number
    BY <1>2, <2>1, FillReaches
  <2> QED BY <1>2, <2>1, <2>2, Sizes
<1> QED BY <1>3, <1>4, <1>6, <1>7, <1>8, <1>9

\* A board without an empty cell is a new solution.
LEMMA TryFull ==
  ASSUME Inv, Try, CheckValue(current.board, current.at, number),
         EmptyFrom([current.board.value EXCEPT ![current.at] = number], current.at + 1) = End
  PROVE  SearchExact' /\ EntriesOpen'
<1> DEFINE p == current.at
           n == [current.board.value EXCEPT ![p] = number]
<1>1. pc = "trying" /\ number \in Numbers
  BY InHand DEF Try
<1>2. /\ given' = given /\ current' = current /\ puzzle' = puzzle
      /\ number' = number + 1 /\ (pc' = "trying" <=> number # N) /\ pc' # "asking"
  BY DEF Try, serviceVars, LastTried
<1>3. /\ Completion(puzzle, n) /\ n \in Completions[given]
      /\ stack' = stack /\ solutions' = Append(solutions, n)
  BY TryFit
<1>4. \A v \in Completions[given] : Reaches(n, v) <=> 0 \in Places(v) /\ v[p] = number
  BY TryFit
<1>5. EntriesOpen'
  <2>1. pc' = "trying" => number' \in Numbers
    BY <1>1, <1>2, Sizes DEF Numbers
  <2> QED BY <1>1, <1>2, <1>3, <2>1 DEF Inv, EntriesOpen, OpenBoard
<1>6. ASSUME NEW v \in Completions[given]
      PROVE  Places(v)' = IF v = n THEN Places(v) \ {0} ELSE Places(v)
  <2>1. Completion(puzzle, v)
    BY TryHand
  <2>2. Reaches(n, v) <=> v = n
    BY <1>3, <2>1, FullReaches
  <2>3. \A k : k \in Places(v)' <=> k \in Places(v) /\ ~(k = 0 /\ v[p] = number)
    BY <1>1, <1>2, <1>3, TryHand, PlaceMember, PlaceMemberNext DEF Reaches
  <2>4. 0 \in Places(v) /\ v[p] = number <=> v = n
    BY <1>4, <2>2
  <2>5. CASE v = n
    BY <2>3, <2>4, <2>5
  <2>6. CASE v # n
    BY <2>3, <2>4, <2>6
  <2> QED BY <2>5, <2>6
<1>7. n \notin Range(solutions) /\ Places(n) = {0}
  <2>1. Reaches(n, n)
    BY DEF Reaches
  <2>2. 0 \in Places(n)
    BY <1>3, <1>4, <2>1
  <2>3. IF n \in Range(solutions) THEN Places(n) = {} ELSE \E k \in 0..Len(stack) : Places(n) = {k}
    BY <1>1, <1>3 DEF Inv, SearchExact
  <2> QED BY <2>2, <2>3
<1>8. n \in [Cells -> Numbers]
  BY <1>3 DEF Completion
<1>9. /\ Len(solutions) + 1 \notin DOMAIN solutions
      /\ DOMAIN solutions' = DOMAIN solutions \cup {Len(solutions) + 1}
      /\ solutions'[Len(solutions) + 1] = n
      /\ \A k \in DOMAIN solutions : solutions'[k] = solutions[k]
  BY <1>3, <1>8, Appended DEF Inv, TypeOK
<1>10. \A k \in DOMAIN solutions' : solutions'[k] \in Completions[given]
  BY <1>3, <1>9 DEF Inv, SearchExact
<1>11. \A k \in DOMAIN solutions : solutions[k] # n
  BY <1>7 DEF Range
<1>12. IsInjective(solutions')
  BY <1>9, <1>11 DEF IsInjective, Inv, SearchExact
<1>13. \A v : v \in Range(solutions') <=> v \in Range(solutions) \/ v = n
  BY <1>9 DEF Range
<1>14. ASSUME NEW v \in Completions[given]
       PROVE  IF v \in Range(solutions') THEN Places(v)' = {} ELSE \E k \in 0..Len(stack) : Places(v)' = {k}
  <2>1. CASE v = n
    BY <1>6, <1>7, <1>13, <2>1
  <2>2. CASE v # n
    BY <1>1, <1>6, <1>13, <2>2 DEF Inv, SearchExact
  <2> QED BY <2>1, <2>2
<1>15. IsInjective(solutions)' /\ \A v : v \in Range(solutions)' <=> v \in Range(solutions')
  BY <1>12 DEF IsInjective, Range
<1> QED BY <1>2, <1>3, <1>5, <1>10, <1>14, <1>15 DEF SearchExact

\* Another board is put on the stack.
LEMMA TryPush ==
  ASSUME Inv, Try, CheckValue(current.board, current.at, number),
         EmptyFrom([current.board.value EXCEPT ![current.at] = number], current.at + 1) # End
  PROVE  SearchExact' /\ EntriesOpen'
<1> DEFINE p == current.at
           n == [current.board.value EXCEPT ![p] = number]
           e == EmptyFrom(n, p + 1)
           entry == [board |-> BoardOf(n), at |-> e]
           top == Len(stack) + 1
<1>1. pc = "trying" /\ number \in Numbers
  BY InHand DEF Try
<1>2. /\ given' = given /\ current' = current /\ puzzle' = puzzle
      /\ number' = number + 1 /\ (pc' = "trying" <=> number # N) /\ pc' # "asking"
  BY DEF Try, serviceVars, LastTried
<1>3. /\ e \in Cells /\ OpenBoard(n, e) /\ BoardOf(n) \in Boards /\ BoardOf(n).value = n
      /\ stack' = Append(stack, entry) /\ solutions' = solutions
  BY TryFit
<1>4. \A v \in Completions[given] : Reaches(n, v) <=> 0 \in Places(v) /\ v[p] = number
  BY TryFit
<1>5. /\ stack \in Seq([board : Boards, at : Cells]) /\ entry \in [board : Boards, at : Cells]
  BY <1>3 DEF Inv, TypeOK
<1>6. /\ top \notin DOMAIN stack /\ top \in Nat /\ top > 0
      /\ DOMAIN stack' = DOMAIN stack \cup {top}
      /\ stack'[top] = entry
      /\ \A k \in DOMAIN stack : stack'[k] = stack[k]
      /\ Len(stack') = top
  BY <1>3, <1>5, Appended, AppendProperties
<1>7. EntriesOpen'
  <2>1. pc' = "trying" => number' \in Numbers
    BY <1>1, <1>2, Sizes DEF Numbers
  <2>2. \A k \in DOMAIN stack' : OpenBoard(stack'[k].board.value, stack'[k].at)
    <3>1. OpenBoard(stack'[top].board.value, stack'[top].at)
      BY <1>3, <1>6
    <3>2. \A k \in DOMAIN stack : OpenBoard(stack'[k].board.value, stack'[k].at)
      BY <1>6 DEF Inv, EntriesOpen
    <3> QED BY <1>6, <3>1, <3>2
  <2>3. \A k \in DOMAIN stack' : OpenBoard(stack[k].board.value, stack[k].at)'
    BY <1>2, <2>2 DEF OpenBoard
  <2>4. pc' = "trying" => OpenBoard(current.board.value, current.at)'
    BY <1>1, <1>2 DEF Inv, EntriesOpen, OpenBoard
  <2> QED BY <2>1, <2>3, <2>4 DEF EntriesOpen
<1>8. ASSUME NEW v \in Completions[given]
      PROVE  /\ Places(v)' = IF 0 \in Places(v) /\ v[p] = number THEN (Places(v) \ {0}) \cup {top}
                                                                ELSE Places(v)
  <2>1. \A k \in DOMAIN stack' : Reaches(stack[k].board.value, v)' <=>
                                   IF k = top THEN Reaches(n, v) ELSE Reaches(stack[k].board.value, v)
    <3>1. stack'[top].board.value = n
      BY <1>3, <1>6
    <3>2. \A k \in DOMAIN stack' : k # top => stack'[k] = stack[k] /\ k \in DOMAIN stack
      BY <1>6
    <3> QED BY <3>1, <3>2 DEF Reaches
  <2>2. \A k : k \in Places(v)' <=> \/ k \in DOMAIN stack /\ Reaches(stack[k].board.value, v)
                                    \/ k = top /\ Reaches(n, v)
                                    \/ k = 0 /\ 0 \in Places(v) /\ v[p] # number
    BY <1>6, <2>1, TryHand, PlaceMemberNext
  <2>3. \A k : k # 0 => (k \in Places(v) <=> k \in DOMAIN stack /\ Reaches(stack[k].board.value, v))
    BY PlaceMember
  <2>4. 0 \notin DOMAIN stack /\ top # 0
    BY <1>6, TryHand
  <2>5. CASE 0 \in Places(v) /\ v[p] = number
    <3>1. \A k : k \in Places(v)' <=> k \in (Places(v) \ {0}) \cup {top}
      BY <1>4, <2>2, <2>3, <2>4, <2>5
    <3> QED BY <2>5, <3>1
  <2>6. CASE ~(0 \in Places(v) /\ v[p] = number)
    <3>1. \A k : k \in Places(v)' <=> k \in Places(v)
      BY <1>4, <2>2, <2>3, <2>4, <2>6
    <3> QED BY <2>6, <3>1
  <2> QED BY <2>5, <2>6
<1>9. ASSUME NEW v \in Completions[given]
      PROVE  IF v \in Range(solutions) THEN Places(v)' = {} ELSE \E k \in 0..top : Places(v)' = {k}
  <2>1. IF v \in Range(solutions) THEN Places(v) = {} ELSE \E k \in 0..Len(stack) : Places(v) = {k}
    BY <1>1 DEF Inv, SearchExact
  <2>2. CASE v \in Range(solutions)
    BY <1>8, <2>1, <2>2
  <2>3. CASE v \notin Range(solutions)
    <3>1. PICK k \in 0..Len(stack) : Places(v) = {k}
      BY <2>1, <2>3
    <3>2. k \in 0..top /\ top \in 0..top
      BY <1>5, <1>6, LenProperties
    <3>3. CASE 0 \in Places(v) /\ v[p] = number
      <4>1. Places(v)' = {top}
        BY <1>8, <3>1, <3>3
      <4> QED BY <2>3, <3>2, <4>1
    <3>4. CASE ~(0 \in Places(v) /\ v[p] = number)
      <4>1. Places(v)' = {k}
        BY <1>8, <3>1, <3>4
      <4> QED BY <2>3, <3>2, <4>1
    <3> QED BY <3>3, <3>4
  <2> QED BY <2>2, <2>3
<1> QED BY <1>2, <1>3, <1>6, <1>7, <1>9 DEF Inv, SearchExact, Range, IsInjective

\* A round of the loop over the numbers keeps the search exact.
LEMMA TrySearch ==
  ASSUME Inv, Try
  PROVE  SearchExact' /\ EntriesOpen'
BY TryUnfit, TryFull, TryPush

\* The board taken from the stack is the one in hand, and all its numbers are open.
LEMMA PopSearch ==
  ASSUME Inv, Pop
  PROVE  SearchExact' /\ EntriesOpen'
<1> DEFINE top == Len(stack)
<1>1. /\ pc = "searching" /\ pc' = "trying" /\ number' = 1 /\ stack # <<>>
      /\ current' = Last(stack) /\ stack' = Front(stack)
      /\ solutions' = solutions /\ given' = given /\ puzzle' = puzzle
  BY DEF Pop, serviceVars
<1>2. stack \in Seq([board : Boards, at : Cells])
  BY DEF Inv, TypeOK
<1>3. /\ current' \in [board : Boards, at : Cells]
      /\ top \in DOMAIN stack /\ current' = stack[top]
      /\ DOMAIN stack' = DOMAIN stack \ {top}
      /\ \A k \in DOMAIN stack' : stack'[k] = stack[k]
  BY <1>1, <1>2, Popped
<1>4. EntriesOpen'
  <2>1. 1 \in Numbers
    BY Sizes DEF Numbers
  <2>2. OpenBoard(stack[top].board.value, stack[top].at)
    BY <1>3 DEF Inv, EntriesOpen
  <2>3. \A k \in DOMAIN stack' : OpenBoard(stack'[k].board.value, stack'[k].at)
    BY <1>3 DEF Inv, EntriesOpen
  <2> QED BY <1>1, <1>3, <2>1, <2>2, <2>3 DEF EntriesOpen, OpenBoard
<1>5. DOMAIN stack = 1..top /\ top \in Nat /\ top > 0 /\ DOMAIN stack' = 1..Len(stack')
  BY <1>1, <1>2, EmptySeq, LenProperties, Popped
<1>6. Len(stack') \in Nat
  BY <1>1, <1>2, Popped, LenProperties
<1>7. ASSUME NEW v \in Completions[given]
      PROVE  Places(v)' = IF top \in Places(v) THEN (Places(v) \ {top}) \cup {0} ELSE Places(v)
  <2>1. v[current.at]' >= 1 /\ v[current'.at] >= number'
    <3>1. current'.at \in Cells
      BY <1>3
    <3>2. v \in [Cells -> Numbers]
      BY CompletionsListed DEF Completion, Inv, TypeOK
    <3> QED BY <1>1, <3>1, <3>2 DEF Numbers
  <2>2. \A k : k \in Places(v) <=> k \in DOMAIN stack /\ Reaches(stack[k].board.value, v)
    BY <1>1, PlaceMember
  <2>3. \A k : k \in Places(v)' <=> \/ k \in DOMAIN stack' /\ Reaches(stack'[k].board.value, v)
                                    \/ k = 0 /\ Reaches(current'.board.value, v)
    BY <1>1, <2>1, PlaceMemberNext DEF Reaches
  <2>4. 0 \notin DOMAIN stack
    BY <1>5
  <2>5. CASE top \in Places(v)
    <3>1. \A k : k \in Places(v)' <=> k \in (Places(v) \ {top}) \cup {0}
      BY <1>3, <2>2, <2>3, <2>4, <2>5
    <3> QED BY <2>5, <3>1
  <2>6. CASE top \notin Places(v)
    <3>1. \A k : k \in Places(v)' <=> k \in Places(v)
      BY <1>3, <2>2, <2>3, <2>4, <2>6
    <3> QED BY <2>6, <3>1
  <2> QED BY <2>5, <2>6
<1>8. ASSUME NEW v \in Completions[given]
      PROVE  IF v \in Range(solutions) THEN Places(v)' = {} ELSE \E k \in 0..Len(stack') : Places(v)' = {k}
  <2>1. IF v \in Range(solutions) THEN Places(v) = {} ELSE \E k \in 0..top : Places(v) = {k}
    BY <1>1 DEF Inv, SearchExact
  <2>2. CASE v \in Range(solutions)
    BY <1>7, <2>1, <2>2
  <2>3. CASE v \notin Range(solutions)
    <3>1. PICK k \in 0..top : Places(v) = {k}
      BY <2>1, <2>3
    <3>2. CASE k = top
      <4>1. Places(v)' = {0} /\ 0 \in 0..Len(stack')
        BY <1>6, <1>7, <3>1, <3>2
      <4> QED BY <2>3, <4>1
    <3>3. CASE k # top
      <4>1. Places(v)' = {k}
        BY <1>7, <3>1, <3>3
      <4>2. k \in DOMAIN stack
        BY <1>1, <3>1, PlaceMember
      <4>3. k \in 0..Len(stack')
        BY <1>3, <1>5, <1>6, <3>3, <4>2
      <4> QED BY <2>3, <4>1, <4>3
    <3> QED BY <3>2, <3>3
  <2> QED BY <2>2, <2>3
<1> QED BY <1>1, <1>4, <1>8 DEF Inv, SearchExact, Range, IsInjective

\* The search starts with the puzzle, below which every completion is.
LEMMA LoadSearch ==
  ASSUME Inv, Load
  PROVE  SearchExact' /\ EntriesOpen' /\ PuzzleGiven'
<1> DEFINE e == EmptyFrom(given, 0)
<1>1. pc = "asking" /\ pc' = "searching" /\ toSolver # <<>>
  BY DEF Load
<1>2. toSolver = <<given>> /\ solutions = <<>>
  BY <1>1 DEF Inv, Turns
<1>3. /\ puzzle' = given /\ given' = given /\ solutions' = <<>>
      /\ stack' = <<[board |-> BoardOf(given), at |-> e]>>
  BY <1>1, <1>2 DEF Load, serviceVars
<1>4. given \in Puzzles /\ given \in [Cells -> 0..N] /\ Consistent(given)
      /\ \E p \in Cells : given[p] = 0
  BY PuzzlesAssumption DEF Inv, TypeOK
<1>5. BoardOf(given) \in Boards /\ BoardOf(given).value = given
  BY <1>4, BoardType
<1>6. /\ e \in Cells /\ given[e] = 0
      /\ \A q \in Cells : q < e => given[q] # 0
  <2>1. /\ e \in Cells \cup {End}
        /\ e = End => \A q \in Cells : q >= 0 => given[q] # 0
        /\ e # End => /\ e >= 0 /\ given[e] = 0
                      /\ \A q \in Cells : q >= 0 /\ q < e => given[q] # 0
    BY <1>4, EmptyFromFirst
  <2>2. \A q \in Cells : q >= 0
    BY Sizes
  <2> QED BY <1>4, <2>1, <2>2
<1>7. DOMAIN stack' = {1} /\ stack'[1] = [board |-> BoardOf(given), at |-> e] /\ Len(stack') = 1
  BY <1>3
<1>8. EntriesOpen'
  <2>1. OpenBoard(given, e)'
    BY <1>3, <1>4, <1>6, Sizes DEF OpenBoard
  <2> QED BY <1>1, <1>3, <1>5, <1>7, <2>1 DEF EntriesOpen, OpenBoard
<1>9. ASSUME NEW v \in Completions[given]
      PROVE  Places(v)' = {1}
  <2>1. Reaches(given, v)
    BY <1>4, CompletionsListed DEF Completion, Reaches
  <2>2. \A k : k \in Places(v)' <=> k = 1
    BY <1>1, <1>5, <1>7, <2>1, PlaceMemberNext DEF Reaches
  <2> QED BY <2>2
<1>10. SearchExact'
  <2>1. 1 \in 0..Len(stack')
    BY <1>7
  <2>2. \A v \in Completions[given] : v \notin Range(solutions')
    BY <1>3 DEF Range
  <2> QED BY <1>1, <1>3, <1>9, <2>1, <2>2 DEF SearchExact, IsInjective, Range
<1> QED BY <1>1, <1>3, <1>8, <1>10 DEF PuzzleGiven

\* A step beside the search changes nothing of it.
LEMMA IdleSearch ==
  ASSUME Inv, UNCHANGED <<searchVars, given>>,
         \/ pc' = pc
         \/ pc # "trying" /\ pc' # "trying" /\ pc # "asking"
  PROVE  SearchExact' /\ EntriesOpen' /\ PuzzleGiven'
<1>1. /\ stack' = stack /\ solutions' = solutions /\ given' = given /\ current' = current
      /\ puzzle' = puzzle /\ number' = number
      /\ (pc' = "trying" <=> pc = "trying") /\ (pc' # "asking" => pc # "asking")
  BY DEF searchVars
<1>2. EntriesOpen' /\ PuzzleGiven'
  BY <1>1 DEF Inv, EntriesOpen, OpenBoard, PuzzleGiven
<1>3. ASSUME NEW v PROVE Places(v)' = Places(v)
  BY <1>1 DEF Places, Reaches
<1> QED BY <1>1, <1>2, <1>3 DEF Inv, SearchExact, Range, IsInjective

\* And its types need only be shown for what did change.
LEMMA IdleTypes ==
  ASSUME Inv, UNCHANGED <<searchVars, given>>,
         pc' \in {"asking", "searching", "trying", "filling", "waiting", "done", "crashed"},
         cursor' \in Cells \cup {End}, toService' \in Seq(Commands),
         toSolver' \in Seq([Cells -> 0..N]), field' \in [Cells -> 0..N],
         verdict' \in {"none", "solved", "wrong"}
  PROVE  TypeOK'
<1>1. /\ stack' = stack /\ solutions' = solutions /\ given' = given /\ current' = current
      /\ puzzle' = puzzle /\ number' = number
  BY DEF searchVars
<1>2. \A e \in Range(stack)' : e.board = BoardOf(e.board.value)
  BY <1>1 DEF Inv, TypeOK, Range
<1>3. current'.board = BoardOf(current'.board.value)
  BY <1>1 DEF Inv, TypeOK
<1> QED BY <1>1, <1>2, <1>3 DEF Inv, TypeOK

-----------------------------------------------------------------------------
(* The exchange with the service.                                          *)

\* When the search has ended, the solutions are the completions.
LEMMA Exhausted ==
  ASSUME Inv, pc # "asking", pc # "trying", stack = <<>>
  PROVE  Range(solutions) = Completions[given]
<1>1. \A v : Places(v) = {}
  BY PlaceMember
<1>2. \A v \in Completions[given] : v \in Range(solutions)
  BY <1>1 DEF Inv, SearchExact
<1>3. \A v \in Range(solutions) : v \in Completions[given]
  BY DEF Range, Inv, SearchExact
<1> QED BY <1>2, <1>3

\* The first solution, if there is one, completes the puzzle.
LEMMA FirstSolution ==
  ASSUME Inv, solutions # <<>>
  PROVE  Completion(given, solutions[1]) /\ solutions[1] \in [Cells -> Numbers]
<1>1. 1 \in DOMAIN solutions
  BY EmptySeq, LenProperties DEF Inv, TypeOK
<1>2. solutions[1] \in Completions[given] /\ given \in Puzzles
  BY <1>1 DEF Inv, SearchExact, TypeOK
<1> QED BY <1>2, CompletionsListed DEF Completion

\* What the next empty cell is, seen from the cursor.
LEMMA NextGap ==
  ASSUME Inv, pc = "filling"
  PROVE  LET p == EmptyFrom(puzzle, cursor)
         IN /\ p \in Cells \cup {End} /\ cursor \in Nat
            /\ p # End => given[p] = 0 /\ Expected(p) = Expected(cursor)
                          /\ p + 1 \in Cells \cup {End} /\ p \in Nat
            /\ p = End => solutions # <<>> /\ Expected(cursor) = solutions[1]
<1> DEFINE p == EmptyFrom(puzzle, cursor)
<1>1. puzzle = given /\ given \in Puzzles /\ given \in [Cells -> 0..N] /\ cursor \in Nat
  BY PuzzlesAssumption, Sizes DEF Inv, PuzzleGiven, TypeOK
<1>2. /\ p \in Cells \cup {End}
      /\ p = End => \A q \in Cells : q >= cursor => given[q] # 0
      /\ p # End => /\ p >= cursor /\ given[p] = 0
                    /\ \A q \in Cells : q >= cursor /\ q < p => given[q] # 0
  BY <1>1, EmptyFromFirst
<1>3. ASSUME p # End
      PROVE  Expected(p) = Expected(cursor) /\ p + 1 \in Cells \cup {End} /\ p \in Nat
  <2>1. \A q \in Cells : given[q] = 0 => (q < p <=> q < cursor)
    BY <1>1, <1>2, <1>3, Sizes
  <2>2. p \in Nat /\ p < End
    BY <1>2, <1>3, Sizes
  <2>3. p + 1 \in Cells \cup {End}
    BY <2>2, Sizes
  <2> QED BY <2>1, <2>2, <2>3 DEF Expected
<1>4. ASSUME p = End
      PROVE  solutions # <<>> /\ Expected(cursor) = solutions[1]
  <2>1. solutions # <<>>
    <3>1. solutions = <<>> => cursor = 0
      BY DEF Inv, Turns
    <3>2. \E q \in Cells : given[q] = 0 /\ q >= 0
      BY <1>1, PuzzlesAssumption, Sizes
    <3> QED BY <1>2, <1>4, <3>1, <3>2
  <2>2. Completion(given, solutions[1]) /\ solutions[1] \in [Cells -> Numbers]
    BY <2>1, FirstSolution
  <2>3. \A q \in Cells : given[q] = 0 => q < cursor
    BY <1>1, <1>2, <1>4, Sizes
  <2>4. \A q \in Cells : given[q] # 0 => solutions[1][q] = given[q]
    BY <2>2 DEF Completion
  <2>5. Expected(cursor) = [q \in Cells |-> solutions[1][q]]
    BY <2>3, <2>4 DEF Expected
  <2> QED BY <2>1, <2>2, <2>5
<1> QED BY <1>1, <1>2, <1>3, <1>4

\* A value the service understands brings its board to the next cell.
LEMMA ValueSet ==
  ASSUME Inv, solutions # <<>>, NEW p \in Cells, given[p] = 0
  PROVE  [Expected(p) EXCEPT ![p] = solutions[1][p]] = Expected(p + 1)
<1>1. \A q \in Cells : q < p + 1 <=> q < p \/ q = p
  BY Sizes
<1>2. Expected(p + 1) = [q \in Cells |-> IF q = p THEN solutions[1][p] ELSE Expected(p)[q]]
  BY <1>1 DEF Expected
<1>3. DOMAIN Expected(p) = Cells
  BY DEF Expected
<1>4. [Expected(p) EXCEPT ![p] = solutions[1][p]]
        = [q \in Cells |-> IF q = p THEN solutions[1][p] ELSE Expected(p)[q]]
  BY <1>3
<1> QED BY <1>2, <1>4

-----------------------------------------------------------------------------
(* The invariant.                                                          *)

LEMMA LoadInv == ASSUME Inv, Load PROVE Inv'
<1>1. SearchExact' /\ EntriesOpen' /\ PuzzleGiven'
  BY LoadSearch
<1>2. pc = "asking" /\ pc' = "searching" /\ toSolver # <<>>
  BY DEF Load
<1>3. toSolver = <<given>> /\ toService = <<>> /\ field = given /\ cursor = 0 /\ verdict = "none"
  BY <1>2 DEF Inv, Turns
<1>4. /\ puzzle' = given /\ toSolver' = <<>>
      /\ stack' = <<[board |-> BoardOf(given), at |-> EmptyFrom(given, 0)]>>
      /\ UNCHANGED <<current, number, solutions, cursor, toService, given, field, verdict>>
  BY <1>3 DEF Load, serviceVars
<1>5. given \in [Cells -> 0..N] /\ \E p \in Cells : given[p] = 0
  BY PuzzlesAssumption DEF Inv, TypeOK
<1>6. BoardOf(given) \in Boards /\ BoardOf(given).value = given
  BY <1>5, BoardType
<1>7. EmptyFrom(given, 0) \in Cells
  BY <1>5, EmptyFromFirst, Sizes
<1>8. TypeOK'
  <2>1. stack' \in Seq([board : Boards, at : Cells]) /\ DOMAIN stack' = {1}
        /\ stack'[1].board = BoardOf(given)
    BY <1>4, <1>6, <1>7
  <2>2. \A e \in Range(stack)' : e.board = BoardOf(e.board.value)
    BY <1>6, <2>1 DEF Range
  <2>3. toSolver' \in Seq([Cells -> 0..N])
    BY <1>4
  <2> QED BY <1>2, <1>4, <1>5, <2>1, <2>2, <2>3 DEF Inv, TypeOK
<1>9. Turns'
  BY <1>2, <1>3, <1>4 DEF Turns
<1> QED BY <1>1, <1>8, <1>9 DEF Inv

LEMMA PopInv == ASSUME Inv, Pop PROVE Inv'
<1>1. SearchExact' /\ EntriesOpen'
  BY PopSearch
<1>2. /\ pc = "searching" /\ pc' = "trying" /\ number' = 1 /\ stack # <<>>
      /\ current' = Last(stack) /\ stack' = Front(stack)
      /\ UNCHANGED <<puzzle, solutions, cursor, toService, toSolver, given, field, verdict>>
  BY DEF Pop, serviceVars
<1>3. TypeOK'
  <2>1. stack \in Seq([board : Boards, at : Cells])
        /\ \A k \in DOMAIN stack : stack[k].board = BoardOf(stack[k].board.value)
    BY DEF Inv, TypeOK, Range
  <2>2. /\ current' \in [board : Boards, at : Cells] /\ stack' \in Seq([board : Boards, at : Cells])
        /\ current'.board = BoardOf(current'.board.value)
        /\ \A k \in DOMAIN stack' : stack'[k].board = BoardOf(stack'[k].board.value)
    <3>1. /\ current' \in [board : Boards, at : Cells] /\ Front(stack) \in Seq([board : Boards, at : Cells])
          /\ Len(stack) \in DOMAIN stack /\ current' = stack[Len(stack)]
          /\ DOMAIN Front(stack) \subseteq DOMAIN stack
          /\ \A k \in DOMAIN Front(stack) : Front(stack)[k] = stack[k]
      BY <1>2, <2>1, Popped
    <3>2. current'.board = BoardOf(current'.board.value)
      BY <2>1, <3>1
    <3>3. \A k \in DOMAIN stack' : stack'[k].board = BoardOf(stack'[k].board.value)
      BY <1>2, <2>1, <3>1
    <3> QED BY <1>2, <3>1, <3>2, <3>3
  <2>3. number' \in 1..N + 1
    BY <1>2, Sizes
  <2>4. \A e \in Range(stack)' : e.board = BoardOf(e.board.value)
    BY <2>2 DEF Range
  <2> QED BY <1>2, <2>2, <2>3, <2>4 DEF Inv, TypeOK
<1>4. Turns' /\ PuzzleGiven'
  BY <1>2 DEF Inv, Turns, PuzzleGiven
<1> QED BY <1>1, <1>3, <1>4 DEF Inv

LEMMA TryInv == ASSUME Inv, Try PROVE Inv'
<1> DEFINE p == current.at
           n == [current.board.value EXCEPT ![p] = number]
           e == EmptyFrom(n, p + 1)
           S == [board : Boards, at : Cells]
<1>1. SearchExact' /\ EntriesOpen'
  BY TrySearch
<1>2. /\ pc = "trying" /\ pc' \in {"trying", "searching"} /\ number' = number + 1
      /\ UNCHANGED <<puzzle, current, cursor, toService, toSolver, given, field, verdict>>
  BY DEF Try, serviceVars
<1>3. number \in Numbers
  BY <1>2, InHand
<1>4. stack \in Seq(S) /\ solutions \in Seq([Cells -> Numbers])
      /\ \A k \in DOMAIN stack : stack[k].board = BoardOf(stack[k].board.value)
  BY DEF Inv, TypeOK, Range
<1>5. /\ stack' \in Seq(S) /\ solutions' \in Seq([Cells -> Numbers])
      /\ \A k \in DOMAIN stack' : stack'[k].board = BoardOf(stack'[k].board.value)
  <2>1. CASE ~CheckValue(current.board, p, number)
    BY <1>4, <2>1 DEF Try
  <2>2. CASE CheckValue(current.board, p, number) /\ e = End
    <3>1. /\ Completion(puzzle, n) /\ stack' = stack /\ solutions' = Append(solutions, n)
      BY <2>2, TryFit
    <3>2. n \in [Cells -> Numbers]
      BY <3>1 DEF Completion
    <3> QED BY <1>4, <3>1, <3>2, AppendProperties
  <2>3. CASE CheckValue(current.board, p, number) /\ e # End
    <3> DEFINE entry == [board |-> BoardOf(n), at |-> e]
    <3>1. /\ BoardOf(n) \in Boards /\ BoardOf(n).value = n /\ e \in Cells
          /\ stack' = Append(stack, entry) /\ solutions' = solutions
      BY <2>3, TryFit
    <3>2. entry \in S /\ entry.board = BoardOf(entry.board.value)
      BY <3>1
    <3>3. /\ stack' \in Seq(S)
          /\ DOMAIN stack' = DOMAIN stack \cup {Len(stack) + 1}
          /\ stack'[Len(stack) + 1] = entry
          /\ \A k \in DOMAIN stack : stack'[k] = stack[k]
      BY <1>4, <3>1, <3>2, Appended
    <3>4. \A k \in DOMAIN stack' : stack'[k].board = BoardOf(stack'[k].board.value)
      BY <1>4, <3>2, <3>3
    <3> QED BY <1>4, <3>1, <3>3, <3>4
  <2> QED BY <2>1, <2>2, <2>3
<1>6. TypeOK'
  <2>1. number' \in 1..N + 1
    BY <1>2, <1>3, Sizes DEF Numbers
  <2>2. \A x \in Range(stack)' : x.board = BoardOf(x.board.value)
    BY <1>5 DEF Range
  <2> QED BY <1>2, <1>5, <2>1, <2>2 DEF Inv, TypeOK
<1>7. Turns' /\ PuzzleGiven'
  BY <1>2 DEF Inv, Turns, PuzzleGiven
<1> QED BY <1>1, <1>6, <1>7 DEF Inv

LEMMA EndOfSearchInv == ASSUME Inv, EndOfSearch PROVE Inv'
<1>1. /\ pc = "searching" /\ pc' = "filling"
      /\ UNCHANGED <<searchVars, cursor, toService, toSolver, given, field, verdict>>
  BY DEF EndOfSearch, serviceVars
<1>2. SearchExact' /\ EntriesOpen' /\ PuzzleGiven'
  BY <1>1, IdleSearch
<1>3. TypeOK'
  BY <1>1, IdleTypes DEF Inv, TypeOK
<1>4. field' = Expected(cursor)'
  <2>1. given \in [Cells -> 0..N] /\ field = given /\ cursor = 0
    BY <1>1, PuzzlesAssumption DEF Inv, TypeOK, Turns
  <2>2. \A q \in Cells : ~(q < 0)
    BY Sizes
  <2> QED BY <1>1, <2>1, <2>2 DEF Expected, searchVars
<1>5. Turns'
  BY <1>1, <1>4 DEF Inv, Turns
<1> QED BY <1>2, <1>3, <1>5 DEF Inv

LEMMA SendValueInv == ASSUME Inv, SendValue PROVE Inv'
<1> DEFINE p == EmptyFrom(puzzle, cursor)
           command == [kind |-> "V", at |-> p, value |-> solutions[1][p]]
<1>1. /\ pc = "filling" /\ pc' = "waiting" /\ p # End /\ solutions # <<>>
      /\ toService' = Append(toService, command) /\ cursor' = p + 1
      /\ UNCHANGED <<searchVars, toSolver, given, field, verdict>>
  BY DEF SendValue, serviceVars
<1>2. SearchExact' /\ EntriesOpen' /\ PuzzleGiven'
  BY <1>1, IdleSearch
<1>3. /\ p \in Cells /\ given[p] = 0 /\ Expected(p) = Expected(cursor) /\ p + 1 \in Cells \cup {End}
  BY <1>1, NextGap
<1>4. solutions' = solutions /\ given' = given
  BY <1>1 DEF searchVars
<1>5. toService = <<>> /\ toSolver = <<>> /\ field = Expected(p) /\ verdict = "none"
  BY <1>1, <1>3 DEF Inv, Turns
<1>6. toService' = <<command>>
  BY <1>1, <1>5
<1>7. solutions[1][p] \in 0..N
  BY <1>1, <1>3, FirstSolution, Sizes
<1>8. TypeOK'
  <2>1. toService' \in Seq(Commands)
    BY <1>3, <1>6, <1>7 DEF Commands
  <2> QED BY <1>1, <1>3, <2>1, IdleTypes DEF Inv, TypeOK
<1>9. Turns'
  <2>1. \E q \in Cells : /\ cursor' = q + 1 /\ field' = Expected(q)' /\ given'[q] = 0
                         /\ toService' = <<[kind |-> "V", at |-> q, value |-> solutions'[1][q]]>>
    <3>1. ASSUME NEW q \in Cells PROVE Expected(q)' = Expected(q)
      BY <1>4 DEF Expected
    <3>2. PICK c \in Cells : c = p
      BY <1>3
    <3>3. /\ cursor' = c + 1 /\ given'[c] = 0
          /\ toService' = <<[kind |-> "V", at |-> c, value |-> solutions'[1][c]]>>
      BY <1>1, <1>3, <1>4, <1>6, <3>2
    <3>4. field' = Expected(c)'
      BY <1>1, <1>5, <3>1, <3>2
    <3> QED BY <3>3, <3>4
  <2> QED BY <1>1, <1>4, <1>5, <2>1 DEF Turns
<1> QED BY <1>2, <1>8, <1>9 DEF Inv

LEMMA ReadNothingInv == ASSUME Inv, ReadNothing PROVE Inv'
<1>1. /\ pc = "filling" /\ pc' = "crashed"
      /\ UNCHANGED <<searchVars, cursor, toService, toSolver, given, field, verdict>>
  BY DEF ReadNothing, serviceVars
<1>2. SearchExact' /\ EntriesOpen' /\ PuzzleGiven'
  BY <1>1, IdleSearch
<1>3. TypeOK'
  BY <1>1, IdleTypes DEF Inv, TypeOK
<1>4. Turns'
  BY <1>1 DEF Inv, Turns
<1> QED BY <1>2, <1>3, <1>4 DEF Inv

LEMMA TakeReplyInv == ASSUME Inv, TakeReply PROVE Inv'
<1>1. /\ pc = "waiting" /\ pc' = "filling" /\ toSolver # <<>> /\ toSolver' = <<>>
      /\ UNCHANGED <<searchVars, cursor, toService, given, field, verdict>>
  BY DEF TakeReply, serviceVars
<1>2. SearchExact' /\ EntriesOpen' /\ PuzzleGiven'
  BY <1>1, IdleSearch
<1>3. TypeOK'
  <2>1. toSolver' \in Seq([Cells -> 0..N])
    BY <1>1
  <2> QED BY <1>1, <2>1, IdleTypes DEF Inv, TypeOK
<1>4. solutions # <<>> /\ toService = <<>> /\ field = Expected(cursor) /\ verdict = "none"
  BY <1>1 DEF Inv, Turns
<1>5. Turns'
  BY <1>1, <1>4 DEF Turns, Expected, searchVars
<1> QED BY <1>2, <1>3, <1>5 DEF Inv

LEMMA SendCheckInv == ASSUME Inv, SendCheck PROVE Inv'
<1>1. /\ pc = "filling" /\ pc' = "done" /\ EmptyFrom(puzzle, cursor) = End
      /\ toService' = Append(toService, [kind |-> "C"])
      /\ UNCHANGED <<searchVars, cursor, toSolver, given, field, verdict>>
  BY DEF SendCheck, serviceVars
<1>2. SearchExact' /\ EntriesOpen' /\ PuzzleGiven'
  BY <1>1, IdleSearch
<1>3. toService = <<>> /\ field = Expected(cursor) /\ verdict = "none"
  BY <1>1 DEF Inv, Turns
<1>4. solutions # <<>> /\ Expected(cursor) = solutions[1]
  BY <1>1, NextGap
<1>5. toService' = <<[kind |-> "C"]>>
  BY <1>1, <1>3
<1>6. TypeOK'
  <2>1. toService' \in Seq(Commands)
    BY <1>5 DEF Commands
  <2> QED BY <1>1, <2>1, IdleTypes DEF Inv, TypeOK
<1>7. Turns'
  BY <1>1, <1>3, <1>4, <1>5 DEF Turns, searchVars
<1> QED BY <1>2, <1>6, <1>7 DEF Inv

\* The service keeps to its turn as well, and finds the solution right.
LEMMA ServeInv == ASSUME Inv, Serve PROVE Inv'
<1>1. /\ toService # <<>> /\ toService' = <<>> /\ toSolver' = Append(toSolver, field')
      /\ UNCHANGED <<pc, searchVars, cursor, given>>
      /\ IF Len(toService) = 1 THEN Execute(Head(toService)) ELSE UNCHANGED <<field, verdict>>
  BY DEF Serve
<1>2. SearchExact' /\ EntriesOpen' /\ PuzzleGiven'
  BY <1>1, IdleSearch
<1>3. solutions' = solutions
  BY <1>1 DEF searchVars
<1>4. ASSUME field' \in [Cells -> 0..N], verdict' \in {"none", "solved", "wrong"}
      PROVE  TypeOK' /\ toSolver' # <<>>
  <2>1. toSolver' \in Seq([Cells -> 0..N]) /\ toSolver' # <<>>
    <3>1. toSolver \in Seq([Cells -> 0..N])
      BY DEF Inv, TypeOK
    <3> QED BY <1>1, <1>4, <3>1, AppendProperties
  <2>2. toService' \in Seq(Commands)
    BY <1>1
  <2> QED BY <1>1, <1>4, <2>1, <2>2, IdleTypes DEF Inv, TypeOK
<1>5. CASE pc = "asking"
  <2>1. toService = <<[kind |-> "S"]>> /\ toSolver = <<>> /\ field = given /\ verdict = "none"
        /\ cursor = 0 /\ solutions = <<>> /\ stack = <<>>
    BY <1>1, <1>5 DEF Inv, Turns
  <2>2. field' = given /\ verdict' = "none"
    BY <1>1, <2>1 DEF Execute
  <2>3. given \in [Cells -> 0..N]
    BY PuzzlesAssumption DEF Inv, TypeOK
  <2>4. toSolver' = <<given>>
    BY <1>1, <2>1, <2>2
  <2>5. Turns'
    BY <1>1, <1>5, <2>1, <2>2, <2>4 DEF Turns, searchVars
  <2> QED BY <1>2, <1>4, <2>2, <2>3, <2>5 DEF Inv
<1>6. CASE pc = "waiting"
  <2>1. solutions # <<>> /\ verdict = "none"
    BY <1>6 DEF Inv, Turns
  <2>2. PICK p \in Cells : /\ cursor = p + 1 /\ field = Expected(p) /\ given[p] = 0
                           /\ toService = <<[kind |-> "V", at |-> p, value |-> solutions[1][p]]>>
    BY <1>1, <1>6 DEF Inv, Turns
  <2>3. field' = [field EXCEPT ![p] = solutions[1][p]] /\ verdict' = "none"
    BY <1>1, <2>1, <2>2 DEF Execute
  <2>4. field' = Expected(cursor)
    BY <2>1, <2>2, <2>3, ValueSet
  <2>5. field' \in [Cells -> 0..N]
    BY <2>1, <2>3, FirstSolution, Sizes DEF Inv, TypeOK
  <2>6. Expected(cursor)' = Expected(cursor)
    BY <1>1, <1>3 DEF Expected
  <2>7. TypeOK' /\ toSolver' # <<>>
    BY <1>4, <2>3, <2>5
  <2>8. Turns'
    BY <1>1, <1>3, <1>6, <2>1, <2>3, <2>4, <2>6, <2>7 DEF Turns
  <2> QED BY <1>2, <2>7, <2>8 DEF Inv
<1>7. CASE pc = "done"
  <2>1. toService = <<[kind |-> "C"]>> /\ solutions # <<>> /\ field = solutions[1]
    BY <1>1, <1>7 DEF Inv, Turns
  <2>2. Solved(field)
    <3>1. Completion(given, field) /\ field \in [Cells -> Numbers]
      BY <2>1, FirstSolution
    <3> QED BY <3>1, Sizes DEF Completion, Solved
  <2>3. field' = field /\ verdict' = "solved"
    BY <1>1, <2>1, <2>2 DEF Execute
  <2>4. field' \in [Cells -> 0..N]
    BY <2>3 DEF Inv, TypeOK
  <2>5. Turns'
    BY <1>1, <1>3, <1>7, <2>1, <2>3 DEF Turns
  <2> QED BY <1>2, <1>4, <2>3, <2>4, <2>5 DEF Inv
<1>8. pc \in {"asking", "waiting", "done"}
  BY <1>1 DEF Inv, TypeOK, Turns
<1> QED BY <1>5, <1>6, <1>7, <1>8

LEMMA InitInv == Init => Inv
<1> SUFFICES ASSUME Init PROVE Inv
  OBVIOUS
<1>1. given \in [Cells -> 0..N]
  BY PuzzlesAssumption DEF Init
<1>2. Blank \in [Cells -> 0..N] /\ 0 \in Cells
  <2>1. 0 \in 0..N
    BY Sizes
  <2>2. \E p \in Cells : given[p] = 0
    BY PuzzlesAssumption DEF Init
  <2>3. 0 \in Cells
    BY <2>2, Sizes
  <2> QED BY <2>1, <2>3 DEF Blank
<1>3. BoardOf(Blank) \in Boards /\ BoardOf(Blank).value = Blank
  BY <1>2, BoardType
<1>4. current \in [board : Boards, at : Cells] /\ current.board = BoardOf(current.board.value)
  BY <1>2, <1>3 DEF Init
<1>5. number \in 1..N + 1 /\ cursor \in Cells \cup {End}
  BY <1>2, Sizes DEF Init
<1>6. toService \in Seq(Commands)
  BY DEF Init, Commands
<1>7. stack = <<>> /\ solutions = <<>> /\ DOMAIN stack = {} /\ DOMAIN solutions = {}
  BY DEF Init
<1>8. TypeOK
  <2>1. \A e \in Range(stack) : e.board = BoardOf(e.board.value)
    BY <1>7 DEF Range
  <2>2. stack \in Seq([board : Boards, at : Cells]) /\ solutions \in Seq([Cells -> Numbers])
        /\ toSolver \in Seq([Cells -> 0..N])
    BY EmptySeq DEF Init
  <2> QED BY <1>1, <1>2, <1>4, <1>5, <1>6, <2>1, <2>2 DEF Init, TypeOK
<1>9. EntriesOpen /\ PuzzleGiven /\ SearchExact
  BY <1>7 DEF Init, EntriesOpen, PuzzleGiven, SearchExact, IsInjective
<1>10. Turns
  BY DEF Init, Turns
<1> QED BY <1>8, <1>9, <1>10 DEF Inv

LEMMA StepInv == Inv /\ [Next]_vars => Inv'
<1> SUFFICES ASSUME Inv, [Next]_vars PROVE Inv'
  OBVIOUS
<1>1. CASE Solver
  BY <1>1, LoadInv, PopInv, TryInv, EndOfSearchInv, SendValueInv, ReadNothingInv,
     TakeReplyInv, SendCheckInv DEF Solver
<1>2. CASE Serve
  BY <1>2, ServeInv
<1>3. CASE UNCHANGED vars
  <2>1. /\ UNCHANGED <<pc, searchVars, cursor, toService, toSolver, given, field, verdict>>
    BY <1>3 DEF vars, serviceVars
  <2>2. SearchExact' /\ EntriesOpen' /\ PuzzleGiven'
    BY <2>1, IdleSearch
  <2>3. TypeOK'
    BY <2>1, IdleTypes DEF Inv, TypeOK
  <2>4. Turns'
    BY <2>1 DEF Inv, Turns, Expected, searchVars
  <2> QED BY <2>2, <2>3, <2>4 DEF Inv
<1> QED BY <1>1, <1>2, <1>3 DEF Next

LEMMA Invariance == Spec => []Inv
BY InitInv, StepInv, PTL DEF Spec

-----------------------------------------------------------------------------
(* The theorems.                                                           *)

\* The variables keep their types and the masks of each board stay true of it, for
\* boards of any size (Board::setValue copied with the boards).
THEOREM TypesCorrect == Spec => []TypeOK
<1>1. Inv => TypeOK
  BY DEF Inv
<1> QED BY <1>1, Invariance, PTL

\* The search finds every completion of the puzzle once and nothing else: at each
\* moment one that is not yet found is below exactly one open board.
THEOREM SearchIsExact == Spec => []SearchExact
<1>1. Inv => SearchExact
  BY DEF Inv
<1> QED BY <1>1, Invariance, PTL

\* The search ends with an empty stack, and the solver crashes only without a solution.
Ended ==
  /\ pc \in {"filling", "waiting", "done", "crashed"} => stack = <<>>
  /\ pc = "crashed" => solutions = <<>>

LEMMA EndedHolds == Spec => []Ended
<1>1. Init => Ended
  BY DEF Init, Ended
<1>2. Ended /\ [Next]_vars => Ended'
  <2> SUFFICES ASSUME Ended, [Next]_vars PROVE Ended'
    OBVIOUS
  <2>1. CASE Load \/ Pop \/ Try
    BY <2>1 DEF Ended, Load, Pop, Try
  <2>2. CASE EndOfSearch \/ SendValue \/ ReadNothing \/ TakeReply \/ SendCheck
    BY <2>2 DEF Ended, EndOfSearch, SendValue, ReadNothing, TakeReply, SendCheck, searchVars
  <2>3. CASE Serve \/ UNCHANGED vars
    BY <2>3 DEF Ended, Serve, vars, searchVars
  <2> QED BY <2>1, <2>2, <2>3 DEF Next, Solver
<1> QED BY <1>1, <1>2, PTL DEF Spec

\* The solutions kept when the search has ended.
AllFound == pc \in {"filling", "waiting", "done", "crashed"}
              => Range(solutions) = Completions[given]

\* When the search has ended the solutions are the completions, all of them.
THEOREM SearchFindsAll == Spec => []AllFound
<1>1. Inv /\ Ended => AllFound
  BY Exhausted DEF AllFound, Ended
<1> QED BY <1>1, Invariance, EndedHolds, PTL

\* What becomes of a puzzle.  The solver crashes only for one without a completion, sends
\* values only for one that has some, and when the service says "solved" its board is a
\* completion of the puzzle it gave.  On the way there, what is set on the service's
\* board always belongs to one completion.
OutcomeRight ==
  /\ pc = "crashed" => Completions[given] = {}
  /\ pc \in {"waiting", "done"} => Completions[given] # {}
  /\ verdict = "solved" => field \in Completions[given]
  /\ Completions[given] # {} => \E v \in Completions[given] : Reaches(field, v)

THEOREM OutcomeIsRight == Spec => []OutcomeRight
<1>1. ASSUME Inv, AllFound, Ended, pc = "crashed" PROVE Completions[given] = {}
  BY <1>1 DEF AllFound, Ended, Range
<1>2. ASSUME Inv, solutions # <<>>
      PROVE  /\ solutions[1] \in Completions[given]
             /\ \A q \in Cells : given[q] # 0 => given[q] = solutions[1][q]
  <2>1. 1 \in DOMAIN solutions
    BY <1>2, EmptySeq, LenProperties DEF Inv, TypeOK
  <2>2. solutions[1] \in Completions[given]
    BY <1>2, <2>1 DEF Inv, SearchExact
  <2> QED BY <1>2, <2>2, FirstSolution DEF Completion
<1>3. ASSUME Inv, pc \in {"waiting", "done"} PROVE solutions # <<>>
  BY <1>3 DEF Inv, Turns
<1>4. ASSUME Inv, verdict = "solved" PROVE field \in Completions[given]
  <2>1. pc = "done"
    BY <1>4 DEF Inv, Turns, TypeOK
  <2>2. field = solutions[1] /\ solutions # <<>>
    BY <1>4, <2>1 DEF Inv, Turns
  <2> QED BY <1>2, <1>4, <2>2
<1>5. ASSUME Inv, AllFound, Ended, Completions[given] # {} PROVE \E v \in Completions[given] : Reaches(field, v)
  <2>1. CASE pc \in {"asking", "searching", "trying"}
    <3>1. field = given
      BY <1>5, <2>1 DEF Inv, Turns
    <3>2. PICK v \in Completions[given] : TRUE
      BY <1>5
    <3>3. Completion(given, v)
      BY <1>5, <3>2, CompletionsListed DEF Inv, TypeOK
    <3> QED BY <3>1, <3>2, <3>3 DEF Completion, Reaches
  <2>2. CASE pc \in {"filling", "waiting", "done"}
    <3>1. solutions # <<>>
      <4>1. Range(solutions) # {}
        BY <1>5, <2>2 DEF AllFound
      <4> QED BY <4>1 DEF Range
    <3>2. solutions[1] \in Completions[given] /\ \A q \in Cells : given[q] # 0 => given[q] = solutions[1][q]
      BY <1>2, <1>5, <3>1
    <3>3. field = solutions[1] \/ \E c : field = Expected(c)
      BY <1>5, <2>2 DEF Inv, Turns
    <3>4. \A q \in Cells : field[q] # 0 => field[q] = solutions[1][q]
      BY <3>2, <3>3 DEF Expected
    <3> QED BY <3>2, <3>4 DEF Reaches
  <2>3. CASE pc = "crashed"
    BY <1>1, <1>5, <2>3
  <2> QED BY <1>5, <2>1, <2>2, <2>3 DEF Inv, TypeOK
<1>6. Inv /\ AllFound /\ Ended => OutcomeRight
  BY <1>1, <1>2, <1>3, <1>4, <1>5 DEF OutcomeRight
<1> QED BY <1>6, Invariance, SearchFindsAll, EndedHolds, PTL

\* Solver and service are never both waiting: while the solver waits for a reply, the reply
\* or the command it answers is on its way, and never more than one of them.
TakingTurns ==
  /\ pc \in {"asking", "waiting"} => toSolver # <<>> \/ toService # <<>>
  /\ pc # "done" => toSolver = <<>> \/ toService = <<>>

THEOREM NeverBothWait == Spec => []TakingTurns
<1>1. Inv => TakingTurns
  <2> SUFFICES ASSUME Inv PROVE TakingTurns
    OBVIOUS
  <2>1. <<[kind |-> "S"]>> # <<>> /\ <<given>> # <<>>
    OBVIOUS
  <2>2. \A x : <<x>> # <<>>
    OBVIOUS
  <2> QED BY <2>1, <2>2 DEF Inv, Turns, TypeOK, TakingTurns
<1> QED BY <1>1, Invariance, PTL

\* The check at the end never fails.
THEOREM CheckSucceeds == Spec => []CheckNeverFails
<1>1. Inv => CheckNeverFails
  BY DEF Inv, Turns, TypeOK, CheckNeverFails
<1> QED BY <1>1, Invariance, PTL
=============================================================================
