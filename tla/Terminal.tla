------------------------------ MODULE Terminal ------------------------------
(***************************************************************************)
(* What a text console promises: characters fill a page from left to      *)
(* right, a line that is full continues on the next one, and a page that   *)
(* is full loses its top line.  A full line wraps only when another        *)
(* character comes, so a newline after the last column makes no empty line.*)
(***************************************************************************)
EXTENDS Naturals, Sequences

CONSTANTS Shapes,   \* what a cell can show
          Blank     \* the shape of an empty cell

VARIABLES page,     \* the lines, top first: sequences of shapes
          row, col  \* the cursor: the line it is on and the cells before it

vars == <<page, row, col>>

Off == <<>>
EmptyLine(cols) == [c \in 1 .. cols |-> Blank]

Init == page = Off /\ row = 1 /\ col = 0

\* The console comes up with an empty page of some size.
Open ==
  /\ page = Off /\ page' # Off
  /\ page' = [r \in 1 .. Len(page') |-> EmptyLine(Len(page'[1]))] /\ row' = 1 /\ col' = 0

\* Where the cursor's line is, and what the page looks like, after a line feed.
Fed == IF row < Len(page) THEN page ELSE Append(Tail(page), EmptyLine(Len(page[1])))
FedRow == IF row < Len(page) THEN row + 1 ELSE row

LineFeed ==
  /\ page # Off
  /\ page' = Fed /\ row' = FedRow /\ col' = 0

Put(shape) ==
  /\ page # Off /\ col < Len(page[row])
  /\ page' = [page EXCEPT ![row][col + 1] = shape] /\ col' = col + 1 /\ row' = row

PutWrapped(shape) ==
  /\ page # Off /\ col = Len(page[row])
  /\ page' = [Fed EXCEPT ![FedRow][1] = shape] /\ col' = 1 /\ row' = FedRow

Next ==
  \/ Open \/ LineFeed
  \/ \E shape \in Shapes : Put(shape) \/ PutWrapped(shape)

Spec == Init /\ [][Next]_vars
=============================================================================
