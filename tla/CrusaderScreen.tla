--------------------------- MODULE CrusaderScreen ---------------------------
(***************************************************************************)
(* The text area at the left of the screen, one cell a character.  klog    *)
(* and its coloured sisters and vesa_print_char write at the same cursor   *)
(* c_x, c_y, which vesa_clear and ld move too, from any task.  The last    *)
(* column, at 952, can hold the cursor and shows nothing: the drawing      *)
(* routines stop there.                                                    *)
(*                                                                         *)
(* A character of klog is two steps: it is drawn and the cursor advanced,  *)
(* and then the edges are looked at; the timer may strike in between.      *)
(***************************************************************************)
EXTENDS Integers

CONSTANTS
  Cols,   \* 120 columns of 8 pixels, c_x up to 952
  Rows    \* 90 rows, c_y below 720

ASSUME ScreenAssumption == Cols \in Nat /\ Cols >= 2 /\ Rows \in Nat \ {0}

Tasks == {"main", "player"}

VARIABLES
  c_x, c_y,
  cell,      \* what each visible cell shows
  due        \* per task: the edges it has still to look at

scrVars == <<c_x, c_y, cell, due>>

Cells == (0 .. Cols - 2) \X (0 .. Rows - 1)
Blank == [p \in Cells |-> " "]

Settled == [t \in Tasks |-> "no"]

ScrInit == c_x = 0 /\ c_y = 0 /\ cell = Blank /\ due = Settled

\* A character drawn, or a cell blanked, at a place that need not be visible.
Draw(c, x, y, ch) == [p \in Cells |-> IF p = <<x, y>> THEN ch ELSE c[p]]

\* Every routine but vesa_print_char erases the cursor first.
Erased == Draw(cell, c_x, c_y, " ")

\* '\n'
NewLine(t) ==
  /\ c_x' = 0 /\ c_y' = c_y + 1 /\ cell' = Erased
  /\ due' = [due EXCEPT ![t] = "page"]

\* Mutant: the character that is deleted stays on the screen.
BackspaceMutant(t) ==
  /\ due' = [due EXCEPT ![t] = "page"]
  /\ cell' = Erased
  /\ IF c_x >= 1 THEN c_x' = c_x - 1 /\ UNCHANGED c_y
     ELSE IF c_y >= 1 THEN c_y' = c_y - 1 /\ c_x' = Cols - 2
     ELSE UNCHANGED <<c_x, c_y>>

\* '\b': over the left edge it goes to 944, one column short of where the line
\* above was left.
Backspace(t) ==
  /\ due' = [due EXCEPT ![t] = "page"]
  /\ IF c_x >= 1
       THEN c_x' = c_x - 1 /\ UNCHANGED c_y /\ cell' = Draw(Erased, c_x - 1, c_y, " ")
     ELSE IF c_y >= 1
       THEN c_y' = c_y - 1 /\ c_x' = Cols - 2 /\ cell' = Draw(Erased, Cols - 2, c_y - 1, " ")
     ELSE UNCHANGED <<c_x, c_y>> /\ cell' = Erased

\* Any other character, by klog ("klog") or one of the coloured ones ("colour").
Character(t, how, ch) ==
  /\ cell' = Draw(cell, c_x, c_y, ch) /\ c_x' = c_x + 1 /\ UNCHANGED c_y
  /\ due' = [due EXCEPT ![t] = how]

\* Mutant: the line is one column longer.
WrapsMutant(t) == due[t] # "page" /\ c_x > Cols

\* c_x > 952, which is looked at after a character only.
Wraps(t) == due[t] # "page" /\ c_x > Cols - 1

\* c_y >= 720, after the wrap.
Pages(t) == (IF Wraps(t) THEN c_y + 1 ELSE c_y) >= Rows

\* The edges: over the right one to the next line, whose first cell klog
\* blanks; over the lower one to a clear screen.
Settle(t) ==
  /\ due[t] # "no" /\ due' = [due EXCEPT ![t] = "no"]
  /\ IF Pages(t)
       THEN c_x' = 0 /\ c_y' = 0 /\ cell' = Blank
     ELSE IF Wraps(t)
       THEN /\ c_x' = 0 /\ c_y' = c_y + 1
            /\ cell' = IF due[t] = "klog" THEN Draw(cell, 0, c_y + 1, " ") ELSE cell
     ELSE UNCHANGED <<c_x, c_y, cell>>

\* Wraps before it draws, and never looks at the lower edge.
vesa_print_char(ch) ==
  LET over == c_x >= Cols - 1
      x == IF over THEN 0 ELSE c_x
      y == IF over THEN c_y + 1 ELSE c_y
  IN /\ IF ch = "nl" THEN c_x' = 0 /\ c_y' = c_y + 1 /\ cell' = cell
                     ELSE c_x' = x + 1 /\ c_y' = y /\ cell' = Draw(cell, x, y, ch)
     /\ UNCHANGED due

vesa_clear == cell' = Blank /\ c_x' = 0 /\ c_y' = 0 /\ UNCHANGED due

\* cmd_ld moves the cursor down itself, below the rule it has drawn.
MoveDown == c_y' = c_y + 1 /\ UNCHANGED <<c_x, cell, due>>

ScrReset == c_x' = 0 /\ c_y' = 0 /\ cell' = Blank /\ due' = Settled

=============================================================================
