------------------------- MODULE CrusaderTemplarRuns -------------------------
(***************************************************************************)
(* What the interpreter makes of programs of TemplarLanguage: a source has *)
(* the program it spells beside its tokens, and the variables a run ends   *)
(* with are compared with the program's meaning.                           *)
(***************************************************************************)
EXTENDS CrusaderTemplar, TemplarLanguage

CONSTANT Bound  \* loop bodies a program may run before it counts as endless

ASSUME BoundAssumption == Bound \in Nat

\* A program that ends, in a layout, and with room for `limit` of its tokens.
Source(p, layout, limit) ==
  [program |-> p, written |-> Front(Write(p, layout)), layout |-> layout, limit |-> limit]

IsEnding(p) == Meaning(p, Names, Bound).steps >= 0

\* Its tokens are all there.
Whole == Len(prog.written) <= prog.limit

GluedTokens == Glued(prog.written, prog.layout)

RECURSIVE BreaksRepeat(_, _)
\* A break that leaves a repeat.
BreaksRepeat(block, inside) ==
  \E i \in DOMAIN block :
    LET st == block[i]
    IN CASE st.s = "break" -> inside
         [] st.s = "if"    -> BreaksRepeat(st.yes, inside) \/ BreaksRepeat(st.no, inside)
         [] st.s \in {"while", "repeat", "for"} -> BreaksRepeat(st.body, st.s = "repeat")
         [] OTHER -> FALSE

\* A whole program that ends without a reported error has left its variables
\* as the language means it to, however it is laid out; only break in a
\* repeat, whose body runs once too often, and a minus without a space, which
\* ends the expression before it, are another thing.
NeverSilentlyWrong ==
  /\ mode = "done" /\ Whole /\ ~error
  /\ ~BreaksRepeat(prog.program, FALSE) /\ ~GluedTokens
  => env = Meaning(prog.program, Names, Bound).env

\* Where a word stands in the program.
Places(word) == { i \in DOMAIN tokens : Word(i) = word }

\* A call of what is no builtin.
CallsUnknown ==
  \E i \in 1 .. Len(tokens) - 1 :
    /\ Kind(i) = "name" /\ Kind(i + 1) = "lparen"
    /\ Word(i) \notin Printers \cup DOMAIN Builtins
    /\ i = 1 \/ Word(i - 1) # "fn"

\* A whole program is accepted in every layout, unless it jumps out of a
\* block, which works only if the brace follows at once, or calls a function
\* of its own, or has too many of them, or has a minus without a space, behind
\* which a bracket may be missing.
PlainIsAccepted ==
  /\ Whole /\ ~GluedTokens
  /\ ~CallsUnknown
  /\ \A jump \in {"break", "continue", "return"} : Places(jump) = {}
  /\ Cardinality(Places("fn")) <= MAX_FUNCS
  => ~error

\* The interpreter runs in the shell's task, which comes round (CrusaderTasks).
LiveSpec == Spec /\ WF_vars(Next)

\* A program that ends by its meaning ends in the interpreter too, with its
\* end cut off as well, and the shell gets its prompt back; it may loop for
\* ever only in the arguments of a print one of which fails, or when a minus
\* without a space makes it another program.
Ends ==
  mode = "lex" /\ ~GluedTokens ~>
    \/ mode = "done"
    \/ mode = "stuck" /\ CallsUnknown /\ \E f \in Printers : Places(f) # {}
=============================================================================
