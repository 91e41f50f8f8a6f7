--------------------------- MODULE CrusaderTemplar ---------------------------
(***************************************************************************)
(* The Templar interpreter of templar.c.  It has no syntax tree: tok_pos   *)
(* runs over the tokens, a loop jumps back by assigning it, a block that   *)
(* is not taken is skipped by counting braces, and break, continue and     *)
(* return travel outwards as flags through the C functions that run the    *)
(* blocks.  Here each of those C calls is a frame of stk, and one step is  *)
(* one statement or one return into a frame.  An expression is evaluated   *)
(* within the step, as it is in C: it changes nothing but tok_pos and the  *)
(* error flag.                                                             *)
(*                                                                         *)
(* The text that is run is any sequence of tokens as TemplarLexer spells   *)
(* it.  Strings are left out, and with them the builtins str, len, concat, *)
(* numstr, and cursor_x and _y, which read the screen: a text with them is *)
(* not among Sources.  Numbers have no width here.                         *)
(***************************************************************************)
EXTENDS TemplarLexer

CONSTANTS
  Sources,   \* what may be run: the tokens it is written with, its layout, and
             \* what TEMPLAR_MAX_TOKENS - 1 is; it may have more tokens than that
  Names,     \* the variables, no more than TEMPLAR_MAX_VARS
  MAX_FUNCS  \* TEMPLAR_MAX_FUNCS

ASSUME FuncsAssumption == MAX_FUNCS \in Nat
ASSUME SourcesAssumption ==
  \A s \in Sources : s.written \in Seq(Written) /\ s.layout \in Layouts /\ s.limit \in Nat

VARIABLES
  prog,    \* the source
  src,     \* the text; not read again once it is cut into tokens
  tokens,
  tok_pos, \* from 1
  env,     \* the variables
  nfuncs,  \* func_count
  error,
  stk,     \* the C calls that run a block, the innermost first
  mode,    \* "lex": templar_run has begun; "block": at the head of
           \* tpl_exec_block_ex's loop; "test": at the head of a while; "leave":
           \* a block was left with `flag`; "done"; "stuck": in a loop that does
           \* not advance tok_pos
  flag     \* TPL_RET_NONE, _BREAK, _CONT or _RETURN

vars == <<prog, src, tokens, tok_pos, env, nfuncs, error, stk, mode, flag>>

-----------------------------------------------------------------------------
(* Tokens                                                                  *)

Kind(p) == tokens[p].k

Word(p) == IF Kind(p) = "name" THEN tokens[p].t ELSE "-"

\* tpl_advance stays at the end.
Advance(p) == IF Kind(p) = "eof" THEN p ELSE p + 1

\* The first place from p on with a token of these kinds, or of any other kind.
FirstIn(p, kinds) ==
  CHOOSE q \in p .. Len(tokens) : Kind(q) \in kinds /\ \A i \in p .. q - 1 : Kind(i) \notin kinds
FirstNotIn(p, kinds) ==
  CHOOSE q \in p .. Len(tokens) : Kind(q) \notin kinds /\ \A i \in p .. q - 1 : Kind(i) \in kinds

SkipNewlines(p) == FirstNotIn(p, {"nl"})

\* Mutant: a token that matches is not passed.
MatchMutant(p, k) == p

\* tpl_match
Match(p, k) == IF Kind(p) = k THEN Advance(p) ELSE p

Expect(r, k) ==
  IF Kind(r.p) = k THEN [r EXCEPT !.p = Advance(@)] ELSE [r EXCEPT !.err = TRUE]

\* The `: {` before a block.
Header(r) ==
  LET colon == Expect([r EXCEPT !.p = SkipNewlines(@)], "colon")
  IN Expect([colon EXCEPT !.p = SkipNewlines(@)], "lbrace")

\* How many more of the braces from p to q close than open.
Closes(p, q) ==
  Cardinality({ i \in p .. q : Kind(i) = "rbrace" })
  - Cardinality({ i \in p .. q : Kind(i) = "lbrace" })

\* Behind the first of these places; the end, if there is none.
Past(ends) == IF ends = {} THEN Len(tokens) ELSE Min(ends) + 1

\* Mutant: the first closing brace is taken for the right one.
SkipBlockMutant(p) == Past({ q \in p .. Len(tokens) : Kind(q) = "rbrace" })

\* Past the brace that closes a block entered at p, or to the end.
SkipBlock(p) == Past({ q \in p .. Len(tokens) : Closes(p, q) = 1 })

-----------------------------------------------------------------------------
(* Expressions.  A result is a value, the place behind it, the error flag  *)
(* and whether the interpreter got stuck; and of a list of arguments the   *)
(* values.  What is pending at a place is an operand of a level, the rest  *)
(* of its level, the arguments of a print, or the arguments of a builtin   *)
(* behind those that there are already.                                    *)

Results == [v : Int, p : DOMAIN tokens, err : BOOLEAN, stuck : BOOLEAN, args : Seq(Int)]

Result(v, p) == [v |-> v, p |-> p, err |-> FALSE, stuck |-> FALSE, args |-> << >>]

\* The arguments a builtin takes.
Builtins ==
  [cls |-> 1, swap |-> 0, pixel |-> 3, rect |-> 5, line_h |-> 4, line_v |-> 4,
   text |-> 4, print_at |-> 3, circle |-> 4, filled_circle |-> 4, triangle |-> 7,
   sleep |-> 1, int |-> 1, abs |-> 1, min |-> 2, max |-> 2,
   screen_w |-> 0, screen_h |-> 0, set_cursor |-> 2]

Printers == {"print", "print_raw"}

BuiltinValue(name, args) ==
  CASE name = "int"      -> args[1]
    [] name = "abs"      -> IF args[1] < 0 THEN -args[1] ELSE args[1]
    [] name = "min"      -> IF args[1] < args[2] THEN args[1] ELSE args[2]
    [] name = "max"      -> IF args[1] > args[2] THEN args[1] ELSE args[2]
    [] name = "screen_w" -> 1280
    [] name = "screen_h" -> 720
    [] OTHER             -> 0

PRIMARY == Len(Levels) + 1

Operand(l)      == << "operand", l >>
Rest(l)         == << "rest", l >>
Prints          == << "print", 0 >>
ArgsOf(name, n) == << name, n >>

Pending ==
  ({"operand"} \X (1 .. PRIMARY)) \cup ({"rest"} \X (1 .. PRIMARY - 1)) \cup {Prints}
  \cup ((DOMAIN Builtins) \X (0 .. 7))

\* Here f gives, for what is pending and the result so far, the result.
Goes(r) == ~r.err /\ ~r.stuck

\* Arguments of a builtin, n of them to come.  Commas between them may be missing.
Arguments(f, name, n, r) ==
  IF n = 0 THEN r
  ELSE LET x == f[<<Operand(1), r>>]
           y == [x EXCEPT !.p = IF n > 1 THEN Match(@, "comma") ELSE @,
                          !.args = Append(r.args, x.v)]
       IN f[<<ArgsOf(name, n - 1), y>>]

\* print: arguments up to the bracket.  After an error nothing but a comma is
\* passed any more, and any other token keeps the loop where it is.
PrintArguments(f, r) ==
  IF Kind(r.p) \in {"rparen", "eof"} THEN r
  ELSE LET x == f[<<Operand(1), r>>]
           y == [x EXCEPT !.p = Match(@, "comma")]
       IN IF y.p = r.p \/ y.stuck THEN [y EXCEPT !.stuck = TRUE] ELSE f[<<Prints, y>>]

\* tpl_call_builtin: p is behind the opening bracket.  Functions that were
\* declared with fn are not looked for.
CallBuiltin(f, name, p) ==
  IF name \in Printers
  THEN [Expect(f[<<Prints, Result(0, p)>>], "rparen") EXCEPT !.v = 0]
  ELSE IF name \in DOMAIN Builtins
  THEN LET a == f[<<ArgsOf(name, Builtins[name]), Result(0, p)>>]
           b == IF name = "text" /\ Kind(a.p) = "comma"
                THEN f[<<Operand(1), [a EXCEPT !.p = Advance(@)]>>] ELSE a
       IN [Expect(b, "rparen") EXCEPT !.v = BuiltinValue(name, a.args)]
  ELSE [Result(0, Match(FirstIn(p, {"rparen", "eof"}), "rparen")) EXCEPT !.err = TRUE]

\* tpl_primary without an error so far.
Primary(f, p) ==
  LET k    == Kind(p)
      next == Result(0, Advance(p))
  IN CASE k = "num" -> [next EXCEPT !.v = tokens[p].n]
       [] k = "not" -> [f[<<Operand(PRIMARY), next>>] EXCEPT !.v = Truth(@ = 0)]
       [] k = "-"   -> [f[<<Operand(PRIMARY), next>>] EXCEPT !.v = -@]
       [] k = "lparen"   -> Expect(f[<<Operand(1), next>>], "rparen")
       [] k = "name" ->
            IF Kind(Advance(p)) = "lparen" THEN CallBuiltin(f, tokens[p].t, p + 2)
            ELSE [next EXCEPT !.v = IF Word(p) \in Names THEN env[Word(p)] ELSE 0]
       [] OTHER     -> next

\* The operand of level l at r.p; nil at once when there is an error.
Parse(f, l, r) ==
  IF ~Goes(r) THEN [r EXCEPT !.v = 0]
  ELSE IF l = PRIMARY THEN Primary(f, r.p)
  ELSE f[<<Rest(l), f[<<Operand(l + 1), r>>]>>]

\* The loop of tpl_expr, tpl_comparison, tpl_additive and tpl_term.
Climb(f, l, r) ==
  IF ~Goes(r) \/ Kind(r.p) \notin Levels[l] THEN r
  ELSE LET right == f[<<Operand(l + 1), [r EXCEPT !.p = Advance(@)]>>]
       IN f[<<Rest(l), [right EXCEPT !.v = Apply(Kind(r.p), r.v, @)]>>]

Unfold(f, c, r) ==
  CASE c[1] = "operand" -> Parse(f, c[2], r)
    [] c[1] = "rest"    -> Climb(f, c[2], r)
    [] c[1] = "print"   -> PrintArguments(f, r)
    [] OTHER            -> Arguments(f, c[1], c[2], r)

Eval[x \in Pending \X Results] == Unfold(Eval, x[1], x[2])

\* tpl_expr at p.
Expr(p) == Eval[<<Operand(1), [Result(0, p) EXCEPT !.err = error]>>]

\* ... and further at r.
ExprAt(r) == Eval[<<Operand(1), r>>]

-----------------------------------------------------------------------------
(* Statements.  Of tpl_exec_block_ex and tpl_exec_stmt_ex.                 *)

Here == SkipNewlines(tok_pos)

\* A statement may be executed, and none has gone wrong.
Running == mode = "block" /\ ~error /\ Kind(Here) \notin {"eof", "rbrace"}

Assigns == Kind(Here) = "name" /\ Kind(Here + 1) = "=" /\ Word(Here) # "var"

\* The statement that starts with this word.
At(word) == Running /\ Word(Here) = word /\ ~Assigns

Behind(r) == [r EXCEPT !.p = SkipBlock(@)]

\* A statement is over, and what its execution returns is f.
Over(at, f) == \E r \in {at} :
  /\ tok_pos' = r.p
  /\ error' = r.err
  /\ flag' = f
  /\ mode' = IF r.stuck THEN "stuck" ELSE IF f = "none" THEN "block" ELSE "leave"

\* tpl_exec_block_ex is called at r.p, over the frames in `below`.
Enter(at, frame, below) == \E r \in {at} :
  /\ tok_pos' = r.p
  /\ error' = r.err
  /\ stk' = << frame >> \o below
  /\ mode' = IF r.stuck THEN "stuck" ELSE "block"
  /\ UNCHANGED flag

Same == UNCHANGED <<prog, src, tokens>>

\* Where tok_pos is, as a result.
Now == [Result(0, tok_pos) EXCEPT !.err = error]

\* templar_set_var
SetVar(v, x) == env' = [env EXCEPT ![v] = x]

\* A block ends at its brace, at the end of the program, or by an error.
BlockEnd ==
  /\ mode = "block"
  /\ error \/ Kind(Here) \in {"eof", "rbrace"}
  /\ tok_pos' = IF error THEN tok_pos ELSE Here
  /\ flag' = "none" /\ mode' = "leave"
  /\ Same /\ UNCHANGED <<env, nfuncs, error, stk>>

\* var NAME, with or without a value.
ExecVar ==
  /\ At("var")
  /\ LET name == Here + 1
         x == IF Kind(Advance(name)) = "=" THEN Expr(name + 2)
              ELSE [Now EXCEPT !.p = Advance(name)]
     IN IF Kind(name) # "name"
        THEN Over([Now EXCEPT !.p = name, !.err = TRUE], "none") /\ UNCHANGED env
        ELSE /\ Over(x, "none")
             /\ IF x.stuck THEN UNCHANGED env ELSE SetVar(Word(name), x.v)
  /\ Same /\ UNCHANGED <<nfuncs, stk>>

\* NAME = ...: of any name, a keyword too.
ExecAssign ==
  /\ Running /\ Assigns
  /\ LET x == Expr(Here + 2)
     IN /\ Over(x, "none")
        /\ IF x.stuck THEN UNCHANGED env ELSE SetVar(Word(Here), x.v)
  /\ Same /\ UNCHANGED <<nfuncs, stk>>

ExecIf ==
  /\ At("if")
  /\ LET cond  == Header(Expr(Here + 1))
         after == [Behind(cond) EXCEPT !.p = SkipNewlines(@)]
     IN IF cond.v # 0 \/ cond.stuck THEN Enter(cond, [c |-> "then", t |-> Here], stk)
        ELSE IF Word(after.p) = "else"
        THEN Enter(Header([after EXCEPT !.p = Advance(@)]), [c |-> "else", t |-> Here], stk)
        ELSE Over(after, "none") /\ UNCHANGED stk
  /\ Same /\ UNCHANGED <<env, nfuncs>>

ExecWhile ==
  /\ At("while")
  /\ stk' = << [c |-> "while", t |-> Here, cond |-> Here + 1] >> \o stk
  /\ tok_pos' = Here + 1
  /\ mode' = "test"
  /\ Same /\ UNCHANGED <<env, nfuncs, error, flag>>

\* The head of the for (;;) of a while.
Test ==
  /\ mode = "test"
  /\ LET cond == Header(Expr(Head(stk).cond))
     IN IF cond.v = 0 /\ ~cond.stuck
        THEN Over(Behind(cond), "none") /\ stk' = Tail(stk)
        ELSE Enter(cond, Head(stk), Tail(stk))
  /\ Same /\ UNCHANGED <<env, nfuncs>>

ExecRepeat ==
  /\ At("repeat")
  /\ LET cnt == Header(Expr(Here + 1))
     IN IF cnt.v <= 0 \/ cnt.stuck
        THEN Over(IF cnt.stuck THEN cnt ELSE Behind(cnt), "none") /\ UNCHANGED stk
        ELSE Enter(cnt, [c |-> "repeat", t |-> Here, body |-> cnt.p, i |-> 1, cnt |-> cnt.v], stk)
  /\ Same /\ UNCHANGED <<env, nfuncs>>

\* Mutant: the next round begins at the for itself.
ForRoundMutant(f, r, below) ==
  IF IF f.step > 0 THEN f.i <= f.to ELSE f.i >= f.to
  THEN SetVar(f.v, f.i) /\ Enter([r EXCEPT !.p = f.t], f, below)
  ELSE /\ UNCHANGED env
       /\ Over(IF r.err THEN r ELSE Behind([r EXCEPT !.p = f.body]), "none")
       /\ stk' = below

\* One round of a for, or what follows the last one.
ForRound(f, r, below) ==
  IF IF f.step > 0 THEN f.i <= f.to ELSE f.i >= f.to
  THEN /\ SetVar(f.v, f.i)
       /\ Enter([r EXCEPT !.p = f.body], f, below)
  ELSE /\ UNCHANGED env
       /\ Over(IF r.err THEN r ELSE Behind([r EXCEPT !.p = f.body]), "none")
       /\ stk' = below

ExecFor ==
  /\ At("for")
  /\ LET v    == Here + 1
         in   == Advance(v)
         from == Expr(Advance(in))
         to   == ExprAt([from EXCEPT !.p = Advance(@)])
         by   == IF Word(to.p) = "step" THEN ExprAt([to EXCEPT !.p = Advance(@)])
                 ELSE [to EXCEPT !.v = 1]
         body == Header(by)
         wrong(p) == /\ Over([Now EXCEPT !.p = p, !.err = TRUE], "none")
                     /\ UNCHANGED <<env, stk>>
     IN IF Kind(v) # "name" THEN wrong(v)
        ELSE IF Word(in) # "in" THEN wrong(in)
        ELSE IF Word(from.p) # "to" /\ ~from.stuck THEN wrong(from.p)
        ELSE IF body.stuck THEN Over(body, "none") /\ UNCHANGED <<env, stk>>
        ELSE ForRound([c |-> "for", t |-> Here, v |-> Word(v), body |-> body.p, i |-> from.v,
                       to |-> to.v, step |-> IF by.v = 0 THEN 1 ELSE by.v], body, stk)
  /\ Same /\ UNCHANGED nfuncs

ExecReturn ==
  /\ At("return")
  /\ Over(IF Kind(Here + 1) \in {"nl", "rbrace", "eof"} THEN [Now EXCEPT !.p = Here + 1]
          ELSE Expr(Here + 1), "return")
  /\ Same /\ UNCHANGED <<env, nfuncs, stk>>

ExecJump ==
  /\ Running /\ ~Assigns /\ Word(Here) \in {"break", "continue"}
  /\ Over([Now EXCEPT !.p = Here + 1], Word(Here))
  /\ Same /\ UNCHANGED <<env, nfuncs, stk>>

\* Mutant: a name is not passed.
ParamsMutant(r) ==
  [r EXCEPT !.stuck = @ \/ Kind(r.p) \notin {"rparen", "eof"}]

\* A parameter list, to its bracket: names and commas are passed.  At anything
\* else the loop stays.
Params(r) ==
  LET q == FirstNotIn(r.p, {"name", "comma"})
  IN [r EXCEPT !.p = q, !.stuck = Kind(q) \notin {"rparen", "eof"}]

\* Mutant: one function more than the table has entries.
FuncsFullMutant == nfuncs > MAX_FUNCS

FuncsFull == nfuncs >= MAX_FUNCS

\* The body of a function is noted and skipped.
ExecFn ==
  /\ At("fn")
  /\ LET name == Here + 1
         list == Params(Expect([Now EXCEPT !.p = Advance(name)], "lparen"))
         body == Header(Expect(list, "rparen"))
     IN IF Kind(name) # "name" \/ FuncsFull
        THEN Over([Now EXCEPT !.p = name, !.err = TRUE], "none") /\ UNCHANGED nfuncs
        ELSE IF body.stuck THEN Over(body, "none") /\ UNCHANGED nfuncs
        ELSE Over(Behind(body), "none") /\ nfuncs' = nfuncs + 1
  /\ Same /\ UNCHANGED <<env, stk>>

Keywords == {"var", "if", "while", "repeat", "for", "return", "break", "continue", "fn"}

\* Anything else is an expression, whose value is dropped.
ExecExpr ==
  /\ Running /\ ~Assigns /\ Word(Here) \notin Keywords
  /\ Over(Expr(Here), "none")
  /\ Same /\ UNCHANGED <<env, nfuncs, stk>>

-----------------------------------------------------------------------------
(* The block has returned `flag` to the statement that ran it.             *)

Returns(c) == mode = "leave" /\ stk # << >> /\ Head(stk).c = c

Closed == Expect(Now, "rbrace")

ThenReturn ==
  /\ Returns("then")
  /\ LET after == [Closed EXCEPT !.p = SkipNewlines(@)]
     IN Over(IF Word(after.p) = "else" THEN Behind(Header([after EXCEPT !.p = Advance(@)]))
             ELSE after, flag)
  /\ stk' = Tail(stk)
  /\ Same /\ UNCHANGED <<env, nfuncs>>

ElseReturn ==
  /\ Returns("else")
  /\ Over(Closed, flag)
  /\ stk' = Tail(stk)
  /\ Same /\ UNCHANGED <<env, nfuncs>>

WhileReturn ==
  /\ Returns("while")
  /\ IF flag \in {"break", "return"} \/ Closed.err
     THEN Over(Closed, IF flag = "return" THEN flag ELSE "none") /\ stk' = Tail(stk)
     ELSE /\ tok_pos' = Closed.p /\ mode' = "test"
          /\ UNCHANGED <<error, stk, flag>>
  /\ Same /\ UNCHANGED <<env, nfuncs>>

\* The end of a repeat, behind its last body.
RepeatOver(r) ==
  /\ Over(IF r.err THEN Behind(r) ELSE Expect(r, "rbrace"), "none")
  /\ stk' = Tail(stk)

\* After a break the body is run once more before the loop is left.
RepeatReturn ==
  /\ Returns("repeat")
  /\ LET f == Head(stk)
         body == [Now EXCEPT !.p = f.body]
     IN CASE flag = "break"  -> Enter(body, [c |-> "again", t |-> f.t], Tail(stk))
          [] flag = "return" -> Over(Behind(body), flag) /\ stk' = Tail(stk)
          [] OTHER ->
               IF error \/ f.i = f.cnt THEN RepeatOver(Now)
               ELSE Enter(body, [f EXCEPT !.i = @ + 1], Tail(stk))
  /\ Same /\ UNCHANGED <<env, nfuncs>>

\* What the extra run of the body returns is dropped.
AgainReturn ==
  /\ Returns("again")
  /\ RepeatOver(Now)
  /\ Same /\ UNCHANGED <<env, nfuncs>>

ForReturn ==
  /\ Returns("for")
  /\ LET f == Head(stk)
         behind == Behind([Now EXCEPT !.p = f.body])
     IN CASE flag = "return" -> Over(behind, flag) /\ stk' = Tail(stk) /\ UNCHANGED env
          [] flag = "break" \/ (flag # "return" /\ error) ->
               Over(IF error THEN Now ELSE behind, "none") /\ stk' = Tail(stk) /\ UNCHANGED env
          [] OTHER -> ForRound([f EXCEPT !.i = @ + f.step], Now, Tail(stk))
  /\ Same /\ UNCHANGED nfuncs

\* templar_run is back.
Finish ==
  /\ mode = "leave" /\ stk = << >>
  /\ mode' = "done"
  /\ Same /\ UNCHANGED <<tok_pos, env, nfuncs, error, stk, flag>>

-----------------------------------------------------------------------------

\* templar_run of a text.  The shell has cleared the state, so there are no
\* variables from an earlier one.
Init ==
  /\ prog \in Sources
  /\ src = Text(prog.written, prog.layout)
  /\ tokens = << >>
  /\ tok_pos = 1
  /\ env = [v \in Names |-> 0]
  /\ nfuncs = 0
  /\ error = FALSE
  /\ stk = << >>
  /\ mode = "lex"
  /\ flag = "none"

\* templar_run up to the first statement.
Lex ==
  /\ mode = "lex" /\ mode' = "block"
  /\ tokens' = tpl_lexer(src, prog.limit)
  /\ src' = << >>
  /\ UNCHANGED <<prog, tok_pos, env, nfuncs, error, stk, flag>>

Next ==
  \/ Lex
  \/ BlockEnd \/ ExecVar \/ ExecAssign \/ ExecIf \/ ExecWhile \/ Test \/ ExecRepeat \/ ExecFor
  \/ ExecReturn \/ ExecJump \/ ExecFn \/ ExecExpr
  \/ ThenReturn \/ ElseReturn \/ WhileReturn \/ RepeatReturn \/ AgainReturn \/ ForReturn
  \/ Finish

Spec == Init /\ [][Next]_vars

-----------------------------------------------------------------------------
(* Properties                                                              *)

\* tok_pos never leaves the tokens, whatever was cut off: every look at
\* s->tokens[s->tok_pos] reads a token the lexer wrote.  And no function is
\* entered behind the end of funcs.
TypeOK ==
  /\ mode # "lex" => tok_pos \in 1 .. Len(tokens)
  /\ env \in [Names -> Int]
  /\ nfuncs \in 0 .. MAX_FUNCS
  /\ error \in BOOLEAN
  /\ mode \in {"lex", "block", "test", "leave", "done", "stuck"}
  /\ flag \in {"none", "break", "continue", "return"}

\* A block that runs lies inside the block of the statement that runs it: each
\* C call of tpl_exec_stmt_ex that waits for a block began further on than the
\* one it was called from, and tok_pos is behind the last.  However a program
\* loops and jumps, the calls are therefore never nested deeper than it has tokens.
NestedInOrder ==
  /\ \A i \in 1 .. Len(stk) - 1 : stk[i + 1].t < stk[i].t
  /\ stk # << >> => Head(stk).t < tok_pos

\* The tokens are those the text was written with, up to the limit, whatever
\* the spaces, comments and characters of no meaning between them; but two that
\* were written without a space and make one together are read as one: x-1 as x
\* and the number -1.
LexedAsWritten ==
  [][mode = "lex" /\ ~Glued(prog.written, prog.layout) =>
       tokens' = UpTo(prog.limit, prog.written)]_vars
=============================================================================
