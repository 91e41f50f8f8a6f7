--------------------------- MODULE TemplarLanguage ---------------------------
(***************************************************************************)
(* Templar programs and what they mean: the abstract syntax, the tokens a  *)
(* program is written with, and the values its variables end with.         *)
(*                                                                         *)
(* The interpreter (CrusaderTemplar) has no syntax tree: it evaluates the  *)
(* tokens as it reads them and jumps between them.  This is the reference  *)
(* it is compared with, the usual meaning of the same constructs.          *)
(***************************************************************************)
EXTENDS TemplarTokens

LevelOf(op) == CHOOSE l \in DOMAIN Levels : op \in Levels[l]

-----------------------------------------------------------------------------
(* Abstract syntax.  A block is a sequence of statements.                  *)

Num(n)        == [e |-> "num", n |-> n]
Var(v)        == [e |-> "var", v |-> v]
Bin(op, l, r) == [e |-> "bin", op |-> op, l |-> l, r |-> r]
Not(x)        == [e |-> "not", x |-> x]
Call(f, args) == [e |-> "call", f |-> f, args |-> args]

Set(v, x)             == [s |-> "set", v |-> v, x |-> x]
Declare(v, x)         == [s |-> "var", v |-> v, x |-> x]
If(x, yes, no)        == [s |-> "if", x |-> x, yes |-> yes, no |-> no]
While(x, body)        == [s |-> "while", x |-> x, body |-> body]
Repeat(x, body)       == [s |-> "repeat", x |-> x, body |-> body]
For(v, x, y, z, body) == [s |-> "for", v |-> v, x |-> x, y |-> y, z |-> z, body |-> body]
Jump(s)               == [s |-> s]   \* "break", "continue", "return"
Do(x)                 == [s |-> "do", x |-> x]
Fn(f, param, body)    == [s |-> "fn", f |-> f, param |-> param, body |-> body]

-----------------------------------------------------------------------------
(* Tokens                                                                  *)

RECURSIVE WriteExpr(_, _)
RECURSIVE WriteArgs(_)
\* An expression as an operand at level l, with brackets where it needs them.
WriteExpr(x, l) ==
  CASE x.e = "num" -> << Number(x.n) >>
    [] x.e = "var" -> << Name(x.v) >>
    [] x.e = "not" -> << Token("not") >> \o WriteExpr(x.x, Len(Levels) + 1)
    [] x.e = "bin" ->
         LET o == LevelOf(x.op)
             w == WriteExpr(x.l, o) \o << Token(x.op) >> \o WriteExpr(x.r, o + 1)
         IN IF o < l THEN << Token("lparen") >> \o w \o << Token("rparen") >> ELSE w
    [] x.e = "call" -> << Name(x.f), Token("lparen") >> \o WriteArgs(x.args)
                       \o << Token("rparen") >>

WriteArgs(args) ==
  IF args = << >> THEN << >>
  ELSE WriteExpr(Head(args), 1)
       \o (IF Len(args) = 1 THEN << >> ELSE << Token("comma") >> \o WriteArgs(Tail(args)))

\* Of the Layouts of TemplarLexer: blocks over several lines, the blocks of an if
\* on one line and the others over several, or all on one line.
Breaks(layout, s) ==
  IF layout = "lines" \/ (layout = "short" /\ s # "if") THEN << Nl >> ELSE << >>

RECURSIVE WriteBlock(_, _, _)
WriteStatement(st, layout) ==
  LET nl       == Breaks(layout, st.s)
      expr(x)  == WriteExpr(x, 1)
      body(b)  == << Token("colon"), Token("lbrace") >> \o nl \o WriteBlock(b, nl, layout)
                  \o << Token("rbrace") >>
  IN CASE st.s = "set"    -> << Name(st.v), Token("=") >> \o expr(st.x)
       [] st.s = "var"    -> << Name("var"), Name(st.v), Token("=") >> \o expr(st.x)
       [] st.s = "if"     -> << Name("if") >> \o expr(st.x) \o body(st.yes)
                             \o (IF st.no = << >> THEN << >>
                                 ELSE nl \o << Name("else") >> \o body(st.no))
       [] st.s = "while"  -> << Name("while") >> \o expr(st.x) \o body(st.body)
       [] st.s = "repeat" -> << Name("repeat") >> \o expr(st.x) \o body(st.body)
       [] st.s = "for"    -> << Name("for"), Name(st.v), Name("in") >> \o expr(st.x)
                             \o << Name("to") >> \o expr(st.y)
                             \o << Name("step") >> \o expr(st.z) \o body(st.body)
       [] st.s = "do"     -> expr(st.x)
       [] st.s = "fn"     -> << Name("fn"), Name(st.f) >>
                             \o << Token("lparen"), Name(st.param), Token("rparen") >>
                             \o body(st.body)
       [] OTHER           -> << Name(st.s) >>

WriteBlock(b, nl, layout) ==
  IF b = << >> THEN << >>
  ELSE WriteStatement(Head(b), layout) \o nl \o WriteBlock(Tail(b), nl, layout)

Write(prog, layout) ==
  WriteBlock(prog, Breaks(layout, "top"), layout) \o << Token("eof") >>

-----------------------------------------------------------------------------
(* Meaning.  An outcome is the variables, how the block was left, and the  *)
(* steps that are left of a bound, below zero for a program that goes on.  *)

RECURSIVE Value(_, _)
Value(x, env) ==
  CASE x.e = "num" -> x.n
    [] x.e = "var" -> env[x.v]
    [] x.e = "not" -> Truth(Value(x.x, env) = 0)
    [] x.e = "bin" -> Apply(x.op, Value(x.l, env), Value(x.r, env))
    [] x.e = "call" ->
         LET a == Value(x.args[1], env)
             b == Value(x.args[2], env)
         IN CASE x.f = "int" -> a
              [] x.f = "abs" -> IF a < 0 THEN -a ELSE a
              [] x.f = "min" -> IF a < b THEN a ELSE b
              [] x.f = "max" -> IF a > b THEN a ELSE b
              [] OTHER       -> 0

RECURSIVE Run(_, _)
RECURSIVE Loop(_, _, _, _)

\* The rest of a loop: i is the count of a repeat, the variable of a for, and
\* `to` the last value of either.  A for has its step as a number by then.
Loop(st, o, i, to) ==
  LET by  == IF st.s = "for" THEN st.z.n ELSE 1
      go  == CASE st.s = "while"  -> Value(st.x, o.env) # 0
               [] st.s = "repeat" -> i <= to
               [] st.s = "for"    -> IF by > 0 THEN i <= to ELSE i >= to
      in  == IF st.s = "for" THEN [o EXCEPT !.env[st.v] = i] ELSE o
      out == Run(st.body, [in EXCEPT !.steps = @ - 1])
  IN IF o.steps < 0 \/ ~go THEN o
     ELSE IF out.left = "break" THEN [out EXCEPT !.left = "none"]
     ELSE IF out.left = "return" THEN out
     ELSE Loop(st, [out EXCEPT !.left = "none"], i + by, to)

\* A step of 0 counts by one.
StepOf(st, o) == LET z == Value(st.z, o.env) IN Num(IF z = 0 THEN 1 ELSE z)

Step(st, o) ==
  CASE st.s \in {"set", "var"} -> [o EXCEPT !.env[st.v] = Value(st.x, o.env)]
    [] st.s = "if"     -> Run(IF Value(st.x, o.env) # 0 THEN st.yes ELSE st.no, o)
    [] st.s = "while"  -> Loop(st, o, 0, 0)
    [] st.s = "repeat" -> Loop(st, o, 1, Value(st.x, o.env))
    [] st.s = "for"    -> Loop([st EXCEPT !.z = StepOf(st, o)], o,
                               Value(st.x, o.env), Value(st.y, o.env))
    [] st.s \in {"do", "fn"} -> o
    [] OTHER           -> [o EXCEPT !.left = st.s]

Run(b, o) ==
  IF b = << >> \/ o.left # "none" \/ o.steps < 0 THEN o
  ELSE Run(Tail(b), Step(Head(b), o))

Meaning(prog, vars, bound) ==
  Run(prog, [env |-> [v \in vars |-> 0], left |-> "none", steps |-> bound])
=============================================================================
