------------------------------ MODULE MCTemplar ------------------------------
\* Programs for TLC: every operator under, over and beside every other; and
\* loops and conditions around pairs of statements that count, branch, loop
\* and jump.
EXTENDS CrusaderTemplarRuns

Operators == UNION { Levels[l] : l \in DOMAIN Levels } \ {">", "<=", ">=", "!="}

Expressions ==
  { Bin(o1, Bin(o2, Num(7), Not(Var("y"))), Bin(o3, Num(-3), Num(2))) :
      o1 \in Operators, o2 \in Operators, o3 \in Operators }

Calls ==
  { Call("max", << Num(2), Call("min", << Num(5), Var("x") >>) >>),
    Call("abs", << Bin("-", Num(1), Num(4)) >>),
    Call("print", << Var("x"), Num(3) >>),
    Call("f", << Num(1) >>),
    Call("print", << Call("f", << Num(1) >>), Num(2) >>) }

Inc(v) == Set(v, Bin("+", Var(v), Num(1)))
Below(v, n) == Bin("<", Var(v), Num(n))

Inner ==
  { Inc("x"),
    Jump("break"), Jump("continue"), Jump("return"),
    If(Below("x", 2), << Jump("break") >>, << Inc("y") >>),
    If(Below("y", 1), << Inc("y") >>, << Jump("continue") >>),
    If(Below("y", 1), << >>, << >>),
    While(Below("y", 2), << Inc("y") >>),
    For("i", Num(2), Num(1), Num(-1), << Inc("x"), If(Below("x", 2), << Jump("break") >>, << >>) >>) }

Bodies == { << s, t >> : s \in Inner, t \in Inner }

Outer(body) ==
  { While(Below("x", 3), << Inc("x") >> \o body),
    Repeat(Var("y"), body),
    Repeat(Num(2), body),
    For("i", Num(1), Num(3), Var("x"), body),
    If(Below("x", 1), body, << Inc("x") >>) }

MCPrograms ==
  { << Set("x", e) >> : e \in Expressions }
  \cup { << Fn("f", "y", << Inc("x") >>), Do(e), Declare("x", e) >> : e \in Calls }
  \cup { << Fn("f", "y", << Inc("x") >>), Fn("g", "y", << >>), Inc("x") >> }
  \cup { << Set("x", Num(3)), While(Var("x"), << Set("x", Bin("-", Var("x"), Num(1))) >>) >> }
  \cup { << o, Inc("y") >> : o \in UNION { Outer(b) : b \in Bodies } }

MCSources ==
  { Source(p, layout, limit) :
      p \in {q \in MCPrograms : IsEnding(q)}, layout \in Layouts, limit \in {1, 4, 9, 17, 24, 200} }
=============================================================================
