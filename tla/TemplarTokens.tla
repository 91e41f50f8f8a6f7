---------------------------- MODULE TemplarTokens ----------------------------
(***************************************************************************)
(* Templar's tokens, its operators and their values.                       *)
(*                                                                         *)
(* Values are integers.  A variable that was never set is nil, which every *)
(* operation takes for 0; strings, which differ only in what is printed,   *)
(* joined and compared, are left out.                                      *)
(***************************************************************************)
EXTENDS Integers, Sequences

Truth(b) == IF b THEN 1 ELSE 0

\* Division that rounds toward zero, and its remainder; by zero both give 0.
Quotient(a, b) ==
  LET m == IF b = 0 THEN 0
           ELSE (IF a < 0 THEN -a ELSE a) \div (IF b < 0 THEN -b ELSE b)
  IN IF (a < 0) # (b < 0) THEN -m ELSE m

Remainder(a, b) == IF b = 0 THEN 0 ELSE a - b * Quotient(a, b)

Apply(op, a, b) ==
  CASE op = "+"   -> a + b
    [] op = "-"   -> a - b
    [] op = "*"   -> a * b
    [] op = "/"   -> Quotient(a, b)
    [] op = "%"   -> Remainder(a, b)
    [] op = "=="  -> Truth(a = b)
    [] op = "!="  -> Truth(a # b)
    [] op = "<"   -> Truth(a < b)
    [] op = ">"   -> Truth(a > b)
    [] op = "<="  -> Truth(a <= b)
    [] op = ">="  -> Truth(a >= b)
    [] op = "and" -> Truth(a # 0 /\ b # 0)
    [] op = "or"  -> Truth(a # 0 \/ b # 0)

\* Binary operators by level, the loosest first; within a level from the left.
Levels == << {"and", "or"}, {"==", "!=", "<", ">", "<=", ">="}, {"+", "-"}, {"*", "/", "%"} >>

-----------------------------------------------------------------------------
(* Tokens                                                                  *)

\* Of operators and brackets the kind says everything; only "name" has a text,
\* and only "num" a number.
Token(k)  == [k |-> k, t |-> "-", n |-> 0]
Name(t)   == [k |-> "name", t |-> t, n |-> 0]
Number(n) == [k |-> "num", t |-> "-", n |-> n]
Nl        == Token("nl")
=============================================================================
