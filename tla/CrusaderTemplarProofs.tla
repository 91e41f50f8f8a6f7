------------------------ MODULE CrusaderTemplarProofs ------------------------
(***************************************************************************)
(* The proofs of CrusaderTemplar's TypeOK, NestedInOrder and               *)
(* LexedAsWritten, for every source of any length.                         *)
(***************************************************************************)
EXTENDS CrusaderTemplar, WellFoundedInduction, SequenceTheorems, FiniteSetTheorems, TLAPS

-----------------------------------------------------------------------------
(* Recursion and least elements.                                           *)

\* A set of natural numbers that is not empty has a least one.
LEMMA Least ==
  ASSUME NEW S \in SUBSET Nat, S # {}
  PROVE  Min(S) \in S /\ \A y \in S : Min(S) <= y
<1>1. PICK m \in S : \A y \in S : <<y, m>> \notin OpToRel(<, Nat)
  BY WFMin, NatLessThanWellFounded, Zenon
<1>2. \A y \in S : ~(y < m)
  BY <1>1, Zenon DEF OpToRel
<1>3. \A y \in S : m <= y
  BY <1>2
<1> QED BY <1>3, Zenon DEF Min

\* Step, which is what one unfolding makes of a function, gives a function of F
\* again, and its values come from those at places of lower rank.
Descends(S, F, Step, rank, bound) ==
  /\ bound \in Nat /\ rank \in [S -> Nat] /\ \A x \in S : rank[x] < bound
  /\ F # {} /\ \A f \in F : f = [x \in S |-> f[x]]
  /\ Step \in [F -> F]
  /\ \A f, g \in F : \A x \in S :
       (\A y \in S : rank[y] < rank[x] => f[y] = g[y]) => Step[f][x] = Step[g][x]

\* Then there is the function that the recursion defines.
LEMMA Recursion ==
  ASSUME NEW S, NEW F, NEW Step, NEW rank, NEW bound, Descends(S, F, Step, rank, bound)
  PROVE  \E f \in F : f = Step[f]
<1> USE DEF Descends
<1> DEFINE Good(f, n) == \A x \in S : rank[x] < n => f[x] = Step[f][x]
           Bad == {n \in Nat : \A f \in F : ~Good(f, n)}
<1>1. ASSUME NEW f \in F, NEW n \in Nat, Good(f, n)
      PROVE  Good(Step[f], n + 1)
  <2>1. SUFFICES ASSUME NEW x \in S, rank[x] < n + 1
                 PROVE  Step[f][x] = Step[Step[f]][x]
    BY DEF Good
  <2>2. \A y \in S : rank[y] < rank[x] => f[y] = Step[f][y]
    BY <1>1, <2>1
  <2> QED BY <2>2
<1>2. \A f \in F : Good(f, 0)
  OBVIOUS
<1> HIDE DEF Good
<1>3. Bad = {}
  <2>1. SUFFICES ASSUME Bad # {} PROVE FALSE
    OBVIOUS
  <2> DEFINE m == Min(Bad)
  <2>2. m \in Bad /\ \A y \in Bad : m <= y
    BY <2>1, Least
  <2> HIDE DEF m
  <2>3. m \in Nat /\ m # 0
    BY <1>2, <2>2
  <2>4. m - 1 \in Nat /\ m - 1 \notin Bad
    <3> HIDE DEF Bad
    <3> QED BY <2>2, <2>3
  <2>5. PICK f \in F : Good(f, m - 1)
    BY <2>4
  <2>6. Good(Step[f], m) /\ Step[f] \in F
    BY <1>1, <2>3, <2>4, <2>5
  <2> QED BY <2>2, <2>6
<1>4. PICK f \in F : Good(f, bound)
  BY <1>3
<1>5. \A x \in S : f[x] = Step[f][x]
  BY <1>4 DEF Good
<1>6. Step[f] \in F
  OBVIOUS
<1> QED BY <1>5, <1>6

\* ... and it is the only one.
SameSteps(S, rank, f, g) ==
  /\ rank \in [S -> Nat]
  /\ \A x \in S : (\A y \in S : rank[y] < rank[x] => f[y] = g[y]) => f[x] = g[x]

Agreeing(S, f, g) == \A x \in S : f[x] = g[x]

LEMMA Agree ==
  ASSUME NEW S, NEW rank, NEW f, NEW g, SameSteps(S, rank, f, g)
  PROVE  Agreeing(S, f, g)
<1> DEFINE Bad == { rank[x] : x \in { y \in S : f[y] # g[y] } }
<1>1. SUFFICES ASSUME Bad # {} PROVE FALSE
  BY DEF Agreeing
<1>2. Bad \in SUBSET Nat
  BY DEF SameSteps
<1>3. Min(Bad) \in Bad /\ \A n \in Bad : Min(Bad) <= n
  BY <1>1, <1>2, Least
<1>4. PICK x \in S : f[x] # g[x] /\ rank[x] = Min(Bad)
  BY <1>3
<1>5. \A y \in S : f[y] # g[y] => rank[y] \in Bad
  OBVIOUS
<1> HIDE DEF Bad
<1>6. \A y \in S : rank[y] < rank[x] => f[y] = g[y]
  BY <1>2, <1>3, <1>4, <1>5
<1> QED BY <1>4, <1>6 DEF SameSteps

-----------------------------------------------------------------------------
(* The lexer.                                                              *)

\* What the characters and the tokens are made of.
Kinds ==
  Single \cup {"==", "!=", "<=", ">="} \cup WordTokens
  \cup {"nl", "name", "num", "digits", "eof", "space", "other", "#", "quote", "!"}
Texts  == STRING \cup WordTokens \cup {"-", "x"}
Tokens == [k : Kinds, t : Texts, n : Int]

LEMMA FirstOfIs ==
  /\ DOMAIN FirstOf = {"==", "!=", "<=", ">="}
  /\ FirstOf["=="] = "=" /\ FirstOf["!="] = "!" /\ FirstOf["<="] = "<" /\ FirstOf[">="] = ">"
BY DEF FirstOf

LEMMA LineEndIsFirst ==
  ASSUME NEW text \in Seq(Tokens), NEW p \in 1 .. Len(text)
  PROVE  /\ LineEnd(text, p) \in p .. Len(text) + 1
         /\ LineEnd(text, p) = Len(text) + 1 \/ text[LineEnd(text, p)] = Nl
         /\ \A i \in p .. LineEnd(text, p) - 1 : text[i] # Nl
<1> DEFINE Ends == { q \in p .. Len(text) + 1 : q = Len(text) + 1 \/ text[q] = Nl }
           m == Min(Ends)
<1>1. Len(text) \in Nat
  OBVIOUS
<1>2. m \in Ends /\ \A q \in Ends : m <= q
  <2>1. Len(text) + 1 \in Ends
    BY <1>1
  <2>2. Ends \in SUBSET Nat
    BY <1>1
  <2> QED BY <2>1, <2>2, Least
<1>3. \A i \in p .. m - 1 : text[i] # Nl
  BY <1>1, <1>2
<1>4. \E q \in p .. Len(text) + 1 :
        (q = Len(text) + 1 \/ text[q] = Nl) /\ \A i \in p .. q - 1 : text[i] # Nl
  BY <1>2, <1>3
<1> QED BY <1>4 DEF LineEnd

LEMMA TokenTyped ==
  /\ \A k \in Kinds : Token(k) \in Tokens
  /\ \A t \in Texts : Name(t) \in Tokens
  /\ \A n \in Int : Number(n) \in Tokens /\ Digits(n) \in Tokens
  /\ Nl \in Tokens /\ Space \in Tokens /\ Token("eof") \in Tokens
<1>1. /\ "nl" \in Kinds /\ "name" \in Kinds /\ "num" \in Kinds /\ "digits" \in Kinds
      /\ "space" \in Kinds /\ "eof" \in Kinds /\ "-" \in Texts
  BY DEF Kinds, Texts
<1> QED BY <1>1 DEF Tokens, Token, Name, Number, Digits, Nl, Space

\* What the fields of these are.
LEMMA TokenFields ==
  /\ \A k : Token(k).k = k /\ Token(k).t = "-" /\ Token(k).n = 0
  /\ \A t : Name(t).k = "name" /\ Name(t).t = t /\ Name(t).n = 0
  /\ \A n : Number(n).k = "num" /\ Number(n).n = n /\ Digits(n).k = "digits" /\ Digits(n).n = n
  /\ Nl.k = "nl" /\ Space.k = "space"
BY DEF Token, Name, Number, Digits, Nl, Space

LEMMA ScanSignTyped ==
  ASSUME NEW c \in Tokens, NEW next \in Tokens, NEW p \in Nat
  PROVE  /\ ScanSign(c, next, p).toks \in Seq(Tokens)
         /\ ScanSign(c, next, p).to \in {p + 1, p + 2}
         /\ ScanSign(c, next, p).to = p + 2 => next.k \in {"digits", "="}
<1>1. -next.n \in Int /\ Number(-next.n) \in Tokens
  BY TokenTyped DEF Tokens
<1>2. ASSUME \E k \in DOMAIN FirstOf : FirstOf[k] = c.k
      PROVE  Token(CHOOSE k \in DOMAIN FirstOf : FirstOf[k] = c.k) \in Tokens
  <2>1. \A k \in DOMAIN FirstOf : k \in Kinds
    BY FirstOfIs DEF Kinds
  <2> QED BY <1>2, <2>1, TokenTyped
<1> QED BY <1>1, <1>2 DEF ScanSign, Takes, Passes

LEMMA TakesTyped ==
  ASSUME NEW tok \in Tokens, NEW to
  PROVE  Takes(tok, to).toks \in Seq(Tokens) /\ Takes(tok, to).to = to
BY DEF Takes

LEMMA ScanTyped ==
  ASSUME NEW text \in Seq(Tokens), NEW p \in 1 .. Len(text)
  PROVE  /\ Scan(text, p).toks \in Seq(Tokens)
         /\ Scan(text, p).to \in p + 1 .. Len(text) + 1
<1> DEFINE c == text[p]
           next == IF p < Len(text) THEN text[p + 1] ELSE Token("eof")
<1>1. Len(text) \in Nat /\ p \in Nat /\ c \in Tokens /\ next \in Tokens
  BY TokenTyped
<1>2. next.k \in {"digits", "="} => p < Len(text)
  BY TokenFields
<1>3. Scan(text, p) = CASE c.k = "#"      -> Passes(LineEnd(text, p))
                        [] c = Nl         -> Takes(c, p + 1)
                        [] c.k = "name"   -> Takes(IF c.t \in WordTokens THEN Token(c.t) ELSE c, p + 1)
                        [] c.k = "digits" -> Takes(Number(c.n), p + 1)
                        [] OTHER          -> ScanSign(c, next, p)
  BY DEF Scan
<1>4. c.k # "nl" => LineEnd(text, p) \in p + 1 .. Len(text) + 1
  BY <1>1, LineEndIsFirst, TokenFields
<1> HIDE DEF next, c
<1>5. CASE c.k = "#"
  BY <1>3, <1>4, <1>5, TokenFields DEF Passes
<1>6. CASE c.k # "#" /\ c = Nl
  <2>1. Scan(text, p) = Takes(c, p + 1)
    BY <1>3, <1>6, TokenFields
  <2> QED BY <1>1, <2>1, TakesTyped
<1>7. CASE c.k = "name"
  <2> DEFINE tok == IF c.t \in WordTokens THEN Token(c.t) ELSE c
  <2>1. tok \in Tokens
    BY <1>1, TokenTyped DEF WordTokens, Kinds
  <2>2. Scan(text, p) = Takes(tok, p + 1)
    BY <1>3, <1>7, TokenFields
  <2> QED BY <1>1, <2>1, <2>2, TakesTyped
<1>8. CASE c.k = "digits"
  <2>1. Number(c.n) \in Tokens
    BY <1>1, TokenTyped DEF Tokens
  <2>2. Scan(text, p) = Takes(Number(c.n), p + 1)
    BY <1>3, <1>8, TokenFields
  <2> QED BY <1>1, <2>1, <2>2, TakesTyped
<1>9. CASE c.k \notin {"#", "name", "digits"} /\ c # Nl
  <2>1. Scan(text, p) = ScanSign(c, next, p)
    BY <1>3, <1>9
  <2>2. p + 1 \in p + 1 .. Len(text) + 1 /\ (p < Len(text) => p + 2 \in p + 1 .. Len(text) + 1)
    BY <1>1
  <2> QED BY <1>1, <1>2, <2>1, <2>2, ScanSignTyped
<1> QED BY <1>5, <1>6, <1>7, <1>8, <1>9

\* The recursion of TokensFrom is defined: the lexer advances in every round.
LEMMA TokensFromDefined ==
  ASSUME NEW text \in Seq(Tokens)
  PROVE  /\ TokensFrom(text) \in [1 .. Len(text) + 1 -> Seq(Tokens)]
         /\ TokensFrom(text)[Len(text) + 1] = << >>
         /\ \A p \in 1 .. Len(text) :
              TokensFrom(text)[p] = Scan(text, p).toks \o TokensFrom(text)[Scan(text, p).to]
<1> DEFINE S == 1 .. Len(text) + 1
           F == [S -> Seq(Tokens)]
           Step == [f \in F |-> [p \in S |->
                      IF p > Len(text) THEN << >> ELSE Scan(text, p).toks \o f[Scan(text, p).to]]]
           rank == [p \in S |-> Len(text) + 1 - p]
<1>1. Len(text) \in Nat
  OBVIOUS
<1>2. F # {} /\ Step \in [F -> F]
  <2>1. [p \in S |-> << >>] \in F
    OBVIOUS
  <2>2. ASSUME NEW f \in F, NEW p \in S
        PROVE  (IF p > Len(text) THEN << >> ELSE Scan(text, p).toks \o f[Scan(text, p).to])
                 \in Seq(Tokens)
    <3>1. CASE p \in 1 .. Len(text)
      <4>1. Scan(text, p).toks \in Seq(Tokens) /\ Scan(text, p).to \in S
        BY <1>1, <3>1, ScanTyped
      <4> QED BY <4>1
    <3> QED BY <1>1, <3>1
  <2> QED BY <2>1, <2>2
<1>3. rank \in [S -> Nat] /\ \A p \in S : rank[p] < Len(text) + 1
  BY <1>1
<1>4. \A f, g \in F, p \in S :
        (\A q \in S : rank[q] < rank[p] => f[q] = g[q]) => Step[f][p] = Step[g][p]
  <2>1. SUFFICES ASSUME NEW f \in F, NEW g \in F, NEW p \in S,
                        \A q \in S : rank[q] < rank[p] => f[q] = g[q]
                 PROVE  Step[f][p] = Step[g][p]
    OBVIOUS
  <2>2. CASE p \in 1 .. Len(text)
    <3>1. Scan(text, p).to \in S /\ rank[Scan(text, p).to] < rank[p]
      BY <1>1, <2>2, ScanTyped
    <3> QED BY <2>1, <2>2, <3>1
  <2>3. CASE p > Len(text)
    BY <2>3
  <2> QED BY <1>1, <2>2, <2>3
<1>5. PICK from \in F : from = Step[from]
  <2>1. \A f \in F : f = [x \in S |-> f[x]]
    OBVIOUS
  <2> DEFINE b == Len(text) + 1
  <2>2. b \in Nat /\ \A p \in S : rank[p] < b
    BY <1>1, <1>3
  <2> HIDE DEF S, F, Step, rank, b
  <2>3. Descends(S, F, Step, rank, b)
    BY <1>2, <1>3, <1>4, <2>1, <2>2 DEF Descends
  <2> QED BY <2>3, Recursion, Zenon
<1>6. from = [p \in S |-> IF p > Len(text) THEN << >>
                          ELSE Scan(text, p).toks \o from[Scan(text, p).to]]
  BY <1>5
<1> DEFINE g == TokensFrom(text)
<1>7. g = [p \in S |-> IF p > Len(text) THEN << >> ELSE Scan(text, p).toks \o g[Scan(text, p).to]]
  BY <1>6 DEF TokensFrom
<1> HIDE DEF g
<1>8. Agreeing(S, from, g)
  <2>1. SameSteps(S, rank, from, g)
    <3>1. SUFFICES ASSUME NEW p \in S, \A q \in S : rank[q] < rank[p] => from[q] = g[q]
                   PROVE  from[p] = g[p]
      BY <1>3 DEF SameSteps
    <3>2. CASE p \in 1 .. Len(text)
      <4>1. Scan(text, p).to \in S /\ rank[Scan(text, p).to] < rank[p]
        BY <1>1, <3>2, ScanTyped
      <4> QED BY <1>6, <1>7, <3>1, <3>2, <4>1
    <3>3. CASE p > Len(text)
      BY <1>6, <1>7, <3>3
    <3> QED BY <1>1, <3>2, <3>3
  <2> HIDE DEF S, F, Step, rank
  <2> QED BY <2>1, Agree, Zenon
<1>9. g = from
  <2>1. g = [p \in S |-> g[p]]
    BY <1>7
  <2>2. from = [p \in S |-> from[p]]
    OBVIOUS
  <2> QED BY <1>8, <2>1, <2>2 DEF Agreeing
<1>10. Len(text) + 1 \in S /\ \A p \in 1 .. Len(text) : p \in S /\ ~(p > Len(text))
  BY <1>1
<1>11. \A p \in S : g[p] = IF p > Len(text) THEN << >>
                          ELSE Scan(text, p).toks \o g[Scan(text, p).to]
  BY <1>7
<1>12. g[Len(text) + 1] = << >>
  BY <1>1, <1>10, <1>11
<1>13. \A p \in 1 .. Len(text) : g[p] = Scan(text, p).toks \o g[Scan(text, p).to]
  <2> HIDE DEF S
  <2> QED BY <1>10, <1>11
<1>14. g \in [S -> Seq(Tokens)]
  BY <1>5, <1>9
<1> QED BY <1>12, <1>13, <1>14 DEF g

LEMMA LexerTyped ==
  ASSUME NEW text \in Seq(Tokens), NEW limit \in Nat
  PROVE  /\ tpl_lexer(text, limit) \in Seq(Tokens)
         /\ tpl_lexer(text, limit) # << >>
         /\ tpl_lexer(text, limit)[Len(tpl_lexer(text, limit))].k = "eof"
<1> DEFINE toks == TokensFrom(text)[1]
           n == IF Len(toks) < limit THEN Len(toks) ELSE limit
           cut == SubSeq(toks, 1, n)
<1>1. toks \in Seq(Tokens) /\ Len(toks) \in Nat
  <2>1. 1 \in 1 .. Len(text) + 1
    OBVIOUS
  <2>2. toks \in Seq(Tokens)
    BY <2>1, TokensFromDefined
  <2> QED BY <2>2
<1> HIDE DEF toks
<1>2. cut \in Seq(Tokens) /\ Len(cut) \in Nat
  <2>1. n \in 0 .. Len(toks)
    BY <1>1
  <2>2. \A i \in 1 .. n : toks[i] \in Tokens
    BY <1>1, <2>1
  <2> QED BY <2>1, <2>2, SubSeqProperties
<1>3. << Token("eof") >> \in Seq(Tokens) /\ Token("eof").k = "eof"
  BY TokenTyped, TokenFields
<1>4. tpl_lexer(text, limit) = cut \o << Token("eof") >>
  BY DEF tpl_lexer, UpTo, toks
<1> HIDE DEF cut
<1> QED BY <1>2, <1>3, <1>4

\* FlattenSeq by its recursion: up is the concatenation of the parts so far.
Concatenates(up, parts, n) ==
  /\ FlattenSeq(parts) = up[n] /\ up[1] = parts[1]
  /\ \A i \in 2 .. n : up[i] = up[i - 1] \o parts[i]

LEMMA FlattenDefined ==
  ASSUME NEW T, NEW n \in Nat \ {0}, NEW parts \in [1 .. n -> Seq(T)]
  PROVE  \E up \in [1 .. n -> Seq(T)] : Concatenates(up, parts, n)
<1> DEFINE S == 1 .. n
           F == [S -> Seq(T)]
           Step == [f \in F |-> [i \in S |-> IF i = 1 THEN parts[i] ELSE f[i - 1] \o parts[i]]]
           rank == [i \in S |-> i]
           b == n + 1
<1>1. F # {} /\ Step \in [F -> F]
  <2>1. ASSUME NEW f \in F, NEW i \in S
        PROVE  (IF i = 1 THEN parts[i] ELSE f[i - 1] \o parts[i]) \in Seq(T)
    <3>1. CASE i # 1
      <4>1. i - 1 \in S
        BY <3>1
      <4> QED BY <3>1, <4>1
    <3> QED BY <3>1
  <2>2. parts \in F
    OBVIOUS
  <2> QED BY <2>1, <2>2
<1>2. b \in Nat /\ rank \in [S -> Nat] /\ \A i \in S : rank[i] < b
  OBVIOUS
<1>3. \A f, g \in F : \A i \in S :
        (\A j \in S : rank[j] < rank[i] => f[j] = g[j]) => Step[f][i] = Step[g][i]
  <2>1. SUFFICES ASSUME NEW f \in F, NEW g \in F, NEW i \in S,
                        \A j \in S : rank[j] < rank[i] => f[j] = g[j]
                 PROVE  Step[f][i] = Step[g][i]
    OBVIOUS
  <2>2. i # 1 => i - 1 \in S /\ rank[i - 1] < rank[i]
    OBVIOUS
  <2> QED BY <2>1, <2>2
<1>4. PICK up \in F : up = Step[up]
  <2>1. \A f \in F : f = [i \in S |-> f[i]]
    OBVIOUS
  <2> HIDE DEF S, F, Step, rank, b
  <2>2. Descends(S, F, Step, rank, b)
    BY <1>1, <1>2, <1>3, <2>1 DEF Descends
  <2> QED BY <2>2, Recursion, Zenon
<1>5. Len(parts) = n
  OBVIOUS
<1>6. up = [i \in 1 .. Len(parts) |-> IF i = 1 THEN parts[i] ELSE up[i - 1] \o parts[i]]
  BY <1>4, <1>5
<1> DEFINE flat == CHOOSE flatten : flatten = [i \in 1 .. Len(parts) |->
                     IF i = 1 THEN parts[i] ELSE flatten[i - 1] \o parts[i]]
<1>7. flat = [i \in S |-> IF i = 1 THEN parts[i] ELSE flat[i - 1] \o parts[i]]
  BY <1>5, <1>6
<1>8. FlattenSeq(parts) = flat[n]
  BY <1>5 DEF FlattenSeq
<1> HIDE DEF flat
<1>9. Agreeing(S, up, flat)
  <2>1. SameSteps(S, rank, up, flat)
    <3>1. SUFFICES ASSUME NEW i \in S, \A j \in S : rank[j] < rank[i] => up[j] = flat[j]
                   PROVE  up[i] = flat[i]
      BY <1>2 DEF SameSteps
    <3>2. i # 1 => i - 1 \in S /\ rank[i - 1] < rank[i]
      OBVIOUS
    <3>3. /\ up[i] = IF i = 1 THEN parts[i] ELSE up[i - 1] \o parts[i]
          /\ flat[i] = IF i = 1 THEN parts[i] ELSE flat[i - 1] \o parts[i]
      BY <1>4, <1>7
    <3> QED BY <3>1, <3>2, <3>3
  <2> HIDE DEF S, rank
  <2> QED BY <2>1, Agree, Zenon
<1>10. FlattenSeq(parts) = up[n]
  BY <1>8, <1>9 DEF Agreeing
<1>11. up[1] = parts[1] /\ \A i \in 2 .. n : up[i] = up[i - 1] \o parts[i]
  <2>1. \A i \in S : up[i] = IF i = 1 THEN parts[i] ELSE up[i - 1] \o parts[i]
    BY <1>4
  <2>2. 1 \in S /\ \A i \in 2 .. n : i \in S /\ i # 1
    OBVIOUS
  <2> HIDE DEF S
  <2> QED BY <2>1, <2>2
<1> QED BY <1>10, <1>11 DEF Concatenates

-----------------------------------------------------------------------------
(* A text as it is written.                                                *)

LEMMA WrittenTyped ==
  ASSUME NEW tok \in Written
  PROVE  /\ tok \in Tokens
         /\ \/ tok.k = "num" /\ tok = Number(tok.n)
            \/ tok.k = "name" /\ tok.t \notin WordTokens
            \/ tok.k \in Single \cup DOMAIN FirstOf \cup WordTokens \cup {"nl"} /\ tok = Token(tok.k)
<1>1. CASE tok \in [k : Single \cup DOMAIN FirstOf \cup WordTokens \cup {"nl"}, t : {"-"}, n : {0}]
  <2>1. tok.k \in Single \cup DOMAIN FirstOf \cup WordTokens \cup {"nl"} /\ tok = Token(tok.k)
    BY <1>1 DEF Token
  <2>2. tok.k \in Kinds
    BY <2>1, FirstOfIs DEF Kinds
  <2> QED BY <2>1, <2>2, TokenTyped
<1>2. CASE tok \in [k : {"name"}, t : STRING \ WordTokens, n : {0}]
  <2>1. tok.k = "name" /\ tok.t \in STRING \ WordTokens /\ tok = Name(tok.t)
    BY <1>2 DEF Name
  <2>2. tok.t \in Texts
    BY <2>1 DEF Texts
  <2> QED BY <2>1, <2>2, TokenTyped
<1>3. CASE tok \in [k : {"num"}, t : {"-"}, n : Int]
  <2>1. tok.k = "num" /\ tok.n \in Int /\ tok = Number(tok.n)
    BY <1>3 DEF Number
  <2> QED BY <2>1, TokenTyped
<1> QED BY <1>1, <1>2, <1>3 DEF Written

\* A token is spelled with one character, or with two.
LEMMA SpelledIs ==
  ASSUME NEW tok \in Written
  PROVE  \/ /\ tok.k = "num" /\ tok.n < 0 /\ tok = Number(tok.n)
            /\ Spelled(tok) = << Token("-"), Digits(-tok.n) >>
         \/ /\ tok.k = "num" /\ tok.n >= 0 /\ tok = Number(tok.n)
            /\ Spelled(tok) = << Digits(tok.n) >>
         \/ /\ tok.k \in WordTokens /\ tok = Token(tok.k)
            /\ Spelled(tok) = << Name(tok.k) >>
         \/ /\ tok.k \in DOMAIN FirstOf /\ tok = Token(tok.k)
            /\ Spelled(tok) = << Token(FirstOf[tok.k]), Token("=") >>
         \/ /\ tok.k = "name" /\ tok.t \notin WordTokens
            /\ Spelled(tok) = << tok >>
         \/ /\ tok.k \in Single \cup {"nl"} /\ tok = Token(tok.k)
            /\ Spelled(tok) = << tok >>
<1>1. tok \in Tokens
  BY WrittenTyped
<1>2. CASE tok.k = "num" /\ tok = Number(tok.n)
  <2>1. tok.n \in Int
    BY <1>1 DEF Tokens
  <2>2. Spelled(tok) = IF tok.n < 0 THEN << Token("-"), Digits(-tok.n) >> ELSE << Digits(tok.n) >>
    BY <1>2, FirstOfIs DEF Spelled, WordTokens
  <2> QED BY <1>2, <2>1, <2>2
<1>3. CASE tok.k \in WordTokens /\ tok = Token(tok.k)
  BY <1>3, FirstOfIs DEF Spelled, WordTokens
<1>4. CASE tok.k \in DOMAIN FirstOf /\ tok = Token(tok.k)
  BY <1>4, FirstOfIs DEF Spelled, WordTokens
<1>5. CASE tok.k = "name" /\ tok.t \notin WordTokens
  BY <1>5, FirstOfIs DEF Spelled, WordTokens
<1>6. CASE tok.k \in Single \cup {"nl"} /\ tok = Token(tok.k)
  BY <1>6, FirstOfIs DEF Spelled, WordTokens, Single
<1> QED BY <1>2, <1>3, <1>4, <1>5, <1>6, WrittenTyped

LEMMA SpelledTyped ==
  ASSUME NEW tok \in Written
  PROVE  Spelled(tok) \in Seq(Tokens) /\ Len(Spelled(tok)) \in {1, 2}
<1>1. tok \in Tokens /\ tok.n \in Int
  BY WrittenTyped DEF Tokens
<1>2. /\ Token("-") \in Tokens /\ Token("=") \in Tokens
      /\ Digits(tok.n) \in Tokens /\ Digits(-tok.n) \in Tokens
  <2>1. -tok.n \in Int
    BY <1>1
  <2> QED BY <1>1, <2>1, TokenTyped DEF Kinds, Single
<1>3. tok.k \in WordTokens => Name(tok.k) \in Tokens
  BY TokenTyped DEF Texts
<1>4. tok.k \in DOMAIN FirstOf => Token(FirstOf[tok.k]) \in Tokens
  BY FirstOfIs, TokenTyped DEF Kinds, Single
<1>5. \E a, b \in Tokens : Spelled(tok) \in { << a >>, << a, b >> }
  BY <1>1, <1>2, <1>3, <1>4, SpelledIs, Zenon
<1>6. \A a, b \in Tokens : /\ << a >> \in Seq(Tokens) /\ Len(<< a >>) = 1
                           /\ << a, b >> \in Seq(Tokens) /\ Len(<< a, b >>) = 2
  OBVIOUS
<1> QED BY <1>5, <1>6

LEMMA RemarkIs ==
  /\ Remark \in Seq(Tokens) /\ Len(Remark) = 5
  /\ Remark[1].k = "other" /\ Remark[2].k = "#"
  /\ \A i \in 1 .. 5 : Remark[i] # Nl
<1>1. /\ Token("other") \in Tokens /\ Token("#") \in Tokens /\ Name("x") \in Tokens
      /\ Token("lbrace") \in Tokens /\ Token("quote") \in Tokens
  BY TokenTyped DEF Kinds, Texts, Single
<1>2. /\ Token("other") # Nl /\ Token("#") # Nl /\ Name("x") # Nl
      /\ Token("lbrace") # Nl /\ Token("quote") # Nl
  BY DEF Token, Name, Nl
<1>3. Token("other").k = "other" /\ Token("#").k = "#"
  BY TokenFields
<1> QED BY <1>1, <1>2, <1>3 DEF Remark

\* A piece is a remark or nothing, the token as it is spelled, and a space or nothing.
LEMMA PieceIs ==
  ASSUME NEW written \in Seq(Written), NEW layout \in Layouts, NEW i \in 1 .. Len(written)
  PROVE  \E pre \in {<< >>, Remark}, post \in {<< >>, << Space >>} :
           /\ Piece(written, layout, i) = pre \o Spelled(written[i]) \o post
           /\ pre = Remark => layout = "lines" /\ written[i] = Nl
           /\ post = << >> =>
                /\ layout = "short"
                /\ i < Len(written) => ~Clash(written[i], written[i + 1])
<1> DEFINE w == written[i]
           pre == IF layout = "lines" /\ w = Nl THEN Remark ELSE << >>
           post == IF \/ layout # "short"
                      \/ i < Len(written) /\ Clash(w, written[i + 1])
                   THEN << Space >> ELSE << >>
<1>1. Piece(written, layout, i) = pre \o Spelled(w) \o post
  BY DEF Piece
<1>2. pre \in {<< >>, Remark} /\ post \in {<< >>, << Space >>}
  OBVIOUS
<1>3. Remark # << >> /\ << Space >> # << >>
  BY DEF Remark
<1>4. (pre = Remark => layout = "lines" /\ w = Nl)
      /\ (post = << >> => layout = "short" /\ (i < Len(written) => ~Clash(w, written[i + 1])))
  BY <1>3
<1> HIDE DEF pre, post
<1> QED BY <1>1, <1>2, <1>4

LEMMA PieceTyped ==
  ASSUME NEW written \in Seq(Written), NEW layout \in Layouts, NEW i \in 1 .. Len(written)
  PROVE  /\ Piece(written, layout, i) \in Seq(Tokens)
         /\ Len(Piece(written, layout, i)) \in Nat \ {0}
         /\ layout = "short" => Piece(written, layout, i)[1] = Head(Spelled(written[i]))
<1> DEFINE sp == Spelled(written[i])
<1>1. sp \in Seq(Tokens) /\ Len(sp) \in Nat \ {0}
  <2>1. sp \in Seq(Tokens) /\ Len(sp) \in {1, 2}
    BY SpelledTyped
  <2>2. 1 \in Nat \ {0} /\ 2 \in Nat \ {0}
    OBVIOUS
  <2> HIDE DEF sp
  <2> QED BY <2>1, <2>2
<1>2. Remark \in Seq(Tokens) /\ << Space >> \in Seq(Tokens) /\ << >> \in Seq(Tokens)
  BY RemarkIs, TokenTyped
<1>3. PICK pre \in {<< >>, Remark}, post \in {<< >>, << Space >>} :
        /\ Piece(written, layout, i) = pre \o sp \o post
        /\ pre = Remark => layout = "lines"
  BY PieceIs
<1>4. pre \in Seq(Tokens) /\ post \in Seq(Tokens)
  BY <1>2, <1>3
<1> HIDE DEF sp
<1>5. pre \o sp \in Seq(Tokens) /\ Len(pre \o sp) = Len(pre) + Len(sp)
  BY <1>1, <1>4, ConcatProperties
<1>6. /\ pre \o sp \o post \in Seq(Tokens)
      /\ Len(pre \o sp \o post) = Len(pre) + Len(sp) + Len(post)
      /\ (pre \o sp \o post)[1] = (pre \o sp)[1]
  BY <1>1, <1>4, <1>5, ConcatProperties
<1>7. ASSUME layout = "short"
      PROVE  (pre \o sp)[1] = Head(sp)
  <2>1. pre = << >>
    BY <1>3, <1>7
  <2>2. pre \o sp = sp
    BY <1>1, <2>1, ConcatEmptySeq
  <2> QED BY <1>1, <2>2
<1> QED BY <1>1, <1>3, <1>4, <1>6, <1>7 DEF sp

\* Where the pieces begin in the text.
LEMMA TextIs ==
  ASSUME NEW written \in Seq(Written), NEW layout \in Layouts, written # << >>
  PROVE  /\ Text(written, layout) \in Seq(Tokens)
         /\ \E at \in [1 .. Len(written) + 1 -> Nat \ {0}] :
              /\ at[1] = 1 /\ at[Len(written) + 1] = Len(Text(written, layout)) + 1
              /\ \A i \in 1 .. Len(written) :
                   /\ at[i + 1] = at[i] + Len(Piece(written, layout, i))
                   /\ \A j \in 1 .. Len(Piece(written, layout, i)) :
                        Text(written, layout)[at[i] + j - 1] = Piece(written, layout, i)[j]
<1> DEFINE n == Len(written)
           piece(i) == Piece(written, layout, i)
           parts == [i \in 1 .. n |-> piece(i)]
           text == Text(written, layout)
<1>1. n \in Nat \ {0} /\ DOMAIN written = 1 .. n
  OBVIOUS
<1>2. parts \in [1 .. n -> Seq(Tokens)]
  BY PieceTyped
<1> HIDE DEF n
<1>3. PICK up \in [1 .. n -> Seq(Tokens)] : Concatenates(up, parts, n)
  <2> HIDE DEF parts
  <2> QED BY <1>1, <1>2, FlattenDefined, Zenon
<1> USE DEF Concatenates
<1>4. text = up[n]
  BY <1>1, <1>3 DEF Text
<1> DEFINE at == [i \in 1 .. n + 1 |-> IF i = 1 THEN 1 ELSE Len(up[i - 1]) + 1]
<1>5. \A i \in 1 .. n : up[i] \in Seq(Tokens) /\ Len(up[i]) \in Nat
  BY <1>3
<1>6. at \in [1 .. n + 1 -> Nat \ {0}] /\ at[1] = 1 /\ at[n + 1] = Len(text) + 1
  <2>1. \A i \in 1 .. n + 1 : i # 1 => i - 1 \in 1 .. n
    BY <1>1
  <2>2. at \in [1 .. n + 1 -> Nat \ {0}]
    BY <1>5, <2>1
  <2>3. n + 1 \in 1 .. n + 1 /\ 1 \in 1 .. n + 1 /\ n + 1 # 1 /\ n + 1 - 1 = n
    BY <1>1
  <2>4. at[1] = 1 /\ at[n + 1] = Len(up[n]) + 1
    BY <1>1, <2>3
  <2> HIDE DEF text, at
  <2> QED BY <1>4, <2>2, <2>4
\* Each of the texts so far ends with its last piece, and begins as the next one does.
<1>7. ASSUME NEW i \in 1 .. n
      PROVE  /\ at[i + 1] = at[i] + Len(piece(i))
             /\ \A j \in 1 .. Len(piece(i)) : up[i][at[i] + j - 1] = piece(i)[j]
  <2>1. piece(i) \in Seq(Tokens) /\ parts[i] = piece(i) /\ Len(piece(i)) \in Nat
    BY <1>2
  <2>2. at[i + 1] = Len(up[i]) + 1
    BY <1>1
  <2>3. at[i] = (IF i = 1 THEN 1 ELSE Len(up[i - 1]) + 1)
    BY <1>1
  <2>4. up[i] = IF i = 1 THEN piece(i) ELSE up[i - 1] \o piece(i)
    <3>1. i # 1 => i \in 2 .. n
      BY <1>1
    <3> HIDE DEF piece, parts
    <3> QED BY <1>3, <2>1, <3>1
  <2> HIDE DEF piece, at, parts
  <2>5. CASE i = 1
    BY <2>1, <2>2, <2>3, <2>4, <2>5
  <2>6. CASE i # 1
    <3>1. up[i - 1] \in Seq(Tokens) /\ Len(up[i - 1]) \in Nat
      BY <1>1, <1>5, <2>6
    <3>2. Len(up[i]) = Len(up[i - 1]) + Len(piece(i))
      BY <2>1, <2>4, <2>6, <3>1
    <3>3. \A j \in 1 .. Len(piece(i)) : up[i][Len(up[i - 1]) + j] = piece(i)[j]
      BY <2>1, <2>4, <2>6, <3>1, ConcatProperties
    <3> QED BY <2>1, <2>2, <2>3, <2>6, <3>1, <3>2, <3>3
  <2> QED BY <2>5, <2>6
<1>7a. ASSUME NEW i \in 1 .. n, i < n
      PROVE  \A q \in 1 .. Len(up[i]) : up[i + 1][q] = up[i][q]
    <3>1. i + 1 \in 2 .. n /\ i + 1 \in 1 .. n
      BY <1>1, <1>7a
    <3> DEFINE k == i + 1
    <3>2. k \in 2 .. n /\ k - 1 = i
      BY <1>1, <3>1
    <3> HIDE DEF k, parts
    <3>3. up[k] = up[k - 1] \o parts[k]
      BY <1>3, <3>2, Zenon
    <3>4. up[k] = up[i] \o parts[k]
      BY <3>2, <3>3, Zenon
    <3>5. parts[k] \in Seq(Tokens)
      BY <1>1, <1>2, <3>2
    <3> QED BY <1>5, <3>4, <3>5, ConcatProperties DEF k
<1>8. \A i \in 1 .. n : Len(up[i]) <= Len(up[n]) /\ \A q \in 1 .. Len(up[i]) : up[n][q] = up[i][q]
  <2> DEFINE Begins(i) == Len(up[i]) <= Len(up[n]) /\ \A q \in 1 .. Len(up[i]) : up[n][q] = up[i][q]
             Bad == { n - i : i \in { k \in 1 .. n : ~Begins(k) } }
  <2>1. SUFFICES ASSUME Bad # {} PROVE FALSE
    OBVIOUS
  <2>2. Bad \in SUBSET Nat
    BY <1>1
  <2>3. Min(Bad) \in Bad /\ \A m \in Bad : Min(Bad) <= m
    BY <2>1, <2>2, Least
  <2>4. PICK i \in 1 .. n : ~Begins(i) /\ n - i = Min(Bad)
    BY <2>3
  <2>5. \A k \in 1 .. n : ~Begins(k) => n - k \in Bad
    OBVIOUS
  <2>6. Begins(n)
    BY <1>1, <1>5
  <2> HIDE DEF Bad
  <2>7. i < n /\ i + 1 \in 1 .. n
    <3> HIDE DEF Begins
    <3> QED BY <1>1, <2>4, <2>6
  <2>8. Begins(i + 1)
    <3> HIDE DEF Begins
    <3> QED BY <1>1, <2>3, <2>4, <2>5, <2>7
  <2>9. Len(up[i]) <= Len(up[i + 1]) /\ \A q \in 1 .. Len(up[i]) : up[i + 1][q] = up[i][q]
    <3>1. at[i + 1] = Len(up[i]) + 1 /\ at[i + 1 + 1] = Len(up[i + 1]) + 1
      BY <1>1, <2>7
    <3>2. Len(piece(i + 1)) \in Nat
      BY <1>2, <2>7
    <3> HIDE DEF at, piece
    <3> QED BY <1>5, <1>7, <1>7a, <2>7, <3>1, <3>2
  <2> QED BY <1>5, <2>4, <2>7, <2>8, <2>9
<1>9. ASSUME NEW i \in 1 .. n, NEW j \in 1 .. Len(piece(i))
      PROVE  text[at[i] + j - 1] = piece(i)[j]
  <2>1. at[i] \in Nat \ {0} /\ at[i + 1] = at[i] + Len(piece(i)) /\ Len(piece(i)) \in Nat
    <3>1. piece(i) \in Seq(Tokens) /\ i \in 1 .. n + 1
      BY <1>1, <1>2
    <3>2. at[i + 1] = at[i] + Len(piece(i))
      BY <1>7
    <3> HIDE DEF at, piece
    <3> QED BY <1>6, <3>1, <3>2
  <2>2. at[i + 1] = Len(up[i]) + 1
    BY <1>1
  <2> HIDE DEF at, piece, text
  <2>3. at[i] + j - 1 \in 1 .. Len(up[i])
    BY <1>5, <2>1, <2>2
  <2> QED BY <1>4, <1>7, <1>8, <2>3
<1>10. text \in Seq(Tokens)
  BY <1>1, <1>4, <1>5
<1> HIDE DEF at, piece, text
<1> QED BY <1>6, <1>7, <1>9, <1>10 DEF n, piece, text

-----------------------------------------------------------------------------
(* The lexer reads a text as it was written.                               *)

CharAt(text, p) == IF p <= Len(text) THEN text[p] ELSE Token("eof")

\* Nothing behind a token makes it another one.
Apart(tok, next) ==
  /\ tok.k = "-" => next.k # "digits"
  /\ tok.k \in {"=", "<", ">"} => next.k # "="

LEMMA ScanIs ==
  ASSUME NEW text \in Seq(Tokens), NEW p \in 1 .. Len(text), NEW c, c = text[p]
  PROVE  /\ c = Nl => Scan(text, p) = Takes(c, p + 1)
         /\ c.k = "name" => Scan(text, p) = Takes(IF c.t \in WordTokens THEN Token(c.t) ELSE c, p + 1)
         /\ c.k = "digits" => Scan(text, p) = Takes(Number(c.n), p + 1)
         /\ c.k = "#" => Scan(text, p) = Passes(LineEnd(text, p))
         /\ c # Nl /\ c.k \notin {"#", "name", "digits"} =>
              Scan(text, p) = ScanSign(c, CharAt(text, p + 1), p)
<1>1. (IF p < Len(text) THEN text[p + 1] ELSE Token("eof")) = CharAt(text, p + 1)
  BY DEF CharAt
<1>2. Scan(text, p) = CASE c.k = "#"      -> Passes(LineEnd(text, p))
                        [] c = Nl         -> Takes(c, p + 1)
                        [] c.k = "name"   -> Takes(IF c.t \in WordTokens THEN Token(c.t) ELSE c, p + 1)
                        [] c.k = "digits" -> Takes(Number(c.n), p + 1)
                        [] OTHER          -> ScanSign(c, CharAt(text, p + 1), p)
  BY <1>1 DEF Scan
<1>3. c = Nl => c.k = "nl"
  BY TokenFields
<1> QED BY <1>2, <1>3

LEMMA ScanSpelled ==
  ASSUME NEW text \in Seq(Tokens), NEW tok \in Written, NEW p \in 1 .. Len(text),
         p + Len(Spelled(tok)) <= Len(text) + 1,
         \A j \in 1 .. Len(Spelled(tok)) : text[p + j - 1] = Spelled(tok)[j],
         Apart(tok, CharAt(text, p + Len(Spelled(tok))))
  PROVE  Scan(text, p) = Takes(tok, p + Len(Spelled(tok)))
<1> DEFINE c == text[p]
           next == CharAt(text, p + 1)
<1>1. tok \in Tokens /\ tok.n \in Int /\ Len(text) \in Nat /\ Len(Spelled(tok)) \in {1, 2}
  BY WrittenTyped, SpelledTyped DEF Tokens
<1>2. c = Spelled(tok)[1]
  BY <1>1
<1>3. Len(Spelled(tok)) = 2 => next = Spelled(tok)[2]
  <2>1. Len(Spelled(tok)) = 2 => p + 1 <= Len(text) /\ text[p + 2 - 1] = Spelled(tok)[2] /\ p + 2 - 1 = p + 1
    BY <1>1
  <2> QED BY <2>1 DEF CharAt
<1>4. Len(Spelled(tok)) = 1 => Apart(tok, next)
  BY <1>1
<1>5. \A a, b : << a >>[1] = a /\ << a, b >>[1] = a /\ << a, b >>[2] = b
                /\ Len(<< a >>) = 1 /\ Len(<< a, b >>) = 2
  OBVIOUS
<1> HIDE DEF c, next
<1>6. c # Nl /\ c.k \notin {"#", "name", "digits"} => Scan(text, p) = ScanSign(c, next, p)
  BY ScanIs DEF c, next
<1>7. CASE /\ tok.k = "num" /\ tok.n < 0 /\ tok = Number(tok.n)
           /\ Spelled(tok) = << Token("-"), Digits(-tok.n) >>
  <2>1. c = Token("-") /\ next = Digits(-tok.n) /\ Len(Spelled(tok)) = 2
    <3>1. Len(Spelled(tok)) = 2
      BY <1>5, <1>7, Zenon
    <3>2. next = Spelled(tok)[2]
      BY <1>3, <3>1
    <3> QED BY <1>2, <1>7, <3>1, <3>2
  <2>2. c.k = "-" /\ next.k = "digits" /\ next.n = -tok.n /\ c # Nl
    BY <2>1, TokenFields
  <2>3. -(-tok.n) = tok.n
    BY <1>1
  <2> QED BY <1>6, <1>7, <2>1, <2>2, <2>3 DEF ScanSign
<1>8. CASE /\ tok.k = "num" /\ tok.n >= 0 /\ tok = Number(tok.n)
           /\ Spelled(tok) = << Digits(tok.n) >>
  <2>1. c = Digits(tok.n) /\ Len(Spelled(tok)) = 1
    BY <1>2, <1>5, <1>8, Zenon
  <2>2. c.k = "digits" /\ c.n = tok.n
    BY <2>1, TokenFields
  <2> QED BY <1>8, <2>1, <2>2, ScanIs DEF c
<1>9. CASE tok.k \in WordTokens /\ tok = Token(tok.k) /\ Spelled(tok) = << Name(tok.k) >>
  <2>1. c = Name(tok.k) /\ Len(Spelled(tok)) = 1
    BY <1>2, <1>5, <1>9, Zenon
  <2>2. c.k = "name" /\ c.t = tok.k
    BY <2>1, TokenFields
  <2> QED BY <1>9, <2>1, <2>2, ScanIs DEF c
<1>10. CASE /\ tok.k \in DOMAIN FirstOf /\ tok = Token(tok.k)
            /\ Spelled(tok) = << Token(FirstOf[tok.k]), Token("=") >>
  <2>1. c = Token(FirstOf[tok.k]) /\ next = Token("=") /\ Len(Spelled(tok)) = 2
    <3>1. Len(Spelled(tok)) = 2
      BY <1>5, <1>10, Zenon
    <3>2. next = Spelled(tok)[2]
      BY <1>3, <3>1
    <3> QED BY <1>2, <1>10, <3>1, <3>2
  <2>2. c.k = FirstOf[tok.k] /\ next.k = "="
    BY <2>1, TokenFields
  <2>3. c.k \in {"=", "!", "<", ">"} /\ c # Nl
    BY <1>10, <2>2, FirstOfIs, TokenFields
  <2>4. (CHOOSE k \in DOMAIN FirstOf : FirstOf[k] = c.k) = tok.k
    BY <1>10, <2>2, FirstOfIs
  <2> QED BY <1>6, <1>10, <2>1, <2>2, <2>3, <2>4 DEF ScanSign
<1>11. CASE tok.k = "name" /\ tok.t \notin WordTokens /\ Spelled(tok) = << tok >>
  <2>1. c = tok /\ Len(Spelled(tok)) = 1
    BY <1>2, <1>5, <1>11, Zenon
  <2> QED BY <1>11, <2>1, ScanIs DEF c
<1>12. CASE tok.k \in Single \cup {"nl"} /\ tok = Token(tok.k) /\ Spelled(tok) = << tok >>
  <2>1. c = tok /\ Len(Spelled(tok)) = 1
    BY <1>2, <1>5, <1>12, Zenon
  <2>2. CASE tok.k = "nl"
    <3>1. c = Nl
      BY <1>12, <2>1, <2>2 DEF Nl
    <3> QED BY <2>1, <3>1, ScanIs DEF c
  <2>3. CASE tok.k \in Single
    <3>1. c # Nl /\ c.k \notin {"#", "name", "digits"}
      BY <2>1, <2>3, TokenFields DEF Single
    <3>2. ~(c.k = "-" /\ next.k = "digits")
      BY <1>4, <2>1 DEF Apart
    <3>3. ~(next.k = "=" /\ \E k \in DOMAIN FirstOf : FirstOf[k] = c.k)
      BY <1>4, <2>1, <2>3, FirstOfIs DEF Apart, Single
    <3> QED BY <1>6, <2>1, <2>3, <3>1, <3>2, <3>3 DEF ScanSign
  <2> QED BY <1>12, <2>2, <2>3
<1> QED BY <1>7, <1>8, <1>9, <1>10, <1>11, <1>12, SpelledIs

LEMMA TokensPass ==
  ASSUME NEW text \in Seq(Tokens), NEW p \in 1 .. Len(text), NEW to \in p + 1 .. Len(text) + 1,
         Scan(text, p) = Passes(to)
  PROVE  TokensFrom(text)[p] = TokensFrom(text)[to]
<1>1. Scan(text, p).toks = << >> /\ Scan(text, p).to = to
  BY DEF Passes
<1>2. to \in 1 .. Len(text) + 1
  OBVIOUS
<1>3. TokensFrom(text)[to] \in Seq(Tokens)
  BY <1>2, TokensFromDefined
<1>4. TokensFrom(text)[p] = << >> \o TokensFrom(text)[to]
  BY <1>1, TokensFromDefined
<1> QED BY <1>3, <1>4, ConcatEmptySeq

\* The text has this piece at p.
Holds(text, p, piece) ==
  p + Len(piece) <= Len(text) + 1 /\ \A j \in 1 .. Len(piece) : text[p + j - 1] = piece[j]

LEMMA ScanPiece ==
  ASSUME NEW text \in Seq(Tokens), NEW written \in Seq(Written), NEW layout \in Layouts,
         NEW i \in 1 .. Len(written), NEW p \in 1 .. Len(text),
         Holds(text, p, Piece(written, layout, i)),
         layout = "short" =>
           Apart(written[i], CharAt(text, p + Len(Piece(written, layout, i))))
  PROVE  TokensFrom(text)[p] =
           << written[i] >> \o TokensFrom(text)[p + Len(Piece(written, layout, i))]
<1> DEFINE piece == Piece(written, layout, i)
           tok == written[i]
           sp == Spelled(tok)
           T == TokensFrom(text)
<1>0. /\ p + Len(piece) <= Len(text) + 1
      /\ \A j \in 1 .. Len(piece) : text[p + j - 1] = piece[j]
      /\ layout = "short" => Apart(tok, CharAt(text, p + Len(piece)))
  BY DEF Holds
<1>1. PICK pre \in {<< >>, Remark}, post \in {<< >>, << Space >>} :
        /\ piece = pre \o sp \o post
        /\ pre = Remark => tok = Nl
        /\ post = << >> => layout = "short"
  BY PieceIs
<1>2. tok \in Written /\ tok \in Tokens /\ sp \in Seq(Tokens) /\ Len(sp) \in Nat \ {0}
  <2>1. written[i] \in Written
    OBVIOUS
  <2>2. Spelled(written[i]) \in Seq(Tokens) /\ Len(Spelled(written[i])) \in {1, 2}
    BY <2>1, SpelledTyped
  <2>3. 1 \in Nat \ {0} /\ 2 \in Nat \ {0}
    OBVIOUS
  <2>4. Len(Spelled(written[i])) \in Nat \ {0}
    BY <2>2, <2>3
  <2> QED BY <2>1, <2>2, <2>4, WrittenTyped
<1>3. /\ pre \in Seq(Tokens) /\ post \in Seq(Tokens)
      /\ \/ pre = << >> /\ Len(pre) = 0
         \/ pre = Remark /\ Len(pre) = 5
      /\ \/ post = << >> /\ Len(post) = 0
         \/ post = << Space >> /\ Len(post) = 1
  <2>1. << >> \in Seq(Tokens) /\ Len(<< >>) = 0
    OBVIOUS
  <2>2. << Space >> \in Seq(Tokens) /\ Len(<< Space >>) = 1
    BY TokenTyped
  <2> QED BY <2>1, <2>2, RemarkIs
<1> HIDE DEF sp, tok, piece
<1>4. pre \o sp \in Seq(Tokens) /\ Len(pre \o sp) = Len(pre) + Len(sp)
  BY <1>2, <1>3, ConcatProperties
<1>5. Len(piece) = Len(pre) + Len(sp) + Len(post)
  BY <1>1, <1>3, <1>4, ConcatProperties
<1>6. \A j \in 1 .. Len(pre) + Len(sp) : piece[j] = (pre \o sp)[j]
  BY <1>1, <1>2, <1>3, <1>4, ConcatProperties
<1>7. \A j \in 1 .. Len(pre) : piece[j] = pre[j]
  <2>1. \A j \in 1 .. Len(pre) : (pre \o sp)[j] = pre[j]
    BY <1>2, <1>3, ConcatProperties
  <2>2. Len(pre) \in Nat /\ Len(sp) \in Nat
    BY <1>2, <1>3
  <2> QED BY <1>6, <2>1, <2>2
<1>8. \A j \in 1 .. Len(sp) : piece[Len(pre) + j] = sp[j]
  <2>1. \A j \in 1 .. Len(sp) : (pre \o sp)[Len(pre) + j] = sp[j]
    BY <1>2, <1>3, ConcatProperties
  <2>2. Len(pre) \in Nat /\ Len(sp) \in Nat
    BY <1>2, <1>3
  <2>3. \A j \in 1 .. Len(sp) : Len(pre) + j \in 1 .. Len(pre) + Len(sp)
    BY <2>2
  <2> QED BY <1>6, <2>1, <2>3
<1>9. Len(post) = 1 => piece[Len(pre) + Len(sp) + 1] = Space
  <2>1. SUFFICES ASSUME Len(post) = 1
                 PROVE  (pre \o sp \o post)[Len(pre) + Len(sp) + 1] = Space
    BY <1>1
  <2>2. post = << Space >> /\ post[1] = Space
    BY <1>3, <2>1
  <2>3. Len(pre) + Len(sp) + 1 \in 1 .. Len(pre \o sp) + Len(post)
    BY <1>2, <1>3, <1>4, <2>1
  <2> QED BY <1>2, <1>3, <1>4, <2>1, <2>2, <2>3, ConcatProperties
<1> DEFINE q == p + Len(pre)
           r == q + Len(sp)
<1>10. /\ Len(text) \in Nat /\ Len(pre) \in Nat /\ Len(sp) \in Nat /\ Len(post) \in Nat
       /\ q \in 1 .. Len(text) /\ r \in 1 .. Len(text) + 1 /\ p + Len(piece) = r + Len(post)
       /\ r + Len(post) <= Len(text) + 1
  <2>1. /\ Len(text) \in Nat /\ Len(pre) \in Nat /\ Len(sp) \in Nat \ {0} /\ Len(post) \in Nat
        /\ p \in Nat \ {0}
    <3>1. Len(text) \in Nat /\ p \in Nat \ {0}
      OBVIOUS
    <3>2. Len(pre) \in Nat /\ Len(post) \in Nat
      BY <1>3
    <3>3. Len(sp) \in Nat \ {0}
      BY <1>2
    <3> QED BY <3>1, <3>2, <3>3
  <2> QED BY <1>0, <1>5, <2>1
<1> HIDE DEF q, r
\* The remark is passed.
<1>11. T[p] = T[q]
  <2>1. CASE Len(pre) = 0
    BY <2>1 DEF q
  <2>2. CASE Len(pre) = 5
    <3>1. pre = Remark /\ tok = Nl /\ q = p + 5
      BY <1>1, <1>3, <2>2 DEF q
    <3>2. \A j \in 1 .. 5 : text[p + j - 1] = Remark[j]
      <4>1. \A j \in 1 .. 5 : j \in 1 .. Len(piece) /\ j \in 1 .. Len(pre)
        BY <1>5, <1>10, <2>2
      <4> QED BY <1>0, <1>7, <3>1, <4>1
    <3>3. /\ text[p] = Remark[1] /\ text[p + 1] = Remark[2]
          /\ \A k \in p .. p + 4 : text[k] # Nl
      <4>2. /\ p + 1 - 1 = p /\ p + 2 - 1 = p + 1 /\ 1 \in 1 .. 5 /\ 2 \in 1 .. 5
        OBVIOUS
      <4>1. \A k \in p .. p + 4 : text[k] = Remark[k - p + 1] /\ k - p + 1 \in 1 .. 5
        <5>1. SUFFICES ASSUME NEW k \in p .. p + 4
                       PROVE  text[k] = Remark[k - p + 1] /\ k - p + 1 \in 1 .. 5
          OBVIOUS
        <5> DEFINE j == k - p + 1
        <5>2. j \in 1 .. 5 /\ p + j - 1 = k
          OBVIOUS
        <5> QED BY <3>2, <5>2
      <4>3. text[p] = Remark[1] /\ text[p + 1] = Remark[2]
        <5>1. text[p + 1 - 1] = Remark[1] /\ text[p + 2 - 1] = Remark[2]
          BY <3>2, <4>2, Zenon
        <5> QED BY <4>2, <5>1
      <4> QED BY <4>1, <4>3, RemarkIs
    <3>4. sp = << Nl >> /\ text[q] = Nl
      <4>1. sp = << Nl >>
        BY <1>2, <3>1, SpelledIs, FirstOfIs, TokenFields DEF sp, WordTokens
      <4>2. piece[Len(pre) + 1] = Nl /\ text[p + (Len(pre) + 1) - 1] = piece[Len(pre) + 1]
        BY <1>0, <1>5, <1>8, <1>10, <4>1
      <4> QED BY <1>10, <4>1, <4>2 DEF q
    <3>5. T[p] = T[p + 1]
      <4>1. text[p].k = "other" /\ text[p] # Nl /\ CharAt(text, p + 1).k = "#"
        BY <1>10, <3>1, <3>3, RemarkIs, TokenFields DEF CharAt
      <4>2. Scan(text, p) = Passes(p + 1)
        BY <4>1, ScanIs, FirstOfIs DEF ScanSign, Single
      <4>3. p + 1 \in p + 1 .. Len(text) + 1
        BY <1>10
      <4> QED BY <4>2, <4>3, TokensPass
    <3>6. T[p + 1] = T[q]
      <4>1. p + 1 \in 1 .. Len(text) /\ text[p + 1].k = "#"
        BY <1>10, <3>1, <3>3, RemarkIs
      <4> DEFINE e == LineEnd(text, p + 1)
      <4>2. /\ e \in p + 1 .. Len(text) + 1 /\ (e = Len(text) + 1 \/ text[e] = Nl)
            /\ \A k \in p + 1 .. e - 1 : text[k] # Nl
        BY <4>1, LineEndIsFirst
      <4>3. Scan(text, p + 1) = Passes(e)
        BY <4>1, ScanIs
      <4> HIDE DEF e
      <4>4. e = q
        BY <1>10, <3>1, <3>3, <3>4, <4>2
      <4>5. q \in p + 1 + 1 .. Len(text) + 1
        BY <1>10, <3>1
      <4> QED BY <4>1, <4>3, <4>4, <4>5, TokensPass
    <3> QED BY <3>5, <3>6
  <2> QED BY <1>3, <2>1, <2>2
\* The token is taken.
<1>12. T[q] = << tok >> \o T[r]
  <2>1. \A j \in 1 .. Len(sp) : text[q + j - 1] = sp[j]
    <3>1. SUFFICES ASSUME NEW j \in 1 .. Len(sp)
                   PROVE  text[q + j - 1] = sp[j]
      OBVIOUS
    <3>2. Len(pre) + j \in 1 .. Len(piece) /\ p + (Len(pre) + j) - 1 = q + j - 1
      BY <1>5, <1>10 DEF q
    <3> QED BY <1>0, <1>8, <3>2
  <2>2. Apart(tok, CharAt(text, r))
    <3>1. CASE Len(post) = 0
      BY <1>0, <1>1, <1>3, <1>10, <3>1
    <3>2. CASE Len(post) = 1
      <4>1. Len(pre) + Len(sp) + 1 \in 1 .. Len(piece) /\ p + (Len(pre) + Len(sp) + 1) - 1 = r
        BY <1>5, <1>10, <3>2 DEF q, r
      <4>2. text[r] = Space /\ r <= Len(text)
        BY <1>0, <1>9, <1>10, <3>2, <4>1
      <4> QED BY <4>2, TokenFields DEF CharAt, Apart
    <3> QED BY <1>3, <3>1, <3>2
  <2>3. q + Len(sp) = r /\ r <= Len(text) + 1
    BY <1>10 DEF r
  <2>4. Scan(text, q) = Takes(tok, r)
    BY <1>2, <1>10, <2>1, <2>2, <2>3, ScanSpelled DEF sp
  <2>5. q \in 1 .. Len(text)
    BY <1>10
  <2>6. Scan(text, q).toks = << tok >> /\ Scan(text, q).to = r
    BY <2>4 DEF Takes
  <2>7. T[q] = Scan(text, q).toks \o T[Scan(text, q).to]
    BY <2>5, TokensFromDefined
  <2> QED BY <2>6, <2>7, Zenon
\* The space is passed.
<1>13. T[r] = T[r + Len(post)]
  <2>1. CASE Len(post) = 0
    BY <1>10, <2>1
  <2>2. CASE Len(post) = 1
    <3>1. Len(pre) + Len(sp) + 1 \in 1 .. Len(piece) /\ p + (Len(pre) + Len(sp) + 1) - 1 = r
      BY <1>5, <1>10, <2>2 DEF q, r
    <3>2. text[r] = Space /\ r \in 1 .. Len(text)
      BY <1>0, <1>9, <1>10, <2>2, <3>1
    <3>3. Space.k = "space" /\ Space # Nl
      BY TokenFields
    <3>4. Scan(text, r) = Passes(r + 1)
      <4>1. Scan(text, r) = ScanSign(Space, CharAt(text, r + 1), r)
        BY <3>2, <3>3, ScanIs
      <4> QED BY <3>3, <4>1, FirstOfIs DEF ScanSign, Single
    <3>5. r + 1 \in r + 1 .. Len(text) + 1
      BY <3>2
    <3> QED BY <2>2, <3>2, <3>4, <3>5, TokensPass
  <2> QED BY <1>3, <2>1, <2>2
<1>14. T[p] = << tok >> \o T[p + Len(piece)]
  BY <1>10, <1>11, <1>12, <1>13
<1> QED BY <1>14 DEF tok, piece

LEMMA TextTyped ==
  ASSUME NEW written \in Seq(Written), NEW layout \in Layouts
  PROVE  Text(written, layout) \in Seq(Tokens)
<1>1. CASE written = << >>
  <2> DEFINE parts == [i \in DOMAIN written |-> Piece(written, layout, i)]
  <2>1. parts \in Seq(Tokens) /\ Len(parts) = 0
    BY <1>1
  <2>2. Text(written, layout) = parts
    BY <2>1 DEF Text, FlattenSeq
  <2> QED BY <2>1, <2>2
<1>2. CASE written # << >>
  BY <1>2, TextIs
<1> QED BY <1>1, <1>2

\* The lexer gives the tokens that a text was written with.
LEMMA LexesAsWritten ==
  ASSUME NEW written \in Seq(Written), NEW layout \in Layouts, ~Glued(written, layout)
  PROVE  TokensFrom(Text(written, layout))[1] = written
<1> DEFINE n == Len(written)
           text == Text(written, layout)
           T == TokensFrom(text)
           piece(i) == Piece(written, layout, i)
<1>1. CASE written = << >>
  <2>1. text = << >>
    BY <1>1 DEF Text, FlattenSeq
  <2>2. << >> \in Seq(Tokens) /\ Len(<< >>) + 1 = 1
    OBVIOUS
  <2>3. TokensFrom(<< >>)[1] = << >>
    BY <2>2, TokensFromDefined
  <2> QED BY <1>1, <2>1, <2>3
<1>2. CASE written # << >>
  <2>1. /\ text \in Seq(Tokens) /\ Len(text) \in Nat /\ n \in Nat \ {0}
        /\ \A i \in 1 .. n : piece(i) \in Seq(Tokens) /\ Len(piece(i)) \in Nat \ {0}
    BY <1>2, TextIs, PieceTyped
  <2>2. PICK at \in [1 .. n + 1 -> Nat \ {0}] :
          /\ at[1] = 1 /\ at[n + 1] = Len(text) + 1
          /\ \A i \in 1 .. n :
               /\ at[i + 1] = at[i] + Len(piece(i))
               /\ \A j \in 1 .. Len(piece(i)) : text[at[i] + j - 1] = piece(i)[j]
    BY <1>2, TextIs
  <2> HIDE DEF text
  <2> DEFINE Read(i) == at[i] + (n + 1 - i) <= Len(text) + 1 /\ T[at[i]] = SubSeq(written, i, n)
             Bad == { n + 1 - i : i \in { k \in 1 .. n + 1 : ~Read(k) } }
  <2>3. Read(n + 1)
    <3>1. SubSeq(written, n + 1, n) = << >>
      BY <2>1, SubSeqEmpty
    <3>2. T[Len(text) + 1] = << >>
      BY <2>1, TokensFromDefined
    <3>3. at[n + 1] + (n + 1 - (n + 1)) <= Len(text) + 1
      BY <2>1, <2>2
    <3> HIDE DEF T
    <3> QED BY <2>2, <3>1, <3>2, <3>3
  <2>4. ASSUME NEW i \in 1 .. n, Read(i + 1)
        PROVE  Read(i)
    <3>1. /\ at[i] \in Nat \ {0} /\ at[i + 1] = at[i] + Len(piece(i))
          /\ Len(piece(i)) \in Nat \ {0} /\ at[i] \in 1 .. Len(text)
          /\ at[i] + Len(piece(i)) <= Len(text) + 1
      <4>1. at[i] \in Nat \ {0} /\ at[i + 1] = at[i] + Len(piece(i)) /\ Len(piece(i)) \in Nat \ {0}
        BY <2>1, <2>2
      <4>2. at[i + 1] + (n + 1 - (i + 1)) <= Len(text) + 1
        BY <2>4
      <4> HIDE DEF piece, T
      <4> QED BY <2>1, <4>1, <4>2
    <3>2. layout = "short" => Apart(written[i], CharAt(text, at[i + 1]))
      <4>1. CASE i = n
        <5>1. CharAt(text, at[i + 1]) = Token("eof")
          BY <2>1, <2>2, <4>1 DEF CharAt
        <5> QED BY <5>1, TokenFields DEF Apart
      <4>2. CASE i < n /\ layout = "short"
        <5> DEFINE k == i + 1
        <5>1. k \in 1 .. n /\ 1 \in 1 .. Len(piece(k)) /\ at[k] + 1 - 1 = at[k] /\ at[k] \in Nat
          <6>1. k \in 1 .. n /\ k \in 1 .. n + 1
            BY <2>1, <4>2
          <6> HIDE DEF k, piece
          <6>2. at[k] \in Nat /\ Len(piece(k)) \in Nat \ {0}
            BY <2>1, <2>2, <6>1
          <6> QED BY <6>1, <6>2
        <5>2. CharAt(text, at[k]) = Head(Spelled(written[k]))
          <6>1. piece(k)[1] = Head(Spelled(written[k]))
            BY <4>2, <5>1, PieceTyped
          <6>2. text[at[k] + 1 - 1] = piece(k)[1]
            <7> HIDE DEF k, piece
            <7> QED BY <2>2, <5>1, Zenon
          <6>4. at[k] <= Len(text)
            <7>1. at[k] + (n + 1 - k) <= Len(text) + 1
              BY <2>4
            <7> HIDE DEF k
            <7> QED BY <2>1, <5>1, <7>1
          <6> QED BY <5>1, <6>1, <6>2, <6>4 DEF CharAt
        <5> DEFINE next == Head(Spelled(written[k])).k
        <5>3. ~(written[i].k = "-" /\ next = "digits") /\ ~(written[i].k \in {"=", "<", ">"} /\ next = "=")
          <6>1. i \in 1 .. n - 1
            BY <2>1, <4>2
          <6> QED BY <4>2, <6>1 DEF Glued
        <5> QED BY <5>2, <5>3 DEF Apart
      <4> QED BY <2>1, <4>1, <4>2
    <3>3. T[at[i]] = << written[i] >> \o T[at[i + 1]]
      <4>1. Holds(text, at[i], piece(i)) /\ at[i + 1] = at[i] + Len(piece(i))
        BY <2>2, <3>1 DEF Holds
      <4>2. layout = "short" => Apart(written[i], CharAt(text, at[i] + Len(piece(i))))
        BY <3>2, <4>1
      <4>3. at[i] \in 1 .. Len(text) /\ text \in Seq(Tokens)
        BY <2>1, <3>1
      <4>4. T[at[i]] = << written[i] >> \o T[at[i] + Len(piece(i))]
        BY <4>1, <4>2, <4>3, ScanPiece
      <4> QED BY <4>1, <4>4
    <3>4. SubSeq(written, i, n) = << written[i] >> \o SubSeq(written, i + 1, n)
      BY <2>1, SubSeqRecursiveFirst
    <3>5. at[i] + (n + 1 - i) <= Len(text) + 1
      <4>1. at[i + 1] + (n + 1 - (i + 1)) <= Len(text) + 1
        BY <2>4
      <4> HIDE DEF piece
      <4> QED BY <2>1, <3>1, <4>1
    <3>6. T[at[i + 1]] = SubSeq(written, i + 1, n)
      BY <2>4
    <3> HIDE DEF T
    <3> QED BY <3>3, <3>4, <3>5, <3>6, Zenon
  <2>5. Read(1)
    <3>1. SUFFICES ASSUME Bad # {} PROVE FALSE
      BY <2>1
    <3>2. Bad \in SUBSET Nat
      BY <2>1
    <3>3. Min(Bad) \in Bad /\ \A m \in Bad : Min(Bad) <= m
      BY <3>1, <3>2, Least
    <3>4. PICK i \in 1 .. n + 1 : ~Read(i) /\ n + 1 - i = Min(Bad)
      BY <3>3
    <3>5. \A k \in 1 .. n + 1 : ~Read(k) => n + 1 - k \in Bad
      OBVIOUS
    <3> HIDE DEF Bad, Read
    <3>6. i # n + 1
      BY <2>3, <3>4
    <3>7. i \in 1 .. n /\ i + 1 \in 1 .. n + 1
      BY <2>1, <3>6
    <3>8. Read(i + 1)
      BY <2>1, <3>3, <3>4, <3>5, <3>7
    <3> QED BY <2>4, <3>4, <3>7, <3>8
  <2> QED BY <2>1, <2>2, <2>5, SubSeqFull DEF text
<1> QED BY <1>1, <1>2

-----------------------------------------------------------------------------
(* Places in the tokens.  What the lexer leaves has an end.                *)

Lexed ==
  /\ tokens \in Seq(Tokens) /\ tokens # << >>
  /\ Kind(Len(tokens)) = "eof"

LEMMA PlacesAre ==
  ASSUME Lexed
  PROVE  /\ Len(tokens) \in Nat \ {0} /\ DOMAIN tokens = 1 .. Len(tokens)
         /\ Len(tokens) \in DOMAIN tokens
         /\ \A p \in DOMAIN tokens : p \in Nat \ {0} /\ p <= Len(tokens) /\ tokens[p].n \in Int
<1>1. Len(tokens) \in Nat \ {0} /\ DOMAIN tokens = 1 .. Len(tokens)
  BY DEF Lexed
<1>2. ASSUME NEW p \in DOMAIN tokens
      PROVE  tokens[p].n \in Int
  <2>1. tokens[p] \in Tokens
    BY <1>1 DEF Lexed
  <2> QED BY <2>1 DEF Tokens
<1> QED BY <1>1, <1>2

LEMMA AdvanceTyped ==
  ASSUME Lexed, NEW p \in DOMAIN tokens
  PROVE  /\ Advance(p) \in DOMAIN tokens /\ Advance(p) >= p
         /\ Kind(p) # "eof" => Advance(p) = p + 1 /\ p + 1 \in DOMAIN tokens
<1>1. Kind(p) # "eof" => p # Len(tokens)
  BY DEF Lexed
<1> QED BY <1>1, PlacesAre DEF Advance

LEMMA MatchTyped ==
  ASSUME Lexed, NEW p \in DOMAIN tokens, NEW k
  PROVE  Match(p, k) \in DOMAIN tokens /\ Match(p, k) >= p
BY AdvanceTyped, PlacesAre DEF Match

\* The first place with a property, when there is one.
LEMMA FirstPlace ==
  ASSUME Lexed, NEW p \in DOMAIN tokens, NEW S \in SUBSET (p .. Len(tokens)), S # {}
  PROVE  \E q \in S : \A i \in p .. q - 1 : i \notin S
<1>1. S \in SUBSET Nat
  BY PlacesAre
<1>2. PICK m \in S : \A i \in S : m <= i
  BY <1>1, Least
<1>3. \A i \in p .. m - 1 : i \notin S
  <2>1. m \in Nat /\ p \in Nat
    BY <1>1, PlacesAre
  <2> QED BY <1>2, <2>1
<1> QED BY <1>3

LEMMA FirstInTyped ==
  ASSUME Lexed, NEW p \in DOMAIN tokens, NEW kinds, "eof" \in kinds
  PROVE  /\ FirstIn(p, kinds) \in DOMAIN tokens /\ FirstIn(p, kinds) >= p
         /\ Kind(FirstIn(p, kinds)) \in kinds
<1> DEFINE S == { q \in p .. Len(tokens) : Kind(q) \in kinds }
<1>1. Len(tokens) \in S
  BY PlacesAre DEF Lexed
<1>2. PICK q \in S : \A i \in p .. q - 1 : i \notin S
  BY <1>1, FirstPlace
<1>3. q \in p .. Len(tokens) /\ Kind(q) \in kinds /\ \A i \in p .. q - 1 : Kind(i) \notin kinds
  BY <1>2, PlacesAre
<1> QED BY <1>3, PlacesAre DEF FirstIn

LEMMA FirstNotInTyped ==
  ASSUME Lexed, NEW p \in DOMAIN tokens, NEW kinds, "eof" \notin kinds
  PROVE  /\ FirstNotIn(p, kinds) \in DOMAIN tokens /\ FirstNotIn(p, kinds) >= p
         /\ Kind(FirstNotIn(p, kinds)) \notin kinds
<1> DEFINE S == { q \in p .. Len(tokens) : Kind(q) \notin kinds }
<1>1. Len(tokens) \in S
  BY PlacesAre DEF Lexed
<1>2. PICK q \in S : \A i \in p .. q - 1 : i \notin S
  BY <1>1, FirstPlace
<1>3. q \in p .. Len(tokens) /\ Kind(q) \notin kinds /\ \A i \in p .. q - 1 : Kind(i) \in kinds
  BY <1>2, PlacesAre
<1> QED BY <1>3, PlacesAre DEF FirstNotIn

LEMMA SkipNewlinesTyped ==
  ASSUME Lexed, NEW p \in DOMAIN tokens
  PROVE  SkipNewlines(p) \in DOMAIN tokens /\ SkipNewlines(p) >= p /\ Kind(SkipNewlines(p)) # "nl"
BY FirstNotInTyped DEF SkipNewlines

\* A skipped block ends before the end, or there: the end closes nothing.
LEMMA SkipBlockTyped ==
  ASSUME Lexed, NEW p \in DOMAIN tokens
  PROVE  SkipBlock(p) \in DOMAIN tokens /\ SkipBlock(p) >= p
<1> DEFINE n == Len(tokens)
           ends == { q \in p .. n : Closes(p, q) = 1 }
           Of(k, q) == { i \in p .. q : Kind(i) = k }
<1>1. n \in Nat \ {0} /\ p \in 1 .. n /\ DOMAIN tokens = 1 .. n /\ Kind(n) = "eof"
  BY PlacesAre DEF Lexed
<1>2. CASE ends = {}
  BY <1>1, <1>2 DEF SkipBlock, Past
<1>3. CASE ends # {}
  <2>0. ends \in SUBSET Nat
    BY <1>1
  <2>1. Min(ends) \in ends /\ \A q \in ends : Min(ends) <= q
    BY <1>3, <2>0, Least
  <2>2. Min(ends) # n
    <3>1. SUFFICES ASSUME Closes(p, n) = 1, \A q \in ends : n <= q
                   PROVE  FALSE
      BY <2>1
    <3>2. \A k \in {"lbrace", "rbrace"} : Of(k, n) = Of(k, n - 1)
      BY <1>1
    <3>3. Closes(p, n) = Closes(p, n - 1)
      BY <3>2 DEF Closes
    <3>4. CASE p = n
      <4>1. Of("rbrace", n - 1) = {} /\ Of("lbrace", n - 1) = {}
        BY <1>1, <3>4
      <4>2. Cardinality(Of("rbrace", n - 1)) = 0 /\ Cardinality(Of("lbrace", n - 1)) = 0
        BY <4>1, FS_EmptySet
      <4>3. Closes(p, n - 1) = 0
        BY <4>2 DEF Closes
      <4> QED BY <3>1, <3>3, <4>3
    <3>5. CASE p # n
      <4>1. n - 1 \in ends
        BY <1>1, <3>1, <3>3, <3>5
      <4> QED BY <1>1, <3>1, <4>1
    <3> QED BY <3>4, <3>5
  <2>3. SkipBlock(p) = Min(ends) + 1
    BY <1>3 DEF SkipBlock, Past
  <2> HIDE DEF ends
  <2>4. Min(ends) \in p .. n
    BY <2>1 DEF ends
  <2> QED BY <1>1, <2>2, <2>3, <2>4
<1> QED BY <1>2, <1>3

-----------------------------------------------------------------------------
(* Results.                                                                *)

LEMMA ResultTyped ==
  ASSUME NEW v \in Int, NEW p \in DOMAIN tokens
  PROVE  Result(v, p) \in Results /\ Result(v, p).p = p
BY DEF Result, Results

\* A result that is changed.
LEMMA Changed ==
  ASSUME NEW r \in Results
  PROVE  /\ \A p \in DOMAIN tokens : [r EXCEPT !.p = p] \in Results
         /\ \A v \in Int : [r EXCEPT !.v = v] \in Results
         /\ \A b \in BOOLEAN : /\ [r EXCEPT !.err = b] \in Results
                             /\ [r EXCEPT !.stuck = b] \in Results
         /\ r.v \in Int /\ r.p \in DOMAIN tokens /\ r.err \in BOOLEAN /\ r.stuck \in BOOLEAN
         /\ r.args \in Seq(Int)
BY DEF Results

LEMMA ExpectTyped ==
  ASSUME Lexed, NEW r \in Results, NEW k
  PROVE  /\ Expect(r, k) \in Results /\ Expect(r, k).p >= r.p
         /\ Expect(r, k).v = r.v /\ Expect(r, k).stuck = r.stuck
<1>1. r.p \in DOMAIN tokens /\ Advance(r.p) \in DOMAIN tokens /\ Advance(r.p) >= r.p /\ r.p >= r.p
  BY AdvanceTyped, PlacesAre DEF Results
<1>2. Expect(r, k) \in Results
  BY <1>1, Changed DEF Expect
<1> QED BY <1>1, <1>2 DEF Expect, Results

LEMMA HeaderTyped ==
  ASSUME Lexed, NEW r \in Results
  PROVE  /\ Header(r) \in Results /\ Header(r).p >= r.p
         /\ Header(r).v = r.v /\ Header(r).stuck = r.stuck
<1> DEFINE a == [r EXCEPT !.p = SkipNewlines(@)]
           b == Expect(a, "colon")
           c == [b EXCEPT !.p = SkipNewlines(@)]
<1>1. r.p \in DOMAIN tokens /\ SkipNewlines(r.p) \in DOMAIN tokens /\ SkipNewlines(r.p) >= r.p
  BY SkipNewlinesTyped, Changed
<1>2. a \in Results /\ a.p = SkipNewlines(r.p) /\ a.v = r.v /\ a.stuck = r.stuck
  BY <1>1 DEF Results
<1> HIDE DEF a
<1>3. b \in Results /\ b.p >= a.p /\ b.v = r.v /\ b.stuck = r.stuck
  BY <1>2, ExpectTyped
<1> HIDE DEF b
<1>4. b.p \in DOMAIN tokens /\ SkipNewlines(b.p) \in DOMAIN tokens /\ SkipNewlines(b.p) >= b.p
  BY <1>3, SkipNewlinesTyped, Changed
<1>5. c \in Results /\ c.p = SkipNewlines(b.p) /\ c.v = r.v /\ c.stuck = r.stuck
  BY <1>3, <1>4 DEF Results
<1> HIDE DEF c
<1>6. Expect(c, "lbrace") \in Results /\ Expect(c, "lbrace").p >= c.p
      /\ Expect(c, "lbrace").v = r.v /\ Expect(c, "lbrace").stuck = r.stuck
  BY <1>5, ExpectTyped
<1>7. Header(r) = Expect(c, "lbrace")
  BY DEF Header, a, b, c
<1>8. Expect(c, "lbrace").p \in DOMAIN tokens /\ a.p \in DOMAIN tokens /\ c.p \in DOMAIN tokens
  BY <1>2, <1>5, <1>6, Changed
<1> QED BY <1>1, <1>2, <1>3, <1>4, <1>5, <1>6, <1>7, <1>8, PlacesAre

-----------------------------------------------------------------------------
(* Expressions.                                                            *)

LEMMA LevelsAre ==
  /\ Len(Levels) = 4 /\ PRIMARY = 5
  /\ \A l \in 1 .. 4 : Levels[l] \subseteq
       {"and", "or", "==", "!=", "<", ">", "<=", ">=", "+", "-", "*", "/", "%"}
  /\ \A l \in 1 .. 4 : "eof" \notin Levels[l]
BY DEF Levels, PRIMARY

LEMMA ApplyTyped ==
  ASSUME NEW a \in Int, NEW b \in Int, NEW l \in 1 .. 4, NEW op \in Levels[l]
  PROVE  Apply(op, a, b) \in Int
<1>1. Quotient(a, b) \in Int
  BY DEF Quotient
<1>2. b * Quotient(a, b) \in Int
  <2> DEFINE q == Quotient(a, b)
  <2>1. q \in Int
    BY <1>1
  <2> HIDE DEF q
  <2> QED BY <2>1 DEF q
<1>3. Remainder(a, b) \in Int
  <2> DEFINE m == b * Quotient(a, b)
  <2>1. Remainder(a, b) = IF b = 0 THEN 0 ELSE a - m
    BY DEF Remainder
  <2> HIDE DEF m
  <2>2. m \in Int
    BY <1>2 DEF m
  <2> QED BY <2>1, <2>2
<1>4. a + b \in Int /\ a - b \in Int /\ a * b \in Int /\ \A t : Truth(t) \in Int
  BY DEF Truth
<1>5. op \in {"and", "or", "==", "!=", "<", ">", "<=", ">=", "+", "-", "*", "/", "%"}
  BY LevelsAre
<1> QED BY <1>1, <1>3, <1>4, <1>5 DEF Apply

LEMMA BuiltinsAre ==
  /\ \A name \in DOMAIN Builtins : Builtins[name] \in 0 .. 7
  /\ "operand" \notin DOMAIN Builtins /\ "rest" \notin DOMAIN Builtins
  /\ "print" \notin DOMAIN Builtins
  /\ Builtins["int"] = 1 /\ Builtins["abs"] = 1 /\ Builtins["min"] = 2 /\ Builtins["max"] = 2
BY DEF Builtins

\* The value of a builtin that got its arguments.
LEMMA BuiltinTyped ==
  ASSUME NEW name \in DOMAIN Builtins, NEW args \in Seq(Int), Len(args) = Builtins[name]
  PROVE  BuiltinValue(name, args) \in Int
<1>1. name \in {"int", "abs", "min", "max"} => args[1] \in Int
  BY BuiltinsAre
<1>2. name \in {"min", "max"} => args[2] \in Int
  BY BuiltinsAre
<1> QED BY <1>1, <1>2 DEF BuiltinValue

\* How far what is pending is from its end, at one place.
Weight(c) ==
  CASE c[1] = "operand" -> 6 - c[2]
    [] c[1] = "rest"    -> 0
    [] c[1] = "print"   -> 6
    [] OTHER            -> 6 + c[2]

LEMMA PendingAre ==
  /\ \A l \in 1 .. 5 : Operand(l) \in Pending /\ Weight(Operand(l)) = 6 - l
  /\ \A l \in 1 .. 4 : Rest(l) \in Pending /\ Weight(Rest(l)) = 0
  /\ Prints \in Pending /\ Weight(Prints) = 6
  /\ \A name \in DOMAIN Builtins : \A n \in 0 .. 7 :
       ArgsOf(name, n) \in Pending /\ Weight(ArgsOf(name, n)) = 6 + n
  /\ \A c \in Pending :
       \/ \E l \in 1 .. 5 : c = Operand(l)
       \/ \E l \in 1 .. 4 : c = Rest(l)
       \/ c = Prints
       \/ \E name \in DOMAIN Builtins : \E n \in 0 .. 7 : c = ArgsOf(name, n)
<1>1. PRIMARY = 5
  BY LevelsAre
<1>2. \A l \in 1 .. 5 : Operand(l) \in Pending /\ Weight(Operand(l)) = 6 - l
  BY <1>1 DEF Pending, Operand, Weight
<1>3. \A l \in 1 .. 4 : Rest(l) \in Pending /\ Weight(Rest(l)) = 0
  BY <1>1 DEF Pending, Rest, Weight
<1>4. Prints \in Pending /\ Weight(Prints) = 6
  BY DEF Pending, Prints, Weight
<1>5. \A name \in DOMAIN Builtins : \A n \in 0 .. 7 :
        ArgsOf(name, n) \in Pending /\ Weight(ArgsOf(name, n)) = 6 + n
  BY BuiltinsAre DEF Pending, ArgsOf, Weight
<1>6. \A c \in Pending :
        \/ \E l \in 1 .. 5 : c = Operand(l)
        \/ \E l \in 1 .. 4 : c = Rest(l)
        \/ c = Prints
        \/ \E name \in DOMAIN Builtins : \E n \in 0 .. 7 : c = ArgsOf(name, n)
  BY <1>1 DEF Pending, Operand, Rest, ArgsOf
<1> QED BY <1>2, <1>3, <1>4, <1>5, <1>6

LEMMA WeightTyped ==
  ASSUME NEW c \in Pending
  PROVE  Weight(c) \in 0 .. 13
BY PendingAre

\* What may come of c at r: the interpreter never goes back, and a builtin has
\* its arguments.
Answers(c, r) ==
  { a \in Results :
      a.p >= r.p /\ (c[1] \in DOMAIN Builtins => Len(a.args) = Len(r.args) + c[2]) }

Asked == Pending \X Results

Evaluators == { f \in [Asked -> Results] :
                  \A c \in Pending : \A r \in Results : f[<<c, r>>] \in Answers(c, r) }

\* What is asked for in between is further on, or nearer to its end.
Nearer(d, q, c, r) == q.p > r.p \/ (q.p >= r.p /\ Weight(d) < Weight(c))

AgreeBelow(f, g, c, r) ==
  \A d \in Pending : \A q \in Results : Nearer(d, q, c, r) => f[<<d, q>>] = g[<<d, q>>]

Ready == Lexed /\ env \in [Names -> Int]


LEMMA Ask ==
  ASSUME NEW f \in Evaluators, NEW g, NEW c, NEW r, AgreeBelow(f, g, c, r),
         NEW d \in Pending, NEW q \in Results, Nearer(d, q, c, r)
  PROVE  /\ f[<<d, q>>] = g[<<d, q>>]
         /\ f[<<d, q>>] \in Answers(d, q) /\ f[<<d, q>>] \in Results /\ f[<<d, q>>].p >= q.p
BY DEF Evaluators, AgreeBelow, Answers

\* All but the arguments of a builtin only have to go on.
LEMMA GoesOn ==
  ASSUME NEW r, NEW a \in Results, a.p >= r.p
  PROVE  /\ \A l : a \in Answers(Operand(l), r) /\ a \in Answers(Rest(l), r)
         /\ a \in Answers(Prints, r)
BY BuiltinsAre DEF Answers, Operand, Rest, Prints

LEMMA Updated ==
  ASSUME NEW r \in Results
  PROVE  /\ \A p : /\ [r EXCEPT !.p = p].p = p /\ [r EXCEPT !.p = p].v = r.v
                   /\ [r EXCEPT !.p = p].stuck = r.stuck /\ [r EXCEPT !.p = p].err = r.err
                   /\ [r EXCEPT !.p = p].args = r.args
         /\ \A v : [r EXCEPT !.v = v].p = r.p
         /\ \A b : [r EXCEPT !.err = b].p = r.p /\ [r EXCEPT !.stuck = b].p = r.p
BY DEF Results

LEMMA Valued ==
  ASSUME NEW r \in Results, NEW v \in Int
  PROVE  [r EXCEPT !.v = v] \in Results /\ [r EXCEPT !.v = v].p = r.p
BY DEF Results

LEMMA Flagged ==
  ASSUME NEW r \in Results, NEW b \in BOOLEAN
  PROVE  /\ [r EXCEPT !.err = b] \in Results /\ [r EXCEPT !.err = b].p = r.p
         /\ [r EXCEPT !.err = b].err = b
         /\ [r EXCEPT !.stuck = b] \in Results /\ [r EXCEPT !.stuck = b].p = r.p
BY DEF Results

LEMMA PlaceTyped ==
  ASSUME Lexed, NEW r \in Results
  PROVE  r.p \in Nat \ {0} /\ r.p >= r.p
BY Changed, PlacesAre

\* A token that is not the end is passed.
LEMMA Passed ==
  ASSUME Lexed, NEW r \in Results, Kind(r.p) # "eof"
  PROVE  /\ [r EXCEPT !.p = Advance(@)] \in Results
         /\ [r EXCEPT !.p = Advance(@)].p > r.p
<1>1. r.p \in DOMAIN tokens
  BY Changed
<1>2. Advance(r.p) = r.p + 1 /\ r.p + 1 \in DOMAIN tokens
  BY <1>1, AdvanceTyped
<1>3. r.p + 1 > r.p
  BY <1>1, PlacesAre
<1> QED BY <1>2, <1>3, Changed, Updated

LEMMA ClimbStep ==
  ASSUME Ready, NEW f \in Evaluators, NEW g, NEW l \in 1 .. 4, NEW r \in Results,
         AgreeBelow(f, g, Rest(l), r)
  PROVE  Climb(f, l, r) = Climb(g, l, r) /\ Climb(f, l, r) \in Answers(Rest(l), r)
<1> DEFINE q == [r EXCEPT !.p = Advance(@)]
           right == f[<<Operand(l + 1), q>>]
           next == [right EXCEPT !.v = Apply(Kind(r.p), r.v, @)]
<1>1. CASE ~Goes(r) \/ Kind(r.p) \notin Levels[l]
  <2>1. Climb(f, l, r) = r /\ Climb(g, l, r) = r
    BY <1>1 DEF Climb
  <2>2. r.p >= r.p
    BY Changed, PlacesAre DEF Ready
  <2> QED BY <2>1, <2>2, GoesOn
<1>2. CASE ~(~Goes(r) \/ Kind(r.p) \notin Levels[l])
  <2>1. Climb(f, l, r) = f[<<Rest(l), next>>]
    BY <1>2 DEF Climb
  <2>2. Climb(g, l, r)
          = g[<<Rest(l), [g[<<Operand(l + 1), q>>] EXCEPT !.v = Apply(Kind(r.p), r.v, @)]>>]
    BY <1>2 DEF Climb
  <2>3. Kind(r.p) \in Levels[l] /\ Kind(r.p) # "eof"
    BY <1>2, LevelsAre
  <2>4. q \in Results /\ q.p > r.p
    BY <2>3, Passed DEF Ready
  <2> HIDE DEF q
  <2>5. Operand(l + 1) \in Pending /\ Rest(l) \in Pending
    BY PendingAre
  <2>6. right = g[<<Operand(l + 1), q>>] /\ right \in Results /\ right.p >= q.p
    BY <2>4, <2>5, Ask DEF Nearer
  <2>7. Climb(g, l, r) = g[<<Rest(l), next>>]
    BY <2>2, <2>6
  <2> HIDE DEF right
  <2>8. next \in Results /\ next.p = right.p
    <3> DEFINE v == Apply(Kind(r.p), r.v, right.v)
    <3>1. v \in Int
      BY <2>3, <2>6, ApplyTyped, Changed
    <3>2. next = [right EXCEPT !.v = v]
      OBVIOUS
    <3> HIDE DEF v, next
    <3> QED BY <2>6, <3>1, <3>2, Changed, Updated
  <2> HIDE DEF next
  <2>9. next.p > r.p
    <3>1. next.p \in Nat /\ q.p \in Nat /\ r.p \in Nat /\ right.p \in Nat
      BY <2>4, <2>6, <2>8, Changed, PlacesAre DEF Ready
    <3> QED BY <2>4, <2>6, <2>8, <3>1
  <2>10. f[<<Rest(l), next>>] = g[<<Rest(l), next>>]
         /\ f[<<Rest(l), next>>] \in Results /\ f[<<Rest(l), next>>].p >= next.p
    BY <2>5, <2>8, <2>9, Ask DEF Nearer
  <2>11. f[<<Rest(l), next>>].p >= r.p
    <3>1. next.p \in Nat /\ r.p \in Nat /\ f[<<Rest(l), next>>].p \in Nat
      BY <2>8, <2>10, Changed, PlacesAre DEF Ready
    <3> QED BY <2>9, <2>10, <3>1
  <2> QED BY <2>1, <2>7, <2>10, <2>11, GoesOn
<1> QED BY <1>1, <1>2

LEMMA ParseStep ==
  ASSUME Ready, NEW f \in Evaluators, NEW g, NEW l \in 1 .. 4, NEW r \in Results,
         AgreeBelow(f, g, Operand(l), r)
  PROVE  Parse(f, l, r) = Parse(g, l, r) /\ Parse(f, l, r) \in Answers(Operand(l), r)
<1>1. CASE ~Goes(r)
  <2>1. Parse(f, l, r) = [r EXCEPT !.v = 0] /\ Parse(g, l, r) = [r EXCEPT !.v = 0]
    BY <1>1 DEF Parse
  <2>2. [r EXCEPT !.v = 0] \in Results /\ [r EXCEPT !.v = 0].p >= r.p
    BY Changed, Updated, PlaceTyped DEF Ready
  <2> QED BY <2>1, <2>2, GoesOn
<1>2. CASE Goes(r)
  <2> DEFINE x == f[<<Operand(l + 1), r>>]
  <2>1. Parse(f, l, r) = f[<<Rest(l), x>>]
        /\ Parse(g, l, r) = g[<<Rest(l), g[<<Operand(l + 1), r>>]>>]
    BY <1>2, LevelsAre DEF Parse
  <2>2. /\ Operand(l + 1) \in Pending /\ Rest(l) \in Pending
        /\ Weight(Operand(l + 1)) < Weight(Operand(l)) /\ Weight(Rest(l)) < Weight(Operand(l))
    BY PendingAre
  <2>3. x = g[<<Operand(l + 1), r>>] /\ x \in Results /\ x.p >= r.p
    BY <2>2, Ask, PlaceTyped DEF Nearer, Ready
  <2> HIDE DEF x
  <2>4. f[<<Rest(l), x>>] = g[<<Rest(l), x>>]
        /\ f[<<Rest(l), x>>] \in Results /\ f[<<Rest(l), x>>].p >= x.p
    BY <2>2, <2>3, Ask DEF Nearer
  <2>5. f[<<Rest(l), x>>].p >= r.p
    BY <2>3, <2>4, PlaceTyped DEF Ready
  <2> QED BY <2>1, <2>3, <2>4, <2>5, GoesOn
<1> QED BY <1>1, <1>2

LEMMA PrintStep ==
  ASSUME Ready, NEW f \in Evaluators, NEW g, NEW r \in Results, AgreeBelow(f, g, Prints, r)
  PROVE  PrintArguments(f, r) = PrintArguments(g, r)
         /\ PrintArguments(f, r) \in Answers(Prints, r)
<1>1. CASE Kind(r.p) \in {"rparen", "eof"}
  BY <1>1, GoesOn, PlaceTyped DEF PrintArguments, Ready
<1>2. CASE Kind(r.p) \notin {"rparen", "eof"}
  <2> DEFINE x == f[<<Operand(1), r>>]
             y == [x EXCEPT !.p = Match(@, "comma")]
             stops == y.p = r.p \/ y.stuck
  <2>1. PrintArguments(f, r) = IF stops THEN [y EXCEPT !.stuck = TRUE] ELSE f[<<Prints, y>>]
    BY <1>2 DEF PrintArguments
  <2>2. /\ Operand(1) \in Pending /\ Prints \in Pending
        /\ Weight(Operand(1)) < Weight(Prints)
    BY PendingAre
  <2>3. x = g[<<Operand(1), r>>] /\ x \in Results /\ x.p >= r.p
    BY <2>2, Ask, PlaceTyped DEF Nearer, Ready
  <2>4. PrintArguments(g, r) = IF stops THEN [y EXCEPT !.stuck = TRUE] ELSE g[<<Prints, y>>]
    BY <1>2, <2>3 DEF PrintArguments
  <2> HIDE DEF x
  <2>5. y \in Results /\ y.p >= x.p
    <3>1. Match(x.p, "comma") \in DOMAIN tokens /\ Match(x.p, "comma") >= x.p
      BY <2>3, MatchTyped, Changed DEF Ready
    <3> QED BY <2>3, <3>1, Changed, Updated
  <2> HIDE DEF y
  <2>6. y.p >= r.p
    BY <2>3, <2>5, PlaceTyped DEF Ready
  <2>7. CASE stops
    <3>1. [y EXCEPT !.stuck = TRUE] \in Results /\ [y EXCEPT !.stuck = TRUE].p = y.p
      BY <2>5, Changed, Updated
    <3> QED BY <2>1, <2>4, <2>6, <2>7, <3>1, GoesOn
  <2>8. CASE ~stops
    <3>1. y.p > r.p
      BY <2>5, <2>6, <2>8, PlaceTyped DEF Ready
    <3>2. f[<<Prints, y>>] = g[<<Prints, y>>]
          /\ f[<<Prints, y>>] \in Results /\ f[<<Prints, y>>].p >= y.p
      BY <2>2, <2>5, <3>1, Ask DEF Nearer
    <3>3. f[<<Prints, y>>].p >= r.p
      BY <2>5, <2>6, <3>2, PlaceTyped DEF Ready
    <3> QED BY <2>1, <2>4, <2>8, <3>2, <3>3, GoesOn
  <2> QED BY <2>7, <2>8
<1> QED BY <1>1, <1>2

LEMMA ArgumentsStep ==
  ASSUME Ready, NEW f \in Evaluators, NEW g, NEW name \in DOMAIN Builtins, NEW n \in 0 .. 7,
         NEW r \in Results, AgreeBelow(f, g, ArgsOf(name, n), r)
  PROVE  Arguments(f, name, n, r) = Arguments(g, name, n, r)
         /\ Arguments(f, name, n, r) \in Answers(ArgsOf(name, n), r)
<1>1. CASE n = 0
  <2>1. Len(r.args) = Len(r.args) + 0
    BY Changed
  <2> QED BY <1>1, <2>1, PlaceTyped DEF Arguments, Answers, ArgsOf, Ready
<1>2. CASE n # 0
  <2> DEFINE x == f[<<Operand(1), r>>]
             q == IF n > 1 THEN Match(x.p, "comma") ELSE x.p
             y == [x EXCEPT !.p = IF n > 1 THEN Match(@, "comma") ELSE @,
                            !.args = Append(r.args, x.v)]
  <2>1. Arguments(f, name, n, r) = f[<<ArgsOf(name, n - 1), y>>]
    BY <1>2 DEF Arguments
  <2>2. n - 1 \in 0 .. 7 /\ n \in Nat
    BY <1>2
  <2>3. /\ Operand(1) \in Pending /\ ArgsOf(name, n - 1) \in Pending
        /\ Weight(Operand(1)) < Weight(ArgsOf(name, n))
        /\ Weight(ArgsOf(name, n - 1)) < Weight(ArgsOf(name, n))
    BY <2>2, PendingAre
  <2>4. x = g[<<Operand(1), r>>] /\ x \in Results /\ x.p >= r.p
    BY <2>3, Ask, PlaceTyped DEF Nearer, Ready
  <2>5. Arguments(g, name, n, r) = g[<<ArgsOf(name, n - 1), y>>]
    BY <1>2, <2>4 DEF Arguments
  <2> HIDE DEF x
  <2>6. q \in DOMAIN tokens /\ q >= x.p
    BY <2>4, MatchTyped, Changed, PlaceTyped DEF Ready
  <2>7. Append(r.args, x.v) \in Seq(Int) /\ Len(Append(r.args, x.v)) = Len(r.args) + 1
    BY <2>4, Changed
  <2>8. y = [x EXCEPT !.p = q, !.args = Append(r.args, x.v)]
    OBVIOUS
  <2> HIDE DEF q, y
  <2>9. y \in Results /\ y.p = q /\ y.args = Append(r.args, x.v)
    BY <2>4, <2>6, <2>7, <2>8 DEF Results
  <2>10. y.p >= r.p
    <3>1. x.p \in Nat /\ y.p \in Nat /\ r.p \in Nat
      BY <2>4, <2>9, PlaceTyped DEF Ready
    <3> QED BY <2>4, <2>6, <2>9, <3>1
  <2> DEFINE a == f[<<ArgsOf(name, n - 1), y>>]
  <2>11. a = g[<<ArgsOf(name, n - 1), y>>] /\ a \in Answers(ArgsOf(name, n - 1), y)
         /\ a \in Results /\ a.p >= y.p
    BY <2>3, <2>9, <2>10, Ask DEF Nearer
  <2> HIDE DEF a
  <2>12. Len(a.args) = Len(y.args) + (n - 1)
    BY <2>11 DEF Answers, ArgsOf
  <2>13. Len(a.args) = Len(r.args) + n
    <3>1. Len(r.args) \in Nat
      BY Changed
    <3> QED BY <2>2, <2>7, <2>9, <2>12, <3>1
  <2>14. a.p >= r.p
    BY <2>9, <2>10, <2>11, PlaceTyped DEF Ready
  <2>15. a \in Answers(ArgsOf(name, n), r)
    BY <2>11, <2>13, <2>14 DEF Answers, ArgsOf
  <2> QED BY <2>1, <2>5, <2>11, <2>15 DEF a
<1> QED BY <1>1, <1>2

\* A call asks only for what is behind its bracket.
LEMMA CallStep ==
  ASSUME Ready, NEW f \in Evaluators, NEW g, NEW name, NEW p \in DOMAIN tokens,
         NEW c, NEW r \in Results, p > r.p, AgreeBelow(f, g, c, r)
  PROVE  /\ CallBuiltin(f, name, p) = CallBuiltin(g, name, p)
         /\ CallBuiltin(f, name, p) \in Results /\ CallBuiltin(f, name, p).p >= p
<1> DEFINE start == Result(0, p)
<1>1. start \in Results /\ start.p = p /\ start.args = << >>
  BY ResultTyped DEF Result
<1>2. p \in Nat /\ r.p \in Nat
  BY PlaceTyped, PlacesAre DEF Ready
<1> HIDE DEF start
<1>3. CASE name \in Printers
  <2> DEFINE a == f[<<Prints, start>>]
             e == Expect(a, "rparen")
  <2>1. a = g[<<Prints, start>>] /\ a \in Results /\ a.p >= p
    BY <1>1, PendingAre, Ask DEF Nearer
  <2>2. CallBuiltin(f, name, p) = [e EXCEPT !.v = 0]
    BY <1>3 DEF CallBuiltin, start
  <2>3. CallBuiltin(g, name, p) = [e EXCEPT !.v = 0]
    BY <1>3, <2>1 DEF CallBuiltin, start
  <2> HIDE DEF a
  <2>4. e \in Results /\ e.p >= a.p
    BY <2>1, ExpectTyped DEF Ready
  <2> HIDE DEF e
  <2>5. [e EXCEPT !.v = 0] \in Results /\ [e EXCEPT !.v = 0].p = e.p
    BY <2>4, Valued
  <2>6. e.p >= p
    BY <1>2, <2>1, <2>4, PlaceTyped DEF Ready
  <2> QED BY <2>2, <2>3, <2>5, <2>6
<1>4. CASE name \notin Printers /\ name \in DOMAIN Builtins
  <2> DEFINE args == ArgsOf(name, Builtins[name])
             a == f[<<args, start>>]
             more == [a EXCEPT !.p = Advance(@)]
             b == IF name = "text" /\ Kind(a.p) = "comma" THEN f[<<Operand(1), more>>] ELSE a
             e == Expect(b, "rparen")
             v == BuiltinValue(name, a.args)
  <2>1. args \in Pending
    BY <1>4, PendingAre, BuiltinsAre
  <2>2. a = g[<<args, start>>] /\ a \in Answers(args, start) /\ a \in Results /\ a.p >= p
    BY <1>1, <2>1, Ask DEF Nearer
  <2>3. v \in Int
    <3>1. Len(a.args) = Builtins[name]
      <4>1. Len(a.args) = Len(start.args) + Builtins[name]
        BY <1>4, <2>2 DEF Answers, ArgsOf
      <4> QED BY <1>1, <1>4, <4>1, BuiltinsAre
    <3>2. a.args \in Seq(Int)
      BY <2>2, Changed
    <3> HIDE DEF a
    <3> QED BY <1>4, <3>1, <3>2, BuiltinTyped
  <2>4. ASSUME name = "text", Kind(a.p) = "comma"
        PROVE  /\ more \in Results
               /\ f[<<Operand(1), more>>] = g[<<Operand(1), more>>]
               /\ f[<<Operand(1), more>>] \in Results /\ f[<<Operand(1), more>>].p >= p
    <3> HIDE DEF a
    <3>1. more \in Results /\ more.p > a.p
      BY <2>2, <2>4, Passed DEF Ready
    <3> HIDE DEF more
    <3>2. more.p > r.p /\ more.p > p
      <4>1. more.p \in Nat /\ a.p \in Nat
        BY <2>2, <3>1, PlaceTyped DEF Ready
      <4> QED BY <1>2, <2>2, <3>1, <4>1
    <3>3. f[<<Operand(1), more>>] = g[<<Operand(1), more>>]
          /\ f[<<Operand(1), more>>] \in Results /\ f[<<Operand(1), more>>].p >= more.p
      BY <3>1, <3>2, PendingAre, Ask DEF Nearer
    <3>4. f[<<Operand(1), more>>].p >= p
      <4>1. more.p \in Nat /\ f[<<Operand(1), more>>].p \in Nat
        BY <3>1, <3>3, PlaceTyped DEF Ready
      <4> QED BY <1>2, <3>2, <3>3, <4>1
    <3> QED BY <3>1, <3>3, <3>4
  <2>5. CallBuiltin(f, name, p) = [e EXCEPT !.v = v]
    BY <1>4 DEF CallBuiltin, start
  <2>6. CallBuiltin(g, name, p) = [e EXCEPT !.v = v]
    <3> DEFINE b2 == IF name = "text" /\ Kind(a.p) = "comma" THEN g[<<Operand(1), more>>] ELSE a
    <3>1. CallBuiltin(g, name, p) = [Expect(b2, "rparen") EXCEPT !.v = v]
      BY <1>4, <2>2 DEF CallBuiltin, start
    <3>2. b = b2
      BY <2>4
    <3> QED BY <3>1, <3>2
  <2>7. b \in Results /\ b.p >= p
    BY <2>2, <2>4
  <2> HIDE DEF b, v
  <2>8. e \in Results /\ e.p >= b.p
    BY <2>7, ExpectTyped DEF Ready
  <2> HIDE DEF e
  <2>9. [e EXCEPT !.v = v] \in Results /\ [e EXCEPT !.v = v].p = e.p
    BY <2>3, <2>8, Changed, Updated
  <2>10. e.p >= p
    BY <1>2, <2>7, <2>8, PlaceTyped DEF Ready
  <2> QED BY <2>5, <2>6, <2>9, <2>10
<1>5. CASE name \notin Printers /\ name \notin DOMAIN Builtins
  <2> DEFINE q == Match(FirstIn(p, {"rparen", "eof"}), "rparen")
  <2>1. CallBuiltin(f, name, p) = [Result(0, q) EXCEPT !.err = TRUE]
        /\ CallBuiltin(g, name, p) = [Result(0, q) EXCEPT !.err = TRUE]
    BY <1>5 DEF CallBuiltin
  <2>2. FirstIn(p, {"rparen", "eof"}) \in DOMAIN tokens /\ FirstIn(p, {"rparen", "eof"}) >= p
    BY FirstInTyped DEF Ready
  <2>3. q \in DOMAIN tokens /\ q >= FirstIn(p, {"rparen", "eof"})
    BY <2>2, MatchTyped DEF Ready
  <2>4. q >= p
    BY <1>2, <2>2, <2>3, PlacesAre DEF Ready
  <2> HIDE DEF q
  <2>5. Result(0, q) \in Results /\ Result(0, q).p = q
    BY <2>3, ResultTyped
  <2>6. [Result(0, q) EXCEPT !.err = TRUE] \in Results
        /\ [Result(0, q) EXCEPT !.err = TRUE].p = q
    BY <2>5, Changed, Updated
  <2> QED BY <2>1, <2>4, <2>6
<1> QED BY <1>3, <1>4, <1>5

LEMMA PrimaryStep ==
  ASSUME Ready, NEW f \in Evaluators, NEW g, NEW r \in Results,
         AgreeBelow(f, g, Operand(5), r)
  PROVE  Primary(f, r.p) = Primary(g, r.p) /\ Primary(f, r.p) \in Answers(Operand(5), r)
<1> DEFINE p == r.p
           next == Result(0, Advance(p))
<1>1. p \in DOMAIN tokens /\ p \in Nat
  BY Changed, PlaceTyped DEF Ready
<1>2. Advance(p) \in DOMAIN tokens /\ Advance(p) >= p
  BY <1>1, AdvanceTyped DEF Ready
<1>3. next \in Results /\ next.p = Advance(p)
  BY <1>2, ResultTyped
<1> HIDE DEF next
<1> SUFFICES Primary(f, p) = Primary(g, p) /\ Primary(f, p) \in Results /\ Primary(f, p).p >= p
  BY GoesOn
<1>4. ASSUME Kind(p) # "eof"
      PROVE  Advance(p) = p + 1 /\ next.p > p
  BY <1>1, <1>3, <1>4, AdvanceTyped DEF Ready
<1>5. ASSUME NEW l \in {1, 5}, Kind(p) # "eof"
      PROVE  /\ f[<<Operand(l), next>>] = g[<<Operand(l), next>>]
             /\ f[<<Operand(l), next>>] \in Results /\ f[<<Operand(l), next>>].p >= p
  <2>1. Operand(l) \in Pending
    BY PendingAre
  <2>2. f[<<Operand(l), next>>] = g[<<Operand(l), next>>]
        /\ f[<<Operand(l), next>>] \in Results /\ f[<<Operand(l), next>>].p >= next.p
    BY <1>3, <1>4, <1>5, <2>1, Ask DEF Nearer
  <2> QED BY <1>1, <1>2, <1>3, <2>2, PlaceTyped DEF Ready
<1>6. CASE Kind(p) = "num"
  <2>1. Primary(f, p) = [next EXCEPT !.v = tokens[p].n] /\ Primary(g, p) = Primary(f, p)
    BY <1>6 DEF Primary, next
  <2>2. tokens[p].n \in Int
    BY <1>1, PlacesAre DEF Ready
  <2>3. Primary(f, p) \in Results /\ Primary(f, p).p = next.p
    BY <1>3, <2>1, <2>2, Changed, Updated
  <2> QED BY <1>2, <1>3, <2>1, <2>3
<1>7. CASE Kind(p) = "not"
  <2> DEFINE x == f[<<Operand(5), next>>]
             v == Truth(x.v = 0)
  <2>1. x = g[<<Operand(5), next>>] /\ x \in Results /\ x.p >= p
    BY <1>5, <1>7
  <2>2. Primary(f, p) = [x EXCEPT !.v = v] /\ Primary(g, p) = Primary(f, p)
    BY <1>7, <2>1, LevelsAre DEF Primary, next
  <2>3. v \in Int
    BY DEF Truth
  <2> HIDE DEF x, v
  <2>4. [x EXCEPT !.v = v] \in Results /\ [x EXCEPT !.v = v].p = x.p
    BY <2>1, <2>3, Valued
  <2> QED BY <2>1, <2>2, <2>4
<1>8. CASE Kind(p) = "-"
  <2> DEFINE x == f[<<Operand(5), next>>]
             v == -x.v
  <2>1. x = g[<<Operand(5), next>>] /\ x \in Results /\ x.p >= p
    BY <1>5, <1>8
  <2>2. Primary(f, p) = [x EXCEPT !.v = v] /\ Primary(g, p) = Primary(f, p)
    BY <1>8, <2>1, LevelsAre DEF Primary, next
  <2>3. v \in Int
    BY <2>1, Changed
  <2> HIDE DEF x, v
  <2>4. [x EXCEPT !.v = v] \in Results /\ [x EXCEPT !.v = v].p = x.p
    BY <2>1, <2>3, Valued
  <2> QED BY <2>1, <2>2, <2>4
<1>9. CASE Kind(p) = "lparen"
  <2> DEFINE x == f[<<Operand(1), next>>]
  <2>1. x = g[<<Operand(1), next>>] /\ x \in Results /\ x.p >= p
    BY <1>5, <1>9
  <2>2. Primary(f, p) = Expect(x, "rparen") /\ Primary(g, p) = Primary(f, p)
    BY <1>9, <2>1 DEF Primary, next
  <2> HIDE DEF x
  <2>3. Expect(x, "rparen") \in Results /\ Expect(x, "rparen").p >= x.p
    BY <2>1, ExpectTyped DEF Ready
  <2>4. Expect(x, "rparen").p >= p
    BY <1>1, <2>1, <2>3, PlaceTyped DEF Ready
  <2> QED BY <2>2, <2>3, <2>4
<1>10. CASE Kind(p) = "name" /\ Kind(Advance(p)) = "lparen"
  <2>1. Advance(p) = p + 1
    BY <1>4, <1>10
  <2>2. p + 2 \in DOMAIN tokens
    <3>1. Advance(p) + 1 \in DOMAIN tokens
      BY <1>2, <1>10, AdvanceTyped DEF Ready
    <3> QED BY <1>1, <2>1, <3>1
  <2>3. Primary(f, p) = CallBuiltin(f, tokens[p].t, p + 2)
        /\ Primary(g, p) = CallBuiltin(g, tokens[p].t, p + 2)
    BY <1>10 DEF Primary
  <2>4. p + 2 > r.p
    BY <1>1
  <2> DEFINE name == tokens[p].t
             q == p + 2
  <2> HIDE DEF name, q
  <2>5. /\ CallBuiltin(f, name, q) = CallBuiltin(g, name, q)
        /\ CallBuiltin(f, name, q) \in Results /\ CallBuiltin(f, name, q).p >= q
    BY <2>2, <2>4, CallStep DEF q
  <2>6. CallBuiltin(f, name, q).p >= p
    <3>1. CallBuiltin(f, name, q).p \in Nat
      BY <2>5, PlaceTyped DEF Ready
    <3> QED BY <1>1, <2>5, <3>1 DEF q
  <2> QED BY <2>3, <2>5, <2>6 DEF name, q
<1>11. CASE Kind(p) = "name" /\ Kind(Advance(p)) # "lparen"
  <2> DEFINE v == IF Word(p) \in Names THEN env[Word(p)] ELSE 0
  <2>1. Primary(f, p) = [next EXCEPT !.v = v] /\ Primary(g, p) = Primary(f, p)
    BY <1>11 DEF Primary, next
  <2>2. v \in Int
    BY DEF Ready
  <2> HIDE DEF v
  <2>3. Primary(f, p) \in Results /\ Primary(f, p).p = next.p
    BY <1>3, <2>1, <2>2, Changed, Updated
  <2> QED BY <1>2, <1>3, <2>1, <2>3
<1>12. CASE Kind(p) \notin {"num", "not", "-", "lparen", "name"}
  <2>1. Primary(f, p) = next /\ Primary(g, p) = next
    BY <1>12 DEF Primary, next
  <2> QED BY <1>2, <1>3, <2>1
<1> QED BY <1>6, <1>7, <1>8, <1>9, <1>10, <1>11, <1>12

LEMMA UnfoldStep ==
  ASSUME Ready, NEW f \in Evaluators, NEW g, NEW c \in Pending, NEW r \in Results,
         AgreeBelow(f, g, c, r)
  PROVE  Unfold(f, c, r) = Unfold(g, c, r) /\ Unfold(f, c, r) \in Answers(c, r)
<1>1. ASSUME NEW l \in 1 .. 4, c = Operand(l)
      PROVE  Unfold(f, c, r) = Unfold(g, c, r) /\ Unfold(f, c, r) \in Answers(c, r)
  <2>1. Unfold(f, c, r) = Parse(f, l, r) /\ Unfold(g, c, r) = Parse(g, l, r)
    BY <1>1 DEF Unfold, Operand
  <2> QED BY <1>1, <2>1, ParseStep
<1>2. ASSUME c = Operand(5)
      PROVE  Unfold(f, c, r) = Unfold(g, c, r) /\ Unfold(f, c, r) \in Answers(c, r)
  <2>1. Unfold(f, c, r) = Parse(f, 5, r) /\ Unfold(g, c, r) = Parse(g, 5, r)
    BY <1>2 DEF Unfold, Operand
  <2>2. CASE ~Goes(r)
    <3>1. Parse(f, 5, r) = [r EXCEPT !.v = 0] /\ Parse(g, 5, r) = [r EXCEPT !.v = 0]
      BY <2>2 DEF Parse
    <3>2. [r EXCEPT !.v = 0] \in Results /\ [r EXCEPT !.v = 0].p >= r.p
      BY Valued, PlaceTyped DEF Ready
    <3> QED BY <1>2, <2>1, <3>1, <3>2, GoesOn
  <2>3. CASE Goes(r)
    <3>1. Parse(f, 5, r) = Primary(f, r.p) /\ Parse(g, 5, r) = Primary(g, r.p)
      BY <2>3, LevelsAre DEF Parse
    <3> QED BY <1>2, <2>1, <3>1, PrimaryStep
  <2> QED BY <2>2, <2>3
<1>3. ASSUME NEW l \in 1 .. 4, c = Rest(l)
      PROVE  Unfold(f, c, r) = Unfold(g, c, r) /\ Unfold(f, c, r) \in Answers(c, r)
  <2>1. Unfold(f, c, r) = Climb(f, l, r) /\ Unfold(g, c, r) = Climb(g, l, r)
    BY <1>3 DEF Unfold, Rest
  <2> QED BY <1>3, <2>1, ClimbStep
<1>4. ASSUME c = Prints
      PROVE  Unfold(f, c, r) = Unfold(g, c, r) /\ Unfold(f, c, r) \in Answers(c, r)
  <2>1. Unfold(f, c, r) = PrintArguments(f, r) /\ Unfold(g, c, r) = PrintArguments(g, r)
    BY <1>4 DEF Unfold, Prints
  <2> QED BY <1>4, <2>1, PrintStep
<1>5. ASSUME NEW name \in DOMAIN Builtins, NEW n \in 0 .. 7, c = ArgsOf(name, n)
      PROVE  Unfold(f, c, r) = Unfold(g, c, r) /\ Unfold(f, c, r) \in Answers(c, r)
  <2>1. Unfold(f, c, r) = Arguments(f, name, n, r) /\ Unfold(g, c, r) = Arguments(g, name, n, r)
    BY <1>5, BuiltinsAre DEF Unfold, ArgsOf
  <2> QED BY <1>5, <2>1, ArgumentsStep
<1>6. \/ \E l \in 1 .. 4 : c = Operand(l)
      \/ c = Operand(5)
      \/ \E l \in 1 .. 4 : c = Rest(l)
      \/ c = Prints
      \/ \E name \in DOMAIN Builtins : \E n \in 0 .. 7 : c = ArgsOf(name, n)
  <2>1. \A l \in 1 .. 5 : l \in 1 .. 4 \/ l = 5
    OBVIOUS
  <2> QED BY <2>1, PendingAre
<1> QED BY <1>1, <1>2, <1>3, <1>4, <1>5, <1>6

\* Places first, and what is pending second.
RankOf(c, r) == 14 * (Len(tokens) - r.p) + Weight(c)

LEMMA NearerIsLower ==
  ASSUME Lexed, NEW d \in Pending, NEW q \in Results, NEW c \in Pending, NEW r \in Results
  PROVE  /\ RankOf(c, r) \in Nat /\ RankOf(c, r) < 14 * Len(tokens) + 14
         /\ Nearer(d, q, c, r) => RankOf(d, q) < RankOf(c, r)
<1>1. Weight(c) \in 0 .. 13 /\ Weight(d) \in 0 .. 13
  BY WeightTyped
<1>2. q.p \in 1 .. Len(tokens) /\ r.p \in 1 .. Len(tokens) /\ Len(tokens) \in Nat
  BY Changed, PlacesAre
<1>3. \A n \in Nat : \A x, y \in 1 .. n : \A v, w \in 0 .. 13 :
        /\ 14 * (n - x) + w \in Nat /\ 14 * (n - x) + w < 14 * n + 14
        /\ (y > x \/ (y >= x /\ v < w)) => 14 * (n - y) + v < 14 * (n - x) + w
  OBVIOUS
<1> QED BY <1>1, <1>2, <1>3, Zenon DEF RankOf, Nearer

LEMMA AnswersExist ==
  ASSUME Lexed, NEW c \in Pending, NEW r \in Results
  PROVE  Answers(c, r) # {}
<1>1. CASE c[1] \in DOMAIN Builtins
  <2> DEFINE n == Len(r.args) + c[2]
             args == [i \in 1 .. n |-> 0]
  <2>1. n \in Nat
    <3>1. c[2] \in Nat
      BY <1>1, BuiltinsAre, LevelsAre DEF Pending, Prints
    <3>2. Len(r.args) \in Nat
      BY Changed
    <3> QED BY <3>1, <3>2
  <2> HIDE DEF n
  <2>2. args \in Seq(Int) /\ Len(args) = n
    BY <2>1
  <2> HIDE DEF args
  <2>3. [r EXCEPT !.args = args] \in Results /\ [r EXCEPT !.args = args].p = r.p
        /\ [r EXCEPT !.args = args].args = args
    BY <2>2 DEF Results
  <2>4. [r EXCEPT !.args = args] \in Answers(c, r)
    BY <2>2, <2>3, PlaceTyped DEF Answers, n
  <2> QED BY <2>4
<1>2. CASE c[1] \notin DOMAIN Builtins
  <2>1. r \in Answers(c, r)
    BY <1>2, PlaceTyped DEF Answers
  <2> QED BY <2>1
<1> QED BY <1>1, <1>2

\* The evaluation of expressions is defined, and never goes back.
LEMMA EvalDefined ==
  ASSUME Ready
  PROVE  Eval \in Evaluators
<1> DEFINE Step == [f \in Evaluators |-> [x \in Asked |-> Unfold(f, x[1], x[2])]]
           rank == [x \in Asked |-> RankOf(x[1], x[2])]
           bound == 14 * Len(tokens) + 14
<1>1. \A x \in Asked : x[1] \in Pending /\ x[2] \in Results /\ x = <<x[1], x[2]>>
  BY DEF Asked
<1>2. rank \in [Asked -> Nat] /\ bound \in Nat /\ \A x \in Asked : rank[x] < bound
  <2>1. \A x \in Asked : RankOf(x[1], x[2]) \in Nat /\ RankOf(x[1], x[2]) < bound
    BY <1>1, NearerIsLower DEF Ready
  <2>2. bound \in Nat
    BY PlacesAre DEF Ready
  <2> HIDE DEF bound
  <2> QED BY <2>1, <2>2
<1>3. ASSUME NEW f, NEW g, NEW x \in Asked, \A y \in Asked : rank[y] < rank[x] => f[y] = g[y]
      PROVE  AgreeBelow(f, g, x[1], x[2])
  <2>1. SUFFICES ASSUME NEW d \in Pending, NEW q \in Results, Nearer(d, q, x[1], x[2])
                 PROVE  f[<<d, q>>] = g[<<d, q>>]
    BY DEF AgreeBelow
  <2>2. <<d, q>> \in Asked /\ rank[<<d, q>>] = RankOf(d, q) /\ rank[x] = RankOf(x[1], x[2])
    BY DEF Asked
  <2>3. rank[<<d, q>>] < rank[x]
    BY <1>1, <2>1, <2>2, NearerIsLower DEF Ready
  <2> HIDE DEF rank
  <2> QED BY <1>3, <2>2, <2>3
<1>4. Evaluators # {}
  <2> DEFINE f == [x \in Asked |-> CHOOSE a : a \in Answers(x[1], x[2])]
  <2>1. \A c \in Pending : \A r \in Results : f[<<c, r>>] \in Answers(c, r)
    <3>1. SUFFICES ASSUME NEW c \in Pending, NEW r \in Results
                   PROVE  f[<<c, r>>] \in Answers(c, r)
      OBVIOUS
    <3>2. Answers(c, r) # {}
      BY AnswersExist DEF Ready
    <3>3. f[<<c, r>>] = CHOOSE a : a \in Answers(c, r)
      BY DEF Asked
    <3> QED BY <3>2, <3>3
  <2>2. \A x \in Asked : f[x] \in Results
    <3>1. SUFFICES ASSUME NEW x \in Asked PROVE f[x] \in Results
      OBVIOUS
    <3>2. f[<<x[1], x[2]>>] \in Answers(x[1], x[2])
      BY <1>1, <2>1
    <3> HIDE DEF f
    <3> QED BY <1>1, <3>2 DEF Answers
  <2>3. f \in [Asked -> Results]
    BY <2>2
  <2> HIDE DEF f
  <2> QED BY <2>1, <2>3 DEF Evaluators
<1>5. Step \in [Evaluators -> Evaluators]
  <2>1. SUFFICES ASSUME NEW f \in Evaluators
                 PROVE  [x \in Asked |-> Unfold(f, x[1], x[2])] \in Evaluators
    OBVIOUS
  <2> DEFINE h == [x \in Asked |-> Unfold(f, x[1], x[2])]
  <2>2. \A c \in Pending : \A r \in Results : Unfold(f, c, r) \in Answers(c, r)
    BY UnfoldStep DEF AgreeBelow
  <2>3. \A c \in Pending : \A r \in Results : h[<<c, r>>] = Unfold(f, c, r)
    BY DEF Asked
  <2>4. h \in [Asked -> Results]
    BY <1>1, <2>2 DEF Answers
  <2> HIDE DEF h
  <2>5. h \in Evaluators
    BY <2>2, <2>3, <2>4 DEF Evaluators
  <2> QED BY <2>5 DEF h
<1>6. \A f, g \in Evaluators : \A x \in Asked :
        (\A y \in Asked : rank[y] < rank[x] => f[y] = g[y]) => Step[f][x] = Step[g][x]
  <2>1. SUFFICES ASSUME NEW f \in Evaluators, NEW g \in Evaluators, NEW x \in Asked,
                        \A y \in Asked : rank[y] < rank[x] => f[y] = g[y]
                 PROVE  Step[f][x] = Step[g][x]
    OBVIOUS
  <2>2. AgreeBelow(f, g, x[1], x[2])
    BY <1>3, <2>1
  <2>3. Unfold(f, x[1], x[2]) = Unfold(g, x[1], x[2])
    BY <1>1, <2>2, UnfoldStep
  <2> QED BY <2>3
<1>7. PICK f \in Evaluators : f = Step[f]
  <2>1. \A f \in Evaluators : f = [x \in Asked |-> f[x]]
    BY DEF Evaluators
  <2> HIDE DEF Step, rank, bound
  <2>2. Descends(Asked, Evaluators, Step, rank, bound)
    BY <1>2, <1>4, <1>5, <1>6, <2>1 DEF Descends
  <2> QED BY <2>2, Recursion, Zenon
<1>8. f = [x \in Asked |-> Unfold(f, x[1], x[2])]
  BY <1>7
<1>9. Eval = [x \in Asked |-> Unfold(Eval, x[1], x[2])]
  BY <1>8 DEF Eval, Asked
<1>10. Agreeing(Asked, f, Eval)
  <2>1. SameSteps(Asked, rank, f, Eval)
    <3>1. SUFFICES ASSUME NEW x \in Asked, \A y \in Asked : rank[y] < rank[x] => f[y] = Eval[y]
                   PROVE  f[x] = Eval[x]
      BY <1>2 DEF SameSteps
    <3>2. AgreeBelow(f, Eval, x[1], x[2])
      BY <1>3, <3>1
    <3>3. Unfold(f, x[1], x[2]) = Unfold(Eval, x[1], x[2])
      BY <1>1, <3>2, UnfoldStep
    <3> QED BY <1>8, <1>9, <3>3
  <2> HIDE DEF rank
  <2> QED BY <2>1, Agree, Zenon
<1>11. Eval = f
  <2>1. Eval = [x \in Asked |-> Eval[x]]
    BY <1>9
  <2>2. f = [x \in Asked |-> f[x]]
    BY <1>8
  <2> QED BY <1>10, <2>1, <2>2 DEF Agreeing
<1> QED BY <1>11

\* Every expression is evaluated behind the place it begins at, within the tokens.
LEMMA ExprTyped ==
  ASSUME Ready
  PROVE  /\ \A r \in Results : ExprAt(r) \in Results /\ ExprAt(r).p >= r.p
         /\ error \in BOOLEAN => \A p \in DOMAIN tokens : Expr(p) \in Results /\ Expr(p).p >= p
<1>1. Eval \in Evaluators /\ Operand(1) \in Pending
  BY EvalDefined, PendingAre
<1>2. \A r \in Results : Eval[<<Operand(1), r>>] \in Answers(Operand(1), r)
  BY <1>1 DEF Evaluators
<1>3. \A r \in Results : Eval[<<Operand(1), r>>] \in Results /\ Eval[<<Operand(1), r>>].p >= r.p
  BY <1>2 DEF Answers
<1>4. ASSUME error \in BOOLEAN, NEW p \in DOMAIN tokens
      PROVE  Expr(p) \in Results /\ Expr(p).p >= p
  <2> DEFINE r == [Result(0, p) EXCEPT !.err = error]
  <2>1. r \in Results /\ r.p = p
    <3>1. Result(0, p) \in Results /\ Result(0, p).p = p
      BY <1>4, ResultTyped
    <3> QED BY <1>4, <3>1, Flagged
  <2> HIDE DEF r
  <2>2. Expr(p) = Eval[<<Operand(1), r>>]
    BY DEF Expr, r
  <2> QED BY <1>3, <2>1, <2>2
<1> QED BY <1>3, <1>4 DEF ExprAt

-----------------------------------------------------------------------------
(* The inductive invariant.                                                *)

\* What a C call that waits for a block has noted.
Frames ==
  [c : {"then", "else", "again"}, t : DOMAIN tokens]
  \cup [c : {"while"}, t : DOMAIN tokens, cond : DOMAIN tokens]
  \cup [c : {"repeat"}, t : DOMAIN tokens, body : DOMAIN tokens, i : Int, cnt : Int]
  \cup [c : {"for"}, t : DOMAIN tokens, v : Texts, body : DOMAIN tokens,
        i : Int, to : Int, step : Int]

\* Where it jumps back to is behind where it began.
Onward(f) ==
  /\ f.c = "while" => f.cond > f.t
  /\ f.c \in {"repeat", "for"} => f.body > f.t

IInv ==
  /\ TypeOK /\ NestedInOrder
  /\ prog \in Sources
  /\ IF mode = "lex"
     THEN src = Text(prog.written, prog.layout) /\ stk = << >> /\ tok_pos = 1
     ELSE Lexed
  /\ stk \in Seq(Frames) /\ \A i \in DOMAIN stk : Onward(stk[i])
  /\ mode = "test" => stk # << >> /\ Head(stk).c = "while"

\* The invariant behind the lexer, of which a step keeps most.
Runs ==
  /\ mode # "lex" /\ Lexed /\ tok_pos \in DOMAIN tokens
  /\ env \in [Names -> Int] /\ nfuncs \in 0 .. MAX_FUNCS /\ error \in BOOLEAN
  /\ flag \in {"none", "break", "continue", "return"}
  /\ prog \in Sources
  /\ stk \in Seq(Frames) /\ (\A i \in DOMAIN stk : Onward(stk[i])) /\ NestedInOrder

LEMMA RunsIs ==
  ASSUME IInv, mode # "lex"
  PROVE  Runs /\ Ready /\ Now \in Results /\ Now.p = tok_pos
<1>1. Runs
  <2>1. tok_pos \in DOMAIN tokens
    BY PlacesAre DEF IInv, TypeOK
  <2> QED BY <2>1 DEF IInv, TypeOK, Runs
<1>2. Ready
  BY <1>1 DEF Ready, Runs
<1>3. Now \in Results /\ Now.p = tok_pos
  <2>1. Result(0, tok_pos) \in Results /\ Result(0, tok_pos).p = tok_pos
    <3>1. tok_pos \in DOMAIN tokens
      BY <1>1 DEF Runs
    <3> QED BY <3>1, ResultTyped
  <2> QED BY <1>1, <2>1, Flagged DEF Now, Runs
<1> QED BY <1>1, <1>2, <1>3

LEMMA FrameTyped ==
  ASSUME NEW f \in Frames
  PROVE  /\ f.t \in DOMAIN tokens
         /\ f.c = "while" => f.cond \in DOMAIN tokens
         /\ f.c \in {"repeat", "for"} => f.body \in DOMAIN tokens
         /\ f.c = "for" => f.i \in Int /\ f.to \in Int /\ f.step \in Int
         /\ f.c \in {"repeat", "for"} =>
              \A i \in Int : /\ [f EXCEPT !.i = i] \in Frames
                             /\ [f EXCEPT !.i = i].c = f.c /\ [f EXCEPT !.i = i].t = f.t
                             /\ [f EXCEPT !.i = i].body = f.body
         /\ f.c = "repeat" => f.i \in Int
<1>1. CASE f \in [c : {"then", "else", "again"}, t : DOMAIN tokens]
  BY <1>1
<1>2. CASE f \in [c : {"while"}, t : DOMAIN tokens, cond : DOMAIN tokens]
  BY <1>2
<1>3. CASE f \in [c : {"repeat"}, t : DOMAIN tokens, body : DOMAIN tokens, i : Int, cnt : Int]
  BY <1>3 DEF Frames
<1>4. CASE f \in [c : {"for"}, t : DOMAIN tokens, v : Texts, body : DOMAIN tokens,
                  i : Int, to : Int, step : Int]
  BY <1>4 DEF Frames
<1> QED BY <1>1, <1>2, <1>3, <1>4 DEF Frames

\* The frames below the innermost.
LEMMA Below ==
  ASSUME Runs, stk # << >>
  PROVE  /\ Head(stk) \in Frames /\ Onward(Head(stk)) /\ Head(stk).t < tok_pos
         /\ Tail(stk) \in Seq(Frames) /\ Len(Tail(stk)) = Len(stk) - 1
         /\ \A i \in DOMAIN Tail(stk) : Tail(stk)[i] = stk[i + 1] /\ i + 1 \in DOMAIN stk
         /\ Tail(stk) # << >> => Head(Tail(stk)) = stk[2] /\ stk[2].t < Head(stk).t
<1>1. stk \in Seq(Frames) /\ Len(stk) \in Nat \ {0} /\ DOMAIN stk = 1 .. Len(stk)
  BY DEF Runs
<1>2. Head(stk) = stk[1] /\ 1 \in DOMAIN stk
  BY <1>1
<1>3. Tail(stk) \in Seq(Frames) /\ Len(Tail(stk)) = Len(stk) - 1
      /\ \A i \in DOMAIN Tail(stk) : Tail(stk)[i] = stk[i + 1] /\ i + 1 \in DOMAIN stk
  BY <1>1
<1>4. ASSUME Tail(stk) # << >>
      PROVE  Head(Tail(stk)) = stk[2] /\ stk[2].t < Head(stk).t
  <2>1. Len(Tail(stk)) # 0
    BY <1>3, <1>4
  <2>2. 1 \in 1 .. Len(stk) - 1 /\ 1 \in DOMAIN Tail(stk)
    BY <1>1, <1>3, <2>1
  <2>3. Head(Tail(stk)) = stk[1 + 1]
    BY <1>3, <2>2
  <2> QED BY <1>2, <2>2, <2>3 DEF Runs, NestedInOrder
<1> QED BY <1>1, <1>2, <1>3, <1>4 DEF Runs, NestedInOrder

\* What every step on the tokens leaves.
Leaves ==
  /\ Same
  /\ env' \in [Names -> Int] /\ nfuncs' \in 0 .. MAX_FUNCS

\* The stack, with the place of its innermost call before tok_pos.
Stacked(s, p) ==
  /\ s \in Seq(Frames) /\ \A i \in DOMAIN s : Onward(s[i])
  /\ \A i \in 1 .. Len(s) - 1 : s[i + 1].t < s[i].t
  /\ s # << >> => Head(s).t < p

LEMMA StackedAre ==
  ASSUME Runs, NEW p \in DOMAIN tokens
  PROVE  /\ p >= tok_pos => Stacked(stk, p)
         /\ stk # << >> /\ p >= Head(stk).t => Stacked(Tail(stk), p)
         /\ \A f \in Frames :
              /\ Onward(f) /\ f.t >= tok_pos /\ f.t < p => Stacked(<< f >> \o stk, p)
              /\ stk # << >> /\ Onward(f) /\ f.t = Head(stk).t /\ f.t < p
                   => Stacked(<< f >> \o Tail(stk), p)
<1>1. p \in Nat /\ tok_pos \in Nat /\ \A f \in Frames : f.t \in Nat
  BY PlacesAre, FrameTyped DEF Runs
<1>2. stk # << >> => Head(stk) \in Frames
  BY Below
<1>3. ASSUME p >= tok_pos PROVE Stacked(stk, p)
  BY <1>1, <1>2, <1>3 DEF Stacked, Runs, NestedInOrder
<1>4. ASSUME stk # << >> PROVE \A q : q \in Nat /\ q >= Head(stk).t => Stacked(Tail(stk), q)
  <2> DEFINE s == Tail(stk)
  <2>1. s \in Seq(Frames) /\ Len(s) = Len(stk) - 1 /\ Len(stk) \in Nat /\ Len(s) \in Nat
    BY <1>4, Below DEF Runs
  <2>2. \A i \in DOMAIN s : s[i] = stk[i + 1] /\ i + 1 \in DOMAIN stk
    BY <1>4, Below
  <2>3. \A i \in DOMAIN s : Onward(s[i])
    BY <2>2 DEF Runs
  <2>4. \A i \in 1 .. Len(s) - 1 : s[i + 1].t < s[i].t
    <3>1. SUFFICES ASSUME NEW i \in 1 .. Len(s) - 1 PROVE s[i + 1].t < s[i].t
      OBVIOUS
    <3>2. i \in DOMAIN s /\ i + 1 \in DOMAIN s /\ i + 1 \in 1 .. Len(stk) - 1
      BY <2>1
    <3>3. s[i] = stk[i + 1] /\ s[i + 1] = stk[(i + 1) + 1]
      BY <2>2, <3>2
    <3> HIDE DEF s
    <3> QED BY <3>2, <3>3 DEF Runs, NestedInOrder
  <2>5. s # << >> => Head(s) \in Frames /\ Head(s).t < Head(stk).t
    BY <1>4, <2>1, Below
  <2> HIDE DEF s
  <2>6. \A q : q \in Nat /\ q >= Head(stk).t /\ s # << >> => Head(s).t < q
    BY <1>1, <1>2, <1>4, <2>5
  <2> QED BY <2>1, <2>3, <2>4, <2>6 DEF Stacked, s
<1>5. ASSUME NEW f \in Frames, Onward(f), f.t < p, NEW s, Stacked(s, f.t)
      PROVE  Stacked(<< f >> \o s, p)
  <2> DEFINE new == << f >> \o s
  <2>1. s \in Seq(Frames) /\ Len(s) \in Nat
    BY <1>5 DEF Stacked
  <2>2. new \in Seq(Frames) /\ Len(new) = Len(s) + 1 /\ Head(new) = f /\ new[1] = f
    BY <2>1
  <2>3. \A i \in 2 .. Len(new) : new[i] = s[i - 1] /\ i - 1 \in DOMAIN s
    BY <2>1
  <2> HIDE DEF new
  <2>4. \A i \in DOMAIN new : Onward(new[i])
    <3>1. SUFFICES ASSUME NEW i \in DOMAIN new PROVE Onward(new[i])
      OBVIOUS
    <3>2. i = 1 \/ i \in 2 .. Len(new)
      BY <2>1, <2>2
    <3> QED BY <1>5, <2>2, <2>3, <3>2 DEF Stacked
  <2>5. \A i \in 1 .. Len(new) - 1 : new[i + 1].t < new[i].t
    <3>1. SUFFICES ASSUME NEW i \in 1 .. Len(new) - 1 PROVE new[i + 1].t < new[i].t
      OBVIOUS
    <3>2. new[i + 1] = s[i]
      BY <2>1, <2>2, <2>3
    <3>3. CASE i = 1
      <4>1. s # << >> /\ Head(s) = s[1]
        BY <2>1, <2>2, <3>1, <3>3
      <4> QED BY <1>5, <2>2, <3>2, <3>3, <4>1 DEF Stacked
    <3>4. CASE i # 1
      <4>1. i - 1 \in 1 .. Len(s) - 1 /\ i \in 2 .. Len(new)
        BY <2>1, <2>2, <3>1, <3>4
      <4>2. s[(i - 1) + 1].t < s[i - 1].t
        BY <1>5, <4>1 DEF Stacked
      <4>3. new[i] = s[i - 1] /\ (i - 1) + 1 = i
        BY <2>3, <4>1
      <4> QED BY <3>2, <4>2, <4>3
    <3> QED BY <3>3, <3>4
  <2> QED BY <1>5, <2>2, <2>4, <2>5 DEF Stacked, new
<1>6. ASSUME NEW f \in Frames, Onward(f), f.t >= tok_pos, f.t < p
      PROVE  Stacked(<< f >> \o stk, p)
  <2>1. Stacked(stk, f.t)
    BY <1>1, <1>2, <1>6 DEF Stacked, Runs, NestedInOrder
  <2> QED BY <1>5, <1>6, <2>1
<1>7. ASSUME NEW f \in Frames, stk # << >>, Onward(f), f.t = Head(stk).t, f.t < p
      PROVE  Stacked(<< f >> \o Tail(stk), p)
  <2>1. Stacked(Tail(stk), f.t)
    BY <1>1, <1>4, <1>7
  <2> QED BY <1>5, <1>7, <2>1
<1> QED BY <1>1, <1>3, <1>4, <1>6, <1>7

LEMMA Unchanged ==
  ASSUME Same
  PROVE  /\ Frames' = Frames /\ Results' = Results /\ (Lexed' <=> Lexed)
         /\ \A s, p : Stacked(s, p)' <=> Stacked(s, p)
         /\ prog' = prog /\ tokens' = tokens
BY DEF Same, Frames, Results, Lexed, Kind, Stacked, Onward

\* A statement that is over keeps the stack, or takes the innermost call off it.
LEMMA OverKeeps ==
  ASSUME Runs, Leaves, NEW r \in Results, NEW f \in {"none", "break", "continue", "return"},
         Over(r, f), Stacked(stk', r.p)
  PROVE  IInv'
<1>1. /\ tok_pos' = r.p /\ error' = r.err /\ flag' = f
      /\ mode' \in {"stuck", "block", "leave"}
  BY DEF Over
<1>2. r.p \in DOMAIN tokens /\ r.err \in BOOLEAN /\ r.p \in 1 .. Len(tokens)
  BY Changed, PlacesAre DEF Runs
<1>3. Lexed' /\ Frames' = Frames /\ prog' = prog /\ tokens' = tokens
  BY Unchanged DEF Leaves, Runs
<1>4. NestedInOrder' /\ stk' \in Seq(Frames) /\ \A i \in DOMAIN stk' : Onward(stk'[i])
  BY <1>1 DEF Stacked, NestedInOrder
<1>5. TypeOK'
  BY <1>1, <1>2, <1>3 DEF TypeOK, Leaves
<1> QED BY <1>1, <1>3, <1>4, <1>5 DEF IInv, Runs, Onward

\* A block that is entered puts a call on it.
LEMMA EnterKeeps ==
  ASSUME Runs, Leaves, NEW r \in Results, NEW frame, NEW below, Enter(r, frame, below),
         Stacked(<< frame >> \o below, r.p)
  PROVE  IInv'
<1>1. /\ tok_pos' = r.p /\ error' = r.err /\ flag' = flag /\ stk' = << frame >> \o below
      /\ mode' \in {"stuck", "block"}
  BY DEF Enter
<1>2. r.p \in DOMAIN tokens /\ r.err \in BOOLEAN /\ r.p \in 1 .. Len(tokens)
  BY Changed, PlacesAre DEF Runs
<1>3. Lexed' /\ Frames' = Frames /\ prog' = prog /\ tokens' = tokens
  BY Unchanged DEF Leaves, Runs
<1>4. NestedInOrder' /\ stk' \in Seq(Frames) /\ \A i \in DOMAIN stk' : Onward(stk'[i])
  BY <1>1 DEF Stacked, NestedInOrder
<1>5. TypeOK'
  BY <1>1, <1>2, <1>3 DEF TypeOK, Leaves, Runs
<1> QED BY <1>1, <1>3, <1>4, <1>5 DEF IInv, Runs, Onward

\* The statement that begins after the newlines.
LEMMA HereTyped ==
  ASSUME IInv, Running
  PROVE  /\ mode = "block" /\ error = FALSE
         /\ Here \in DOMAIN tokens /\ Here >= tok_pos /\ Here \in Nat
         /\ Kind(Here) # "eof" /\ Here + 1 \in DOMAIN tokens /\ Advance(Here) = Here + 1
         /\ Assigns => Here + 2 \in DOMAIN tokens /\ Word(Here) \in Texts
<1>1. mode = "block" /\ ~error /\ Kind(Here) # "eof"
  BY DEF Running
<1>2. Runs /\ Lexed /\ tok_pos \in DOMAIN tokens
  BY <1>1, RunsIs DEF Runs
<1>3. Here \in DOMAIN tokens /\ Here >= tok_pos /\ Here \in Nat
  BY <1>2, SkipNewlinesTyped, PlacesAre DEF Here
<1>4. Here + 1 \in DOMAIN tokens /\ Advance(Here) = Here + 1
  BY <1>1, <1>2, <1>3, AdvanceTyped
<1>5. ASSUME Assigns PROVE Here + 2 \in DOMAIN tokens /\ Word(Here) \in Texts
  <2>1. Kind(Here + 1) # "eof"
    BY <1>5 DEF Assigns
  <2>2. (Here + 1) + 1 \in DOMAIN tokens
    BY <1>2, <1>4, <2>1, AdvanceTyped
  <2>3. tokens[Here] \in Tokens
    BY <1>2, <1>3 DEF Lexed
  <2> QED BY <1>3, <1>5, <2>2, <2>3 DEF Word, Tokens, Texts
<1>6. error = FALSE
  BY <1>1 DEF IInv, TypeOK
<1> QED BY <1>1, <1>3, <1>4, <1>5, <1>6

LEMMA BehindTyped ==
  ASSUME Lexed, NEW r \in Results
  PROVE  Behind(r) \in Results /\ Behind(r).p >= r.p
<1>1. SkipBlock(r.p) \in DOMAIN tokens /\ SkipBlock(r.p) >= r.p
  BY SkipBlockTyped, Changed
<1> QED BY <1>1, Changed, Updated DEF Behind

\* A place behind another; and one behind that.
LEMMA Placed ==
  ASSUME Lexed, NEW r \in Results, NEW p \in DOMAIN tokens
  PROVE  [r EXCEPT !.p = p] \in Results /\ [r EXCEPT !.p = p].p = p
BY DEF Results

LEMMA SetVarTyped ==
  ASSUME env \in [Names -> Int], NEW v, NEW x \in Int, SetVar(v, x)
  PROVE  env' \in [Names -> Int]
BY DEF SetVar

LEMMA Wronged ==
  ASSUME Lexed, NEW r \in Results, NEW p \in DOMAIN tokens
  PROVE  [r EXCEPT !.p = p, !.err = TRUE] \in Results /\ [r EXCEPT !.p = p, !.err = TRUE].p = p
BY DEF Results

LEMMA StayKeeps ==
  ASSUME IInv, mode # "lex", Leaves, NEW r \in Results, r.p >= tok_pos,
         NEW f \in {"none", "break", "continue", "return"}, Over(r, f), stk' = stk
  PROVE  IInv'
<1>1. Runs
  BY RunsIs
<1>2. r.p \in DOMAIN tokens
  BY Changed
<1>3. Stacked(stk', r.p)
  BY <1>1, <1>2, StackedAre
<1> QED BY <1>1, <1>3, OverKeeps

LEMMA LeaveKeeps ==
  ASSUME IInv, mode # "lex", Leaves, NEW r \in Results, stk # << >>, r.p >= Head(stk).t,
         NEW f \in {"none", "break", "continue", "return"}, Over(r, f), stk' = Tail(stk)
  PROVE  IInv'
<1>1. Runs
  BY RunsIs
<1>2. r.p \in DOMAIN tokens
  BY Changed
<1>3. Stacked(stk', r.p)
  BY <1>1, <1>2, StackedAre
<1> QED BY <1>1, <1>3, OverKeeps

-----------------------------------------------------------------------------
(* The steps.                                                              *)

LEMMA LexKeeps ==
  ASSUME IInv, Lex
  PROVE  IInv'
<1> DEFINE text == Text(prog.written, prog.layout)
           toks == tpl_lexer(text, prog.limit)
<1>1. mode = "lex" /\ prog \in Sources /\ src = text /\ stk = << >> /\ tok_pos = 1
  BY DEF IInv, Lex
<1>2. prog.written \in Seq(Written) /\ prog.layout \in Layouts /\ prog.limit \in Nat
  BY <1>1, SourcesAssumption
<1>3. text \in Seq(Tokens)
  BY <1>2, TextTyped
<1>4. toks \in Seq(Tokens) /\ toks # << >> /\ toks[Len(toks)].k = "eof"
  <2> HIDE DEF text
  <2> QED BY <1>2, <1>3, LexerTyped
<1>5. tokens' = toks
  BY <1>1 DEF Lex
<1> HIDE DEF toks
<1>6. tokens' \in Seq(Tokens) /\ tokens' # << >> /\ tokens'[Len(tokens')].k = "eof"
  BY <1>4, <1>5
<1>7. Lexed'
  BY <1>6 DEF Lexed, Kind
<1>8. 1 \in 1 .. Len(tokens')
  BY <1>6
<1>9. stk' = << >> /\ tok_pos' = 1 /\ mode' = "block" /\ prog' = prog
      /\ env' = env /\ nfuncs' = nfuncs /\ error' = error /\ flag' = flag
  BY <1>1 DEF Lex
<1>10. TypeOK'
  BY <1>8, <1>9 DEF TypeOK, IInv
<1>11. NestedInOrder'
  BY <1>9 DEF NestedInOrder
<1> QED BY <1>1, <1>7, <1>9, <1>10, <1>11 DEF IInv

LEMMA BlockEndKeeps ==
  ASSUME IInv, BlockEnd
  PROVE  IInv'
<1>1. Runs /\ tok_pos \in DOMAIN tokens
  BY RunsIs DEF BlockEnd, Runs
<1> DEFINE p == IF error THEN tok_pos ELSE Here
<1>2. p \in DOMAIN tokens /\ p >= tok_pos
  BY <1>1, SkipNewlinesTyped, PlacesAre DEF Here, Runs
<1>3. p \in 1 .. Len(tokens)
  BY <1>1, <1>2, PlacesAre DEF Runs
<1>4. Stacked(stk, p)
  BY <1>1, <1>2, StackedAre
<1>5. tok_pos' = p /\ stk' = stk /\ mode' = "leave" /\ flag' = "none" /\ Same
      /\ env' = env /\ nfuncs' = nfuncs /\ error' = error
  BY DEF BlockEnd
<1>6. Lexed' /\ Frames' = Frames /\ prog' = prog /\ tokens' = tokens
  BY <1>1, <1>5, Unchanged DEF Runs
<1> HIDE DEF p
<1>7. TypeOK'
  BY <1>1, <1>3, <1>5, <1>6 DEF TypeOK, Runs
<1>8. NestedInOrder'
  BY <1>4, <1>5 DEF Stacked, NestedInOrder
<1> QED BY <1>1, <1>5, <1>6, <1>7, <1>8 DEF IInv, Runs, Onward

LEMMA FinishKeeps ==
  ASSUME IInv, Finish
  PROVE  IInv'
<1>1. Runs
  BY RunsIs DEF Finish
<1>2. Lexed' /\ Frames' = Frames /\ prog' = prog /\ tokens' = tokens /\ mode' = "done"
      /\ tok_pos' = tok_pos /\ env' = env /\ nfuncs' = nfuncs /\ error' = error
      /\ stk' = stk /\ flag' = flag
  BY <1>1, Unchanged DEF Finish, Runs
<1>3. TypeOK' /\ NestedInOrder'
  BY <1>2 DEF IInv, TypeOK, NestedInOrder, Finish
<1> QED BY <1>1, <1>2, <1>3 DEF IInv, Runs, Onward

LEMMA ExecVarKeeps ==
  ASSUME IInv, ExecVar
  PROVE  IInv'
<1> DEFINE name == Here + 1
           wrong == [Now EXCEPT !.p = name, !.err = TRUE]
           x == IF Kind(Advance(name)) = "=" THEN Expr(name + 2)
                ELSE [Now EXCEPT !.p = Advance(name)]
<1>1. Running
  BY DEF ExecVar, At
<1>2. mode = "block" /\ name \in DOMAIN tokens /\ name >= tok_pos
  BY <1>1, HereTyped, RunsIs, PlacesAre DEF Runs
<1>3. Runs /\ Ready /\ Lexed /\ Now \in Results
  BY <1>2, RunsIs DEF Runs
<1>4. /\ Same /\ nfuncs' = nfuncs /\ stk' = stk
  BY DEF ExecVar
<1>5. CASE Kind(name) # "name"
  <2>1. Over(wrong, "none") /\ env' = env
    BY <1>5 DEF ExecVar
  <2>2. wrong \in Results /\ wrong.p >= tok_pos
    BY <1>2, <1>3, Wronged
  <2>3. Leaves
    BY <1>3, <1>4, <2>1 DEF Leaves, Runs
  <2> HIDE DEF wrong
  <2> QED BY <1>2, <1>4, <2>1, <2>2, <2>3, StayKeeps
<1>6. CASE Kind(name) = "name"
  <2>1. Over(x, "none") /\ ((x.stuck /\ env' = env) \/ SetVar(Word(name), x.v))
    BY <1>6 DEF ExecVar
  <2>2. Advance(name) = name + 1 /\ name + 1 \in DOMAIN tokens
    BY <1>2, <1>3, <1>6, AdvanceTyped
  <2>3. x \in Results /\ x.p >= tok_pos
    <3>1. CASE Kind(Advance(name)) = "="
      <4>1. Advance(name) + 1 \in DOMAIN tokens
        BY <1>3, <2>2, <3>1, AdvanceTyped
      <4>2. name + 2 \in DOMAIN tokens /\ name + 2 >= tok_pos
        BY <1>2, <1>3, <2>2, <4>1, PlacesAre DEF Runs
      <4>3. Expr(name + 2) \in Results /\ Expr(name + 2).p >= name + 2
        BY <1>3, <4>2, ExprTyped DEF Runs
      <4>4. Expr(name + 2).p >= tok_pos
        BY <1>3, <4>2, <4>3, PlaceTyped, PlacesAre DEF Runs
      <4> QED BY <3>1, <4>3, <4>4
    <3>2. CASE Kind(Advance(name)) # "="
      <4>1. [Now EXCEPT !.p = Advance(name)] \in Results
            /\ [Now EXCEPT !.p = Advance(name)].p = Advance(name)
        BY <1>3, <2>2, Placed
      <4>2. Advance(name) >= tok_pos
        BY <1>2, <1>3, <2>2, PlacesAre DEF Runs
      <4> QED BY <3>2, <4>1, <4>2
    <3> QED BY <3>1, <3>2
  <2> HIDE DEF x
  <2>4. Leaves
    BY <1>3, <1>4, <2>1, <2>3, Changed, SetVarTyped DEF Leaves, Runs
  <2> QED BY <1>2, <1>4, <2>1, <2>3, <2>4, StayKeeps
<1> QED BY <1>5, <1>6

LEMMA ExecAssignKeeps ==
  ASSUME IInv, ExecAssign
  PROVE  IInv'
<1> DEFINE x == Expr(Here + 2)
<1>1. Running /\ Assigns
  BY DEF ExecAssign
<1>2. mode = "block" /\ Here + 2 \in DOMAIN tokens /\ Here >= tok_pos
  BY <1>1, HereTyped
<1>3. Runs /\ Ready /\ Lexed
  BY <1>2, RunsIs DEF Runs
<1>4. /\ Same /\ nfuncs' = nfuncs /\ stk' = stk /\ Over(x, "none")
      /\ (x.stuck /\ env' = env) \/ SetVar(Word(Here), x.v)
  BY DEF ExecAssign
<1>5. x \in Results /\ x.p >= Here + 2
  BY <1>2, <1>3, ExprTyped DEF Runs
<1> HIDE DEF x
<1>6. x.p >= tok_pos
  BY <1>1, <1>2, <1>3, <1>5, HereTyped, PlaceTyped, PlacesAre DEF Runs
<1>7. Leaves
  BY <1>3, <1>4, <1>5, Changed, SetVarTyped DEF Leaves, Runs
<1> QED BY <1>2, <1>4, <1>5, <1>6, <1>7, StayKeeps

LEMMA ExecExprKeeps ==
  ASSUME IInv, ExecExpr
  PROVE  IInv'
<1> DEFINE x == Expr(Here)
<1>1. Running /\ mode = "block" /\ Here \in DOMAIN tokens /\ Here >= tok_pos
  BY HereTyped DEF ExecExpr
<1>2. Runs /\ Ready /\ Lexed
  BY <1>1, RunsIs DEF Runs
<1>3. Same /\ nfuncs' = nfuncs /\ stk' = stk /\ env' = env /\ Over(x, "none")
  BY DEF ExecExpr
<1>4. x \in Results /\ x.p >= Here
  BY <1>1, <1>2, ExprTyped DEF Runs
<1> HIDE DEF x
<1>5. x.p >= tok_pos
  BY <1>1, <1>2, <1>4, PlaceTyped, PlacesAre DEF Runs
<1>6. Leaves
  BY <1>2, <1>3 DEF Leaves, Runs
<1> QED BY <1>1, <1>3, <1>4, <1>5, <1>6, StayKeeps

LEMMA ExecReturnKeeps ==
  ASSUME IInv, ExecReturn
  PROVE  IInv'
<1> DEFINE x == IF Kind(Here + 1) \in {"nl", "rbrace", "eof"} THEN [Now EXCEPT !.p = Here + 1]
                ELSE Expr(Here + 1)
<1>1. Running
  BY DEF ExecReturn, At
<1>2. mode = "block" /\ Here + 1 \in DOMAIN tokens /\ Here >= tok_pos /\ Here \in Nat
  BY <1>1, HereTyped
<1>3. Runs /\ Ready /\ Lexed /\ Now \in Results
  BY <1>2, RunsIs DEF Runs
<1>4. Same /\ nfuncs' = nfuncs /\ stk' = stk /\ env' = env /\ Over(x, "return")
  BY DEF ExecReturn
<1>5. x \in Results /\ x.p >= Here + 1
  <2>1. Expr(Here + 1) \in Results /\ Expr(Here + 1).p >= Here + 1
    BY <1>2, <1>3, ExprTyped DEF Runs
  <2>2. [Now EXCEPT !.p = Here + 1] \in Results /\ [Now EXCEPT !.p = Here + 1].p = Here + 1
    BY <1>2, <1>3, Placed
  <2>3. Here + 1 >= Here + 1
    BY <1>2
  <2> QED BY <2>1, <2>2, <2>3
<1> HIDE DEF x
<1>6. x.p >= tok_pos
  BY <1>2, <1>3, <1>5, PlaceTyped, PlacesAre DEF Runs
<1>7. Leaves
  BY <1>3, <1>4 DEF Leaves, Runs
<1> QED BY <1>2, <1>4, <1>5, <1>6, <1>7, StayKeeps

LEMMA ExecJumpKeeps ==
  ASSUME IInv, ExecJump
  PROVE  IInv'
<1> DEFINE x == [Now EXCEPT !.p = Here + 1]
<1>1. Running
  BY DEF ExecJump
<1>2. mode = "block" /\ Here + 1 \in DOMAIN tokens /\ Here >= tok_pos /\ Here \in Nat
  BY <1>1, HereTyped
<1>3. Runs /\ Lexed /\ Now \in Results
  BY <1>2, RunsIs DEF Runs
<1>4. Same /\ nfuncs' = nfuncs /\ stk' = stk /\ env' = env
      /\ Over(x, Word(Here)) /\ Word(Here) \in {"break", "continue"}
  BY DEF ExecJump
<1>5. x \in Results /\ x.p = Here + 1
  BY <1>2, <1>3, Placed
<1> HIDE DEF x
<1>6. x.p >= tok_pos
  BY <1>2, <1>3, <1>5, PlacesAre DEF Runs
<1>7. Leaves
  BY <1>3, <1>4 DEF Leaves, Runs
<1> QED BY <1>2, <1>4, <1>5, <1>6, <1>7, StayKeeps

LEMMA ExecFnKeeps ==
  ASSUME IInv, ExecFn
  PROVE  IInv'
<1> DEFINE name == Here + 1
           start == [Now EXCEPT !.p = Advance(name)]
           open == Expect(start, "lparen")
           list == Params(open)
           body == Header(Expect(list, "rparen"))
           wrong == [Now EXCEPT !.p = name, !.err = TRUE]
<1>1. Running
  BY DEF ExecFn, At
<1>2. mode = "block" /\ name \in DOMAIN tokens /\ Here >= tok_pos /\ Here \in Nat
  BY <1>1, HereTyped
<1>3. Runs /\ Lexed /\ Now \in Results /\ tok_pos \in Nat
  BY <1>2, RunsIs, PlacesAre DEF Runs
<1>4. Same /\ stk' = stk /\ env' = env
  BY DEF ExecFn
<1>5. CASE Kind(name) # "name" \/ FuncsFull
  <2>1. Over(wrong, "none") /\ nfuncs' = nfuncs
    BY <1>5 DEF ExecFn
  <2>2. wrong \in Results /\ wrong.p = name
    BY <1>2, <1>3, Wronged
  <2> HIDE DEF wrong
  <2>3. wrong.p >= tok_pos
    BY <1>2, <1>3, <2>2
  <2>4. Leaves
    BY <1>3, <1>4, <2>1 DEF Leaves, Runs
  <2> QED BY <1>2, <1>4, <2>1, <2>2, <2>3, <2>4, StayKeeps
<1>6. CASE ~(Kind(name) # "name" \/ FuncsFull)
  <2>1. \/ body.stuck /\ Over(body, "none") /\ nfuncs' = nfuncs
        \/ Over(Behind(body), "none") /\ nfuncs' = nfuncs + 1
    BY <1>6 DEF ExecFn
  <2>2. start \in Results /\ start.p >= tok_pos
    <3>1. Advance(name) \in DOMAIN tokens /\ Advance(name) >= name
      BY <1>2, <1>3, AdvanceTyped
    <3> QED BY <1>2, <1>3, <3>1, Placed, PlacesAre
  <2> HIDE DEF start
  <2>3. open \in Results /\ open.p >= start.p
    BY <1>3, <2>2, ExpectTyped
  <2> HIDE DEF open
  <2>4. list \in Results /\ list.p >= open.p
    <3> DEFINE q == FirstNotIn(open.p, {"name", "comma"})
               b == Kind(q) \notin {"rparen", "eof"}
    <3>1. q \in DOMAIN tokens /\ q >= open.p
      BY <1>3, <2>3, FirstNotInTyped, Changed
    <3>2. list = [open EXCEPT !.p = q, !.stuck = b] /\ b \in BOOLEAN
      BY DEF Params
    <3> HIDE DEF q, b, list
    <3> QED BY <2>3, <3>1, <3>2 DEF Results
  <2> HIDE DEF list
  <2>5. Expect(list, "rparen") \in Results /\ Expect(list, "rparen").p >= list.p
    BY <1>3, <2>4, ExpectTyped
  <2>6. body \in Results /\ body.p >= Expect(list, "rparen").p
    BY <1>3, <2>5, HeaderTyped
  <2> HIDE DEF body
  <2>7. Behind(body) \in Results /\ Behind(body).p >= body.p
    BY <1>3, <2>6, BehindTyped
  <2>8. body.p >= tok_pos /\ Behind(body).p >= tok_pos
    BY <1>3, <2>2, <2>3, <2>4, <2>5, <2>6, <2>7, PlaceTyped
  <2>9. Leaves
    BY <1>3, <1>4, <1>6, <2>1, FuncsAssumption DEF Leaves, Runs, FuncsFull
  <2> QED BY <1>2, <1>4, <2>1, <2>6, <2>7, <2>8, <2>9, StayKeeps
<1> QED BY <1>5, <1>6

\* A block that is entered from the statement at t.
LEMMA BeginKeeps ==
  ASSUME IInv, mode # "lex", Leaves, NEW r \in Results, NEW frame \in Frames, Onward(frame),
         frame.t >= tok_pos, r.p > frame.t, Enter(r, frame, stk)
  PROVE  IInv'
<1>1. Runs
  BY RunsIs
<1>2. r.p \in DOMAIN tokens
  BY Changed
<1>3. frame.t < r.p
  BY <1>1, <1>2, FrameTyped, PlacesAre DEF Runs
<1>4. Stacked(<< frame >> \o stk, r.p)
  BY <1>1, <1>2, <1>3, StackedAre
<1> QED BY <1>1, <1>4, EnterKeeps

\* A block that is entered again.
LEMMA AgainKeeps ==
  ASSUME IInv, mode # "lex", Leaves, NEW r \in Results, NEW frame \in Frames, Onward(frame),
         stk # << >>, frame.t = Head(stk).t, r.p > frame.t, Enter(r, frame, Tail(stk))
  PROVE  IInv'
<1>1. Runs
  BY RunsIs
<1>2. r.p \in DOMAIN tokens
  BY Changed
<1>3. frame.t < r.p
  BY <1>1, <1>2, FrameTyped, PlacesAre DEF Runs
<1>4. Stacked(<< frame >> \o Tail(stk), r.p)
  BY <1>1, <1>2, <1>3, StackedAre
<1> QED BY <1>1, <1>4, EnterKeeps

\* The condition of an if or while, or the count of a repeat, and what follows it.
LEMMA CondTyped ==
  ASSUME Ready, error \in BOOLEAN, NEW p \in DOMAIN tokens
  PROVE  Header(Expr(p)) \in Results /\ Header(Expr(p)).p >= p
<1> DEFINE x == Expr(p)
<1>1. x \in Results /\ x.p >= p
  BY ExprTyped
<1> HIDE DEF x
<1>2. Header(x) \in Results /\ Header(x).p >= x.p
  BY <1>1, HeaderTyped DEF Ready
<1> QED BY <1>1, <1>2, PlaceTyped, PlacesAre DEF Ready, x

LEMMA ExecIfKeeps ==
  ASSUME IInv, ExecIf
  PROVE  IInv'
<1> DEFINE cond  == Header(Expr(Here + 1))
           skipped == Behind(cond)
           after == [skipped EXCEPT !.p = SkipNewlines(@)]
           passed == [after EXCEPT !.p = Advance(@)]
           other == Header(passed)
           yes == [c |-> "then", t |-> Here]
           no == [c |-> "else", t |-> Here]
<1>1. Running
  BY DEF ExecIf, At
<1>2. mode = "block" /\ Here \in DOMAIN tokens /\ Here + 1 \in DOMAIN tokens
      /\ Here >= tok_pos /\ Here \in Nat
  BY <1>1, HereTyped
<1>3. Runs /\ Ready /\ Lexed /\ tok_pos \in Nat /\ error \in BOOLEAN
  BY <1>2, RunsIs, PlacesAre DEF Runs
<1>4. Same /\ env' = env /\ nfuncs' = nfuncs
  BY DEF ExecIf
<1>5. Leaves
  BY <1>3, <1>4 DEF Leaves, Runs
<1>6. \/ Enter(cond, yes, stk)
      \/ Enter(other, no, stk)
      \/ Over(after, "none") /\ stk' = stk
  BY DEF ExecIf
<1>7. cond \in Results /\ cond.p >= Here + 1
  BY <1>2, <1>3, CondTyped
<1> HIDE DEF cond
<1>8. skipped \in Results /\ skipped.p >= cond.p
  BY <1>3, <1>7, BehindTyped
<1> HIDE DEF skipped
<1>9. after \in Results /\ after.p >= skipped.p
  BY <1>3, <1>8, SkipNewlinesTyped, Changed, Placed
<1> HIDE DEF after
<1>10. passed \in Results /\ passed.p >= after.p
  BY <1>3, <1>9, AdvanceTyped, Changed, Placed
<1> HIDE DEF passed
<1>11. other \in Results /\ other.p >= passed.p
  BY <1>3, <1>10, HeaderTyped
<1> HIDE DEF other
<1>12. cond.p > Here /\ other.p > Here /\ after.p >= tok_pos
  <2>1. /\ cond.p \in Nat /\ skipped.p \in Nat /\ after.p \in Nat
        /\ passed.p \in Nat /\ other.p \in Nat
    BY <1>3, <1>7, <1>8, <1>9, <1>10, <1>11, PlaceTyped
  <2> QED BY <1>2, <1>3, <1>7, <1>8, <1>9, <1>10, <1>11, <2>1
<1>13. \A f \in {yes, no} : f \in Frames /\ Onward(f) /\ f.t = Here
  BY <1>2 DEF Frames, Onward
<1> HIDE DEF yes, no
<1>14. CASE Enter(cond, yes, stk)
  BY <1>2, <1>5, <1>7, <1>12, <1>13, <1>14, BeginKeeps
<1>15. CASE Enter(other, no, stk)
  BY <1>2, <1>5, <1>11, <1>12, <1>13, <1>15, BeginKeeps
<1>16. CASE Over(after, "none") /\ stk' = stk
  BY <1>2, <1>5, <1>9, <1>12, <1>16, StayKeeps
<1> QED BY <1>6, <1>14, <1>15, <1>16

\* A while begins, or is tested again: the place changes, and the mode.
LEMMA TestsKeep ==
  ASSUME IInv, mode # "lex", Leaves, tok_pos' \in DOMAIN tokens, mode' = "test",
         error' = error, flag' = flag, stk' # << >>, Head(stk').c = "while",
         Stacked(stk', tok_pos')
  PROVE  IInv'
<1>1. Runs
  BY RunsIs
<1>2. tok_pos' \in 1 .. Len(tokens)
  BY <1>1, PlacesAre DEF Runs
<1>3. Lexed' /\ Frames' = Frames /\ prog' = prog /\ tokens' = tokens
  BY <1>1, Unchanged DEF Leaves, Runs
<1>4. NestedInOrder' /\ stk' \in Seq(Frames) /\ \A i \in DOMAIN stk' : Onward(stk'[i])
  BY DEF Stacked, NestedInOrder
<1>5. TypeOK'
  BY <1>1, <1>2, <1>3 DEF TypeOK, Leaves, Runs
<1> QED BY <1>1, <1>3, <1>4, <1>5 DEF IInv, Runs, Onward

LEMMA ExecWhileKeeps ==
  ASSUME IInv, ExecWhile
  PROVE  IInv'
<1> DEFINE f == [c |-> "while", t |-> Here, cond |-> Here + 1]
<1>1. Running
  BY DEF ExecWhile, At
<1>2. mode = "block" /\ Here \in DOMAIN tokens /\ Here + 1 \in DOMAIN tokens
      /\ Here >= tok_pos /\ Here \in Nat
  BY <1>1, HereTyped
<1>3. Runs
  BY <1>2, RunsIs
<1>4. /\ Same /\ env' = env /\ nfuncs' = nfuncs /\ error' = error /\ flag' = flag
      /\ stk' = << f >> \o stk /\ tok_pos' = Here + 1 /\ mode' = "test"
  BY DEF ExecWhile
<1>5. Leaves
  BY <1>3, <1>4 DEF Leaves, Runs
<1>6. f \in Frames /\ Onward(f) /\ f.t = Here /\ f.c = "while"
  BY <1>2 DEF Frames, Onward
<1> HIDE DEF f
<1>7. f.t < Here + 1
  BY <1>2, <1>6
<1>8. Stacked(stk', tok_pos')
  BY <1>2, <1>3, <1>4, <1>6, <1>7, StackedAre
<1>9. stk' # << >> /\ Head(stk') = f
  BY <1>3, <1>4 DEF Runs
<1> QED BY <1>2, <1>4, <1>5, <1>6, <1>8, <1>9, TestsKeep

LEMMA TestKeeps ==
  ASSUME IInv, Test
  PROVE  IInv'
<1> DEFINE f == Head(stk)
           cond == Header(Expr(f.cond))
<1>1. mode = "test" /\ stk # << >> /\ f.c = "while"
  BY DEF Test, IInv
<1>2. Runs /\ Ready /\ Lexed /\ error \in BOOLEAN
  BY <1>1, RunsIs DEF Runs
<1>3. f \in Frames /\ Onward(f)
  BY <1>1, <1>2, Below
<1>4. f.t \in DOMAIN tokens /\ f.cond \in DOMAIN tokens /\ f.cond > f.t
  BY <1>1, <1>3, FrameTyped DEF Onward
<1>5. cond \in Results /\ cond.p >= f.cond
  BY <1>2, <1>4, CondTyped
<1>6. Same /\ env' = env /\ nfuncs' = nfuncs
      /\ \/ Over(Behind(cond), "none") /\ stk' = Tail(stk)
         \/ Enter(cond, f, Tail(stk))
  BY DEF Test
<1> HIDE DEF cond
<1>7. Behind(cond) \in Results /\ Behind(cond).p >= cond.p
  BY <1>2, <1>5, BehindTyped
<1>8. cond.p > f.t /\ Behind(cond).p >= f.t
  <2>1. cond.p \in Nat /\ Behind(cond).p \in Nat /\ f.t \in Nat /\ f.cond \in Nat
    BY <1>2, <1>4, <1>5, <1>7, PlaceTyped, PlacesAre
  <2> QED BY <1>4, <1>5, <1>7, <2>1
<1>9. Leaves
  BY <1>2, <1>6 DEF Leaves, Runs
<1>10. CASE Over(Behind(cond), "none") /\ stk' = Tail(stk)
  BY <1>1, <1>7, <1>8, <1>9, <1>10, LeaveKeeps
<1>11. CASE Enter(cond, f, Tail(stk))
  BY <1>1, <1>3, <1>5, <1>8, <1>9, <1>11, AgainKeeps
<1> QED BY <1>6, <1>10, <1>11

LEMMA ExecRepeatKeeps ==
  ASSUME IInv, ExecRepeat
  PROVE  IInv'
<1> DEFINE cnt == Header(Expr(Here + 1))
           f == [c |-> "repeat", t |-> Here, body |-> cnt.p, i |-> 1, cnt |-> cnt.v]
           past == IF cnt.stuck THEN cnt ELSE Behind(cnt)
<1>1. Running
  BY DEF ExecRepeat, At
<1>2. mode = "block" /\ Here \in DOMAIN tokens /\ Here + 1 \in DOMAIN tokens
      /\ Here >= tok_pos /\ Here \in Nat
  BY <1>1, HereTyped
<1>3. Runs /\ Ready /\ Lexed /\ tok_pos \in Nat /\ error \in BOOLEAN
  BY <1>2, RunsIs, PlacesAre DEF Runs
<1>4. Same /\ env' = env /\ nfuncs' = nfuncs
      /\ \/ Over(past, "none") /\ stk' = stk
         \/ Enter(cnt, f, stk)
  BY DEF ExecRepeat
<1>5. Leaves
  BY <1>3, <1>4 DEF Leaves, Runs
<1>6. cnt \in Results /\ cnt.p >= Here + 1
  BY <1>2, <1>3, CondTyped
<1> HIDE DEF cnt
<1>7. Behind(cnt) \in Results /\ Behind(cnt).p >= cnt.p
  BY <1>3, <1>6, BehindTyped
<1>8. cnt.p \in Nat /\ Behind(cnt).p \in Nat /\ cnt.p \in DOMAIN tokens /\ cnt.v \in Int
  BY <1>3, <1>6, <1>7, PlaceTyped, Changed
<1>9. past \in Results /\ past.p >= tok_pos
  BY <1>2, <1>3, <1>6, <1>7, <1>8
<1>10. f \in Frames /\ Onward(f) /\ f.t = Here
  BY <1>2, <1>6, <1>8 DEF Frames, Onward
<1>11. cnt.p > Here
  BY <1>2, <1>6, <1>8
<1> HIDE DEF f, past
<1>12. CASE Over(past, "none") /\ stk' = stk
  BY <1>2, <1>5, <1>9, <1>12, StayKeeps
<1>13. CASE Enter(cnt, f, stk)
  BY <1>2, <1>5, <1>6, <1>10, <1>11, <1>13, BeginKeeps
<1> QED BY <1>4, <1>12, <1>13

\* A round of a for that begins, and one of a for that goes on.
LEMMA ForRoundKeeps ==
  ASSUME IInv, mode # "lex", Same, nfuncs' = nfuncs, NEW r \in Results,
         NEW f \in Frames, f.c = "for", Onward(f), NEW below, ForRound(f, r, below),
         \/ below = stk /\ f.t >= tok_pos /\ r.p >= tok_pos
         \/ stk # << >> /\ below = Tail(stk) /\ f.t = Head(stk).t /\ r.p >= f.t
  PROVE  IInv'
<1> DEFINE body == [r EXCEPT !.p = f.body]
           last == IF r.err THEN r ELSE Behind(body)
<1>1. Runs /\ Lexed /\ tok_pos \in Nat
  BY RunsIs, PlacesAre DEF Runs
<1>2. f.t \in Nat /\ f.body \in DOMAIN tokens /\ f.body \in Nat /\ f.body > f.t /\ f.i \in Int
  BY <1>1, FrameTyped, PlacesAre DEF Onward
<1>3. body \in Results /\ body.p = f.body
  BY <1>1, <1>2, Placed
<1>4. \/ SetVar(f.v, f.i) /\ Enter(body, f, below)
      \/ env' = env /\ Over(last, "none") /\ stk' = below
  BY DEF ForRound
<1>5. Leaves
  BY <1>1, <1>2, <1>4, SetVarTyped DEF Leaves, Runs
<1> HIDE DEF body
<1>6. Behind(body) \in Results /\ Behind(body).p >= body.p
  BY <1>1, <1>3, BehindTyped
<1>7. Behind(body).p \in Nat /\ r.p \in Nat
  BY <1>1, <1>6, PlaceTyped
<1>8. last \in Results /\ (last.p = r.p \/ last.p >= f.body)
  BY <1>3, <1>6
<1> HIDE DEF last
<1>9. CASE Enter(body, f, below)
  <2>1. CASE below = stk /\ f.t >= tok_pos
    BY <1>2, <1>3, <1>5, <1>9, <2>1, BeginKeeps
  <2>2. CASE stk # << >> /\ below = Tail(stk) /\ f.t = Head(stk).t
    BY <1>2, <1>3, <1>5, <1>9, <2>2, AgainKeeps
  <2> QED BY <2>1, <2>2
<1>10. CASE Over(last, "none") /\ stk' = below
  <2>1. CASE below = stk /\ f.t >= tok_pos /\ r.p >= tok_pos
    <3>1. last.p >= tok_pos
      <4>1. last.p \in Nat
        BY <1>1, <1>8, PlaceTyped
      <4> QED BY <1>1, <1>2, <1>7, <1>8, <2>1, <4>1
    <3> QED BY <1>5, <1>8, <1>10, <2>1, <3>1, StayKeeps
  <2>2. CASE stk # << >> /\ below = Tail(stk) /\ f.t = Head(stk).t /\ r.p >= f.t
    <3>1. last.p >= Head(stk).t
      <4>1. last.p \in Nat
        BY <1>1, <1>8, PlaceTyped
      <4> QED BY <1>2, <1>7, <1>8, <2>2, <4>1
    <3> QED BY <1>5, <1>8, <1>10, <2>2, <3>1, LeaveKeeps
  <2> QED BY <2>1, <2>2
<1> QED BY <1>4, <1>9, <1>10

LEMMA ExecForKeeps ==
  ASSUME IInv, ExecFor
  PROVE  IInv'
<1> DEFINE v    == Here + 1
           in   == Advance(v)
           from == Expr(Advance(in))
           at   == [from EXCEPT !.p = Advance(@)]
           to   == ExprAt(at)
           at2  == [to EXCEPT !.p = Advance(@)]
           by   == IF Word(to.p) = "step" THEN ExprAt(at2) ELSE [to EXCEPT !.v = 1]
           body == Header(by)
           wrong(p) == [Now EXCEPT !.p = p, !.err = TRUE]
           f    == [c |-> "for", t |-> Here, v |-> Word(v), body |-> body.p, i |-> from.v,
                    to |-> to.v, step |-> IF by.v = 0 THEN 1 ELSE by.v]
<1>1. Running
  BY DEF ExecFor, At
<1>2. mode = "block" /\ Here \in DOMAIN tokens /\ v \in DOMAIN tokens
      /\ Here >= tok_pos /\ Here \in Nat
  BY <1>1, HereTyped
<1>3. Runs /\ Ready /\ Lexed /\ tok_pos \in Nat /\ error \in BOOLEAN /\ Now \in Results
  BY <1>2, RunsIs, PlacesAre DEF Runs
<1>4. /\ Same /\ nfuncs' = nfuncs
      /\ \/ \E p \in {v, in, from.p} :
              Over(wrong(p), "none") /\ env' = env /\ stk' = stk
         \/ Over(body, "none") /\ env' = env /\ stk' = stk
         \/ ForRound(f, body, stk)
  BY DEF ExecFor
<1>5. v >= tok_pos /\ v > Here /\ v \in Nat
  BY <1>2, <1>3
<1> HIDE DEF v
<1>6. in \in DOMAIN tokens /\ in >= v
  BY <1>2, <1>3, AdvanceTyped
<1> HIDE DEF in
<1>7. Advance(in) \in DOMAIN tokens /\ Advance(in) >= in
  BY <1>3, <1>6, AdvanceTyped
<1>8. from \in Results /\ from.p >= Advance(in)
  BY <1>3, <1>7, ExprTyped
<1> HIDE DEF from
<1>9. at \in Results /\ at.p >= from.p
  BY <1>3, <1>8, AdvanceTyped, Changed, Placed
<1> HIDE DEF at
<1>10. to \in Results /\ to.p >= at.p
  BY <1>3, <1>9, ExprTyped
<1> HIDE DEF to
<1>11. at2 \in Results /\ at2.p >= to.p
  BY <1>3, <1>10, AdvanceTyped, Changed, Placed
<1> HIDE DEF at2
<1>12. by \in Results /\ by.p >= to.p
  <2>1. ExprAt(at2) \in Results /\ ExprAt(at2).p >= at2.p
    BY <1>3, <1>11, ExprTyped
  <2>2. ExprAt(at2).p >= to.p
    BY <1>3, <1>10, <1>11, <2>1, PlaceTyped
  <2>3. [to EXCEPT !.v = 1] \in Results /\ [to EXCEPT !.v = 1].p = to.p /\ to.p >= to.p
    BY <1>3, <1>10, Valued, PlaceTyped
  <2> QED BY <2>1, <2>2, <2>3
<1> HIDE DEF by
<1>13. body \in Results /\ body.p >= by.p
  BY <1>3, <1>12, HeaderTyped
<1> HIDE DEF body
<1>14. from.p >= tok_pos /\ body.p >= tok_pos /\ body.p > Here /\ in >= tok_pos
  <2>1. /\ from.p \in Nat /\ at.p \in Nat /\ to.p \in Nat /\ by.p \in Nat /\ body.p \in Nat
        /\ in \in Nat /\ Advance(in) \in Nat
    BY <1>3, <1>6, <1>7, <1>8, <1>9, <1>10, <1>12, <1>13, PlaceTyped, PlacesAre
  <2> QED BY <1>2, <1>3, <1>5, <1>6, <1>7, <1>8, <1>9, <1>10, <1>12, <1>13, <2>1
<1>15. f \in Frames /\ Onward(f) /\ f.t = Here /\ f.c = "for"
  <2>1. Word(v) \in Texts
    <3>1. tokens[v] \in Tokens
      BY <1>2, <1>3 DEF Lexed
    <3> QED BY <3>1 DEF Word, Tokens, Texts
  <2>2. from.v \in Int /\ to.v \in Int /\ by.v \in Int /\ body.p \in DOMAIN tokens
    BY <1>8, <1>10, <1>12, <1>13, Changed
  <2>3. (IF by.v = 0 THEN 1 ELSE by.v) \in Int
    BY <2>2
  <2> QED BY <1>2, <1>14, <2>1, <2>2, <2>3 DEF Frames, Onward
<1> HIDE DEF f
<1>16. CASE ForRound(f, body, stk)
  BY <1>2, <1>4, <1>13, <1>14, <1>15, <1>16, ForRoundKeeps
<1>17. CASE Over(body, "none") /\ env' = env /\ stk' = stk
  <2>1. Leaves
    BY <1>3, <1>4, <1>17 DEF Leaves, Runs
  <2> QED BY <1>2, <1>13, <1>14, <1>17, <2>1, StayKeeps
<1>18. CASE \E p \in {v, in, from.p} : Over(wrong(p), "none") /\ env' = env /\ stk' = stk
  <2>1. PICK p \in {v, in, from.p} : Over(wrong(p), "none") /\ env' = env /\ stk' = stk
    BY <1>18
  <2>2. p \in DOMAIN tokens /\ p >= tok_pos
    BY <1>2, <1>5, <1>6, <1>8, <1>14, Changed
  <2>3. wrong(p) \in Results /\ wrong(p).p >= tok_pos
    BY <1>3, <2>2, Wronged
  <2>4. Leaves
    BY <1>3, <1>4, <2>1 DEF Leaves, Runs
  <2> HIDE DEF wrong
  <2> QED BY <1>2, <2>1, <2>3, <2>4, StayKeeps
<1> QED BY <1>4, <1>16, <1>17, <1>18

-----------------------------------------------------------------------------
(* The returns into a statement.                                           *)

LEMMA ReturnsIs ==
  ASSUME IInv, NEW c, Returns(c)
  PROVE  /\ mode = "leave" /\ stk # << >> /\ Head(stk).c = c
         /\ Head(stk) \in Frames /\ Onward(Head(stk))
         /\ Runs /\ Lexed /\ Head(stk).t \in Nat /\ tok_pos \in Nat /\ Head(stk).t < tok_pos
         /\ Now \in Results /\ Now.p = tok_pos
         /\ Closed \in Results /\ Closed.p \in Nat /\ Closed.p > Head(stk).t
<1>1. mode = "leave" /\ stk # << >> /\ Head(stk).c = c
  BY DEF Returns
<1>2. Runs /\ Lexed /\ Now \in Results /\ Now.p = tok_pos /\ tok_pos \in Nat
  BY <1>1, RunsIs, PlacesAre DEF Runs
<1>3. Head(stk) \in Frames /\ Onward(Head(stk)) /\ Head(stk).t < tok_pos
  BY <1>1, <1>2, Below
<1>4. Head(stk).t \in Nat
  BY <1>2, <1>3, FrameTyped, PlacesAre
<1>5. Closed \in Results /\ Closed.p >= tok_pos
  BY <1>2, ExpectTyped DEF Closed
<1>6. Closed.p \in Nat
  BY <1>2, <1>5, PlaceTyped
<1>7. Closed.p > Head(stk).t
  BY <1>2, <1>3, <1>4, <1>5, <1>6
<1> QED BY <1>1, <1>2, <1>3, <1>4, <1>5, <1>6, <1>7

LEMMA ThenReturnKeeps ==
  ASSUME IInv, ThenReturn
  PROVE  IInv'
<1> DEFINE after == [Closed EXCEPT !.p = SkipNewlines(@)]
           passed == [after EXCEPT !.p = Advance(@)]
           other == Header(passed)
           x == IF Word(after.p) = "else" THEN Behind(other) ELSE after
<1>1. /\ mode = "leave" /\ stk # << >> /\ Runs /\ Lexed /\ Head(stk).t \in Nat
      /\ Closed \in Results /\ Closed.p \in Nat /\ Closed.p > Head(stk).t
  BY ReturnsIs DEF ThenReturn
<1>2. Over(x, flag) /\ stk' = Tail(stk) /\ Same /\ env' = env /\ nfuncs' = nfuncs
  BY DEF ThenReturn
<1>3. Leaves /\ flag \in {"none", "break", "continue", "return"}
  BY <1>1, <1>2 DEF Leaves, Runs
<1>4. after \in Results /\ after.p >= Closed.p
  BY <1>1, SkipNewlinesTyped, Changed, Placed
<1> HIDE DEF after
<1>5. passed \in Results /\ passed.p >= after.p
  BY <1>1, <1>4, AdvanceTyped, Changed, Placed
<1> HIDE DEF passed
<1>6. other \in Results /\ other.p >= passed.p
  BY <1>1, <1>5, HeaderTyped
<1> HIDE DEF other
<1>7. Behind(other) \in Results /\ Behind(other).p >= other.p
  BY <1>1, <1>6, BehindTyped
<1>8. x \in Results /\ x.p >= Head(stk).t
  <2>1. after.p \in Nat /\ passed.p \in Nat /\ other.p \in Nat /\ Behind(other).p \in Nat
    BY <1>1, <1>4, <1>5, <1>6, <1>7, PlaceTyped
  <2> QED BY <1>1, <1>4, <1>5, <1>6, <1>7, <2>1
<1> HIDE DEF x
<1> QED BY <1>1, <1>2, <1>3, <1>8, LeaveKeeps

LEMMA ElseReturnKeeps ==
  ASSUME IInv, ElseReturn
  PROVE  IInv'
<1>1. /\ mode = "leave" /\ stk # << >> /\ Runs /\ Head(stk).t \in Nat
      /\ Closed \in Results /\ Closed.p \in Nat /\ Closed.p > Head(stk).t
  BY ReturnsIs DEF ElseReturn
<1>2. Over(Closed, flag) /\ stk' = Tail(stk) /\ Same /\ env' = env /\ nfuncs' = nfuncs
  BY DEF ElseReturn
<1>3. Leaves /\ flag \in {"none", "break", "continue", "return"}
  BY <1>1, <1>2 DEF Leaves, Runs
<1>4. Closed.p >= Head(stk).t
  BY <1>1
<1> QED BY <1>1, <1>2, <1>3, <1>4, LeaveKeeps

LEMMA WhileReturnKeeps ==
  ASSUME IInv, WhileReturn
  PROVE  IInv'
<1>1. /\ mode = "leave" /\ stk # << >> /\ Head(stk).c = "while" /\ Runs /\ Head(stk).t \in Nat
      /\ Head(stk) \in Frames /\ Lexed /\ tok_pos \in Nat
      /\ Closed \in Results /\ Closed.p \in Nat /\ Closed.p > Head(stk).t
  BY ReturnsIs DEF WhileReturn
<1>2. /\ Same /\ env' = env /\ nfuncs' = nfuncs
      /\ \/ (\E f \in {"return", "none"} : Over(Closed, f)) /\ stk' = Tail(stk)
         \/ tok_pos' = Closed.p /\ mode' = "test" /\ error' = error /\ stk' = stk /\ flag' = flag
  BY DEF WhileReturn
<1>3. Leaves
  BY <1>1, <1>2 DEF Leaves, Runs
<1>4. Closed.p >= Head(stk).t /\ Closed.p \in DOMAIN tokens
  BY <1>1, Changed
<1>5. CASE (\E f \in {"return", "none"} : Over(Closed, f)) /\ stk' = Tail(stk)
  BY <1>1, <1>3, <1>4, <1>5, LeaveKeeps
<1>6. CASE tok_pos' = Closed.p /\ mode' = "test" /\ error' = error /\ stk' = stk /\ flag' = flag
  <2>1. Head(stk).t < Closed.p
    BY <1>1
  <2>2. Stacked(stk', tok_pos')
    BY <1>1, <1>6, <2>1 DEF Stacked, Runs, NestedInOrder
  <2> QED BY <1>1, <1>3, <1>4, <1>6, <2>2, TestsKeep
<1> QED BY <1>2, <1>5, <1>6

LEMMA RepeatOverKeeps ==
  ASSUME IInv, mode # "lex", stk # << >>, Leaves, RepeatOver(Now)
  PROVE  IInv'
<1> DEFINE x == IF Now.err THEN Behind(Now) ELSE Expect(Now, "rbrace")
<1>1. Runs /\ Lexed /\ Now \in Results /\ Now.p = tok_pos /\ tok_pos \in Nat
  BY RunsIs, PlacesAre DEF Runs
<1>2. Over(x, "none") /\ stk' = Tail(stk)
  BY DEF RepeatOver
<1>3. x \in Results /\ x.p >= tok_pos
  BY <1>1, BehindTyped, ExpectTyped
<1> HIDE DEF x
<1>4. x.p >= Head(stk).t
  <2>1. Head(stk).t < tok_pos /\ Head(stk).t \in Nat
    BY <1>1, Below, FrameTyped, PlacesAre
  <2>2. x.p \in Nat
    BY <1>1, <1>3, PlaceTyped
  <2> QED BY <1>1, <1>3, <2>1, <2>2
<1> QED BY <1>2, <1>3, <1>4, LeaveKeeps

LEMMA RepeatReturnKeeps ==
  ASSUME IInv, RepeatReturn
  PROVE  IInv'
<1> DEFINE f == Head(stk)
           body == [Now EXCEPT !.p = f.body]
           again == [c |-> "again", t |-> f.t]
           next == [f EXCEPT !.i = @ + 1]
<1>1. /\ mode = "leave" /\ stk # << >> /\ f.c = "repeat" /\ f \in Frames /\ Onward(f)
      /\ Runs /\ Lexed /\ f.t \in Nat /\ Now \in Results
  BY ReturnsIs DEF RepeatReturn
<1>2. /\ Same /\ env' = env /\ nfuncs' = nfuncs
      /\ \/ Enter(body, again, Tail(stk))
         \/ Over(Behind(body), "return") /\ stk' = Tail(stk)
         \/ RepeatOver(Now)
         \/ Enter(body, next, Tail(stk))
  BY DEF RepeatReturn
<1>3. Leaves
  BY <1>1, <1>2 DEF Leaves, Runs
<1>4. f.body \in DOMAIN tokens /\ f.body \in Nat /\ f.body > f.t /\ f.t \in DOMAIN tokens
      /\ f.i \in Int
  BY <1>1, FrameTyped, PlacesAre DEF Onward
<1>5. body \in Results /\ body.p = f.body
  BY <1>1, <1>4, Placed
<1> HIDE DEF body
<1>6. Behind(body) \in Results /\ Behind(body).p >= f.t
  <2>1. Behind(body) \in Results /\ Behind(body).p >= body.p
    BY <1>1, <1>5, BehindTyped
  <2>2. Behind(body).p \in Nat
    BY <1>1, <2>1, PlaceTyped
  <2> QED BY <1>1, <1>4, <1>5, <2>1, <2>2
<1>7. again \in Frames /\ Onward(again) /\ again.t = f.t
  BY <1>4 DEF Frames, Onward
<1>8. next \in Frames /\ Onward(next) /\ next.t = f.t
  <2> DEFINE i == f.i + 1
  <2>1. i \in Int
    BY <1>4
  <2>2. next = [f EXCEPT !.i = i]
    OBVIOUS
  <2> HIDE DEF i, next
  <2>3. next \in Frames /\ next.c = f.c /\ next.t = f.t /\ next.body = f.body
    BY <1>1, <2>1, <2>2, FrameTyped
  <2> QED BY <1>1, <1>4, <2>3 DEF Onward
<1> HIDE DEF again, next
<1>9. CASE Enter(body, again, Tail(stk))
  BY <1>1, <1>3, <1>4, <1>5, <1>7, <1>9, AgainKeeps
<1>10. CASE Over(Behind(body), "return") /\ stk' = Tail(stk)
  BY <1>1, <1>3, <1>6, <1>10, LeaveKeeps
<1>11. CASE RepeatOver(Now)
  BY <1>1, <1>3, <1>11, RepeatOverKeeps
<1>12. CASE Enter(body, next, Tail(stk))
  BY <1>1, <1>3, <1>4, <1>5, <1>8, <1>12, AgainKeeps
<1> QED BY <1>2, <1>9, <1>10, <1>11, <1>12

LEMMA AgainReturnKeeps ==
  ASSUME IInv, AgainReturn
  PROVE  IInv'
<1>1. mode = "leave" /\ stk # << >> /\ Runs
  BY ReturnsIs DEF AgainReturn
<1>2. RepeatOver(Now) /\ Same /\ env' = env /\ nfuncs' = nfuncs
  BY DEF AgainReturn
<1>3. Leaves
  BY <1>1, <1>2 DEF Leaves, Runs
<1> QED BY <1>1, <1>2, <1>3, RepeatOverKeeps

LEMMA ForReturnKeeps ==
  ASSUME IInv, ForReturn
  PROVE  IInv'
<1> DEFINE f == Head(stk)
           body == [Now EXCEPT !.p = f.body]
           behind == Behind(body)
           x == IF error THEN Now ELSE behind
           next == [f EXCEPT !.i = @ + f.step]
<1>1. /\ mode = "leave" /\ stk # << >> /\ f.c = "for" /\ f \in Frames /\ Onward(f)
      /\ Runs /\ Lexed /\ f.t \in Nat /\ Now \in Results /\ Now.p = tok_pos
      /\ tok_pos \in Nat /\ f.t < tok_pos
  BY ReturnsIs DEF ForReturn
<1>2. /\ Same /\ nfuncs' = nfuncs
      /\ \/ Over(behind, "return") /\ stk' = Tail(stk) /\ env' = env
         \/ Over(x, "none") /\ stk' = Tail(stk) /\ env' = env
         \/ ForRound(next, Now, Tail(stk))
  <2>1. flag = "return" => Over(behind, "return") /\ stk' = Tail(stk) /\ env' = env
    BY DEF ForReturn
  <2>2. flag = "break" \/ (flag # "return" /\ error)
          => Over(x, "none") /\ stk' = Tail(stk) /\ env' = env
    BY DEF ForReturn
  <2>3. flag # "return" /\ ~(flag = "break" \/ (flag # "return" /\ error))
          => ForRound(next, Now, Tail(stk))
    BY DEF ForReturn
  <2>4. Same /\ nfuncs' = nfuncs
    BY DEF ForReturn
  <2> HIDE DEF behind, x, next
  <2> QED BY <2>1, <2>2, <2>3, <2>4
<1>3. f.body \in DOMAIN tokens /\ f.body \in Nat /\ f.body > f.t /\ f.i \in Int /\ f.step \in Int
  BY <1>1, FrameTyped, PlacesAre DEF Onward
<1>4. body \in Results /\ body.p = f.body
  BY <1>1, <1>3, Placed
<1> HIDE DEF body
<1>5. behind \in Results /\ behind.p >= f.t
  <2>1. behind \in Results /\ behind.p >= body.p
    BY <1>1, <1>4, BehindTyped
  <2>2. behind.p \in Nat
    BY <1>1, <2>1, PlaceTyped
  <2> QED BY <1>1, <1>3, <1>4, <2>1, <2>2
<1> HIDE DEF behind
<1>6. x \in Results /\ x.p >= f.t
  BY <1>1, <1>5
<1> HIDE DEF x
<1>7. next \in Frames /\ Onward(next) /\ next.t = f.t /\ next.c = "for"
  <2> DEFINE i == f.i + f.step
  <2>1. i \in Int
    BY <1>3
  <2>2. next = [f EXCEPT !.i = i]
    OBVIOUS
  <2> HIDE DEF i, next
  <2>3. next \in Frames /\ next.c = f.c /\ next.t = f.t /\ next.body = f.body
    BY <1>1, <2>1, <2>2, FrameTyped
  <2> QED BY <1>1, <1>3, <2>3 DEF Onward
<1> HIDE DEF next
<1>8. CASE ForRound(next, Now, Tail(stk))
  <2>1. Now.p >= next.t
    BY <1>1, <1>7
  <2> QED BY <1>1, <1>2, <1>7, <1>8, <2>1, ForRoundKeeps
<1>9. CASE (\E g \in {"return"} : Over(behind, g)) /\ stk' = Tail(stk) /\ env' = env
  <2>1. Leaves
    BY <1>1, <1>2, <1>9 DEF Leaves, Runs
  <2> QED BY <1>1, <1>5, <1>9, <2>1, LeaveKeeps
<1>10. CASE Over(x, "none") /\ stk' = Tail(stk) /\ env' = env
  <2>1. Leaves
    BY <1>1, <1>2, <1>10 DEF Leaves, Runs
  <2> QED BY <1>1, <1>6, <1>10, <2>1, LeaveKeeps
<1> QED BY <1>2, <1>8, <1>9, <1>10

-----------------------------------------------------------------------------
(* The theorems.                                                           *)

LEMMA InitHolds == Init => IInv
<1>1. SUFFICES ASSUME Init PROVE IInv
  OBVIOUS
<1>2. TypeOK
  <2>1. mode = "lex" /\ env \in [Names -> Int] /\ error = FALSE /\ flag = "none" /\ nfuncs = 0
    BY <1>1 DEF Init
  <2>2. nfuncs \in 0 .. MAX_FUNCS
    BY <2>1, FuncsAssumption
  <2> QED BY <2>1, <2>2 DEF TypeOK
<1>3. stk = << >> /\ mode = "lex" /\ tok_pos = 1
  BY <1>1 DEF Init
<1>4. NestedInOrder /\ stk \in Seq(Frames) /\ \A i \in DOMAIN stk : Onward(stk[i])
  BY <1>3 DEF NestedInOrder
<1> QED BY <1>1, <1>2, <1>3, <1>4 DEF Init, IInv

LEMMA NextKeeps == IInv /\ [Next]_vars => IInv'
<1>1. ASSUME IInv, Next PROVE IInv'
  BY <1>1, LexKeeps, BlockEndKeeps, ExecVarKeeps, ExecAssignKeeps, ExecIfKeeps, ExecWhileKeeps,
     TestKeeps, ExecRepeatKeeps, ExecForKeeps, ExecReturnKeeps, ExecJumpKeeps, ExecFnKeeps,
     ExecExprKeeps, ThenReturnKeeps, ElseReturnKeeps, WhileReturnKeeps, RepeatReturnKeeps,
     AgainReturnKeeps, ForReturnKeeps, FinishKeeps DEF Next
<1>2. ASSUME IInv, UNCHANGED vars PROVE IInv'
  BY <1>2 DEF vars, IInv, TypeOK, NestedInOrder, Lexed, Kind, Frames, Onward
<1> QED BY <1>1, <1>2

LEMMA Invariant == Spec => []IInv
BY InitHolds, NextKeeps, PTL DEF Spec

\* tok_pos never leaves the tokens, however many of them there are and
\* whatever the text says.
THEOREM TypeCorrect == Spec => []TypeOK
<1>1. IInv => TypeOK
  BY DEF IInv
<1> QED BY <1>1, Invariant, PTL

\* Every C call of the interpreter that waits for a block began further on than
\* the one it was called from.
THEOREM NestingInOrder == Spec => []NestedInOrder
<1>1. IInv => NestedInOrder
  BY DEF IInv
<1> QED BY <1>1, Invariant, PTL

\* Those calls are never nested deeper than the program has tokens: the source
\* bounds the recursion of tpl_exec_stmt_ex, however long it runs.
THEOREM NestingBounded == Spec => [](Len(stk) <= Len(tokens))
<1>1. ASSUME IInv PROVE Len(stk) <= Len(tokens)
  <2>1. CASE stk = << >>
    <3>1. Len(tokens) \in Nat
      BY <1>1, <2>1, PlacesAre DEF IInv, TypeOK, Lexed
    <3> QED BY <2>1, <3>1
  <2>2. CASE stk # << >>
    <3>1. mode # "lex"
      BY <1>1, <2>2 DEF IInv
    <3>2. Runs /\ Lexed
      BY <1>1, <3>1, RunsIs DEF Runs
    <3> DEFINE n == Len(stk)
               t(i) == stk[i].t
               Low(i) == t(i) + i <= t(1) + 1
               Bad == { i \in 1 .. n : ~Low(i) }
    <3>3. n \in Nat \ {0} /\ \A i \in 1 .. n : t(i) \in Nat \ {0} /\ t(i) <= Len(tokens)
      <4>1. stk \in Seq(Frames) /\ n \in Nat \ {0}
        BY <2>2, <3>2 DEF Runs
      <4>2. \A i \in 1 .. n : stk[i] \in Frames
        BY <4>1
      <4> QED BY <3>2, <4>1, <4>2, FrameTyped, PlacesAre
    <3>4. \A i \in 1 .. n - 1 : t(i + 1) < t(i)
      BY <3>2 DEF Runs, NestedInOrder
    <3> HIDE DEF n, t
    <3>5. Bad = {}
      <4>1. SUFFICES ASSUME Bad # {} PROVE FALSE
        OBVIOUS
      <4>2. Bad \in SUBSET Nat
        OBVIOUS
      <4>3. PICK m \in Bad : \A i \in Bad : m <= i
        BY <4>1, <4>2, Least
      <4>4. m # 1 /\ m \in 1 .. n
        BY <3>3, <4>3
      <4>5. m - 1 \in 1 .. n - 1 /\ m - 1 \in 1 .. n /\ (m - 1) + 1 = m
        BY <3>3, <4>4
      <4>6. Low(m - 1)
        BY <4>3, <4>5
      <4>7. t(m) < t(m - 1)
        BY <3>4, <4>5
      <4> QED BY <3>3, <4>3, <4>4, <4>5, <4>6, <4>7
    <3>6. n \in 1 .. n /\ 1 \in 1 .. n
      BY <3>3
    <3>7. Low(n)
      BY <3>5, <3>6
    <3>8. t(n) \in Nat \ {0} /\ t(1) \in Nat /\ t(1) <= Len(tokens)
      BY <3>3, <3>6
    <3>9. Len(tokens) \in Nat
      BY <3>2, PlacesAre
    <3> QED BY <3>3, <3>7, <3>8, <3>9 DEF n
  <2> QED BY <2>1, <2>2
<1> QED BY <1>1, Invariant, PTL

\* Wherever tok_pos is set to, an expression that is evaluated there is left at
\* that place or further on, and no further than the last token.
THEOREM ExpressionsGoOn ==
  Spec => [](mode # "lex" => \A p \in DOMAIN tokens : Expr(p).p \in p .. Len(tokens))
<1>1. ASSUME IInv, mode # "lex", NEW p \in DOMAIN tokens
      PROVE  Expr(p).p \in p .. Len(tokens)
  <2>1. Ready /\ Lexed /\ error \in BOOLEAN
    BY <1>1, RunsIs DEF Runs
  <2>2. Expr(p) \in Results /\ Expr(p).p >= p
    BY <1>1, <2>1, ExprTyped
  <2>3. Expr(p).p \in DOMAIN tokens
    BY <2>2, Changed
  <2> QED BY <1>1, <2>1, <2>2, <2>3, PlacesAre
<1>2. IInv => (mode # "lex" => \A p \in DOMAIN tokens : Expr(p).p \in p .. Len(tokens))
  BY <1>1
<1> QED BY <1>2, Invariant, PTL

\* Any text of tokens none of which run together is cut into those tokens again.
THEOREM LexerIsRight == Spec => LexedAsWritten
<1> DEFINE Right == mode = "lex" /\ ~Glued(prog.written, prog.layout) =>
                      tokens' = UpTo(prog.limit, prog.written)
<1>1. IInv /\ [Next]_vars => [Right]_vars
  <2>1. SUFFICES ASSUME IInv, Next, mode = "lex", ~Glued(prog.written, prog.layout)
                 PROVE  tokens' = UpTo(prog.limit, prog.written)
    OBVIOUS
  <2>2. Lex
    BY <2>1 DEF Next, Lex, BlockEnd, ExecVar, ExecAssign, ExecIf, ExecWhile, Test, ExecRepeat,
         ExecFor, ExecReturn, ExecJump, ExecFn, ExecExpr, ThenReturn, ElseReturn, WhileReturn,
         RepeatReturn, AgainReturn, ForReturn, Finish, At, Running, Returns
  <2>3. prog.written \in Seq(Written) /\ prog.layout \in Layouts
    BY <2>1, SourcesAssumption DEF IInv
  <2>4. TokensFrom(Text(prog.written, prog.layout))[1] = prog.written
    BY <2>1, <2>3, LexesAsWritten
  <2>5. tokens' = UpTo(prog.limit, TokensFrom(Text(prog.written, prog.layout))[1])
    BY <2>1, <2>2 DEF IInv, Lex, tpl_lexer
  <2> QED BY <2>4, <2>5
<1>2. [][Right]_vars => LexedAsWritten
  BY PTL DEF LexedAsWritten
<1> QED BY <1>1, <1>2, Invariant, PTL DEF Spec
=============================================================================
