---------------------------- MODULE TemplarLexer ----------------------------
(***************************************************************************)
(* tpl_lexer, and the texts it is given.  A text is a sequence of          *)
(* characters, except that a run of letters and digits counts as one: a    *)
(* word when it begins with a letter, else digits with their value.        *)
(* Strings, and the lengths at which a word or a number is cut in two, are *)
(* left out.                                                               *)
(***************************************************************************)
EXTENDS TemplarTokens, SequencesExt

Digits(n) == [k |-> "digits", t |-> "-", n |-> n]
Space     == Token("space")

\* The first characters of the operators of two; the second is =.
FirstOf ==
  [k \in {"==", "!=", "<=", ">="} |->
     CASE k = "==" -> "=" [] k = "!=" -> "!" [] k = "<=" -> "<" [] k = ">=" -> ">"]

WordTokens == {"and", "or", "not"}

\* The characters that are a token alone.
Single ==
  {"=", "<", ">", "+", "-", "*", "/", "%"}
  \cup {"lparen", "rparen", "lbrace", "rbrace", "colon", "comma"}

-----------------------------------------------------------------------------
(* The text of a program, from the tokens it is written with               *)

\* The tokens a program is written with.
Written ==
  [k : Single \cup DOMAIN FirstOf \cup WordTokens \cup {"nl"}, t : {"-"}, n : {0}]
  \cup [k : {"name"}, t : STRING \ WordTokens, n : {0}]
  \cup [k : {"num"}, t : {"-"}, n : Int]

Spelled(tok) ==
  CASE tok.k = "num"           -> IF tok.n < 0 THEN << Token("-"), Digits(-tok.n) >>
                                  ELSE << Digits(tok.n) >>
    [] tok.k \in WordTokens    -> << Name(tok.k) >>
    [] tok.k \in DOMAIN FirstOf -> << Token(FirstOf[tok.k]), Token("=") >>
    [] OTHER                   -> << tok >>

\* A program is laid out over several lines, with a comment at the end of each,
\* after a character of no meaning; with only some blocks over several lines,
\* and no spaces but those without which words run together; or on one line.
Layouts == {"lines", "short", "line"}

\* Two tokens that would run together.
Clash(a, b) ==
  /\ a.k \in {"name", "num"} \cup WordTokens
  /\ b.k \in {"name", "num"} \cup WordTokens /\ Head(Spelled(b)).k # "-"

Remark == << Token("other"), Token("#"), Name("x"), Token("lbrace"), Token("quote") >>

\* What stands in the text for the i-th token.
Piece(written, layout, i) ==
  (IF layout = "lines" /\ written[i] = Nl THEN Remark ELSE << >>)
  \o Spelled(written[i])
  \o (IF \/ layout # "short"
         \/ i < Len(written) /\ Clash(written[i], written[i + 1])
      THEN << Space >> ELSE << >>)

Text(written, layout) ==
  FlattenSeq([i \in DOMAIN written |-> Piece(written, layout, i)])

\* Two tokens that the lexer takes for one, if nothing stands between them: a
\* minus and digits, or an = at the end of another operator.
Glued(written, layout) ==
  /\ layout = "short"
  /\ \E i \in 1 .. Len(written) - 1 :
       LET next == Head(Spelled(written[i + 1])).k
       IN \/ written[i].k = "-" /\ next = "digits"
          \/ written[i].k \in {"=", "<", ">"} /\ next = "="

-----------------------------------------------------------------------------
(* The lexer                                                               *)

\* The newline at the end of a comment, or the end of the text.
LineEnd(text, p) ==
  CHOOSE q \in p .. Len(text) + 1 :
    /\ q = Len(text) + 1 \/ text[q] = Nl
    /\ \A i \in p .. q - 1 : text[i] # Nl

Takes(tok, to)  == [toks |-> << tok >>, to |-> to]
Passes(to)      == [toks |-> << >>, to |-> to]

\* Operators and brackets; a minus right before digits is the number's, and
\* spaces and characters of no meaning are passed.
ScanSign(c, next, p) ==
  IF c.k = "-" /\ next.k = "digits" THEN Takes(Number(-next.n), p + 2)
  ELSE IF next.k = "=" /\ \E k \in DOMAIN FirstOf : FirstOf[k] = c.k
  THEN Takes(Token(CHOOSE k \in DOMAIN FirstOf : FirstOf[k] = c.k), p + 2)
  ELSE IF c.k \in Single THEN Takes(c, p + 1)
  ELSE Passes(p + 1)

\* Mutant: a comment takes the end of its line with it.
ScanMutant(text, p) ==
  LET c    == text[p]
      next == IF p < Len(text) THEN text[p + 1] ELSE Token("eof")
  IN CASE c.k = "#"      -> Passes(LineEnd(text, p) + 1)
       [] c = Nl         -> Takes(c, p + 1)
       [] c.k = "name"   -> Takes(IF c.t \in WordTokens THEN Token(c.t) ELSE c, p + 1)
       [] c.k = "digits" -> Takes(Number(c.n), p + 1)
       [] OTHER          -> ScanSign(c, next, p)

\* A round of the loop at p: the token that begins there, if there is one, and
\* the place behind it.
Scan(text, p) ==
  LET c    == text[p]
      next == IF p < Len(text) THEN text[p + 1] ELSE Token("eof")
  IN CASE c.k = "#"      -> Passes(LineEnd(text, p))
       [] c = Nl         -> Takes(c, p + 1)
       [] c.k = "name"   -> Takes(IF c.t \in WordTokens THEN Token(c.t) ELSE c, p + 1)
       [] c.k = "digits" -> Takes(Number(c.n), p + 1)
       [] OTHER          -> ScanSign(c, next, p)

\* The tokens from each place of the text on.
TokensFrom(text) ==
  LET from[p \in 1 .. Len(text) + 1] ==
        IF p > Len(text) THEN << >> ELSE Scan(text, p).toks \o from[Scan(text, p).to]
  IN from

\* No more tokens than the limit, TEMPLAR_MAX_TOKENS - 1, and the end.
UpTo(limit, toks) ==
  SubSeq(toks, 1, IF Len(toks) < limit THEN Len(toks) ELSE limit) \o << Token("eof") >>

tpl_lexer(text, limit) == UpTo(limit, TokensFrom(text)[1])
=============================================================================
