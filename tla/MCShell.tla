------------------------------ MODULE MCShell ------------------------------
EXTENDS CrusaderShell

\* Letters stand for themselves, ctrl for a key without a character.
MCLower == [k \in {"n", "h", "k", "t", "l", "p", "r", "c", "d", "a", "x", " ", "nl", "bs", "ctrl", NavKey} |->
              CASE k = "ctrl" -> NoChar [] k = NavKey -> "8" [] OTHER -> k]
MCUpper == [MCLower EXCEPT !["x"] = "X", !["n"] = "N"]
MCChars == {MCLower[k] : k \in DOMAIN MCLower} \cup {"X", "N"}

MCCommandOf ==
  << "n" >> :> "note" @@ << "h" >> :> "help" @@ << "k" >> :> "clear" @@ << "t" >> :> "cat"
  @@ << "l" >> :> "ld" @@ << "p" >> :> "play1" @@ << "r" >> :> "reboot"
MCAllWord == << "a" >>
MCPrompt  == << "." >>

pm == [base |-> "p", slave |-> FALSE]
ps == [base |-> "p", slave |-> TRUE]
sm == [base |-> "s", slave |-> FALSE]
MCUnits  == {pm, ps, sm}
MCDrives == << pm, ps, sm >>
MCSectors == {Super, Root, File}

MCContents ==
  [u \in MCUnits |-> [s \in MCSectors |->
     Holding(CASE u = pm /\ s = Super -> "super" [] u = pm /\ s = Root -> "root"
               [] u = ps /\ s = Super -> "wave" [] OTHER -> "else",
             << >>)]]

-----------------------------------------------------------------------------
(* What is typed                                                           *)

Tap(k)   == << Down(k), Up(k) >>
With(k)  == << Down("LShift"), Down(k), Up(k), Up("LShift") >>
Rolls(k) == << Down("RShift"), Down(k), Up("RShift"), Up(k) >>

Gestures == {Tap("x"), Tap("bs"), Tap("nl"), Tap(" "), With("x"), Rolls("x"), Tap(NavKey), With(NavKey), Tap("ctrl")}

Keyed(s)  == FlattenSeq([i \in 1 .. Len(s) |-> Tap(s[i])])
Pressed(s) == [i \in 1 .. Len(s) |-> Down(s[i])]

Short == UNION {{FlattenSeq(g) : g \in [1 .. n -> Gestures]} : n \in 0 .. 3}

Noting(name) == << "n", " ", "c", " ", name, " ", "x", "nl" >>

Sessions == {
  << "x", "x", "x", "x", "x", "x", "x", "x", "x", "x", "x", "bs", "x", "nl" >>,
  Noting("x") \o Noting("n"),
  Noting("x") \o << "n", " ", "d", " ", "x", "nl" >>,
  Noting("x") \o << "n", " ", "d", " ", "a", "nl" >> \o Noting("n"),
  Noting("x") \o << "r", "nl" >>, << "h", "nl", "t", "nl" >>, << "l", "nl" >> \o Noting("x"),
  Noting("x") \o << "p", "nl" >>,
  << "p", "nl", "x", "bs", "nl" >>, << "p", "nl", "n", " ", "c", " ", "x", " ", "x", "nl" >> }

SlowSessions == { Noting("x"), << "l", "nl" >>, << "p", "nl" >> }

Script(keys, late_) == [keys |-> keys, slow |-> late_]

MCScripts ==
  {Script(k, FALSE) : k \in Short} \cup {Script(Pressed(s), FALSE) : s \in Sessions}
  \cup {Script(Pressed(s), TRUE) : s \in SlowSessions}

=============================================================================
