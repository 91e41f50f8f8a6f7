------------------------ MODULE CrusaderShellProofs ------------------------
(***************************************************************************)
(* Proofs about CrusaderShell, for every size of the screen, the line, the *)
(* log and the disk, for every table of commands and whatever is typed.    *)
(* First the types, the line, the log, the cursor and the disk channels;   *)
(* then what the user relies on: the lines that run are those that were    *)
(* meant, the screen shows the line, the notes made are on the disk.       *)
(***************************************************************************)
EXTENDS CrusaderShell, SequenceTheorems, FiniteSetTheorems, TLAPS

-----------------------------------------------------------------------------
(* Programs                                                                *)

LEMMA TextTyped ==
  ASSUME NEW how \in {"klog", "colour", "vesa"}, NEW s \in Seq(Glyphs)
  PROVE  Text(how, s) \in Seq(Instructions) /\ Len(Text(how, s)) = Len(s)
<1>1. \A i \in 1 .. Len(s) : [op |-> "put", how |-> how, ch |-> s[i]] \in Instructions
  BY DEF Instructions
<1> QED BY <1>1 DEF Text

LEMMA TextGlyphs == {".", "nl", "bs"} \subseteq Glyphs /\ Chars \subseteq Glyphs
BY DEF Glyphs

LEMMA TimesTyped ==
  ASSUME NEW n \in Nat, NEW s \in Seq(Instructions), Len(s) = 2
  PROVE  Times(n, s) \in Seq(Instructions)
<1>1. n * Len(s) \in Nat
  OBVIOUS
<1>2. \A i \in 1 .. n * Len(s) : ((i - 1) % Len(s)) + 1 \in 1 .. Len(s)
  OBVIOUS
<1>3. \A i \in 1 .. n * Len(s) : s[((i - 1) % Len(s)) + 1] \in Instructions
  BY <1>2
<1> QED BY <1>1, <1>3 DEF Times

\* The pieces all programs are made of.
LEMMA PiecesTyped ==
  /\ kklog \in Seq(Instructions) /\ Len(kklog) = 2
  /\ Usage \in Seq(Instructions)
  /\ kklog_line \in Seq(Instructions) /\ Len(kklog_line) = 2
  /\ Prompting \in Seq(Instructions) /\ Prompting # << >>
<1>1. <<".", "nl">> \in Seq(Glyphs) /\ <<".", "nl", "nl">> \in Seq(Glyphs)
      /\ <<".">> \in Seq(Glyphs) /\ <<"nl">> \in Seq(Glyphs) /\ Prompt \in Seq(Glyphs)
  BY TextGlyphs, ShellAssumption
<1>2. kklog \in Seq(Instructions) /\ Len(kklog) = 2
  BY <1>1, TextTyped DEF kklog
<1>3. Usage \in Seq(Instructions)
  BY <1>1, TextTyped DEF Usage
<1>4. Text("colour", <<".">>) \in Seq(Instructions) /\ Len(Text("colour", <<".">>)) = 1
      /\ Text("klog", <<"nl">>) \in Seq(Instructions) /\ Len(Text("klog", <<"nl">>)) = 1
      /\ Text("colour", Prompt) \in Seq(Instructions)
  BY <1>1, TextTyped
<1>5. kklog_line \in Seq(Instructions) /\ Len(kklog_line) = 2
  BY <1>4, ConcatProperties DEF kklog_line
<1>6. Prompting \in Seq(Instructions) /\ Prompting # << >>
  BY <1>4, ConcatProperties DEF Prompting
<1> QED BY <1>2, <1>3, <1>5, <1>6

LEMMA SingleTyped ==
  /\ \A u \in Units : SelectI(u) \in Instructions
  /\ \A s \in {Super, Root, File} : ReadI(s) \in Instructions /\ WriteI(s) \in Instructions
  /\ \A m \in Messages : StatusI(m) \in Instructions
  /\ \A op \in {"clear", "down", "check", "reset", "exit"} : DoI(op) \in Instructions
  /\ \A i \in 1 .. Len(Drives) : [op |-> "drive", index |-> i] \in Instructions
<1>1. {Super, Root, File} \subseteq Sectors
  BY ShellAssumption
<1> QED BY <1>1 DEF Instructions, SelectI, ReadI, WriteI, StatusI, DoI

LEMMA SaveTyped == SaveProg \in Seq(Instructions)
<1>1. "NOTES_SAVED" \in Messages
  BY DEF Messages
<1>2. StatusI("NOTES_SAVED") \in Instructions
  BY <1>1, SingleTyped
<1> QED BY <1>2, SingleTyped DEF SaveProg

LEMMA LdTyped ==
  ASSUME NEW i \in Nat \ {0}
  PROVE  LdFrom(i) \in Seq(Instructions)
<1>1. CASE i > Len(Drives)
  BY <1>1, SingleTyped, AtaAssumption DEF LdFrom
<1>2. CASE ~ i > Len(Drives)
  <2>1. i \in 1 .. Len(Drives) /\ Drives[i] \in Units
    BY <1>2, ShellAssumption
  <2>2. <<SelectI(Drives[i]), ReadI(Super), [op |-> "drive", index |-> i]>> \in Seq(Instructions)
    BY <2>1, SingleTyped
  <2>3. Times(4, kklog) \in Seq(Instructions)
    BY PiecesTyped, TimesTyped
  <2> QED BY <1>2, <2>2, <2>3, ConcatProperties DEF LdFrom
<1> QED BY <1>1, <1>2

LEMMA LdShownTyped ==
  ASSUME NEW i \in 1 .. Len(Drives), NEW f \in BOOLEAN
  PROVE  LdShown(i, f) \in Seq(Instructions)
<1> DEFINE n == IF f THEN 3 ELSE IF Drives[i] = Home THEN 1 ELSE 0
           a == kklog_line \o Times(n, kklog)
           b == Text("klog", <<"nl">>)
           c == <<DoI("down")>>
<1>1. a \in Seq(Instructions)
  <2>1. n \in Nat
    OBVIOUS
  <2>2. Times(n, kklog) \in Seq(Instructions)
    <3> HIDE DEF n
    <3> QED BY <2>1, PiecesTyped, TimesTyped
  <2> HIDE DEF n
  <2> QED BY <2>2, PiecesTyped, ConcatProperties
<1>2. b \in Seq(Instructions)
  <2>1. <<"nl">> \in Seq(Glyphs)
    BY TextGlyphs
  <2> QED BY <2>1, TextTyped
<1>3. c \in Seq(Instructions)
  BY SingleTyped
<1>4. LdFrom(i + 1) \in Seq(Instructions)
  BY LdTyped, ShellAssumption
<1>5. LdShown(i, f) = ((a \o b) \o c) \o LdFrom(i + 1)
  BY DEF LdShown
<1> HIDE DEF a, b, c
<1> QED BY <1>1, <1>2, <1>3, <1>4, <1>5, ConcatProperties

LEMMA CommandsTyped ==
  /\ cmd_help \in Seq(Instructions) /\ cmd_cat \in Seq(Instructions)
  /\ cmd_reboot \in Seq(Instructions) /\ cmd_ld \in Seq(Instructions)
  /\ <<DoI("clear")>> \in Seq(Instructions)
<1>1. cmd_help \in Seq(Instructions)
  BY PiecesTyped, TimesTyped DEF cmd_help
<1>2. cmd_cat \in Seq(Instructions)
  <2>1. <<".", "nl">> \in Seq(Glyphs) /\ Len(<<".", "nl">>) = 2
    BY TextGlyphs
  <2>2. Text("vesa", <<".", "nl">>) \in Seq(Instructions) /\ Len(Text("vesa", <<".", "nl">>)) = 2
    BY <2>1, TextTyped
  <2> QED BY <2>2, TimesTyped, ShellAssumption DEF cmd_cat
<1>3. cmd_reboot \in Seq(Instructions)
  <2>1. <<DoI("reset")>> \in Seq(Instructions)
    BY SingleTyped
  <2> QED BY <2>1, PiecesTyped, ConcatProperties DEF cmd_reboot
<1>4. cmd_ld \in Seq(Instructions)
  BY LdTyped, PiecesTyped, ConcatProperties DEF cmd_ld
<1>5. <<DoI("clear")>> \in Seq(Instructions)
  BY SingleTyped
<1> QED BY <1>1, <1>2, <1>3, <1>4, <1>5

\* What neither resets, nor clears, nor moves the cursor without looking at the
\* edges afterwards.
Plain ==
  {i \in Instructions : /\ i.op \notin {"down", "drive", "clear", "reset"}
                        /\ i.op = "put" => i.how # "vesa"}

LEMMA PlainTyped == Seq(Plain) \subseteq Seq(Instructions)
BY DEF Plain

LEMMA PlainText ==
  ASSUME NEW how \in {"klog", "colour"}, NEW s \in Seq(Glyphs)
  PROVE  Text(how, s) \in Seq(Plain) /\ Len(Text(how, s)) = Len(s)
<1>1. \A i \in 1 .. Len(s) : [op |-> "put", how |-> how, ch |-> s[i]] \in Plain
  BY DEF Instructions, Plain
<1> QED BY <1>1 DEF Text

LEMMA PiecesPlain ==
  /\ kklog \in Seq(Plain) /\ Usage \in Seq(Plain) /\ Prompting \in Seq(Plain)
  /\ Text("colour", <<".", "nl">>) \in Seq(Plain) /\ Text("klog", <<"nl">>) \in Seq(Plain)
  /\ Text("klog", <<"bs">>) \in Seq(Plain)
<1>1. <<".", "nl">> \in Seq(Glyphs) /\ <<".", "nl", "nl">> \in Seq(Glyphs)
      /\ <<"nl">> \in Seq(Glyphs) /\ <<"bs">> \in Seq(Glyphs) /\ Prompt \in Seq(Glyphs)
  BY TextGlyphs, ShellAssumption
<1>2. kklog \in Seq(Plain) /\ Usage \in Seq(Plain)
      /\ Text("colour", <<".", "nl">>) \in Seq(Plain)
      /\ Text("klog", <<"nl">>) \in Seq(Plain) /\ Text("klog", <<"bs">>) \in Seq(Plain)
      /\ Text("colour", Prompt) \in Seq(Plain)
  BY <1>1, PlainText DEF kklog, Usage
<1>3. Prompting \in Seq(Plain)
  BY <1>2, ConcatProperties DEF Prompting
<1> QED BY <1>2, <1>3

LEMMA SinglePlain ==
  /\ \A u \in Units : SelectI(u) \in Plain
  /\ \A s \in {Super, Root, File} : ReadI(s) \in Plain /\ WriteI(s) \in Plain
  /\ \A m \in Messages : StatusI(m) \in Plain
  /\ \A op \in {"check", "exit"} : DoI(op) \in Plain
BY SingleTyped DEF Plain, SelectI, ReadI, WriteI, StatusI, DoI

LEMMA BootPlain == BootProg \in Seq(Plain)
<1>1. <<SelectI(Home), ReadI(Super), ReadI(Root)>> \in Seq(Plain)
  BY SinglePlain, AtaAssumption
<1>2. <<StatusI("BOOTED"), StatusI("MULTITASKING_STARTED")>> \in Seq(Plain)
  <2>1. "BOOTED" \in Messages /\ "MULTITASKING_STARTED" \in Messages
    BY DEF Messages
  <2> QED BY <2>1, SinglePlain
<1>3. <<SelectI(Home), ReadI(Super), ReadI(Root)>> \o Prompting \in Seq(Plain)
  BY <1>1, PiecesPlain, ConcatProperties
<1> QED BY <1>2, <1>3, ConcatProperties DEF BootProg

LEMMA PlayPlain ==
  cmd_playraw \in Seq(Plain) /\ PlayOn \in Seq(Plain) /\ PlayNot \in Seq(Plain)
<1> DEFINE a == Text("colour", <<".", "nl">>) \o Text("klog", <<"nl">>)
           b == [i \in 1 .. Chunks |-> ReadI(Root)]
           c == <<SelectI(Home), DoI("exit")>>
<1>1. cmd_playraw \in Seq(Plain)
  BY SinglePlain, ShellAssumption DEF cmd_playraw
<1>2. a \in Seq(Plain)
  BY PiecesPlain, ConcatProperties
<1>3. b \in Seq(Plain)
  <2>1. ReadI(Root) \in Plain /\ Chunks \in Nat
    BY SinglePlain, ShellAssumption
  <2> QED BY <2>1
<1>4. c \in Seq(Plain)
  BY SinglePlain, AtaAssumption
<1>5. PlayOn = ((a \o b) \o Usage) \o c /\ PlayNot = kklog \o c
  BY DEF PlayOn, PlayNot
<1> HIDE DEF a, b, c
<1> QED BY <1>1, <1>2, <1>3, <1>4, <1>5, PiecesPlain, ConcatProperties

-----------------------------------------------------------------------------
(* The keyboard                                                            *)

Keyed == KbdTypeOK /\ todo \in Seq(Strikes)

LEMMA SendsTyped ==
  ASSUME NEW s \in Strikes, held \subseteq ShiftKeys
  PROVE  Sends(s) \in Seq(Codes)
<1>1. E0 \in Codes /\ s \in Codes
  BY DEF Codes
<1>2. \A k \in held : Up(k) \in Codes /\ Down(k) \in Codes
  BY DEF Codes, Strikes, Keys, Up, Down
<1>3. CASE held = {} \/ s.key # NavKey
  BY <1>1, <1>3 DEF Sends
<1>4. CASE held # {} /\ s.key = NavKey
  <2> DEFINE k == CHOOSE x \in held : TRUE
  <2>1. k \in held
    BY <1>4
  <2>2. Sends(s) = IF ~s.up THEN <<E0, Up(k), E0, s>> ELSE <<E0, s, E0, Down(k)>>
    <3>1. s.up \in BOOLEAN
      BY DEF Strikes
    <3> QED BY <1>4, <3>1 DEF Sends
  <2> HIDE DEF k
  <2> QED BY <1>1, <1>2, <2>1, <2>2
<1> QED BY <1>3, <1>4

LEMMA KeyedInit == Init => Keyed
<1> SUFFICES ASSUME Init PROVE Keyed
  OBVIOUS
<1>1. todo \in Seq(Strikes)
  <2>1. PICK s \in Scripts : todo = s.keys
    BY DEF Init, ShellInit
  <2> QED BY <2>1, ShellAssumption
<1>2. codes = << >> /\ held = {} /\ shift_pressed = FALSE /\ is_extended = FALSE /\ missed = FALSE
  BY DEF Init, KbdInit
<1>3. held \subseteq ShiftKeys /\ codes \in Seq(Codes) /\ Len(codes) <= Fifo
  BY <1>2, KeyboardAssumption
<1>4. shift_pressed \in BOOLEAN /\ is_extended \in BOOLEAN /\ missed \in BOOLEAN
  BY <1>2, Zenon
<1> QED BY <1>1, <1>3, <1>4 DEF Keyed, KbdTypeOK

LEMMA StrikeTyped ==
  ASSUME Keyed, NEW s \in Strikes, Strike(s)
  PROVE  KbdTypeOK'
<1> DEFINE sent == codes \o Sends(s)
<1>1. sent \in Seq(Codes)
  BY SendsTyped, ConcatProperties DEF Keyed, KbdTypeOK
<1>2. codes' \in Seq(Codes) /\ Len(codes') <= Fifo
  <2>1. CASE Len(sent) > Fifo
    <3>1. codes' = SubSeq(sent, 1, Fifo)
      BY <2>1 DEF Strike
    <3> HIDE DEF sent
    <3> QED BY <1>1, <2>1, <3>1, KeyboardAssumption, SubSeqProperties
  <2>2. CASE ~ Len(sent) > Fifo
    <3>1. codes' = sent
      BY <2>2 DEF Strike
    <3> HIDE DEF sent
    <3> QED BY <1>1, <2>2, <3>1, KeyboardAssumption
  <2> QED BY <2>1, <2>2
<1>3. held' \subseteq ShiftKeys
  BY DEF Strike, Keyed, KbdTypeOK
<1>4. missed' \in BOOLEAN
  BY DEF Strike, Keyed, KbdTypeOK
<1> QED BY <1>2, <1>3, <1>4 DEF Strike, Keyed, KbdTypeOK

LEMMA KeyedStep == Keyed /\ [Next]_vars => Keyed'
<1> SUFFICES ASSUME Keyed, [Next]_vars PROVE Keyed'
  OBVIOUS
<1>1. CASE Types
  <2>1. Head(todo) \in Strikes /\ Tail(todo) \in Seq(Strikes)
    BY <1>1 DEF Types, Keyed
  <2> QED BY <1>1, <2>1, StrikeTyped DEF Types, Keyed
<1>2. CASE Poll
  <2>1. codes # << >> /\ codes \in Seq(Codes)
    BY <1>2 DEF Poll, Keyed, KbdTypeOK
  <2>2. codes' = Tail(codes)
    BY <1>2 DEF Poll, ReadCode
  <2>3. codes' \in Seq(Codes) /\ Len(codes') <= Fifo
    BY <2>1, <2>2, KeyboardAssumption DEF Keyed, KbdTypeOK
  <2>4. shift_pressed' \in BOOLEAN /\ is_extended' \in BOOLEAN
    <3>1. Head(codes) \in Codes
      BY <2>1
    <3>2. \A c \in Codes : c.up \in BOOLEAN
      <4>1. \A c \in Strikes : c.up \in BOOLEAN
        BY Zenon DEF Strikes
      <4>2. E0.up \in BOOLEAN
        BY Zenon DEF E0
      <4> QED BY <4>1, <4>2, Zenon DEF Codes
    <3> QED BY <1>2, <3>1, <3>2 DEF Poll, ReadCode, Keyed, KbdTypeOK
  <2>5. todo' = todo /\ held' = held /\ missed' = missed
    BY <1>2 DEF Poll, ReadCode
  <2> QED BY <2>3, <2>4, <2>5 DEF Keyed, KbdTypeOK
<1>3. CASE Resets
  <2>1. codes' = << >> /\ UNCHANGED <<held, todo>>
    BY <1>3 DEF Resets, KbdReset
  <2>2. shift_pressed' \in BOOLEAN /\ is_extended' \in BOOLEAN /\ missed' \in BOOLEAN
    BY <1>3, Zenon DEF Resets, KbdReset
  <2> QED BY <2>1, <2>2, KeyboardAssumption DEF Keyed, KbdTypeOK
<1>4. CASE UNCHANGED <<kbdVars, todo>>
  BY <1>4 DEF kbdVars, Keyed, KbdTypeOK
<1>5. QED
  <2>1. ASSUME NEW t \in Tasks, Runs(t) PROVE UNCHANGED <<kbdVars, todo>>
    BY <2>1 DEF Runs, Prints, Settles, Accesses, Does
  <2>2. Execute \/ Again \/ Waits \/ Exits \/ Drive \/ UNCHANGED vars => UNCHANGED <<kbdVars, todo>>
    BY DEF Execute, Again, Waits, Exits, Drive, shellVars, vars
  <2> QED BY <1>1, <1>2, <1>3, <1>4, <2>1, <2>2 DEF Next, Main, Player, Tasks

-----------------------------------------------------------------------------
(* The shell: its place, its programs, its line                            *)

Shape ==
  /\ pc \in {"boot", "poll", "execute", "again", "prompt", "halted"}
  /\ prog \in [Tasks -> Seq(Instructions)] /\ prog["player"] \in Seq(Plain)
  /\ pc \notin {"again", "halted"} => prog["main"] \in Seq(Plain)
  /\ cmd_buf \in Seq(Chars) /\ Len(cmd_buf) < BufSize

LEMMA Fields ==
  ASSUME NEW i \in Instructions
  PROVE  /\ i.op = "drive" => i.index \in 1 .. Len(Drives)
         /\ i.op = "select" => i.unit \in Units
         /\ i.op \in {"read", "write"} => i.sector \in Sectors
         /\ i.op = "status" => i.msg \in Messages
BY DEF Instructions

\* What is ahead of a task that is ready.
LEMMA ThisTyped ==
  ASSUME Shape, NEW t \in Tasks, prog[t] # << >>
  PROVE  /\ This(t) \in Instructions /\ Tail(prog[t]) \in Seq(Instructions)
         /\ prog[t] \in Seq(Plain) => This(t) \in Plain /\ Tail(prog[t]) \in Seq(Plain)
<1>1. prog[t] \in Seq(Instructions)
  BY DEF Shape
<1> QED BY <1>1 DEF This

LEMMA ShapeInit == Init => Shape
<1> SUFFICES ASSUME Init PROVE Shape
  OBVIOUS
<1>1. << >> \in Seq(Plain) /\ BootProg \in Seq(Plain) /\ BootProg \in Seq(Instructions)
  BY BootPlain, PlainTyped
<1>2. prog = Alone(BootProg) /\ pc = "boot" /\ cmd_buf = << >>
  BY DEF Init, ShellInit
<1> QED BY <1>1, <1>2, ShellAssumption DEF Alone, Shape, Tasks

LEMMA ShapeDone ==
  ASSUME Shape, NEW t \in Tasks, prog[t] # << >>, Done(t), UNCHANGED <<pc, cmd_buf>>
  PROVE  Shape'
<1>1. Tail(prog[t]) \in Seq(Instructions) /\ (prog[t] \in Seq(Plain) => Tail(prog[t]) \in Seq(Plain))
  BY ThisTyped
<1> QED BY <1>1 DEF Shape, Done, Tasks

LEMMA ShapeSame == Shape /\ UNCHANGED <<pc, cmd_buf, prog>> => Shape'
BY DEF Shape

\* The instructions of a task.
LEMMA ShapeRuns ==
  ASSUME Shape, NEW t \in Tasks, Runs(t)
  PROVE  Shape'
<1>1. UNCHANGED <<pc, cmd_buf>>
  BY DEF Runs, Prints, Settles, Accesses, Does
<1>2. CASE UNCHANGED prog
  BY <1>1, <1>2, ShapeSame
<1>3. CASE prog[t] # << >> /\ Done(t)
  BY <1>1, <1>3, ShapeDone
<1>4. CASE Ready(t) /\ This(t).op = "drive"
           /\ prog' = [prog EXCEPT ![t] = LdShown(This(t).index, buf[t].kind = "super")]
  <2> DEFINE next == LdShown(This(t).index, buf[t].kind = "super")
  <2>1. This(t) \in Instructions /\ (prog[t] \in Seq(Plain) => This(t) \in Plain)
    BY <1>4, ThisTyped DEF Ready
  <2>2. next \in Seq(Instructions)
    <3>1. This(t).index \in 1 .. Len(Drives)
      BY <1>4, <2>1, Fields
    <3>2. (buf[t].kind = "super") \in BOOLEAN
      OBVIOUS
    <3> QED BY <3>1, <3>2, LdShownTyped
  <2>3. prog[t] \notin Seq(Plain)
    BY <1>4, <2>1 DEF Plain
  <2>4. prog' = [prog EXCEPT ![t] = next]
    BY <1>4
  <2> HIDE DEF next
  <2> QED BY <1>1, <2>2, <2>3, <2>4 DEF Shape, Tasks
<1>5. CASE \/ prog' = [prog EXCEPT ![t] = PlayOn]
           \/ prog' = [prog EXCEPT ![t] = PlayNot]
  <2>1. PlayOn \in Seq(Plain) /\ PlayNot \in Seq(Plain)
        /\ PlayOn \in Seq(Instructions) /\ PlayNot \in Seq(Instructions)
    BY PlayPlain, PlainTyped
  <2> QED BY <1>1, <1>5, <2>1 DEF Shape, Tasks
<1>6. CASE Prints(t)
  BY <1>3, <1>6 DEF Prints, Ready
<1>7. CASE Settles(t)
  BY <1>2, <1>7 DEF Settles
<1>8. CASE Accesses(t)
  BY <1>2, <1>3, <1>8 DEF Accesses, Ready
<1>9. CASE Does(t)
  BY <1>3, <1>4, <1>5, <1>9 DEF Does, Ready
<1> QED BY <1>6, <1>7, <1>8, <1>9 DEF Runs

LEMMA ShapeStarts ==
  ASSUME Shape, NEW p \in Seq(Instructions), Starts(p), p \in Seq(Plain) \/ pc' \in {"again", "halted"},
         pc' \in {"boot", "poll", "execute", "again", "prompt", "halted"},
         cmd_buf' \in Seq(Chars), Len(cmd_buf') < BufSize
  PROVE  Shape'
BY DEF Shape, Starts, Tasks

LEMMA DecodedTyped ==
  ASSUME Keyed, codes # << >>, Decoded(Head(codes)) # NoChar
  PROVE  Decoded(Head(codes)) \in Chars
<1> DEFINE c == Head(codes)
<1>1. c \in Codes
  BY DEF Keyed, KbdTypeOK
<1>2. c # E0 /\ c.key \notin ShiftKeys
  BY DEF Decoded
<1>3. c.key \in DOMAIN map_lower
  BY <1>1, <1>2 DEF Codes, Strikes, Keys
<1>4. Decoded(c) \in {map_lower[c.key], map_upper[c.key]}
  BY DEF Decoded
<1> HIDE DEF c
<1>5. Decoded(c) \in Chars \cup {NoChar}
  BY <1>3, <1>4, ShellAssumption
<1> QED BY <1>5 DEF c

LEMMA ShapePoll ==
  ASSUME Shape, Keyed, Poll
  PROVE  Shape'
<1> DEFINE c == Decoded(Head(codes))
<1>1. pc = "poll" /\ codes # << >> /\ terminal_key(c)
  BY DEF Poll
<1>2. c # NoChar => c \in Chars
  BY <1>1, DecodedTyped
<1> HIDE DEF c
<1>3. CASE Enters(c)
  <2>1. Text("klog", <<"nl">>) \in Seq(Plain) /\ Text("klog", <<"nl">>) \in Seq(Instructions)
    BY PiecesPlain, PlainTyped
  <2>2. Starts(Text("klog", <<"nl">>)) /\ pc' = "execute" /\ cmd_buf' = cmd_buf
    BY <1>3 DEF Enters
  <2>3. cmd_buf \in Seq(Chars) /\ Len(cmd_buf) < BufSize
    BY DEF Shape
  <2> QED BY <2>1, <2>2, <2>3, ShapeStarts
<1>4. CASE Deletes(c)
  <2>1. Text("klog", <<"bs">>) \in Seq(Plain) /\ Text("klog", <<"bs">>) \in Seq(Instructions)
    BY PiecesPlain, PlainTyped
  <2>2. Starts(Text("klog", <<"bs">>)) /\ pc' = pc /\ cmd_buf # << >> /\ cmd_buf' = Front(cmd_buf)
    BY <1>4 DEF Deletes
  <2>3. cmd_buf \in Seq(Chars) /\ Len(cmd_buf) < BufSize
    BY DEF Shape
  <2>4. cmd_buf' \in Seq(Chars) /\ Len(cmd_buf') < BufSize
    BY <2>2, <2>3, ShellAssumption DEF Front
  <2> QED BY <1>1, <2>1, <2>2, <2>4, ShapeStarts
<1>5. CASE Adds(c)
  <2>1. c \in Chars /\ <<c>> \in Seq(Glyphs)
    BY <1>2, <1>5, TextGlyphs DEF Adds
  <2>2. Text("klog", <<c>>) \in Seq(Plain) /\ Text("klog", <<c>>) \in Seq(Instructions)
    BY <2>1, PlainText, PlainTyped
  <2>3. /\ Starts(Text("klog", <<c>>)) /\ pc' = pc
        /\ Len(cmd_buf) < BufSize - 1 /\ cmd_buf' = Append(cmd_buf, c)
    BY <1>5 DEF Adds
  <2>4. cmd_buf' \in Seq(Chars) /\ Len(cmd_buf') < BufSize
    BY <2>1, <2>3, ShellAssumption DEF Shape
  <2> QED BY <1>1, <2>2, <2>3, <2>4, ShapeStarts
<1>6. CASE Ignores(c)
  BY <1>6, ShapeSame DEF Ignores
<1> QED BY <1>1, <1>3, <1>4, <1>5, <1>6 DEF terminal_key

LEMMA ShapePerforms ==
  ASSUME Shape, NEW effect, NEW args, Performs(effect, args), pc' \in {"again", "halted"},
         UNCHANGED cmd_buf
  PROVE  Shape'
<1>1. cmd_buf' \in Seq(Chars) /\ Len(cmd_buf') < BufSize
  BY DEF Shape
<1>2. ASSUME NEW p \in Seq(Instructions), Starts(p) PROVE Shape'
  BY <1>1, <1>2, ShapeStarts
<1>3. << >> \in Seq(Instructions) /\ kklog \in Seq(Instructions) /\ Usage \in Seq(Instructions)
  BY PiecesTyped
<1>4. CASE \E p \in Seq(Instructions) : OnlyRuns(p)
  BY <1>2, <1>4 DEF OnlyRuns
<1>5. CASE cmd_note(args)
  BY <1>2, <1>3, <1>4, <1>5, SaveTyped DEF cmd_note
<1>6. CASE playrawjmp
  <2>1. cmd_playraw \in Seq(Plain) /\ cmd_playraw \in Seq(Instructions)
    BY PlayPlain, PlainTyped
  <2>2. prog["player"] \in Seq(Plain) /\ prog["player"] \in Seq(Instructions)
    BY DEF Shape, Tasks
  <2> QED BY <1>1, <1>6, <2>1, <2>2 DEF playrawjmp, Shape, Tasks
<1> QED BY <1>3, <1>4, <1>5, <1>6, CommandsTyped DEF Performs

LEMMA ShapeStep == Shape /\ Keyed /\ [Next]_vars => Shape'
<1> SUFFICES ASSUME Shape, Keyed, [Next]_vars PROVE Shape'
  OBVIOUS
<1>1. CASE \E t \in Tasks : Runs(t)
  BY <1>1, ShapeRuns
<1>2. CASE Resets
  <2>1. BootProg \in Seq(Plain) /\ BootProg \in Seq(Instructions) /\ << >> \in Seq(Plain)
        /\ << >> \in Seq(Instructions)
    BY BootPlain, PlainTyped
  <2>2. prog' = Alone(BootProg) /\ pc' = "boot" /\ cmd_buf' = << >>
    BY <1>2 DEF Resets
  <2> QED BY <2>1, <2>2, ShellAssumption DEF Alone, Shape, Tasks
<1>3. CASE Poll
  BY <1>3, ShapePoll
<1>4. CASE Execute
  <2>1. UNCHANGED cmd_buf /\ pc' \in {"again", "halted"}
    BY <1>4 DEF Execute
  <2>2. CASE \E e, args : Performs(e, args)
    BY <2>1, <2>2, ShapePerforms
  <2>3. CASE OnlyRuns(<< >>)
    <3>1. << >> \in Seq(Instructions) /\ cmd_buf' \in Seq(Chars) /\ Len(cmd_buf') < BufSize
      BY <2>1 DEF Shape
    <3> QED BY <2>1, <2>3, <3>1, ShapeStarts DEF OnlyRuns
  <2> QED BY <1>4, <2>2, <2>3 DEF Execute
<1>5. CASE Again
  <2>1. Prompting \in Seq(Plain) /\ Prompting \in Seq(Instructions)
    BY PiecesPlain, PlainTyped
  <2>2. Starts(Prompting) /\ pc' = "prompt" /\ cmd_buf' = << >>
    BY <1>5 DEF Again
  <2> QED BY <2>1, <2>2, ShapeStarts, ShellAssumption
<1>6. CASE Waits \/ Exits
  BY <1>6 DEF Waits, Exits, Shape
<1>7. CASE Types \/ Drive \/ UNCHANGED vars
  BY <1>7, ShapeSame DEF Types, Drive, vars, shellVars
<1> QED BY <1>1, <1>2, <1>3, <1>4, <1>5, <1>6, <1>7 DEF Next, Main, Player, Tasks

\* Every variable the steps below depend on keeps its type, and each task's
\* program is one of instructions; the player's moves neither notes nor machine.
THEOREM TypesHold == Spec => [](Keyed /\ Shape)
<1>1. Init => Keyed /\ Shape
  BY KeyedInit, ShapeInit
<1>2. Keyed /\ Shape /\ [Next]_vars => (Keyed /\ Shape)'
  BY KeyedStep, ShapeStep
<1> QED BY <1>1, <1>2, PTL DEF Spec

-----------------------------------------------------------------------------
(* The status lines                                                        *)

LogInv == log_buffer \in Seq(Messages) /\ logs \in Seq(Messages) /\ LogIsLatest

LEMMA LogAppends ==
  ASSUME LogInv, NEW msg \in Messages, klog_status(msg)
  PROVE  LogInv'
<1> DEFINE n == Len(logs)
           m == Len(log_buffer)
<1>1. n \in Nat /\ m \in Nat /\ MaxLogs \in Nat \ {0} /\ m = IF n < MaxLogs THEN n ELSE MaxLogs
  BY NotesAssumption DEF LogInv, LogIsLatest
<1>2. logs' \in Seq(Messages) /\ Len(logs') = n + 1 /\ logs'[n + 1] = msg
      /\ \A i \in 1 .. n : logs'[i] = logs[i]
  BY DEF LogInv, klog_status
<1>3. \A i \in 1 .. m : log_buffer[i] = logs[n - m + i]
  BY <1>1 DEF LogInv, LogIsLatest
<1>4. CASE m < MaxLogs
  <2>1. n = m
    BY <1>1, <1>4
  <2>2. log_buffer' = Append(log_buffer, msg)
    BY <1>4 DEF klog_status, Logged
  <2>3. log_buffer' \in Seq(Messages) /\ Len(log_buffer') = m + 1 /\ log_buffer'[m + 1] = msg
        /\ \A i \in 1 .. m : log_buffer'[i] = log_buffer[i]
    BY <2>2 DEF LogInv
  <2>4. \A i \in 1 .. m + 1 : log_buffer'[i] = logs'[i]
    <3> SUFFICES ASSUME NEW i \in 1 .. m + 1 PROVE log_buffer'[i] = logs'[i]
      OBVIOUS
    <3> HIDE DEF n, m
    <3>1. i \in Nat /\ i >= 1 /\ (i <= m \/ i = m + 1)
      BY <1>1
    <3>2. CASE i = m + 1
      BY <1>1, <1>2, <2>1, <2>3, <3>2
    <3>3. CASE i <= m
      <4>1. i \in 1 .. m /\ n - m + i = i
        BY <1>1, <2>1, <3>1, <3>3
      <4> QED BY <1>2, <1>3, <2>1, <2>3, <4>1
    <3> QED BY <3>1, <3>2, <3>3
  <2>5. Len(log_buffer') = Len(logs') /\ Len(logs') <= MaxLogs
    <3> HIDE DEF n, m
    <3> QED BY <1>1, <1>2, <1>4, <2>1, <2>3
  <2>6. \A i \in 1 .. Len(logs') : log_buffer'[i] = logs'[i]
    BY <1>2, <2>1, <2>4
  <2>7. LogIsLatest'
    <3> DEFINE n1 == Len(logs')
    <3>1. n1 \in Nat /\ n1 <= MaxLogs /\ MaxLogs \in Nat
      BY <1>1, <1>2, <2>5
    <3>2. (IF n1 < MaxLogs THEN n1 ELSE MaxLogs) = n1
      <4> HIDE DEF n1
      <4> QED BY <3>1
    <3>3. \A i \in 1 .. n1 : n1 - n1 + i = i
      <4> HIDE DEF n1
      <4> QED BY <3>1
    <3> QED BY <2>5, <2>6, <3>2, <3>3 DEF LogIsLatest
  <2> QED BY <1>2, <2>3, <2>7 DEF LogInv
<1>5. CASE m = MaxLogs
  <2>1. log_buffer' = [i \in 1 .. MaxLogs |-> IF i = MaxLogs THEN msg ELSE log_buffer[i + 1]]
    BY <1>5 DEF klog_status, Logged
  <2>2. \A i \in 1 .. MaxLogs : i # MaxLogs => log_buffer[i + 1] \in Messages
    BY <1>1, <1>5 DEF LogInv
  <2>3. log_buffer' \in Seq(Messages) /\ Len(log_buffer') = MaxLogs
    BY <1>1, <2>1, <2>2
  <2>4. \A i \in 1 .. MaxLogs : log_buffer'[i] = logs'[(n + 1) - MaxLogs + i]
    <3> SUFFICES ASSUME NEW i \in 1 .. MaxLogs
                 PROVE  log_buffer'[i] = logs'[(n + 1) - MaxLogs + i]
      OBVIOUS
    <3>1. CASE i = MaxLogs
      BY <1>1, <1>2, <2>1, <3>1
    <3>2. CASE i # MaxLogs
      <4>1. log_buffer'[i] = log_buffer[i + 1]
        BY <2>1, <3>2
      <4>2. i + 1 \in 1 .. m
        BY <1>1, <1>5, <3>2
      <4>3. log_buffer[i + 1] = logs[n - m + (i + 1)]
        BY <1>3, <4>2
      <4>4. n - m + (i + 1) \in 1 .. n /\ n - m + (i + 1) = (n + 1) - MaxLogs + i
        <5> HIDE DEF n, m
        <5> QED BY <1>1, <1>5, <4>2
      <4> QED BY <1>2, <4>1, <4>3, <4>4
    <3> QED BY <3>1, <3>2
  <2>5. n + 1 >= MaxLogs
    BY <1>1, <1>5
  <2>6. LogIsLatest'
    <3> DEFINE n1 == Len(logs')
    <3>1. n1 = n + 1 /\ n1 >= MaxLogs
      BY <1>2, <2>5
    <3>2. (IF n1 < MaxLogs THEN n1 ELSE MaxLogs) = MaxLogs
      <4> HIDE DEF n1, n
      <4> QED BY <1>1, <3>1
    <3>3. \A i \in 1 .. MaxLogs : log_buffer'[i] = logs'[n1 - MaxLogs + i]
      BY <2>4, <3>1
    <3> HIDE DEF n
    <3> QED BY <2>3, <3>2, <3>3 DEF LogIsLatest
  <2> QED BY <1>2, <2>3, <2>6 DEF LogInv
<1> QED BY <1>1, <1>4, <1>5

LEMMA LogStep == LogInv /\ Shape /\ [Next]_vars => LogInv'
<1> SUFFICES ASSUME LogInv, Shape, [Next]_vars PROVE LogInv'
  OBVIOUS
<1>1. CASE UNCHANGED <<log_buffer, logs>>
  BY <1>1 DEF LogInv, LogIsLatest
<1>2. CASE Resets
  BY <1>2, NotesAssumption DEF Resets, NotesReset, LogInv, LogIsLatest
<1>3. ASSUME NEW t \in Tasks, Does(t) PROVE LogInv'
  <2>1. CASE This(t).op = "status" /\ klog_status(This(t).msg)
    <3>1. This(t).msg \in Messages
      BY <1>3, <2>1, ThisTyped, Fields DEF Does, Ready
    <3> QED BY <2>1, <3>1, LogAppends
  <2> QED BY <1>1, <1>3, <2>1 DEF Does, noteVars
<1>4. ASSUME NEW t \in Tasks, Prints(t) \/ Settles(t) \/ Accesses(t) PROVE LogInv'
  BY <1>1, <1>4 DEF Prints, Settles, Accesses, noteVars
<1>5. CASE Poll \/ Execute \/ Again \/ Waits \/ Exits \/ Types \/ Drive \/ UNCHANGED vars
  BY <1>1, <1>5 DEF Poll, Execute, Again, Waits, Exits, Types, Drive, noteVars, vars
<1> QED BY <1>2, <1>3, <1>4, <1>5 DEF Next, Main, Player, Runs, Tasks

\* The status area shows the latest lines, for every number of rows and however
\* many lines there were (klog_status).
THEOREM LogLatest == Spec => []LogIsLatest
<1>1. Init => LogInv
  BY NotesAssumption DEF Init, NotesInit, LogInv, LogIsLatest
<1>2. LogInv => LogIsLatest
  BY DEF LogInv
<1> QED BY <1>1, <1>2, LogStep, TypesHold, PTL DEF Spec

-----------------------------------------------------------------------------
(* The cursor.  cat and ld move it below the area without looking; the new *)
(* line with which every prompt begins is what brings it back.             *)

CursorTyped ==
  c_x \in Nat /\ c_y \in Nat /\ due \in [Tasks -> {"no", "klog", "colour", "page"}]

NotTooFarRight == c_x <= Cols - 1 + Overhang("main") + Overhang("player")

NotBelow ==
  \/ c_y < Rows \/ due["main"] # "no" \/ due["player"] # "no"
  \/ pc \in {"again", "halted"}
  \/ pc = "prompt" /\ prog["main"] = Prompting

CursorInv == CursorTyped /\ NotTooFarRight /\ NotBelow

LEMMA PromptPrints == Prompting # << >> /\ Prompting[1].op = "put"
<1>1. <<"nl">> \in Seq(Glyphs) /\ Len(<<"nl">>) = 1 /\ Prompt \in Seq(Glyphs)
  BY TextGlyphs, ShellAssumption
<1>2. Text("klog", <<"nl">>) \in Seq(Instructions) /\ Len(Text("klog", <<"nl">>)) = 1
      /\ Text("colour", Prompt) \in Seq(Instructions)
  BY <1>1, TextTyped
<1>3. Text("klog", <<"nl">>)[1].op = "put"
  BY <1>1 DEF Text
<1> QED BY <1>2, <1>3, ConcatProperties DEF Prompting

LEMMA CursorInit == Init => CursorInv
BY ScreenAssumption
   DEF Init, ScrInit, Settled, CursorInv, CursorTyped, NotTooFarRight, NotBelow, Overhang, Tasks

LEMMA CursorSettles ==
  ASSUME CursorInv, NEW t \in Tasks, Settles(t)
  PROVE  CursorInv'
<1> USE DEF CursorInv, CursorTyped, Tasks
<1>1. /\ due[t] # "no" /\ due' = [due EXCEPT ![t] = "no"]
      /\ \/ Pages(t) /\ c_x' = 0 /\ c_y' = 0
         \/ ~Pages(t) /\ Wraps(t) /\ c_x' = 0 /\ c_y' = c_y + 1
         \/ ~Pages(t) /\ ~Wraps(t) /\ c_x' = c_x /\ c_y' = c_y
  BY DEF Settles, Settle
<1>2. CursorTyped'
  BY <1>1
<1>3. c_y' < Rows
  BY <1>1, ScreenAssumption DEF Pages
<1>4. NotTooFarRight'
  BY <1>1, ScreenAssumption DEF Wraps, NotTooFarRight, Overhang
<1> QED BY <1>2, <1>3, <1>4 DEF NotBelow

LEMMA CursorPrints ==
  ASSUME CursorInv, Shape, NEW t \in Tasks, Prints(t)
  PROVE  CursorInv'
<1> USE DEF CursorInv, CursorTyped, Tasks
<1> DEFINE i == This(t)
<1>1. prog[t] # << >> /\ due[t] = "no" /\ i.op = "put" /\ pc # "halted" /\ UNCHANGED pc
  BY DEF Prints, Ready
<1>2. i \in Instructions /\ (prog[t] \in Seq(Plain) => i \in Plain)
  BY <1>1, ThisTyped
<1>3. CASE i.how = "vesa"
  <2>1. pc = "again"
    BY <1>1, <1>2, <1>3 DEF Plain, Shape
  <2>2. vesa_print_char(i.ch)
    BY <1>3 DEF Prints
  <2>3. due' = due /\ c_x' \in Nat /\ c_y' \in Nat /\ c_x' <= Cols - 1
    BY <2>2, ScreenAssumption DEF vesa_print_char
  <2> QED BY <1>1, <2>1, <2>3, ScreenAssumption DEF NotTooFarRight, NotBelow, Overhang
<1>4. CASE i.how # "vesa" /\ i.ch = "nl"
  <2>1. NewLine(t)
    BY <1>4 DEF Prints
  <2> QED BY <2>1, ScreenAssumption DEF NewLine, NotTooFarRight, NotBelow, Overhang
<1>5. CASE i.how # "vesa" /\ i.ch = "bs"
  <2>1. Backspace(t)
    BY <1>5 DEF Prints
  <2>2. due' = [due EXCEPT ![t] = "page"] /\ c_x' \in Nat /\ c_y' \in Nat
        /\ (c_x' <= c_x \/ c_x' = Cols - 2)
    <3>1. c_x >= 1 \/ c_x = 0
      OBVIOUS
    <3>2. due' = [due EXCEPT ![t] = "page"]
      BY <2>1 DEF Backspace
    <3>3. CASE c_x >= 1
      <4>1. c_x' = c_x - 1 /\ c_y' = c_y
        BY <2>1, <3>3 DEF Backspace
      <4> QED BY <3>2, <3>3, <4>1
    <3>4. CASE c_x = 0
      <4>1. \/ c_y >= 1 /\ c_y' = c_y - 1 /\ c_x' = Cols - 2
            \/ c_y' = c_y /\ c_x' = c_x
        <5>1. ~ c_x >= 1
          BY <3>4
        <5>2. CASE c_y >= 1
          BY <2>1, <5>1, <5>2 DEF Backspace
        <5>3. CASE ~ c_y >= 1
          BY <2>1, <5>1, <5>3 DEF Backspace
        <5> QED BY <5>2, <5>3
      <4> QED BY <3>2, <3>4, <4>1, ScreenAssumption
    <3> QED BY <3>1, <3>3, <3>4
  <2> QED BY <1>1, <2>2, ScreenAssumption DEF NotTooFarRight, NotBelow, Overhang
<1>6. CASE i.how # "vesa" /\ i.ch \notin {"nl", "bs"}
  <2>1. Character(t, i.how, i.ch)
    BY <1>6 DEF Prints
  <2>2. i.how \in {"klog", "colour"}
    BY <1>1, <1>2, <1>6 DEF Instructions
  <2> QED BY <1>1, <2>1, <2>2, ScreenAssumption DEF Character, NotTooFarRight, NotBelow, Overhang
<1> QED BY <1>3, <1>4, <1>5, <1>6

LEMMA CursorDoes ==
  ASSUME CursorInv, Shape, NEW t \in Tasks, Does(t)
  PROVE  CursorInv'
<1> USE DEF CursorInv, CursorTyped
<1>1. prog[t] # << >> /\ due[t] = "no" /\ pc # "halted" /\ UNCHANGED pc
  BY DEF Does, Ready
<1>2. CASE This(t).op = "down" /\ MoveDown
  <2>1. This(t) \notin Plain
    BY <1>2 DEF Plain
  <2>2. pc = "again"
    BY <1>1, <2>1, ThisTyped DEF Shape, Tasks
  <2> QED BY <1>1, <1>2, <2>2 DEF MoveDown, NotTooFarRight, NotBelow, Overhang
<1>3. CASE vesa_clear
  BY <1>3, ScreenAssumption DEF vesa_clear, NotTooFarRight, NotBelow, Overhang
<1>4. CASE UNCHANGED scrVars /\ This(t).op # "put"
  <2>2. t = "main" => prog["main"] # Prompting
    BY <1>1, <1>4, PromptPrints DEF This
  <2>3. t = "player" => prog'["main"] = prog["main"]
    BY DEF Does, Done, Shape, Tasks
  <2> QED BY <1>1, <1>4, <2>2, <2>3 DEF scrVars, NotTooFarRight, NotBelow, Overhang, Tasks
<1> QED BY <1>2, <1>3, <1>4 DEF Does

LEMMA CursorStep == CursorInv /\ Shape /\ [Next]_vars => CursorInv'
<1> SUFFICES ASSUME CursorInv, Shape, [Next]_vars PROVE CursorInv'
  OBVIOUS
<1> USE DEF CursorInv, CursorTyped, NotTooFarRight, NotBelow, Overhang
<1>1. ASSUME NEW t \in Tasks, Accesses(t) PROVE CursorInv'
  <2>1. UNCHANGED <<scrVars, pc>> /\ prog[t] # << >>
    BY <1>1 DEF Accesses, Ready
  <2>2. t = "main" => prog["main"] # Prompting
    BY <1>1, PromptPrints DEF Accesses, This
  <2> QED BY <1>1, <2>1, <2>2 DEF Accesses, Done, Shape, Tasks, scrVars
<1>2. CASE Resets
  BY <1>2, ScreenAssumption DEF Resets, ScrReset, Settled, Tasks
<1>3. CASE Poll \/ Execute
  BY <1>3 DEF Poll, Execute, scrVars, terminal_key, Enters, Deletes, Adds, Ignores
<1>4. CASE Again \/ Waits \/ Exits
  BY <1>4, PiecesTyped DEF Again, Waits, Exits, Starts, Free, scrVars, Shape, Tasks
<1>5. CASE Types \/ Drive \/ UNCHANGED vars
  BY <1>5 DEF Types, Drive, vars, shellVars, scrVars
<1> QED BY <1>1, <1>2, <1>3, <1>4, <1>5, CursorPrints, CursorSettles, CursorDoes
        DEF Next, Main, Player, Runs, Tasks

\* The cursor never leaves the text area to the right, and is above its lower
\* edge whenever the shell waits for a key (klog, its sisters, cat and ld, with
\* both tasks printing).
THEOREM CursorStays == Spec => []CursorInArea
<1>1. CursorInv /\ Shape => CursorInArea
  <2> SUFFICES ASSUME CursorInv, Shape, Idle, due["player"] = "no" PROVE c_y < Rows
    BY DEF CursorInv, NotTooFarRight, CursorInArea
  <2> QED BY DEF CursorInv, NotBelow, Idle
<1> QED BY <1>1, CursorInit, CursorStep, TypesHold, PTL DEF Spec

-----------------------------------------------------------------------------
(* The disk channels                                                       *)

Registers == [drive : Units, sector : Sectors, cmd : Ops \cup {"none"},
              state : {"ready", "busy", "drq"}]

AtaTyped == sel \in Units /\ dev \in [Bases -> Registers] /\ io \in [AtaTasks -> Places]

\* A task that is in the middle of a transfer has it ahead in its program.
InTransfer == {"wait", "lba", "command", "drq", "data"}

Serves(t) ==
  /\ io[t] = "select" => prog[t] # << >> /\ This(t).op = "select"
  /\ io[t] \in InTransfer => prog[t] # << >> /\ This(t).op \in Ops

Serving ==
  AtaTyped /\ Serves("main") /\ Serves("player") /\ (~playing => prog["player"] = << >>)

LEMMA UnitsHaveBases == \A u \in Units : u.base \in Bases
BY DEF Bases

LEMMA FreshTyped == \A d \in FreshDevs : d \in [Bases -> Registers] /\ \A b \in Bases : d[b].state = "ready"
BY AtaAssumption DEF FreshDevs, Registers, Ops

LEMMA OutTyped ==
  ASSUME AtaTyped, NEW b \in Bases, NEW regs \in Registers, Out(b, regs)
  PROVE  dev' \in [Bases -> Registers]
BY DEF AtaTyped, Out

LEMMA ServingInit == Init => Serving
<1> SUFFICES ASSUME Init PROVE Serving
  OBVIOUS
<1>1. sel = Home /\ dev \in FreshDevs /\ io = AllIdle /\ prog = Alone(BootProg)
  BY DEF Init, AtaInit, ShellInit
<1> QED BY <1>1, FreshTyped, AtaAssumption
        DEF Serving, Serves, AtaTyped, AllIdle, AtaTasks, Places, InTransfer, Alone, Tasks

\* What a step of a transfer does to the places and the types.
LEMMA AccessServes ==
  ASSUME Serving, Shape, NEW t \in Tasks, Accesses(t)
  PROVE  /\ AtaTyped' /\ Serves(t)'
         /\ \A u \in Tasks \ {t} : io'[u] = io[u] /\ prog'[u] = prog[u]
<1> DEFINE i == This(t)
<1>1. prog[t] # << >> /\ i \in Instructions /\ sel \in Units /\ sel.base \in Bases
  BY ThisTyped, UnitsHaveBases DEF Accesses, Ready, Serving, AtaTyped
<1>2. {File} \subseteq Sectors
  BY ShellAssumption
<1> USE DEF Serving, AtaTyped, AtaTasks, Tasks, Places, Ops, InTransfer
<1>3. CASE i.op = "select" /\ Select(t, i.unit) /\ UNCHANGED prog
  <2>1. i.unit \in Units /\ i.unit.base \in Bases
    BY <1>1, <1>3, Fields, UnitsHaveBases
  <2>2. [dev[i.unit.base] EXCEPT !.drive = i.unit] \in Registers
    BY <2>1 DEF Registers
  <2>3. dev' \in [Bases -> Registers]
    BY <1>3, <2>1, <2>2, OutTyped DEF Select
  <2> QED BY <1>1, <1>3, <2>1, <2>3 DEF Select, Goes, Serves, This
<1>4. CASE i.op = "select" /\ Selected(t, i.unit) /\ Done(t)
  BY <1>4 DEF Selected, Goes, Serves, Done, Shape
<1>5. ASSUME NEW op \in Ops, NEW s \in Sectors, i.op = op, Transfer(t, op, s), UNCHANGED prog
      PROVE  AtaTyped' /\ Serves(t)' /\ \A u \in Tasks \ {t} : io'[u] = io[u] /\ prog'[u] = prog[u]
  <2>1. /\ [dev[sel.base] EXCEPT !.drive = sel] \in Registers
        /\ [dev[sel.base] EXCEPT !.sector = s] \in Registers
        /\ [dev[sel.base] EXCEPT !.cmd = op, !.state = "busy"] \in Registers
    BY <1>1, <1>5 DEF Registers
  <2>2. dev' \in [Bases -> Registers]
    BY <1>1, <1>5, <2>1, OutTyped
       DEF Transfer, ChooseDrive, WaitBusy, SetSector, Command, WaitDrq
  <2>3. sel' = sel /\ \E p \in InTransfer : io' = [io EXCEPT ![t] = p]
    BY <1>5 DEF Transfer, ChooseDrive, WaitBusy, SetSector, Command, WaitDrq, Goes
  <2> QED BY <1>1, <1>5, <2>2, <2>3 DEF Serves, This
<1>6. CASE (insw(t) \/ outsw(t, Holding("notes", note_list))) /\ Done(t)
  <2>1. /\ [dev[sel.base] EXCEPT !.state = "ready", !.cmd = "none"] \in Registers
        /\ [dev[sel.base] EXCEPT !.state = "busy", !.cmd = "none"] \in Registers
    BY <1>1 DEF Registers
  <2>2. sel' = sel /\ io' = [io EXCEPT ![t] = "idle"]
    BY <1>6 DEF insw, outsw, Goes
  <2>3. \/ dev' = dev
        \/ dev' = [dev EXCEPT ![sel.base] = [dev[sel.base] EXCEPT !.state = "ready", !.cmd = "none"]]
        \/ dev' = [dev EXCEPT ![sel.base] = [dev[sel.base] EXCEPT !.state = "busy", !.cmd = "none"]]
    BY <1>6 DEF insw, outsw
  <2>4. dev' \in [Bases -> Registers]
    BY <1>1, <2>1, <2>3
  <2> QED BY <1>6, <2>2, <2>4 DEF Serves, Done, Shape
<1>7. i.op = "read" => i.sector \in Sectors
  BY <1>1, Fields
<1>8. Target(t) \subseteq Sectors
  BY <1>2 DEF Target
<1> QED BY <1>3, <1>4, <1>5, <1>6, <1>7, <1>8 DEF Accesses

\* What the shell's own steps leave alone.
LEMMA KeepsPlayer ==
  ASSUME Shape, NEW p, Starts(p)
  PROVE  prog'["player"] = prog["player"]
BY DEF Starts, Shape, Tasks

LEMMA PerformsKeeps ==
  ASSUME Shape, NEW effect, NEW args, Performs(effect, args)
  PROVE  \/ playing' = playing /\ prog'["player"] = prog["player"]
         \/ ~playing /\ playing'
<1>1. CASE \E p : OnlyRuns(p)
  BY <1>1, KeepsPlayer DEF OnlyRuns
<1>2. CASE cmd_note(args)
  BY <1>1, <1>2, KeepsPlayer DEF cmd_note
<1>3. CASE playrawjmp
  <2>1. CASE playing
    BY <1>3, <2>1 DEF playrawjmp, Shape, Tasks
  <2>2. CASE ~playing
    BY <1>3, <2>2 DEF playrawjmp
  <2> QED BY <2>1, <2>2
<1> QED BY <1>1, <1>2, <1>3 DEF Performs

LEMMA ShellKeeps ==
  ASSUME Shape, Poll \/ Execute \/ Again \/ Waits
  PROVE  /\ prog["main"] = << >> /\ UNCHANGED <<ataVars, mixed>>
         /\ \/ playing' = playing /\ prog'["player"] = prog["player"]
            \/ ~playing /\ playing'
<1>1. prog["main"] = << >> /\ UNCHANGED <<ataVars, mixed>>
  BY DEF Poll, Execute, Again, Waits, Free
<1>2. CASE Poll
  <2>1. playing' = playing
    BY <1>2 DEF Poll
  <2>2. PICK c : terminal_key(c)
    BY <1>2 DEF Poll
  <2>3. prog'["player"] = prog["player"]
    BY <2>2, KeepsPlayer DEF terminal_key, Enters, Deletes, Adds, Ignores
  <2> QED BY <1>1, <2>1, <2>3
<1>3. CASE Execute
  <2>1. OnlyRuns(<< >>) \/ \E e, args : Performs(e, args)
    BY <1>3 DEF Execute
  <2>2. CASE OnlyRuns(<< >>)
    BY <1>1, <2>2, KeepsPlayer DEF OnlyRuns
  <2>3. CASE \E e, args : Performs(e, args)
    BY <1>1, <2>3, PerformsKeeps
  <2> QED BY <2>1, <2>2, <2>3
<1>4. CASE Again
  BY <1>1, <1>4, KeepsPlayer DEF Again
<1>5. CASE Waits
  BY <1>1, <1>5 DEF Waits
<1> QED BY <1>2, <1>3, <1>4, <1>5

LEMMA ServingStep == Serving /\ Shape /\ [Next]_vars => Serving'
<1> SUFFICES ASSUME Serving, Shape, [Next]_vars PROVE Serving'
  OBVIOUS
<1>1. ASSUME NEW t \in Tasks, Accesses(t) PROVE Serving'
  <2>1. AtaTyped' /\ Serves(t)' /\ \A u \in Tasks \ {t} : io'[u] = io[u] /\ prog'[u] = prog[u]
    BY <1>1, AccessServes
  <2>2. playing' = playing /\ prog[t] # << >>
    BY <1>1 DEF Accesses, Ready
  <2> QED BY <2>1, <2>2 DEF Serving, Serves, This, Tasks
<1>2. ASSUME NEW t \in Tasks, Prints(t) \/ Does(t) PROVE Serving'
  <2>1. /\ prog[t] # << >> /\ This(t).op \notin {"select", "read", "write"}
        /\ UNCHANGED <<playing, sel, dev, io>>
        /\ \A u \in Tasks \ {t} : prog'[u] = prog[u]
    BY <1>2 DEF Prints, Does, Ready, Done, ataVars, Shape, Tasks
  <2> QED BY <2>1 DEF Serving, AtaTyped, Serves, This, Tasks, Ops, AtaTasks
<1>3. CASE UNCHANGED <<sel, dev, io, prog, playing>>
  BY <1>3 DEF Serving, AtaTyped, Serves, This
<1>4. CASE Resets
  <2>1. sel' = Home /\ dev' \in FreshDevs /\ io' = AllIdle /\ prog' = Alone(BootProg)
    BY <1>4 DEF Resets, AtaReset
  <2> QED BY <2>1, FreshTyped, AtaAssumption
          DEF Serving, Serves, AtaTyped, AllIdle, AtaTasks, Places, InTransfer, Alone, Tasks
<1>5. CASE Poll \/ Execute \/ Again \/ Waits
  <2>1. /\ prog["main"] = << >> /\ UNCHANGED <<sel, dev, io>>
        /\ \/ playing' = playing /\ prog'["player"] = prog["player"]
           \/ ~playing /\ playing'
    BY <1>5, ShellKeeps DEF ataVars
  <2> QED BY <2>1 DEF Serving, AtaTyped, Serves, This, Tasks, InTransfer, Places, AtaTasks
<1>6. CASE Drive
  <2>1. UNCHANGED <<sel, io, prog, playing>>
    BY <1>6 DEF Drive, DevData, DevReady, shellVars
  <2>2. PICK b \in Bases : DevData(b) \/ DevReady(b)
    BY <1>6 DEF Drive
  <2>3. /\ [dev[b] EXCEPT !.state = "drq"] \in Registers
        /\ [dev[b] EXCEPT !.state = "ready", !.cmd = "none"] \in Registers
    BY DEF Registers, Serving, AtaTyped
  <2>4. \/ dev' = [dev EXCEPT ![b] = [dev[b] EXCEPT !.state = "drq"]]
        \/ dev' = [dev EXCEPT ![b] = [dev[b] EXCEPT !.state = "ready", !.cmd = "none"]]
    BY <2>2 DEF DevData, DevReady
  <2>5. dev' \in [Bases -> Registers]
    BY <2>3, <2>4 DEF Serving, AtaTyped
  <2> QED BY <2>1, <2>5 DEF Serving, AtaTyped, Serves, This
<1>7. ASSUME NEW t \in Tasks, Settles(t) PROVE Serving'
  BY <1>3, <1>7 DEF Settles, ataVars
<1>8. CASE Exits \/ Types \/ UNCHANGED vars
  BY <1>3, <1>8 DEF Exits, Types, vars, ataVars, shellVars
<1> QED BY <1>1, <1>2, <1>4, <1>5, <1>6, <1>7, <1>8 DEF Next, Main, Player, Runs, Tasks

\* The channel between transfers: ready, or still writing the last sector.
Quiet(b) == dev[b].state = "ready" \/ (dev[b].state = "busy" /\ dev[b].cmd = "none")

Aim(t) == IF This(t).op = "read" THEN {This(t).sector} ELSE Target(t)

\* What is true of the channels at each place of the task that uses them.
AtPlace(t) ==
  LET d == dev[sel.base] IN
  /\ \A b \in Bases \ {sel.base} : Quiet(b)
  /\ io[t] \in {"idle", "select", "wait"} => Quiet(sel.base)
  /\ io[t] = "idle" /\ d.state = "busy" => d.drive = sel
  /\ io[t] = "select" => This(t).unit = sel
  /\ io[t] \in InTransfer => d.drive = sel
  /\ io[t] \in {"lba", "command"} => d.state = "ready"
  /\ io[t] \in {"command", "drq", "data"} => d.sector \in Aim(t)
  /\ io[t] = "drq" => d.state = "ready" \/ (d.state \in {"busy", "drq"} /\ d.cmd = This(t).op)
  /\ io[t] = "data" => d.state = "drq" /\ d.cmd = This(t).op

\* With one task at the disk at a time and no wait given up.
Orderly ==
  ~late /\ ~mixed =>
    IF playing THEN io["main"] = "idle" /\ AtPlace("player")
               ELSE io["player"] = "idle" /\ AtPlace("main")

\* A step that leaves the channels alone.
LEMMA PlaceSame ==
  ASSUME NEW t \in Tasks, AtPlace(t), UNCHANGED <<sel, dev, io, buf>>,
         prog'[t] = prog[t] \/ io[t] = "idle"
  PROVE  AtPlace(t)'
BY DEF AtPlace, Quiet, Aim, Target, This, InTransfer

LEMMA Written ==
  ASSUME NEW d \in Registers, NEW u, NEW s, NEW op, NEW st
  PROVE  /\ LET e == [d EXCEPT !.drive = u] IN
            e.drive = u /\ e.sector = d.sector /\ e.cmd = d.cmd /\ e.state = d.state
         /\ LET e == [d EXCEPT !.sector = s] IN
            e.drive = d.drive /\ e.sector = s /\ e.cmd = d.cmd /\ e.state = d.state
         /\ LET e == [d EXCEPT !.state = st] IN
            e.drive = d.drive /\ e.sector = d.sector /\ e.cmd = d.cmd /\ e.state = st
         /\ LET e == [d EXCEPT !.cmd = op, !.state = st] IN
            e.drive = d.drive /\ e.sector = d.sector /\ e.cmd = op /\ e.state = st
         /\ LET e == [d EXCEPT !.state = st, !.cmd = op] IN
            e.drive = d.drive /\ e.sector = d.sector /\ e.cmd = op /\ e.state = st
BY DEF Registers

LEMMA WrittenTo ==
  ASSUME AtaTyped, NEW b \in Bases, NEW r, dev' = [dev EXCEPT ![b] = r]
  PROVE  dev'[b] = r /\ \A c \in Bases \ {b} : dev'[c] = dev[c]
BY DEF AtaTyped

\* A step of a drive.
LEMMA PlaceDrive ==
  ASSUME Serving, NEW t \in Tasks, AtPlace(t), NEW b \in Bases, DevData(b) \/ DevReady(b),
         UNCHANGED prog
  PROVE  AtPlace(t)'
<1>1. /\ dev[b].state = "busy" /\ UNCHANGED <<sel, io, buf>>
      /\ dev[b] \in Registers /\ sel.base \in Bases /\ io[t] \in Places
  BY UnitsHaveBases DEF DevData, DevReady, Serving, AtaTyped, AtaTasks, Tasks
<1>2. /\ \A c \in Bases \ {b} : dev'[c] = dev[c]
      /\ dev'[b].drive = dev[b].drive /\ dev'[b].sector = dev[b].sector
  <2>1. PICK r : /\ dev' = [dev EXCEPT ![b] = r]
                 /\ r.drive = dev[b].drive /\ r.sector = dev[b].sector
    <3>1. CASE DevData(b)
      <4> DEFINE r == [dev[b] EXCEPT !.state = "drq"]
      <4>1. dev' = [dev EXCEPT ![b] = r]
        BY <3>1 DEF DevData
      <4>2. r.drive = dev[b].drive /\ r.sector = dev[b].sector
        BY <1>1, Written
      <4> HIDE DEF r
      <4> QED BY <4>1, <4>2
    <3>2. CASE DevReady(b)
      <4> DEFINE r == [dev[b] EXCEPT !.state = "ready", !.cmd = "none"]
      <4>1. dev' = [dev EXCEPT ![b] = r]
        BY <3>2 DEF DevReady
      <4>2. r.drive = dev[b].drive /\ r.sector = dev[b].sector
        BY <1>1, Written
      <4> HIDE DEF r
      <4> QED BY <4>1, <4>2
    <3> QED BY <3>1, <3>2
  <2> QED BY <2>1, WrittenTo DEF Serving
<1>3. CASE DevData(b)
  <2>1. ~Quiet(b) /\ dev'[b].state = "drq" /\ dev'[b].cmd = dev[b].cmd
    BY <1>1, <1>3 DEF DevData, Quiet, Ops, Serving, AtaTyped, Registers
  <2>2. b = sel.base /\ io[t] = "drq"
    BY <1>1, <2>1 DEF AtPlace, Places
  <2> QED BY <1>1, <1>2, <2>1, <2>2 DEF AtPlace, Quiet, Aim, Target, This, InTransfer
<1>4. CASE DevReady(b)
  <2>1. dev'[b].state = "ready" /\ dev'[b].cmd = "none"
    BY <1>1, <1>4 DEF DevReady, Serving, AtaTyped, Registers
  <2>2. io[t] # "data"  \/ b # sel.base
    BY <1>1 DEF AtPlace
  <2> QED BY <1>1, <1>2, <2>1, <2>2 DEF AtPlace, Quiet, Aim, Target, This, InTransfer, Places
<1> QED BY <1>3, <1>4

\* A step of the transfer itself, unless it gives a wait up.
LEMMA PlaceAccess ==
  ASSUME Serving, Shape, NEW t \in Tasks, AtPlace(t), Accesses(t), ~late'
  PROVE  AtPlace(t)'
<1> DEFINE i == This(t)
<1>1. /\ sel \in Units /\ sel.base \in Bases /\ prog[t] # << >> /\ i \in Instructions
      /\ \A b \in Bases : dev[b] \in Registers
      /\ DOMAIN dev = Bases /\ io \in [Tasks -> Places]
  BY ThisTyped, UnitsHaveBases DEF Accesses, Ready, Serving, AtaTyped, AtaTasks, Tasks
<1>2. CASE i.op = "select" /\ Select(t, i.unit) /\ UNCHANGED prog
  <2> DEFINE u == i.unit
             r == [dev[u.base] EXCEPT !.drive = u]
  <2>1. u \in Units /\ u.base \in Bases
    BY <1>1, <1>2, Fields, UnitsHaveBases
  <2>2. /\ io[t] = "idle" /\ io'[t] = "select" /\ sel' = u /\ This(t)' = This(t)
        /\ dev' = [dev EXCEPT ![u.base] = r] \/ dev' = dev
    BY <1>1, <1>2 DEF Select, Goes, Out, This
  <2>3. r.state = dev[u.base].state /\ r.cmd = dev[u.base].cmd
    BY <1>1, <2>1, Written
  <2>4. \A b \in Bases : Quiet(b)
    BY <1>1, <2>2 DEF AtPlace
  <2> HIDE DEF r
  <2>5. \A b \in Bases : Quiet(b)'
    <3>1. CASE dev' = dev
      BY <2>4, <3>1 DEF Quiet
    <3>2. CASE dev' = [dev EXCEPT ![u.base] = r]
      <4>1. dev'[u.base] = r /\ \A c \in Bases \ {u.base} : dev'[c] = dev[c]
        BY <2>1, <3>2, WrittenTo DEF Serving
      <4> QED BY <2>1, <2>3, <2>4, <4>1 DEF Quiet
    <3> QED BY <2>2, <3>1, <3>2
  <2> QED BY <2>1, <2>2, <2>5 DEF AtPlace, InTransfer
<1>3. CASE i.op = "select" /\ Selected(t, i.unit) /\ Done(t)
  <2>1. io[t] = "select" /\ io'[t] = "idle" /\ dev' = dev /\ sel' = sel /\ dev[sel.base].state # "busy"
    BY <1>1, <1>3 DEF Selected, Goes, AtPlace
  <2> QED BY <1>1, <2>1 DEF AtPlace, Quiet, InTransfer
<1>4. ASSUME NEW op \in Ops, NEW s \in Aim(t), i.op = op, Transfer(t, op, s), UNCHANGED prog
      PROVE  AtPlace(t)'
  <2>1. /\ sel' = sel /\ buf' = buf /\ This(t)' = This(t) /\ Aim(t)' = Aim(t)
    BY <1>4 DEF Transfer, ChooseDrive, WaitBusy, SetSector, Command, WaitDrq, Aim, Target, This
  <2>2. CASE ChooseDrive(t)
    <3> DEFINE r == [dev[sel.base] EXCEPT !.drive = sel]
    <3>1. /\ io[t] = "idle" /\ io'[t] = "wait"
          /\ dev' = [dev EXCEPT ![sel.base] = r] \/ (dev' = dev /\ dev[sel.base].state # "ready")
      BY <1>1, <2>2 DEF ChooseDrive, Goes, Out
    <3>2. r.drive = sel /\ r.state = dev[sel.base].state /\ r.cmd = dev[sel.base].cmd
      BY <1>1, Written
    <3>3. (\A b \in Bases : Quiet(b)) /\ (dev[sel.base].state = "busy" => dev[sel.base].drive = sel)
      BY <1>1, <3>1 DEF AtPlace
    <3> HIDE DEF r
    <3>4. (\A b \in Bases : Quiet(b)') /\ dev'[sel.base].drive = sel
      BY <1>1, <3>1, <3>2, <3>3, WrittenTo DEF Quiet, Serving
    <3> QED BY <1>1, <2>1, <3>1, <3>4 DEF AtPlace, InTransfer
  <2>3. CASE WaitBusy(t)
    <3>1. io[t] = "wait" /\ io'[t] = "lba" /\ dev' = dev /\ dev[sel.base].state # "busy"
      BY <1>1, <2>3 DEF WaitBusy, Goes
    <3>2. dev[sel.base].state = "ready" /\ dev[sel.base].drive = sel
      BY <1>1, <3>1 DEF AtPlace, Quiet, InTransfer
    <3> QED BY <2>1, <3>1, <3>2 DEF AtPlace, Quiet, InTransfer
  <2>4. CASE SetSector(t, s)
    <3> DEFINE r == [dev[sel.base] EXCEPT !.sector = s]
    <3>1. io[t] = "lba" /\ io'[t] = "command" /\ dev[sel.base].state = "ready" /\ dev[sel.base].drive = sel
      BY <1>1, <2>4 DEF SetSector, Goes, AtPlace, InTransfer
    <3>2. dev' = [dev EXCEPT ![sel.base] = r]
      BY <2>4, <3>1 DEF SetSector, Out
    <3>3. r.drive = sel /\ r.state = "ready" /\ r.sector = s
      BY <1>1, <3>1, Written
    <3> HIDE DEF r
    <3>4. dev'[sel.base] = r /\ \A b \in Bases \ {sel.base} : dev'[b] = dev[b]
      BY <1>1, <3>2, WrittenTo DEF Serving
    <3> QED BY <1>1, <2>1, <3>1, <3>3, <3>4 DEF AtPlace, Quiet, InTransfer
  <2>5. CASE Command(t, op)
    <3> DEFINE r == [dev[sel.base] EXCEPT !.cmd = op, !.state = "busy"]
    <3>1. /\ io[t] = "command" /\ io'[t] = "drq" /\ dev[sel.base].state = "ready"
          /\ dev[sel.base].drive = sel /\ dev[sel.base].sector \in Aim(t)
      BY <1>1, <2>5 DEF Command, Goes, AtPlace, InTransfer
    <3>2. dev' = [dev EXCEPT ![sel.base] = r]
      BY <2>5, <3>1 DEF Command, Out
    <3>3. r.drive = sel /\ r.state = "busy" /\ r.cmd = op /\ r.sector = dev[sel.base].sector
      BY <1>1, <3>1, Written
    <3> HIDE DEF r
    <3>4. dev'[sel.base] = r /\ \A b \in Bases \ {sel.base} : dev'[b] = dev[b]
      BY <1>1, <3>2, WrittenTo DEF Serving
    <3> QED BY <1>1, <1>4, <2>1, <3>1, <3>3, <3>4 DEF AtPlace, Quiet, InTransfer
  <2>6. CASE WaitDrq(t)
    <3>1. io[t] = "drq" /\ io'[t] = "data" /\ dev' = dev /\ dev[sel.base].state = "drq"
      BY <1>1, <2>6 DEF WaitDrq, Goes
    <3>2. /\ dev[sel.base].cmd = This(t).op /\ dev[sel.base].drive = sel
          /\ dev[sel.base].sector \in Aim(t)
      BY <3>1 DEF AtPlace, InTransfer
    <3> QED BY <2>1, <3>1, <3>2 DEF AtPlace, Quiet, InTransfer
  <2> QED BY <1>4, <2>2, <2>3, <2>4, <2>5, <2>6 DEF Transfer
<1>5. ASSUME NEW st \in {"ready", "busy"}, io[t] = "data", io'[t] = "idle", sel' = sel,
             dev' = [dev EXCEPT ![sel.base] = [dev[sel.base] EXCEPT !.state = st, !.cmd = "none"]]
      PROVE  AtPlace(t)'
  <2> DEFINE r == [dev[sel.base] EXCEPT !.state = st, !.cmd = "none"]
  <2>1. r.state = st /\ r.cmd = "none" /\ r.drive = dev[sel.base].drive
    BY <1>1, Written
  <2>2. dev[sel.base].drive = sel /\ \A b \in Bases \ {sel.base} : Quiet(b)
    BY <1>5 DEF AtPlace, InTransfer
  <2>3. dev' = [dev EXCEPT ![sel.base] = r]
    BY <1>5
  <2> HIDE DEF r
  <2>4. dev'[sel.base] = r /\ \A b \in Bases \ {sel.base} : dev'[b] = dev[b]
    BY <1>1, <2>3, WrittenTo DEF Serving
  <2> QED BY <1>1, <1>5, <2>1, <2>2, <2>4 DEF AtPlace, Quiet, InTransfer
<1>6. CASE (i.op = "read" /\ insw(t)) \/ (i.op = "write" /\ outsw(t, Holding("notes", note_list)))
  <2>1. io[t] = "data" /\ io'[t] = "idle" /\ sel' = sel
    BY <1>1, <1>6 DEF insw, outsw, Goes
  <2>2. dev[sel.base].state = "drq" /\ dev[sel.base].cmd = i.op
    BY <2>1 DEF AtPlace
  <2>3. CASE i.op = "read" /\ insw(t)
    <3>1. dev' = [dev EXCEPT ![sel.base] = [dev[sel.base] EXCEPT !.state = "ready", !.cmd = "none"]]
      BY <2>2, <2>3 DEF insw, Asked
    <3> QED BY <1>5, <2>1, <3>1
  <2>4. CASE i.op = "write" /\ outsw(t, Holding("notes", note_list))
    <3>1. dev' = [dev EXCEPT ![sel.base] = [dev[sel.base] EXCEPT !.state = "busy", !.cmd = "none"]]
      BY <2>2, <2>4 DEF outsw, Asked
    <3> QED BY <1>5, <2>1, <3>1
  <2> QED BY <1>6, <2>3, <2>4
<1>7. i.op = "read" => i.sector \in Aim(t)
  BY DEF Aim
<1>8. i.op = "write" => Target(t) = Aim(t)
  BY DEF Aim
<1> QED BY <1>2, <1>3, <1>4, <1>6, <1>7, <1>8 DEF Accesses, Ops

LEMMA OrderlyInit == Init => Orderly
<1> SUFFICES ASSUME Init PROVE Orderly
  OBVIOUS
<1>1. sel = Home /\ dev \in FreshDevs /\ io = AllIdle /\ playing = FALSE
  BY DEF Init, AtaInit, ShellInit
<1>2. io["main"] = "idle" /\ io["player"] = "idle" /\ \A b \in Bases : dev[b].state = "ready"
  BY <1>1, FreshTyped DEF AllIdle, AtaTasks
<1>3. sel.base \in Bases
  BY <1>1, AtaAssumption, UnitsHaveBases
<1>4. AtPlace("main")
  BY <1>2, <1>3 DEF AtPlace, Quiet, InTransfer
<1> QED BY <1>1, <1>2, <1>4 DEF Orderly

LEMMA OrderlyStep == Orderly /\ Serving /\ Shape /\ [Next]_vars => Orderly'
<1> SUFFICES ASSUME Orderly, Serving, Shape, [Next]_vars, ~late', ~mixed'
             PROVE  IF playing' THEN io'["main"] = "idle" /\ AtPlace("player")'
                                ELSE io'["player"] = "idle" /\ AtPlace("main")'
  BY DEF Orderly
<1> DEFINE Goal == IF playing' THEN io'["main"] = "idle" /\ AtPlace("player")'
                               ELSE io'["player"] = "idle" /\ AtPlace("main")'
<1> USE DEF Tasks
<1>1. ASSUME ~late, ~mixed
      PROVE  IF playing THEN io["main"] = "idle" /\ AtPlace("player")
                        ELSE io["player"] = "idle" /\ AtPlace("main")
  BY <1>1 DEF Orderly
<1>2. ASSUME UNCHANGED <<ataVars, playing, mixed>>,
             \A t \in Tasks : prog'[t] = prog[t] \/ io[t] = "idle"
      PROVE  Goal
  <2>1. UNCHANGED <<sel, dev, io, buf, late, playing, mixed>>
    BY <1>2 DEF ataVars
  <2> QED BY <1>1, <1>2, <2>1, PlaceSame
<1>3. ASSUME NEW t \in Tasks, Accesses(t) PROVE Goal
  <2>1. /\ playing' = playing /\ prog[t] # << >> /\ ~mixed /\ ~(t = "main" /\ playing)
        /\ \A u \in Tasks \ {t} : io'[u] = io[u]
    BY <1>3, AccessServes DEF Accesses, Ready
  <2>2. ~late
    BY <1>3 DEF Accesses, Select, Selected, Transfer, ChooseDrive, WaitBusy, SetSector, Command,
                WaitDrq, insw, outsw
  <2>3. t = IF playing THEN "player" ELSE "main"
    BY <2>1 DEF Serving
  <2>4. AtPlace(t)'
    BY <1>1, <1>3, <2>2, <2>1, <2>3, PlaceAccess
  <2> QED BY <1>1, <2>1, <2>2, <2>3, <2>4
<1>4. ASSUME NEW t \in Tasks, Prints(t) \/ Does(t) PROVE Goal
  <2>1. /\ prog[t] # << >> /\ This(t).op \notin {"select", "read", "write"}
        /\ UNCHANGED <<ataVars, playing, mixed>>
        /\ \A u \in Tasks \ {t} : prog'[u] = prog[u]
    BY <1>4 DEF Prints, Does, Ready, Done, Shape
  <2>2. io[t] = "idle"
    BY <2>1 DEF Serving, Serves, AtaTyped, AtaTasks, Places, InTransfer, Ops
  <2> QED BY <1>2, <2>1, <2>2
<1>5. ASSUME NEW t \in Tasks, Settles(t) PROVE Goal
  BY <1>2, <1>5 DEF Settles
<1>6. CASE Poll \/ Execute \/ Again \/ Waits
  <2>1. /\ prog["main"] = << >> /\ UNCHANGED <<ataVars, mixed>>
        /\ \/ playing' = playing /\ prog'["player"] = prog["player"]
           \/ ~playing /\ playing'
    BY <1>6, ShellKeeps
  <2>2. io["main"] = "idle"
    BY <2>1 DEF Serving, Serves, AtaTyped, AtaTasks, Places, InTransfer
  <2>3. CASE playing' = playing /\ prog'["player"] = prog["player"]
    BY <1>2, <2>1, <2>2, <2>3
  <2>4. CASE ~playing /\ playing'
    <3>1. io["player"] = "idle"
      BY <2>4 DEF Serving, Serves, AtaTyped, AtaTasks, Places, InTransfer
    <3>2. UNCHANGED <<sel, dev, io, buf, late, mixed>>
      BY <2>1 DEF ataVars
    <3>3. AtPlace("main")
      BY <1>1, <2>4, <3>2
    <3>4. AtPlace("player")
      BY <2>2, <3>1, <3>3 DEF AtPlace, InTransfer
    <3> QED BY <2>2, <2>4, <3>1, <3>2, <3>4, PlaceSame
  <2> QED BY <2>1, <2>3, <2>4
<1>7. CASE Resets
  <2>1. sel' = Home /\ dev' \in FreshDevs /\ io' = AllIdle /\ playing' = FALSE
    BY <1>7 DEF Resets, AtaReset
  <2>2. io'["main"] = "idle" /\ io'["player"] = "idle" /\ \A b \in Bases : dev'[b].state = "ready"
    BY <2>1, FreshTyped DEF AllIdle, AtaTasks
  <2>3. sel'.base \in Bases
    BY <2>1, AtaAssumption, UnitsHaveBases
  <2>4. AtPlace("main")'
    BY <2>2, <2>3 DEF AtPlace, Quiet, InTransfer
  <2> QED BY <2>1, <2>2, <2>4
<1>8. CASE Drive
  <2>1. UNCHANGED <<io, late, prog, playing, mixed>>
    BY <1>8 DEF Drive, DevData, DevReady, shellVars
  <2>2. PICK b \in Bases : DevData(b) \/ DevReady(b)
    BY <1>8 DEF Drive
  <2> QED BY <1>1, <2>1, <2>2, PlaceDrive
<1>9. CASE Exits \/ Types \/ UNCHANGED vars
  BY <1>2, <1>9 DEF Exits, Types, vars, shellVars
<1> QED BY <1>3, <1>4, <1>5, <1>6, <1>7, <1>8, <1>9 DEF Next, Main, Player, Runs

\* However the drives answer, a sector moves to or from the unit and the place
\* that was asked for, unless a wait has given up or two tasks were at the disk
\* (select_drive, block_read, block_write).
THEOREM TransfersAsAsked == Spec => []TransferAsAsked
<1>1. Orderly /\ Serving => TransferAsAsked
  <2> SUFFICES ASSUME Orderly, Serving, ~late, ~mixed, NEW t \in Tasks, io[t] = "data"
               PROVE  /\ dev[sel.base].drive = sel
                      /\ dev[sel.base].cmd = This(t).op /\ dev[sel.base].state = "drq"
                      /\ dev[sel.base].sector \in Aim(t)
    BY DEF TransferAsAsked, Aim
  <2>1. AtPlace(t)
    BY DEF Orderly, Tasks
  <2> QED BY <2>1 DEF AtPlace, InTransfer
<1> QED BY <1>1, ServingInit, OrderlyInit, ServingStep, OrderlyStep, TypesHold, PTL DEF Spec

\* The line that is typed never outgrows cmd_buf, whose last character is kept
\* for the 0 (terminal_key).
THEOREM LineFits == Spec => [](Len(cmd_buf) < BufSize)
<1>1. Shape => Len(cmd_buf) < BufSize
  BY DEF Shape
<1> QED BY <1>1, TypesHold, PTL

-----------------------------------------------------------------------------
(* Prefixes                                                                *)

LEMMA PrefixIs ==
  ASSUME NEW S, NEW s \in Seq(S), NEW t \in Seq(S)
  PROVE  IsPrefix(s, t) <=> Len(s) <= Len(t) /\ \A i \in 1 .. Len(s) : s[i] = t[i]
<1>1. ASSUME Len(s) <= Len(t)
      PROVE  /\ SubSeq(s, 1, Len(s)) \in Seq(S) /\ SubSeq(t, 1, Len(s)) \in Seq(S)
             /\ Len(SubSeq(s, 1, Len(s))) = Len(s) /\ Len(SubSeq(t, 1, Len(s))) = Len(s)
             /\ \A i \in 1 .. Len(s) : SubSeq(s, 1, Len(s))[i] = s[i] /\ SubSeq(t, 1, Len(s))[i] = t[i]
  BY <1>1
<1>2. ASSUME Len(s) <= Len(t), \A i \in 1 .. Len(s) : s[i] = t[i]
      PROVE  SubSeq(s, 1, Len(s)) = SubSeq(t, 1, Len(s))
  BY <1>1, <1>2, SeqEqual
<1>3. ASSUME Len(s) <= Len(t), SubSeq(s, 1, Len(s)) = SubSeq(t, 1, Len(s))
      PROVE  \A i \in 1 .. Len(s) : s[i] = t[i]
  BY <1>1, <1>3
<1> QED BY <1>2, <1>3 DEF IsPrefix

LEMMA PrefixSelf ==
  ASSUME NEW S, NEW s \in Seq(S)
  PROVE  IsPrefix(s, s)
BY PrefixIs

LEMMA PrefixAppend ==
  ASSUME NEW S, NEW s \in Seq(S), NEW t \in Seq(S), NEW x \in S
  PROVE  /\ IsPrefix(s, t) => IsPrefix(s, Append(t, x))
         /\ IsPrefix(Append(s, x), t) => IsPrefix(s, t)
<1>1. /\ Append(s, x) \in Seq(S) /\ Len(Append(s, x)) = Len(s) + 1
      /\ \A i \in 1 .. Len(s) : Append(s, x)[i] = s[i]
      /\ Append(t, x) \in Seq(S) /\ Len(Append(t, x)) = Len(t) + 1
      /\ \A i \in 1 .. Len(t) : Append(t, x)[i] = t[i]
  BY AppendProperties
<1>2. Len(s) \in Nat /\ Len(t) \in Nat
  OBVIOUS
<1>3. IsPrefix(s, t) => IsPrefix(s, Append(t, x))
  <2> SUFFICES ASSUME IsPrefix(s, t) PROVE IsPrefix(s, Append(t, x))
    OBVIOUS
  <2>1. Len(s) <= Len(t) /\ \A i \in 1 .. Len(s) : s[i] = t[i]
    BY PrefixIs
  <2>2. \A i \in 1 .. Len(s) : i \in 1 .. Len(t)
    BY <1>2, <2>1
  <2>3. \A i \in 1 .. Len(s) : s[i] = Append(t, x)[i]
    BY <1>1, <2>1, <2>2
  <2>4. Len(s) <= Len(Append(t, x))
    BY <1>1, <1>2, <2>1
  <2> QED BY <1>1, <2>3, <2>4, PrefixIs
<1>4. IsPrefix(Append(s, x), t) => IsPrefix(s, t)
  <2> SUFFICES ASSUME IsPrefix(Append(s, x), t) PROVE IsPrefix(s, t)
    OBVIOUS
  <2> DEFINE a == Append(s, x)
  <2>1. a \in Seq(S) /\ IsPrefix(a, t)
    BY <1>1
  <2> HIDE DEF a
  <2>2. Len(a) <= Len(t) /\ \A i \in 1 .. Len(a) : a[i] = t[i]
    BY <2>1, PrefixIs
  <2>3. Len(s) + 1 <= Len(t) /\ \A i \in 1 .. Len(s) + 1 : Append(s, x)[i] = t[i]
    BY <1>1, <2>2 DEF a
  <2>4. \A i \in 1 .. Len(s) : i \in 1 .. Len(s) + 1
    BY <1>2
  <2>5. \A i \in 1 .. Len(s) : s[i] = t[i]
    BY <1>1, <2>3, <2>4
  <2> QED BY <1>2, <2>3, <2>5, PrefixIs
<1> QED BY <1>3, <1>4

-----------------------------------------------------------------------------
(* What the codes that are not yet read will do.  A view is what the       *)
(* decoder and the line editor make of the codes so far: the two flags,    *)
(* the line, and the lines that were entered.                              *)

View == [shift : BOOLEAN, ext : BOOLEAN, buf : Seq(Chars), done : Seq(Seq(Chars))]

\* The character of a code under a view, and the view after it.
CharOf(v, c) ==
  IF c = E0 \/ c.up \/ c.key \in ShiftKeys \/ v.ext THEN NoChar
  ELSE IF v.shift THEN map_upper[c.key] ELSE map_lower[c.key]

After(v, c) ==
  LET ch == CharOf(v, c) IN
  [shift |-> IF c.key \in ShiftKeys THEN ~c.up ELSE v.shift,
   ext   |-> IF c = E0 THEN TRUE ELSE IF c.key \in ShiftKeys THEN v.ext ELSE FALSE,
   buf   |-> IF ch = "nl" THEN << >> ELSE IF ch = NoChar THEN v.buf ELSE Typed(v.buf, ch),
   done  |-> IF ch = "nl" THEN Append(v.done, v.buf) ELSE v.done]

\* What the machine has made of the codes it has read: a line counts as entered
\* from Enter on, and the line after it is empty.
Seen ==
  [shift |-> shift_pressed, ext |-> is_extended,
   buf   |-> IF pc \in {"execute", "again"} THEN << >> ELSE cmd_buf,
   done  |-> IF pc = "execute" THEN Append(ran, cmd_buf) ELSE ran]

\* What the user means it to have made of all of them.
Intended == [shift |-> held # {}, ext |-> FALSE, buf |-> line, done |-> meant]

\* The codes q lead from view v to view w, by way of the views of tr.
Leads(tr, v, q, w) ==
  /\ tr \in Seq(View) /\ Len(tr) = Len(q) + 1
  /\ tr[1] = v /\ tr[Len(tr)] = w
  /\ \A i \in 1 .. Len(q) : tr[i + 1] = After(tr[i], q[i])
  /\ \A i \in 1 .. Len(tr) : IsPrefix(tr[i].done, w.done)

LinesTyped == line \in Seq(Chars) /\ meant \in Seq(Seq(Chars)) /\ ran \in Seq(Seq(Chars))

\* While nothing has happened that the decoder does not survive, at most one
\* shift is held, and the codes on their way lead from what the machine has made
\* of the others to what the user means.
ReadInv ==
  ~missed =>
    /\ \A k \in held : \A l \in held : k = l
    /\ IF pc = "halted" THEN IsPrefix(ran, meant)
       ELSE \E tr : Leads(tr, Seen, codes, Intended)

-----------------------------------------------------------------------------
LEMMA CodeFields ==
  ASSUME NEW c \in Codes
  PROVE  /\ c.up \in BOOLEAN
         /\ c # E0 /\ c.key \notin ShiftKeys => c.key \in DOMAIN map_lower
         /\ c = E0 => c.key \notin ShiftKeys
<1>1. \A s \in Strikes : s.up \in BOOLEAN /\ s.key \in Keys
  BY Zenon DEF Strikes
<1>2. E0.up \in BOOLEAN /\ E0.key = "E0" /\ "E0" \notin ShiftKeys
  BY DEF E0, ShiftKeys
<1> QED BY <1>1, <1>2 DEF Codes, Keys

\* No key is struck whose code is the prefix.
LEMMA StrikeIsNoPrefix == E0 \notin Strikes
<1>1. E0.key = "E0" /\ "E0" \notin Keys
  BY KeyboardAssumption DEF E0, Keys, ShiftKeys
<1>2. \A s \in Strikes : s.key \in Keys
  BY Zenon DEF Strikes
<1> QED BY <1>1, <1>2

LEMMA CharTyped ==
  ASSUME NEW v \in View, NEW c \in Codes, CharOf(v, c) # NoChar
  PROVE  CharOf(v, c) \in Chars
<1>1. c # E0 /\ c.key \notin ShiftKeys
  BY DEF CharOf
<1>2. c.key \in DOMAIN map_lower
  BY <1>1, CodeFields
<1>3. CharOf(v, c) \in {map_lower[c.key], map_upper[c.key]}
  BY DEF CharOf
<1> QED BY <1>2, <1>3, ShellAssumption

LEMMA TypedTyped ==
  ASSUME NEW s \in Seq(Chars), NEW c \in Chars
  PROVE  Typed(s, c) \in Seq(Chars)
<1>1. s # << >> => Front(s) \in Seq(Chars)
  BY DEF Front
<1>2. Append(s, c) \in Seq(Chars)
  OBVIOUS
<1> QED BY <1>1, <1>2 DEF Typed

LEMMA AfterTyped ==
  ASSUME NEW v \in View, NEW c \in Codes
  PROVE  After(v, c) \in View
<1> DEFINE ch == CharOf(v, c)
<1>1. /\ v.shift \in BOOLEAN /\ v.ext \in BOOLEAN
      /\ v.buf \in Seq(Chars) /\ v.done \in Seq(Seq(Chars))
  BY Zenon DEF View
<1>2. ch # NoChar => ch \in Chars
  BY CharTyped
<1>3. c.up \in BOOLEAN
  BY CodeFields
<1> HIDE DEF ch
<1>4. (IF ch = "nl" THEN << >> ELSE IF ch = NoChar THEN v.buf ELSE Typed(v.buf, ch)) \in Seq(Chars)
  BY <1>1, <1>2, TypedTyped
<1>5. (IF ch = "nl" THEN Append(v.done, v.buf) ELSE v.done) \in Seq(Seq(Chars))
  BY <1>1
<1>6. (IF c.key \in ShiftKeys THEN ~c.up ELSE v.shift) \in BOOLEAN
  BY <1>1, <1>3, Zenon
<1>7. (IF c = E0 THEN TRUE ELSE IF c.key \in ShiftKeys THEN v.ext ELSE FALSE) \in BOOLEAN
  BY <1>1, Zenon
<1> QED BY <1>4, <1>5, <1>6, <1>7 DEF After, View, ch

LEMMA AfterGrows ==
  ASSUME NEW v \in View, NEW c \in Codes, NEW s \in Seq(Seq(Chars)), IsPrefix(s, v.done)
  PROVE  IsPrefix(s, After(v, c).done)
<1>1. v.buf \in Seq(Chars) /\ v.done \in Seq(Seq(Chars))
  BY Zenon DEF View
<1>2. After(v, c).done = v.done \/ After(v, c).done = Append(v.done, v.buf)
  BY DEF After
<1> DEFINE S == Seq(Chars)
           d == v.done
           b == v.buf
<1>3. d \in Seq(S) /\ b \in S /\ s \in Seq(S) /\ IsPrefix(s, d)
  BY <1>1
<1> HIDE DEF S, d, b
<1>4. IsPrefix(s, Append(d, b))
  BY <1>3, PrefixAppend
<1> QED BY <1>2, <1>3, <1>4 DEF d, b

\* The first of the codes is read.
LEMMA LeadsTail ==
  ASSUME NEW tr, NEW v, NEW q \in Seq(Codes), NEW w, Leads(tr, v, q, w), q # << >>
  PROVE  Leads(Tail(tr), After(v, Head(q)), Tail(q), w)
<1> DEFINE n == Len(q)
<1>1. n \in Nat /\ n >= 1 /\ Len(Tail(q)) = n - 1 /\ Head(q) = q[1]
      /\ \A i \in 1 .. n - 1 : Tail(q)[i] = q[i + 1]
  BY HeadTailProperties
<1>2. tr \in Seq(View) /\ Len(tr) = n + 1
  BY DEF Leads
<1>3. Tail(tr) \in Seq(View) /\ Len(Tail(tr)) = n /\ \A i \in 1 .. n : Tail(tr)[i] = tr[i + 1]
  <2>1. tr # << >>
    BY <1>1, <1>2
  <2> QED BY <1>1, <1>2, <2>1, HeadTailProperties
<1>4. tr[1] = v /\ tr[n + 1] = w /\ \A i \in 1 .. n : tr[i + 1] = After(tr[i], q[i])
  BY <1>2 DEF Leads
<1>5. \A i \in 1 .. n + 1 : IsPrefix(tr[i].done, w.done)
  BY <1>2 DEF Leads
<1> HIDE DEF n
<1>6. Tail(tr)[1] = After(v, Head(q)) /\ Tail(tr)[n] = w
  <2>1. 1 \in 1 .. n /\ n \in 1 .. n
    BY <1>1
  <2> QED BY <1>1, <1>3, <1>4, <2>1
<1>7. \A i \in 1 .. n - 1 : Tail(tr)[i + 1] = After(Tail(tr)[i], Tail(q)[i])
  <2> SUFFICES ASSUME NEW i \in 1 .. n - 1
               PROVE  Tail(tr)[i + 1] = After(Tail(tr)[i], Tail(q)[i])
    OBVIOUS
  <2>1. i \in 1 .. n /\ i + 1 \in 1 .. n
    BY <1>1
  <2> QED BY <1>1, <1>3, <1>4, <2>1
<1>8. \A i \in 1 .. n : IsPrefix(Tail(tr)[i].done, w.done)
  <2> SUFFICES ASSUME NEW i \in 1 .. n PROVE IsPrefix(Tail(tr)[i].done, w.done)
    OBVIOUS
  <2>1. i + 1 \in 1 .. n + 1
    BY <1>1
  <2> QED BY <1>3, <1>5, <2>1
<1>9. n = (n - 1) + 1
  BY <1>1
<1> QED BY <1>1, <1>3, <1>6, <1>7, <1>8, <1>9 DEF Leads

\* One more code is sent.
LEMMA LeadsAppend ==
  ASSUME NEW tr, NEW v, NEW q \in Seq(Codes), NEW w \in View, Leads(tr, v, q, w),
         NEW c \in Codes
  PROVE  Leads(Append(tr, After(w, c)), v, Append(q, c), After(w, c))
<1> DEFINE n == Len(q)
           x == After(w, c)
           tq == Append(tr, x)
           q1 == Append(q, c)
<1>1. x \in View
  BY AfterTyped
<1>2. /\ n \in Nat /\ tr \in Seq(View) /\ Len(tr) = n + 1
      /\ tr[1] = v /\ tr[n + 1] = w
      /\ \A i \in 1 .. n : tr[i + 1] = After(tr[i], q[i])
      /\ \A i \in 1 .. n + 1 : IsPrefix(tr[i].done, w.done)
  <2>1. tr \in Seq(View) /\ Len(tr) = n + 1
    BY DEF Leads
  <2> QED BY <2>1 DEF Leads
<1> HIDE DEF x
<1>3. /\ tq \in Seq(View) /\ Len(tq) = n + 2 /\ tq[n + 2] = x
      /\ \A i \in 1 .. n + 1 : tq[i] = tr[i]
  BY <1>1, <1>2, AppendProperties
<1>4. /\ Len(q1) = n + 1 /\ q1[n + 1] = c /\ \A i \in 1 .. n : q1[i] = q[i]
  BY AppendProperties
<1> HIDE DEF n, tq, q1
<1>5. tq[1] = v
  BY <1>2, <1>3
<1>6. \A i \in 1 .. n + 1 : tq[i + 1] = After(tq[i], q1[i])
  <2> SUFFICES ASSUME NEW i \in 1 .. n + 1 PROVE tq[i + 1] = After(tq[i], q1[i])
    OBVIOUS
  <2>1. CASE i = n + 1
    BY <1>2, <1>3, <1>4, <2>1 DEF x
  <2>2. CASE i # n + 1
    <3>1. i \in 1 .. n /\ i + 1 \in 1 .. n + 1
      BY <1>2, <2>2
    <3> QED BY <1>2, <1>3, <1>4, <3>1
  <2> QED BY <2>1, <2>2
<1>7. \A i \in 1 .. n + 2 : IsPrefix(tq[i].done, x.done)
  <2> SUFFICES ASSUME NEW i \in 1 .. n + 2 PROVE IsPrefix(tq[i].done, x.done)
    OBVIOUS
  <2>1. CASE i = n + 2
    <3>1. x.done \in Seq(Seq(Chars))
      BY <1>1, Zenon DEF View
    <3> QED BY <1>3, <2>1, <3>1, PrefixSelf
  <2>2. CASE i # n + 2
    <3>1. i \in 1 .. n + 1
      BY <1>2, <2>2
    <3>2. tr[i] \in View
      BY <1>2, <3>1
    <3>3. tr[i].done \in Seq(Seq(Chars))
      BY <3>2, Zenon DEF View
    <3> QED BY <1>2, <1>3, <3>1, <3>3, AfterGrows DEF x
  <2> QED BY <2>1, <2>2
<1>8. n + 2 = (n + 1) + 1
  BY <1>2
<1>9. Leads(tq, v, q1, x)
  BY <1>3, <1>4, <1>5, <1>6, <1>7, <1>8 DEF Leads
<1> QED BY <1>9 DEF tq, q1, x

-----------------------------------------------------------------------------
LEMMA MeantTyped ==
  ASSUME NEW s \in Strikes
  PROVE  Meant(s) \in Chars \cup {NoChar}
<1>1. s.key \in DOMAIN map_lower \cup ShiftKeys
  BY Zenon DEF Strikes, Keys
<1>2. Meant(s) = NoChar \/ (s.key \notin ShiftKeys /\ Meant(s) \in {map_lower[s.key], map_upper[s.key]})
  BY DEF Meant
<1> QED BY <1>1, <1>2, ShellAssumption

LEMMA ViewsTyped ==
  ASSUME Keyed, Shape, LinesTyped
  PROVE  Seen \in View /\ Intended \in View
<1>1. /\ shift_pressed \in BOOLEAN /\ is_extended \in BOOLEAN
      /\ cmd_buf \in Seq(Chars) /\ << >> \in Seq(Chars) /\ line \in Seq(Chars)
  BY DEF Keyed, KbdTypeOK, Shape, LinesTyped
<1>2. ran \in Seq(Seq(Chars)) /\ meant \in Seq(Seq(Chars)) /\ Append(ran, cmd_buf) \in Seq(Seq(Chars))
  BY <1>1 DEF LinesTyped
<1>3. (held # {}) \in BOOLEAN /\ FALSE \in BOOLEAN
  BY Zenon
<1>4. Seen \in View
  BY <1>1, <1>2, Zenon DEF Seen, View
<1>5. Intended \in View
  BY <1>1, <1>2, <1>3, Zenon DEF Intended, View
<1> QED BY <1>4, <1>5

LEMMA LinesInit == Init => LinesTyped
BY DEF Init, ShellInit, LinesTyped

LEMMA LinesStep == LinesTyped /\ Keyed /\ Shape /\ [Next]_vars => LinesTyped'
<1> SUFFICES ASSUME LinesTyped, Keyed, Shape, [Next]_vars PROVE LinesTyped'
  OBVIOUS
<1>1. CASE Types
  <2> DEFINE c == Meant(Head(todo))
  <2>1. Head(todo) \in Strikes
    BY <1>1 DEF Types, Keyed
  <2>2. c \in Chars \cup {NoChar}
    BY <2>1, MeantTyped
  <2>3. /\ line' = IF c = "nl" THEN << >> ELSE IF c = NoChar THEN line ELSE Typed(line, c)
        /\ meant' = IF c = "nl" THEN Append(meant, line) ELSE meant
        /\ ran' = ran
    BY <1>1 DEF Types
  <2> HIDE DEF c
  <2>4. line' \in Seq(Chars)
    BY <2>2, <2>3, TypedTyped DEF LinesTyped
  <2>5. meant' \in Seq(Seq(Chars))
    BY <2>3 DEF LinesTyped
  <2> QED BY <2>3, <2>4, <2>5 DEF LinesTyped
<1>2. CASE Execute
  <2>1. ran' = Append(ran, cmd_buf) /\ UNCHANGED <<line, meant>>
    BY <1>2 DEF Execute
  <2> QED BY <2>1 DEF LinesTyped, Shape
<1>3. CASE Resets
  BY <1>3 DEF Resets, LinesTyped
<1>4. CASE UNCHANGED <<line, meant, ran>>
  BY <1>4 DEF LinesTyped
<1>5. ASSUME NEW t \in Tasks, Runs(t) PROVE UNCHANGED <<line, meant, ran>>
  BY <1>5 DEF Runs, Prints, Settles, Accesses, Does
<1>6. Poll \/ Again \/ Waits \/ Exits \/ Drive \/ UNCHANGED vars => UNCHANGED <<line, meant, ran>>
  BY DEF Poll, Again, Waits, Exits, Drive, shellVars, vars
<1> QED BY <1>1, <1>2, <1>3, <1>4, <1>5, <1>6 DEF Next, Main, Player, Tasks

-----------------------------------------------------------------------------
(* One strike of a key: the codes it sends make of the user's view what    *)
(* the user means by it.                                                   *)

LEMMA OneShift ==
  ASSUME NEW S \in SUBSET ShiftKeys, ~ Cardinality(S) > 1
  PROVE  \A k \in S : \A l \in S : k = l
<1> SUFFICES ASSUME NEW k \in S, NEW l \in S, k # l PROVE FALSE
  OBVIOUS
<1>1. IsFiniteSet({"LShift"}) /\ Cardinality({"LShift"}) = 1 /\ IsFiniteSet({k}) /\ Cardinality({k}) = 1
  BY FS_Singleton
<1>2. IsFiniteSet({"LShift"} \cup {"RShift"})
  BY <1>1, FS_AddElement
<1>3. IsFiniteSet(S)
  <2>1. ShiftKeys = {"LShift"} \cup {"RShift"}
    BY DEF ShiftKeys
  <2>2. IsFiniteSet(ShiftKeys)
    BY <1>2, <2>1
  <2> QED BY <2>2, FS_Subset
<1>4. IsFiniteSet({k} \cup {l}) /\ Cardinality({k} \cup {l}) = 2
  BY <1>1, FS_AddElement
<1>5. Cardinality({k} \cup {l}) <= Cardinality(S)
  BY <1>3, FS_Subset
<1>6. Cardinality(S) \in Nat
  BY <1>3, FS_CardinalityType
<1> QED BY <1>4, <1>5, <1>6

LEMMA StrikeMeans ==
  ASSUME LinesTyped, Keyed, Types, ~missed', \A k \in held : \A l \in held : k = l
  PROVE  LET s == Head(todo) IN
         \/ codes' = Append(codes, s) /\ Intended' = After(Intended, s)
         \/ /\ codes' = Append(Append(codes, E0), s)
            /\ Intended' = After(After(Intended, E0), s)
<1> DEFINE s == Head(todo)
           c == Meant(s)
           w == Intended
<1>1. s \in Strikes /\ s # E0 /\ s.up \in BOOLEAN
  <2>1. s \in Strikes
    BY DEF Types, Keyed
  <2> QED BY <2>1, StrikeIsNoPrefix, CodeFields DEF Codes
<1>2. /\ Strike(s) /\ codes \in Seq(Codes)
      /\ line' = IF c = "nl" THEN << >> ELSE IF c = NoChar THEN line ELSE Typed(line, c)
      /\ meant' = IF c = "nl" THEN Append(meant, line) ELSE meant
  BY DEF Types, Keyed, KbdTypeOK
<1>3. codes' = codes \o Sends(s) /\ ~(s.key = NavKey /\ held # {})
  BY <1>2 DEF Strike
<1>4. held' = IF s.key \notin ShiftKeys THEN held
              ELSE IF s.up THEN held \ {s.key} ELSE held \cup {s.key}
  BY <1>2 DEF Strike
<1>5. w.shift = (held # {}) /\ w.ext = FALSE /\ w.buf = line /\ w.done = meant
  BY DEF Intended
<1>6. s \in Codes /\ E0 \in Codes
  BY <1>1 DEF Codes
<1> HIDE DEF s
<1>7. CASE s.key # NavKey
  <2>1. Sends(s) = <<s>>
    BY <1>7 DEF Sends
  <2>2. codes' = Append(codes, s)
    BY <1>2, <1>3, <1>6, <2>1, AppendIsConcat
  <2>3. CharOf(w, s) = c
    BY <1>1, <1>5, <1>7 DEF CharOf, Meant
  <2>4. (held' # {}) = (IF s.key \in ShiftKeys THEN ~s.up ELSE w.shift)
    <3>1. CASE s.key \in ShiftKeys /\ s.up
      <4>1. s.key \in held
        BY <1>2, <3>1 DEF Strike
      <4>2. held \ {s.key} = {}
        BY <4>1
      <4> QED BY <1>4, <3>1, <4>2
    <3>2. CASE s.key \in ShiftKeys /\ ~s.up
      BY <1>4, <3>2
    <3>3. CASE s.key \notin ShiftKeys
      BY <1>4, <1>5, <3>3
    <3> QED BY <1>1, <3>1, <3>2, <3>3
  <2>5. (IF s = E0 THEN TRUE ELSE IF s.key \in ShiftKeys THEN w.ext ELSE FALSE) = FALSE
    BY <1>1, <1>5
  <2> HIDE DEF w, c
  <2>6. After(w, s) = [shift |-> held' # {}, ext |-> FALSE, buf |-> line', done |-> meant']
    BY <1>2, <1>5, <2>3, <2>4, <2>5 DEF After
  <2>7. Intended' = [shift |-> held' # {}, ext |-> FALSE, buf |-> line', done |-> meant']
    BY DEF Intended
  <2> QED BY <2>2, <2>6, <2>7 DEF s, w
<1>8. CASE s.key = NavKey
  <2>1. held = {} /\ Sends(s) = <<E0, s>>
    BY <1>3, <1>8 DEF Sends
  <2>2. codes' = Append(Append(codes, E0), s)
    <3>1. codes \o <<E0, s>> = Append(Append(codes, E0), s)
      BY <1>2, <1>6
    <3> QED BY <1>3, <2>1, <3>1
  <2>3. s.key \notin ShiftKeys /\ c = NoChar /\ NoChar # "nl" /\ E0.key \notin ShiftKeys
    BY <1>8, KeyboardAssumption DEF NavKey, ShiftKeys, Meant, E0
  <2>4. held' = held /\ line' = line /\ meant' = meant
    BY <1>2, <1>4, <2>3
  <2> DEFINE x == After(w, E0)
  <2>5. CharOf(w, E0) = NoChar
    BY DEF CharOf
  <2>6. x = [shift |-> held # {}, ext |-> TRUE, buf |-> line, done |-> meant]
    <3> HIDE DEF w
    <3> QED BY <1>5, <2>3, <2>5 DEF After
  <2>7. x.shift = (held # {}) /\ x.ext = TRUE /\ x.buf = line /\ x.done = meant
    BY <2>6
  <2> HIDE DEF x
  <2>8. CharOf(x, s) = NoChar
    BY <2>7 DEF CharOf
  <2>9. After(x, s) = [shift |-> held # {}, ext |-> FALSE, buf |-> line, done |-> meant]
    BY <1>1, <2>3, <2>7, <2>8 DEF After
  <2>10. Intended' = After(x, s)
    BY <2>4, <2>9 DEF Intended
  <2> QED BY <2>2, <2>10 DEF s, w, x
<1> QED BY <1>7, <1>8

-----------------------------------------------------------------------------
(* The machine's side                                                      *)

LEMMA LeadsPrefix ==
  ASSUME NEW tr, NEW v, NEW q \in Seq(Codes), NEW w, Leads(tr, v, q, w)
  PROVE  /\ IsPrefix(v.done, w.done)
         /\ q = << >> => v = w
<1>1. Len(q) \in Nat /\ Len(tr) = Len(q) + 1 /\ tr[1] = v /\ tr[Len(tr)] = w
      /\ \A i \in 1 .. Len(tr) : IsPrefix(tr[i].done, w.done)
  BY DEF Leads
<1>2. 1 \in 1 .. Len(tr)
  BY <1>1
<1>3. q = << >> => Len(tr) = 1
  BY <1>1
<1> QED BY <1>1, <1>2, <1>3

LEMMA ReadSame ==
  ASSUME ReadInv, UNCHANGED <<held, codes, missed>>, Seen' = Seen, Intended' = Intended,
         pc # "halted", pc' # "halted"
  PROVE  ReadInv'
<1> SUFFICES ASSUME ~missed' PROVE ReadInv'
  BY DEF ReadInv
<1>1. \A k \in held : \A l \in held : k = l
  BY DEF ReadInv
<1>2. PICK tr : Leads(tr, Seen, codes, Intended)
  BY DEF ReadInv
<1>3. Leads(tr, Seen', codes', Intended')
  BY <1>2
<1> QED BY <1>1, <1>3 DEF ReadInv

\* The machine halts, after a line of blanks or in the player.
LEMMA ReadHalts ==
  ASSUME ReadInv, Keyed, Shape, LinesTyped, UNCHANGED <<held, missed, meant>>,
         pc # "halted", pc' = "halted", ran' \in {ran, Seen.done}
  PROVE  ReadInv'
<1> SUFFICES ASSUME ~missed' PROVE ReadInv'
  BY DEF ReadInv
<1>1. \A k \in held : \A l \in held : k = l
  BY DEF ReadInv
<1>2. PICK tr : Leads(tr, Seen, codes, Intended)
  BY DEF ReadInv
<1>3. IsPrefix(Seen.done, meant)
  <2>1. codes \in Seq(Codes) /\ Intended.done = meant
    BY DEF Keyed, KbdTypeOK, Intended
  <2> QED BY <1>2, <2>1, LeadsPrefix
<1>4. IsPrefix(ran, meant)
  <2> DEFINE S == Seq(Chars)
  <2>1. ran \in Seq(S) /\ meant \in Seq(S) /\ cmd_buf \in S
    BY DEF LinesTyped, Shape
  <2>2. Seen.done = ran \/ Seen.done = Append(ran, cmd_buf)
    BY DEF Seen
  <2> HIDE DEF S
  <2> QED BY <1>3, <2>1, <2>2, PrefixAppend
<1> QED BY <1>1, <1>3, <1>4 DEF ReadInv

\* The decoder and the editor take a code as After says.
LEMMA PollTakes ==
  ASSUME Keyed, Shape, Poll
  PROVE  Seen' = After(Seen, Head(codes))
<1> DEFINE d == Head(codes)
           c == Decoded(d)
<1>1. pc = "poll" /\ terminal_key(c) /\ ReadCode /\ ran' = ran
  BY DEF Poll
<1>2. d \in Codes
  BY <1>1 DEF ReadCode, Keyed, KbdTypeOK
<1>3. c = CharOf(Seen, d)
  BY DEF Decoded, CharOf, Seen
<1>4. /\ shift_pressed' = IF d.key \in ShiftKeys THEN ~d.up ELSE shift_pressed
      /\ is_extended' = IF d = E0 THEN TRUE ELSE IF d.key \in ShiftKeys THEN is_extended ELSE FALSE
  <2>1. /\ shift_pressed' = IF d.key \in ShiftKeys THEN ~d.up ELSE shift_pressed
        /\ is_extended' = CASE d = E0 -> TRUE
                            [] d.key \in ShiftKeys -> is_extended
                            [] OTHER -> FALSE
    BY <1>1 DEF ReadCode
  <2>2. d = E0 => d.key \notin ShiftKeys
    BY <1>2, CodeFields
  <2> HIDE DEF d
  <2> QED BY <2>1, <2>2
<1>5. /\ Seen.shift = shift_pressed /\ Seen.ext = is_extended
      /\ Seen.buf = cmd_buf /\ Seen.done = ran
  BY <1>1 DEF Seen
<1> HIDE DEF c, d
<1>6. /\ Seen'.buf = IF c = "nl" THEN << >> ELSE IF c = NoChar THEN cmd_buf ELSE Typed(cmd_buf, c)
      /\ Seen'.done = IF c = "nl" THEN Append(ran, cmd_buf) ELSE ran
  <2>1. NoChar \notin {"nl", "bs"}
    BY KeyboardAssumption
  <2>2. CASE Enters(c)
    BY <1>1, <2>2 DEF Enters, Seen
  <2>3. CASE Deletes(c)
    BY <1>1, <2>1, <2>3 DEF Deletes, Seen, Typed
  <2>4. CASE Adds(c)
    BY <1>1, <2>1, <2>4 DEF Adds, Seen, Typed
  <2>5. CASE Ignores(c)
    BY <1>1, <2>1, <2>5, ShellAssumption DEF Ignores, Seen, Typed, Shape
  <2> QED BY <1>1, <2>2, <2>3, <2>4, <2>5 DEF terminal_key
<1>7. Seen' = [shift |-> shift_pressed', ext |-> is_extended', buf |-> Seen'.buf, done |-> Seen'.done]
  BY DEF Seen
<1> HIDE DEF Seen
<1>8. Seen' = After(Seen, d)
  BY <1>3, <1>4, <1>5, <1>6, <1>7 DEF After
<1> QED BY <1>8 DEF d

LEMMA ReadInit == Init => ReadInv
<1> SUFFICES ASSUME Init PROVE ReadInv
  OBVIOUS
<1>1. Keyed /\ Shape /\ LinesTyped
  BY KeyedInit, ShapeInit, LinesInit
<1>2. codes = << >> /\ held = {} /\ pc = "boot" /\ Seen = Intended
  BY DEF Init, KbdInit, ShellInit, Seen, Intended
<1>3. Leads(<<Seen>>, Seen, codes, Intended)
  <2>1. Intended \in View /\ Intended.done \in Seq(Seq(Chars))
    BY <1>1, ViewsTyped DEF Intended, LinesTyped
  <2>2. IsPrefix(Intended.done, Intended.done)
    BY <2>1, PrefixSelf
  <2> DEFINE v == Intended
  <2> HIDE DEF v
  <2>3. Leads(<<v>>, v, << >>, v)
    BY <2>1, <2>2 DEF Leads, v
  <2> QED BY <1>2, <2>3 DEF v
<1> QED BY <1>2, <1>3 DEF ReadInv

LEMMA ReadTypes ==
  ASSUME ReadInv, Keyed, Shape, LinesTyped, Types
  PROVE  ReadInv'
<1> SUFFICES ASSUME ~missed' PROVE ReadInv'
  BY DEF ReadInv
<1> DEFINE s == Head(todo)
<1>1. s \in Strikes /\ Strike(s) /\ ~missed /\ pc # "halted" /\ pc' = pc
      /\ UNCHANGED <<cmd_buf, ran, shift_pressed, is_extended>>
  BY DEF Types, Keyed, Strike
<1>2. Seen' = Seen
  BY <1>1 DEF Seen
<1>3. PICK tr : Leads(tr, Seen, codes, Intended)
  BY <1>1 DEF ReadInv
<1>4. \A k \in held : \A l \in held : k = l
  BY <1>1 DEF ReadInv
<1>5. /\ codes \in Seq(Codes) /\ s \in Codes /\ E0 \in Codes
      /\ Intended \in View /\ After(Intended, E0) \in View
  BY <1>1, ViewsTyped, AfterTyped DEF Codes, Keyed, KbdTypeOK
<1>6. \/ codes' = Append(codes, s) /\ Intended' = After(Intended, s)
      \/ codes' = Append(Append(codes, E0), s) /\ Intended' = After(After(Intended, E0), s)
  BY <1>4, StrikeMeans
<1> HIDE DEF s
<1>7. \E tr1 : Leads(tr1, Seen', codes', Intended')
  <2>1. CASE codes' = Append(codes, s) /\ Intended' = After(Intended, s)
    <3>1. Leads(Append(tr, After(Intended, s)), Seen, Append(codes, s), After(Intended, s))
      BY <1>3, <1>5, LeadsAppend
    <3> QED BY <1>2, <2>1, <3>1
  <2>2. CASE codes' = Append(Append(codes, E0), s) /\ Intended' = After(After(Intended, E0), s)
    <3> DEFINE q == Append(codes, E0)
               x == After(Intended, E0)
               t1 == Append(tr, x)
    <3>1. Leads(t1, Seen, q, x) /\ q \in Seq(Codes) /\ x \in View
      BY <1>3, <1>5, LeadsAppend
    <3> HIDE DEF q, x, t1
    <3>2. Leads(Append(t1, After(x, s)), Seen, Append(q, s), After(x, s))
      BY <1>5, <3>1, LeadsAppend
    <3> QED BY <1>2, <2>2, <3>2 DEF q, x
  <2> QED BY <1>6, <2>1, <2>2
<1>8. \A k \in held' : \A l \in held' : k = l
  <2>1. ~ Cardinality(held') > 1 /\ held' \in SUBSET ShiftKeys
    BY <1>1 DEF Strike, Keyed, KbdTypeOK
  <2> DEFINE S == held'
  <2> HIDE DEF S
  <2>2. \A k \in S : \A l \in S : k = l
    BY <2>1, OneShift DEF S
  <2> QED BY <2>2 DEF S
<1> QED BY <1>1, <1>7, <1>8 DEF ReadInv

LEMMA ReadStep == ReadInv /\ Keyed /\ Shape /\ LinesTyped /\ [Next]_vars => ReadInv'
<1> SUFFICES ASSUME ReadInv, Keyed, Shape, LinesTyped, [Next]_vars PROVE ReadInv'
  OBVIOUS
<1>1. CASE Types
  BY <1>1, ReadTypes
<1>2. CASE Poll
  <2>1. pc = "poll" /\ pc' # "halted" /\ codes # << >> /\ codes' = Tail(codes)
        /\ UNCHANGED <<held, missed>> /\ Intended' = Intended
    BY <1>2 DEF Poll, ReadCode, terminal_key, Enters, Deletes, Adds, Ignores, Intended
  <2>2. Seen' = After(Seen, Head(codes)) /\ codes \in Seq(Codes)
    BY <1>2, PollTakes DEF Keyed, KbdTypeOK
  <2> SUFFICES ASSUME ~missed' PROVE ReadInv'
    BY DEF ReadInv
  <2>3. PICK tr : Leads(tr, Seen, codes, Intended)
    BY <2>1 DEF ReadInv
  <2>4. Leads(Tail(tr), Seen', codes', Intended')
    <3>1. Leads(Tail(tr), After(Seen, Head(codes)), Tail(codes), Intended)
      BY <2>1, <2>2, <2>3, LeadsTail
    <3> QED BY <2>1, <2>2, <3>1
  <2> QED BY <2>1, <2>4 DEF ReadInv
<1>3. CASE Execute
  <2>1. /\ pc = "execute" /\ pc' \in {"again", "halted"} /\ UNCHANGED <<held, codes, missed, meant>>
        /\ ran' = Append(ran, cmd_buf)
        /\ UNCHANGED <<shift_pressed, is_extended, line>>
    BY <1>3 DEF Execute, kbdVars
  <2>2. Seen.done = ran'
    BY <2>1 DEF Seen
  <2>3. CASE pc' = "halted"
    BY <2>1, <2>2, <2>3, ReadHalts
  <2>4. CASE pc' = "again"
    <3>1. Seen' = Seen /\ Intended' = Intended
      BY <2>1, <2>4 DEF Seen, Intended
    <3> QED BY <2>1, <2>4, <3>1, ReadSame
  <2> QED BY <2>1, <2>3, <2>4
<1>4. CASE Again \/ Waits
  <2>1. pc \in {"again", "boot", "prompt"} /\ pc' \notin {"halted", "execute", "again"}
        /\ cmd_buf' = (IF pc = "again" THEN << >> ELSE cmd_buf)
        /\ UNCHANGED <<kbdVars, ran, line, meant>>
    BY <1>4 DEF Again, Waits
  <2>2. Seen' = Seen /\ Intended' = Intended /\ UNCHANGED <<held, codes, missed>>
    BY <2>1 DEF Seen, Intended, kbdVars
  <2> QED BY <2>1, <2>2, ReadSame
<1>5. ASSUME NEW t \in Tasks, Runs(t) PROVE ReadInv'
  <2>1. pc # "halted" /\ pc' = pc /\ UNCHANGED <<kbdVars, cmd_buf, ran, line, meant>>
    BY <1>5 DEF Runs, Prints, Settles, Accesses, Does, Ready
  <2>2. Seen' = Seen /\ Intended' = Intended /\ UNCHANGED <<held, codes, missed>>
    BY <2>1 DEF Seen, Intended, kbdVars
  <2> QED BY <2>1, <2>2, ReadSame
<1>6. CASE Exits
  <2>1. pc # "halted" /\ pc' = "halted" /\ UNCHANGED <<held, missed, meant, ran>>
    BY <1>6 DEF Exits, Ready, kbdVars
  <2> QED BY <2>1, ReadHalts
<1>7. CASE Drive /\ pc # "halted"
  <2>1. UNCHANGED <<kbdVars, pc, cmd_buf, ran, line, meant>>
    BY <1>7 DEF Drive, shellVars
  <2>2. Seen' = Seen /\ Intended' = Intended /\ UNCHANGED <<held, codes, missed>>
    BY <2>1 DEF Seen, Intended, kbdVars
  <2> QED BY <1>7, <2>1, <2>2, ReadSame
<1>8. CASE UNCHANGED vars
  <2>1. UNCHANGED <<held, codes, missed, pc, ran, meant>> /\ Seen' = Seen /\ Intended' = Intended
    BY <1>8 DEF vars, kbdVars, shellVars, Seen, Intended
  <2> QED BY <2>1 DEF ReadInv
<1>9. CASE Resets
  <2>1. pc = "again"
    <3>1. prog["main"] # << >> /\ This("main") \notin Plain
      BY <1>9 DEF Resets, Ready, Plain
    <3>2. "main" \in Tasks
      BY DEF Tasks
    <3>3. prog["main"] \notin Seq(Plain)
      BY <3>1, <3>2, ThisTyped
    <3> QED BY <1>9, <3>3 DEF Shape, Resets, Ready
  <2> SUFFICES ASSUME ~missed' PROVE ReadInv'
    BY DEF ReadInv
  <2>2. ~missed /\ held = {} /\ codes = << >>
    BY <1>9 DEF Resets, KbdReset
  <2>3. held' = {} /\ codes' = << >> /\ pc' = "boot" /\ meant' = meant
        /\ Seen' = [shift |-> FALSE, ext |-> FALSE, buf |-> << >>, done |-> ran]
    BY <1>9, <2>2 DEF Resets, KbdReset, Seen
  <2>4. PICK tr : Leads(tr, Seen, codes, Intended)
    BY <2>1, <2>2 DEF ReadInv
  <2>5. Seen = Intended
    BY <2>2, <2>4, LeadsPrefix DEF Keyed, KbdTypeOK
  <2>6. Seen.done = ran /\ Intended.done = meant
    BY <2>1 DEF Seen, Intended
  <2>7. Intended' = Seen'
    BY <1>9, <2>3, <2>5, <2>6 DEF Intended, Resets
  <2> DEFINE v == Seen'
  <2>8. v \in View /\ v.done \in Seq(Seq(Chars))
    <3>1. ran \in Seq(Seq(Chars)) /\ << >> \in Seq(Chars) /\ FALSE \in BOOLEAN
      BY DEF LinesTyped
    <3> QED BY <2>3, <3>1, Zenon DEF View
  <2> HIDE DEF v
  <2>9. IsPrefix(v.done, v.done)
    BY <2>8, PrefixSelf
  <2>10. Leads(<<v>>, v, << >>, v)
    BY <2>8, <2>9 DEF Leads
  <2> QED BY <2>3, <2>7, <2>10 DEF ReadInv, v
<1> QED BY <1>1, <1>2, <1>3, <1>4, <1>5, <1>6, <1>7, <1>8, <1>9
        DEF Next, Main, Player, Drive, Tasks

\* The lines that are executed are those the user meant, in order, and once all
\* codes are read, all of them: the decoder, the editor, the commands, a reset and
\* the two that halt the machine, in every order with the strikes of the keys.
THEOREM RunsAsMeant == Spec => []RanAsMeant
<1>1. Keyed /\ Shape /\ LinesTyped /\ ReadInv => RanAsMeant
  <2> SUFFICES ASSUME Keyed, Shape, LinesTyped, ReadInv, ~missed
               PROVE  /\ IsPrefix(ran, meant)
                      /\ Idle /\ codes = << >> => ran = meant /\ cmd_buf = line
    BY DEF RanAsMeant
  <2>1. CASE pc = "halted"
    BY <2>1 DEF ReadInv, Idle
  <2>2. CASE pc # "halted"
    <3>1. PICK tr : Leads(tr, Seen, codes, Intended)
      BY <2>2 DEF ReadInv
    <3>2. IsPrefix(Seen.done, meant) /\ (codes = << >> => Seen = Intended)
      <4>1. codes \in Seq(Codes) /\ Intended.done = meant
        BY DEF Keyed, KbdTypeOK, Intended
      <4> QED BY <3>1, <4>1, LeadsPrefix
    <3>3. IsPrefix(ran, meant)
      <4> DEFINE S == Seq(Chars)
      <4>1. ran \in Seq(S) /\ meant \in Seq(S) /\ cmd_buf \in S
        BY DEF LinesTyped, Shape
      <4>2. Seen.done = ran \/ Seen.done = Append(ran, cmd_buf)
        BY DEF Seen
      <4> HIDE DEF S
      <4> QED BY <3>2, <4>1, <4>2, PrefixAppend
    <3>4. ASSUME Idle, codes = << >> PROVE ran = meant /\ cmd_buf = line
      <4>1. Seen.done = ran /\ Seen.buf = cmd_buf /\ Intended.done = meant /\ Intended.buf = line
        BY <3>4 DEF Idle, Seen, Intended
      <4> QED BY <3>2, <3>4, <4>1
    <3> QED BY <3>3, <3>4
  <2> QED BY <2>1, <2>2
<1>2. Init => LinesTyped /\ ReadInv
  BY LinesInit, ReadInit
<1> QED BY <1>1, <1>2, LinesStep, ReadStep, TypesHold, PTL DEF Spec

-----------------------------------------------------------------------------
(* The screen.  Whatever is written, by either task: nothing stands at the *)
(* cursor or behind it.                                                    *)

Ahead(p) == p[2] > c_y \/ (p[2] = c_y /\ p[1] >= c_x)

ScreenInv == DOMAIN cell = Cells /\ \A p \in Cells : Ahead(p) => cell[p] = " "

LEMMA CellIs ==
  \A p \in Cells : /\ p = <<p[1], p[2]>> /\ p[1] \in Nat /\ p[2] \in Nat
                    /\ p[1] <= Cols - 2 /\ p[1] < Cols
BY ScreenAssumption DEF Cells

LEMMA DrawnOn == \A c, x, y, ch : DOMAIN Draw(c, x, y, ch) = Cells
BY DEF Draw

\* The cursor moves on.
Forth == c_x' \in Nat /\ c_y' \in Nat /\ (c_y' > c_y \/ (c_y' = c_y /\ c_x' >= c_x))

LEMMA AheadForth ==
  ASSUME CursorTyped, Forth, NEW p \in Cells, Ahead(p)'
  PROVE  Ahead(p)
<1>1. p[1] \in Nat /\ p[2] \in Nat
  BY CellIs
<1> QED BY <1>1 DEF Ahead, CursorTyped, Forth

LEMMA ScreenForth ==
  ASSUME ScreenInv, CursorTyped, Forth, DOMAIN cell' = Cells,
         \A p \in Cells : Ahead(p)' => cell'[p] \in {cell[p], " "}
  PROVE  ScreenInv'
<1> SUFFICES ASSUME NEW p \in Cells, Ahead(p)' PROVE cell'[p] = " "
  BY DEF ScreenInv
<1>1. Ahead(p)
  BY AheadForth
<1> QED BY <1>1 DEF ScreenInv

\* One cell is drawn, and the cursor goes behind it.
LEMMA ScreenDraws ==
  ASSUME ScreenInv, CursorTyped, NEW x \in Nat, NEW y \in Nat, NEW ch,
         y > c_y \/ (y = c_y /\ x >= c_x),
         cell' = Draw(cell, x, y, ch), c_x' = x + 1, c_y' = y
  PROVE  ScreenInv'
<1>1. Forth
  BY DEF Forth, CursorTyped
<1>2. ASSUME NEW p \in Cells, Ahead(p)' PROVE cell'[p] = cell[p]
  <2>1. p # <<x, y>>
    BY <1>2 DEF Ahead
  <2> QED BY <2>1 DEF Draw
<1>3. DOMAIN cell' = Cells
  BY DrawnOn
<1> QED BY <1>1, <1>2, <1>3, ScreenForth

\* One cell is blanked, and the cursor goes on or stays.
LEMMA ScreenBlanks ==
  ASSUME ScreenInv, CursorTyped, Forth, NEW x, NEW y, cell' = Draw(cell, x, y, " ")
  PROVE  ScreenInv'
<1>1. \A p \in Cells : cell'[p] \in {cell[p], " "}
  BY DEF Draw
<1>2. DOMAIN cell' = Cells
  BY DrawnOn
<1> QED BY <1>1, <1>2, ScreenForth

LEMMA AheadBack ==
  ASSUME NEW x \in Nat, NEW y \in Nat, NEW p \in Cells,
         \/ c_x = x + 1 /\ c_y = y
         \/ c_x = 0 /\ c_y = y + 1 /\ x = Cols - 2,
         p[2] > y \/ (p[2] = y /\ p[1] >= x)
  PROVE  (p[1] = x /\ p[2] = y) \/ Ahead(p)
<1>1. p[1] \in Nat /\ p[2] \in Nat /\ p[1] <= Cols - 2 /\ Cols \in Nat
  BY CellIs, ScreenAssumption
<1> QED BY <1>1 DEF Ahead

\* The cursor goes back by one cell, which is blanked after the cursor is erased.
LEMMA ScreenBack ==
  ASSUME ScreenInv, CursorTyped, NEW x \in Nat, NEW y \in Nat,
         \/ c_x = x + 1 /\ c_y = y
         \/ c_x = 0 /\ c_y = y + 1 /\ x = Cols - 2,
         cell' = Draw(Erased, x, y, " "), c_x' = x, c_y' = y
  PROVE  ScreenInv'
<1>1. \A p \in Cells : Erased[p] \in {cell[p], " "}
  BY DEF Erased, Draw
<1>2. \A p \in Cells : cell'[p] = IF p = <<x, y>> THEN " " ELSE Erased[p]
  BY DEF Draw
<1>3. ASSUME NEW p \in Cells, Ahead(p)' PROVE cell'[p] = " "
  <2>1. p[2] > y \/ (p[2] = y /\ p[1] >= x)
    BY <1>3 DEF Ahead
  <2>2. (p[1] = x /\ p[2] = y) \/ Ahead(p)
    BY <2>1, AheadBack
  <2>3. p[1] = x /\ p[2] = y => p = <<x, y>>
    BY CellIs
  <2> QED BY <1>1, <1>2, <2>2, <2>3 DEF ScreenInv
<1>4. DOMAIN cell' = Cells
  BY DrawnOn
<1> QED BY <1>3, <1>4 DEF ScreenInv

LEMMA ScreenPuts ==
  ASSUME ScreenInv, CursorTyped, NEW t \in Tasks, NEW how, NEW ch,
         \/ vesa_print_char(ch) \/ NewLine(t) \/ Backspace(t) \/ Character(t, how, ch)
  PROVE  ScreenInv'
<1>1. c_x \in Nat /\ c_y \in Nat /\ Cols \in Nat /\ Cols >= 2
  BY ScreenAssumption DEF CursorTyped
<1>2. CASE vesa_print_char(ch)
  <2>1. CASE ch = "nl"
    <3>1. c_x' = 0 /\ c_y' = c_y + 1 /\ cell' = cell
      BY <1>2, <2>1 DEF vesa_print_char
    <3>2. Forth
      BY <1>1, <3>1 DEF Forth
    <3> QED BY <3>1, <3>2, ScreenForth DEF ScreenInv
  <2>2. CASE ch # "nl" /\ c_x >= Cols - 1
    <3>1. c_x' = 0 + 1 /\ c_y' = c_y + 1 /\ cell' = Draw(cell, 0, c_y + 1, ch)
      BY <1>2, <2>2 DEF vesa_print_char
    <3> QED BY <1>1, <3>1, ScreenDraws
  <2>3. CASE ch # "nl" /\ ~ c_x >= Cols - 1
    <3>1. c_x' = c_x + 1 /\ c_y' = c_y /\ cell' = Draw(cell, c_x, c_y, ch)
      BY <1>2, <2>3 DEF vesa_print_char
    <3> QED BY <1>1, <3>1, ScreenDraws
  <2> QED BY <2>1, <2>2, <2>3
<1>3. CASE NewLine(t)
  <2>1. c_x' = 0 /\ c_y' = c_y + 1
    BY <1>3 DEF NewLine
  <2>2. Forth
    BY <1>1, <2>1 DEF Forth
  <2>3. cell' = Draw(cell, c_x, c_y, " ")
    BY <1>3 DEF NewLine, Erased
  <2> QED BY <2>2, <2>3, ScreenBlanks
<1>4. CASE Backspace(t)
  <2>1. CASE c_x >= 1
    <3>1. c_x' = c_x - 1 /\ c_y' = c_y /\ cell' = Draw(Erased, c_x - 1, c_y, " ")
      BY <1>4, <2>1 DEF Backspace
    <3>2. c_x - 1 \in Nat /\ c_x = (c_x - 1) + 1
      BY <1>1, <2>1
    <3> QED BY <1>1, <3>1, <3>2, ScreenBack
  <2>2. CASE ~ c_x >= 1 /\ c_y >= 1
    <3>1. c_x' = Cols - 2 /\ c_y' = c_y - 1 /\ cell' = Draw(Erased, Cols - 2, c_y - 1, " ")
      BY <1>4, <2>2 DEF Backspace
    <3>2. c_x = 0 /\ Cols - 2 \in Nat /\ c_y - 1 \in Nat /\ c_y = (c_y - 1) + 1
      BY <1>1, <2>2
    <3> QED BY <3>1, <3>2, ScreenBack
  <2>3. CASE ~ c_x >= 1 /\ ~ c_y >= 1
    <3>1. c_x' = c_x /\ c_y' = c_y
      BY <1>4, <2>3 DEF Backspace
    <3>2. Forth
      BY <1>1, <3>1 DEF Forth
    <3>3. cell' = Draw(cell, c_x, c_y, " ")
      BY <1>4, <2>3 DEF Backspace, Erased
    <3> QED BY <3>2, <3>3, ScreenBlanks
  <2> QED BY <2>1, <2>2, <2>3
<1>5. CASE Character(t, how, ch)
  <2>1. c_x' = c_x + 1 /\ c_y' = c_y /\ cell' = Draw(cell, c_x, c_y, ch)
    BY <1>5 DEF Character
  <2> QED BY <1>1, <2>1, ScreenDraws
<1> QED BY <1>2, <1>3, <1>4, <1>5

LEMMA ScreenBlank ==
  ASSUME cell' = Blank
  PROVE  ScreenInv'
BY DEF ScreenInv, Blank

LEMMA ScreenStarts == Init => ScreenInv
BY DEF Init, ScrInit, ScreenInv, Blank

LEMMA ScreenStep == ScreenInv /\ CursorInv /\ [Next]_vars => ScreenInv'
<1> SUFFICES ASSUME ScreenInv, CursorTyped, [Next]_vars PROVE ScreenInv'
  BY DEF CursorInv
<1>1. ASSUME NEW t \in Tasks, Prints(t) PROVE ScreenInv'
  BY <1>1, ScreenPuts DEF Prints
<1>2. ASSUME NEW t \in Tasks, Settles(t) PROVE ScreenInv'
  <2>1. CASE cell' = Blank
    BY <2>1, ScreenBlank
  <2>2. CASE c_x' = 0 /\ c_y' = c_y + 1 /\ cell' \in {cell, Draw(cell, 0, c_y + 1, " ")}
    <3>1. Forth
      <4>1. c_x' = 0 /\ c_y' = c_y + 1
        BY <2>2
      <4> QED BY <4>1 DEF Forth, CursorTyped
    <3> QED BY <2>2, <3>1, ScreenBlanks, ScreenForth DEF ScreenInv
  <2>3. CASE UNCHANGED <<c_x, c_y, cell>>
    BY <2>3 DEF ScreenInv, Ahead
  <2> QED BY <1>2, <2>1, <2>2, <2>3 DEF Settles, Settle
<1>3. CASE UNCHANGED <<c_x, c_y, cell>>
  BY <1>3 DEF ScreenInv, Ahead
<1>4. ASSUME NEW t \in Tasks, Accesses(t) PROVE ScreenInv'
  BY <1>3, <1>4 DEF Accesses, scrVars
<1>5. ASSUME NEW t \in Tasks, Does(t) PROVE ScreenInv'
  <2>1. CASE MoveDown
    <3>1. Forth /\ cell' = cell
      BY <2>1 DEF Forth, MoveDown, CursorTyped
    <3> QED BY <3>1, ScreenForth DEF ScreenInv
  <2>2. CASE vesa_clear
    BY <2>2, ScreenBlank DEF vesa_clear
  <2> QED BY <1>3, <1>5, <2>1, <2>2 DEF Does, scrVars
<1>6. CASE Resets
  BY <1>6, ScreenBlank DEF Resets, ScrReset
<1>7. CASE Poll \/ Execute \/ Again \/ Waits \/ Exits \/ Types \/ Drive \/ UNCHANGED vars
  BY <1>3, <1>7 DEF Poll, Execute, Again, Waits, Exits, Types, Drive, scrVars, vars
<1> QED BY <1>1, <1>2, <1>4, <1>5, <1>6, <1>7 DEF Next, Main, Player, Runs, Tasks

-----------------------------------------------------------------------------
(* The line on the screen                                                  *)

\* The places of the screen in one row, with the column that shows nothing.
Index(x, y) == y * Cols + x

LEMMA IndexIs ==
  ASSUME NEW x \in Nat, NEW y \in Nat
  PROVE  /\ Index(x, y) \in Nat
         /\ Index(x + 1, y) = Index(x, y) + 1
         /\ Index(0, y + 1) = Index(Cols, y)
         /\ x > 0 => Index(x - 1, y) = Index(x, y) - 1
<1>1. Cols \in Nat
  BY ScreenAssumption
<1>2. y * Cols \in Nat /\ (y + 1) * Cols = y * Cols + Cols
  BY <1>1
<1> QED BY <1>1, <1>2 DEF Index

\* Behind a place in the row is behind it on the screen.
LEMMA IndexOrder ==
  ASSUME NEW x \in Nat, NEW y \in Nat, NEW r \in Nat, NEW q \in Nat,
         x <= Cols, r < Cols, Index(x, y) <= Index(r, q)
  PROVE  q > y \/ (q = y /\ r >= x)
<1>1. Cols \in Nat /\ y * Cols \in Nat /\ q * Cols \in Nat
  BY ScreenAssumption
<1>2. y * Cols + x <= q * Cols + r
  BY DEF Index
<1>3. CASE q < y
  <2> DEFINE d == y - (q + 1)
  <2>1. d \in Nat /\ y = (q + 1) + d
    BY <1>3
  <2>2. d * Cols \in Nat /\ ((q + 1) + d) * Cols = q * Cols + Cols + d * Cols
    <3> HIDE DEF d
    <3> QED BY <1>1, <2>1
  <2>3. y * Cols = q * Cols + Cols + d * Cols
    <3> HIDE DEF d
    <3> QED BY <2>1, <2>2
  <2> DEFINE a == y * Cols
             b == q * Cols
             e == d * Cols
  <2>4. a \in Nat /\ b \in Nat /\ e \in Nat /\ a = b + Cols + e /\ a + x <= b + r
    BY <1>1, <1>2, <2>2, <2>3
  <2> HIDE DEF a, b, e, d
  <2> QED BY <1>1, <2>4
<1>4. CASE q = y
  <2> DEFINE a == y * Cols
  <2>1. a \in Nat /\ a + x <= a + r
    BY <1>1, <1>2, <1>4
  <2> HIDE DEF a
  <2> QED BY <1>4, <2>1
<1> QED BY <1>3, <1>4

LEMMA IndexOne ==
  ASSUME NEW x \in Nat, NEW y \in Nat, NEW p \in Cells, x < Cols,
         Index(p[1], p[2]) = Index(x, y)
  PROVE  p = <<x, y>>
<1>1. p[1] \in Nat /\ p[2] \in Nat /\ p[1] < Cols /\ Cols \in Nat
  BY CellIs, ScreenAssumption
<1>2. Index(x, y) \in Nat /\ Index(p[1], p[2]) \in Nat
  BY <1>1, IndexIs
<1>3. p[2] > y \/ (p[2] = y /\ p[1] >= x)
  BY <1>1, <1>2, IndexOrder
<1>4. y > p[2] \/ (y = p[2] /\ x >= p[1])
  BY <1>1, <1>2, IndexOrder
<1>5. p[1] = x /\ p[2] = y
  BY <1>1, <1>3, <1>4
<1> QED BY <1>5, CellIs

Pos == Index(c_x, c_y)

\* The first n characters of the line stand on the screen.
Shown(n) ==
  \A p \in Cells : LET i == Index(p[1], p[2]) - mark + 1 IN
                   i \in 1 .. n => cell[p] = cmd_buf[i]

\* Where its beginning is known and the shell is at the line, all of the line is
\* shown and the cursor behind it; but the last column shows nothing until klog has
\* looked at it, and a character, or a backspace, has still to be printed.
Resting(n) ==
  /\ prog["main"] = << >> /\ due["main"] \in {"no", "page"} /\ c_x < Cols
  /\ Pos = mark + n /\ Shown(n)

AtEdge(n) ==
  /\ prog["main"] = << >> /\ due["main"] = "klog" /\ c_x <= Cols
  /\ Pos = mark + n /\ Shown(n)

Adding(n) ==
  /\ n > 0 /\ cmd_buf[n] \notin {"nl", "bs"} /\ prog["main"] = Text("klog", <<cmd_buf[n]>>)
  /\ due["main"] = "no" /\ c_x < Cols
  /\ Pos = mark + n - 1 /\ Shown(n - 1)

Deleting(n) ==
  /\ prog["main"] = Text("klog", <<"bs">>) /\ due["main"] = "no" /\ c_x < Cols
  /\ Pos = mark + n + 1 /\ Shown(n)

AtLine ==
  LET n == Len(cmd_buf) IN Resting(n) \/ AtEdge(n) \/ Adding(n) \/ Deleting(n)

LineInv ==
  /\ mark \in Int
  /\ pc \in {"boot", "prompt"} => cmd_buf = << >>
  /\ pc = "poll" /\ mark # Lost => AtLine

LEMMA TextOne ==
  \A how, ch : LET s == Text(how, <<ch>>) IN
    /\ s # << >> /\ Tail(s) = << >>
    /\ Head(s).op = "put" /\ Head(s).how = how /\ Head(s).ch = ch
<1> SUFFICES ASSUME NEW how, NEW ch
             PROVE  LET s == Text(how, <<ch>>) IN
                    /\ s # << >> /\ Tail(s) = << >>
                    /\ Head(s).op = "put" /\ Head(s).how = how /\ Head(s).ch = ch
  OBVIOUS
<1> DEFINE i == [op |-> "put", how |-> how, ch |-> ch]
<1>1. Text(how, <<ch>>) = <<i>>
  BY DEF Text
<1>2. i.op = "put" /\ i.how = how /\ i.ch = ch
  OBVIOUS
<1> HIDE DEF i
<1>3. <<i>> # << >> /\ Tail(<<i>>) = << >> /\ Head(<<i>>) = i
  OBVIOUS
<1> QED BY <1>1, <1>2, <1>3

\* A cell is drawn that does not belong to the first n characters.
LEMMA ShownStays ==
  ASSUME NEW n \in Nat, Shown(n), UNCHANGED <<mark, cmd_buf>>, mark \in Int,
         \A p \in Cells : Index(p[1], p[2]) < mark + n => cell'[p] = cell[p]
  PROVE  Shown(n)'
<1> SUFFICES ASSUME NEW p \in Cells, Index(p[1], p[2]) - mark + 1 \in 1 .. n
             PROVE  cell'[p] = cmd_buf[Index(p[1], p[2]) - mark + 1]
  BY DEF Shown
<1>1. Index(p[1], p[2]) \in Nat
  BY CellIs, IndexIs
<1>2. Index(p[1], p[2]) < mark + n
  <2> DEFINE k == Index(p[1], p[2])
  <2>1. k \in Nat /\ k - mark + 1 \in 1 .. n
    BY <1>1
  <2> HIDE DEF k
  <2>2. k < mark + n
    BY <2>1
  <2> QED BY <2>2 DEF k
<1> QED BY <1>2 DEF Shown

\* What has a smaller index is elsewhere.
LEMMA Elsewhere ==
  ASSUME NEW x \in Nat, NEW y \in Nat, NEW p \in Cells, Index(p[1], p[2]) < Index(x, y)
  PROVE  p # <<x, y>>
<1>1. Index(x, y) \in Nat
  BY IndexIs
<1> SUFFICES ASSUME p = <<x, y>> PROVE FALSE
  OBVIOUS
<1>2. p[1] = x /\ p[2] = y
  OBVIOUS
<1>3. Index(x, y) < Index(x, y)
  BY <1>2
<1> QED BY <1>1, <1>3

\* The character typed last is drawn.
LEMMA LineDraws ==
  ASSUME CursorTyped, mark \in Int, NEW n \in Nat, n > 0, cmd_buf[n] \notin {"nl", "bs"},
         c_x < Cols, Pos = mark + n - 1, Shown(n - 1),
         Character("main", "klog", cmd_buf[n]), UNCHANGED <<mark, cmd_buf>>
  PROVE  c_x' <= Cols /\ Pos' = mark' + n /\ Shown(n)'
<1>1. c_x' = c_x + 1 /\ c_y' = c_y /\ c_x \in Nat /\ c_y \in Nat /\ Cols \in Nat
  BY ScreenAssumption DEF Character, CursorTyped
<1>2. cell' = Draw(cell, c_x, c_y, cmd_buf[n])
  BY DEF Character
<1>3. Pos \in Nat /\ Pos' = Pos + 1
  BY <1>1, IndexIs DEF Pos
<1>4. Pos' = mark' + n
  BY <1>3
<1>5. ASSUME NEW p \in Cells, Index(p[1], p[2]) - mark + 1 \in 1 .. n
      PROVE  cell'[p] = cmd_buf[Index(p[1], p[2]) - mark + 1]
  <2> DEFINE k == Index(p[1], p[2])
  <2>1. k \in Nat /\ k - mark + 1 \in 1 .. n
    BY <1>5, CellIs, IndexIs
  <2>2. CASE k = Pos
    <3>1. p = <<c_x, c_y>>
      BY <1>1, <2>2, IndexOne DEF Pos
    <3>2. k - mark + 1 = n
      <4> HIDE DEF k
      <4> QED BY <1>3, <2>2
    <3>3. cell'[p] = cmd_buf[n]
      BY <1>2, <3>1 DEF Draw
    <3> QED BY <3>2, <3>3
  <2>3. CASE k # Pos
    <3>1. k - mark + 1 \in 1 .. n - 1 /\ k < Pos
      <4> HIDE DEF k
      <4> QED BY <1>3, <2>1, <2>3
    <3>2. cell'[p] = cell[p]
      <4>1. p # <<c_x, c_y>>
        BY <1>1, <3>1, Elsewhere DEF Pos
      <4> QED BY <1>2, <4>1 DEF Draw
    <3>3. cell[p] = cmd_buf[k - mark + 1]
      BY <3>1 DEF Shown
    <3> QED BY <3>2, <3>3
  <2> QED BY <2>2, <2>3
<1>6. Shown(n)'
  BY <1>5 DEF Shown
<1>7. c_x' <= Cols
  BY <1>1
<1> QED BY <1>4, <1>6, <1>7

\* The character deleted last is blanked, in the same row.
LEMMA LineDeletes ==
  ASSUME CursorTyped, mark \in Int, NEW n \in Nat, c_x < Cols, c_x # 0,
         Pos = mark + n + 1, Shown(n), Backspace("main"), UNCHANGED <<mark, cmd_buf>>
  PROVE  c_x' < Cols /\ Pos' = mark' + n /\ Shown(n)'
<1>1. c_x \in Nat /\ c_y \in Nat /\ Cols \in Nat /\ c_x >= 1 /\ c_x - 1 \in Nat
  BY ScreenAssumption DEF CursorTyped
<1>2. c_x' = c_x - 1 /\ c_y' = c_y
  BY <1>1 DEF Backspace
<1>3. cell' = Draw(Draw(cell, c_x, c_y, " "), c_x - 1, c_y, " ")
  BY <1>1 DEF Backspace, Erased
<1>4. Pos \in Nat /\ Index(c_x - 1, c_y) = Pos - 1 /\ Pos' = Pos - 1
  BY <1>1, <1>2, IndexIs DEF Pos
<1>5. Pos' = mark' + n
  BY <1>4
<1>6. ASSUME NEW p \in Cells, Index(p[1], p[2]) < mark + n PROVE cell'[p] = cell[p]
  <2> DEFINE k == Index(p[1], p[2])
             l == Index(c_x - 1, c_y)
  <2>1. k \in Nat
    BY CellIs, IndexIs
  <2>2. k < l /\ k < Pos
    <3>1. k < mark + n /\ l = Pos - 1
      BY <1>4, <1>6
    <3> HIDE DEF k, l
    <3> QED BY <1>4, <2>1, <3>1
  <2>3. p # <<c_x, c_y>>
    BY <1>1, <2>2, Elsewhere DEF Pos
  <2>4. p # <<c_x - 1, c_y>>
    BY <1>1, <2>2, Elsewhere
  <2> QED BY <1>3, <2>3, <2>4 DEF Draw
<1>7. Shown(n)'
  BY <1>6, ShownStays
<1>8. c_x' < Cols
  BY <1>1, <1>2
<1> QED BY <1>5, <1>7, <1>8

\* klog has looked at the edge, and the page was not full.
LEMMA LineSettles ==
  ASSUME CursorTyped, mark \in Int, NEW n \in Nat,
         (due["main"] = "klog" /\ c_x <= Cols) \/ (due["main"] = "page" /\ c_x < Cols),
         Pos = mark + n, Shown(n), Settle("main"), ~Pages("main"), UNCHANGED <<mark, cmd_buf>>
  PROVE  c_x' < Cols /\ Pos' = mark' + n /\ Shown(n)'
<1>1. c_x \in Nat /\ c_y \in Nat /\ Cols \in Nat /\ Cols >= 2
  BY ScreenAssumption DEF CursorTyped
<1>2. CASE Wraps("main")
  <2>1. due["main"] = "klog" /\ c_x = Cols
    BY <1>1, <1>2 DEF Wraps
  <2>2. c_x' = 0 /\ c_y' = c_y + 1
    BY <1>2 DEF Settle
  <2>3. cell' = Draw(cell, 0, c_y + 1, " ")
    BY <1>2, <2>1 DEF Settle
  <2>4. Pos \in Nat /\ Index(0, c_y + 1) = Pos /\ Pos' = Pos
    BY <1>1, <2>1, <2>2, IndexIs DEF Pos
  <2>5. ASSUME NEW p \in Cells, Index(p[1], p[2]) < mark + n PROVE cell'[p] = cell[p]
    <3>1. Index(p[1], p[2]) < Index(0, c_y + 1)
      BY <2>4, <2>5
    <3>2. 0 \in Nat /\ c_y + 1 \in Nat
      BY <1>1
    <3>3. p # <<0, c_y + 1>>
      BY <3>1, <3>2, Elsewhere
    <3> QED BY <2>3, <3>3 DEF Draw
  <2>6. Shown(n)'
    BY <2>5, ShownStays
  <2> QED BY <1>1, <2>2, <2>4, <2>6
<1>3. CASE ~Wraps("main")
  <2>1. UNCHANGED <<c_x, c_y, cell>>
    BY <1>3 DEF Settle
  <2>2. c_x < Cols
    BY <1>1, <1>3 DEF Wraps
  <2> QED BY <2>1, <2>2 DEF Pos, Shown
<1> QED BY <1>2, <1>3

LEMMA LineSame ==
  ASSUME LineInv, UNCHANGED <<pc, cmd_buf, c_x, c_y, cell, mark>>,
         prog'["main"] = prog["main"], due'["main"] = due["main"]
  PROVE  LineInv'
BY DEF LineInv, AtLine, Resting, AtEdge, Adding, Deleting, Pos, Shown

\* The place of the line is lost, or the shell is elsewhere.
LEMMA LineElse ==
  ASSUME LineInv, mark' \in Int, mark' = Lost \/ pc' # "poll",
         pc' \in {"boot", "prompt"} => cmd_buf' = << >>
  PROVE  LineInv'
BY DEF LineInv

LEMMA LinePrints ==
  ASSUME LineInv, Shape, CursorTyped, Prints("main")
  PROVE  LineInv'
<1>1. /\ UNCHANGED <<pc, cmd_buf>> /\ prog["main"] # << >> /\ due["main"] = "no" /\ Done("main")
      /\ mark' = IF This("main").ch = "bs" /\ c_x = 0 THEN Lost ELSE mark
      /\ mark \in Int /\ Lost \in Int /\ mark' \in Int
      /\ pc' \in {"boot", "prompt"} => cmd_buf' = << >>
  BY DEF Prints, Ready, LineInv, Lost
<1>2. CASE pc # "poll" \/ mark' = Lost
  BY <1>1, <1>2, LineElse
<1>3. CASE pc = "poll" /\ mark' # Lost
  <2>1. mark' = mark /\ AtLine
    BY <1>1, <1>3 DEF LineInv
  <2> DEFINE n == Len(cmd_buf)
             i == This("main")
  <2>2. n \in Nat /\ n' = n
    BY <1>1 DEF Shape
  <2>3. prog'["main"] = Tail(prog["main"])
    BY <1>1 DEF Done, Shape, Tasks
  <2>4. CASE Adding(n)
    <3>1. i.how = "klog" /\ i.ch = cmd_buf[n] /\ prog'["main"] = << >>
      <4> DEFINE c == cmd_buf[n]
      <4>1. prog["main"] = Text("klog", <<c>>)
        BY <2>4 DEF Adding
      <4> HIDE DEF c
      <4>2. i.how = "klog" /\ i.ch = c /\ prog'["main"] = << >>
        BY <2>3, <4>1, TextOne DEF This
      <4> QED BY <4>2 DEF c
    <3>2. Character("main", "klog", cmd_buf[n])
      <4>1. cmd_buf[n] \notin {"nl", "bs"}
        BY <2>4 DEF Adding
      <4> QED BY <3>1, <4>1 DEF Prints
    <3>3. c_x' <= Cols /\ Pos' = mark' + n /\ Shown(n)'
      <4>1. /\ n > 0 /\ cmd_buf[n] \notin {"nl", "bs"} /\ c_x < Cols
            /\ Pos = mark + n - 1 /\ Shown(n - 1)
        BY <2>4 DEF Adding
      <4> HIDE DEF n
      <4> QED BY <1>1, <2>1, <2>2, <3>2, <4>1, LineDraws
    <3>4. due'["main"] = "klog"
      BY <3>2 DEF Character, CursorTyped, Tasks
    <3>5. AtLine'
      BY <2>2, <3>1, <3>3, <3>4 DEF AtLine, AtEdge
    <3> QED BY <1>1, <3>5 DEF LineInv
  <2>5. CASE Deleting(n)
    <3>1. i.how = "klog" /\ i.ch = "bs" /\ prog'["main"] = << >>
      <4>1. prog["main"] = Text("klog", <<"bs">>)
        BY <2>5 DEF Deleting
      <4> QED BY <2>3, <4>1, TextOne DEF This
    <3>2. Backspace("main") /\ c_x # 0
      BY <1>1, <1>3, <3>1 DEF Prints
    <3>3. c_x' < Cols /\ Pos' = mark' + n /\ Shown(n)'
      <4>1. c_x < Cols /\ Pos = mark + n + 1 /\ Shown(n)
        BY <2>5 DEF Deleting
      <4> HIDE DEF n
      <4> QED BY <1>1, <2>1, <2>2, <3>2, <4>1, LineDeletes
    <3>4. due'["main"] = "page"
      BY <3>2 DEF Backspace, CursorTyped, Tasks
    <3>5. AtLine'
      BY <2>2, <3>1, <3>3, <3>4 DEF AtLine, Resting
    <3> QED BY <1>1, <3>5 DEF LineInv
  <2> QED BY <1>1, <2>1, <2>4, <2>5 DEF AtLine, Resting, AtEdge
<1> QED BY <1>2, <1>3

LEMMA LineSettle ==
  ASSUME LineInv, Shape, CursorTyped, Settles("main")
  PROVE  LineInv'
<1>1. /\ UNCHANGED <<pc, cmd_buf, prog>> /\ Settle("main")
      /\ mark' = IF Pages("main") THEN Lost ELSE mark
  BY DEF Settles
<1>2. mark \in Int /\ Lost \in Int /\ mark' \in Int
  BY <1>1 DEF LineInv, Lost
<1>3. due["main"] # "no" /\ (pc' \in {"boot", "prompt"} => cmd_buf' = << >>)
  BY <1>1 DEF Settle, LineInv
<1>4. CASE pc # "poll" \/ mark' = Lost
  BY <1>1, <1>2, <1>3, <1>4, LineElse
<1>5. CASE pc = "poll" /\ mark' # Lost
  <2> DEFINE n == Len(cmd_buf)
  <2>1. mark' = mark /\ ~Pages("main") /\ n \in Nat /\ n' = n
    BY <1>1, <1>5 DEF Shape
  <2>2. Resting(n) \/ AtEdge(n)
    BY <1>3, <1>5, <2>1 DEF LineInv, AtLine, Adding, Deleting
  <2>3. /\ prog["main"] = << >> /\ Pos = mark + n /\ Shown(n)
        /\ (due["main"] = "klog" /\ c_x <= Cols) \/ (due["main"] = "page" /\ c_x < Cols)
    <3>1. CASE Resting(n)
      <4>1. due["main"] = "page"
        BY <1>3, <3>1 DEF Resting
      <4> QED BY <3>1, <4>1 DEF Resting
    <3>2. CASE AtEdge(n)
      BY <3>2 DEF AtEdge
    <3> QED BY <2>2, <3>1, <3>2
  <2>4. c_x' < Cols /\ Pos' = mark' + n /\ Shown(n)'
    <3> HIDE DEF n
    <3> QED BY <1>1, <1>2, <2>1, <2>3, LineSettles
  <2>5. due'["main"] = "no" /\ prog'["main"] = << >>
    BY <1>1, <2>3 DEF Settle, CursorTyped, Tasks
  <2>6. AtLine'
    BY <2>1, <2>4, <2>5 DEF AtLine, Resting
  <2> QED BY <1>1, <1>2, <1>3, <2>6 DEF LineInv
<1> QED BY <1>4, <1>5

LEMMA LinePoll ==
  ASSUME LineInv, Shape, Keyed, CursorTyped, Poll
  PROVE  LineInv'
<1> DEFINE c == Decoded(Head(codes))
<1>1. PICK n \in Nat : n = Len(cmd_buf)
  BY DEF Shape
<1>2. /\ pc = "poll" /\ prog["main"] = << >> /\ due["main"] = "no" /\ terminal_key(c)
      /\ UNCHANGED <<c_x, c_y, cell, due, mark>> /\ mark \in Int
  BY DEF Poll, Free, scrVars, LineInv
<1>3. ASSUME NEW p, Starts(p) PROVE prog'["main"] = p
  BY <1>3 DEF Starts, Shape, Tasks
<1>4. ASSUME mark # Lost PROVE c_x < Cols /\ Pos = mark + n /\ Shown(n)
  <2>1. Resting(n) \/ AtEdge(n) \/ Adding(n) \/ Deleting(n)
    BY <1>1, <1>2, <1>4 DEF LineInv, AtLine
  <2>2. ~AtEdge(n)
    BY <1>2 DEF AtEdge
  <2>3. ~Adding(n)
    <3> DEFINE d == cmd_buf[n]
    <3>1. Adding(n) => prog["main"] = Text("klog", <<d>>)
      BY DEF Adding
    <3> HIDE DEF d
    <3> QED BY <1>2, <3>1, TextOne
  <2>4. ~Deleting(n)
    BY <1>2, TextOne DEF Deleting
  <2> QED BY <2>1, <2>2, <2>3, <2>4 DEF Resting
<1>5. Pos' = Pos /\ (mark # Lost => c_x' < Cols /\ due'["main"] = "no")
  BY <1>2, <1>4 DEF Pos
<1> HIDE DEF c
<1>6. CASE Enters(c)
  BY <1>2, <1>6, LineElse DEF Enters
<1>7. CASE Deletes(c)
  <2>1. /\ pc' = pc /\ cmd_buf # << >> /\ cmd_buf' = Front(cmd_buf)
        /\ prog'["main"] = Text("klog", <<"bs">>)
    BY <1>3, <1>7 DEF Deletes
  <2>2. n > 0 /\ Len(cmd_buf') = n - 1 /\ \A i \in 1 .. n - 1 : cmd_buf'[i] = cmd_buf[i]
    BY <1>1, <2>1 DEF Shape, Front
  <2>3. ASSUME mark # Lost PROVE AtLine'
    <3>1. Pos' = mark' + (n - 1) + 1
      BY <1>2, <1>4, <1>5, <2>3
    <3>2. ASSUME NEW p \in Cells, Index(p[1], p[2]) - mark + 1 \in 1 .. n - 1
          PROVE  cell[p] = cmd_buf'[Index(p[1], p[2]) - mark + 1]
      <4> DEFINE k == Index(p[1], p[2]) - mark + 1
      <4>1. k \in 1 .. n - 1
        BY <3>2
      <4> HIDE DEF k
      <4>2. k \in 1 .. n
        BY <4>1
      <4>3. cell[p] = cmd_buf[k]
        BY <1>4, <2>3, <4>2 DEF Shown, k
      <4> QED BY <2>2, <4>1, <4>3 DEF k
    <3>3. Shown(n - 1)'
      BY <1>2, <3>2 DEF Shown
    <3>4. Deleting(n - 1)'
      BY <1>5, <2>1, <2>3, <3>1, <3>3 DEF Deleting
    <3> QED BY <2>2, <3>4 DEF AtLine
  <2> QED BY <1>2, <2>1, <2>3 DEF LineInv
<1>8. CASE Adds(c)
  <2>1. /\ c \notin {"nl", "bs", NoChar} /\ pc' = pc /\ cmd_buf' = Append(cmd_buf, c)
        /\ prog'["main"] = Text("klog", <<c>>)
    BY <1>3, <1>8 DEF Adds
  <2>2. c \in Chars
    BY <2>1, DecodedTyped DEF c, Poll
  <2>3. Len(cmd_buf') = n + 1 /\ cmd_buf'[n + 1] = c /\ \A i \in 1 .. n : cmd_buf'[i] = cmd_buf[i]
    BY <1>1, <2>1, <2>2 DEF Shape
  <2>4. ASSUME mark # Lost PROVE AtLine'
    <3>1. Pos' = mark' + (n + 1) - 1
      BY <1>2, <1>4, <1>5, <2>4
    <3>2. ASSUME NEW p \in Cells, Index(p[1], p[2]) - mark + 1 \in 1 .. n
          PROVE  cell[p] = cmd_buf'[Index(p[1], p[2]) - mark + 1]
      BY <1>4, <2>3, <2>4, <3>2 DEF Shown
    <3>3. Shown(n)'
      BY <1>2, <3>2 DEF Shown
    <3>4. (n + 1) - 1 = n /\ n + 1 > 0
      OBVIOUS
    <3>5. Adding(n + 1)'
      <4>1. Shown((n + 1) - 1)'
        BY <3>3, <3>4
      <4>2. cmd_buf'[n + 1] \notin {"nl", "bs"} /\ prog'["main"] = Text("klog", <<cmd_buf'[n + 1]>>)
        BY <2>1, <2>3
      <4> QED BY <1>5, <2>4, <3>1, <3>4, <4>1, <4>2 DEF Adding
    <3> QED BY <2>3, <3>5 DEF AtLine
  <2> QED BY <1>2, <2>1, <2>4 DEF LineInv
<1>9. CASE Ignores(c)
  BY <1>2, <1>9, LineSame DEF Ignores
<1> QED BY <1>2, <1>6, <1>7, <1>8, <1>9 DEF terminal_key

LEMMA LineStep ==
  LineInv /\ Shape /\ Keyed /\ CursorInv /\ [Next]_vars => LineInv'
<1> SUFFICES ASSUME LineInv, Shape, Keyed, CursorTyped, [Next]_vars PROVE LineInv'
  BY DEF CursorInv
<1>1. mark \in Int /\ Lost \in Int /\ (pc \in {"boot", "prompt"} => cmd_buf = << >>)
  BY DEF LineInv, Lost
<1>2. CASE Runs("main")
  <2>1. CASE Accesses("main") \/ Does("main")
    <3>1. UNCHANGED <<pc, cmd_buf>> /\ pc # "halted" /\ mark' \in {mark, Lost}
          /\ prog["main"] # << >> /\ due["main"] = "no" /\ This("main").op # "put"
      BY <2>1 DEF Accesses, Does, Ready
    <3>2. CASE pc # "poll" \/ mark' = Lost
      BY <1>1, <3>1, <3>2, LineElse
    <3>3. CASE pc = "poll" /\ mark' # Lost
      <4>1. AtLine
        BY <3>1, <3>3 DEF LineInv
      <4>2. \E ch : prog["main"] = Text("klog", <<ch>>)
        BY <3>1, <4>1 DEF AtLine, Resting, AtEdge, Adding, Deleting
      <4>3. This("main").op = "put"
        BY <4>2, TextOne DEF This
      <4> QED BY <3>1, <4>3
    <3> QED BY <3>2, <3>3
  <2> QED BY <1>2, <2>1, LinePrints, LineSettle DEF Runs
<1>3. CASE Runs("player")
  <2>1. CASE Prints("player") \/ Settles("player")
    <3>1. mark' = Lost /\ UNCHANGED <<pc, cmd_buf>>
      BY <2>1 DEF Prints, Settles
    <3> QED BY <1>1, <3>1, LineElse
  <2>2. CASE Accesses("player")
    <3>1. UNCHANGED <<scrVars, pc, cmd_buf, mark>> /\ prog'["main"] = prog["main"]
      BY <2>2 DEF Accesses, Done, Shape, Tasks
    <3> QED BY <3>1, LineSame DEF scrVars
  <2>3. CASE Does("player")
    <3>1. prog["player"] # << >> /\ This("player") \in Plain
      <4>1. prog["player"] # << >> /\ "player" \in Tasks /\ prog["player"] \in Seq(Plain)
        BY <2>3 DEF Does, Ready, Shape, Tasks
      <4> QED BY <4>1, ThisTyped
    <3>2. This("player").op \notin {"down", "drive", "clear"}
      BY <3>1 DEF Plain
    <3>3. UNCHANGED <<scrVars, pc, cmd_buf, mark>> /\ prog'["main"] = prog["main"]
      BY <2>3, <3>2 DEF Does, Done, Shape, Tasks
    <3> QED BY <3>3, LineSame DEF scrVars
  <2> QED BY <1>3, <2>1, <2>2, <2>3 DEF Runs
<1>4. CASE Resets
  BY <1>1, <1>4, LineElse DEF Resets
<1>5. CASE Poll
  BY <1>5, LinePoll
<1>6. CASE Execute
  <2>1. pc' \in {"again", "halted"} /\ mark' = mark
    BY <1>6 DEF Execute
  <2> QED BY <1>1, <2>1, LineElse
<1>7. CASE Again
  <2>1. pc' = "prompt" /\ mark' = mark /\ cmd_buf' = << >>
    BY <1>7 DEF Again
  <2> QED BY <1>1, <2>1, LineElse
<1>8. CASE Waits
  <2>1. /\ pc \in {"boot", "prompt"} /\ pc' = "poll" /\ prog["main"] = << >> /\ due["main"] = "no"
        /\ UNCHANGED <<c_x, c_y, cell, due, cmd_buf, prog>>
        /\ mark' = IF c_x < Cols THEN Pos ELSE Lost
    BY <1>8 DEF Waits, Free, scrVars, Pos, Index
  <2>2. cmd_buf' = << >> /\ Len(cmd_buf') = 0
    BY <1>1, <2>1
  <2>3. Pos \in Nat /\ Pos' = Pos /\ mark' \in Int
    <3>1. Pos \in Nat
      BY IndexIs DEF Pos, CursorTyped
    <3>2. Pos' = Pos
      BY <2>1 DEF Pos
    <3> QED BY <1>1, <2>1, <3>1, <3>2
  <2>4. ASSUME mark' # Lost PROVE AtLine'
    <3>1. c_x' < Cols /\ Pos' = mark' + 0
      BY <2>1, <2>3, <2>4
    <3>2. Shown(0)'
      BY DEF Shown
    <3>3. prog'["main"] = << >> /\ due'["main"] = "no"
      BY <2>1
    <3> QED BY <2>2, <3>1, <3>2, <3>3 DEF AtLine, Resting
  <2> QED BY <2>1, <2>3, <2>4 DEF LineInv
<1>9. CASE Exits
  BY <1>1, <1>9, LineElse DEF Exits
<1>10. CASE Types \/ Drive \/ UNCHANGED vars
  BY <1>10, LineSame DEF Types, Drive, vars, shellVars, scrVars
<1> QED BY <1>2, <1>3, <1>4, <1>5, <1>6, <1>7, <1>8, <1>9, <1>10 DEF Next, Main, Player

LEMMA LineStarts == Init => LineInv
BY DEF Init, ShellInit, LineInv, Lost

\* Behind the prompt stands the line that Enter will run, and nothing else: typed
\* or deleted, over the edge into the next row, whatever the player printed before
\* the prompt (klog and terminal_key).
THEOREM LineShown == Spec => []LineOnScreen
<1>1. LineInv /\ ScreenInv /\ CursorInv /\ Shape => LineOnScreen
  <2> SUFFICES ASSUME LineInv, ScreenInv, CursorTyped, Shape, Idle, mark # Lost
               PROVE  /\ c_y * Cols + c_x = mark + Len(cmd_buf)
                      /\ \A p \in Cells :
                           LET i == p[2] * Cols + p[1] - mark + 1 IN
                           /\ i \in 1 .. Len(cmd_buf) => cell[p] = cmd_buf[i]
                           /\ i > Len(cmd_buf) => cell[p] = " "
    BY DEF LineOnScreen, CursorInv
  <2> DEFINE n == Len(cmd_buf)
  <2>1. mark \in Int /\ n \in Nat /\ c_x < Cols /\ Pos = mark + n /\ Shown(n)
    <3>1. pc = "poll" /\ prog["main"] = << >> /\ due["main"] = "no"
      BY DEF Idle
    <3>2. mark \in Int /\ n \in Nat /\ (Resting(n) \/ AtEdge(n) \/ Adding(n) \/ Deleting(n))
      BY <3>1 DEF LineInv, AtLine, Shape
    <3>3. ~AtEdge(n)
      BY <3>1 DEF AtEdge
    <3>4. ~Adding(n)
      <4> DEFINE d == cmd_buf[n]
      <4>1. Adding(n) => prog["main"] = Text("klog", <<d>>)
        BY DEF Adding
      <4> HIDE DEF d
      <4> QED BY <3>1, <4>1, TextOne
    <3>5. ~Deleting(n)
      BY <3>1, TextOne DEF Deleting
    <3> QED BY <3>2, <3>3, <3>4, <3>5 DEF Resting
  <2>2. ASSUME NEW p \in Cells, Index(p[1], p[2]) - mark + 1 > n PROVE cell[p] = " "
    <3>1. /\ p[1] \in Nat /\ p[2] \in Nat /\ p[1] < Cols /\ c_x \in Nat /\ c_y \in Nat
          /\ Cols \in Nat /\ Index(p[1], p[2]) \in Nat /\ Pos \in Nat
      BY CellIs, IndexIs, ScreenAssumption DEF CursorTyped, Pos
    <3>2. Pos <= Index(p[1], p[2])
      <4> DEFINE k == Index(p[1], p[2])
      <4>1. k \in Nat /\ k - mark + 1 > n
        BY <2>2, <3>1
      <4> HIDE DEF k, n
      <4>2. Pos <= k
        BY <2>1, <4>1
      <4> QED BY <4>2 DEF k
    <3>3. Ahead(p)
      BY <2>1, <3>1, <3>2, IndexOrder DEF Pos, Ahead
    <3> QED BY <3>3 DEF ScreenInv
  <2>3. c_y * Cols + c_x = mark + n
    BY <2>1 DEF Pos, Index
  <2>4. \A p \in Cells : Index(p[1], p[2]) - mark + 1 \in 1 .. n
                            => cell[p] = cmd_buf[Index(p[1], p[2]) - mark + 1]
    BY <2>1 DEF Shown
  <2>5. ASSUME NEW p \in Cells
        PROVE  LET i == p[2] * Cols + p[1] - mark + 1 IN
               /\ i \in 1 .. n => cell[p] = cmd_buf[i]
               /\ i > n => cell[p] = " "
    <3> DEFINE i == p[2] * Cols + p[1] - mark + 1
    <3>1. p[2] * Cols \in Nat /\ p[1] \in Nat /\ mark \in Int
      BY <2>1, CellIs, ScreenAssumption
    <3>2. Index(p[1], p[2]) - mark + 1 = i
      BY <3>1 DEF Index
    <3> HIDE DEF i, n
    <3>3. i \in 1 .. n => cell[p] = cmd_buf[i]
      BY <2>4, <3>2
    <3>4. i > n => cell[p] = " "
      BY <2>2, <3>2
    <3> QED BY <3>3, <3>4 DEF i
  <2> QED BY <2>3, <2>5
<1> QED BY <1>1, ScreenStarts, LineStarts, CursorInit, ScreenStep, LineStep, CursorStep, TypesHold, PTL
        DEF Spec

-----------------------------------------------------------------------------
(* The words of a line and the notes made of them                          *)

LEMMA LineFinite ==
  ASSUME NEW s \in Seq(Chars)
  PROVE  IsFiniteSet(DOMAIN s) /\ Cardinality(DOMAIN s) = Len(s)
<1>1. DOMAIN s = 1 .. Len(s) /\ Len(s) \in Nat
  OBVIOUS
<1>2. IsFiniteSet(1 .. Len(s)) /\ Cardinality(1 .. Len(s)) = IF 1 > Len(s) THEN 0 ELSE Len(s) - 1 + 1
  BY <1>1, FS_Interval
<1>3. Cardinality(1 .. Len(s)) = Len(s)
  BY <1>1, <1>2
<1> QED BY <1>1, <1>2, <1>3

LEMMA BegunTyped ==
  ASSUME NEW s \in Seq(Chars)
  PROVE  /\ Cardinality(Beginnings(s)) \in Nat
         /\ \A i : Begun(s, i) \in Nat
<1>1. Beginnings(s) \in SUBSET DOMAIN s
  BY DEF Beginnings
<1>2. IsFiniteSet(Beginnings(s))
  BY <1>1, LineFinite, FS_Subset
<1>3. ASSUME NEW i PROVE Begun(s, i) \in Nat
  <2>1. {j \in Beginnings(s) : j <= i} \in SUBSET Beginnings(s)
    OBVIOUS
  <2>2. IsFiniteSet({j \in Beginnings(s) : j <= i})
    BY <1>2, <2>1, FS_Subset
  <2> QED BY <2>2, FS_CardinalityType DEF Begun
<1> QED BY <1>2, <1>3, FS_CardinalityType

LEMMA WordTyped ==
  ASSUME NEW s \in Seq(Chars), NEW k \in Nat
  PROVE  WordAt(s, k) \in Seq(Chars)
<1> DEFINE A == {i \in DOMAIN s : Begun(s, i) < k}
           B == {i \in DOMAIN s : Begun(s, i) = k /\ s[i] # " "}
           before == Cardinality(A)
           size == Cardinality(B)
<1>1. A \cap B = {}
  <2> SUFFICES ASSUME NEW i \in A, i \in B PROVE FALSE
    OBVIOUS
  <2>1. PICK n \in Nat : n = Begun(s, i)
    BY BegunTyped
  <2>2. n \in Nat /\ n < k /\ n = k
    BY <2>1
  <2> HIDE DEF A, B
  <2> QED BY <2>2
<1>2. A \in SUBSET DOMAIN s /\ B \in SUBSET DOMAIN s /\ A \cup B \in SUBSET DOMAIN s
  OBVIOUS
<1> HIDE DEF A, B
<1>3. IsFiniteSet(A) /\ IsFiniteSet(B) /\ Cardinality(A \cup B) <= Len(s)
  BY <1>2, LineFinite, FS_Subset
<1>4. Cardinality(A \cup B) = Cardinality(A) + Cardinality(B) - Cardinality(A \cap B)
  BY <1>3, FS_Union
<1>5. Cardinality(A \cap B) = 0
  BY <1>1, FS_EmptySet
<1>6. before \in Nat /\ size \in Nat
  BY <1>3, FS_CardinalityType
<1>7. before + size <= Len(s)
  BY <1>3, <1>4, <1>5, <1>6
<1>8. WordAt(s, k) = SubSeq(s, before + 1, before + size)
  BY DEF WordAt, A, B
<1> HIDE DEF before, size
<1>9. SubSeq(s, before + 1, before + size) \in Seq(Chars)
  BY <1>6, <1>7, SubSeqProperties
<1> QED BY <1>8, <1>9

LEMMA WordsTyped ==
  ASSUME NEW s \in Seq(Chars)
  PROVE  WordsOf(s) \in Seq(Seq(Chars))
<1> DEFINE n == Cardinality(Beginnings(s))
           m == IF n > MaxArgs THEN MaxArgs ELSE n
<1>1. m \in Nat
  <2>1. n \in Nat /\ MaxArgs \in Nat
    BY BegunTyped, ShellAssumption
  <2> HIDE DEF n
  <2> QED BY <2>1
<1>2. \A k \in 1 .. m : WordAt(s, k) \in Seq(Chars)
  BY WordTyped
<1>3. WordsOf(s) = [k \in 1 .. m |-> WordAt(s, k)]
  BY DEF WordsOf
<1> HIDE DEF m
<1> QED BY <1>1, <1>2, <1>3

NotesTyped == note_list \in [Slots -> Note]

LEMMA NoteFields ==
  /\ \A r \in Note : [r EXCEPT !.active = FALSE] \in Note
  /\ NoNote \in Note
  /\ \A name, content \in Words : [active |-> TRUE, name |-> name, content |-> content] \in Note
<1>1. << >> \in Words
  BY DEF Words
<1> QED BY <1>1 DEF Note, NoNote

LEMMA CutTyped ==
  ASSUME NEW w \in Words, NEW n \in Nat
  PROVE  Cut(w, n) \in Words
<1> DEFINE k == IF Len(w) > n THEN n ELSE Len(w)
<1>1. w \in Seq(Chars) /\ k \in Nat /\ k <= Len(w)
  BY DEF Words
<1> HIDE DEF k
<1>2. SubSeq(w, 1, k) \in Seq(Chars)
  BY <1>1, SubSeqProperties
<1> QED BY <1>2 DEF Cut, Words, k

LEMMA NotePerforms ==
  ASSUME NotesTyped, NEW effect, NEW args \in Seq(Seq(Chars)), Performs(effect, args)
  PROVE  NotesTyped'
<1>1. CASE note_list' = note_list
  BY <1>1 DEF NotesTyped
<1>2. CASE \E p : OnlyRuns(p)
  BY <1>1, <1>2 DEF OnlyRuns
<1>3. CASE playrawjmp
  BY <1>1, <1>3 DEF playrawjmp
<1>4. CASE Len(args) >= 4 /\ note_list' = NoteMade(args[3], args[4])
  <2>1. args[3] \in Words /\ args[4] \in Words
    BY <1>4 DEF Words
  <2>2. Cut(args[3], NameLen) \in Words /\ Cut(args[4], ContentLen) \in Words
    BY <2>1, CutTyped, NotesAssumption
  <2> DEFINE r == [active |-> TRUE, name |-> Cut(args[3], NameLen),
                   content |-> Cut(args[4], ContentLen)]
  <2>3. r \in Note
    BY <2>2, NoteFields
  <2>4. note_list' = [note_list EXCEPT ![First(FreeSlots)] = r]
    BY <1>4 DEF NoteMade
  <2> HIDE DEF r
  <2> QED BY <2>3, <2>4 DEF NotesTyped
<1>5. CASE delete_all_notes
  BY <1>5, NoteFields DEF delete_all_notes, NotesTyped
<1>6. ASSUME NEW name, delete_note(name) PROVE NotesTyped'
  <2> DEFINE x == First(Named(name))
  <2>1. CASE note_list' = [note_list EXCEPT ![x].active = FALSE]
    <3>1. x \in Slots => [note_list[x] EXCEPT !.active = FALSE] \in Note
      BY NoteFields DEF NotesTyped
    <3>2. note_list' = [note_list EXCEPT ![x] = [note_list[x] EXCEPT !.active = FALSE]]
      BY <2>1
    <3> HIDE DEF x
    <3> QED BY <3>1, <3>2 DEF NotesTyped
  <2> QED BY <1>1, <1>6, <2>1 DEF delete_note
<1>7. CASE cmd_note(args)
  <2>1. CASE \/ Len(args) < 3 \/ args[2][1] \notin {"c", "d"}
             \/ (args[2][1] = "c" /\ Len(args) < 4)
    BY <1>2, <1>7, <2>1 DEF cmd_note
  <2>2. CASE ~ Len(args) < 3 /\ args[2][1] = "c" /\ ~ Len(args) < 4
    BY <1>2, <1>4, <1>7, <2>2 DEF cmd_note
  <2>3. CASE ~ Len(args) < 3 /\ args[2][1] = "d"
    BY <1>5, <1>6, <1>7, <2>3 DEF cmd_note
  <2> QED BY <2>1, <2>2, <2>3
<1> QED BY <1>2, <1>3, <1>7 DEF Performs

LEMMA NotesInitTyped == Init => NotesTyped
BY NoteFields DEF Init, NotesInit, NotesTyped

LEMMA NotesStep == NotesTyped /\ Shape /\ [Next]_vars => NotesTyped'
<1> SUFFICES ASSUME NotesTyped, Shape, [Next]_vars PROVE NotesTyped'
  OBVIOUS
<1>1. CASE UNCHANGED note_list
  BY <1>1 DEF NotesTyped
<1>2. CASE Execute
  <2>1. WordsOf(cmd_buf) \in Seq(Seq(Chars))
    BY WordsTyped DEF Shape
  <2>2. CASE OnlyRuns(<< >>)
    BY <1>1, <2>2 DEF OnlyRuns
  <2> QED BY <1>2, <2>1, <2>2, NotePerforms DEF Execute
<1>3. CASE Resets
  BY <1>3, NoteFields DEF Resets, NotesReset, NotesTyped
<1>4. ASSUME NEW t \in Tasks, Runs(t) PROVE UNCHANGED note_list
  BY <1>4 DEF Runs, Prints, Settles, Accesses, Does, noteVars, klog_status
<1>5. Poll \/ Again \/ Waits \/ Exits \/ Types \/ Drive \/ UNCHANGED vars => UNCHANGED note_list
  BY DEF Poll, Again, Waits, Exits, Types, Drive, noteVars, vars
<1> QED BY <1>1, <1>2, <1>3, <1>4, <1>5 DEF Next, Main, Player, Tasks

-----------------------------------------------------------------------------
(* The registers: the drive chosen on a channel is one of that channel     *)

Channels == (\A b \in Bases : dev[b].drive.base = b) /\ slow \in BOOLEAN /\ late \in BOOLEAN

\* A register of channel b is written, and the drive stays or is one of b.
LEMMA ChannelOut ==
  ASSUME Channels, AtaTyped, NEW b \in Bases, NEW r,
         r.drive = dev[b].drive \/ r.drive.base = b,
         dev' = [dev EXCEPT ![b] = r] \/ dev' = dev
  PROVE  \A c \in Bases : dev'[c].drive.base = c
<1>1. CASE dev' = dev
  BY <1>1 DEF Channels
<1>2. CASE dev' = [dev EXCEPT ![b] = r]
  <2>1. dev'[b] = r /\ \A c \in Bases \ {b} : dev'[c] = dev[c]
    BY <1>2, WrittenTo
  <2> QED BY <2>1 DEF Channels
<1> QED BY <1>1, <1>2

LEMMA ChannelAccess ==
  ASSUME Channels, AtaTyped, Shape, NEW t \in Tasks, Accesses(t)
  PROVE  Channels'
<1> DEFINE i == This(t)
<1>1. /\ sel.base \in Bases /\ prog[t] # << >> /\ i \in Instructions
      /\ \A b \in Bases : dev[b] \in Registers
  BY ThisTyped, UnitsHaveBases DEF Accesses, Ready, AtaTyped
<1>2. slow' \in BOOLEAN /\ late' \in BOOLEAN
  BY DEF Accesses, Select, Selected, Transfer, ChooseDrive, WaitBusy, SetSector, Command, WaitDrq,
         insw, outsw, Channels
<1>3. \A b \in Bases : dev'[b].drive.base = b
  <2>1. CASE dev' = dev
    BY <2>1 DEF Channels
  <2>2. CASE i.op = "select" /\ Select(t, i.unit)
    <3> DEFINE u == i.unit
               r == [dev[u.base] EXCEPT !.drive = u]
    <3>1. u.base \in Bases
      BY <1>1, <2>2, Fields, UnitsHaveBases
    <3>2. r.drive = u
      BY <1>1, <3>1, Written
    <3>3. dev' = [dev EXCEPT ![u.base] = r] \/ dev' = dev
      BY <2>2 DEF Select, Out
    <3> HIDE DEF r, u
    <3> QED BY <3>1, <3>2, <3>3, ChannelOut
  <2>3. ASSUME NEW op, NEW s, Transfer(t, op, s) PROVE \A b \in Bases : dev'[b].drive.base = b
    <3>1. CASE ChooseDrive(t)
      <4> DEFINE r == [dev[sel.base] EXCEPT !.drive = sel]
      <4>1. r.drive = sel
        BY <1>1, Written
      <4>2. dev' = [dev EXCEPT ![sel.base] = r] \/ dev' = dev
        BY <3>1 DEF ChooseDrive, Out
      <4> HIDE DEF r
      <4> QED BY <1>1, <4>1, <4>2, ChannelOut
    <3>2. CASE SetSector(t, s)
      <4> DEFINE r == [dev[sel.base] EXCEPT !.sector = s]
      <4>1. r.drive = dev[sel.base].drive
        BY <1>1, Written
      <4>2. dev' = [dev EXCEPT ![sel.base] = r] \/ dev' = dev
        BY <3>2 DEF SetSector, Out
      <4> HIDE DEF r
      <4> QED BY <1>1, <4>1, <4>2, ChannelOut
    <3>3. CASE Command(t, op)
      <4> DEFINE r == [dev[sel.base] EXCEPT !.cmd = op, !.state = "busy"]
      <4>1. r.drive = dev[sel.base].drive
        BY <1>1, Written
      <4>2. dev' = [dev EXCEPT ![sel.base] = r] \/ dev' = dev
        BY <3>3 DEF Command, Out
      <4> HIDE DEF r
      <4> QED BY <1>1, <4>1, <4>2, ChannelOut
    <3>4. CASE WaitBusy(t) \/ WaitDrq(t)
      BY <2>1, <3>4 DEF WaitBusy, WaitDrq
    <3> QED BY <2>3, <3>1, <3>2, <3>3, <3>4 DEF Transfer
  <2>4. ASSUME NEW st, dev' = [dev EXCEPT ![sel.base] = [dev[sel.base] EXCEPT !.state = st, !.cmd = "none"]]
        PROVE  \A b \in Bases : dev'[b].drive.base = b
    <3> DEFINE r == [dev[sel.base] EXCEPT !.state = st, !.cmd = "none"]
    <3>1. r.drive = dev[sel.base].drive
      BY <1>1, Written
    <3>2. dev' = [dev EXCEPT ![sel.base] = r]
      BY <2>4
    <3> HIDE DEF r
    <3> QED BY <1>1, <3>1, <3>2, ChannelOut
  <2>5. CASE insw(t) \/ outsw(t, Holding("notes", note_list))
    <3>1. \/ dev' = dev
          \/ dev' = [dev EXCEPT ![sel.base] = [dev[sel.base] EXCEPT !.state = "ready", !.cmd = "none"]]
          \/ dev' = [dev EXCEPT ![sel.base] = [dev[sel.base] EXCEPT !.state = "busy", !.cmd = "none"]]
      BY <2>5 DEF insw, outsw
    <3> QED BY <2>1, <2>4, <3>1
  <2>6. CASE Selected(t, i.unit)
    BY <2>1, <2>6 DEF Selected
  <2> QED BY <2>2, <2>3, <2>5, <2>6 DEF Accesses
<1> QED BY <1>2, <1>3 DEF Channels

LEMMA ChannelsStep == Channels /\ Serving /\ Shape /\ [Next]_vars => Channels'
<1> SUFFICES ASSUME Channels, AtaTyped, Shape, [Next]_vars PROVE Channels'
  BY DEF Serving
<1>1. CASE UNCHANGED ataVars
  BY <1>1 DEF ataVars, Channels
<1>2. CASE Resets
  <2>1. dev' \in FreshDevs /\ UNCHANGED <<slow, late>>
    BY <1>2 DEF Resets, AtaReset
  <2> QED BY <2>1 DEF FreshDevs, Channels
<1>3. CASE Drive
  <2>1. PICK b \in Bases : DevData(b) \/ DevReady(b)
    BY <1>3 DEF Drive
  <2>2. dev[b] \in Registers
    BY DEF AtaTyped
  <2>3. \E r : r.drive = dev[b].drive /\ dev' = [dev EXCEPT ![b] = r]
    <3>1. CASE DevData(b)
      <4> DEFINE r == [dev[b] EXCEPT !.state = "drq"]
      <4>1. r.drive = dev[b].drive
        BY <2>2, Written
      <4>2. dev' = [dev EXCEPT ![b] = r]
        BY <3>1 DEF DevData
      <4> HIDE DEF r
      <4> QED BY <4>1, <4>2
    <3>2. CASE DevReady(b)
      <4> DEFINE r == [dev[b] EXCEPT !.state = "ready", !.cmd = "none"]
      <4>1. r.drive = dev[b].drive
        BY <2>2, Written
      <4>2. dev' = [dev EXCEPT ![b] = r]
        BY <3>2 DEF DevReady
      <4> HIDE DEF r
      <4> QED BY <4>1, <4>2
    <3> QED BY <2>1, <3>1, <3>2
  <2>4. UNCHANGED <<slow, late>>
    BY <2>1 DEF DevData, DevReady
  <2> QED BY <2>3, <2>4, ChannelOut DEF Channels
<1>4. ASSUME NEW t \in Tasks, Prints(t) \/ Settles(t) \/ Does(t) PROVE UNCHANGED ataVars
  BY <1>4 DEF Prints, Settles, Does
<1>5. Poll \/ Execute \/ Again \/ Waits \/ Exits \/ Types \/ UNCHANGED vars => UNCHANGED ataVars
  BY DEF Poll, Execute, Again, Waits, Exits, Types, vars
<1> QED BY <1>1, <1>2, <1>3, <1>4, <1>5, ChannelAccess DEF Next, Main, Player, Runs, Tasks

LEMMA ChannelsInit == Init => Channels
<1> SUFFICES ASSUME Init PROVE Channels
  OBVIOUS
<1>1. dev \in FreshDevs /\ late = FALSE
  BY DEF Init, AtaInit
<1>2. slow \in BOOLEAN
  BY ShellAssumption DEF Init, ShellInit
<1> QED BY <1>1, <1>2 DEF FreshDevs, Channels

\* Every variable stays in its set: keyboard, screen, notes, channels and the shell
\* itself, whose commands are made of the words of what was typed.
THEOREM ShellTyped == Spec => []TypeOK
<1>1. /\ Keyed /\ Shape /\ CursorInv /\ ScreenInv /\ LogInv /\ NotesTyped /\ Serving /\ Channels
      => TypeOK
  BY DEF Keyed, Shape, CursorInv, CursorTyped, ScreenInv, LogInv, NotesTyped, Serving, AtaTyped,
         Registers, Channels, TypeOK, ScrTypeOK, NotesTypeOK, AtaTypeOK
<1>2. Init => LogInv
  BY NotesAssumption DEF Init, NotesInit, LogInv, LogIsLatest
<1> QED BY <1>1, <1>2, CursorInit, ScreenStarts, NotesInitTyped, ServingInit, ChannelsInit,
           CursorStep, ScreenStep, LogStep, NotesStep, ServingStep, ChannelsStep, TypesHold, PTL
        DEF Spec
-----------------------------------------------------------------------------
(* The notes on the disk.  Only save_notes_to_disk writes, and it writes   *)
(* where the directory it has just read says.                              *)

\* What moves no sector to the disk and makes no task a player.
Writeless == {i \in Instructions : i.op \notin {"write", "check"}}

\* What leaves the drive of the file system the current one.
Steady == {i \in Writeless : i.op # "drive" /\ (i.op = "select" => i.unit = Home)}

\* cmd_ld: it ends where the drive that was current is selected again.
Returning ==
  {p \in Seq(Writeless) : p # << >> /\ (p[Len(p)].op = "drive" \/ p[Len(p)] = SelectI(Home))}

Saving == {SaveProg, Tail(SaveProg)}

Harmless == {i \in Plain : i.op # "write"}

Held == {Holding(k, l) : k \in Kinds, l \in {<< >>} \cup [Slots -> Note]}

Programs ==
  prog["main"] \in Seq(Steady) \cup Returning \cup Saving /\ prog["player"] \in Seq(Harmless)

OnlyNotesWritten ==
  ~late /\ ~mixed =>
    /\ disk[Home][Root].kind = "root"
    /\ ~playing => sel = Home \/ prog["main"] \in Returning
    /\ prog["main"] = Tail(SaveProg) => buf["main"].kind = "root"
    /\ unsaved \/ prog["main"] \in Saving \/ disk[Home][File] = Holding("notes", note_list)

SectorsTyped == disk \in [Units -> [Sectors -> Held]] /\ buf \in [AtaTasks -> Held]

DiskInv == SectorsTyped /\ Programs /\ OnlyNotesWritten

-----------------------------------------------------------------------------
Puts == [op : {"put"}, how : {"klog", "colour", "vesa"}, ch : Glyphs]

LEMMA PutsSteady ==
  /\ Seq(Puts) \subseteq Seq(Steady) /\ Seq(Steady) \subseteq Seq(Writeless)
  /\ Seq({i \in Puts : i.how # "vesa"}) \subseteq Seq(Harmless)
  /\ Seq(Writeless) \subseteq Seq(Instructions)
<1>1. Puts \subseteq Steady
  BY DEF Puts, Instructions, Writeless, Steady
<1>2. {i \in Puts : i.how # "vesa"} \subseteq Harmless
  BY DEF Puts, Instructions, Plain, Harmless
<1>3. Steady \subseteq Writeless /\ Writeless \subseteq Instructions
  BY DEF Steady, Writeless
<1> QED BY <1>1, <1>2, <1>3

LEMMA TextPuts ==
  ASSUME NEW how \in {"klog", "colour", "vesa"}, NEW s \in Seq(Glyphs)
  PROVE  /\ Text(how, s) \in Seq(Puts) /\ Len(Text(how, s)) = Len(s)
         /\ how # "vesa" => Text(how, s) \in Seq({i \in Puts : i.how # "vesa"})
<1>1. \A i \in 1 .. Len(s) : [op |-> "put", how |-> how, ch |-> s[i]] \in Puts
  BY DEF Puts
<1>2. how # "vesa" => \A i \in 1 .. Len(s) :
        [op |-> "put", how |-> how, ch |-> s[i]] \in {i_1 \in Puts : i_1.how # "vesa"}
  BY <1>1
<1> QED BY <1>1, <1>2 DEF Text

LEMMA TimesPuts ==
  ASSUME NEW n \in Nat, NEW s \in Seq(Puts), Len(s) = 2
  PROVE  Times(n, s) \in Seq(Puts)
<1>1. \A i \in 1 .. n * Len(s) : ((i - 1) % Len(s)) + 1 \in 1 .. Len(s)
  OBVIOUS
<1>2. \A i \in 1 .. n * Len(s) : s[((i - 1) % Len(s)) + 1] \in Puts
  BY <1>1
<1>3. n * Len(s) \in Nat
  OBVIOUS
<1> QED BY <1>2, <1>3 DEF Times

LEMMA PiecesPuts ==
  /\ kklog \in Seq(Puts) /\ Len(kklog) = 2 /\ Usage \in Seq(Puts)
  /\ kklog_line \in Seq(Puts) /\ Len(kklog_line) = 2 /\ Prompting \in Seq(Puts)
  /\ Text("klog", <<"nl">>) \in Seq(Puts) /\ Text("klog", <<"bs">>) \in Seq(Puts)
  /\ Text("vesa", <<".", "nl">>) \in Seq(Puts) /\ Len(Text("vesa", <<".", "nl">>)) = 2
<1>1. /\ <<".", "nl">> \in Seq(Glyphs) /\ <<".", "nl", "nl">> \in Seq(Glyphs)
      /\ <<".">> \in Seq(Glyphs) /\ <<"nl">> \in Seq(Glyphs) /\ <<"bs">> \in Seq(Glyphs)
      /\ Prompt \in Seq(Glyphs)
  BY TextGlyphs, ShellAssumption
<1>2. /\ kklog \in Seq(Puts) /\ Len(kklog) = 2 /\ Usage \in Seq(Puts)
      /\ Text("klog", <<"nl">>) \in Seq(Puts) /\ Text("klog", <<"bs">>) \in Seq(Puts)
      /\ Text("vesa", <<".", "nl">>) \in Seq(Puts) /\ Len(Text("vesa", <<".", "nl">>)) = 2
  BY <1>1, TextPuts DEF kklog, Usage
<1>3. /\ Text("colour", <<".">>) \in Seq(Puts) /\ Len(Text("colour", <<".">>)) = 1
      /\ Len(Text("klog", <<"nl">>)) = 1 /\ Text("colour", Prompt) \in Seq(Puts)
  BY <1>1, TextPuts
<1>4. kklog_line \in Seq(Puts) /\ Len(kklog_line) = 2
  <2> DEFINE a == Text("colour", <<".">>)
             b == Text("klog", <<"nl">>)
  <2>1. a \in Seq(Puts) /\ b \in Seq(Puts) /\ Len(a) = 1 /\ Len(b) = 1
    BY <1>2, <1>3
  <2>2. kklog_line = a \o b
    BY DEF kklog_line
  <2> HIDE DEF a, b
  <2> QED BY <2>1, <2>2, ConcatProperties
<1>5. Prompting \in Seq(Puts)
  BY <1>2, <1>3, ConcatProperties DEF Prompting
<1> QED BY <1>2, <1>4, <1>5

LEMMA SingleSteady ==
  /\ SelectI(Home) \in Steady
  /\ \A s \in {Super, Root, File} : ReadI(s) \in Steady
  /\ \A m \in Messages : StatusI(m) \in Steady
  /\ \A op \in {"clear", "down", "reset", "exit"} : DoI(op) \in Steady
  /\ \A u \in Units : SelectI(u) \in Writeless
  /\ \A i \in 1 .. Len(Drives) : [op |-> "drive", index |-> i] \in Writeless
<1>1. SelectI(Home).op = "select" /\ SelectI(Home).unit = Home
  BY DEF SelectI
<1>2. /\ \A s : ReadI(s).op = "read"
      /\ \A m : StatusI(m).op = "status"
      /\ \A op : DoI(op).op = op
      /\ \A u : SelectI(u).op = "select"
      /\ \A i : [op |-> "drive", index |-> i].op = "drive"
  BY DEF ReadI, StatusI, DoI, SelectI
<1> QED BY <1>1, <1>2, SingleTyped, AtaAssumption DEF Steady, Writeless

LEMMA SinglePlayer ==
  /\ \A u \in Units : SelectI(u) \in Harmless
  /\ \A s \in {Super, Root, File} : ReadI(s) \in Harmless
  /\ \A op \in {"check", "exit"} : DoI(op) \in Harmless
<1>1. /\ \A s : ReadI(s).op = "read"
      /\ \A op : DoI(op).op = op
      /\ \A u : SelectI(u).op = "select"
  BY DEF ReadI, DoI, SelectI
<1> QED BY <1>1, SinglePlain DEF Harmless

\* The programs of the player hold no write.
LEMMA PlayHarmless ==
  cmd_playraw \in Seq(Harmless) /\ PlayOn \in Seq(Harmless) /\ PlayNot \in Seq(Harmless)
<1> DEFINE H == {i \in Puts : i.how # "vesa"}
           a == Text("colour", <<".", "nl">>) \o Text("klog", <<"nl">>)
           b == [i \in 1 .. Chunks |-> ReadI(Root)]
           c == <<SelectI(Home), DoI("exit")>>
<1>1. cmd_playraw \in Seq(Harmless)
  BY SinglePlayer, ShellAssumption DEF cmd_playraw
<1>2. <<".", "nl">> \in Seq(Glyphs) /\ <<"nl">> \in Seq(Glyphs) /\ <<".", "nl", "nl">> \in Seq(Glyphs)
  BY TextGlyphs
<1>3. /\ Text("colour", <<".", "nl">>) \in Seq(H) /\ Text("klog", <<"nl">>) \in Seq(H)
      /\ kklog \in Seq(H) /\ Usage \in Seq(H)
  BY <1>2, TextPuts DEF kklog, Usage
<1> HIDE DEF H
<1>4. a \in Seq(H)
  BY <1>3, ConcatProperties
<1>5. Seq(H) \subseteq Seq(Harmless)
  BY PutsSteady DEF H
<1>6. b \in Seq(Harmless)
  <2>1. ReadI(Root) \in Harmless /\ Chunks \in Nat
    BY SinglePlayer, ShellAssumption
  <2> QED BY <2>1
<1>7. c \in Seq(Harmless)
  BY SinglePlayer, AtaAssumption
<1>8. PlayOn = ((a \o b) \o Usage) \o c /\ PlayNot = kklog \o c
  BY DEF PlayOn, PlayNot
<1>9. a \in Seq(Harmless) /\ Usage \in Seq(Harmless) /\ kklog \in Seq(Harmless)
  BY <1>3, <1>4, <1>5
<1> HIDE DEF a, b, c
<1> QED BY <1>1, <1>6, <1>7, <1>8, <1>9, ConcatProperties

LEMMA BootSteady == BootProg \in Seq(Steady)
<1>1. <<SelectI(Home), ReadI(Super), ReadI(Root)>> \in Seq(Steady)
  BY SingleSteady
<1>2. <<StatusI("BOOTED"), StatusI("MULTITASKING_STARTED")>> \in Seq(Steady)
  <2>1. "BOOTED" \in Messages /\ "MULTITASKING_STARTED" \in Messages
    BY DEF Messages
  <2> QED BY <2>1, SingleSteady
<1>3. Prompting \in Seq(Steady)
  BY PiecesPuts, PutsSteady
<1>4. <<SelectI(Home), ReadI(Super), ReadI(Root)>> \o Prompting \in Seq(Steady)
  BY <1>1, <1>3, ConcatProperties
<1> QED BY <1>2, <1>4, ConcatProperties DEF BootProg

\* A piece put before a program that returns.
LEMMA ReturningBehind ==
  ASSUME NEW s \in Seq(Writeless), NEW p \in Returning
  PROVE  s \o p \in Returning
<1>1. p \in Seq(Writeless) /\ p # << >> /\ (p[Len(p)].op = "drive" \/ p[Len(p)] = SelectI(Home))
  BY DEF Returning
<1>2. /\ s \o p \in Seq(Writeless) /\ s \o p # << >> /\ Len(s \o p) = Len(s) + Len(p)
      /\ (s \o p)[Len(s \o p)] = p[Len(p)]
  BY <1>1, ConcatProperties
<1> QED BY <1>1, <1>2 DEF Returning

LEMMA LdReturns ==
  ASSUME NEW i \in Nat \ {0}
  PROVE  LdFrom(i) \in Returning
<1>1. CASE i > Len(Drives)
  <2>1. <<SelectI(Home)>> \in Seq(Writeless)
    BY SingleSteady, AtaAssumption
  <2> QED BY <1>1, <2>1 DEF LdFrom, Returning
<1>2. CASE ~ i > Len(Drives)
  <2> DEFINE s == <<SelectI(Drives[i]), ReadI(Super), [op |-> "drive", index |-> i]>>
  <2>1. i \in 1 .. Len(Drives) /\ Drives[i] \in Units
    BY <1>2, ShellAssumption
  <2>2. ReadI(Super) \in Writeless
    BY SingleSteady DEF Steady
  <2>3. s \in Seq(Writeless) /\ s # << >> /\ Len(s) = 3 /\ s[3].op = "drive"
    BY <2>1, <2>2, SingleSteady
  <2> HIDE DEF s
  <2>4. s \in Returning
    BY <2>3 DEF Returning
  <2>5. Times(4, kklog) \in Seq(Writeless)
    BY PiecesPuts, TimesPuts, PutsSteady
  <2> QED BY <1>2, <2>4, <2>5, ReturningBehind DEF LdFrom, s
<1> QED BY <1>1, <1>2

LEMMA LdShownReturns ==
  ASSUME NEW i \in 1 .. Len(Drives), NEW f \in BOOLEAN
  PROVE  LdShown(i, f) \in Returning
<1> DEFINE n == IF f THEN 3 ELSE IF Drives[i] = Home THEN 1 ELSE 0
           a == kklog_line \o Times(n, kklog)
           b == Text("klog", <<"nl">>)
           c == <<DoI("down")>>
<1>1. a \in Seq(Puts)
  <2>1. n \in Nat
    OBVIOUS
  <2>2. Times(n, kklog) \in Seq(Puts)
    <3> HIDE DEF n
    <3> QED BY <2>1, PiecesPuts, TimesPuts
  <2> HIDE DEF n
  <2> QED BY <2>2, PiecesPuts, ConcatProperties
<1>2. b \in Seq(Puts)
  BY PiecesPuts
<1>3. c \in Seq(Steady)
  BY SingleSteady
<1>4. LdFrom(i + 1) \in Returning
  BY LdReturns, ShellAssumption
<1>5. LdShown(i, f) = ((a \o b) \o c) \o LdFrom(i + 1)
  BY DEF LdShown
<1> HIDE DEF a, b, c
<1>6. a \in Seq(Writeless) /\ b \in Seq(Writeless) /\ c \in Seq(Writeless)
  BY <1>1, <1>2, <1>3, PutsSteady
<1>7. (a \o b) \o c \in Seq(Writeless)
  BY <1>6, ConcatProperties
<1> QED BY <1>4, <1>5, <1>7, ReturningBehind

LEMMA CommandsSteady ==
  /\ cmd_help \in Seq(Steady) /\ cmd_cat \in Seq(Steady) /\ cmd_reboot \in Seq(Steady)
  /\ <<DoI("clear")>> \in Seq(Steady) /\ << >> \in Seq(Steady)
  /\ kklog \in Seq(Steady) /\ Usage \in Seq(Steady) /\ Prompting \in Seq(Steady)
  /\ cmd_ld \in Returning
<1>1. cmd_help \in Seq(Steady) /\ cmd_cat \in Seq(Steady)
  <2>1. cmd_help \in Seq(Puts)
    BY PiecesPuts, TimesPuts DEF cmd_help
  <2>2. cmd_cat \in Seq(Puts)
    BY PiecesPuts, TimesPuts, ShellAssumption DEF cmd_cat
  <2> QED BY <2>1, <2>2, PutsSteady
<1>2. Usage \in Seq(Steady) /\ kklog \in Seq(Steady) /\ Prompting \in Seq(Steady)
  BY PiecesPuts, PutsSteady
<1>3. <<DoI("clear")>> \in Seq(Steady) /\ <<DoI("reset")>> \in Seq(Steady)
  BY SingleSteady
<1>4. cmd_reboot \in Seq(Steady)
  BY <1>2, <1>3, ConcatProperties DEF cmd_reboot
<1>5. cmd_ld \in Returning
  <2>1. kklog_line \in Seq(Writeless)
    BY PiecesPuts, PutsSteady
  <2> QED BY <2>1, LdReturns, ReturningBehind DEF cmd_ld
<1> QED BY <1>1, <1>2, <1>3, <1>4, <1>5

\* save_notes_to_disk is neither of the others, and ends with a line of status.
LEMMA SaveSteps ==
  /\ SaveProg = <<ReadI(Root), WriteI(File), StatusI("NOTES_SAVED")>>
  /\ Tail(SaveProg) = <<WriteI(File), StatusI("NOTES_SAVED")>>
  /\ Tail(Tail(SaveProg)) = <<StatusI("NOTES_SAVED")>> /\ Tail(Tail(SaveProg)) \in Seq(Steady)
  /\ Saving \cap Seq(Steady) = {} /\ Saving \cap Returning = {} /\ << >> \notin Saving
<1>1. /\ SaveProg = <<ReadI(Root), WriteI(File), StatusI("NOTES_SAVED")>>
      /\ Tail(SaveProg) = <<WriteI(File), StatusI("NOTES_SAVED")>>
      /\ Tail(Tail(SaveProg)) = <<StatusI("NOTES_SAVED")>>
  BY DEF SaveProg
<1>2. Tail(Tail(SaveProg)) \in Seq(Steady)
  <2>1. "NOTES_SAVED" \in Messages
    BY DEF Messages
  <2> QED BY <1>1, <2>1, SingleSteady
<1>3. WriteI(File).op = "write"
  BY DEF WriteI
<1>4. \A s \in Seq(Writeless) : \A k \in 1 .. Len(s) : s[k].op # "write"
  BY DEF Writeless
<1>5. \A p \in Saving : p \notin Seq(Writeless) /\ p # << >>
  <2>1. SaveProg[2] = WriteI(File) /\ Len(SaveProg) = 3
    BY <1>1
  <2>2. Tail(SaveProg)[1] = WriteI(File) /\ Len(Tail(SaveProg)) = 2
    BY <1>1
  <2>3. SaveProg # << >> /\ Tail(SaveProg) # << >>
    BY <1>1
  <2>4. 2 \in 1 .. Len(SaveProg) /\ 1 \in 1 .. Len(Tail(SaveProg))
    BY <2>1, <2>2
  <2> QED BY <1>3, <1>4, <2>1, <2>2, <2>3, <2>4 DEF Saving
<1>6. Seq(Steady) \subseteq Seq(Writeless) /\ Returning \subseteq Seq(Writeless)
  BY PutsSteady DEF Returning
<1> QED BY <1>1, <1>2, <1>5, <1>6
-----------------------------------------------------------------------------
LEMMA ReturningTail ==
  ASSUME NEW p \in Returning
  PROVE  /\ p # << >> /\ Head(p) \in Writeless
         /\ \/ Tail(p) \in Returning
            \/ Tail(p) = << >> /\ (Head(p).op = "drive" \/ Head(p) = SelectI(Home))
<1>1. p \in Seq(Writeless) /\ p # << >> /\ (p[Len(p)].op = "drive" \/ p[Len(p)] = SelectI(Home))
  BY DEF Returning
<1>2. Head(p) \in Writeless /\ Tail(p) \in Seq(Writeless) /\ Len(Tail(p)) = Len(p) - 1
      /\ Head(p) = p[1] /\ \A k \in 1 .. Len(p) - 1 : Tail(p)[k] = p[k + 1]
  BY <1>1
<1>3. Len(p) \in Nat /\ Len(p) # 0 /\ (Len(Tail(p)) = 0 <=> Tail(p) = << >>)
  BY <1>1, <1>2, EmptySeq
<1>4. CASE Len(p) = 1
  <2>1. Tail(p) = << >>
    BY <1>2, <1>3, <1>4
  <2>2. Head(p) = p[Len(p)]
    BY <1>2, <1>4
  <2> QED BY <1>1, <1>2, <2>1, <2>2
<1>5. CASE Len(p) # 1
  <2>1. Len(p) > 1
    BY <1>3, <1>5
  <2>2. Len(Tail(p)) \in 1 .. Len(p) - 1 /\ Len(Tail(p)) + 1 = Len(p) /\ Len(Tail(p)) # 0
    BY <1>2, <1>3, <2>1
  <2>3. Tail(p)[Len(Tail(p))] = p[Len(p)]
    BY <1>2, <2>2
  <2>4. Tail(p) # << >>
    BY <2>2, <1>3
  <2> QED BY <1>1, <1>2, <2>3, <2>4 DEF Returning
<1> QED BY <1>4, <1>5

LEMMA SteadyTail ==
  ASSUME NEW S, NEW p \in Seq(S), p # << >>
  PROVE  Head(p) \in S /\ Tail(p) \in Seq(S)
OBVIOUS

LEMMA SavingHead ==
  ASSUME NEW p \in Saving
  PROVE  /\ p = SaveProg => Head(p) = ReadI(Root) /\ Tail(p) \in Saving
         /\ p = Tail(SaveProg) => Head(p) = WriteI(File) /\ Tail(p) \in Seq(Steady)
         /\ SaveProg # Tail(SaveProg)
         /\ Head(p).op \in {"read", "write"}
<1>1. Head(SaveProg) = ReadI(Root) /\ Head(Tail(SaveProg)) = WriteI(File)
      /\ Len(SaveProg) = 3 /\ Len(Tail(SaveProg)) = 2
  BY SaveSteps
<1>2. ReadI(Root).op = "read" /\ WriteI(File).op = "write"
  BY DEF ReadI, WriteI
<1> QED BY <1>1, <1>2, SaveSteps DEF Saving

\* What the shell has ahead of it, by what it is.
LEMMA AheadOfMain ==
  ASSUME Programs, prog["main"] # << >>
  PROVE  LET p == prog["main"] IN
         \/ /\ p \in Seq(Steady) /\ This("main") \in Steady /\ Tail(p) \in Seq(Steady)
            /\ p \notin Saving /\ Tail(p) \notin Saving
         \/ /\ p \in Returning /\ This("main") \in Writeless /\ p \notin Saving
            /\ \/ Tail(p) \in Returning /\ Tail(p) \notin Saving
               \/ /\ Tail(p) = << >> /\ Tail(p) \notin Saving
                  /\ This("main").op = "drive" \/ This("main") = SelectI(Home)
         \/ p = SaveProg /\ This("main") = ReadI(Root) /\ Tail(p) = Tail(SaveProg)
         \/ /\ p = Tail(SaveProg) /\ This("main") = WriteI(File) /\ Tail(p) \in Seq(Steady)
            /\ Tail(p) \notin Saving
<1> DEFINE p == prog["main"]
<1>1. CASE p \in Seq(Steady)
  <2>1. Head(p) \in Steady /\ Tail(p) \in Seq(Steady)
    BY <1>1, SteadyTail
  <2> QED BY <1>1, <2>1, SaveSteps DEF This
<1>2. CASE p \in Returning
  BY <1>2, ReturningTail, SaveSteps DEF This
<1>3. CASE p \in Saving
  BY <1>3, SavingHead, SaveSteps DEF This, Saving
<1> QED BY <1>1, <1>2, <1>3 DEF Programs

LEMMA ProgramsStarts ==
  ASSUME Programs, Shape, NEW p \in Seq(Steady) \cup Returning \cup Saving, Starts(p)
  PROVE  Programs'
<1>1. prog'["main"] = p /\ prog'["player"] = prog["player"]
  BY DEF Starts, Shape, Tasks
<1> QED BY <1>1 DEF Programs

LEMMA ProgramsDone ==
  ASSUME Programs, Shape, NEW t \in Tasks, prog[t] # << >>, Done(t), This(t).op # "drive"
  PROVE  Programs'
<1>1. prog'[t] = Tail(prog[t]) /\ \A u \in Tasks \ {t} : prog'[u] = prog[u]
  BY DEF Done, Shape
<1>2. CASE t = "main"
  <2>1. << >> \in Seq(Steady) /\ Tail(SaveProg) \in Saving
    BY DEF Saving
  <2>2. Tail(prog["main"]) \in Seq(Steady) \cup Returning \cup Saving
    BY <1>2, <2>1, AheadOfMain
  <2> QED BY <1>1, <1>2, <2>2 DEF Programs, Tasks
<1>3. CASE t = "player"
  <2>1. Tail(prog["player"]) \in Seq(Harmless)
    BY <1>3, SteadyTail DEF Programs
  <2> QED BY <1>1, <1>3, <2>1 DEF Programs, Tasks
<1> QED BY <1>2, <1>3 DEF Tasks

LEMMA ProgramsPerforms ==
  ASSUME Programs, Shape, NEW effect, NEW args, Performs(effect, args)
  PROVE  Programs'
<1>1. ASSUME NEW p \in Seq(Steady) \cup Returning \cup Saving, Starts(p) PROVE Programs'
  BY <1>1, ProgramsStarts
<1>2. SaveProg \in Saving
  BY DEF Saving
<1>3. CASE \E p \in Seq(Steady) \cup Returning \cup Saving : OnlyRuns(p)
  BY <1>1, <1>3 DEF OnlyRuns
<1>4. CASE cmd_note(args)
  <2>1. CASE OnlyRuns(Usage) \/ OnlyRuns(<< >>)
    BY <1>3, <2>1, CommandsSteady
  <2>2. CASE Starts(SaveProg) \/ Starts(<< >>)
    BY <1>1, <1>2, <2>2, CommandsSteady
  <2> QED BY <1>4, <2>1, <2>2 DEF cmd_note
<1>5. CASE playrawjmp
  <2>1. prog'["main"] = prog["main"]
        /\ (prog'["player"] = prog["player"] \/ prog'["player"] = cmd_playraw)
    BY <1>5 DEF playrawjmp, Shape, Tasks
  <2> QED BY <2>1, PlayHarmless DEF Programs
<1> QED BY <1>3, <1>4, <1>5, CommandsSteady DEF Performs

LEMMA PollSteady ==
  ASSUME Shape, Keyed, Poll
  PROVE  UNCHANGED prog \/ \E p \in Seq(Steady) : Starts(p)
<1> DEFINE c == Decoded(Head(codes))
<1>1. codes # << >> /\ terminal_key(c)
  BY DEF Poll
<1>2. c # NoChar => c \in Chars
  BY <1>1, DecodedTyped
<1> HIDE DEF c
<1>3. Text("klog", <<"nl">>) \in Seq(Steady) /\ Text("klog", <<"bs">>) \in Seq(Steady)
  BY PiecesPuts, PutsSteady
<1>4. CASE Adds(c)
  <2>1. <<c>> \in Seq(Glyphs)
    BY <1>2, <1>4, TextGlyphs DEF Adds
  <2>2. Text("klog", <<c>>) \in Seq(Steady)
    BY <2>1, TextPuts, PutsSteady
  <2> QED BY <1>4, <2>2 DEF Adds
<1> QED BY <1>1, <1>3, <1>4 DEF terminal_key, Enters, Deletes, Ignores

LEMMA ProgramsDoes ==
  ASSUME Programs, Shape, NEW t \in Tasks, Does(t)
  PROVE  Programs'
<1> DEFINE i == This(t)
<1>1. prog[t] # << >>
  BY DEF Does, Ready
<1>2. CASE i.op # "drive" /\ Done(t)
  BY <1>1, <1>2, ProgramsDone
<1>3. t = "player" => i \in Harmless
  BY <1>1, SteadyTail DEF Programs, This
<1>4. CASE i.op = "drive" /\ prog' = [prog EXCEPT ![t] = LdShown(i.index, buf[t].kind = "super")]
  <2>1. t = "main"
    BY <1>3, <1>4 DEF Harmless, Plain, Tasks
  <2>2. i \in Instructions
    BY <1>1, ThisTyped
  <2>3. LdShown(i.index, buf[t].kind = "super") \in Returning
    <3>1. i.index \in 1 .. Len(Drives) /\ (buf[t].kind = "super") \in BOOLEAN
      BY <1>4, <2>2, Fields
    <3> HIDE DEF i
    <3> QED BY <3>1, LdShownReturns
  <2> DEFINE next == LdShown(i.index, buf[t].kind = "super")
  <2>4. prog' = [prog EXCEPT !["main"] = next] /\ next \in Returning
    BY <1>4, <2>1, <2>3
  <2> HIDE DEF next
  <2> QED BY <2>4, ProgramsStarts DEF Starts
<1>5. CASE i.op = "check" /\ prog' = [prog EXCEPT ![t] = IF buf[t].kind = "wave" THEN PlayOn ELSE PlayNot]
  <2>1. t # "main"
    <3> SUFFICES ASSUME t = "main" PROVE FALSE
      OBVIOUS
    <3>1. i \in Writeless \/ i = ReadI(Root) \/ i = WriteI(File)
      BY <1>1, AheadOfMain DEF Steady
    <3>2. ReadI(Root).op = "read" /\ WriteI(File).op = "write"
      BY DEF ReadI, WriteI
    <3> QED BY <1>5, <3>1, <3>2 DEF Writeless
  <2>2. prog'["player"] \in {PlayOn, PlayNot} /\ prog'["main"] = prog["main"]
    BY <1>5, <2>1 DEF Shape, Tasks
  <2> QED BY <2>2, PlayHarmless DEF Programs
<1> QED BY <1>2, <1>4, <1>5 DEF Does

LEMMA ProgramsStep == Programs /\ Shape /\ Keyed /\ [Next]_vars => Programs'
<1> SUFFICES ASSUME Programs, Shape, Keyed, [Next]_vars PROVE Programs'
  OBVIOUS
<1>1. CASE UNCHANGED prog
  BY <1>1 DEF Programs
<1>2. ASSUME NEW t \in Tasks, Prints(t) PROVE Programs'
  BY <1>2, ProgramsDone DEF Prints, Ready
<1>3. ASSUME NEW t \in Tasks, Accesses(t) PROVE Programs'
  BY <1>1, <1>3, ProgramsDone DEF Accesses, Ready
<1>4. CASE Resets
  <2>1. prog'["main"] = BootProg /\ prog'["player"] = << >>
    BY <1>4 DEF Resets, Alone, Tasks
  <2> QED BY <2>1, BootSteady DEF Programs
<1>5. CASE Poll
  BY <1>1, <1>5, PollSteady, ProgramsStarts
<1>6. CASE Execute
  <2>1. OnlyRuns(<< >>) \/ \E e, args : Performs(e, args)
    BY <1>6 DEF Execute
  <2>2. CASE OnlyRuns(<< >>)
    BY <2>2, CommandsSteady, ProgramsStarts DEF OnlyRuns
  <2> QED BY <2>1, <2>2, ProgramsPerforms
<1>7. CASE Again
  BY <1>7, CommandsSteady, ProgramsStarts DEF Again
<1>8. ASSUME NEW t \in Tasks, Settles(t) PROVE UNCHANGED prog
  BY <1>8 DEF Settles
<1>9. Waits \/ Exits \/ Types \/ Drive \/ UNCHANGED vars => UNCHANGED prog
  BY DEF Waits, Exits, Types, Drive, vars, shellVars
<1> QED BY <1>1, <1>2, <1>3, <1>4, <1>5, <1>6, <1>7, <1>8, <1>9, ProgramsDoes
        DEF Next, Main, Player, Runs, Tasks
-----------------------------------------------------------------------------
LEMMA HeldNotes == NotesTyped => Holding("notes", note_list) \in Held
BY DEF NotesTyped, Held, Kinds

\* A sector is written.
LEMMA SectorWritten ==
  ASSUME disk \in [Units -> [Sectors -> Held]], NEW u \in Units, NEW s \in Sectors, NEW v \in Held,
         disk' = [disk EXCEPT ![u][s] = v]
  PROVE  /\ disk' \in [Units -> [Sectors -> Held]] /\ disk'[u][s] = v
         /\ \A r \in Sectors \ {s} : disk'[u][r] = disk[u][r]
<1>1. disk[u] \in [Sectors -> Held]
  OBVIOUS
<1>2. PICK f : f = [disk[u] EXCEPT ![s] = v]
  OBVIOUS
<1>3. disk' = [disk EXCEPT ![u] = f]
  BY <1>2
<1>4. f \in [Sectors -> Held] /\ f[s] = v /\ \A r \in Sectors \ {s} : f[r] = disk[u][r]
  BY <1>1, <1>2
<1>5. disk' \in [Units -> [Sectors -> Held]] /\ disk'[u] = f
  BY <1>3, <1>4
<1> QED BY <1>4, <1>5

LEMMA NoiseHeld == Noise \in Held
BY DEF Noise, Held, Kinds

LEMMA SectorsAccess ==
  ASSUME SectorsTyped, Serving, NotesTyped, NEW t \in Tasks, Accesses(t)
  PROVE  SectorsTyped'
<1> DEFINE u == dev[sel.base].drive
           s == dev[sel.base].sector
<1>1. u \in Units /\ s \in Sectors
  BY UnitsHaveBases DEF Serving, AtaTyped, Registers
<1>2. CASE UNCHANGED <<disk, buf>>
  BY <1>2 DEF SectorsTyped
<1>3. CASE outsw(t, Holding("notes", note_list))
  <2>1. CASE Asked("write")
    <3> DEFINE v == Holding("notes", note_list)
    <3>1. v \in Held
      BY HeldNotes
    <3>2. disk' = [disk EXCEPT ![u][s] = v] /\ buf' = buf
      BY <1>3, <2>1 DEF outsw
    <3> HIDE DEF u, s, v
    <3> QED BY <1>1, <3>1, <3>2, SectorWritten DEF SectorsTyped
  <2> QED BY <1>2, <1>3, <2>1 DEF outsw
<1>4. CASE insw(t)
  <2>1. disk[u][s] \in Held
    BY <1>1 DEF SectorsTyped
  <2>2. disk' = disk /\ \E v \in Held : buf' = [buf EXCEPT ![t] = v]
    <3>1. CASE Asked("read")
      BY <1>4, <2>1, <3>1 DEF insw
    <3> QED BY <1>4, <3>1, NoiseHeld DEF insw
  <2> QED BY <2>2 DEF SectorsTyped
<1> QED BY <1>2, <1>3, <1>4
        DEF Accesses, Select, Selected, Transfer, ChooseDrive, WaitBusy, SetSector, Command, WaitDrq

\* What the steps that move no sector leave alone.
LEMMA DiskSame ==
  ASSUME OnlyNotesWritten, UNCHANGED <<disk, buf, sel, late, mixed, playing, note_list, unsaved>>,
         prog'["main"] = prog["main"]
  PROVE  OnlyNotesWritten'
BY DEF OnlyNotesWritten

\* The shell goes on with its program.
LEMMA DiskGoesOn ==
  ASSUME OnlyNotesWritten, Programs, Programs', prog["main"] # << >>,
         UNCHANGED <<disk, buf, sel, late, mixed, playing, note_list, unsaved>>,
         This("main").op \notin {"select", "read", "write"},
         \/ prog'["main"] = Tail(prog["main"])  /\ This("main").op # "drive"
         \/ prog'["main"] \in Returning /\ This("main").op = "drive"
  PROVE  OnlyNotesWritten'
<1> DEFINE p == prog["main"]
<1>1. /\ SelectI(Home).op = "select" /\ ReadI(Root).op = "read" /\ WriteI(File).op = "write"
  BY DEF SelectI, ReadI, WriteI
<1>2. p \notin Saving /\ prog'["main"] \notin Saving
      /\ (p \in Returning => prog'["main"] \in Returning)
  <2>1. p \notin Saving /\ (p \in Returning => Tail(p) \in Returning \/ This("main").op = "drive")
    BY <1>1, AheadOfMain, SaveSteps, ReturningTail DEF This
  <2>2. CASE prog'["main"] = Tail(p) /\ This("main").op # "drive"
    BY <1>1, <2>1, <2>2, AheadOfMain
  <2>3. CASE prog'["main"] \in Returning
    BY <2>1, <2>3, SaveSteps
  <2> QED BY <2>2, <2>3
<1> QED BY <1>2 DEF OnlyNotesWritten, Saving

LEMMA DiskMain ==
  ASSUME OnlyNotesWritten, Programs, Serving, Shape, NotesTyped,
         SectorsTyped, ~late, ~mixed, ~playing,
         AtPlace("main"), Accesses("main"), ~late', UNCHANGED playing
  PROVE  OnlyNotesWritten'
<1> DEFINE p == prog["main"]
           i == This("main")
           d == dev[sel.base]
<1>1. /\ p # << >> /\ UNCHANGED <<note_list, unsaved>> /\ io["main"] \in Places
      /\ sel \in Units /\ d.drive \in Units /\ d.sector \in Sectors
  BY UnitsHaveBases
     DEF Accesses, Ready, noteVars, Serving, AtaTyped, AtaTasks, Tasks, Registers
<1>2. /\ disk[Home][Root].kind = "root"
      /\ sel = Home \/ p \in Returning
      /\ p = Tail(SaveProg) => buf["main"].kind = "root"
      /\ unsaved \/ p \in Saving \/ disk[Home][File] = Holding("notes", note_list)
  BY DEF OnlyNotesWritten
<1>3. \A q \in Returning : q \notin Saving
  BY SaveSteps
<1>4. /\ SelectI(Home).op = "select" /\ ReadI(Root).op = "read" /\ WriteI(File).op = "write"
      /\ SelectI(Home).unit = Home /\ ReadI(Root).sector = Root
  BY DEF SelectI, ReadI, WriteI
<1>5. CASE i.op = "select" /\ Select("main", i.unit) /\ UNCHANGED prog
  <2>1. UNCHANGED <<disk, buf, prog>> /\ sel' = i.unit
    BY <1>5 DEF Select
  <2>2. i.unit = Home \/ p \in Returning
    BY <1>1, <1>4, <1>5, AheadOfMain DEF Steady
  <2> QED BY <1>1, <1>2, <2>1, <2>2 DEF OnlyNotesWritten
<1>6. CASE i.op = "select" /\ Selected("main", i.unit) /\ Done("main")
  <2>1. UNCHANGED <<disk, buf, sel>> /\ io["main"] = "select" /\ prog'["main"] = Tail(p)
    BY <1>6 DEF Selected, Done, Shape, Tasks
  <2>2. sel = i.unit
    BY <2>1 DEF AtPlace
  <2>3. p \notin Saving /\ Tail(p) \notin Saving
        /\ (p \in Returning => Tail(p) \in Returning \/ i = SelectI(Home))
    <3>1. p \in Returning => Tail(p) \in Returning \/ i = SelectI(Home)
      BY <1>1, <1>6, ReturningTail DEF This
    <3>2. p \notin Saving /\ Tail(p) \notin Saving
      BY <1>1, <1>4, <1>6, AheadOfMain
    <3> QED BY <3>1, <3>2
  <2>4. sel = Home \/ Tail(p) \in Returning
    BY <1>2, <1>4, <2>2, <2>3
  <2> QED BY <1>1, <1>2, <2>1, <2>3, <2>4 DEF OnlyNotesWritten, Saving
<1>7. CASE UNCHANGED <<prog, disk, buf, sel>>
  BY <1>1, <1>2, <1>7 DEF OnlyNotesWritten
<1>8. CASE i.op = "read" /\ insw("main") /\ Done("main")
  <2>1. /\ UNCHANGED <<disk, sel>> /\ io["main"] = "data" /\ prog'["main"] = Tail(p)
    BY <1>8 DEF insw, Done, Shape, Tasks
  <2>2. d.drive = sel /\ d.state = "drq" /\ d.cmd = i.op /\ d.sector \in Aim("main")
    BY <2>1 DEF AtPlace, InTransfer
  <2>3. p \in Returning => Tail(p) \in Returning
    BY <1>1, <1>4, <1>8, AheadOfMain, SaveSteps, ReturningTail DEF This
  <2>4. Tail(p) = Tail(SaveProg) => buf'["main"].kind = "root"
    <3> SUFFICES ASSUME Tail(p) = Tail(SaveProg) PROVE buf'["main"].kind = "root"
      OBVIOUS
    <3>1. Tail(p) \in Saving
      BY DEF Saving
    <3>2. p = SaveProg /\ i = ReadI(Root)
      BY <1>1, <3>1, AheadOfMain
    <3>3. sel = Home
      BY <1>2, <1>3, <3>2 DEF Saving
    <3>4. d.sector = Root
      BY <1>4, <1>8, <2>2, <3>2 DEF Aim
    <3>5. buf' = [buf EXCEPT !["main"] = disk[d.drive][d.sector]]
      BY <1>8, <2>2 DEF insw, Asked
    <3>6. buf'["main"] = disk[Home][Root]
      BY <2>2, <3>3, <3>4, <3>5 DEF SectorsTyped, AtaTasks
    <3> QED BY <1>2, <3>6
  <2>5. unsaved \/ Tail(p) \in Saving \/ disk[Home][File] = Holding("notes", note_list)
    <3>1. p \in Saving => Tail(p) \in Saving
      BY <1>1, <1>4, <1>8, AheadOfMain, SavingHead DEF Saving
    <3> QED BY <1>2, <3>1
  <2> HIDE DEF i, d, p
  <2> QED BY <1>1, <1>2, <2>1, <2>3, <2>4, <2>5 DEF OnlyNotesWritten
<1>9. CASE i.op = "write" /\ outsw("main", Holding("notes", note_list)) /\ Done("main")
  <2>1. /\ UNCHANGED <<buf, sel>> /\ io["main"] = "data" /\ prog'["main"] = Tail(p)
    BY <1>9 DEF outsw, Done, Shape, Tasks
  <2>2. d.drive = sel /\ d.state = "drq" /\ d.cmd = i.op /\ d.sector \in Aim("main")
    BY <2>1 DEF AtPlace, InTransfer
  <2>3. p = Tail(SaveProg) /\ Tail(p) \in Seq(Steady) /\ Tail(p) \notin Saving
    BY <1>1, <1>4, <1>9, AheadOfMain DEF Steady, Writeless
  <2>4. sel = Home
    BY <1>2, <1>3, <2>3 DEF Saving
  <2>5. d.sector = File
    BY <1>2, <1>9, <2>2, <2>3 DEF Aim, Target
  <2>6. disk' = [disk EXCEPT ![Home][File] = Holding("notes", note_list)]
    BY <1>9, <2>2, <2>4, <2>5 DEF outsw, Asked
  <2>7. Holding("notes", note_list) \in Held /\ Home \in Units /\ {File, Root} \subseteq Sectors
        /\ File # Root
    BY HeldNotes, AtaAssumption, ShellAssumption DEF File, Root
  <2>8. /\ disk'[Home][File] = Holding("notes", note_list)
        /\ disk'[Home][Root] = disk[Home][Root]
    BY <2>6, <2>7, SectorWritten DEF SectorsTyped
  <2> HIDE DEF i, d, p
  <2> QED BY <1>1, <1>2, <2>1, <2>3, <2>4, <2>8 DEF OnlyNotesWritten, Saving
<1> QED BY <1>5, <1>6, <1>7, <1>8, <1>9
        DEF Accesses, Transfer, ChooseDrive, WaitBusy, SetSector, Command, WaitDrq

LEMMA DiskPlayer ==
  ASSUME OnlyNotesWritten, Programs, Shape, SectorsTyped, ~late, ~mixed, playing,
         Accesses("player"), ~late', UNCHANGED playing
  PROVE  OnlyNotesWritten'
<1>1. prog["player"] # << >> /\ UNCHANGED <<note_list, unsaved>>
  BY DEF Accesses, Ready, noteVars
<1>2. This("player").op # "write"
  BY <1>1, SteadyTail DEF This, Programs, Harmless
<1>3. prog'["main"] = prog["main"]
  BY DEF Accesses, Done, Shape, Tasks
<1>4. UNCHANGED disk /\ buf'["main"] = buf["main"]
  <2>1. CASE insw("player")
    BY <2>1 DEF insw, SectorsTyped, AtaTasks
  <2> QED BY <1>2, <2>1
          DEF Accesses, Select, Selected, Transfer, ChooseDrive, WaitBusy, SetSector, Command, WaitDrq
<1> QED BY <1>1, <1>3, <1>4 DEF OnlyNotesWritten

\* A command: only one that makes a note has anything to save.
LEMMA DiskPerforms ==
  ASSUME DiskInv, Shape, prog["main"] = << >>, NEW effect, NEW args, Performs(effect, args),
         UNCHANGED <<disk, buf, sel, late, mixed>>
  PROVE  OnlyNotesWritten'
<1> USE DEF DiskInv
<1>1. << >> \notin Saving /\ << >> \notin Returning
  BY SaveSteps DEF Returning
<1>2. ASSUME ~late, ~mixed
      PROVE  /\ disk[Home][Root].kind = "root"
             /\ ~playing => sel = Home
             /\ unsaved \/ disk[Home][File] = Holding("notes", note_list)
  BY <1>1, <1>2 DEF OnlyNotesWritten
<1>3. \A p : Starts(p) => prog'["main"] = p
  BY DEF Starts, Shape, Tasks
<1>4. \A p \in Seq(Steady) \cup Returning : p # Tail(SaveProg)
  BY SaveSteps DEF Saving
<1>5. ASSUME NEW p \in Seq(Steady) \cup Returning, OnlyRuns(p) PROVE OnlyNotesWritten'
  BY <1>2, <1>3, <1>4, <1>5 DEF OnlyRuns, OnlyNotesWritten
<1>6. CASE cmd_note(args)
  <2>1. CASE OnlyRuns(Usage) \/ OnlyRuns(<< >>)
    BY <1>5, <2>1, CommandsSteady
  <2>2. CASE Starts(SaveProg) /\ UNCHANGED playing
    <3>1. SaveProg \in Saving /\ SaveProg # Tail(SaveProg)
      BY SavingHead DEF Saving
    <3> QED BY <1>2, <1>3, <2>2, <3>1 DEF OnlyNotesWritten
  <2>3. CASE /\ Starts(<< >>) /\ UNCHANGED playing
             /\ unsaved' = (unsaved \/ note_list' # note_list)
    <3>1. << >> # Tail(SaveProg)
      BY <1>1 DEF Saving
    <3> QED BY <1>2, <1>3, <2>3, <3>1 DEF OnlyNotesWritten
  <2> QED BY <1>6, <2>1, <2>2, <2>3 DEF cmd_note
<1>7. CASE playrawjmp
  <2>1. prog'["main"] = << >> /\ playing' = TRUE /\ UNCHANGED <<note_list, unsaved>>
    BY <1>7 DEF playrawjmp, Shape, Tasks
  <2>2. << >> # Tail(SaveProg)
    BY <1>1 DEF Saving
  <2> QED BY <1>2, <2>1, <2>2 DEF OnlyNotesWritten
<1> QED BY <1>5, <1>6, <1>7, CommandsSteady DEF Performs

LEMMA DiskExecute ==
  ASSUME DiskInv, Shape, Programs', Execute
  PROVE  DiskInv'
<1>1. prog["main"] = << >> /\ UNCHANGED <<disk, buf, sel, late, mixed>>
  BY DEF Execute, Free, ataVars
<1>2. OnlyRuns(<< >>) \/ \E e, args : Performs(e, args)
  BY DEF Execute
<1>3. SectorsTyped'
  BY <1>1 DEF DiskInv, SectorsTyped
<1>4. CASE OnlyRuns(<< >>)
  <2>1. prog'["main"] = prog["main"] /\ UNCHANGED <<note_list, unsaved, playing>>
    BY <1>1, <1>4 DEF OnlyRuns, Starts, Shape, Tasks
  <2> QED BY <1>1, <1>3, <2>1, DiskSame DEF DiskInv
<1> QED BY <1>1, <1>2, <1>3, <1>4, DiskPerforms DEF DiskInv

LEMMA DiskStep ==
  DiskInv /\ NotesTyped /\ Orderly /\ Serving /\ Shape /\ Keyed /\ [Next]_vars => DiskInv'
<1> SUFFICES ASSUME DiskInv, NotesTyped, Orderly, Serving, Shape, Keyed, [Next]_vars PROVE DiskInv'
  OBVIOUS
<1> USE DEF DiskInv
<1>1. Programs'
  BY ProgramsStep
<1>2. ASSUME UNCHANGED <<disk, buf>> PROVE SectorsTyped'
  BY <1>2 DEF SectorsTyped
<1>3. ASSUME NEW t \in Tasks, Accesses(t) PROVE DiskInv'
  <2>1. SectorsTyped'
    BY <1>3, SectorsAccess
  <2>2. prog[t] # << >> /\ UNCHANGED playing /\ mixed' = (mixed \/ (t = "main" /\ playing))
    BY <1>3 DEF Accesses, Ready
  <2>3. late => late'
    BY <1>3 DEF Accesses, Select, Selected, Transfer, ChooseDrive, WaitBusy, SetSector, Command,
                WaitDrq, insw, outsw
  <2>4. CASE late' \/ mixed'
    BY <1>1, <2>1, <2>4 DEF OnlyNotesWritten
  <2>5. CASE ~late' /\ ~mixed'
    <3>1. ~late /\ ~mixed /\ t = (IF playing THEN "player" ELSE "main")
      BY <2>2, <2>3, <2>5 DEF Serving, Tasks
    <3>2. ~playing => AtPlace("main")
      BY <3>1 DEF Orderly
    <3> QED BY <1>1, <1>3, <2>1, <2>2, <2>5, <3>1, <3>2, DiskMain, DiskPlayer
  <2> QED BY <2>4, <2>5
<1>4. ASSUME NEW t \in Tasks, Prints(t) \/ Does(t) PROVE DiskInv'
  <2>1. /\ prog[t] # << >> /\ This(t).op \notin {"select", "read", "write"}
        /\ UNCHANGED <<ataVars, mixed, playing, unsaved>>
        /\ \A u \in Tasks \ {t} : prog'[u] = prog[u]
    BY <1>4 DEF Prints, Does, Ready, Done, Shape
  <2>2. UNCHANGED <<disk, buf, sel, late, note_list>>
    BY <1>4, <2>1 DEF ataVars, Prints, Does, noteVars, klog_status
  <2>3. CASE t = "player"
    BY <1>1, <1>2, <2>1, <2>2, <2>3, DiskSame DEF Tasks
  <2>4. CASE t = "main"
    <3>1. \/ prog'["main"] = Tail(prog["main"]) /\ This("main").op # "drive"
          \/ prog'["main"] \in Returning /\ This("main").op = "drive"
      <4>1. CASE Done("main") /\ This("main").op # "drive"
        BY <4>1 DEF Done, Shape, Tasks
      <4>2. CASE /\ This("main").op = "drive"
                 /\ prog' = [prog EXCEPT !["main"] = LdShown(This("main").index, buf["main"].kind = "super")]
        <5>1. This("main").index \in 1 .. Len(Drives) /\ (buf["main"].kind = "super") \in BOOLEAN
          BY <2>1, <2>4, <4>2, ThisTyped, Fields
        <5>2. LdShown(This("main").index, buf["main"].kind = "super") \in Returning
          BY <5>1, LdShownReturns
        <5> DEFINE next == LdShown(This("main").index, buf["main"].kind = "super")
        <5>3. next \in Returning /\ prog' = [prog EXCEPT !["main"] = next]
          BY <4>2, <5>2
        <5> HIDE DEF next
        <5> QED BY <4>2, <5>3 DEF Shape, Tasks
      <4>3. This("main").op # "check"
        <5>1. This("main") \in Writeless \/ This("main") = ReadI(Root) \/ This("main") = WriteI(File)
          BY <2>1, <2>4, AheadOfMain DEF Steady
        <5>2. ReadI(Root).op = "read" /\ WriteI(File).op = "write"
          BY DEF ReadI, WriteI
        <5> QED BY <5>1, <5>2 DEF Writeless
      <4>4. CASE Prints("main")
        BY <4>1, <4>4 DEF Prints
      <4>5. CASE Does("main")
        BY <4>1, <4>2, <4>3, <4>5 DEF Does
      <4> QED BY <1>4, <2>4, <4>4, <4>5
    <3> QED BY <1>1, <1>2, <2>1, <2>2, <2>4, <3>1, DiskGoesOn
  <2> QED BY <2>3, <2>4 DEF Tasks
<1>5. CASE /\ UNCHANGED <<disk, buf, sel, late, mixed, playing, note_list, unsaved>>
           /\ prog'["main"] = prog["main"]
  BY <1>1, <1>2, <1>5, DiskSame
<1>6. CASE Resets
  <2>1. /\ sel' = Home /\ disk' = disk /\ buf' = [t \in AtaTasks |-> Noise]
        /\ late' = late /\ mixed' = mixed /\ unsaved' = TRUE /\ prog'["main"] = BootProg
    BY <1>6 DEF Resets, AtaReset, Alone, Tasks
  <2>2. SectorsTyped'
    BY <2>1, NoiseHeld DEF SectorsTyped
  <2>3. BootProg # Tail(SaveProg)
    BY BootSteady, SaveSteps DEF Saving
  <2> QED BY <1>1, <2>1, <2>2, <2>3 DEF OnlyNotesWritten
<1>7. CASE Poll \/ Again
  <2>1. /\ prog["main"] = << >> /\ UNCHANGED <<ataVars, note_list, mixed, playing, unsaved>>
    BY <1>7 DEF Poll, Again, Free, noteVars
  <2>2. prog'["main"] = prog["main"] \/ \E p \in Seq(Steady) : Starts(p)
    BY <1>7, PollSteady, CommandsSteady DEF Again
  <2>3. CASE \E p \in Seq(Steady) : Starts(p)
    <3>1. prog'["main"] \in Seq(Steady)
      BY <2>3 DEF Starts, Shape, Tasks
    <3>2. prog["main"] \notin Returning /\ prog["main"] \notin Saving
      BY <2>1, SaveSteps DEF Returning
    <3>3. prog'["main"] # Tail(SaveProg)
      BY <3>1, SaveSteps DEF Saving
    <3> QED BY <1>1, <1>2, <2>1, <3>2, <3>3 DEF OnlyNotesWritten, ataVars
  <2> QED BY <1>5, <2>1, <2>2, <2>3 DEF ataVars
<1>8. CASE Execute
  BY <1>1, <1>8, DiskExecute
<1>9. ASSUME NEW t \in Tasks, Settles(t) PROVE DiskInv'
  BY <1>5, <1>9 DEF Settles, ataVars, noteVars
<1>10. CASE Waits \/ Exits \/ Types \/ UNCHANGED vars
  BY <1>5, <1>10 DEF Waits, Exits, Types, vars, ataVars, shellVars, noteVars
<1>11. CASE Drive
  BY <1>5, <1>11 DEF Drive, DevData, DevReady, shellVars, noteVars
<1> QED BY <1>3, <1>4, <1>6, <1>7, <1>8, <1>9, <1>10, <1>11 DEF Next, Main, Player, Runs, Tasks

LEMMA DiskInit == Init => DiskInv
<1> SUFFICES ASSUME Init PROVE DiskInv
  OBVIOUS
<1>1. /\ disk = Contents /\ buf = [t \in AtaTasks |-> Noise] /\ sel = Home
      /\ unsaved = TRUE /\ prog["main"] = BootProg /\ prog["player"] = << >>
  BY DEF Init, AtaInit, ShellInit, Alone, Tasks
<1>2. {Holding(k, << >>) : k \in Kinds} \subseteq Held
  BY DEF Held
<1>3. SectorsTyped
  BY <1>1, <1>2, NoiseHeld, AtaAssumption DEF SectorsTyped
<1>4. BootProg \in Seq(Steady) /\ BootProg # Tail(SaveProg)
  BY BootSteady, SaveSteps DEF Saving
<1>5. Programs
  BY <1>1, <1>4 DEF Programs
<1> QED BY <1>1, <1>3, <1>4, <1>5, FormattedAssumption DEF DiskInv, OnlyNotesWritten

\* When the prompt is back, the notes on the disk are those in memory, whatever was
\* typed and however the drives answered: unless the last change was a deletion or
\* a boot, a wait has given up, or the player was at the disk at the same time
\* (new_note, save_notes_to_disk; delete_note and delete_all_notes do not save).
THEOREM NotesKept == Spec => []NotesOnDisk
<1>1. DiskInv => NotesOnDisk
  BY SaveSteps DEF DiskInv, OnlyNotesWritten, NotesOnDisk, Idle
<1> QED BY <1>1, DiskInit, NotesInitTyped, ServingInit, OrderlyInit, DiskStep, NotesStep, ServingStep,
           OrderlyStep, TypesHold, PTL DEF Spec

=============================================================================
