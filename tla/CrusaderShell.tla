--------------------------- MODULE CrusaderShell ---------------------------
(***************************************************************************)
(* The shell task: system_main_task polls the keyboard, terminal_key edits *)
(* the line, execute_command runs it.  Composed of the keyboard, the       *)
(* screen, the notes and the disk channels, and of the player task, which  *)
(* uses screen and channels at the same time.                              *)
(*                                                                         *)
(* What a command does is a sequence of instructions, prog[t]: characters  *)
(* to print, sectors to move.  Each is carried out in the steps of its     *)
(* component, and any step of the other task, of the user or of a drive    *)
(* may come between two of them.                                           *)
(***************************************************************************)
EXTENDS CrusaderKeyboard, CrusaderScreen, CrusaderNotes, CrusaderAta, SequencesExt

CONSTANTS
  BufSize,     \* CMD_BUF_SIZE, 32768
  MaxArgs,     \* argv of execute_command, 8
  CommandOf,   \* the table of commands: from words to what they do
  AllWord,     \* the word "all"
  Prompt,      \* the text of the prompt
  CatLines,    \* lines of the picture cmd_cat prints, 11
  Drives,      \* g_drives, in order
  PlayUnit,    \* 0x1F0, slave
  Chunks,      \* sectors the player reads
  Scripts      \* bound: what the user types, and whether drives are slow

VARIABLES
  pc,        \* the place of the shell task
  cmd_buf,   \* with cmd_len characters
  prog,      \* per task: the instructions ahead
  playing,   \* the player has been started
  todo,      \* the strikes the user has still to make
  line,      \* ghost: the line as the user means it
  meant,     \* ghost: the lines the user has entered
  ran,       \* ghost: the lines that were executed
  mark,      \* ghost: where on the screen the line begins; Lost when not known
  unsaved,   \* ghost: the list has changed in a way that is not saved
  mixed      \* ghost: both tasks have used the disk at the same time

shellVars == <<pc, cmd_buf, prog, playing, todo, line, meant, ran, mark, unsaved, mixed>>
vars == <<kbdVars, scrVars, noteVars, ataVars, shellVars>>

-----------------------------------------------------------------------------
(* Instructions                                                            *)

Super == 0
Root  == 1
File  == 2   \* the data of notes.cos, which has been made

Lost == -1

\* What is printed; a line of text is one character, only where it ends matters.
Glyphs == Chars \cup {".", "nl", "bs"}

ASSUME ShellAssumption ==
  /\ BufSize \in Nat \ {0} /\ MaxArgs \in Nat \ {0} /\ Chunks \in Nat
  /\ PlayUnit \in Units /\ Drives \in Seq(Units) /\ Prompt \in Seq(Glyphs)
  /\ CatLines \in Nat /\ {Super, Root, File} \subseteq Sectors
  /\ \A k \in DOMAIN map_lower : {map_lower[k], map_upper[k]} \subseteq Chars \cup {NoChar}
  /\ \A s \in Scripts : s.keys \in Seq(Strikes) /\ s.slow \in BOOLEAN

\* The disk that is mounted has a root.
ASSUME FormattedAssumption == Contents[Home][Root].kind = "root"

Text(how, s) == [i \in 1 .. Len(s) |-> [op |-> "put", how |-> how, ch |-> s[i]]]

kklog       == Text("klog", <<".", "nl">>)
Usage       == Text("klog", <<".", "nl", "nl">>)
kklog_line  == Text("colour", <<".">>) \o Text("klog", <<"nl">>)   \* kklog_red, kklog_green

SelectI(u)  == [op |-> "select", unit |-> u]
ReadI(s)    == [op |-> "read", sector |-> s]
WriteI(s)   == [op |-> "write", sector |-> s]
StatusI(m)  == [op |-> "status", msg |-> m]
DoI(op)     == [op |-> op]

Instructions ==
  [op : {"put"}, how : {"klog", "colour", "vesa"}, ch : Glyphs]
  \cup [op : {"select"}, unit : Units] \cup [op : {"read", "write"}, sector : Sectors]
  \cup [op : {"status"}, msg : Messages] \cup [op : {"drive"}, index : 1 .. Len(Drives)]
  \cup [op : {"clear", "down", "check", "reset", "exit"}]

Times(n, s) == [i \in 1 .. n * Len(s) |-> s[((i - 1) % Len(s)) + 1]]

\* klog("\n"), the prompt in yellow, orange and yellow.
Prompting == Text("klog", <<"nl">>) \o Text("colour", Prompt)

\* kmain from init_fs to init_multitasking.
BootProg == <<SelectI(Home), ReadI(Super), ReadI(Root)>> \o Prompting
            \o <<StatusI("BOOTED"), StatusI("MULTITASKING_STARTED")>>

\* Mutant: the list is written before the directory is read.
SaveProgMutant == <<WriteI(File), ReadI(Root), StatusI("NOTES_SAVED")>>

\* save_notes_to_disk, once notes.cos exists: the root is read for its inode.
SaveProg == <<ReadI(Root), WriteI(File), StatusI("NOTES_SAVED")>>

cmd_help   == Times(4, kklog_line)
cmd_cat    == Times(CatLines, Text("vesa", <<".", "nl">>))
cmd_reboot == Usage \o <<DoI("reset")>>

\* cmd_ld from drive i on: each is selected and its superblock looked at; at the
\* end, the drive that was current.
LdFrom(i) ==
  IF i > Len(Drives) THEN <<SelectI(Home)>>
  ELSE Times(4, kklog) \o <<SelectI(Drives[i]), ReadI(Super), [op |-> "drive", index |-> i]>>

LdShown(i, formatted) ==
  kklog_line
  \o Times(IF formatted THEN 3 ELSE IF Drives[i] = Home THEN 1 ELSE 0, kklog)
  \o Text("klog", <<"nl">>) \o <<DoI("down")>> \o LdFrom(i + 1)

cmd_ld == kklog_line \o LdFrom(1)

\* cmd_playraw: a first sector that is not a wave ends it.
cmd_playraw == <<SelectI(PlayUnit), ReadI(Super), DoI("check")>>
PlayOn      == Text("colour", <<".", "nl">>) \o Text("klog", <<"nl">>)
               \o [i \in 1 .. Chunks |-> ReadI(Root)]
               \o Usage \o <<SelectI(Home), DoI("exit")>>
PlayNot     == kklog \o <<SelectI(Home), DoI("exit")>>

-----------------------------------------------------------------------------
(* The line                                                                *)

Idle == pc = "poll" /\ prog["main"] = << >> /\ due["main"] = "no"

\* The line as the user means it.
Typed(s, c) ==
  IF c = "bs" THEN IF s = << >> THEN s ELSE Front(s)
  ELSE IF Len(s) < BufSize - 1 THEN Append(s, c) ELSE s

\* The places of a line where a word begins, and how many words have begun at i.
Beginnings(s) == {i \in DOMAIN s : s[i] # " " /\ (i > 1 => s[i - 1] = " ")}

Begun(s, i) == Cardinality({j \in Beginnings(s) : j <= i})

\* The k-th word: behind what belongs to the words before it, up to a blank.
WordAt(s, k) ==
  LET before == Cardinality({i \in DOMAIN s : Begun(s, i) < k})
      size   == Cardinality({i \in DOMAIN s : Begun(s, i) = k /\ s[i] # " "})
  IN SubSeq(s, before + 1, before + size)

\* The words of a line, no more than argv has room for.
WordsOf(s) ==
  LET n == Cardinality(Beginnings(s))
  IN [k \in 1 .. (IF n > MaxArgs THEN MaxArgs ELSE n) |-> WordAt(s, k)]

-----------------------------------------------------------------------------
Alone(p) == [t \in Tasks |-> IF t = "main" THEN p ELSE << >>]

ShellInit ==
  /\ pc = "boot" /\ cmd_buf = << >>
  /\ prog = Alone(BootProg) /\ playing = FALSE
  /\ \E s \in Scripts : todo = s.keys /\ slow = s.slow
  /\ line = << >> /\ meant = << >> /\ ran = << >>
  /\ mark = Lost /\ unsaved = TRUE /\ mixed = FALSE

Init == KbdInit /\ ScrInit /\ NotesInit /\ AtaInit /\ ShellInit

-----------------------------------------------------------------------------
(* Carrying out an instruction                                             *)

Ready(t) == pc # "halted" /\ prog[t] # << >> /\ due[t] = "no"

This(t) == Head(prog[t])

Done(t) == prog' = [prog EXCEPT ![t] = Tail(@)]

\* The place of the line is no longer known when something else is printed, when
\* the screen is cleared, and after a backspace over the edge.
Prints(t) ==
  /\ Ready(t) /\ This(t).op = "put" /\ Done(t)
  /\ LET i == This(t) IN
     CASE i.how = "vesa" -> vesa_print_char(i.ch)
       [] i.how # "vesa" /\ i.ch = "nl" -> NewLine(t)
       [] i.how # "vesa" /\ i.ch = "bs" -> Backspace(t)
       [] OTHER -> Character(t, i.how, i.ch)
  /\ mark' = IF t = "player" \/ (This(t).ch = "bs" /\ c_x = 0) THEN Lost ELSE mark
  /\ UNCHANGED <<kbdVars, noteVars, ataVars,
                 pc, cmd_buf, playing, todo, line, meant, ran, unsaved, mixed>>

Settles(t) ==
  /\ pc # "halted" /\ Settle(t)
  /\ mark' = IF t = "player" \/ Pages(t) THEN Lost ELSE mark
  /\ UNCHANGED <<kbdVars, noteVars, ataVars,
                 pc, cmd_buf, prog, playing, todo, line, meant, ran, unsaved, mixed>>

\* The sector a write goes to: that of notes.cos, if what was read is the root.
Target(t) == IF buf[t].kind = "root" THEN {File} ELSE Sectors

\* select_drive, block_read and block_write.
Accesses(t) ==
  /\ Ready(t)
  /\ LET i == This(t) IN
     \/ i.op = "select" /\ Select(t, i.unit) /\ UNCHANGED prog
     \/ i.op = "select" /\ Selected(t, i.unit) /\ Done(t)
     \/ i.op = "read" /\ Transfer(t, "read", i.sector) /\ UNCHANGED prog
     \/ i.op = "read" /\ insw(t) /\ Done(t)
     \/ /\ i.op = "write" /\ UNCHANGED prog
        /\ \E s \in Target(t) : Transfer(t, "write", s)
     \/ i.op = "write" /\ outsw(t, Holding("notes", note_list)) /\ Done(t)
  /\ mixed' = (mixed \/ (t = "main" /\ playing))
  /\ UNCHANGED <<kbdVars, scrVars, noteVars,
                 pc, cmd_buf, playing, todo, line, meant, ran, mark, unsaved>>

\* A status line, the screen cleared, the cursor moved, the superblock of a drive
\* or a wave recognised.
Does(t) ==
  /\ Ready(t)
  /\ LET i == This(t) IN
     \/ /\ i.op = "status" /\ klog_status(i.msg) /\ Done(t)
        /\ UNCHANGED <<scrVars, mark>>
     \/ /\ i.op = "clear" /\ vesa_clear /\ Done(t)
        /\ mark' = Lost /\ UNCHANGED noteVars
     \/ /\ i.op = "down" /\ MoveDown /\ Done(t)
        /\ UNCHANGED <<noteVars, mark>>
     \/ /\ i.op = "drive"
        /\ prog' = [prog EXCEPT ![t] = LdShown(i.index, buf[t].kind = "super")]
        /\ UNCHANGED <<scrVars, noteVars, mark>>
     \/ /\ i.op = "check"
        /\ prog' = [prog EXCEPT ![t] = IF buf[t].kind = "wave" THEN PlayOn ELSE PlayNot]
        /\ UNCHANGED <<scrVars, noteVars, mark>>
  /\ UNCHANGED <<kbdVars, ataVars,
                 pc, cmd_buf, playing, todo, line, meant, ran, unsaved, mixed>>

\* reboot_triple_fault: everything in memory goes; notes are not loaded at boot.
Resets ==
  /\ Ready("main") /\ This("main").op = "reset"
  /\ KbdReset /\ ScrReset /\ NotesReset /\ AtaReset
  /\ pc' = "boot" /\ cmd_buf' = << >>
  /\ prog' = Alone(BootProg) /\ playing' = FALSE
  /\ line' = << >> /\ mark' = Lost /\ unsaved' = TRUE
  /\ UNCHANGED <<todo, meant, ran, mixed>>

\* task_exit stops the machine.
Exits ==
  /\ Ready("player") /\ This("player").op = "exit" /\ pc' = "halted"
  /\ UNCHANGED <<kbdVars, scrVars, noteVars, ataVars, cmd_buf, prog, playing,
                 todo, line, meant, ran, mark, unsaved, mixed>>

-----------------------------------------------------------------------------
(* The shell task                                                          *)

Starts(p) == prog' = [prog EXCEPT !["main"] = p]

Free == prog["main"] = << >> /\ due["main"] = "no"

Enters(c) ==
  /\ c = "nl" /\ pc' = "execute"
  /\ Starts(Text("klog", <<"nl">>)) /\ UNCHANGED cmd_buf

Deletes(c) ==
  /\ c = "bs" /\ cmd_buf # << >> /\ cmd_buf' = Front(cmd_buf)
  /\ Starts(Text("klog", <<"bs">>)) /\ UNCHANGED pc

\* Mutant: the place of the 0 is not kept.
AddsMutant(c) ==
  /\ c \notin {"nl", "bs", NoChar} /\ Len(cmd_buf) < BufSize
  /\ cmd_buf' = Append(cmd_buf, c) /\ Starts(Text("klog", <<c>>)) /\ UNCHANGED pc

Adds(c) ==
  /\ c \notin {"nl", "bs", NoChar} /\ Len(cmd_buf) < BufSize - 1
  /\ cmd_buf' = Append(cmd_buf, c) /\ Starts(Text("klog", <<c>>)) /\ UNCHANGED pc

Ignores(c) ==
  /\ \/ c = NoChar
     \/ c = "bs" /\ cmd_buf = << >>
     \/ c \notin {"nl", "bs"} /\ Len(cmd_buf) >= BufSize - 1
  /\ UNCHANGED <<pc, cmd_buf, prog>>

terminal_key(c) == Enters(c) \/ Deletes(c) \/ Adds(c) \/ Ignores(c)

\* A round of system_main_task that finds a code.
Poll ==
  /\ pc = "poll" /\ Free /\ codes # << >>
  /\ ReadCode /\ terminal_key(Decoded(Head(codes)))
  /\ UNCHANGED <<scrVars, noteVars, ataVars,
                 playing, todo, line, meant, ran, mark, unsaved, mixed>>

\* What a command does to the shell: a list of instructions, and a change of
\* the notes, of the player, or of none of them.
OnlyRuns(p) == Starts(p) /\ UNCHANGED <<note_list, unsaved, playing>>

\* cmd_note.  With no slot free the note is dropped without a word; a note that
\* is deleted stays on the disk until the next is made.
cmd_note(args) ==
  IF Len(args) < 3 \/ args[2][1] \notin {"c", "d"} \/ (args[2][1] = "c" /\ Len(args) < 4)
    THEN OnlyRuns(Usage)
  ELSE IF args[2][1] = "c"
    THEN IF FreeSlots = {} THEN OnlyRuns(<< >>)
         ELSE /\ note_list' = NoteMade(args[3], args[4]) /\ unsaved' = FALSE
              /\ Starts(SaveProg) /\ UNCHANGED playing
  ELSE /\ IF args[3] = AllWord THEN delete_all_notes ELSE delete_note(args[3])
       /\ unsaved' = (unsaved \/ note_list' # note_list)
       /\ Starts(<< >>) /\ UNCHANGED playing

\* create_task(cmd_playraw); the table has room for one player.
playrawjmp ==
  /\ prog' = [prog EXCEPT !["player"] = IF playing THEN @ ELSE cmd_playraw]
  /\ playing' = TRUE /\ UNCHANGED <<note_list, unsaved>>

Effects == {"help", "clear", "cat", "ld", "note", "play1", "reboot", "unknown"}

Performs(effect, args) ==
  CASE effect = "help"   -> OnlyRuns(cmd_help)
    [] effect = "clear"  -> OnlyRuns(<<DoI("clear")>>)
    [] effect = "cat"    -> OnlyRuns(cmd_cat)
    [] effect = "ld"     -> OnlyRuns(cmd_ld)
    [] effect = "reboot" -> OnlyRuns(cmd_reboot)
    [] effect = "note"   -> cmd_note(args)
    [] effect = "play1"  -> playrawjmp
    [] OTHER             -> OnlyRuns(kklog)

\* execute_command.  On a line of blanks argv[0] was never set: what it points
\* at may be the name of any command, or of none, or nothing at all.
Execute ==
  /\ pc = "execute" /\ Free
  /\ LET args == WordsOf(cmd_buf) IN
     IF cmd_buf = << >>
       THEN pc' = "again" /\ OnlyRuns(<< >>)
     ELSE IF args = << >>
       THEN \/ pc' = "again" /\ \E e \in Effects : Performs(e, args)
            \/ pc' = "halted" /\ OnlyRuns(<< >>)
     ELSE /\ pc' = "again"
          /\ Performs(IF args[1] \in DOMAIN CommandOf THEN CommandOf[args[1]]
                       ELSE "unknown", args)
  /\ ran' = Append(ran, cmd_buf)
  /\ UNCHANGED <<kbdVars, scrVars, log_buffer, logs, ataVars,
                 cmd_buf, todo, line, meant, mark, mixed>>

\* The rest of terminal_key: the emptied line is executed a second time, which
\* does nothing, and the prompt is printed.
Again ==
  /\ pc = "again" /\ Free
  /\ cmd_buf' = << >> /\ Starts(Prompting) /\ pc' = "prompt"
  /\ UNCHANGED <<kbdVars, scrVars, noteVars, ataVars,
                 playing, todo, line, meant, ran, mark, unsaved, mixed>>

\* Back in the poll loop, from a command or from kmain.  Where a character of the
\* player still hangs over the edge, the next line begins nobody knows where.
Waits ==
  /\ pc \in {"boot", "prompt"} /\ Free
  /\ pc' = "poll" /\ mark' = IF c_x < Cols THEN c_y * Cols + c_x ELSE Lost
  /\ UNCHANGED <<kbdVars, scrVars, noteVars, ataVars,
                 cmd_buf, prog, playing, todo, line, meant, ran, unsaved, mixed>>

-----------------------------------------------------------------------------
(* Everyone                                                                *)

\* The user strikes a key, whatever the machine is doing.  (Bound: no more once a
\* code is missed.)
Types ==
  /\ todo # << >> /\ ~missed /\ pc # "halted" /\ Strike(Head(todo)) /\ todo' = Tail(todo)
  /\ LET c == Meant(Head(todo)) IN
     /\ line' = IF c = "nl" THEN << >> ELSE IF c = NoChar THEN line ELSE Typed(line, c)
     /\ meant' = IF c = "nl" THEN Append(meant, line) ELSE meant
  /\ UNCHANGED <<scrVars, noteVars, ataVars, pc, cmd_buf, prog, playing, ran, mark,
                 unsaved, mixed>>

Drive ==
  /\ pc # "halted" /\ \E b \in Bases : DevData(b) \/ DevReady(b)
  /\ UNCHANGED <<kbdVars, scrVars, noteVars, shellVars>>

Runs(t) == Prints(t) \/ Settles(t) \/ Accesses(t) \/ Does(t)

Main == Runs("main") \/ Resets \/ Poll \/ Execute \/ Again \/ Waits

Player == Runs("player") \/ Exits

Next == Main \/ Player \/ Types \/ Drive

Spec == Init /\ [][Next]_vars

\* The shell task has its turns (CrusaderTasks).  Nothing is assumed of the
\* player, of the user, and of the drives, which need never answer.
LiveSpec == Spec /\ WF_vars(Main)
-----------------------------------------------------------------------------
(* Correctness                                                             *)

ScrTypeOK ==
  /\ c_x \in Nat /\ c_y \in Nat
  /\ DOMAIN cell = Cells /\ due \in [Tasks -> {"no", "klog", "colour", "page"}]

\* Every variable stays in its set; above all, the line never outgrows cmd_buf,
\* whose last character is kept for the 0.
TypeOK ==
  /\ KbdTypeOK /\ ScrTypeOK /\ NotesTypeOK /\ AtaTypeOK
  /\ pc \in {"boot", "poll", "execute", "again", "prompt", "halted"}
  /\ prog \in [Tasks -> Seq(Instructions)] /\ todo \in Seq(Strikes)
  /\ cmd_buf \in Seq(Chars) /\ Len(cmd_buf) < BufSize

\* The cursor is never further right than the last column, but by a character
\* for each task between drawing and looking at the edge; and when the shell
\* waits for a key, it is on the screen, though cat and ld move it past the
\* bottom.
Overhang(t) == IF due[t] \in {"klog", "colour"} THEN 1 ELSE 0

CursorInArea ==
  /\ c_x <= Cols - 1 + Overhang("main") + Overhang("player")
  /\ Idle /\ due["player"] = "no" => c_y < Rows

\* The lines that are executed are those the user meant, in order, and when all
\* codes are read, all of them: whenever the keys are struck, in or out of step
\* with the commands, unless one of the things in Strike has happened.
RanAsMeant ==
  ~missed =>
    /\ IsPrefix(ran, meant)
    /\ Idle /\ codes = << >> => ran = meant /\ cmd_buf = line

\* What stands on the screen behind the prompt is the line that Enter will
\* execute, but for the column that shows nothing, and the cursor is behind it.
LineOnScreen ==
  Idle /\ mark # Lost =>
    /\ c_y * Cols + c_x = mark + Len(cmd_buf)
    /\ \A p \in Cells :
         LET i == p[2] * Cols + p[1] - mark + 1 IN
         /\ i \in 1 .. Len(cmd_buf) => cell[p] = cmd_buf[i]
         /\ i > Len(cmd_buf) => cell[p] = " "

\* When the prompt is back, the notes on the disk are those in memory: if the
\* last change was not a deletion or a boot, no wait has given up, and the
\* player was not at the disk at the same time.
NotesOnDisk ==
  Idle /\ ~unsaved /\ ~late /\ ~mixed =>
    disk[Home][File] = Holding("notes", note_list)

\* When a task moves the words of a sector, the channel it selected is at the
\* unit and sector it asked for and ready to move them: block_read writes the
\* drive register before it waits, which is safe only because select_drive has
\* waited, and because the unit does not change while a write is still going on.
TransferAsAsked ==
  ~late /\ ~mixed =>
    \A t \in Tasks : io[t] = "data" =>
      /\ dev[sel.base].drive = sel
      /\ dev[sel.base].cmd = This(t).op /\ dev[sel.base].state = "drq"
      /\ dev[sel.base].sector \in
           IF This(t).op = "read" THEN {This(t).sector} ELSE Target(t)

\* The prompt comes back, though the disk never answers: all waits give up, but
\* that of select_drive.  (Where drives are never slow the waits of the model do
\* not give up, and nothing is claimed.)
PromptReturns ==
  slow /\ pc # "poll" ~>
    \/ pc \in {"poll", "halted"}
    \/ io["main"] = "select" /\ dev[This("main").unit.base].state = "busy"

=============================================================================
