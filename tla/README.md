# Crusader OS in TLA+

Crusader OS is a 32-bit hobby kernel: one address space, one CPU, ring 0, a
shell, a file system of its own on ATA disks, and tasks switched by the timer.
This directory holds TLA+ models of the parts whose state decides something, the
TLC runs that check them on small instances, and theorems about them that TLAPS
checks for every size.

    tlc -workers 2 -config MCFsCareful.cfg MCFs      a run
    tlapm CrusaderFsProofs.tla                       the proofs of a module

`PROJECT.json` lists the runs, the source lines behind every definition, a mutant
for every property, the hazards and the findings.

## The system

| part | code | state it keeps | operations |
|---|---|---|---|
| file system | `fs.c`, `fs.h` | on disk: superblock, two bitmaps, inode table, data blocks; in memory: `g_superblock`, both bitmaps, four derived counts, `g_current_dir` | `format`, `formatfast`, mount, create file, create directory, write, delete, `cd`, lookup |
| drives | `fs.c`, `commands.c` | `g_drives`, `g_active_drives`, `g_current_drive`, the selected unit | `drives`, `init_fs`, `fs_change_drive`, `usedisk`, `ld` |
| shell commands | `commands.c` | none of their own | one function per command, called with the words of a line |
| keyboard, line editor | `terminal.c`, `bioskbd.c` | line buffer, shift and prefix flags | `terminal_key`, `bios_getchar_nonblocking`, `execute_command` |
| tasks | `task.c`, `kernel.c` | `tasks`, `num_tasks`, `current_task` | `create_task`, `schedule_handler`, `task_exit` |
| interrupts | `idt.c`, `interrupts.s` | what the two controllers have in service | `isr32`, `fault_handler` |
| pages | `pmm.c` | `pmm_bitmap`, `pmm_used_blocks` | `pmm_alloc_block`, `pmm_free_block`, `pmm_init_region` |
| notes and status lines | `klog.c` | `note_list`, a ring of status lines | `new_note`, `delete_note`, `save_notes_to_disk`, `klog_status` |
| screen | `klog.c`, `vesa.c` | the cursor, the text area | `klog` and its coloured sisters, `vesa_print_char`, `vesa_clear` |
| disk channels | `fs.c` | the selected unit, the registers of the drives | `select_drive`, `block_read`, `block_write` |
| Templar | `templar.c` | source, tokens and the place in them, variables, functions, error flag | `tpl_lexer`, `tpl_expr` and the levels below it, `tpl_exec_stmt_ex`, `tpl_exec_block_ex` |
| sound | `ac97.c` | DMA descriptors | `ac97_play_pcm` |
| the rest | `rtc.c`, `pci.c`, `paging.c`, `string.c`, ... | pixels, ports, nothing | |

How they meet:

* Every command runs in the **shell task**, called from its poll loop; nothing
  preempts it but the timer, and nothing else uses the file system. So one command
  is sequential, and what can come between two of its sector writes is a power
  cut, a reset, or the **player task** (`play1`), which selects another ATA unit.
* The file system, the drive table and the player share `current_ata_base` and
  `current_is_slave` without a lock; the shell and the timer handler share the
  task table; `open` and `create_task` share the page allocator.
* The shell and the player print at one cursor, `c_x` and `c_y`, and read and write
  through one set of ATA registers, a port write at a time, without a lock.
* The keyboard holds back a few codes; the poll loop reads them between commands.
* Notes and Templar use the file system through `fs_create_file`, `fs_write` and
  `fs_read` like a command does.
* Nothing is journalled. There is no check of a disk at mount beyond the magic
  number and the type of inode 0.

What is hard here: power cuts inside a command; a full disk in the middle of a
write; a directory that has to grow; stale contents of blocks that are reused;
globals that survive a change of drive; the timer inside `create_task`; interrupts
that nobody acknowledges; two tasks between the register writes of one transfer, or
between a character and its line break; drives that are slow, and waits that give up
without anyone asking; keys struck while a command runs. `hazards` in `PROJECT.json` lists them at their lines.

What makes the parts correct: what was reported written stays (file system); a
block has one owner and is marked (file system); writes go to the drive the user
chose, with that drive's bitmaps and geometry (drives); every task has its own
stack and gets its turn, every key is read (tasks); a transfer moves the sector it
was asked for (disk channels); what is executed is what the user meant and what
stands on the screen, and the prompt comes back (shell); a program does what it says
or is refused (Templar).

## Modules

| module | models | checked through | proofs |
|---|---|---|---|
| `CrusaderFs` | one mounted file system, sector write by sector write | `MCFs` | `CrusaderFsProofs`, `CrusaderFsOwnership`, `CrusaderFsIntact` |
| `FileStore` | what a user is promised of files: the abstract specification `CrusaderFs` implements | `MCFs` | `FileStoreProofs` |
| `CrusaderDrives` | the drive table, selection, geometry, the player's selection | `MCDrives` | `CrusaderDrivesProofs` |
| `CrusaderTasks` | scheduler, interrupt lines, stacks, keyboard poll | itself | `CrusaderTasksProofs` |
| `CrusaderKeyboard` | the keyboard, its codes, the decoder | `MCShell` | `CrusaderShellProofs` |
| `CrusaderScreen` | the text area and its cursor | `MCShell` | `CrusaderShellProofs` |
| `CrusaderNotes` | the list of notes and the ring of status lines | `MCShell` | `CrusaderShellProofs` |
| `CrusaderAta` | the ATA channels, register by register | `MCShell` | `CrusaderShellProofs` |
| `CrusaderShell` | the shell task and the player, composed of the four above | `MCShell` | `CrusaderShellProofs` |
| `TemplarTokens` | Templar's tokens, operators and values | `MCTemplar` | |
| `TemplarLexer` | the lexer, and the texts it reads | `MCTemplar` | `CrusaderTemplarProofs` |
| `CrusaderTemplar` | the Templar interpreter, statement by statement | `MCTemplar` | `CrusaderTemplarProofs` |
| `TemplarLanguage` | Templar programs, their tokens, and their meaning: what the interpreter is compared with | `MCTemplar` | |
| `CrusaderTemplarRuns` | the interpreter on texts of such programs, and the comparison | `MCTemplar` | |

What one module shows another uses: `CrusaderFs` may take a sector write as one step,
in the sector that was meant, because of `TransferAsAsked`; `CrusaderShell` may have
fairness for its task because of `TurnsComeRound`; it takes the save of notes as one
read and one write because `CrusaderFs` has the whole of `fs_write`.

### CrusaderFs

State: the disk (`sb` the superblock is whole, `dbbm`/`dibm` the bitmaps, `itab`
the inode table, `blk` the data blocks), the memory (`up`, `bbm`, `ibm`, `cwd`),
and the running command: `pc` is the place in the code, `job` its arguments and
locals, as a call frame. A step is **one sector write with the memory it updates**,
so that `PowerCut` can fall between any two. Names follow the code: `alloc_block`,
`free_block`, `dir_lookup`, `init_fs`, `fs_cd`; `DirAdd`/`DirGrow`/`DirPut` are
`dir_add` up to its writes, `Fw...` are `fs_write` with `get_physical_block`,
`Dl...` are `fs_delete_file`, `F...`/`Q...`/`R...` are `format_fs`, `qformat_fs` and
`create_root`. The `MaxCmds` and `MaxCuts` guards only bound the run.

Abstractions:

* A sector of the data area is `Slots` cells of one kind for entries, pointers and
  text, so that a block reused for another purpose is read as whatever finds it.
  In the code an entry has 32 bytes and a pointer 4: the model has as many pointers
  in a sector as entries. Nothing depends on the ratio.
* Text is opaque: a cell knows its text and position. Read as a number it is
  larger than every inode and block number (`TextAssumption`), which is so of four
  printable characters. It is not so of every cell of `notes.cos`, whose padding is
  zero and whose flag is 1; what a directory or a pointer block sees in a block
  that held notes is therefore only approximated.
* A bitmap is one sector. On a disk where it is several (over 2 MB), a cut can
  also leave part of a bitmap saved; since a command changes one bit at a time,
  the sectors that differ are never more than one, except in a format.
* Block numbers are the data blocks only. The blocks below `data_start` are marked
  by every format and never freed.
* No write goes beyond the single indirect block: a command line has 32768
  characters at most, 64 blocks, and 12 + 128 can be reached without a double
  indirect block. (The limit of 6 kB in the repository's README is that of the direct
  blocks, older than `single_indirect`.) `FwWild` is the step into what is not modelled; `NoWildWrite` says
  it is not taken.
* Commands at an unmounted disk have no effect: `inode_count` is zero, so no inode
  is found or allocated.
* A new disk is all zeroes, as `make dd32` makes it.

`FileStore` is what a user may rely on: a command writes or deletes at most one file,
in one step, and a power cut between two steps changes nothing; only a file that is
rewritten in place may be found torn. The refinement mapping reads the disk as
`fs_read` would: an inode in use with a size and a name is a file (`OnDisk`); its text
is the one all its cells hold from the first to the last, or none; `Doing` is the
command as the user sees it. `ImplementsFileStore` says that a file appears whole in
the one write that sets its size and goes in the one that saves the inode bitmap, and
that nothing else any command does, up to any cut, changes what a reader finds. Only
`notes.cos` is in `InPlace`: a second note rewrites it cell by cell.

Two ways of use. `Spec` is any use at all. `CarefulSpec` excludes four things that
break the promises, each found by a run that was meant to pass:

| condition | what happens without it |
|---|---|
| `RoomHere`: no file is made in a subdirectory that has to grow | `fs_create_file` passes inode number 0 to `dir_add`: the root is overwritten (run `fs_subdirectory`) |
| `FileInRoot`: `dl` and notes name a file of the root, not a directory | `dl` frees a directory's block with entries in it, and the shell may stand there |
| `Blank`: a format is the first thing done to a disk | a new directory shows what its block held (run `fs_reformat`), and inodes past what a quick format clears look alive |
| no power cut inside `dl` | the blocks are freed before the entry is cleared; the next file shares them |

### CrusaderDrives

State: per unit its sector 0, whose bitmaps it holds, whether it has a root, which of its
other inodes are marked (`used`) and what type the inode table has for each (`kinds`),
which stays when an inode is freed; `table` (`g_drives`), `cur`, `sel`, `gsb` (`g_superblock`),
`geo` (the four counts), `bm` (whose bitmaps are in memory), `cwd`. What `CrusaderFs`
does in many steps is one step here. The arithmetic of `format_fs` and `init_fs`
is that of the code, with its constants. `alloc_inode` gives the lowest inode that is not
marked, so what `dl` freed is what the next `wr` or `mf` takes. `slips` counts careless acts:

| careless act | what happens |
|---|---|
| changing drive outside the root | the directory is that of the drive that was left (run `drives_directory`) |
| `dl` of the directory the shell stands in | its inode is the next file's; `library.c:22` says `dl` deletes a file, but `fs_delete_file` does not look at the type, and a format leaves the shell in `user`, so this takes one command |
| `cd` by an entry whose inode is free | an old entry, in a block a new directory did not clear, leads into an inode that the next file takes |
| adding a unit by `usedisk <port> <unit>` | it has no sectors; with a full table it is selected and no entry is made |
| shutting down without a file system | the bitmaps of another drive go over sector 0 |
| starting the player | it selects another unit (run `drives_player`) |

Not in it: which entries the root has (`Dl` may free the inode of any) and what else
happens inside the file system, a full disk and a directory that grows among it (both in
`CrusaderFs`); commands on a drive whose sector 0 is no superblock beyond mount, format,
shutdown; a machine with no drive at all beyond boot and shutdown; `select_drive`
waiting for ever on a missing unit; more than one player at a time; power cuts inside
a format (they are in `CrusaderFs`). Adding `CeilDiv`'s operands cannot overflow 32
bits: a drive has fewer than 2^28 sectors and a file system at most 262144 blocks.

### CrusaderTasks

State: `tasks` (the frame each saved `esp` points at), `num_tasks`, `current_task`,
`cpu` (the frame that executes), the pages, the keyboard, and the interrupt lines
waiting and in service. An interrupt handler runs with interrupts off and is one
step; `create_task` is three steps, so that the timer can fall between them. `Init`
is `kmain` at its `sti`; what it does before runs with interrupts off.
`Eoi`, `Passes` and `Key` are external: the interrupt and keyboard controllers as the
code uses them. A key is one byte; its command is any of: back to the poll,
`create_task`, `open`, a wait for a device, stop the machine. The wait is that of `play97`
(`ac97.c:101`), of the `open` of a `.wav` (`ac97.c:55`) and of `select_drive` (`fs.c:192`),
which poll without a limit in the shell's own task: `WaitEnds` may come, and need not.

Not in it: exceptions (the screen, then a stop), lines without a device, sound
interrupts (the player polls). `StatePages` is `sizeof(TplState)`, 193,692 bytes,
48 pages.

What the model shows of interrupt lines: `isr32` acknowledges twice, once in
`schedule_handler` and once itself (the comment there, that without it the timer
would not tick again, is older than the first). The second acknowledgement is what
frees the keyboard line, whose own handler never acknowledges (`KeyLineFreed`; its
mutant removes one). Line 15 of the slave stays in service for ever once it has
come; nothing waits for it, as the disk code polls.

### CrusaderShell and its parts

`CrusaderKeyboard`: `codes` are sent and not yet read, at most `Fifo` of them; a key
struck when there is no room is lost. `Decoded` is `bios_getchar_nonblocking`, which
reads one code a call. A navigation key sends the prefix 0xE0, and under shift the
keyboard (external) wraps it in a fake release of shift: 0xE0 and a shift code, after
which the decoder swallows the next key. The ghost `missed` records what this decoder
does not survive: a lost code, a navigation key under shift, the use of one shift key
while the other is held. The user types nothing after it.

`CrusaderScreen`: `c_x`, `c_y` and the cells. A character of `klog` is two steps, as
the other task may draw between the character and the look at the edge: `due[t]`. The
last column holds the cursor and shows nothing. `vesa_print_char` looks at the edges
first and may be left below the area, as may `ld`, which moves the cursor itself.

`CrusaderNotes`: slots of `note_list` with their lengths, `log_buffer`, and as a ghost
every status line since boot.

`CrusaderAta`: per channel the drive chosen, the sector, the command and whether the
drive is busy, ready or waits to move data; `sel` is `current_ata_base` with
`current_is_slave`, `io[t]` the task's place in `select_drive`, `block_read` or
`block_write`, one step a port write. The drive is external: it may answer late, never,
or with an error, and may ignore a register written while it is busy. `ata_wait_busy` and
`ata_wait_drq` give up after a while, and nobody looks (`late`); the wait of
`select_drive` does not give up.

`CrusaderShell`: a command is a sequence of instructions, `prog[t]`: put a character,
select a unit, read or write a sector, show a status line. Each is carried out in the
steps of its component, so a step of the other task, the user or a drive may come
between any two. `pc` is the place of the shell: reading its first sectors, polling,
executing, repeating the prompt, halted. `terminal_key` is `Enters`, `Deletes`, `Adds`
and `Ignores`; `execute_command` splits the line in at most `MaxArgs` words and looks
the first up in `CommandOf`. Ghosts: `line`, `meant` and `ran` (the line as the user
means it, the lines entered, the lines executed), `mark` (where the line begins on the
screen; lost when the prompt leaves the cursor in the last column, which shows nothing), `unsaved`, `mixed` (both tasks have been at the disk at once).

The exceptions the properties name are what the model found:

| exception | code |
|---|---|
| a navigation key under shift swallows the next key; either shift key lets go of both | `bioskbd.c:81`, `:83` |
| a code lost while a command runs: all letters in capitals after a lost release | `kernel.c:28` |
| a backspace over the left edge parts the line from its place on the screen | `klog.c:110` |
| a deleted note is not saved; after a boot the first save overwrites the old notes | `klog.c:672`, `:692` |
| a wait that gave up: the transfer is made all the same | `fs.c:84` |
| shell and player at the disk at the same time | `commands.c:534` |

Abstractions: a line of fixed text is one character and its end, since only the length
decides where the cursor goes, and the bounds make every length wrap; the commands
that print many lines print a few. `notes.cos` exists already (its making is in
`CrusaderFs`); the current drive is `Home`, which is what makes `ld` come back to it;
the player is started once; the home drive is formatted (`FormattedAssumption`). `load_notes_from_disk` is called by nothing. A blank line
leaves `argv[0]` unset: any command, or a stop, may follow.

### CrusaderTemplar and its parts

The interpreter keeps no syntax tree. It evaluates tokens as it reads them; a loop
jumps back by assigning `tok_pos`; what is not taken is skipped by counting braces;
`break`, `continue` and `return` go outwards as return values of C functions. So
whether a program does what it says depends on every exit from every construct
leaving `tok_pos` in the right place. State: `src`, `tokens`, `tok_pos`, `env`, `nfuncs`,
`error`, and `stk`, one frame for each C call that runs a block, with that call's
locals. `mode` and `flag` say whether a block runs or has returned, and what. One step
is one statement or one return into a frame; an expression is evaluated within a step,
by `Eval`: a function of what is pending at a place (an operand of one of the four levels or
of `tpl_primary`, the rest of a level's loop, the arguments of a call) and of the result so
far. Its cases are the C functions, `Primary`, `Parse` and `Climb`, `PrintArguments`,
`Arguments` and `CallBuiltin`.

`CrusaderTemplar` runs any sequence of tokens that can be `Written`, programs or not.

`TemplarLanguage` is a reference, not a model of code: an abstract syntax, `Write`,
which lays a program out as tokens in one of three layouts (all on one line, blocks
of `if` on one line, or every block over several), and `Meaning`. Its precedence
levels are those of the interpreter's four functions; `and` and `or` share one.

`TemplarLexer` is `tpl_lexer` over a text of characters, in which a run of letters and
digits counts as one. `Text` spells a program in the three layouts: with a comment at
the end of each line and characters of no meaning, with no more spaces than needed, or
on one line. A source is such a text and the number of tokens the lexer has room for; in
`CrusaderTemplarRuns` it is written from a program that ends by its meaning.
`TEMPLAR_MAX_TOKENS` is a constant, but a program may have any length, so the cut may be
anywhere. This is also where the malformed programs come from that reach the
interpreter's errors.

The model reports what it finds as exceptions in the properties:

| exception | code |
|---|---|
| a jump inside a block that does not close at once ends in "unexpected token" | `templar.c:713`, `:771`: the brace is expected before the flag is looked at |
| `break` in `repeat` runs the body once more | `templar.c:791` |
| a call of a function declared with `fn` is an error | `templar.c:557`: only builtins are looked for |
| such a call among several arguments of `print` never returns | `templar.c:262`: after an error nothing is consumed |
| `x-1` is `x` and the number -1: the expression ends before it (`Glued`) | `templar.c:147` |

Nothing in the repository describes the language, so none of these is a finding.

Not in it: strings and the builtins on them; the length at which a word or a number is
cut; the cut of the source at `TEMPLAR_MAX_SRC` characters, which drops the rest as that at
`TEMPLAR_MAX_TOKENS` does but may cut within a token; 32-bit overflow; the limits of variables, names and parameters; what a builtin
draws.

## Runs

| run | configuration | shows |
|---|---|---|
| `fs_careful` | 6 data blocks, 5 inodes, 2 direct pointers, 2 cells a sector, two texts of one cell and notes of 5, 5 commands, 1 power cut; `CarefulSpec` | with care, everything promised holds at every sector write, and the disk implements `FileStore` |
| `fs_any` | the same sizes, files of 5 cells, 6 commands, a quick format that clears 1 of 3 table sectors; `LiveSpec` | any use: types, a format always makes a clean file system, and every command ends |
| `fs_full_disk` | `CarefulSpec` | violated: a full disk costs the superblock |
| `fs_subdirectory` | `CrowdedSpec`, no cut | violated: a file in a full subdirectory cannot be found |
| `fs_reformat` | `Spec`, no cut | violated: `ls` lists inodes that are free |
| `drives` | disks of 65533 and 300000 sectors, two units that do not answer, a table of 3, 2 inodes beside the root, 2 slips | with care, writes, bitmaps and directory belong to the current drive, whatever is deleted and made in its place; geometry always |
| `drives_player` | 1 slip | violated: the player redirects the shell's writes |
| `drives_directory` | 1 slip | violated: after a change of drive the current directory is not one |
| `tasks` | a table of 4, 6 pages, a state of 2; `LiveSpec` | stacks, frames and acknowledgements; turns come, and keys are read unless a program or a device holds the shell for ever |
| `tasks_open` | the same, `Spec` | violated: `open` clears pages it does not own |
| `shell` | a text area of 4 columns and 3 rows, a line of 10, a keyboard buffer of 5, 1 note, 2 status lines, 3 units, about 1660 scripts of keys; `LiveSpec` | what the user means is what is executed and what stands on the screen; notes reach the disk; every transfer is the one asked for; the prompt returns |
| `templar` | about 1140 programs in 3 layouts and 6 limits; `LiveSpec` | the tokens are those the program is written with; a whole program that is not refused has its meaning; without jumps and calls of its own it is not refused; every program ends; `tok_pos` stays in the tokens; blocks that run lie inside each other, in the order of the calls that wait for them |

Why the bounds are enough. Fs: 6 blocks are the root, `user`, and notes or a file of
5 cells (two direct blocks, a pointer block, a block behind it), which fills the disk;
two texts tell an old file from a new one; 2
cells a directory block make the third entry grow the root; 2 direct pointers make
a directory overflow; 5 inodes run out; 5 commands are format, two files, a delete
and a file in the space that was freed, and one cut falls in any of them. Drives: the sizes are chosen at
the rounding (65533 is not a multiple of 8, and its bitmap ends in a part of a
sector) and beyond the limit of 262144 blocks; of the 2 inodes one is the directory a format
makes, which can be deleted and its inode given to a file, while the other stays. Shell: 4 columns and 3 rows let a line, the usage text and a prompt wrap and page; 10
characters let the line fill and `note c x x` fit; the 5 codes of the keyboard are
exceeded whenever a command runs and a few keys are struck; 1 note and 2 status lines
overflow at the second and third; of 3 units two share a channel, one of them the
player's. The scripts are all sequences of up to three gestures (a letter, Backspace,
Enter, a blank, a key under either shift, with the releases in either order, a
navigation key with and without shift, a key without a character), struck at any
moment; ten sessions, which fill the line, make and delete notes, list the drives,
reboot, and type on while the player runs; three of these with drives that are slow or
fail. Tasks: with 4 entries two players
can be started and the table fills, with 6 pages a state fits beside the stacks
but not many times over. Templar: every expression puts each of nine operators over
and beside each other (the four comparisons left out take the same branch as `<`);
every loop and `if` has bodies of two statements, which count, branch, loop and jump,
so each exit is met in the first, a middle and the last round, followed by a
statement that shows where `tok_pos` was left. `Bound` only discards programs that
do not end. `MAX_FUNCS` 1 lets a second function overflow the table.

Deadlock is not checked where the system really stops: when a program has ended; in the file system when the
bounds are used up, in the tasks when the machine is halted, in the shell when nothing is left to type.

Fairness. File system: `WF(Kernel)`, a command that runs goes on running: the shell
task is never starved (shown by `TurnsComeRound`). Tasks: `WF(Tick)`, the timer is
programmed once and never stopped; `WF(IRQ0)`, the CPU takes an interrupt that is
raised while interrupts are on; `SF(ShellStep)`, a turn lasts a millisecond, in which
the shell makes a step: it is enabled again and again and not always, since the
other tasks have their turns. (A step of the poll loop contains that of the clock, which ends
with the clock's update, `rtc.c:39`.) The end of a user's program or of a player is not
assumed, nor that a device answers: all may go on for ever. `KeyRead` names as its exception
a shell that one of them holds for ever (`Held`), not one that is held for a while. Shell: `WF(Main)`, the shell's task has its turns
(`TurnsComeRound`); nothing is assumed of the player, the user or the drives. Templar: `WF(Next)`, the interpreter is called by
the shell's task, which has its turns.

## Proofs

| theorem | of every |
|---|---|
| `CrusaderFsProofs!TypeCorrect`, `BitmapsAreSaved`, `OnlyAFullDiskLosesIt` | number of blocks, inodes, cells, names, commands and cuts |
| `CrusaderFsProofs!FormatLeavesFresh` (any use) | the same, where the default names fit (`DirsFit`: fewer than the inodes, no more than the entries of a sector; the code has 5 names, 16 entries) |
| `CrusaderFsOwnership!UsedAreMarked`, `BlocksNotShared`, `NoBlockIsLost` (`CarefulSpec`) | the same |
| `CrusaderFsIntact!SavedFilesKept`, `SavedStaysEntered` (`CarefulSpec`) | the same |
| `CrusaderFsIntact!PointersStayHome` (`CarefulSpec`) | the same, where every text fits (`TextsFit`: at most `Slots * (NDirect + Slots)` cells, what the direct blocks and one pointer block hold) |
| `CrusaderFsIntact!FilesAreAStore` (`CarefulSpec`): the disk implements `FileStore` | the same |
| `CrusaderDrivesProofs!TypeCorrect`, `GeometriesAgree`, `BitmapsAlwaysFit`, `BitmapsStayHome`, `CwdStaysDirectory`, `WritesGoHome` | set of units, sizes of drives, table, number of inodes |
| `CrusaderTasksProofs!TypeCorrect`, `FramesSaved`, `StateSparesStacks`, `LinesAcknowledged` | table, memory and size of state |
| `CrusaderShellProofs!LineFits`, `LogLatest`, `CursorStays`, `TransfersAsAsked`, `ShellTyped`, `RunsAsMeant`, `LineShown`, `NotesKept` | keyboard, size of screen, line, list and log, set of units and sectors, table of commands, program of keys |
| `CrusaderTemplarProofs!TypeCorrect`, `NestingInOrder`, `NestingBounded`, `ExpressionsGoOn`, `LexerIsRight` | text of tokens of any length, well formed or not, layout, limit of tokens, set of names, limit of functions |
| `FileStoreProofs!StoreTypeOK`, `TornOnlyIsInPlace` | set of names, texts, lengths and ids |

File system. `TypeOK` is not inductive alone: a pointer that is followed may be any
word of a sector. The invariant adds what each place of `pc` knows of `job` (at
`fw_zero` the pointer may be 0, at `dl_single` it is not, at `new_inode` the node has a
block, and so on). `BitmapsSaved` needs that the bitmaps agree at every place but
inside a format and at boot, since each change of memory is written by the same call.

`FormatIsFresh` says what is on the disk when a format ends, so `FreshInv` says it for
every place on the way: at the root's block one inode is marked and nothing else; at
`r_inode` and `r_zero` the root's one block; at `defdirs` with `k` names done the inodes `0 .. k`,
entered in the root's block in their order, own exactly what is marked (`Built`); between
two names there is a new block that no inode has yet. Nothing is assumed of what the disk
held: `FreshInv` speaks only of the root's block, which `r_zero` clears, and of inodes that were
written. It is silent once the disk is full, where a name may be left out.

Block ownership. Neither `UsedIsMarked` nor `NoSharedBlock` is inductive: an inode that is
being made has blocks before it has an entry, and the file `dl` takes apart still has one.
`Held` is what is in use or about to be: what is entered (except the file of a running
`dl`), the root and the current directory, the inode a command fills or writes, and the
files reported written with their directories, entered or not. Of these, and so of what is in use, `Marked` and `Apart` say the two properties; they need in turn

* `PtrOK`, that a pointer block is none of the blocks it points to: writing text into a
  file does then not change what it owns;
* `OneEntry` and `Named`, that an inode has at most one entry anywhere on the disk and the
  entry is in the table: clearing the one that was found leaves the file with none
  (`RemovesWhatWasFound`: `dir_remove` does not stop at a missing block as `dir_lookup` does);
* `RootInv`, that the disk is blank until the root is written, since no clearing of old
  blocks is to be relied on;
* `JobInv`, what each place knows of `job`: a block that was allocated and is in no inode
  yet is `Spare`, marked and nobody's; `job.node` is the inode on disk but for that block; the
  file of a `dl` shares nothing with what is held.

Each step takes one block or one inode at a time from the free ones, so `GainOwned` and
`KeepOwned` carry `Marked` and `Apart` over every write. The conditions of `CarefulSpec` are
used where one expects them: `RoomHere` in `OwnBegin` (`OwnDirAdd` lives on it), `FileInRoot` in `OwnDl`, `Blank` in
`OwnFormat`, no cut inside `dl` in `OwnPowerCut`.

No block is lost. `NoLostBlock` is about every inode that is marked, held or not: a file
whose `dir_add` found no room stays marked, and owns its blocks. So `Kempt` counts by the bitmap
instead of by entries. An inode is `Settled` when it is marked and not the one being
made or taken apart; `Claims` are the blocks a command has in hand, marked and in no
inode yet (`new_inode`, `fw_inode`, `dir_grow`) or no longer (the rest of a file in `dl`, pointer block
included). Settled inodes own marked blocks (`SettledMarked`), each its own (`SettledApart`), none that is
claimed (`ClaimsApart`), and every marked block is one or the other (`Accounted`). At the
prompt there is no command and nothing is claimed, which is `NoLostBlock`. Each step that moves a block moves it
between these parts: `KemptNewBlock` from free to claimed, `KemptNewInode` and the writes
from claimed to settled, `KemptFree` from claimed to free. `LossInv` is `Kempt` until `cut` says
that a power cut hit a command: then a marked block may belong to nobody.

What files hold. The lemmas of ownership also show `Stays`: a step changes no file in use
but the one it writes (`FilesStay`), and no entry goes but that of a file `dl` takes apart
(`EntriesStay`). `FileIntact` and `SavedIsEntered` then need care only at the file being written:

* `DistinctInv`, that no block stands at two places of a file (`PlaceGained`): text put at
  one position would otherwise appear at another;
* `WrittenInv`, that a write starts at 0 and the first `job.k` cells are already there
  (`WriteAddsText`, with `Stretch` for the quotients and remainders of `Pos`);
* `IntactInv`, the text of what was reported written; `FwSize` reports it when `job.k` has
  reached the length, so it is `WrittenInv` at that moment, and `FilesStay` from then on;
* `EntryInv`, the entry, of what was reported and of what is being written, from the step of
  `dir_add` on; at `dir_put` a block that is about to be filled is not counted.

`SavedInv` says that no command is at work on a saved file: `dl` and a note that is
rewritten take it out of `saved` first. `PointersStayHome` adds that a length comes from the
command (`CommandKept`) and a place below it is direct or in the pointer block.

Drives. `GeometryAgrees` needs to know what is on every disk, not only on the mounted
one: each sector 0 that carries the magic number is `Layout(n)` for some `n`, and so
is `g_superblock`. The lemmas about `CeilDiv` and `Layout` do the arithmetic once.
The last three are about careful use and rest on `Cared`: as long as no act was careless,
no player runs, the selected unit is the current one (so a save goes there), the superblock and
the bitmaps in memory are those of that unit, and its root exists whenever it has room for
one; at boot `g_current_dir` is 0. Each act keeps `HomeInv` (`MountCared`,
`FormatCared`, `CreateCared`, `DlCared`, `ShutdownCared`); the careless acts leave nothing to show.
`CwdStaysDirectory` is about inodes that are used again: `CreateCared` takes one that is
not marked, so not the shell's, and `DlCared` frees another than the shell's (`InodesCared`).

Tasks. `SavedFrames` needs to know which pages can still be free. Stacks are never
freed and only the shell allocates, so task `i` has page `i` and the free pages
are an interval that ends at `NPages`; `Accounts` says so at each place of the shell. This
is also why clearing 48 pages of one hits no stack: the page is the lowest free
one, and stacks are below.

Shell. The first theorems of `CrusaderShellProofs` rest on what programs are: sequences of `Instructions`, for every
command, by `Keyed /\ Shape` (`TypesHold`); the player's and the boot's are `Plain`, with
no instruction that moves the cursor by itself. `CursorStays` needs two parts:
`NotTooFarRight`, where each task adds one column while it has an edge to look at, and
`NotBelow`, that the cursor is below the area only while the whole prompt is still to be
printed, which pages. `TransfersAsAsked` needs `Serving`, that a task inside a transfer
has that transfer ahead of it, and `Orderly`: as long as the tasks do not mix and no wait
has given up, what the channel's registers hold at each place of `io` (`AtPlace`); the
wait in `select_drive` is what keeps a channel ready while the drive register is written.

The session. Four facts a user relies on, each over every keyboard, screen and table of
commands, and whatever is typed while a command runs.

* `RanAsMeant` is about what was executed; the keys that lead there are still on their way.
  `ReadInv` joins the two ends: `Seen` is what the machine has made of the codes it read,
  `Intended` what the user has typed, and the codes between them lead from the first to
  the second (`Leads`), with no line entered on the way that was not meant. It holds while nothing is
  `missed`; that at most one shift key is held is what makes a single flag enough.
* `LineOnScreen` needs `ScreenInv`, that every cell ahead of the cursor is blank, so that
  a deletion that goes back over a wrap leaves no character behind, and `LineInv`, which
  says for each place between a key and the end of its echo (`Resting`, `AtEdge`, `Adding`, `Deleting`)
  how far the screen is behind the line. The proof did not go through for a prompt as wide as the
  screen, since the property was false there: the first letter then stands a
  row below. `mark` is lost in that case since.
* `NotesOnDisk` rests on `DiskInv`: sectors hold what they may (`SectorsTyped`), only the save
  writes (`OnlyNotesWritten`), and what is left of the shell's program is a save, a
  return to the home drive by `ld`, or something that neither writes nor selects
  another unit (`Programs`).
* `TypeOK` of the shell is composed of the types of its parts.

The store. `FilesAreAStore` is the refinement: under `CarefulSpec`, `OnDisk` and `Doing`
step as `FileStore` does, or not at all. What is on the disk is read through directories,
so the proof needs `StoreInv`, three conjuncts over those above:

* `HomesInv`: a name on the disk stands in a block of the root or of a directory that
  has an entry itself. No name is left in a free block, so none comes to light when the
  block becomes a directory's;
* `SizesInv`: a size is that of a text, and a file in use has a block for every cell
  below it. A reader never meets a missing block;
* `CommandInv`: what is being made has no size before its text is there, only `notes.cos`
  is written again, and at `dl_entry` the inode is already off the bitmap.

Then three steps are visible, and they only change the file of the command (`FileReads`,
from `NamesStay`, `NamesMade` and `DirsStay`): a write of text, which is seen only in a file
that has a size, hence in `notes.cos`, and is a `Rewrite` (`TextIsWritten`); the write of the size,
where a new file appears with the whole of its text (`SizeIsWritten`); and the step of `dl` that
saves the bitmap (`InodeIsFreed`). Every other step, the blocks freed by `dl` after it, the
growth of a directory and a cut wherever `CarefulSpec` has one included, is a stutter or the
end of a command. `TornOnlyIsInPlace`, that what is torn has been rewritten, is thereby a
fact about the disk.

Templar. What is proved holds of every text, and so of texts no grammar describes: the
interpreter has no grammar either, and runs what it finds.

* Expressions first. `Eval` calls itself, and a recursive definition is a `CHOOSE`: nothing
  is known of it until there is a function it can choose. `Recursion` shows
  that there is one whenever each value needs only values of lower rank (from
  well-founded induction on the rank, cited for sets, so that no operator is a
  parameter), and it gives a type for the values with it. For `Eval` the rank is 14 times
  the tokens that are left, plus the `Weight` of what is pending: a step of the evaluation
  reads a token, or goes down one of the levels, or has one argument less to come
  (`Nearer`; the `...Agree` lemmas, one for each C function). `Evaluators` are the functions
  whose result is never in front of where it began and has the arguments a builtin asked for
  (`Answers`). `EvalDefined` and `ExprTyped` follow, and `ExpressionsGoOn`. The same lemma
  defines the lexer's `TokensFrom`.
* `TypeOK` is not inductive: that `Advance` stays within the tokens needs `Lexed`, that
  they end with `eof`; a loop's jump needs the places its frame has noted, which are behind the statement
  they belong to (`Onward`); and that `tok_pos` is behind that statement again, when its
  block has returned, needs `NestedInOrder`. The three together are `IInv`, which TLC checked first.
  `SkipBlock` is where it could fail: it counts braces to the end of the tokens, and
  never goes back.
* `NestingBounded`: frames have places that grow strictly inwards, each in the tokens.
* `LexerIsRight` takes the text apart into the pieces its tokens were spelled as (`Concatenates`) and shows of
  each kind of piece, with its remark and space, that the lexer reads it as the token it
  stands for and goes on behind it; `Apart` is what the next character must not be, which
  is where `Glued` is excluded.

The proofs assume only the named assumptions of the modules: the sizes are
positive, names and texts are distinct, a piece of text is no name, text read as a number is no block and no
inode, `None` is neither a file nor a command, the code E0 and the codes without a character are no
keys of the line, the home drive has a root, memory suffices for every stack and one state,
and sources are written with the tokens there are.

Left to TLC: all liveness (`CommandsEnd`, `TurnsComeRound`, `KeyRead`, `KeyLineFreed`,
`PromptReturns`, `Ends`), which TLAPS does not reach under fairness; and of Templar `NeverSilentlyWrong` and `PlainIsAccepted`. They compare a run with `Meaning`, which is recursive over programs nested to
any depth, and would be proved by induction over programs. Every other property of a
passing run is a theorem.

## Findings

1. A write that reaches the single indirect block on a full disk clears sector 0.
2. A file made in a subdirectory that has to grow overwrites the root's inode.
3. A new directory lists what its block held before.
4. `play1` sends the shell's writes to another unit.
5. `usedisk` keeps the directory of the drive that was left.
6. `open` clears 48 pages of which it owns one.

Each is a run that TLC finds violated; the lines and what the repository says are in
`PROJECT.json`.

## Plan

Done, in this order: file system, drives, tasks; proofs of types and of the most
exposed invariant of each; Templar; `FileStore` and the refinement; keyboard, screen,
notes and disk channels, composed in the shell, with their proofs; the lexer; block
ownership; what files hold; the refinement; what the line, the screen and the notes hold;
what a format leaves, and that no block is lost; the proofs about Templar. Next:

1. Templar's strings, the lengths of words, 32-bit numbers, its other tables.
2. The page bitmap with its width, and `pmm_init_region` (`pmm.c:28`).
3. `fs_read` at any offset (`fs.c:668`), as the sound formats use it.
4. The loop of `ac97_play_pcm` over its descriptors.

## Not modelled

Pixels, lines and fonts, clock, PCI and speaker ports, paging set-up, help texts: they
keep no state that a later step depends on. The commands that only print (`time`,
`mem`, `lib`, `cow`, `app`, `fd`). `strcmp` and its like are taken for what they compute;
`libdiv.c` is a loop over bits that nothing here depends on.
