---------------------------- MODULE CrusaderTasks ----------------------------
(***************************************************************************)
(* The tasks of task.c, switched by the timer interrupt of interrupts.s,   *)
(* with the interrupt controllers as idt.c programs and acknowledges them, *)
(* the pages of pmm.c that stacks are made of, and the keyboard the shell  *)
(* polls.                                                                  *)
(*                                                                         *)
(* There is one CPU.  cpu is the frame it executes: a stack and a place in *)
(* the code.  An interrupt handler runs with interrupts off and is one     *)
(* step; between any two other steps the timer may take the CPU away.      *)
(* Task 0 is kmain's loop on the boot stack, task 1 the shell; the others  *)
(* are the players that play1 starts.                                      *)
(***************************************************************************)
EXTENDS Integers, FiniteSets, FiniteSetsExt

CONSTANTS
  MAX_TASKS,   \* 16
  NPages,      \* pages pmm_alloc_block can give: 2^20 less the first 8192
  StatePages   \* pages that sizeof(TplState) covers: 48

Slots == 0 .. MAX_TASKS - 1
Pages == 1 .. NPages

\* kmain makes two tasks, and there is memory for every stack and one TplState.
ASSUME TasksAssumption ==
  /\ MAX_TASKS \in Nat /\ MAX_TASKS >= 2
  /\ StatePages \in Nat \ {0}
  /\ NPages \in Nat /\ NPages >= MAX_TASKS + StatePages

VARIABLES
  tasks,         \* tasks[i].esp, as the frame it points at
  num_tasks,
  current_task,
  cpu,           \* the frame that executes
  free,          \* pages not marked in pmm_bitmap
  page,          \* the page held by create_task or cmd_open, 0 for NULL
  kbd,           \* the keyboard controller has a byte
  pend,          \* interrupt requests that wait
  master, slave  \* lines in service at 0x20 and at 0xA0

vars == <<tasks, num_tasks, current_task, cpu, free, page, kbd, pend, master, slave>>

-----------------------------------------------------------------------------
(* Frames                                                                  *)

BootStack == -1

ShellPlaces == {"poll", "create", "frame", "publish", "open", "program", "wait"}
Places == ShellPlaces \cup {"hlt", "play", "halted", "nowhere"}

Frame == [stack : Pages \cup {BootStack, 0}, at : Places]

At(stack, place) == [stack |-> stack, at |-> place]

NoFrame == At(0, "nowhere")

Lines    == {0, 1, 14, 15}
InMaster == {0, 1, 2}
InSlave  == {6, 7}

\* Every variable stays in its set; above all, current_task is a published task.
TypeOK ==
  /\ tasks \in [Slots -> Frame]
  /\ num_tasks \in 2 .. MAX_TASKS
  /\ current_task \in 0 .. num_tasks - 1
  /\ cpu \in Frame
  /\ free \in SUBSET Pages
  /\ page \in Pages \cup {0}
  /\ kbd \in BOOLEAN
  /\ pend \in SUBSET Lines /\ master \in SUBSET InMaster /\ slave \in SUBSET InSlave

\* kmain at its sti: init_multitasking and create_task(system_main_task) have
\* run with interrupts off.
Init ==
  /\ tasks = [i \in Slots |-> IF i = 1 THEN At(1, "poll") ELSE NoFrame]
  /\ num_tasks = 2 /\ current_task = 0
  /\ cpu = At(BootStack, "hlt")
  /\ free = Pages \ {1} /\ page = 0
  /\ kbd = FALSE /\ pend = {} /\ master = {} /\ slave = {}

-----------------------------------------------------------------------------
(* Interrupts                                                              *)

\* Interrupts are on, except after a cli that nothing takes back.
Enabled == cpu.at # "halted"

Halted == ~Enabled

\* A non-specific end of interrupt: of the line of highest priority.
Eoi(inservice) == IF inservice = {} THEN {} ELSE inservice \ {Min(inservice)}

\* A line passes when it waits and nothing of the same or of higher priority
\* is in service; the slave's lines come in through line 2.
Passes(i) ==
  /\ i \in pend
  /\ IF i < 2 THEN \A s \in master : s > i
              ELSE master \cap InMaster = {} /\ \A s \in slave : s > i - 8

\* The line the CPU is given: the one of highest priority that passes.
Taken(i) ==
  /\ Enabled /\ Passes(i) /\ \A h \in Lines : h < i => ~Passes(h)
  /\ pend' = pend \ {i}

\* Mutant: the last task is never given a turn.
NextTaskMutant == IF current_task + 1 >= num_tasks - 1 THEN 0 ELSE current_task + 1

\* Mutant: the last task is kept instead of going round.
NextTaskClampMutant ==
  IF current_task + 1 >= num_tasks THEN num_tasks - 1 ELSE current_task + 1

\* Mutant: the comparison is off by one.
NextTaskPastMutant == IF current_task + 1 > num_tasks THEN 0 ELSE current_task + 1

NextTask == IF current_task + 1 >= num_tasks THEN 0 ELSE current_task + 1

\* Mutant: the new task's frame is loaded, the old one not kept.
schedule_handlerMutant ==
  /\ current_task' = NextTask
  /\ cpu' = tasks[NextTask]
  /\ UNCHANGED tasks

\* schedule_handler, and the iret on the stack it returns.  kmain publishes
\* task 1 before its sti, so num_tasks <= 1 does not arise.
schedule_handler ==
  /\ tasks' = [tasks EXCEPT ![current_task] = cpu]
  /\ current_task' = NextTask
  /\ cpu' = tasks'[NextTask]

\* Mutant: one acknowledgement, as the second seems superfluous.
TimerEoiMutant == Eoi(master \cup {0})

\* schedule_handler acknowledges, and isr32 does so again: the second time for
\* whatever else is in service.
TimerEoi == Eoi(Eoi(master \cup {0}))

IRQ0 ==
  /\ Taken(0)
  /\ master' = TimerEoi
  /\ schedule_handler
  /\ UNCHANGED <<num_tasks, free, page, kbd, slave>>

\* fault_handler has no branch for int 33: no acknowledgement.
IRQ1 ==
  /\ Taken(1)
  /\ master' = master \cup {1}
  /\ UNCHANGED <<tasks, num_tasks, current_task, cpu, free, page, kbd, slave>>

\* Mutant: only the master is acknowledged.
IRQ14Mutant ==
  /\ Taken(14)
  /\ slave' = slave \cup {6} /\ master' = Eoi(master \cup {2})
  /\ UNCHANGED <<tasks, num_tasks, current_task, cpu, free, page, kbd>>

\* int 46: both controllers.
IRQ14 ==
  /\ Taken(14)
  /\ slave' = Eoi(slave \cup {6}) /\ master' = Eoi(master \cup {2})
  /\ UNCHANGED <<tasks, num_tasks, current_task, cpu, free, page, kbd>>

\* int 47: neither.
IRQ15 ==
  /\ Taken(15)
  /\ slave' = slave \cup {7} /\ master' = master \cup {2}
  /\ UNCHANGED <<tasks, num_tasks, current_task, cpu, free, page, kbd>>

-----------------------------------------------------------------------------
(* Devices                                                                 *)

Tick ==
  /\ 0 \notin pend /\ pend' = pend \cup {0}
  /\ UNCHANGED <<tasks, num_tasks, current_task, cpu, free, page, kbd, master, slave>>

Key ==
  /\ ~kbd /\ kbd' = TRUE /\ pend' = pend \cup {1}
  /\ UNCHANGED <<tasks, num_tasks, current_task, cpu, free, page, master, slave>>

\* A drive has moved a sector; block_read and block_write leave its interrupt on.
DriveDone(i) ==
  /\ i \notin pend /\ pend' = pend \cup {i}
  /\ UNCHANGED <<tasks, num_tasks, current_task, cpu, free, page, kbd, master, slave>>

-----------------------------------------------------------------------------
(* The shell: system_main_task                                             *)

Goto(place) == cpu' = [cpu EXCEPT !.at = place]

\* Mutant: the page is not marked.
pmm_alloc_blockMutant ==
  /\ page' = IF free = {} THEN 0 ELSE Min(free)
  /\ UNCHANGED free

\* pmm_alloc_block: the first free page, 0 when there is none.
pmm_alloc_block ==
  /\ page' = IF free = {} THEN 0 ELSE Min(free)
  /\ free' = free \ {page'}

\* bios_has_char and terminal_key.  Most keys and commands return to the poll;
\* play1 starts a task, open runs a program, shutdown stops the machine.  A
\* command may have to wait for a device.  A byte read before its interrupt is
\* taken withdraws the request, or not.
ReadKey ==
  /\ cpu.at = "poll" /\ kbd
  /\ kbd' = FALSE
  /\ \E p \in {"poll", "create", "open", "wait", "halted"} : Goto(p)
  /\ pend' \in {pend, pend \ {1}}
  /\ UNCHANGED <<tasks, num_tasks, current_task, free, page, master, slave>>

\* create_task: the table is full, or a page is taken for the stack.
CreateTask ==
  /\ cpu.at = "create"
  /\ IF num_tasks >= MAX_TASKS
       THEN Goto("poll") /\ UNCHANGED <<free, page>>
       ELSE pmm_alloc_block /\ Goto(IF page' = 0 THEN "poll" ELSE "frame")
  /\ UNCHANGED <<tasks, num_tasks, current_task, kbd, pend, master, slave>>

\* The first frame of the new task: its entry point, and task_exit above it.
CreateFrame ==
  /\ cpu.at = "frame"
  /\ tasks' = [tasks EXCEPT ![num_tasks] = At(page, "play")]
  /\ Goto("publish")
  /\ UNCHANGED <<num_tasks, current_task, free, page, kbd, pend, master, slave>>

CreatePublish ==
  /\ cpu.at = "publish"
  /\ num_tasks' = num_tasks + 1 /\ page' = 0
  /\ Goto("poll")
  /\ UNCHANGED <<tasks, current_task, free, kbd, pend, master, slave>>

\* cmd_open: one page for the whole TplState.
OpenBegin ==
  /\ cpu.at = "open"
  /\ pmm_alloc_block /\ Goto("program")
  /\ UNCHANGED <<tasks, num_tasks, current_task, kbd, pend, master, slave>>

OpenEnd ==
  /\ cpu.at = "program"
  /\ free' = free \cup {page} /\ page' = 0
  /\ Goto("poll")
  /\ UNCHANGED <<tasks, num_tasks, current_task, kbd, pend, master, slave>>

\* The shell's own task polls without a limit: in play97 for the end of the tone
\* (ac97.c:101), in the open of a .wav for that of each piece (ac97.c:55), in
\* every command that uses the disk for a drive that is busy (fs.c:192).  Should
\* the device answer, the command goes on to the poll, shutdown to its end.
WaitEnds ==
  /\ cpu.at = "wait"
  /\ \E p \in {"poll", "halted"} : Goto(p)
  /\ UNCHANGED <<tasks, num_tasks, current_task, free, page, kbd, pend, master, slave>>

\* cmd_playraw returns into task_exit.
PlayReturns ==
  /\ cpu.at = "play"
  /\ Goto("halted")
  /\ UNCHANGED <<tasks, num_tasks, current_task, free, page, kbd, pend, master, slave>>

ShellStep == ReadKey \/ CreateTask \/ CreateFrame \/ CreatePublish \/ OpenBegin

Next ==
  \/ IRQ0 \/ IRQ1 \/ IRQ14 \/ IRQ15
  \/ Tick \/ Key \/ \E i \in {14, 15} : DriveDone(i)
  \/ ShellStep \/ OpenEnd \/ WaitEnds \/ PlayReturns

Spec == Init /\ [][Next]_vars

\* The timer runs and the CPU takes its interrupt; a turn of a millisecond is
\* long enough for a step of the shell, that of the clock which ends with the
\* update included.  A program of the user need not end, nor a device answer.
LiveSpec ==
  Spec /\ WF_vars(Tick) /\ WF_vars(IRQ0) /\ SF_vars(ShellStep)

-----------------------------------------------------------------------------
(* Safety                                                                  *)

Published == 0 .. num_tasks - 1

\* The frame a task goes on from: in the CPU, or where it was interrupted.
FrameOf(i) == IF i = current_task THEN cpu ELSE tasks[i]

\* Whenever the timer strikes, also within create_task, every published task
\* has a frame of its own code on a stack of its own: no switch can load
\* memory that was never filled, or run two tasks on one stack.
SavedFrames ==
  /\ \A i \in Published :
       LET f == FrameOf(i) IN
       /\ f.at \in {"halted"} \cup
                   (IF i = 0 THEN {"hlt"} ELSE IF i = 1 THEN ShellPlaces ELSE {"play"})
       /\ f.stack # 0 /\ f.stack \notin free
  /\ \A i, j \in Published : i # j => FrameOf(i).stack # FrameOf(j).stack

\* cmd_open clears StatePages pages from the one it was given, and no task's
\* stack is ever among them: stacks are never freed, and only the shell
\* allocates.
StateClearsNoStack ==
  FrameOf(1).at = "program" =>
    \A i \in Published : FrameOf(i).stack \notin page .. page + StatePages - 1

\* What cmd_open clears is its own: no page of it can be given to someone else.
\* ("grab a 4KB block for state", says the call.)
StateInItsBlock ==
  cpu.at = "program" => (page .. page + StatePages - 1) \cap free = {}

\* Every handler that acknowledges, acknowledges its own line: neither the
\* timer nor the first drive controller is ever left in service.
Acknowledged == 0 \notin master /\ 6 \notin slave

-----------------------------------------------------------------------------
(* Liveness                                                                *)

\* Round robin: every published task runs again, however many are started.
TurnsComeRound == \A i \in Slots : i < num_tasks ~> current_task = i \/ Halted

\* The shell's own task is held by a program of the user, or by a device that
\* play97, the open of a .wav or the disk code waits for.
Held == FrameOf(1).at \in {"program", "wait"}

\* The key that was pressed is read, unless the machine was stopped: interrupts
\* that are never acknowledged, and tasks that are started, do not stop it.  The
\* exception is a shell held for ever; when what holds it ends, the key is read.
KeyRead == kbd ~> ~kbd \/ Halted \/ []Held

\* The keyboard line, which no handler acknowledges, does not stay in service.
KeyLineFreed == 1 \in master ~> 1 \notin master \/ Halted

=============================================================================
