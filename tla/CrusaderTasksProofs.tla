------------------------- MODULE CrusaderTasksProofs -------------------------
(***************************************************************************)
(* Proofs about CrusaderTasks, for every table size, every number of pages *)
(* and every size of TplState.  The argument: stacks are handed out in     *)
(* order and never given back, so task i has page i, and what the shell    *)
(* holds for a moment is the page just above.  Accounts says so; it is     *)
(* inductive together with the types.                                      *)
(***************************************************************************)
EXTENDS CrusaderTasks, TLAPS

LEMMA MinOfRange ==
  ASSUME NEW a \in Int, NEW b \in Int, a <= b
  PROVE  Min(a .. b) = a
<1>1. \A y \in a .. b : a <= y
  OBVIOUS
<1>2. a \in a .. b
  OBVIOUS
<1> QED BY <1>1, <1>2 DEF Min

-----------------------------------------------------------------------------
(* Acknowledgement                                                         *)

\* The lowest line that joins a set of higher ones is the one acknowledged.
LEMMA EoiTakesTheFirst ==
  ASSUME NEW S \in SUBSET Nat, NEW l \in Nat, \A s \in S : s > l
  PROVE  Eoi(S \cup {l}) = S
<1> DEFINE U == S \cup {l}
<1>1. l \in U /\ \A y \in U : l <= y
  OBVIOUS
<1>2. \A m \in U : (\A y \in U : m <= y) => m = l
  OBVIOUS
<1>3. Min(U) = l
  <2> HIDE DEF U
  <2> QED BY <1>1, <1>2 DEF Min
<1>4. U # {} /\ U \ {l} = S
  OBVIOUS
<1>5. Eoi(U) = U \ {Min(U)}
  <2> HIDE DEF U
  <2> QED BY <1>4 DEF Eoi
<1> QED BY <1>3, <1>4, <1>5

\* Acknowledging takes lines out of service, never in.
LEMMA EoiShrinks == ASSUME NEW S PROVE Eoi(S) \subseteq S
BY DEF Eoi

\* What may be in service between two steps.
InService == master \subseteq {1, 2} /\ slave \subseteq {7}

LEMMA InServiceInit == Init => InService
BY DEF Init, InService

LEMMA InServiceStep == InService /\ [Next]_vars => InService'
<1> SUFFICES ASSUME InService, [Next]_vars PROVE InService'
  OBVIOUS
<1> USE DEF InService
<1>1. CASE IRQ0
  <2>1. Eoi(master \cup {0}) = master
    BY EoiTakesTheFirst
  <2>2. master' \subseteq master
    BY <1>1, <2>1, EoiShrinks DEF IRQ0, TimerEoi
  <2> QED BY <1>1, <2>2 DEF IRQ0
<1>2. CASE IRQ1
  BY <1>2 DEF IRQ1
<1>3. CASE IRQ14
  <2>1. master \cap InMaster = {}
    BY <1>3 DEF IRQ14, Taken, Passes
  <2>2. master = {}
    BY <2>1 DEF InMaster
  <2>3. Eoi(master \cup {2}) = master
    <3>1. master \in SUBSET Nat /\ \A s \in master : s > 2
      BY <2>2
    <3> QED BY <3>1, EoiTakesTheFirst
  <2>4. Eoi(slave \cup {6}) = slave
    BY EoiTakesTheFirst
  <2> QED BY <1>3, <2>2, <2>3, <2>4 DEF IRQ14
<1>4. CASE IRQ15
  BY <1>4 DEF IRQ15
<1>5. CASE Tick \/ Key \/ \E i \in {14, 15} : DriveDone(i)
  BY <1>5 DEF Tick, Key, DriveDone
<1>6. CASE ShellStep \/ OpenEnd \/ WaitEnds \/ PlayReturns
  BY <1>6 DEF ShellStep, ReadKey, CreateTask, CreateFrame, CreatePublish, OpenBegin,
              OpenEnd, WaitEnds, PlayReturns
<1>7. CASE UNCHANGED vars
  BY <1>7 DEF vars
<1> QED BY <1>1, <1>2, <1>3, <1>4, <1>5, <1>6, <1>7 DEF Next

\* Every handler that acknowledges, acknowledges its own line.
THEOREM LinesAcknowledged == Spec => []Acknowledged
<1>1. InService => Acknowledged
  BY DEF InService, Acknowledged
<1> QED BY <1>1, InServiceInit, InServiceStep, PTL DEF Spec

-----------------------------------------------------------------------------
(* Tasks and their stacks                                                  *)

\* The places in which the shell holds a page.
Holding == {"frame", "publish", "program"}

\* The place of a task in its own code.
InItsCode(i, place) ==
  \/ place = "halted"
  \/ i = 0 /\ place = "hlt"
  \/ i = 1 /\ place \in ShellPlaces
  \/ i > 1 /\ place = "play"

\* The first page pmm_alloc_block would give.
FirstFree == IF page = 0 THEN num_tasks ELSE num_tasks + 1

Accounts ==
  /\ \A i \in Published : /\ InItsCode(i, FrameOf(i).at)
                          /\ FrameOf(i).stack = IF i = 0 THEN BootStack ELSE i
  /\ page = IF FrameOf(1).at \in Holding THEN num_tasks ELSE 0
  /\ free = FirstFree .. NPages
  /\ FrameOf(1).at \in {"frame", "publish"} => num_tasks < MAX_TASKS
  /\ FrameOf(1).at = "publish" => tasks[num_tasks] = At(num_tasks, "play")

Sound == TypeOK /\ Accounts

LEMMA SoundInit == Init => Sound
<1> SUFFICES ASSUME Init PROVE Sound
  OBVIOUS
<1> USE TasksAssumption DEF Init
<1>1. At(1, "poll") \in Frame /\ At(BootStack, "hlt") \in Frame /\ NoFrame \in Frame
  BY DEF At, NoFrame, Frame, Places, ShellPlaces, Pages
<1>2. TypeOK
  <2>1. tasks \in [Slots -> Frame]
    BY <1>1
  <2>2. num_tasks \in 2 .. MAX_TASKS /\ current_task \in 0 .. num_tasks - 1
    OBVIOUS
  <2>3. cpu \in Frame /\ free \in SUBSET Pages /\ page \in Pages \cup {0} /\ kbd \in BOOLEAN
    BY <1>1
  <2> QED BY <2>1, <2>2, <2>3 DEF TypeOK
<1>3. FrameOf(0) = At(BootStack, "hlt") /\ FrameOf(1) = At(1, "poll")
  BY DEF FrameOf, Slots
<1>4. Published = {0, 1}
  BY DEF Published
<1>5. free = 2 .. NPages
  BY DEF Pages
<1> QED BY <1>2, <1>3, <1>4, <1>5 DEF Sound, Accounts, InItsCode, ShellPlaces, At, Holding,
                                      FirstFree

\* The running task is the one whose code the place belongs to.
LEMMA WhoRuns ==
  ASSUME Sound
  PROVE  /\ cpu.at \in ShellPlaces => current_task = 1
         /\ cpu.at = "play" => current_task > 1
         /\ FrameOf(current_task) = cpu
         /\ current_task \in Published
<1>1. FrameOf(current_task) = cpu /\ current_task \in Published
  BY DEF Sound, TypeOK, FrameOf, Published
<1>2. InItsCode(current_task, cpu.at)
  BY <1>1 DEF Sound, Accounts
<1>3. current_task \in Int
  BY DEF Sound, TypeOK
<1> QED BY <1>1, <1>2, <1>3 DEF InItsCode, ShellPlaces

\* A turn of the timer moves no task's frame.
LEMMA TimerKeepsFrames ==
  ASSUME Sound, IRQ0
  PROVE  /\ TypeOK'
         /\ \A i \in Published : FrameOf(i)' = FrameOf(i)
         /\ Published' = Published /\ 1 \in Published /\ num_tasks \notin Published
<1> USE DEF Sound, TypeOK
<1>1. /\ tasks' = [tasks EXCEPT ![current_task] = cpu]
      /\ current_task' = NextTask /\ cpu' = tasks'[NextTask]
      /\ UNCHANGED <<num_tasks, free, page, kbd, slave>>
  BY DEF IRQ0, schedule_handler
<1>2. NextTask \in Published /\ Published \subseteq Slots
  BY TasksAssumption DEF NextTask, Published, Slots
<1>3. tasks' \in [Slots -> Frame] /\ cpu' \in Frame
  BY <1>1, <1>2
<1>4. master' \in SUBSET InMaster /\ pend' \in SUBSET Lines
  <2>1. master' \subseteq master \cup {0}
    BY EoiShrinks DEF IRQ0, TimerEoi
  <2> QED BY <2>1 DEF IRQ0, Taken, InMaster
<1>5. TypeOK'
  BY <1>1, <1>2, <1>3, <1>4 DEF Published
<1>6. ASSUME NEW i \in Published PROVE FrameOf(i)' = FrameOf(i)
  BY <1>1, <1>2 DEF FrameOf
<1> QED BY <1>1, <1>5, <1>6 DEF Published

\* What a step of the running task leaves of Accounts: only its own frame, and
\* the table's entry above the published ones, may change.
LEMMA OthersStay ==
  ASSUME Sound, UNCHANGED <<num_tasks, current_task>>,
         \A i \in Published : tasks'[i] = tasks[i]
  PROVE  /\ Published' = Published /\ FrameOf(current_task)' = cpu'
         /\ \A i \in Published : i # current_task => FrameOf(i)' = FrameOf(i)
BY DEF Sound, TypeOK, Published, FrameOf

\* A page is always left when the shell asks for one.
LEMMA AllocGivesTheNext ==
  ASSUME Sound, page = 0, pmm_alloc_block,
         num_tasks < MAX_TASKS \/ FrameOf(1).at \notin {"frame", "publish"}
  PROVE  page' = num_tasks /\ free' = (num_tasks + 1) .. NPages /\ page' \in Pages
<1> USE TasksAssumption DEF Sound, TypeOK
<1>1. free = num_tasks .. NPages
  BY DEF Accounts, FirstFree
<1>2. num_tasks \in Nat /\ num_tasks <= NPages /\ num_tasks # 0
  OBVIOUS
<1>3. free # {} /\ Min(free) = num_tasks
  BY <1>1, <1>2, MinOfRange
<1> QED BY <1>1, <1>2, <1>3 DEF pmm_alloc_block, Pages

LEMMA SoundStep == Sound /\ [Next]_vars => Sound'
<1> SUFFICES ASSUME Sound, [Next]_vars PROVE Sound'
  OBVIOUS
<1> USE TasksAssumption
<1>a. TypeOK /\ Accounts
  BY DEF Sound
<1>b. 1 \in Published /\ num_tasks \notin Published /\ num_tasks \in 2 .. MAX_TASKS
  BY DEF Sound, TypeOK, Published
<1>1. CASE IRQ0
  <2>1. /\ TypeOK'
        /\ \A i \in Published : FrameOf(i)' = FrameOf(i)
        /\ Published' = Published
    BY <1>1, TimerKeepsFrames
  <2>2. /\ tasks' = [tasks EXCEPT ![current_task] = cpu]
        /\ UNCHANGED <<num_tasks, page, free>>
    BY <1>1 DEF IRQ0, schedule_handler
  <2>3. tasks'[num_tasks] = tasks[num_tasks] \/ num_tasks = MAX_TASKS
    BY <1>a, <2>2 DEF TypeOK, Slots
  <2>4. FrameOf(1)' = FrameOf(1)
    BY <1>b, <2>1
  <2>5. Accounts'
    BY <1>a, <2>1, <2>2, <2>3, <2>4 DEF Accounts, FirstFree
  <2> QED BY <2>1, <2>5 DEF Sound
<1>2. CASE IRQ1 \/ IRQ14 \/ IRQ15 \/ Tick \/ Key \/ \E i \in {14, 15} : DriveDone(i)
  <2>1. UNCHANGED <<tasks, num_tasks, current_task, cpu, free, page>>
    BY <1>2 DEF IRQ1, IRQ14, IRQ15, Tick, Key, DriveDone
  <2>2. pend' \in SUBSET Lines /\ kbd' \in BOOLEAN
    BY <1>2, <1>a DEF IRQ1, IRQ14, IRQ15, Tick, Key, DriveDone, Taken, TypeOK, Lines
  <2>3. master' \in SUBSET InMaster /\ slave' \in SUBSET InSlave
    BY <1>2, <1>a, EoiShrinks
       DEF IRQ1, IRQ14, IRQ15, Tick, Key, DriveDone, TypeOK, InMaster, InSlave
  <2>4. TypeOK'
    BY <1>a, <2>1, <2>2, <2>3 DEF TypeOK
  <2>5. Accounts'
    BY <1>a, <2>1 DEF Accounts, FirstFree, Published, FrameOf
  <2> QED BY <2>4, <2>5 DEF Sound
<1>3. CASE ReadKey
  <2>1. PICK p \in {"poll", "create", "open", "wait", "halted"} : Goto(p)
    BY <1>3 DEF ReadKey
  <2>2. /\ cpu.at = "poll" /\ pend' \in {pend, pend \ {1}} /\ kbd' = FALSE
        /\ UNCHANGED <<tasks, num_tasks, current_task, free, page, master, slave>>
    BY <1>3 DEF ReadKey
  <2>3. current_task = 1 /\ FrameOf(1) = cpu
    BY <2>2, WhoRuns DEF ShellPlaces
  <2>4. cpu' = At(cpu.stack, p) /\ cpu' \in Frame
    BY <1>a, <2>1 DEF Goto, TypeOK, Frame, At, Places, ShellPlaces
  <2>5. TypeOK'
    BY <1>a, <2>2, <2>4 DEF TypeOK
  <2>6. /\ Published' = Published /\ FrameOf(1)' = cpu'
        /\ \A i \in Published : i # 1 => FrameOf(i)' = FrameOf(i)
    BY <2>2, <2>3, OthersStay
  <2>7. cpu'.at = p /\ cpu'.stack = cpu.stack
    BY <2>4 DEF At
  <2>8. Accounts'
    BY <1>a, <1>b, <2>2, <2>3, <2>6, <2>7
       DEF Accounts, FirstFree, Holding, InItsCode, ShellPlaces
  <2> QED BY <2>5, <2>8 DEF Sound
<1>4. CASE CreateTask
  <2>1. /\ cpu.at = "create"
        /\ UNCHANGED <<tasks, num_tasks, current_task, kbd, pend, master, slave>>
    BY <1>4 DEF CreateTask
  <2>2. current_task = 1 /\ FrameOf(1) = cpu
    BY <2>1, WhoRuns DEF ShellPlaces
  <2>3. /\ Published' = Published /\ FrameOf(1)' = cpu'
        /\ \A i \in Published : i # 1 => FrameOf(i)' = FrameOf(i)
    BY <2>1, <2>2, OthersStay
  <2>4. page = 0
    BY <1>a, <2>1, <2>2 DEF Accounts, Holding
  <2>5. CASE num_tasks >= MAX_TASKS
    <3>1. cpu' = At(cpu.stack, "poll") /\ cpu' \in Frame /\ UNCHANGED <<free, page>>
      BY <1>4, <1>a, <2>5 DEF CreateTask, Goto, TypeOK, Frame, At, Places, ShellPlaces
    <3>2. TypeOK'
      BY <1>a, <2>1, <3>1 DEF TypeOK
    <3>3. cpu'.at = "poll" /\ cpu'.stack = cpu.stack
      BY <3>1 DEF At
    <3>4. Accounts'
      BY <1>a, <1>b, <2>1, <2>2, <2>3, <2>4, <3>1, <3>3
         DEF Accounts, FirstFree, Holding, InItsCode, ShellPlaces
    <3> QED BY <3>2, <3>4 DEF Sound
  <2>6. CASE ~(num_tasks >= MAX_TASKS)
    <3>1. pmm_alloc_block /\ Goto(IF page' = 0 THEN "poll" ELSE "frame")
      BY <1>4, <2>6 DEF CreateTask
    <3>2. num_tasks < MAX_TASKS
      BY <1>b, <2>6
    <3>3. /\ page' = num_tasks /\ page' \in Pages
          /\ free' = (num_tasks + 1) .. NPages
      BY <2>4, <3>1, <3>2, AllocGivesTheNext
    <3>4. cpu' = At(cpu.stack, "frame") /\ cpu' \in Frame
      BY <1>a, <1>b, <3>1, <3>3 DEF Goto, TypeOK, Frame, At, Places, ShellPlaces
    <3>5. free' \in SUBSET Pages
      BY <1>a, <3>1 DEF pmm_alloc_block, TypeOK
    <3>6. TypeOK'
      BY <1>a, <2>1, <3>3, <3>4, <3>5 DEF TypeOK
    <3>7. cpu'.at = "frame" /\ cpu'.stack = cpu.stack
      BY <3>4 DEF At
    <3>8. Accounts'
      BY <1>a, <1>b, <2>1, <2>2, <2>3, <3>2, <3>3, <3>7
         DEF Accounts, FirstFree, Holding, InItsCode, ShellPlaces
    <3> QED BY <3>6, <3>8 DEF Sound
  <2> QED BY <2>5, <2>6
<1>5. CASE CreateFrame
  <2>1. /\ cpu.at = "frame" /\ Goto("publish")
        /\ tasks' = [tasks EXCEPT ![num_tasks] = At(page, "play")]
        /\ UNCHANGED <<num_tasks, current_task, free, page, kbd, pend, master, slave>>
    BY <1>5 DEF CreateFrame
  <2>2. current_task = 1 /\ FrameOf(1) = cpu
    BY <2>1, WhoRuns DEF ShellPlaces
  <2>3. page = num_tasks /\ num_tasks < MAX_TASKS /\ num_tasks \in Slots
    BY <1>a, <1>b, <2>1, <2>2 DEF Accounts, Holding, Slots
  <2>4. \A i \in Published : tasks'[i] = tasks[i]
    BY <1>a, <1>b, <2>1, <2>3 DEF TypeOK, Slots, Published
  <2>5. /\ Published' = Published /\ FrameOf(1)' = cpu'
        /\ \A i \in Published : i # 1 => FrameOf(i)' = FrameOf(i)
    BY <2>1, <2>2, <2>4, OthersStay
  <2>6. cpu' = At(cpu.stack, "publish") /\ cpu' \in Frame
    BY <1>a, <2>1 DEF Goto, TypeOK, Frame, At, Places, ShellPlaces
  <2>7. At(page, "play") \in Frame
    BY <1>a DEF TypeOK, Frame, At, Places
  <2>8. tasks' \in [Slots -> Frame] /\ tasks'[num_tasks] = At(num_tasks, "play")
    BY <1>a, <2>1, <2>3, <2>7 DEF TypeOK
  <2>9. TypeOK'
    BY <1>a, <2>1, <2>6, <2>8 DEF TypeOK
  <2>10. cpu'.at = "publish" /\ cpu'.stack = cpu.stack
    BY <2>6 DEF At
  <2>11. Accounts'
    BY <1>a, <1>b, <2>1, <2>2, <2>3, <2>5, <2>8, <2>10
       DEF Accounts, FirstFree, Holding, InItsCode, ShellPlaces
  <2> QED BY <2>9, <2>11 DEF Sound
<1>6. CASE CreatePublish
  <2>1. /\ cpu.at = "publish" /\ Goto("poll")
        /\ num_tasks' = num_tasks + 1 /\ page' = 0
        /\ UNCHANGED <<tasks, current_task, free, kbd, pend, master, slave>>
    BY <1>6 DEF CreatePublish
  <2>2. current_task = 1 /\ FrameOf(1) = cpu
    BY <2>1, WhoRuns DEF ShellPlaces
  <2>3. page = num_tasks /\ num_tasks < MAX_TASKS /\ tasks[num_tasks] = At(num_tasks, "play")
    BY <1>a, <1>b, <2>1, <2>2 DEF Accounts, Holding
  <2>4. cpu' = At(cpu.stack, "poll") /\ cpu' \in Frame
    BY <1>a, <2>1 DEF Goto, TypeOK, Frame, At, Places, ShellPlaces
  <2>5. TypeOK'
    BY <1>a, <1>b, <2>1, <2>3, <2>4 DEF TypeOK
  <2>6. /\ Published' = Published \cup {num_tasks} /\ FrameOf(1)' = cpu'
        /\ \A i \in Published : i # 1 => FrameOf(i)' = FrameOf(i)
        /\ \A i \in Published' : i = num_tasks => FrameOf(i)' = At(num_tasks, "play")
    BY <1>a, <1>b, <2>1, <2>2, <2>3 DEF Published, FrameOf, TypeOK
  <2>7. cpu'.at = "poll" /\ cpu'.stack = cpu.stack
    BY <2>4 DEF At
  <2>8. At(num_tasks, "play").at = "play" /\ At(num_tasks, "play").stack = num_tasks
    BY DEF At
  <2>9. free' = (num_tasks + 1) .. NPages
    BY <1>a, <1>b, <2>1, <2>3 DEF Accounts, FirstFree
  <2>10. ASSUME NEW i \in Published'
         PROVE  /\ InItsCode(i, FrameOf(i)'.at)
                /\ FrameOf(i)'.stack = IF i = 0 THEN BootStack ELSE i
    <3>1. CASE i = num_tasks
      BY <1>b, <2>6, <2>8, <2>10, <3>1 DEF InItsCode
    <3>2. CASE i # num_tasks
      BY <1>a, <1>b, <2>2, <2>6, <2>7, <3>2 DEF Accounts, InItsCode, ShellPlaces
    <3> QED BY <3>1, <3>2
  <2>11. Accounts'
    BY <1>b, <2>1, <2>6, <2>7, <2>9, <2>10 DEF Accounts, FirstFree, Holding
  <2> QED BY <2>5, <2>11 DEF Sound
<1>7. CASE OpenBegin
  <2>1. /\ cpu.at = "open" /\ pmm_alloc_block /\ Goto("program")
        /\ UNCHANGED <<tasks, num_tasks, current_task, kbd, pend, master, slave>>
    BY <1>7 DEF OpenBegin
  <2>2. current_task = 1 /\ FrameOf(1) = cpu
    BY <2>1, WhoRuns DEF ShellPlaces
  <2>3. /\ Published' = Published /\ FrameOf(1)' = cpu'
        /\ \A i \in Published : i # 1 => FrameOf(i)' = FrameOf(i)
    BY <2>1, <2>2, OthersStay
  <2>4. page = 0
    BY <1>a, <2>1, <2>2 DEF Accounts, Holding
  <2>5. /\ page' = num_tasks /\ page' \in Pages
        /\ free' = (num_tasks + 1) .. NPages
    BY <2>1, <2>2, <2>4, AllocGivesTheNext
  <2>6. cpu' = At(cpu.stack, "program") /\ cpu' \in Frame
    BY <1>a, <2>1 DEF Goto, TypeOK, Frame, At, Places, ShellPlaces
  <2>7. free' \in SUBSET Pages
    BY <1>a, <2>1 DEF pmm_alloc_block, TypeOK
  <2>8. TypeOK'
    BY <1>a, <2>1, <2>5, <2>6, <2>7 DEF TypeOK
  <2>9. cpu'.at = "program" /\ cpu'.stack = cpu.stack
    BY <2>6 DEF At
  <2>10. Accounts'
    BY <1>a, <1>b, <2>1, <2>2, <2>3, <2>5, <2>9
       DEF Accounts, FirstFree, Holding, InItsCode, ShellPlaces
  <2> QED BY <2>8, <2>10 DEF Sound
<1>8. CASE OpenEnd
  <2>1. /\ cpu.at = "program" /\ Goto("poll") /\ free' = free \cup {page} /\ page' = 0
        /\ UNCHANGED <<tasks, num_tasks, current_task, kbd, pend, master, slave>>
    BY <1>8 DEF OpenEnd
  <2>2. current_task = 1 /\ FrameOf(1) = cpu
    BY <2>1, WhoRuns DEF ShellPlaces
  <2>3. /\ Published' = Published /\ FrameOf(1)' = cpu'
        /\ \A i \in Published : i # 1 => FrameOf(i)' = FrameOf(i)
    BY <2>1, <2>2, OthersStay
  <2>4. page = num_tasks /\ num_tasks \in Pages
    BY <1>a, <1>b, <2>1, <2>2 DEF Accounts, Holding, Pages
  <2>5. free = (num_tasks + 1) .. NPages
    BY <1>a, <1>b, <2>4 DEF Accounts, FirstFree
  <2>6. free' = num_tasks .. NPages /\ free' \in SUBSET Pages
    BY <1>b, <2>1, <2>4, <2>5 DEF Pages
  <2>7. cpu' = At(cpu.stack, "poll") /\ cpu' \in Frame
    BY <1>a, <2>1 DEF Goto, TypeOK, Frame, At, Places, ShellPlaces
  <2>8. TypeOK'
    BY <1>a, <2>1, <2>6, <2>7 DEF TypeOK
  <2>9. cpu'.at = "poll" /\ cpu'.stack = cpu.stack
    BY <2>7 DEF At
  <2>10. Accounts'
    BY <1>a, <1>b, <2>1, <2>2, <2>3, <2>6, <2>9
       DEF Accounts, FirstFree, Holding, InItsCode, ShellPlaces
  <2> QED BY <2>8, <2>10 DEF Sound
<1>9. CASE PlayReturns
  <2>1. /\ cpu.at = "play" /\ Goto("halted")
        /\ UNCHANGED <<tasks, num_tasks, current_task, free, page, kbd, pend, master, slave>>
    BY <1>9 DEF PlayReturns
  <2>2. current_task > 1 /\ FrameOf(current_task) = cpu /\ current_task \in Published
    BY <2>1, WhoRuns
  <2>3. /\ Published' = Published /\ FrameOf(current_task)' = cpu'
        /\ \A i \in Published : i # current_task => FrameOf(i)' = FrameOf(i)
    BY <2>1, OthersStay
  <2>4. cpu' = At(cpu.stack, "halted") /\ cpu' \in Frame
    BY <1>a, <2>1 DEF Goto, TypeOK, Frame, At, Places, ShellPlaces
  <2>5. TypeOK'
    BY <1>a, <2>1, <2>4 DEF TypeOK
  <2>6. cpu'.at = "halted" /\ cpu'.stack = cpu.stack
    BY <2>4 DEF At
  <2>7. FrameOf(1)' = FrameOf(1)
    BY <1>a, <1>b, <2>2, <2>3 DEF TypeOK
  <2>8. Accounts'
    BY <1>a, <1>b, <2>1, <2>2, <2>3, <2>6, <2>7 DEF Accounts, FirstFree, InItsCode
  <2> QED BY <2>5, <2>8 DEF Sound
<1>10. CASE WaitEnds
  <2>1. PICK p \in {"poll", "halted"} : Goto(p)
    BY <1>10 DEF WaitEnds
  <2>2. /\ cpu.at = "wait"
        /\ UNCHANGED <<tasks, num_tasks, current_task, free, page, kbd, pend, master, slave>>
    BY <1>10 DEF WaitEnds
  <2>3. current_task = 1 /\ FrameOf(1) = cpu
    BY <2>2, WhoRuns DEF ShellPlaces
  <2>4. cpu' = At(cpu.stack, p) /\ cpu' \in Frame
    BY <1>a, <2>1 DEF Goto, TypeOK, Frame, At, Places, ShellPlaces
  <2>5. TypeOK'
    BY <1>a, <2>2, <2>4 DEF TypeOK
  <2>6. /\ Published' = Published /\ FrameOf(1)' = cpu'
        /\ \A i \in Published : i # 1 => FrameOf(i)' = FrameOf(i)
    BY <2>2, <2>3, OthersStay
  <2>7. cpu'.at = p /\ cpu'.stack = cpu.stack
    BY <2>4 DEF At
  <2>8. Accounts'
    BY <1>a, <1>b, <2>2, <2>3, <2>6, <2>7
       DEF Accounts, FirstFree, Holding, InItsCode, ShellPlaces
  <2> QED BY <2>5, <2>8 DEF Sound
<1>11. CASE UNCHANGED vars
  BY <1>11 DEF vars, Sound, TypeOK, Accounts, FirstFree, Published, FrameOf
<1> QED BY <1>1, <1>2, <1>3, <1>4, <1>5, <1>6, <1>7, <1>8, <1>9, <1>10, <1>11
       DEF Next, ShellStep

THEOREM SoundAlways == Spec => []Sound
BY SoundInit, SoundStep, PTL DEF Spec

\* Every variable keeps its type; current_task is always a published task.
THEOREM TypeCorrect == Spec => []TypeOK
<1>1. Sound => TypeOK
  BY DEF Sound
<1> QED BY <1>1, SoundAlways, PTL

\* Whenever the timer strikes, every published task has a frame of its own
\* code on a stack of its own, for any table and any memory.
THEOREM FramesSaved == Spec => []SavedFrames
<1>1. Sound => SavedFrames
  <2> SUFFICES ASSUME Sound PROVE SavedFrames
    OBVIOUS
  <2>1. ASSUME NEW i \in Published
        PROVE  /\ InItsCode(i, FrameOf(i).at) /\ i \in Int /\ i < num_tasks
               /\ FrameOf(i).stack = IF i = 0 THEN BootStack ELSE i
    BY DEF Sound, TypeOK, Accounts, Published
  <2>2. free = FirstFree .. NPages /\ FirstFree \in Int /\ FirstFree >= num_tasks
    BY DEF Sound, TypeOK, Accounts, FirstFree
  <2>3. \A i \in Published : FrameOf(i).stack # 0 /\ FrameOf(i).stack \notin free
    BY <2>1, <2>2 DEF BootStack, Sound, TypeOK
  <2>4. \A i, j \in Published : i # j => FrameOf(i).stack # FrameOf(j).stack
    BY <2>1 DEF BootStack, Published
  <2>5. \A i \in Published :
          FrameOf(i).at \in {"halted"} \cup
             (IF i = 0 THEN {"hlt"} ELSE IF i = 1 THEN ShellPlaces ELSE {"play"})
    BY <2>1 DEF InItsCode
  <2> QED BY <2>3, <2>4, <2>5 DEF SavedFrames
<1> QED BY <1>1, SoundAlways, PTL

\* However large TplState is, clearing it overwrites no task's stack.
THEOREM StateSparesStacks == Spec => []StateClearsNoStack
<1>1. Sound => StateClearsNoStack
  <2> SUFFICES ASSUME Sound, FrameOf(1).at = "program", NEW i \in Published
               PROVE  FrameOf(i).stack \notin page .. page + StatePages - 1
    BY DEF StateClearsNoStack
  <2>1. page = num_tasks
    BY DEF Sound, Accounts, Holding
  <2>2. i \in Int /\ i < num_tasks /\ num_tasks \in Nat
    BY DEF Sound, TypeOK, Published
  <2>3. FrameOf(i).stack = -1 \/ FrameOf(i).stack = i
    BY DEF Sound, Accounts, BootStack
  <2> QED BY <2>1, <2>2, <2>3, TasksAssumption
<1> QED BY <1>1, SoundAlways, PTL
=============================================================================
