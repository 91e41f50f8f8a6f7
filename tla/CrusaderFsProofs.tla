-------------------------- MODULE CrusaderFsProofs --------------------------
(* Theorems about CrusaderFs, for every size of disk, directory and file.  *)
EXTENDS CrusaderFs, WellFoundedInduction, TLAPS

-----------------------------------------------------------------------------
(* Minima                                                                  *)

\* The least element of a non-empty set of numbers is one of its elements.
LEMMA MinIsLeast ==
  ASSUME NEW S, S \subseteq Nat, S # {}
  PROVE  Min(S) \in S /\ \A y \in S : Min(S) <= y
<1>1. PICK m \in S : \A y \in S : <<y, m>> \notin OpToRel(<, Nat)
  BY WFMin, NatLessThanWellFounded, Zenon
<1>2. \A y \in S : ~(y < m)
  BY <1>1, Zenon DEF OpToRel
<1>3. \A y \in S : m <= y
  BY <1>2
<1>4. QED
  BY <1>3 DEF Min

\* The first of a set of places <<block, cell>> is one of them.
LEMMA FirstIsIn ==
  ASSUME NEW H, H \subseteq Nat \X Nat, H # {}
  PROVE  First(H) \in H
<1> DEFINE B == {h[1] : h \in H}
<1>1. B \subseteq Nat /\ B # {}
  OBVIOUS
<1>2. PICK h0 \in H : h0[1] = Min(B)
  BY <1>1, MinIsLeast
<1> DEFINE C == {h[2] : h \in {g \in H : g[1] = Min(B)}}
<1>3. C \subseteq Nat /\ C # {}
  BY <1>2
<1>4. PICK h1 \in H : h1[1] = Min(B) /\ h1[2] = Min(C)
  BY <1>3, MinIsLeast
<1>5. \A g \in H : Min(B) <= g[1]
  BY <1>1, MinIsLeast
<1>6. \A g \in H : g[1] = Min(B) => Min(C) <= g[2]
  BY <1>3, MinIsLeast
<1>7. \A g \in H : h1[1] < g[1] \/ (h1[1] = g[1] /\ h1[2] <= g[2])
  <2> TAKE g \in H
  <2> HIDE DEF B, C
  <2>1. g[1] \in Nat /\ g[2] \in Nat /\ h1[1] \in Nat /\ h1[2] \in Nat
    OBVIOUS
  <2>2. CASE g[1] = h1[1]
    BY <1>4, <1>6, <2>1, <2>2
  <2>3. CASE g[1] # h1[1]
    BY <1>4, <1>5, <2>1, <2>3
  <2>4. QED
    BY <2>2, <2>3
<1>8. QED
  BY <1>7 DEF First

-----------------------------------------------------------------------------
(* Types of the operators                                                  *)

LEMMA BaseTypes ==
  /\ 0 \in Inodes /\ 0 \in Direct /\ 0 \in Cells /\ 0 \in Ptr
  /\ Inodes \subseteq Nat /\ Direct \subseteq Nat /\ Cells \subseteq Nat
  /\ NoInode \in Inode /\ Zero \in Cell /\ ZeroBlock \in [Cells -> Cell]
  /\ NoJob \in Job
<1>1. /\ 0 \in Inodes /\ 0 \in Direct /\ 0 \in Cells /\ 0 \in Ptr
      /\ Inodes \subseteq Nat /\ Direct \subseteq Nat /\ Cells \subseteq Nat
  BY SizeAssumption DEF Inodes, Direct, Cells, Ptr
<1>2. NoInode \in Inode
  BY <1>1 DEF NoInode, Inode
<1>3. Zero \in Cell /\ ZeroBlock \in [Cells -> Cell]
  BY DEF Zero, ZeroBlock, Cell
<1>4. NoJob \in Job
  BY <1>1, <1>2 DEF NoJob, Job, Ops
<1>5. QED
  BY <1>1, <1>2, <1>3, <1>4

LEMMA FreshInodeType ==
  ASSUME NEW b \in Ptr, NEW ty \in 0 .. 2
  PROVE  FreshInode(ty, b) \in Inode
BY BaseTypes DEF FreshInode, Inode, NoInode

\* alloc_block() returns 0 or a block of the data area that was free.
LEMMA NewBlockIsFree ==
  ASSUME bbm \in SUBSET DataBlocks
  PROVE  /\ NewBlock \in Ptr
         /\ NewBlock # 0 => NewBlock \in DataBlocks \ bbm
<1>1. CASE DataBlocks \subseteq bbm
  BY <1>1 DEF NewBlock, Ptr
<1>2. CASE ~(DataBlocks \subseteq bbm)
  <2>1. DataBlocks \ bbm \subseteq Nat /\ DataBlocks \ bbm # {}
    BY <1>2, BlocksAssumption
  <2>2. Min(DataBlocks \ bbm) \in DataBlocks \ bbm
    BY <2>1, MinIsLeast
  <2>3. QED
    BY <1>2, <2>2 DEF NewBlock, Ptr
<1>3. QED
  BY <1>1, <1>2

LEMMA AllocTypes ==
  ASSUME bbm \in SUBSET DataBlocks, dbbm \in SUBSET DataBlocks, alloc_block
  PROVE  bbm' \in SUBSET DataBlocks /\ dbbm' \in SUBSET DataBlocks
BY NewBlockIsFree DEF alloc_block, save_block_bitmap

LEMMA FreeInodeType ==
  ASSUME FreeInodes # {}
  PROVE  Min(FreeInodes) \in Inodes
BY MinIsLeast, BaseTypes DEF FreeInodes

\* A lookup yields an inode of the table, never the root, or -1.
LEMMA LookupType ==
  ASSUME DiskType, NEW d \in Inode, NEW n
  PROVE  dir_lookup(d, n) \in Inodes \cup {-1}
<1>1. CASE d.type # 2 \/ LookupHits(d, n) = {}
  BY <1>1 DEF dir_lookup
<1>2. CASE ~(d.type # 2 \/ LookupHits(d, n) = {})
  <2> DEFINE h == First(LookupHits(d, n))
  <2>1. LookupHits(d, n) \subseteq Direct \X Cells
    BY DEF LookupHits
  <2>2. h \in LookupHits(d, n)
    BY <1>2, <2>1, FirstIsIn, BaseTypes
  <2>3. h \in Direct \X Cells /\ d.direct[h[1]] # 0 /\ h[1] \in Nat
    <3> HIDE DEF h
    <3>1. h \in Direct \X Cells /\ \A a \in 0 .. h[1] : d.direct[a] # 0
      BY <2>2 DEF LookupHits
    <3>2. h[1] \in Nat
      BY <3>1, BaseTypes
    <3>3. QED
      BY <3>1, <3>2
  <2>4. d.direct[h[1]] \in DataBlocks
    BY <2>3 DEF Inode, Ptr
  <2>5. blk[d.direct[h[1]]][h[2]] \in Cell
    BY <2>3, <2>4 DEF DiskType
  <2>6. blk[d.direct[h[1]]][h[2]].w \in Nat /\ blk[d.direct[h[1]]][h[2]].w < NInodes
    BY <2>2, <2>5 DEF LookupHits, Cell
  <2>7. blk[d.direct[h[1]]][h[2]].w \in Inodes
    BY <2>6, SizeAssumption DEF Inodes
  <2>8. dir_lookup(d, n) = blk[d.direct[h[1]]][h[2]].w
    BY <1>2 DEF dir_lookup
  <2>9. QED
    BY <2>7, <2>8
<1>3. QED
  BY <1>1, <1>2

LEMMA AfterAddTypes ==
  ASSUME TypeOK, NEW ok \in BOOLEAN, AfterAdd(ok)
  PROVE  pc' \in Places /\ job' \in Job
<1> USE DEF TypeOK, DiskType, Goto, Finish
<1>1. CASE job.op \in FileOps
  <2>1. itab[job.idx] \in Inode
    BY DEF Job
  <2>2. itab[job.idx].size \in Nat
    BY <2>1 DEF Inode
  <2>3. /\ pc' = "fw"
        /\ job' = [job EXCEPT !.k = 0, !.node = itab[job.idx], !.seen = ok,
                              !.off = IF job.op = "wr" THEN itab[job.idx].size ELSE 0]
    BY <1>1 DEF AfterAdd, FileOps, Formats
  <2>4. QED
    BY <2>1, <2>2, <2>3 DEF Job, Places
<1>2. CASE job.op \in Formats
  BY <1>2 DEF AfterAdd, Job, Places, FileOps, Formats
<1>3. CASE job.op = "mf"
  BY <1>3, BaseTypes DEF AfterAdd, Places, FileOps, Formats
<1>4. QED
  BY <1>1, <1>2, <1>3 DEF AfterAdd

-----------------------------------------------------------------------------
(* Type correctness                                                        *)

\* A command that creates starts with a well-typed frame.
LEMMA BeginCreateTypes ==
  ASSUME TypeOK, NEW op \in Ops, NEW n \in Names, NEW c \in Texts \cup {None},
         NEW l \in Nat, BeginCreate(op, n, c, l)
  PROVE  ibm' \in SUBSET Inodes /\ dibm' \in SUBSET Inodes /\ pc' \in Places /\ job' \in Job
<1>1. Min(FreeInodes) \in Inodes
  BY FreeInodeType DEF BeginCreate
<1>2. job' = [NoJob EXCEPT !.op = op, !.name = n, !.text = c, !.len = l,
                           !.idx = Min(FreeInodes), !.home = cwd]
  BY DEF BeginCreate, Goto
<1>3. job' \in Job
  BY <1>1, <1>2, BaseTypes DEF Job, TypeOK, MemType
<1>4. QED
  BY <1>1, <1>3 DEF BeginCreate, Goto, Places, save_inode_bitmap, TypeOK, MemType

LEMMA CommandTypes ==
  ASSUME TypeOK, NEW n \in Names, NEW c \in Texts, NEW l \in Lens,
         \/ Wr(n, c, l) \/ Mf(n) \/ NoteNew(c) \/ NoteAgain(c)
         \/ Dl(n) \/ Cd(n) \/ CdUp \/ Format \/ Qformat \/ PowerCut
  PROVE  TypeOK'
<1> USE DEF TypeOK, DiskType, MemType, GhostType, Counted
<1>1. CASE Wr(n, c, l)
  <2>1. ibm' \in SUBSET Inodes /\ dibm' \in SUBSET Inodes /\ pc' \in Places /\ job' \in Job
    BY <1>1, BeginCreateTypes, SizeAssumption DEF Wr, Ops, FileOps
  <2>2. QED
    BY <1>1, <2>1 DEF Wr
<1>2. CASE Mf(n)
  <2>1. ibm' \in SUBSET Inodes /\ dibm' \in SUBSET Inodes /\ pc' \in Places /\ job' \in Job
    BY <1>2, BeginCreateTypes DEF Mf, Ops
  <2>2. QED
    BY <1>2, <2>1 DEF Mf
<1>3. CASE NoteNew(c)
  <2>1. ibm' \in SUBSET Inodes /\ dibm' \in SUBSET Inodes /\ pc' \in Places /\ job' \in Job
    BY <1>3, BeginCreateTypes, SizeAssumption, NamesAssumption DEF NoteNew, Ops, FileOps
  <2>2. QED
    BY <1>3, <2>1 DEF NoteNew
<1>4. CASE NoteAgain(c)
  <2> DEFINE i == dir_lookup(itab[0], NotesName)
  <2>1. i \in Inodes
    BY <1>4, LookupType, BaseTypes DEF NoteAgain
  <2>2. itab[i] \in Inode
    BY <2>1
  <2>3. job' = [NoJob EXCEPT !.op = "note", !.name = NotesName, !.text = c,
                             !.len = NotesLen, !.idx = i, !.node = itab[i], !.seen = TRUE]
    BY <1>4 DEF NoteAgain, Goto
  <2> HIDE DEF i
  <2>4. job' \in Job
    BY <2>1, <2>2, <2>3, BaseTypes, SizeAssumption, NamesAssumption DEF Job, Ops, FileOps
  <2>5. QED
    BY <1>4, <2>4 DEF NoteAgain, Goto, Places, Forget, disk, mem
<1>5. CASE Dl(n)
  <2> DEFINE i == dir_lookup(itab[0], n)
  <2>1. i \in Inodes
    BY <1>5, LookupType, BaseTypes DEF Dl
  <2>2. itab[i] \in Inode /\ itab[0] \in Inode
    BY <2>1, BaseTypes
  <2>3. job' = [NoJob EXCEPT !.op = "dl", !.name = n, !.idx = i,
                             !.node = itab[i], !.dir = itab[0]]
    BY <1>5 DEF Dl, Goto
  <2> HIDE DEF i
  <2>4. job' \in Job
    BY <2>1, <2>2, <2>3, BaseTypes DEF Job, Ops
  <2>5. QED
    BY <1>5, <2>4 DEF Dl, Goto, Places, Forget, disk, mem
<1>6. CASE Cd(n)
  <2>1. fs_cd(n) \in Inodes
    BY <1>6, LookupType DEF Cd, fs_cd
  <2>2. QED
    BY <1>6, <2>1 DEF Cd, disk
<1>7. CASE CdUp
  BY <1>7, BaseTypes DEF CdUp, disk
<1>8. CASE Format
  <2>1. job' \in Job
    BY <1>8, BaseTypes DEF Format, Goto, Job, Ops, Formats
  <2>2. QED
    BY <1>8, <2>1, BaseTypes DEF Format, Goto, Places
<1>9. CASE Qformat
  <2>1. job' \in Job
    BY <1>9, BaseTypes DEF Qformat, Goto, Job, Ops, Formats
  <2>2. QED
    BY <1>9, <2>1, BaseTypes DEF Qformat, Goto, Places
<1>10. CASE PowerCut
  <2>1. /\ cut' \in BOOLEAN
    BY <1>10, Zenon DEF PowerCut
  <2>2. pc' = "boot" /\ job' = NoJob
    BY <1>10 DEF PowerCut, Goto
  <2>3. /\ up' = FALSE /\ bbm' = {} /\ ibm' = {} /\ cwd' = 0 /\ cuts' = cuts + 1
        /\ UNCHANGED <<sb, dbbm, dibm, itab, blk, saved, cmds>>
    BY <1>10 DEF PowerCut, disk
  <2>4. DiskType' /\ MemType'
    BY <2>3, BaseTypes
  <2>5. GhostType'
    BY <2>1, <2>3
  <2>6. QED
    BY <2>2, <2>4, <2>5, BaseTypes DEF Places
<1>11. QED
  BY <1>1, <1>2, <1>3, <1>4, <1>5, <1>6, <1>7, <1>8, <1>9, <1>10

-----------------------------------------------------------------------------
(* The kernel's own steps keep the types                                   *)

LEMMA FieldTypes ==
  ASSUME TypeOK
  PROVE  /\ job.op \in Ops /\ job.idx \in Inodes /\ job.home \in Inodes
         /\ job.node \in Inode /\ job.dir \in Inode /\ job.ptr \in Ptr
         /\ job.k \in Nat /\ job.off \in Nat /\ job.len \in Nat
         /\ job.node.size \in Nat /\ job.node.single \in Ptr
         /\ NewBlock \in Ptr
         /\ \A i \in Inodes : itab[i] \in Inode
BY NewBlockIsFree DEF TypeOK, DiskType, MemType, Job, Inode

\* Setting one pointer of an inode to 0 or to a block of the data area.
LEMMA PointerSet ==
  ASSUME NEW d \in Inode, NEW x, NEW p \in Ptr
  PROVE  [d EXCEPT !.direct[x] = p] \in Inode /\ [d EXCEPT !.single = p] \in Inode
BY DEF Inode

\* What a step of the file system may do to the frame.
LEMMA NodeSet ==
  ASSUME TypeOK, NEW d \in Inode
  PROVE  [job EXCEPT !.node = d] \in Job /\ [job EXCEPT !.dir = d] \in Job
BY DEF TypeOK, Job

LEMMA CreateTypes ==
  ASSUME TypeOK, NewBlockStep \/ NewInodeStep \/ DirAdd \/ DirGrow \/ DirPut
  PROVE  TypeOK'
<1> USE FieldTypes, BaseTypes
<1>1. CASE NewBlockStep
  <2>1. CASE NewBlock = 0
    <3>1. job' \in Job /\ pc' \in Places
      BY <1>1, <2>1 DEF NewBlockStep, Goto, Finish, TypeOK, Job, Places
    <3>2. QED
      BY <1>1, <2>1, <3>1
      DEF NewBlockStep, free_inode, save_inode_bitmap, TypeOK, DiskType, MemType, GhostType, ghost
  <2>2. CASE NewBlock # 0
    <3>1. job' \in Job /\ pc' \in Places
      <4> DEFINE d == FreshInode(IF job.op \in FileOps THEN 1 ELSE 2, NewBlock)
      <4>1. d \in Inode
        BY FreshInodeType
      <4>2. job' = [job EXCEPT !.node = d] /\ pc' = "new_inode"
        BY <1>1, <2>2 DEF NewBlockStep, Goto
      <4> HIDE DEF d
      <4>3. QED
        BY <4>1, <4>2, NodeSet DEF Places
    <3>2. bbm' \in SUBSET DataBlocks /\ dbbm' \in SUBSET DataBlocks
      BY <1>1, <2>2, AllocTypes DEF NewBlockStep, TypeOK, DiskType, MemType
    <3>3. QED
      BY <1>1, <2>2, <3>1, <3>2 DEF NewBlockStep, TypeOK, DiskType, MemType, GhostType, ghost
  <2>3. QED
    BY <2>1, <2>2
<1>2. CASE NewInodeStep
  <2>1. itab' \in [Inodes -> Inode]
    BY <1>2 DEF NewInodeStep, TypeOK, DiskType
  <2>2. job' \in Job /\ pc' \in Places
    <3>1. itab'[job.home] \in Inode
      BY <2>1
    <3>2. QED
      BY <1>2, <3>1, NodeSet DEF NewInodeStep, Goto, Places
  <2>3. QED
    BY <1>2, <2>1, <2>2 DEF NewInodeStep, TypeOK, DiskType, MemType, GhostType, mem, ghost
<1>3. CASE DirAdd
  <2> DEFINE a == Min(AddStops(job.dir))
             b == job.dir.direct[a]
             e == Entry(job.name, job.idx)
  <2>1. e \in Cell
    BY DEF Entry, Cell, TypeOK, Job
  <2>2. /\ pc' \in Places /\ job' \in Job
        /\ bbm' \in SUBSET DataBlocks /\ dbbm' \in SUBSET DataBlocks
        /\ blk' \in [DataBlocks -> [Cells -> Cell]]
    <3>1. CASE AddStops(job.dir) = {}
      BY <1>3, <3>1, AfterAddTypes DEF DirAdd, TypeOK, DiskType, MemType
    <3>2. CASE AddStops(job.dir) # {} /\ b # 0
      <4>1. /\ blk' = [blk EXCEPT ![b][Min(FreeCells(b))] = e]
            /\ AfterAdd(TRUE) /\ UNCHANGED <<bbm, dbbm>>
        BY <1>3, <3>2 DEF DirAdd
      <4> HIDE DEF b, e
      <4>2. QED
        BY <2>1, <4>1, AfterAddTypes DEF TypeOK, DiskType, MemType
    <3>3. CASE AddStops(job.dir) # {} /\ b = 0
      <4>1. /\ alloc_block /\ blk' = blk
            /\ \/ AfterAdd(FALSE)
               \/ /\ pc' = "dir_grow"
                  /\ job' = [job EXCEPT !.dir.direct[a] = NewBlock, !.ptr = NewBlock]
        BY <1>3, <3>3 DEF DirAdd, Goto
      <4>2. bbm' \in SUBSET DataBlocks /\ dbbm' \in SUBSET DataBlocks
        BY <4>1, AllocTypes DEF TypeOK, DiskType, MemType
      <4>3. CASE AfterAdd(FALSE)
        BY <4>1, <4>2, <4>3, AfterAddTypes DEF TypeOK, DiskType
      <4>4. CASE ~AfterAdd(FALSE)
        <5> HIDE DEF a
        <5>1. job' = [job EXCEPT !.dir.direct[a] = NewBlock, !.ptr = NewBlock]
          BY <4>1, <4>4
        <5>2. job' = [job EXCEPT !.dir = [job.dir EXCEPT !.direct[a] = NewBlock], !.ptr = NewBlock]
          BY <5>1 DEF TypeOK, Job
        <5>3. [job.dir EXCEPT !.direct[a] = NewBlock] \in Inode
          BY PointerSet
        <5>4. job' \in Job
          BY <5>2, <5>3 DEF TypeOK, Job
        <5>5. QED
          BY <4>1, <4>2, <4>4, <5>4 DEF TypeOK, DiskType, Places
      <4>5. QED
        BY <4>3, <4>4
    <3>4. QED
      BY <3>1, <3>2, <3>3
  <2>3. QED
    BY <1>3, <2>2 DEF DirAdd, TypeOK, DiskType, MemType, GhostType, ghost
<1>4. CASE DirGrow
  BY <1>4 DEF DirGrow, Goto, Places, TypeOK, DiskType, MemType, GhostType, mem, ghost
<1>5. CASE DirPut
  <2>1. Entry(job.name, job.idx) \in Cell
    BY DEF Entry, Cell, TypeOK, Job
  <2>2. blk' \in [DataBlocks -> [Cells -> Cell]]
    BY <1>5, <2>1 DEF DirPut, TypeOK, DiskType
  <2>3. pc' \in Places /\ job' \in Job
    BY <1>5, AfterAddTypes DEF DirPut
  <2>4. QED
    BY <1>5, <2>2, <2>3 DEF DirPut, TypeOK, DiskType, MemType, GhostType, mem, ghost
<1>6. QED
  BY <1>1, <1>2, <1>3, <1>4, <1>5

LEMMA DeleteTypes ==
  ASSUME TypeOK, DlDirect \/ DlSingle \/ DlInode \/ DlEntry
  PROVE  TypeOK'
<1> USE FieldTypes, BaseTypes
<1>1. CASE DlDirect
  <2>1. job' \in Job
    <3>1. \/ job' = job
          \/ job' = [job EXCEPT !.node.direct[Min(LiveDirect)] = 0]
      BY <1>1 DEF DlDirect, Goto
    <3>2. [job.node EXCEPT !.direct[Min(LiveDirect)] = 0] \in Inode
      BY PointerSet
    <3>3. \/ job' = job
          \/ job' = [job EXCEPT !.node = [job.node EXCEPT !.direct[Min(LiveDirect)] = 0]]
      BY <3>1 DEF TypeOK, Job
    <3>4. QED
      BY <3>2, <3>3, NodeSet DEF TypeOK
  <2>2. pc' \in Places
    BY <1>1 DEF DlDirect, Goto, Places
  <2>3. bbm' \in SUBSET DataBlocks /\ dbbm' \in SUBSET DataBlocks
    BY <1>1 DEF DlDirect, free_block, save_block_bitmap, TypeOK, DiskType, MemType
  <2>4. QED
    BY <1>1, <2>1, <2>2, <2>3 DEF DlDirect, TypeOK, DiskType, MemType, GhostType, ghost
<1>2. CASE DlSingle
  <2> DEFINE left == {s \in Cells : s >= job.k /\ blk[job.node.single][s].w # 0}
  <2>1. job' \in Job
    <3>1. CASE left # {}
      <4>1. Min(left) \in Nat
        BY <3>1, MinIsLeast
      <4>2. job' = [job EXCEPT !.k = Min(left) + 1]
        BY <1>2, <3>1 DEF DlSingle, Goto
      <4> HIDE DEF left
      <4>3. QED
        BY <4>1, <4>2 DEF TypeOK, Job
    <3>2. CASE left = {}
      <4>1. job' = [job EXCEPT !.node.single = 0]
        BY <1>2, <3>2 DEF DlSingle, Goto
      <4>2. job' = [job EXCEPT !.node = [job.node EXCEPT !.single = 0]]
        BY <4>1 DEF TypeOK, Job
      <4>3. QED
        BY <4>2, PointerSet, NodeSet
    <3>3. QED
      BY <3>1, <3>2
  <2>2. pc' \in Places
    BY <1>2 DEF DlSingle, Goto, Places
  <2>3. bbm' \in SUBSET DataBlocks /\ dbbm' \in SUBSET DataBlocks
    BY <1>2 DEF DlSingle, free_block, save_block_bitmap, TypeOK, DiskType, MemType
  <2>4. QED
    BY <1>2, <2>1, <2>2, <2>3 DEF DlSingle, TypeOK, DiskType, MemType, GhostType, ghost
<1>3. CASE DlInode
  BY <1>3 DEF DlInode, free_inode, save_inode_bitmap, Goto, Places,
              TypeOK, DiskType, MemType, GhostType, ghost
<1>4. CASE DlEntry
  <2> DEFINE h == First(RemoveHits(job.dir, job.name))
             b == job.dir.direct[h[1]]
  <2>1. blk' = blk \/ blk' = [blk EXCEPT ![b][h[2]] = Zero]
    BY <1>4 DEF DlEntry
  <2> HIDE DEF h, b
  <2>2. blk' \in [DataBlocks -> [Cells -> Cell]]
    BY <2>1 DEF TypeOK, DiskType
  <2>3. QED
    BY <1>4, <2>2 DEF DlEntry, Finish, Goto, Places, TypeOK, DiskType, MemType, GhostType, mem, ghost
<1>5. QED
  BY <1>1, <1>2, <1>3, <1>4

LEMMA FormatTypes ==
  ASSUME TypeOK,
         \/ QIbm \/ QItab \/ QSb \/ FBbm \/ FIbm
         \/ RIbm \/ RBlock \/ RInode \/ RZero \/ DefDir \/ DefDone \/ Boot
  PROVE  TypeOK'
<1> USE FieldTypes, BaseTypes
<1> USE DEF Goto, Finish
<1>1. CASE QIbm
  BY <1>1 DEF QIbm, Places, TypeOK, DiskType, MemType, GhostType, mem, ghost
<1>2. CASE QItab
  <2>1. itab' \in [Inodes -> Inode]
    BY <1>2 DEF QItab, TypeOK, DiskType
  <2>2. \/ job' = [job EXCEPT !.k = 0] /\ pc' = "q_sb"
        \/ job' = [job EXCEPT !.k = job.k + 1] /\ pc' = "q_itab"
    BY <1>2 DEF QItab
  <2>3. job' \in Job /\ pc' \in Places
    <3>1. job' = [job EXCEPT !.k = 0] \/ job' = [job EXCEPT !.k = job.k + 1]
      BY <2>2
    <3>2. job' \in Job
      BY <3>1 DEF TypeOK, Job
    <3>3. QED
      BY <2>2, <3>2 DEF Places
  <2>4. QED
    BY <1>2, <2>1, <2>3 DEF QItab, TypeOK, DiskType, MemType, GhostType, mem, ghost
<1>3. CASE QSb
  BY <1>3 DEF QSb, Places, TypeOK, DiskType, MemType, GhostType, ghost
<1>4. CASE FBbm
  BY <1>4 DEF FBbm, Places, TypeOK, DiskType, MemType, GhostType, mem, ghost
<1>5. CASE FIbm
  BY <1>5 DEF FIbm, Places, TypeOK, DiskType, MemType, GhostType, mem, ghost
<1>6. CASE RIbm
  BY <1>6 DEF RIbm, save_inode_bitmap, Places, TypeOK, DiskType, MemType, GhostType, ghost
<1>7. CASE RBlock
  <2>1. bbm' \in SUBSET DataBlocks /\ dbbm' \in SUBSET DataBlocks
    BY <1>7, AllocTypes DEF RBlock, TypeOK, DiskType, MemType
  <2>2. job' \in Job /\ pc' \in Places
    <3>1. CASE NewBlock = 0
      BY <1>7, <3>1 DEF RBlock, AfterRoot, Places, TypeOK, Job
    <3>2. CASE NewBlock # 0
      <4>1. FreshInode(2, NewBlock) \in Inode
        BY FreshInodeType
      <4>2. job' = [job EXCEPT !.node = FreshInode(2, NewBlock)] /\ pc' = "r_inode"
        BY <1>7, <3>2 DEF RBlock
      <4>3. QED
        BY <4>1, <4>2, NodeSet DEF Places
    <3>3. QED
      BY <3>1, <3>2
  <2>3. QED
    BY <1>7, <2>1, <2>2 DEF RBlock, TypeOK, DiskType, MemType, GhostType, ghost
<1>8. CASE RInode
  BY <1>8 DEF RInode, Places, TypeOK, DiskType, MemType, GhostType, mem, ghost
<1>9. CASE RZero
  <2>1. blk' \in [DataBlocks -> [Cells -> Cell]]
    BY <1>9 DEF RZero, TypeOK, DiskType
  <2>2. job' \in Job /\ pc' \in Places
    BY <1>9 DEF RZero, AfterRoot, Places, TypeOK, Job
  <2>3. QED
    BY <1>9, <2>1, <2>2 DEF RZero, TypeOK, DiskType, MemType, GhostType, mem, ghost
<1>10. CASE DefDir
  <2>1. CASE FreeInodes = {}
    <3>1. job' \in Job /\ pc' \in Places
      <4>1. job' = [job EXCEPT !.k = job.k + 1] /\ pc' = "defdirs"
        BY <1>10, <2>1 DEF DefDir
      <4>2. QED
        BY <4>1 DEF Places, TypeOK, Job
    <3>2. QED
      BY <1>10, <2>1, <3>1 DEF DefDir, TypeOK, DiskType, MemType, GhostType, ghost
  <2>2. CASE FreeInodes # {}
    <3>1. Min(FreeInodes) \in Inodes
      BY <2>2, FreeInodeType
    <3>2. DefDirs[job.k + 1] \in Names
      <4>1. job.k + 1 \in 1 .. Len(DefDirs)
        BY <1>10, NamesAssumption DEF DefDir
      <4>2. QED
        BY <4>1, NamesAssumption
    <3>3. job' \in Job /\ pc' \in Places
      <4>1. /\ job' = [job EXCEPT !.name = DefDirs[job.k + 1], !.home = 0,
                                  !.idx = Min(FreeInodes)]
            /\ pc' = "new_block"
        BY <1>10, <2>2 DEF DefDir
      <4>2. QED
        BY <3>1, <3>2, <4>1 DEF Places, TypeOK, Job
    <3>4. ibm' \in SUBSET Inodes /\ dibm' \in SUBSET Inodes
      BY <1>10, <2>2, <3>1 DEF DefDir, save_inode_bitmap, TypeOK, MemType
    <3>5. QED
      BY <1>10, <2>2, <3>3, <3>4 DEF DefDir, TypeOK, DiskType, MemType, GhostType, ghost
  <2>3. QED
    BY <2>1, <2>2
<1>11. ASSUME init_fs PROVE /\ job' \in Job /\ pc' \in Places
                            /\ bbm' \in SUBSET DataBlocks /\ ibm' \in SUBSET Inodes
  <2>1. [NoJob EXCEPT !.op = "boot"] \in Job
    BY DEF Job, Ops
  <2>2. QED
    BY <1>11, <2>1 DEF init_fs, Places, TypeOK, DiskType
<1>12. CASE DefDone
  <2>1. fs_cd(DefDirs[1]) \in Inodes \cup {-1}
    BY LookupType DEF fs_cd, TypeOK, MemType
  <2>2. cwd' \in Inodes
    BY <1>12, <2>1 DEF DefDone, TypeOK, MemType
  <2>3. QED
    BY <1>11, <1>12, <2>2 DEF DefDone, TypeOK, DiskType, MemType, GhostType, disk, ghost
<1>13. CASE Boot
  <2>1. /\ job' \in Job /\ pc' \in Places
        /\ bbm' \in SUBSET DataBlocks /\ ibm' \in SUBSET Inodes
    <3>1. CASE sb
      BY <1>11, <1>13, <3>1 DEF Boot
    <3>2. CASE ~sb
      BY <1>13, <3>2 DEF Boot, Places, TypeOK, MemType
    <3>3. QED
      BY <3>1, <3>2
  <2>2. up' \in BOOLEAN
    BY <1>13 DEF Boot, TypeOK, DiskType
  <2>3. QED
    BY <1>13, <2>1, <2>2 DEF Boot, TypeOK, DiskType, MemType, GhostType, disk, ghost
<1>14. QED
  BY <1>1, <1>2, <1>3, <1>4, <1>5, <1>6, <1>7, <1>8, <1>9, <1>10, <1>12, <1>13

-----------------------------------------------------------------------------
(* The call frame: a command that writes text knows its name and its text.  *)

FrameOK ==
  /\ job.op \in FileOps => job.name \in Names /\ job.text \in Texts
  /\ pc \in {"fw", "fw_zero", "fw_inode", "fw_ptr"} => job.op \in FileOps

Sound == TypeOK /\ FrameOK

LEMMA AfterAddFrame ==
  ASSUME Sound, NEW ok, AfterAdd(ok)
  PROVE  FrameOK'
<1> USE DEF Sound, TypeOK, FrameOK, Goto, Finish
<1>1. CASE job.op \in FileOps
  <2>1. /\ pc' = "fw"
        /\ job' = [job EXCEPT !.k = 0, !.node = itab[job.idx], !.seen = ok,
                              !.off = IF job.op = "wr" THEN itab[job.idx].size ELSE 0]
    BY <1>1 DEF AfterAdd, FileOps, Formats
  <2>2. job'.op = job.op /\ job'.name = job.name /\ job'.text = job.text
    BY <2>1 DEF Job
  <2>3. QED
    BY <1>1, <2>1, <2>2
<1>2. CASE job.op \in Formats
  BY <1>2 DEF AfterAdd, Job, FileOps, Formats
<1>3. CASE job.op = "mf"
  BY <1>3 DEF AfterAdd, NoJob, FileOps, Formats
<1>4. QED
  BY <1>1, <1>2, <1>3 DEF AfterAdd

LEMMA CommandFrame ==
  ASSUME NEW n \in Names, NEW c \in Texts, NEW l \in Lens,
         \/ Wr(n, c, l) \/ Mf(n) \/ NoteNew(c) \/ NoteAgain(c)
         \/ Dl(n) \/ Cd(n) \/ CdUp \/ Format \/ Qformat \/ PowerCut,
         Sound
  PROVE  FrameOK'
<1> USE NamesAssumption DEF Sound, FrameOK, Goto, FileOps, NoJob
<1>1. CASE Wr(n, c, l)
  BY <1>1 DEF Wr, BeginCreate
<1>2. CASE Mf(n)
  BY <1>2 DEF Mf, BeginCreate
<1>3. CASE NoteNew(c)
  BY <1>3 DEF NoteNew, BeginCreate
<1>4. CASE NoteAgain(c)
  BY <1>4 DEF NoteAgain
<1>5. CASE Dl(n)
  BY <1>5 DEF Dl
<1>6. CASE Cd(n)
  BY <1>6 DEF Cd
<1>7. CASE CdUp
  BY <1>7 DEF CdUp
<1>8. CASE Format
  BY <1>8 DEF Format
<1>9. CASE Qformat
  BY <1>9 DEF Qformat
<1>10. CASE PowerCut
  BY <1>10 DEF PowerCut
<1>11. QED
  BY <1>1, <1>2, <1>3, <1>4, <1>5, <1>6, <1>7, <1>8, <1>9, <1>10

-----------------------------------------------------------------------------
(* fs_write keeps the types, for every offset and length                   *)

LEMMA Division ==
  ASSUME NEW x \in Nat
  PROVE  x % Slots \in Cells /\ x \div Slots \in Nat
BY SizeAssumption DEF Cells

LEMMA WriteTypes ==
  ASSUME Sound,
         \/ FwAllocDirect \/ FwAllocSingle \/ FwZero \/ FwInode \/ FwAllocPtr
         \/ FwPtr \/ FwData \/ FwWild \/ FwSize
  PROVE  TypeOK'
<1> USE FieldTypes, BaseTypes
<1> USE DEF Goto, Finish, Sound
<1>1. CASE FwAllocDirect
  <2>1. job' \in Job
    <3>1. job' = [job EXCEPT !.node = [job.node EXCEPT !.direct[LB] = NewBlock]]
      BY <1>1 DEF FwAllocDirect, TypeOK, Job
    <3>2. QED
      BY <3>1, PointerSet, NodeSet
  <2>2. bbm' \in SUBSET DataBlocks /\ dbbm' \in SUBSET DataBlocks
    BY <1>1, AllocTypes DEF FwAllocDirect, TypeOK, DiskType, MemType
  <2>3. QED
    BY <1>1, <2>1, <2>2 DEF FwAllocDirect, Places, TypeOK, DiskType, MemType, GhostType, ghost
<1>2. CASE FwAllocSingle
  <2>1. job' \in Job
    <3>1. job' = [job EXCEPT !.node = [job.node EXCEPT !.single = NewBlock]]
      BY <1>2 DEF FwAllocSingle, TypeOK, Job
    <3>2. QED
      BY <3>1, PointerSet, NodeSet
  <2>2. bbm' \in SUBSET DataBlocks /\ dbbm' \in SUBSET DataBlocks
    BY <1>2, AllocTypes DEF FwAllocSingle, TypeOK, DiskType, MemType
  <2>3. QED
    BY <1>2, <2>1, <2>2 DEF FwAllocSingle, Places, TypeOK, DiskType, MemType, GhostType, ghost
<1>3. CASE FwZero
  <2>1. blk' \in [DataBlocks -> [Cells -> Cell]] /\ sb' \in BOOLEAN
    BY <1>3 DEF FwZero, TypeOK, DiskType
  <2>2. QED
    BY <1>3, <2>1 DEF FwZero, Places, TypeOK, DiskType, MemType, GhostType, mem, ghost
<1>4. CASE FwInode
  <2>1. itab' \in [Inodes -> Inode]
    BY <1>4 DEF FwInode, TypeOK, DiskType
  <2>2. job' \in Job /\ pc' \in Places
    BY <1>4 DEF FwInode, Places, TypeOK
  <2>3. QED
    BY <1>4, <2>1, <2>2 DEF FwInode, TypeOK, DiskType, MemType, GhostType, mem, ghost
<1>5. CASE FwAllocPtr
  <2>1. job' \in Job
    BY <1>5 DEF FwAllocPtr, TypeOK, Job
  <2>2. bbm' \in SUBSET DataBlocks /\ dbbm' \in SUBSET DataBlocks
    BY <1>5, AllocTypes DEF FwAllocPtr, TypeOK, DiskType, MemType
  <2>3. QED
    BY <1>5, <2>1, <2>2 DEF FwAllocPtr, Places, TypeOK, DiskType, MemType, GhostType, ghost
<1>6. CASE FwPtr
  <2>1. Pointer(job.ptr) \in Cell
    BY BlocksAssumption DEF Pointer, Cell, Ptr
  <2>2. blk' \in [DataBlocks -> [Cells -> Cell]]
    BY <1>6, <2>1 DEF FwPtr, TypeOK, DiskType
  <2>3. job' \in Job /\ pc' \in Places
    BY <1>6 DEF FwPtr, Places, TypeOK
  <2>4. QED
    BY <1>6, <2>2, <2>3 DEF FwPtr, TypeOK, DiskType, MemType, GhostType, mem, ghost
<1>7. CASE FwData
  <2> DEFINE o == Pos % Slots
             n == Min({Slots - o, job.len - job.k})
             new == Overlay(blk[Phys], o, n)
  <2>1. o \in Cells /\ o \in Nat
    <3>1. Pos \in Nat
      BY DEF Pos
    <3>2. QED
      BY <3>1, Division
  <2>2. n \in Nat
    <3>1. Slots - o \in Nat
      BY <2>1, SizeAssumption DEF Cells
    <3>2. job.len - job.k \in Nat
      BY <1>7 DEF FwData, Writing
    <3> HIDE DEF o
    <3>3. n \in {Slots - o, job.len - job.k}
      BY <3>1, <3>2, MinIsLeast
    <3>4. QED
      BY <3>1, <3>2, <3>3
  <2>3. /\ Phys \in DataBlocks
        /\ blk' = [blk EXCEPT ![Phys] = new]
        /\ job' = [job EXCEPT !.k = job.k + n] /\ pc' = "fw"
    BY <1>7 DEF FwData
  <2>4. job.text \in Texts
    BY <1>7 DEF FwData, Writing, FrameOK
  <2>5. new \in [Cells -> Cell]
    <3> HIDE DEF o, n
    <3>1. blk[Phys] \in [Cells -> Cell]
      BY <2>3 DEF TypeOK, DiskType
    <3>2. ASSUME NEW s \in Cells, o <= s
          PROVE  [w |-> TextWord, t |-> <<job.text, job.k + s - o>>] \in Cell
      <4>1. s \in Nat /\ job.k \in Nat
        BY <3>2
      <4> HIDE FieldTypes, BaseTypes
      <4>2. job.k + s - o \in Nat
        BY <2>1, <3>2, <4>1
      <4>3. <<job.text, job.k + s - o>> \in Tokens
        BY <2>4, <4>2 DEF Tokens
      <4>4. QED
        BY <4>3, TextAssumption DEF Cell
    <3>3. QED
      BY <3>1, <3>2 DEF Overlay
  <2> HIDE DEF o, n, new
  <2>6. blk' \in [DataBlocks -> [Cells -> Cell]]
    BY <2>3, <2>5 DEF TypeOK, DiskType
  <2>7. job' \in Job
    BY <2>2, <2>3 DEF TypeOK, Job
  <2>8. QED
    BY <1>7, <2>3, <2>6, <2>7 DEF FwData, Places, TypeOK, DiskType, MemType, GhostType, mem, ghost
<1>8. CASE FwWild
  BY <1>8 DEF FwWild, Places, TypeOK, DiskType, MemType, GhostType, disk, mem, ghost
<1>9. CASE FwSize
  <2>1. Pos \in Nat
    BY DEF Pos
  <2>2. itab' \in [Inodes -> Inode]
    <3>1. [job.node EXCEPT !.size = Pos] \in Inode
      BY <2>1 DEF Inode
    <3>2. QED
      BY <1>9, <3>1 DEF FwSize, TypeOK, DiskType
  <2>3. [ino |-> job.idx, home |-> job.home, name |-> job.name,
         text |-> job.text, len |-> job.len, seen |-> job.seen] \in Save
    BY <1>9 DEF FwSize, FrameOK, Save, TypeOK, Job
  <2>4. saved' \subseteq Save
    BY <1>9, <2>3 DEF FwSize, TypeOK, GhostType
  <2>5. QED
    BY <1>9, <2>2, <2>4 DEF FwSize, Places, TypeOK, DiskType, MemType, GhostType, mem
<1>10. QED
  BY <1>1, <1>2, <1>3, <1>4, <1>5, <1>6, <1>7, <1>8, <1>9

LEMMA KernelFrame ==
  ASSUME Kernel, Sound
  PROVE  FrameOK'
<1> USE DEF Sound, TypeOK, FrameOK, Goto, Finish, FileOps, Formats, NoJob
<1>0. CASE \E ok \in BOOLEAN : AfterAdd(ok)
  BY <1>0, AfterAddFrame
<1>1. CASE NewBlockStep
  BY <1>1 DEF NewBlockStep, Job
<1>2. CASE NewInodeStep
  BY <1>2 DEF NewInodeStep, Job
<1>3. CASE DirAdd
  <2>1. CASE pc' = "dir_grow"
    BY <1>3, <2>1, AfterAddFrame DEF DirAdd, Job
  <2>2. CASE pc' # "dir_grow"
    BY <1>3, <2>2, <1>0 DEF DirAdd
  <2>3. QED
    BY <2>1, <2>2
<1>4. CASE DirGrow
  BY <1>4 DEF DirGrow
<1>5. CASE DirPut
  BY <1>0, <1>5 DEF DirPut
<1>6. CASE FwAllocDirect \/ FwAllocSingle \/ FwZero \/ FwInode \/ FwAllocPtr
  BY <1>6 DEF FwAllocDirect, FwAllocSingle, FwZero, FwInode, FwAllocPtr, Writing, Job
<1>7. CASE FwPtr \/ FwData \/ FwWild \/ FwSize
  BY <1>7 DEF FwPtr, FwData, FwWild, FwSize, Writing, Job
<1>8. CASE DlDirect \/ DlSingle \/ DlInode \/ DlEntry
  <2>1. \/ job' = job
        \/ job' = [job EXCEPT !.node = job'.node, !.k = job'.k]
        \/ job' = NoJob
    BY <1>8 DEF DlDirect, DlSingle, DlInode, DlEntry, Job
  <2>2. pc' \notin {"fw", "fw_zero", "fw_inode", "fw_ptr"}
    BY <1>8 DEF DlDirect, DlSingle, DlInode, DlEntry
  <2>3. \/ job'.op = job.op /\ job'.name = job.name /\ job'.text = job.text
        \/ job'.op = "none"
    <3>1. CASE job' = [job EXCEPT !.node = job'.node, !.k = job'.k]
      <4> DEFINE x == job'.node  y == job'.k
      <4>1. job' = [job EXCEPT !.node = x, !.k = y]
        BY <3>1
      <4> HIDE DEF x, y
      <4>2. QED
        BY <4>1 DEF Job
    <3>2. QED
      BY <2>1, <3>1
  <2>4. QED
    BY <2>2, <2>3
<1>9. CASE QIbm \/ QItab \/ QSb \/ FBbm \/ FIbm
  BY <1>9 DEF QIbm, QItab, QSb, FBbm, FIbm, Job
<1>10. CASE RIbm \/ RBlock \/ RInode \/ RZero
  BY <1>10 DEF RIbm, RBlock, RInode, RZero, AfterRoot, Job
<1>11. CASE DefDir
  <2>1. CASE FreeInodes = {}
    BY <1>11, <2>1 DEF DefDir, Job
  <2>2. CASE FreeInodes # {}
    <3>1. DefDirs[job.k + 1] \in Names
      <4>1. job.k + 1 \in 1 .. Len(DefDirs)
        BY <1>11, NamesAssumption DEF DefDir, Job
      <4>2. QED
        BY <4>1, NamesAssumption
    <3>2. QED
      BY <1>11, <2>2, <3>1 DEF DefDir, Job
  <2>3. QED
    BY <2>1, <2>2
<1>12. CASE DefDone
  BY <1>12 DEF DefDone, init_fs
<1>13. CASE Boot
  BY <1>13 DEF Boot, init_fs
<1>14. QED
  BY <1>1, <1>2, <1>3, <1>4, <1>5, <1>6, <1>7, <1>8, <1>9, <1>10, <1>11, <1>12, <1>13 DEF Kernel

\* The types and the frame are inductive together.
LEMMA SoundAlways == Spec => []Sound
<1>1. Init => Sound
  <2> SUFFICES ASSUME Init PROVE Sound
    OBVIOUS
  <2>1. TypeOK
    BY BaseTypes DEF Init, TypeOK, DiskType, MemType, GhostType, Places
  <2>2. FrameOK
    BY DEF Init, FrameOK, NoJob, FileOps
  <2>3. QED
    BY <2>1, <2>2 DEF Sound
<1>2. Sound /\ [Next]_vars => Sound'
  <2> SUFFICES ASSUME Sound, [Next]_vars PROVE Sound'
    OBVIOUS
  <2>1. CASE Kernel
    <3>1. TypeOK'
      BY <2>1, CreateTypes, WriteTypes, DeleteTypes, FormatTypes DEF Kernel, Sound
    <3>2. QED
      BY <2>1, <3>1, KernelFrame DEF Sound
  <2>2. CASE ~Kernel /\ Next
    <3>1. PICK n \in Names, c \in Texts, l \in Lens :
            \/ Wr(n, c, l) \/ Mf(n) \/ NoteNew(c) \/ NoteAgain(c)
            \/ Dl(n) \/ Cd(n) \/ CdUp \/ Format \/ Qformat \/ PowerCut
      BY <2>2, NamesAssumption, SizeAssumption, TextAssumption DEF Next, Create
    <3>2. QED
      BY <3>1, CommandTypes, CommandFrame DEF Sound
  <2>3. CASE UNCHANGED vars
    BY <2>3 DEF vars, disk, mem, ghost, Sound, TypeOK, DiskType, MemType, GhostType, FrameOK
  <2>4. QED
    BY <2>1, <2>2, <2>3
<1>3. QED
  BY <1>1, <1>2, PTL DEF Spec

\* Whatever the commands, their order and the power cuts, and whatever is on
\* the disk: every variable stays in its set.
THEOREM TypeCorrect == Spec => []TypeOK
<1>1. Sound => TypeOK
  BY DEF Sound
<1>2. QED
  BY <1>1, SoundAlways, PTL

-----------------------------------------------------------------------------
(* The bitmaps in memory and on disk                                       *)

\* Every change of a bitmap is saved by the same step, except in a format,
\* which clears memory and disk at different times: qformat_fs the disk first,
\* format_fs memory first.
InQformat == pc \in {"q_ibm", "q_itab", "q_sb"}

BitmapInv ==
  /\ pc \notin {"boot", "idle"} => up
  /\ InQformat => job.op = "qformat"
  /\ pc \in {"q_itab", "q_sb"} => dibm = {}
  /\ pc = "f_bbm" => job.op = "format" \/ (job.op = "qformat" /\ ibm = dibm)
  /\ up /\ pc \notin {"boot", "f_bbm"} /\ ~InQformat => bbm = dbbm
  /\ up /\ pc \notin {"boot", "f_bbm", "f_ibm"} /\ ~InQformat => ibm = dibm

\* A step that leaves a bitmap alone, or saves it, outside a format.
LEMMA SavedStep ==
  ASSUME BitmapInv, up' = up, up,
         pc \notin {"boot", "f_bbm", "f_ibm"}, ~InQformat,
         pc' \notin {"boot", "f_bbm", "f_ibm", "q_ibm", "q_itab", "q_sb"},
         UNCHANGED <<bbm, dbbm>> \/ bbm' = dbbm',
         UNCHANGED <<ibm, dibm>> \/ ibm' = dibm'
  PROVE  BitmapInv'
BY DEF BitmapInv, InQformat

LEMMA AllocSaves ==
  ASSUME alloc_block
  PROVE  UNCHANGED <<bbm, dbbm>> \/ bbm' = dbbm'
BY DEF alloc_block, save_block_bitmap

LEMMA AfterAddPlace ==
  ASSUME NEW ok, AfterAdd(ok)
  PROVE  pc' \in {"fw", "defdirs", "idle"}
BY DEF AfterAdd, Goto, Finish

LEMMA KernelBitmaps ==
  ASSUME BitmapInv, Kernel, Sound
  PROVE  BitmapInv'
<1> USE DEF Goto, Finish, mem, save_block_bitmap, save_inode_bitmap
<1>1. CASE NewBlockStep
  <2>1. UNCHANGED <<bbm, dbbm>> \/ bbm' = dbbm'
    BY <1>1, AllocSaves DEF NewBlockStep
  <2>2. UNCHANGED <<ibm, dibm>> \/ ibm' = dibm'
    BY <1>1 DEF NewBlockStep, free_inode
  <2>3. pc = "new_block" /\ pc' \in {"defdirs", "idle", "new_inode"} /\ up' = up
    BY <1>1 DEF NewBlockStep
  <2>4. QED
    BY <2>1, <2>2, <2>3, SavedStep DEF BitmapInv, InQformat
<1>2. CASE NewInodeStep \/ DirGrow
  BY <1>2, SavedStep DEF NewInodeStep, DirGrow, BitmapInv, InQformat
<1>3. CASE DirAdd
  <2>1. UNCHANGED <<bbm, dbbm>> \/ bbm' = dbbm'
    BY <1>3, AllocSaves DEF DirAdd
  <2>2. pc' \in {"fw", "defdirs", "idle", "dir_grow"}
    BY <1>3, AfterAddPlace DEF DirAdd
  <2>3. pc = "dir_add" /\ up' = up /\ UNCHANGED <<ibm, dibm>>
    BY <1>3 DEF DirAdd
  <2>4. QED
    BY <2>1, <2>2, <2>3, SavedStep DEF BitmapInv, InQformat
<1>4. CASE DirPut
  <2>1. pc' \in {"fw", "defdirs", "idle"}
    BY <1>4, AfterAddPlace DEF DirPut
  <2>2. QED
    BY <1>4, <2>1, SavedStep DEF DirPut, BitmapInv, InQformat
<1>5. CASE FwAllocDirect \/ FwAllocSingle \/ FwAllocPtr
  <2>1. UNCHANGED <<bbm, dbbm>> \/ bbm' = dbbm'
    BY <1>5, AllocSaves DEF FwAllocDirect, FwAllocSingle, FwAllocPtr
  <2>2. /\ pc = "fw" /\ pc' \in {"fw_inode", "fw_zero", "fw_ptr"}
        /\ up' = up /\ UNCHANGED <<ibm, dibm>>
    BY <1>5 DEF FwAllocDirect, FwAllocSingle, FwAllocPtr, Writing
  <2>3. QED
    BY <2>1, <2>2, SavedStep DEF BitmapInv, InQformat
<1>6. CASE FwZero \/ FwInode \/ FwPtr \/ FwData \/ FwWild \/ FwSize
  <2>1. /\ pc \in {"fw", "fw_zero", "fw_inode", "fw_ptr"}
        /\ pc' \in {"fw", "fw_inode", "idle", "wild"}
        /\ up' = up /\ UNCHANGED <<bbm, dbbm, ibm, dibm>>
    BY <1>6 DEF FwZero, FwInode, FwPtr, FwData, FwWild, FwSize, Writing, disk
  <2>2. QED
    BY <2>1, SavedStep DEF BitmapInv, InQformat
<1>7. CASE DlDirect \/ DlSingle
  <2>1. /\ pc \in {"dl_direct", "dl_single"} /\ pc' \in {"dl_direct", "dl_single", "dl_inode"}
        /\ up' = up /\ UNCHANGED <<ibm, dibm>>
        /\ UNCHANGED <<bbm, dbbm>> \/ bbm' = dbbm'
    BY <1>7 DEF DlDirect, DlSingle, free_block
  <2>2. QED
    BY <2>1, SavedStep DEF BitmapInv, InQformat
<1>8. CASE DlInode \/ DlEntry
  <2>1. /\ pc \in {"dl_inode", "dl_entry"} /\ pc' \in {"dl_entry", "idle"}
        /\ up' = up /\ UNCHANGED <<bbm, dbbm>>
        /\ UNCHANGED <<ibm, dibm>> \/ ibm' = dibm'
    BY <1>8 DEF DlInode, DlEntry, free_inode
  <2>2. QED
    BY <2>1, SavedStep DEF BitmapInv, InQformat
<1>9. CASE QIbm
  BY <1>9 DEF QIbm, BitmapInv, InQformat
<1>10. CASE QItab
  <2>1. /\ pc = "q_itab" /\ pc' \in {"q_itab", "q_sb"}
        /\ UNCHANGED <<up, bbm, ibm, dbbm, dibm>>
    BY <1>10 DEF QItab
  <2>2. job'.op = job.op
    BY <1>10 DEF QItab, Sound, TypeOK, Job
  <2>3. QED
    BY <2>1, <2>2 DEF BitmapInv, InQformat
<1>11. CASE QSb
  BY <1>11 DEF QSb, BitmapInv, InQformat
<1>12. CASE FBbm
  BY <1>12 DEF FBbm, BitmapInv, InQformat
<1>13. CASE FIbm
  BY <1>13 DEF FIbm, BitmapInv, InQformat
<1>14. CASE RIbm
  BY <1>14, SavedStep DEF RIbm, BitmapInv, InQformat
<1>15. CASE RBlock
  <2>1. UNCHANGED <<bbm, dbbm>> \/ bbm' = dbbm'
    BY <1>15, AllocSaves DEF RBlock
  <2>2. /\ pc = "r_block" /\ pc' \in {"r_inode", "defdirs", "idle"}
        /\ up' = up /\ UNCHANGED <<ibm, dibm>>
    BY <1>15 DEF RBlock, AfterRoot
  <2>3. QED
    BY <2>1, <2>2, SavedStep DEF BitmapInv, InQformat
<1>16. CASE RInode \/ RZero
  <2>1. /\ pc \in {"r_inode", "r_zero"} /\ pc' \in {"r_zero", "defdirs", "idle"}
        /\ up' = up /\ UNCHANGED <<bbm, dbbm, ibm, dibm>>
    BY <1>16 DEF RInode, RZero, AfterRoot
  <2>2. QED
    BY <2>1, SavedStep DEF BitmapInv, InQformat
<1>17. CASE DefDir
  <2>1. /\ pc = "defdirs" /\ pc' \in {"defdirs", "new_block"}
        /\ up' = up /\ UNCHANGED <<bbm, dbbm>>
        /\ UNCHANGED <<ibm, dibm>> \/ ibm' = dibm'
    BY <1>17 DEF DefDir
  <2>2. QED
    BY <2>1, SavedStep DEF BitmapInv, InQformat
<1>18. CASE DefDone
  <2>1. /\ pc = "defdirs" /\ pc' \in {"r_ibm", "idle"} /\ up' = up
        /\ bbm' = dbbm' /\ ibm' = dibm'
    BY <1>18 DEF DefDone, init_fs, disk
  <2>2. QED
    BY <2>1, SavedStep DEF BitmapInv, InQformat
<1>19. CASE Boot
  <2>1. CASE sb
    <3>1. /\ pc' \in {"r_ibm", "idle"} /\ up' /\ bbm' = dbbm' /\ ibm' = dibm'
      BY <1>19, <2>1 DEF Boot, init_fs, disk
    <3>2. QED
      BY <3>1 DEF BitmapInv, InQformat
  <2>2. CASE ~sb
    <3>1. pc' = "idle" /\ ~up'
      BY <1>19, <2>2 DEF Boot
    <3>2. QED
      BY <3>1 DEF BitmapInv, InQformat
  <2>3. QED
    BY <2>1, <2>2
<1>20. QED
  BY <1>1, <1>2, <1>3, <1>4, <1>5, <1>6, <1>7, <1>8, <1>9, <1>10, <1>11, <1>12, <1>13,
     <1>14, <1>15, <1>16, <1>17, <1>18, <1>19 DEF Kernel

LEMMA CommandBitmaps ==
  ASSUME BitmapInv, NEW n, NEW c, NEW l,
         \/ Wr(n, c, l) \/ Mf(n) \/ NoteNew(c) \/ NoteAgain(c)
         \/ Dl(n) \/ Cd(n) \/ CdUp \/ Format \/ Qformat \/ PowerCut
  PROVE  BitmapInv'
<1> USE DEF Goto, mem, disk, save_inode_bitmap
<1>1. CASE Wr(n, c, l) \/ Mf(n) \/ NoteNew(c)
  <2>1. /\ pc = "idle" /\ pc' = "new_block" /\ up /\ up' = up
        /\ UNCHANGED <<bbm, dbbm>> /\ ibm' = dibm'
    BY <1>1 DEF Wr, Mf, NoteNew, BeginCreate, Prompt
  <2>2. QED
    BY <2>1, SavedStep DEF InQformat
<1>2. CASE NoteAgain(c) \/ Dl(n) \/ Cd(n) \/ CdUp
  <2>1. /\ pc = "idle" /\ pc' \in {"fw", "dl_direct", "idle"} /\ up /\ up' = up
        /\ UNCHANGED <<bbm, dbbm, ibm, dibm>>
    BY <1>2 DEF NoteAgain, Dl, Cd, CdUp, Prompt
  <2>2. QED
    BY <2>1, SavedStep DEF InQformat
<1>3. CASE Format
  BY <1>3 DEF Format, BitmapInv, InQformat
<1>4. CASE Qformat
  BY <1>4 DEF Qformat, BitmapInv, InQformat
<1>5. CASE PowerCut
  BY <1>5 DEF PowerCut, BitmapInv, InQformat
<1>6. QED
  BY <1>1, <1>2, <1>3, <1>4, <1>5

LEMMA BitmapsAlways == Spec => []BitmapInv
<1>1. Init => BitmapInv
  BY DEF Init, BitmapInv, InQformat
<1>2. Sound /\ BitmapInv /\ [Next]_vars => BitmapInv'
  <2> SUFFICES ASSUME Sound, BitmapInv, [Next]_vars PROVE BitmapInv'
    OBVIOUS
  <2>1. CASE Kernel
    BY <2>1, KernelBitmaps
  <2>2. CASE ~Kernel /\ Next
    <3>1. PICK n \in Names, c \in Texts, l \in Lens :
            \/ Wr(n, c, l) \/ Mf(n) \/ NoteNew(c) \/ NoteAgain(c)
            \/ Dl(n) \/ Cd(n) \/ CdUp \/ Format \/ Qformat \/ PowerCut
      BY <2>2, NamesAssumption, SizeAssumption, TextAssumption DEF Next, Create
    <3>2. QED
      BY <3>1, CommandBitmaps
  <2>3. CASE UNCHANGED vars
    BY <2>3 DEF vars, disk, mem, BitmapInv, InQformat
  <2>4. QED
    BY <2>1, <2>2, <2>3
<1>3. QED
  BY <1>1, <1>2, SoundAlways, PTL DEF Spec

\* Whenever the shell waits for a command on a mounted disk, the bitmaps on
\* disk are the ones in memory: for every sequence of commands, every format
\* and every power cut.
THEOREM BitmapsAreSaved == Spec => []BitmapsSaved
<1>1. BitmapInv => BitmapsSaved
  BY DEF BitmapInv, BitmapsSaved, InQformat
<1>2. QED
  BY <1>1, BitmapsAlways, PTL

-----------------------------------------------------------------------------
(* The superblock                                                          *)

\* zero_block(0) is reached only when alloc_block() found nothing.
FullInv == pc = "fw_zero" /\ job.node.single = 0 => DataBlocks \subseteq bbm

\* Only the allocation of the pointer block leads to its clearing.
LEMMA ZeroComesFromAlloc ==
  ASSUME Next, pc' = "fw_zero"
  PROVE  FwAllocSingle
<1> USE DEF Goto, Finish
<1>1. CASE NewBlockStep \/ NewInodeStep \/ DirAdd \/ DirGrow \/ DirPut
  BY <1>1, AfterAddPlace DEF NewBlockStep, NewInodeStep, DirAdd, DirGrow, DirPut
<1>2. CASE \/ FwAllocDirect \/ FwZero \/ FwInode \/ FwAllocPtr
           \/ FwPtr \/ FwData \/ FwWild \/ FwSize
  BY <1>2 DEF FwAllocDirect, FwZero, FwInode, FwAllocPtr, FwPtr, FwData, FwWild, FwSize
<1>3. CASE DlDirect \/ DlSingle \/ DlInode \/ DlEntry
  BY <1>3 DEF DlDirect, DlSingle, DlInode, DlEntry
<1>4. CASE QIbm \/ QItab \/ QSb \/ FBbm \/ FIbm
  BY <1>4 DEF QIbm, QItab, QSb, FBbm, FIbm
<1>5. CASE RIbm \/ RBlock \/ RInode \/ RZero \/ DefDir \/ DefDone \/ Boot
  BY <1>5 DEF RIbm, RBlock, RInode, RZero, AfterRoot, DefDir, DefDone, Boot, init_fs
<1>6. ASSUME NEW n, NEW c, NEW l,
             \/ Wr(n, c, l) \/ Mf(n) \/ NoteNew(c) \/ NoteAgain(c)
             \/ Dl(n) \/ Cd(n) \/ CdUp \/ Format \/ Qformat \/ PowerCut
      PROVE  FALSE
  BY <1>6 DEF Wr, Mf, NoteNew, BeginCreate, NoteAgain, Dl, Cd, CdUp, Format, Qformat,
              PowerCut, Prompt
<1>7. QED
  BY <1>1, <1>2, <1>3, <1>4, <1>5, <1>6 DEF Next, Kernel, Create

\* Only FwZero takes the superblock away.
LEMMA OnlyFwZero ==
  ASSUME Next, sb, ~sb'
  PROVE  FwZero
<1> USE DEF disk
<1>1. CASE NewBlockStep \/ NewInodeStep \/ DirAdd \/ DirGrow \/ DirPut
  BY <1>1 DEF NewBlockStep, NewInodeStep, DirAdd, DirGrow, DirPut
<1>2. CASE \/ FwAllocDirect \/ FwAllocSingle \/ FwInode \/ FwAllocPtr
           \/ FwPtr \/ FwData \/ FwWild \/ FwSize
  BY <1>2 DEF FwAllocDirect, FwAllocSingle, FwInode, FwAllocPtr, FwPtr, FwData, FwWild, FwSize
<1>3. CASE DlDirect \/ DlSingle \/ DlInode \/ DlEntry
  BY <1>3 DEF DlDirect, DlSingle, DlInode, DlEntry
<1>4. CASE QIbm \/ QItab \/ QSb \/ FBbm \/ FIbm
  BY <1>4 DEF QIbm, QItab, QSb, FBbm, FIbm
<1>5. CASE RIbm \/ RBlock \/ RInode \/ RZero \/ DefDir \/ DefDone \/ Boot
  BY <1>5 DEF RIbm, RBlock, RInode, RZero, DefDir, DefDone, Boot
<1>6. ASSUME NEW n, NEW c, NEW l,
             \/ Wr(n, c, l) \/ Mf(n) \/ NoteNew(c) \/ NoteAgain(c)
             \/ Dl(n) \/ Cd(n) \/ CdUp \/ Format \/ Qformat \/ PowerCut
      PROVE  FALSE
  BY <1>6 DEF Wr, Mf, NoteNew, NoteAgain, Dl, Cd, CdUp, Format, Qformat, PowerCut
<1>7. QED
  BY <1>1, <1>2, <1>3, <1>4, <1>5, <1>6 DEF Next, Kernel, Create

\* No command and no power cut costs the superblock unless every block of the
\* disk is taken.
THEOREM OnlyAFullDiskLosesIt == Spec => SuperblockLostOnlyWhenFull
<1>1. Init => FullInv
  BY DEF Init, FullInv
<1>2. Sound /\ FullInv /\ [Next]_vars => FullInv'
  <2> SUFFICES ASSUME Sound, FullInv, [Next]_vars,
                      pc' = "fw_zero", job'.node.single = 0
               PROVE  (DataBlocks \subseteq bbm)'
    BY DEF FullInv
  <2>1. CASE Next
    <3>1. FwAllocSingle
      BY <2>1, ZeroComesFromAlloc
    <3>2. job'.node.single = NewBlock
      BY <3>1 DEF FwAllocSingle, Goto, Sound, TypeOK, Job, Inode
    <3>3. NewBlock = 0 /\ bbm' = bbm
      BY <3>1, <3>2 DEF FwAllocSingle, alloc_block
    <3>4. DataBlocks \subseteq bbm
      <4>1. SUFFICES ASSUME ~(DataBlocks \subseteq bbm) PROVE FALSE
        OBVIOUS
      <4>2. DataBlocks \ bbm \subseteq Nat \ {0} /\ DataBlocks \ bbm # {}
        BY <4>1, BlocksAssumption
      <4>3. NewBlock \in DataBlocks \ bbm
        BY <4>1, <4>2, MinIsLeast DEF NewBlock
      <4>4. QED
        BY <3>3, <4>2, <4>3
    <3>5. QED
      BY <3>3, <3>4
  <2>2. CASE UNCHANGED vars
    BY <2>2 DEF vars, mem, FullInv
  <2>3. QED
    BY <2>1, <2>2
<1>3. FullInv /\ [Next]_vars => [sb /\ ~sb' => DataBlocks \subseteq bbm]_vars
  BY OnlyFwZero DEF FwZero, FullInv
<1>4. QED
  BY <1>1, <1>2, <1>3, SoundAlways, PTL DEF Spec, SuperblockLostOnlyWhenFull

\* The fields of a new inode.
LEMMA FreshFields ==
  ASSUME NEW ty, NEW b
  PROVE  /\ FreshInode(ty, b).type = ty /\ FreshInode(ty, b).single = 0
         /\ FreshInode(ty, b).direct = [i \in Direct |-> IF i = 0 THEN b ELSE 0]
BY DEF FreshInode, NoInode

-----------------------------------------------------------------------------
(* What a format leaves: the invariant                                     *)

\* The names fit beside the root in the inode table, and in the first block of
\* the root: the code has five, and room for sixteen.
DirsFit == Len(DefDirs) < NInodes /\ Len(DefDirs) <= Slots

\* Where create_defdirs runs, and how many of its names are done.
DefPlaces == {"defdirs", "new_block", "new_inode", "dir_add", "dir_grow", "dir_put"}

\* The root has its one block, with an entry for each name that is done.
RootBuilt ==
  \E r \in DataBlocks :
    /\ itab[0] = FreshInode(2, r)
    /\ blk[r] = [s \in Cells |-> IF s < job.k THEN Entry(DefDirs[s + 1], s + 1) ELSE Zero]

\* The inodes that have been written own what is marked, but for the new block.
Built(n, B) ==
  /\ RootBuilt /\ \A i \in 0 .. n : itab[i].single = 0
  /\ bbm = B \cup UNION {Owned(i) : i \in 0 .. n}

FreshInv ==
  /\ job.op \in Formats /\ pc \in {"f_bbm", "f_ibm", "r_ibm"} => bbm = {} /\ ibm = {}
  /\ job.op \in Formats /\ pc = "r_block" => bbm = {} /\ ibm = {0}
  /\ job.op \in Formats /\ pc \in {"r_inode", "r_zero"} =>
       /\ ibm = {0}
       /\ \E r \in DataBlocks : job.node = FreshInode(2, r) /\ bbm = {r}
       /\ pc = "r_zero" => itab[0] = job.node
  /\ job.op \in Formats /\ pc \in DefPlaces /\ bbm # DataBlocks =>
       /\ job.k \in 0 .. Len(DefDirs)
       /\ pc = "defdirs" => ibm = 0 .. job.k /\ Built(job.k, {})
       /\ pc # "defdirs" =>
            /\ job.k < Len(DefDirs) /\ ibm = 0 .. job.k + 1
            /\ job.idx = job.k + 1 /\ job.name = DefDirs[job.k + 1] /\ job.home = 0
       /\ pc = "new_block" => Built(job.k, {})
       /\ pc = "new_inode" =>
            \E b \in DataBlocks : job.node = FreshInode(2, b) /\ Built(job.k, {b})
       /\ pc \notin {"defdirs", "new_block", "new_inode"} =>
            pc = "dir_add" /\ job.dir = itab[0] /\ Built(job.k + 1, {})

\* A new inode names its one block.
LEMMA FreshPointers ==
  ASSUME NEW ty, NEW b \in DataBlocks
  PROVE  /\ {FreshInode(ty, b).direct[d] : d \in Direct} \ {0} = {b}
         /\ FreshInode(ty, b).single = 0 /\ FreshInode(ty, b).type = ty
         /\ FreshInode(ty, b).direct[0] = b
         /\ \A d \in Direct : d # 0 => FreshInode(ty, b).direct[d] = 0
<1>1. FreshInode(ty, b).direct = [i \in Direct |-> IF i = 0 THEN b ELSE 0]
  BY FreshFields
<1>2. b # 0 /\ 0 \in Direct
  BY BlocksAssumption, BaseTypes
<1> QED BY <1>1, <1>2, FreshFields

\* No free block is found on a full disk, and only there.
LEMMA FullDisk ==
  ASSUME bbm \in SUBSET DataBlocks
  PROVE  /\ NewBlock = 0 <=> bbm = DataBlocks
         /\ NewBlock # 0 => NewBlock \in DataBlocks
<1>1. CASE DataBlocks \subseteq bbm
  BY <1>1 DEF NewBlock
<1>2. CASE ~(DataBlocks \subseteq bbm)
  <2>1. DataBlocks \ bbm \subseteq Nat /\ DataBlocks \ bbm # {}
    BY <1>2, BlocksAssumption
  <2>2. Min(DataBlocks \ bbm) \in DataBlocks
    BY <2>1, MinIsLeast
  <2> QED BY <1>2, <2>2, BlocksAssumption DEF NewBlock
<1> QED BY <1>1, <1>2

\* The next name goes to the first free inode.
LEMMA NextInode ==
  ASSUME NEW k \in Nat, k + 1 < NInodes, ibm = 0 .. k
  PROVE  FreeInodes # {} /\ Min(FreeInodes) = k + 1
<1>1. FreeInodes = (k + 1) .. NInodes - 1
  BY SizeAssumption DEF FreeInodes, Inodes
<1>2. k + 1 \in FreeInodes /\ FreeInodes \subseteq Nat
  BY <1>1, SizeAssumption
<1>3. Min(FreeInodes) \in FreeInodes /\ Min(FreeInodes) <= k + 1
  BY <1>2, MinIsLeast
<1> QED BY <1>1, <1>2, <1>3, SizeAssumption

\* What is built stays while neither its inodes nor any block change.
LEMMA BuiltStays ==
  ASSUME NEW n \in Nat, NEW B, Built(n, B), job'.k = job.k,
         \A i \in 0 .. n : itab'[i] = itab[i], UNCHANGED <<blk, bbm>>
  PROVE  Built(n, B)'
<1>1. \A i \in 0 .. n : Owned(i)' = Owned(i)
  BY DEF Owned, Pointers
<1>2. RootBuilt'
  BY DEF Built, RootBuilt
<1>3. \A i \in 0 .. n : itab'[i].single = 0
  BY DEF Built
<1>4. bbm' = B \cup UNION {Owned(i)' : i \in 0 .. n}
  BY <1>1 DEF Built
<1> QED BY <1>2, <1>3, <1>4 DEF Built

FreshPlaces == {"f_bbm", "f_ibm", "r_ibm", "r_block", "r_inode", "r_zero"} \cup DefPlaces

\* Every other command, and every other place of a format, promises nothing.
LEMMA NotFormatting ==
  ASSUME job'.op \notin Formats \/ pc' \notin FreshPlaces
  PROVE  FreshInv'
BY DEF FreshInv, FreshPlaces, DefPlaces

\* Steps that are not of a format's making of directories.
LEMMA FreshElsewhere ==
  ASSUME Sound, FreshInv,
         \/ FwAllocDirect \/ FwAllocSingle \/ FwZero \/ FwInode \/ FwAllocPtr
         \/ FwPtr \/ FwData \/ FwWild \/ FwSize
         \/ DlDirect \/ DlSingle \/ DlInode \/ DlEntry
         \/ QIbm \/ QItab \/ DefDone \/ Boot
  PROVE  FreshInv'
<1> USE DEF Goto, Finish, FreshPlaces, DefPlaces, Formats, NoJob
<1>1. CASE \/ FwAllocDirect \/ FwAllocSingle \/ FwZero \/ FwInode \/ FwAllocPtr
           \/ FwPtr \/ FwData \/ FwWild \/ FwSize
  <2>1. pc' \in {"fw", "fw_zero", "fw_inode", "fw_ptr", "idle", "wild"}
    BY <1>1 DEF FwAllocDirect, FwAllocSingle, FwZero, FwInode, FwAllocPtr, FwPtr, FwData,
                FwWild, FwSize
  <2> QED BY <2>1, NotFormatting
<1>2. CASE DlDirect \/ DlSingle \/ DlInode \/ DlEntry
  <2>1. pc' \in {"dl_direct", "dl_single", "dl_inode", "dl_entry", "idle"}
    BY <1>2 DEF DlDirect, DlSingle, DlInode, DlEntry
  <2> QED BY <2>1, NotFormatting
<1>3. CASE QIbm \/ QItab
  <2>1. pc' \in {"q_itab", "q_sb"}
    BY <1>3 DEF QIbm, QItab
  <2> QED BY <2>1, NotFormatting
<1>4. CASE DefDone \/ Boot
  <2>1. pc' = "idle" \/ job'.op = "boot"
    BY <1>4 DEF DefDone, Boot, init_fs
  <2> QED BY <2>1, NotFormatting
<1> QED BY <1>1, <1>2, <1>3, <1>4

\* The bitmaps are cleared and the root is made.
LEMMA FreshRoot ==
  ASSUME Sound, FreshInv, QSb \/ FBbm \/ FIbm \/ RIbm \/ RBlock \/ RInode \/ RZero
  PROVE  FreshInv'
<1> SUFFICES ASSUME job'.op \in Formats, pc' \in FreshPlaces PROVE FreshInv'
  BY NotFormatting
<1> USE DEF Goto, Finish
<1>0. job \in Job /\ bbm \in SUBSET DataBlocks /\ itab \in [Inodes -> Inode]
      /\ blk \in [DataBlocks -> [Cells -> Cell]] /\ 0 \in Inodes
  BY BaseTypes DEF Sound, TypeOK, MemType, DiskType
<1>1. CASE QSb \/ FBbm \/ FIbm
  <2>1. /\ pc' \in {"f_bbm", "f_ibm", "r_ibm"} /\ job' = job
        /\ bbm' = {} /\ ibm' = {}
    BY <1>1 DEF QSb, FBbm, FIbm, mem, FreshInv
  <2> QED BY <2>1 DEF FreshInv, DefPlaces
<1>2. CASE RIbm
  <2>1. pc = "r_ibm" /\ pc' = "r_block" /\ job' = job /\ bbm' = bbm /\ ibm' = ibm \cup {0}
    BY <1>2 DEF RIbm, save_inode_bitmap
  <2> QED BY <2>1 DEF FreshInv, DefPlaces
<1>3. CASE RBlock
  <2>1. pc = "r_block" /\ alloc_block /\ ibm' = ibm
    BY <1>3 DEF RBlock
  <2>2. job'.op = job.op
    BY <1>0, <1>3 DEF RBlock, AfterRoot, NoJob, Job, Formats
  <2>3. bbm = {} /\ ibm = {0}
    BY <2>1, <2>2 DEF FreshInv
  <2>4. CASE NewBlock = 0
    <3>1. bbm' = DataBlocks /\ pc' = "defdirs"
      BY <1>0, <1>3, <2>1, <2>2, <2>4, FullDisk DEF RBlock, AfterRoot, alloc_block
    <3> QED BY <3>1 DEF FreshInv, DefPlaces
  <2>5. CASE NewBlock # 0
    <3>1. PICK r \in DataBlocks : r = NewBlock
      BY <1>0, <2>5, FullDisk
    <3>2. pc' = "r_inode" /\ job' = [job EXCEPT !.node = FreshInode(2, r)] /\ bbm' = {r}
      BY <1>3, <2>1, <2>3, <2>5, <3>1 DEF RBlock, alloc_block, save_block_bitmap
    <3>3. job'.node = FreshInode(2, r)
      BY <1>0, <3>2 DEF Job
    <3> QED BY <2>1, <2>3, <3>2, <3>3 DEF FreshInv, DefPlaces
  <2> QED BY <2>4, <2>5
<1>4. CASE RInode
  <2>1. /\ pc = "r_inode" /\ pc' = "r_zero" /\ job' = job /\ bbm' = bbm /\ ibm' = ibm
        /\ itab'[0] = job.node
    BY <1>0, <1>4 DEF RInode, mem
  <2> QED BY <2>1 DEF FreshInv, DefPlaces
<1>5. CASE RZero
  <2>1. /\ pc = "r_zero" /\ bbm' = bbm /\ ibm' = ibm /\ itab' = itab
        /\ blk' = [blk EXCEPT ![job.node.direct[0]] = ZeroBlock]
    BY <1>5 DEF RZero, mem
  <2>2. pc' = "defdirs" /\ job' = [job EXCEPT !.k = 0] /\ job.op \in Formats
    BY <1>0, <1>5 DEF RZero, AfterRoot, NoJob, Formats, Job
  <2>3. job'.k = 0
    BY <1>0, <2>2 DEF Job
  <2>4. PICK r \in DataBlocks : job.node = FreshInode(2, r) /\ bbm = {r} /\ itab[0] = job.node
    BY <2>1, <2>2 DEF FreshInv
  <2>5. blk'[r] = ZeroBlock
    BY <1>0, <2>1, <2>4, FreshPointers
  <2>6. blk'[r] = [s \in Cells |-> IF s < job'.k THEN Entry(DefDirs[s + 1], s + 1) ELSE Zero]
    <3>1. \A s \in Cells : ~(s < 0)
      BY SizeAssumption DEF Cells
    <3> QED BY <2>3, <2>5, <3>1 DEF ZeroBlock
  <2>7. RootBuilt'
    BY <2>1, <2>4, <2>6 DEF RootBuilt
  <2>8. Owned(0)' = {r} /\ itab'[0].single = 0
    <3>1. itab'[0] = FreshInode(2, r)
      BY <2>1, <2>4
    <3> QED BY <3>1, FreshPointers DEF Owned, Pointers
  <2>9. Built(0, {})'
    <3>1. UNION {Owned(i)' : i \in 0 .. 0} = Owned(0)'
      <4>1. 0 .. 0 = {0}
        OBVIOUS
      <4> HIDE DEF Owned
      <4> QED BY <4>1
    <3> QED BY <2>1, <2>4, <2>7, <2>8, <3>1 DEF Built
  <2>10. ibm' = 0 .. 0
    BY <2>1, <2>2 DEF FreshInv
  <2> QED BY <2>2, <2>3, <2>9, <2>10 DEF FreshInv, DefPlaces
<1> QED BY <1>1, <1>2, <1>3, <1>4, <1>5

\* What a place of create_defdirs knows, with the count of names as a number.
LEMMA DefFacts ==
  ASSUME Sound, FreshInv, job.op \in Formats, pc \in DefPlaces, bbm # DataBlocks
  PROVE  \E k \in 0 .. Len(DefDirs) :
           /\ k = job.k
           /\ pc = "defdirs" => ibm = 0 .. k /\ Built(k, {})
           /\ pc # "defdirs" =>
                /\ k < Len(DefDirs) /\ ibm = 0 .. k + 1
                /\ job.idx = k + 1 /\ job.name = DefDirs[k + 1] /\ job.home = 0
           /\ pc = "new_block" => Built(k, {})
           /\ pc = "new_inode" =>
                \E b \in DataBlocks : job.node = FreshInode(2, b) /\ Built(k, {b})
           /\ pc \notin {"defdirs", "new_block", "new_inode"} =>
                pc = "dir_add" /\ job.dir = itab[0] /\ Built(k + 1, {})
BY DEF FreshInv

\* The next name is begun.
LEMMA FreshDefDir ==
  ASSUME Sound, FreshInv, DirsFit, DefDir
  PROVE  FreshInv'
<1> SUFFICES ASSUME job'.op \in Formats, pc' \in FreshPlaces PROVE FreshInv'
  BY NotFormatting
<1>1. /\ pc = "defdirs" /\ job.k < Len(DefDirs)
      /\ UNCHANGED <<itab, blk, bbm>> /\ job \in Job /\ Len(DefDirs) \in Nat
  BY NamesAssumption DEF DefDir, Sound, TypeOK
<1>2. pc' \in {"defdirs", "new_block"} /\ job'.op = job.op
  BY <1>1 DEF DefDir, Goto, Job
<1>3. CASE bbm = DataBlocks
  BY <1>1, <1>2, <1>3 DEF FreshInv, DefPlaces
<1>4. CASE bbm # DataBlocks
  <2>1. PICK k \in 0 .. Len(DefDirs) : k = job.k /\ ibm = 0 .. k /\ Built(k, {})
    BY <1>1, <1>2, <1>4, DefFacts DEF DefPlaces
  <2>2. k + 1 < NInodes /\ k \in Nat
    BY <1>1, <2>1, SizeAssumption DEF DirsFit
  <2>3. FreeInodes # {} /\ Min(FreeInodes) = k + 1
    BY <2>1, <2>2, NextInode
  <2>4. /\ pc' = "new_block" /\ ibm' = ibm \cup {k + 1}
        /\ job' = [job EXCEPT !.name = DefDirs[job.k + 1], !.home = 0, !.idx = k + 1]
    BY <2>3 DEF DefDir, save_inode_bitmap, Goto
  <2>5. /\ job'.k = job.k /\ job'.name = DefDirs[k + 1] /\ job'.home = 0 /\ job'.idx = k + 1
    BY <1>1, <2>1, <2>4 DEF Job
  <2>6. Built(k, {})'
    BY <1>1, <2>1, <2>2, <2>5, BuiltStays
  <2>7. ibm' = 0 .. k + 1
    BY <2>1, <2>2, <2>4
  <2>8. Built(job.k, {})'
    BY <2>1, <2>5, <2>6
  <2> QED BY <1>1, <2>1, <2>4, <2>5, <2>7, <2>8 DEF FreshInv, DefPlaces
<1> QED BY <1>3, <1>4

\* Its first block.
LEMMA FreshNewBlock ==
  ASSUME Sound, FreshInv, NewBlockStep
  PROVE  FreshInv'
<1> SUFFICES ASSUME job'.op \in Formats, pc' \in FreshPlaces PROVE FreshInv'
  BY NotFormatting
<1>1. /\ pc = "new_block" /\ UNCHANGED <<itab, blk>> /\ job \in Job
      /\ bbm \in SUBSET DataBlocks
  BY DEF NewBlockStep, Sound, TypeOK, MemType
<1>2. job.op \in Formats /\ job'.op = job.op
  BY <1>1 DEF NewBlockStep, Goto, Finish, NoJob, Formats, Job
<1>3. CASE NewBlock = 0
  <2>1. bbm' = DataBlocks /\ pc' = "defdirs"
    BY <1>1, <1>2, <1>3, FullDisk DEF NewBlockStep, Goto
  <2> QED BY <2>1 DEF FreshInv, DefPlaces
<1>4. CASE NewBlock # 0
  <2>1. bbm # DataBlocks /\ \E b \in DataBlocks : b = NewBlock
    BY <1>1, <1>4, FullDisk
  <2>2. PICK b \in DataBlocks : b = NewBlock
    BY <2>1
  <2>3. PICK k \in 0 .. Len(DefDirs) :
          /\ k = job.k /\ k < Len(DefDirs) /\ ibm = 0 .. k + 1
          /\ job.idx = k + 1 /\ job.name = DefDirs[k + 1] /\ job.home = 0 /\ Built(k, {})
    BY <1>1, <1>2, <2>1, DefFacts DEF DefPlaces
  <2>4. job.op \notin FileOps
    BY <1>2 DEF FileOps, Formats
  <2>5. /\ pc' = "new_inode" /\ job' = [job EXCEPT !.node = FreshInode(2, b)]
        /\ bbm' = bbm \cup {b} /\ ibm' = ibm
    BY <1>4, <2>2, <2>4 DEF NewBlockStep, alloc_block, save_block_bitmap, Goto
  <2>6. /\ job'.k = job.k /\ job'.name = job.name /\ job'.home = job.home
        /\ job'.idx = job.idx /\ job'.node = FreshInode(2, b)
    BY <1>1, <2>5 DEF Job
  <2>7. Built(k, {b})'
    <3>1. \A i \in 0 .. k : Owned(i)' = Owned(i)
      BY <1>1 DEF Owned, Pointers
    <3>2. RootBuilt'
      BY <1>1, <2>3, <2>6 DEF Built, RootBuilt
    <3>3. \A i \in 0 .. k : itab'[i].single = 0
      BY <1>1, <2>3 DEF Built
    <3>4. bbm' = {b} \cup UNION {Owned(i)' : i \in 0 .. k}
      BY <2>3, <2>5, <3>1 DEF Built
    <3> QED BY <3>2, <3>3, <3>4 DEF Built
  <2>8. \E c \in DataBlocks : job'.node = FreshInode(2, c) /\ Built(job.k, {c})'
    BY <2>3, <2>6, <2>7
  <2> QED BY <2>3, <2>5, <2>6, <2>8 DEF FreshInv, DefPlaces
<1> QED BY <1>3, <1>4

\* Its inode.
LEMMA FreshNewInode ==
  ASSUME Sound, FreshInv, DirsFit, NewInodeStep
  PROVE  FreshInv'
<1> SUFFICES ASSUME job'.op \in Formats, pc' \in FreshPlaces PROVE FreshInv'
  BY NotFormatting
<1>1. /\ pc = "new_inode" /\ pc' = "dir_add" /\ UNCHANGED <<blk, bbm, ibm>> /\ job \in Job
      /\ itab' = [itab EXCEPT ![job.idx] = job.node] /\ itab \in [Inodes -> Inode]
      /\ job' = [job EXCEPT !.dir = itab'[job.home]]
  BY DEF NewInodeStep, Goto, mem, Sound, TypeOK, DiskType
<1>2. /\ job'.op = job.op /\ job'.k = job.k /\ job'.name = job.name /\ job'.home = job.home
      /\ job'.idx = job.idx /\ job'.dir = itab'[job.home]
  BY <1>1 DEF Job
<1>3. CASE bbm = DataBlocks
  BY <1>1, <1>3 DEF FreshInv, DefPlaces
<1>4. CASE bbm # DataBlocks
  <2>1. PICK k \in 0 .. Len(DefDirs) :
          /\ k = job.k /\ k < Len(DefDirs) /\ ibm = 0 .. k + 1
          /\ job.idx = k + 1 /\ job.name = DefDirs[k + 1] /\ job.home = 0
          /\ \E b \in DataBlocks : job.node = FreshInode(2, b) /\ Built(k, {b})
    BY <1>1, <1>2, <1>4, DefFacts DEF DefPlaces
  <2>2. PICK b \in DataBlocks : job.node = FreshInode(2, b) /\ Built(k, {b})
    BY <2>1
  <2>3. k \in Nat /\ k + 1 \in Inodes /\ k + 1 # 0
    BY <2>1, SizeAssumption, NamesAssumption DEF DirsFit, Inodes
  <2>4. itab'[k + 1] = FreshInode(2, b) /\ \A i \in 0 .. k : itab'[i] = itab[i]
    <3>1. \A i \in 0 .. k : i # k + 1
      BY <2>3
    <3>2. \A i \in 0 .. k : i \in Inodes
      BY <2>3, SizeAssumption DEF Inodes
    <3> QED BY <1>1, <2>1, <2>2, <2>3, <3>1, <3>2
  <2>5. Built(k, {b})'
    BY <1>1, <1>2, <2>2, <2>3, <2>4, BuiltStays
  <2>6. Owned(k + 1)' = {b} /\ itab'[k + 1].single = 0
    <3>1. /\ itab'[k + 1].single = 0 /\ itab'[k + 1].direct[0] = b
          /\ \A d \in Direct : d # 0 => itab'[k + 1].direct[d] = 0
      BY <2>4, FreshPointers
    <3>2. itab'[k + 1].single = 0 /\ Pointers(k + 1)' = {b}
      BY <3>1, BaseTypes, BlocksAssumption DEF Pointers
    <3> QED BY <3>2 DEF Owned
  <2>7. Built(k + 1, {})'
    <3>1. 0 .. k + 1 = (0 .. k) \cup {k + 1}
      BY <2>3
    <3>2. UNION {Owned(i)' : i \in 0 .. k + 1}
            = (UNION {Owned(i)' : i \in 0 .. k}) \cup Owned(k + 1)'
      <4>1. /\ \A i \in 0 .. k + 1 : i \in 0 .. k \/ i = k + 1
            /\ \A i \in 0 .. k : i \in 0 .. k + 1
            /\ k + 1 \in 0 .. k + 1
        BY <2>3
      <4> QED BY ONLY <4>1, Zenon
    <3>3. bbm' = {b} \cup UNION {Owned(i)' : i \in 0 .. k}
      BY <2>5 DEF Built
    <3>5. bbm' = {} \cup UNION {Owned(i)' : i \in 0 .. k + 1}
      BY <2>6, <3>2, <3>3
    <3>4. \A i \in 0 .. k + 1 : itab'[i].single = 0
      BY <2>5, <2>6, <3>1 DEF Built
    <3> QED BY <2>5, <3>5, <3>4 DEF Built
  <2>8. job'.dir = itab'[0]
    BY <1>2, <2>1
  <2>9. Built(job.k + 1, {})'
    BY <1>2, <2>1, <2>7
  <2> QED BY <1>1, <1>2, <2>1, <2>8, <2>9 DEF FreshInv, DefPlaces
<1> QED BY <1>3, <1>4

\* Its entry: the next cell of the root's block is free.
LEMMA FreshDirAdd ==
  ASSUME Sound, FreshInv, DirsFit, DirAdd
  PROVE  FreshInv'
<1> SUFFICES ASSUME job'.op \in Formats, pc' \in FreshPlaces PROVE FreshInv'
  BY NotFormatting
<1>1. /\ pc = "dir_add" /\ UNCHANGED <<itab, ibm>> /\ job \in Job
      /\ itab \in [Inodes -> Inode] /\ blk \in [DataBlocks -> [Cells -> Cell]]
      /\ bbm \in SUBSET DataBlocks
  BY DEF DirAdd, Sound, TypeOK, DiskType, MemType
<1>2. job.op \in Formats /\ job'.op = job.op
  <2>1. CASE \E ok \in BOOLEAN : AfterAdd(ok)
    BY <1>1, <2>1 DEF AfterAdd, Goto, Finish, NoJob, Formats, FreshPlaces, DefPlaces, Job
  <2>2. CASE \E a, b : Goto("dir_grow", [job EXCEPT !.dir.direct[a] = b, !.ptr = b])
    BY <1>1, <2>2 DEF Goto, Job
  <2> QED BY <2>1, <2>2 DEF DirAdd
<1>3. CASE bbm = DataBlocks
  <2>1. bbm' = DataBlocks
    BY <1>1, <1>3, FullDisk DEF DirAdd, alloc_block
  <2>2. pc' \in DefPlaces
    BY <1>2 DEF DirAdd, AfterAdd, Goto, Finish, FileOps, Formats, DefPlaces
  <2> QED BY <2>1, <2>2 DEF FreshInv, DefPlaces
<1>4. CASE bbm # DataBlocks
  <2>1. PICK k \in 0 .. Len(DefDirs) :
          /\ k = job.k /\ k < Len(DefDirs) /\ ibm = 0 .. k + 1
          /\ job.idx = k + 1 /\ job.name = DefDirs[k + 1] /\ job.home = 0
          /\ job.dir = itab[0] /\ Built(k + 1, {})
    BY <1>1, <1>2, <1>4, DefFacts DEF DefPlaces
  <2>2. k \in Nat /\ k \in Cells /\ k + 1 \in Nat
    BY <2>1, SizeAssumption, NamesAssumption DEF DirsFit, Cells
  <2>3. PICK r \in DataBlocks :
          /\ itab[0] = FreshInode(2, r)
          /\ blk[r] = [s \in Cells |-> IF s < k THEN Entry(DefDirs[s + 1], s + 1) ELSE Zero]
    BY <2>1 DEF Built, RootBuilt
  <2>4. FreeCells(r) = {s \in Cells : s >= k}
    <3>1. \A s \in Cells : s < k => blk[r][s].w = s + 1 /\ s + 1 # 0
      BY <2>3, BaseTypes DEF Entry
    <3>2. \A s \in Cells : ~(s < k) => blk[r][s].w = 0
      BY <2>3 DEF Zero
    <3>3. \A s \in Cells : s < k \/ s >= k
      BY <2>2, BaseTypes
    <3>4. \A s \in Cells : ~(s < k /\ s >= k)
      BY <2>2, BaseTypes
    <3> QED BY <3>1, <3>2, <3>3, <3>4 DEF FreeCells
  <2>5. Min(FreeCells(r)) = k
    <3>0. k >= k
      BY <2>2
    <3>1. k \in FreeCells(r) /\ FreeCells(r) \subseteq Nat
      BY ONLY <2>2, <2>4, <3>0, BaseTypes
    <3>2. Min(FreeCells(r)) \in FreeCells(r) /\ Min(FreeCells(r)) <= k
      BY <3>1, MinIsLeast
    <3>3. Min(FreeCells(r)) >= k /\ Min(FreeCells(r)) \in Nat
      BY <2>4, <3>1, <3>2
    <3> QED BY <2>2, <3>2, <3>3
  <2>6. job.dir.direct[0] = r /\ r # 0
    BY <2>1, <2>3, FreshPointers, BlocksAssumption
  <2>7. AddStops(job.dir) # {} /\ Min(AddStops(job.dir)) = 0
    <3>0. k \in FreeCells(job.dir.direct[0])
      <4>1. k >= k
        BY <2>2
      <4> QED BY ONLY <2>2, <2>4, <2>6, <4>1
    <3>1. 0 \in AddStops(job.dir) /\ AddStops(job.dir) \subseteq Nat
      BY ONLY <3>0, BaseTypes DEF AddStops
    <3>2. Min(AddStops(job.dir)) \in AddStops(job.dir) /\ Min(AddStops(job.dir)) <= 0
      BY <3>1, MinIsLeast
    <3> QED BY <3>1, <3>2
  <2>8. /\ blk' = [blk EXCEPT ![r][k] = Entry(job.name, job.idx)]
        /\ AfterAdd(TRUE) /\ bbm' = bbm
    BY <2>5, <2>6, <2>7 DEF DirAdd
  <2>9. pc' = "defdirs" /\ job' = [job EXCEPT !.k = job.k + 1]
    BY <1>2, <2>8 DEF AfterAdd, Goto, FileOps, Formats
  <2>10. job'.k = k + 1
    BY <1>1, <2>1, <2>9 DEF Job
  <2>11. blk'[r] = [s \in Cells |-> IF s < k + 1 THEN Entry(DefDirs[s + 1], s + 1) ELSE Zero]
    <3>1. blk'[r] = [blk[r] EXCEPT ![k] = Entry(DefDirs[k + 1], k + 1)]
      BY <1>1, <2>1, <2>8
    <3>2. \A s \in Cells : s # k => (s < k <=> s < k + 1)
      BY <2>2, BaseTypes
    <3>3. k < k + 1
      BY <2>2
    <3> QED BY <2>2, <2>3, <3>1, <3>2, <3>3
  <2>12. RootBuilt'
    BY <1>1, <2>3, <2>10, <2>11 DEF RootBuilt
  <2>13. \A i \in 0 .. k + 1 : itab'[i].single = 0 /\ Owned(i)' = Owned(i)
    BY <1>1, <2>1 DEF Built, Owned, Pointers
  <2>14. Built(k + 1, {})'
    BY <2>1, <2>8, <2>12, <2>13 DEF Built
  <2>15. Built(job.k, {})'
    BY <2>10, <2>14
  <2>16. job'.k \in 0 .. Len(DefDirs) /\ ibm' = 0 .. job'.k
    BY <1>1, <2>1, <2>2, <2>10, NamesAssumption
  <2> QED BY <2>9, <2>15, <2>16 DEF FreshInv, DefPlaces
<1> QED BY <1>3, <1>4

\* The directory grows only on a full disk.
LEMMA FreshGrow ==
  ASSUME Sound, FreshInv, DirGrow \/ DirPut
  PROVE  FreshInv'
<1> SUFFICES ASSUME job'.op \in Formats, pc' \in FreshPlaces PROVE FreshInv'
  BY NotFormatting
<1>1. pc \in {"dir_grow", "dir_put"} /\ bbm' = bbm /\ job \in Job
  BY DEF DirGrow, DirPut, mem, Sound, TypeOK
<1>2. job.op \in Formats /\ pc' \in DefPlaces
  BY <1>1 DEF DirGrow, DirPut, AfterAdd, Goto, Finish, NoJob, Formats, FileOps, FreshPlaces,
              DefPlaces, Job
<1>3. bbm = DataBlocks
  BY <1>1, <1>2 DEF FreshInv, DefPlaces
<1> QED BY <1>1, <1>2, <1>3 DEF FreshInv, DefPlaces

\* A command begins, or the power fails.
LEMMA FreshCommand ==
  ASSUME Sound, FreshInv, NEW n, NEW c, NEW l,
         \/ Wr(n, c, l) \/ Mf(n) \/ NoteNew(c) \/ NoteAgain(c)
         \/ Dl(n) \/ Cd(n) \/ CdUp \/ Format \/ Qformat \/ PowerCut
  PROVE  FreshInv'
<1>1. CASE Wr(n, c, l) \/ Mf(n) \/ NoteNew(c)
  <2>1. job'.op \notin Formats
    BY <1>1 DEF Wr, Mf, NoteNew, BeginCreate, Goto, NoJob, Formats
  <2> QED BY <2>1, NotFormatting
<1>2. CASE NoteAgain(c) \/ Dl(n) \/ Cd(n) \/ CdUp \/ Qformat \/ PowerCut
  <2>1. pc' \in {"fw", "dl_direct", "idle", "q_ibm", "boot"}
    BY <1>2 DEF NoteAgain, Dl, Cd, CdUp, Qformat, PowerCut, Prompt, Goto
  <2> QED BY <2>1, NotFormatting DEF FreshPlaces, DefPlaces
<1>3. CASE Format
  <2>1. pc' = "f_bbm" /\ bbm' = {} /\ ibm' = {}
    BY <1>3 DEF Format, Goto
  <2> QED BY <2>1 DEF FreshInv, DefPlaces
<1> QED BY <1>1, <1>2, <1>3

LEMMA FreshAlways == ASSUME DirsFit PROVE Spec => []FreshInv
<1>1. Init => FreshInv
  BY DEF Init, FreshInv, NoJob, Formats
<1>2. Sound /\ FreshInv /\ [Next]_vars => FreshInv'
  <2> SUFFICES ASSUME Sound, FreshInv, [Next]_vars PROVE FreshInv'
    OBVIOUS
  <2>1. CASE Kernel
    BY <2>1, FreshElsewhere, FreshRoot, FreshDefDir, FreshNewBlock, FreshNewInode,
       FreshDirAdd, FreshGrow DEF Kernel
  <2>2. CASE ~Kernel /\ Next
    <3>1. PICK n \in Names, c \in Texts, l \in Lens :
            \/ Wr(n, c, l) \/ Mf(n) \/ NoteNew(c) \/ NoteAgain(c)
            \/ Dl(n) \/ Cd(n) \/ CdUp \/ Format \/ Qformat \/ PowerCut
      BY <2>2, NamesAssumption, SizeAssumption, TextAssumption DEF Next, Create
    <3> QED BY <3>1, FreshCommand
  <2>3. CASE UNCHANGED vars
    <3>1. UNCHANGED <<itab, blk, bbm, ibm, pc, job>>
      BY <2>3 DEF vars, disk, mem
    <3>2. \A n, B : Built(n, B)' <=> Built(n, B)
      <4>1. \A i : Owned(i)' = Owned(i)
        BY <3>1 DEF Owned, Pointers
      <4>2. RootBuilt' <=> RootBuilt
        BY <3>1 DEF RootBuilt
      <4> QED BY <3>1, <4>1, <4>2 DEF Built
    <3> QED BY <3>1, <3>2 DEF FreshInv
  <2> QED BY <2>1, <2>2, <2>3
<1> QED BY <1>1, <1>2, SoundAlways, PTL DEF Spec

\* create_defdirs runs in a format only.
FormatOp == pc = "defdirs" => job.op \in Formats

LEMMA FormatOpAlways == Spec => []FormatOp
<1>1. Init => FormatOp
  BY DEF Init, FormatOp
<1>2. Sound /\ FormatOp /\ [Next]_vars => FormatOp'
  <2> SUFFICES ASSUME Sound, FormatOp, [Next]_vars, pc' = "defdirs" PROVE job'.op \in Formats
    BY DEF FormatOp
  <2>0. job \in Job
    BY DEF Sound, TypeOK
  <2>1. CASE Kernel
    <3>1. CASE NewBlockStep
      BY <2>0, <3>1 DEF NewBlockStep, Goto, Finish, Job
    <3>2. CASE DirAdd \/ DirPut
      <4>1. \E ok \in BOOLEAN : AfterAdd(ok)
        BY <3>2 DEF DirAdd, DirPut, Goto
      <4> QED BY <2>0, <4>1 DEF AfterAdd, Goto, Finish, Job
    <3>3. CASE RBlock \/ RZero
      BY <2>0, <3>3 DEF RBlock, RZero, AfterRoot, Goto, Finish, Job
    <3>4. CASE DefDir
      BY <2>0, <3>4 DEF DefDir, FormatOp, Goto, Job
    <3> QED BY <2>1, <3>1, <3>2, <3>3, <3>4
        DEF Kernel, NewInodeStep, DirGrow, FwAllocDirect,
            FwAllocSingle, FwZero, FwInode, FwAllocPtr, FwPtr, FwData, FwWild, FwSize, Writing,
            DlDirect, DlSingle, DlInode, DlEntry, QIbm, QItab, QSb, FBbm, FIbm, RIbm,
            RInode, DefDone, Boot, init_fs, Goto, Finish
  <2>2. CASE ~Kernel /\ Next
    BY <2>2
    DEF Next, Create, Wr, NoteNew, NoteAgain, Mf, Dl, Cd, CdUp, Format, Qformat, PowerCut,
        BeginCreate, Prompt, Goto
  <2>3. CASE UNCHANGED vars
    BY <2>3 DEF vars, FormatOp
  <2> QED BY <2>1, <2>2, <2>3
<1> QED BY <1>1, <1>2, SoundAlways, PTL DEF Spec

\* What the last step of a format leaves.
LEMMA FormatEnds ==
  ASSUME Sound, BitmapInv, FreshInv, DirsFit, [Next]_vars,
         pc = "defdirs", pc' = "idle", bbm # DataBlocks, job.op \in Formats
  PROVE  /\ ibm' = 0 .. Len(DefDirs)
         /\ bbm' = UNION {Owned(i)' : i \in ibm'}
         /\ Listing(0)' = {[name |-> DefDirs[i], ino |-> i] : i \in DOMAIN DefDirs}
<1> DEFINE n == Len(DefDirs)
<1>1. DefDone
  <2>1. CASE Kernel
    BY <2>1
    DEF Kernel, NewBlockStep, NewInodeStep, DirAdd, DirGrow, DirPut, FwAllocDirect,
        FwAllocSingle, FwZero, FwInode, FwAllocPtr, FwPtr, FwData, FwWild, FwSize, Writing,
        DlDirect, DlSingle, DlInode, DlEntry, QIbm, QItab, QSb, FBbm, FIbm, RIbm, RBlock,
        RInode, RZero, DefDir, Boot, Goto
  <2>2. CASE ~Kernel
    BY <2>2
    DEF Next, Create, Wr, NoteNew, NoteAgain, Mf, Dl, Cd, CdUp, Format, Qformat, PowerCut,
        Prompt, Goto, vars
  <2> QED BY <2>1, <2>2
<1>2. job.k = n /\ UNCHANGED <<itab, blk>> /\ bbm' = dbbm /\ ibm' = dibm
  BY <1>1 DEF DefDone, init_fs, disk
<1>3. bbm = dbbm /\ ibm = dibm
  BY DEF BitmapInv, InQformat
<1>4. ibm = 0 .. n /\ Built(n, {})
  BY <1>2, DefFacts DEF DefPlaces
<1>5. \A i : Owned(i)' = Owned(i)
  BY <1>2 DEF Owned, Pointers
<1>6. bbm' = UNION {Owned(i)' : i \in ibm'}
  BY <1>2, <1>3, <1>4, <1>5 DEF Built
<1>7. Listing(0)' = Listing(0)
  BY <1>2 DEF Listing
<1>8. Listing(0) = {[name |-> DefDirs[i], ino |-> i] : i \in DOMAIN DefDirs}
  <2>1. PICK r \in DataBlocks :
          /\ itab[0] = FreshInode(2, r)
          /\ blk[r] = [s \in Cells |-> IF s < n THEN Entry(DefDirs[s + 1], s + 1) ELSE Zero]
    BY <1>2, <1>4 DEF Built, RootBuilt
  <2>2. /\ itab[0].direct[0] = r /\ r # 0
        /\ \A d \in Direct : itab[0].direct[d] # 0 => d = 0
    BY <2>1, FreshPointers, BlocksAssumption
  <2>3. n \in Nat /\ n <= Slots /\ DOMAIN DefDirs = 1 .. n
    BY NamesAssumption DEF DirsFit
  <2>4. \A s \in Cells : IF s < n THEN /\ s + 1 \in 1 .. n /\ blk[r][s].w = s + 1
                                      /\ blk[r][s].t = DefDirs[s + 1] /\ s + 1 # 0
                                 ELSE blk[r][s].w = 0
    BY <2>1, <2>3, BaseTypes DEF Entry, Zero
  <2>5. ASSUME NEW e \in Listing(0)
        PROVE  e \in {[name |-> DefDirs[i], ino |-> i] : i \in DOMAIN DefDirs}
    <3>1. PICK h \in Direct \X Cells :
            /\ itab[0].direct[h[1]] # 0 /\ blk[itab[0].direct[h[1]]][h[2]].w # 0
            /\ e = [name |-> blk[itab[0].direct[h[1]]][h[2]].t,
                    ino  |-> blk[itab[0].direct[h[1]]][h[2]].w]
      BY DEF Listing
    <3>2. h[1] = 0 /\ h[2] \in Cells
      BY <2>2, <3>1
    <3>3. h[2] < n /\ e = [name |-> DefDirs[h[2] + 1], ino |-> h[2] + 1] /\ h[2] + 1 \in 1 .. n
      BY <2>2, <2>4, <3>1, <3>2
    <3> QED BY <2>3, <3>3
  <2>6. ASSUME NEW i \in DOMAIN DefDirs
        PROVE  [name |-> DefDirs[i], ino |-> i] \in Listing(0)
    <3>1. i - 1 \in Cells /\ i - 1 < n /\ (i - 1) + 1 = i
      BY <2>3, SizeAssumption DEF Cells
    <3>2. PICK s \in Cells : s = i - 1
      BY <3>1
    <3>3. blk[r][s].w = i /\ blk[r][s].t = DefDirs[i] /\ i # 0
      BY <2>4, <3>1, <3>2
    <3>4. <<0, s>> \in Direct \X Cells /\ <<0, s>>[1] = 0 /\ <<0, s>>[2] = s
      BY BaseTypes
    <3>5. /\ <<0, s>> \in {g \in Direct \X Cells :
              itab[0].direct[g[1]] # 0 /\ blk[itab[0].direct[g[1]]][g[2]].w # 0}
          /\ [name |-> DefDirs[i], ino |-> i] =
               [name |-> blk[itab[0].direct[<<0, s>>[1]]][<<0, s>>[2]].t,
                ino  |-> blk[itab[0].direct[<<0, s>>[1]]][<<0, s>>[2]].w]
      BY <2>2, <3>3, <3>4
    <3> QED BY <3>5 DEF Listing
  <2> QED BY <2>5, <2>6
<1> QED BY <1>2, <1>3, <1>4, <1>6, <1>7, <1>8

\* Whatever was on the disk, and wherever an earlier format was cut off: a format
\* that had room ends with the root and the default directories, each marked,
\* entered under its name, and nothing else taken; for every disk whose root
\* block and inode table have room for the names.
THEOREM FormatLeavesFresh == ASSUME DirsFit PROVE Spec => FormatIsFresh
<1>1. Sound /\ BitmapInv /\ FreshInv /\ FormatOp /\ [Next]_vars
      => [(pc = "defdirs" /\ pc' = "idle" /\ bbm # DataBlocks) =>
            /\ ibm' = 0 .. Len(DefDirs)
            /\ bbm' = UNION {Owned(i)' : i \in ibm'}
            /\ Listing(0)' = {[name |-> DefDirs[i], ino |-> i] : i \in DOMAIN DefDirs}]_vars
  BY FormatEnds DEF FormatOp
<1> QED BY <1>1, SoundAlways, BitmapsAlways, FreshAlways, FormatOpAlways, PTL
        DEF Spec, FormatIsFresh

=============================================================================
