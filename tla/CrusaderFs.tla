----------------------------- MODULE CrusaderFs -----------------------------
(***************************************************************************)
(* The file system of fs.c, as the shell commands of commands.c and the    *)
(* notes of klog.c drive it on the drive that is mounted at boot.          *)
(*                                                                         *)
(* One step is one sector write together with the memory it updates (or a  *)
(* pure memory step), so that a power cut can fall between any two writes. *)
(* pc is the place inside the running command, job its call frame.         *)
(*                                                                         *)
(* A sector of the data area is Slots cells.  A cell is a directory entry  *)
(* (w = inode number, t = name), a block pointer (w = block number), a     *)
(* piece of file text (w = TextWord, t = <<text, position>>) or zero.  The *)
(* same sector is read as entries, pointers or text by whoever reaches it. *)
(***************************************************************************)
EXTENDS Integers, FiniteSets, Sequences, FiniteSetsExt

CONSTANTS
  DataBlocks,   \* block numbers data_start .. total_blocks - 1
  NInodes,      \* g_superblock.inode_count
  NDirect,      \* INODE_DIRECT
  Slots,        \* cells of a sector
  PerSector,    \* INODES_PER_BLOCK
  QuickSectors, \* sectors of the inode table that qformat_fs clears (64)
  Names,        \* the names commands can give
  DefDirs,      \* the names create_defdirs makes, in order
  NotesName,    \* "notes.cos"
  NotesLen,     \* sizeof(note_list), in cells
  Texts,        \* contents given to wr and to notes
  Lens,         \* lengths of the text of a wr command, in cells
  TextWord,     \* the word that any four characters of text make
  None,         \* no name
  MaxCmds,      \* bound: commands given
  MaxCuts       \* bound: power cuts and reboots

Inodes == 0 .. NInodes - 1
Direct == 0 .. NDirect - 1
Cells  == 0 .. Slots - 1
Ptr    == DataBlocks \cup {0}

ASSUME SizeAssumption ==
  /\ NInodes \in Nat \ {0} /\ NDirect \in Nat \ {0} /\ Slots \in Nat \ {0}
  /\ PerSector \in Nat \ {0} /\ QuickSectors \in Nat \ {0}
  /\ NotesLen \in Nat \ {0} /\ Lens \subseteq Nat \ {0} /\ Lens # {}
  /\ MaxCmds \in Nat /\ MaxCuts \in Nat
ASSUME BlocksAssumption ==
  /\ DataBlocks \subseteq Nat \ {0}
  /\ IsFiniteSet(DataBlocks)
\* Text is printable: four characters read as a number exceed every inode and
\* every block number of the disk (0x20202020 and up).
ASSUME TextAssumption ==
  /\ Texts # {}
  /\ TextWord \in Nat
  /\ TextWord >= NInodes
  /\ TextWord \notin DataBlocks
\* A piece of text is not taken for a name: only a cell dir_add wrote is an entry.
ASSUME NamesAssumption ==
  /\ NotesName \in Names
  /\ DefDirs \in Seq(Names) /\ DefDirs # << >>
  /\ None \notin Names \cup Texts
  /\ \A n \in Names : n \notin Texts \X Nat

VARIABLES
  sb,    \* disk: the superblock is whole
  dbbm,  \* disk: data blocks marked used in the block bitmap
  dibm,  \* disk: inodes marked used in the inode bitmap
  itab,  \* disk: the inode table
  blk,   \* disk: the data blocks
  up,    \* memory: g_superblock holds a file system
  bbm,   \* memory: block_bitmap, data blocks only
  ibm,   \* memory: inode_bitmap
  cwd,   \* memory: g_current_dir
  pc,    \* where the running command is
  job,   \* its arguments and locals
  saved, \* ghost: the writes that ended in "write successful" and still stand
  cut,   \* ghost: the power failed inside a command
  cmds, cuts \* bounds

disk  == <<sb, dbbm, dibm, itab, blk>>
mem   == <<up, bbm, ibm, cwd>>
ghost == <<saved, cut, cmds, cuts>>
vars  == <<disk, mem, pc, job, ghost>>

-----------------------------------------------------------------------------
(* inode_t, sectors and the call frame                                     *)

Inode == [size : Nat, direct : [Direct -> Ptr], single : Ptr, type : 0 .. 2]

NoInode == [size |-> 0, direct |-> [i \in Direct |-> 0], single |-> 0, type |-> 0]

\* Mutant: the size is written with the new inode, before the text.
FreshInodeMutant(type, b) ==
  [NoInode EXCEPT !.type = type, !.size = job.len,
                  !.direct = [i \in Direct |-> IF i = 0 THEN b ELSE 0]]

\* The inode of a file or directory just created: one block, no size.
FreshInode(type, b) ==
  [NoInode EXCEPT !.type = type, !.direct = [i \in Direct |-> IF i = 0 THEN b ELSE 0]]

Tokens == Texts \X Nat
Cell   == [w : Nat, t : Names \cup Tokens \cup {None}]

Zero      == [w |-> 0, t |-> None]
ZeroBlock == [s \in Cells |-> Zero]

FileOps == {"wr", "note"}
Formats == {"format", "qformat"}
Ops     == FileOps \cup Formats \cup {"none", "boot", "mf", "dl"}

NoJob == [op |-> "none", name |-> None, text |-> None, len |-> 0, off |-> 0,
          idx |-> 0, node |-> NoInode, home |-> 0, dir |-> NoInode,
          ptr |-> 0, k |-> 0, seen |-> FALSE]

Job == [op : Ops, name : Names \cup {None}, text : Texts \cup {None}, len : Nat,
        off : Nat, idx : Inodes, node : Inode, home : Inodes, dir : Inode,
        ptr : Ptr, k : Nat, seen : BOOLEAN]

Places == {"boot", "idle", "wild",
           "new_block", "new_inode", "dir_add", "dir_grow", "dir_put",
           "fw", "fw_zero", "fw_inode", "fw_ptr", "fw_size",
           "dl_direct", "dl_single", "dl_inode", "dl_entry",
           "f_bbm", "f_ibm", "q_ibm", "q_itab", "q_sb",
           "r_ibm", "r_block", "r_inode", "r_zero", "defdirs"}

Save == [ino : Inodes, home : Inodes, name : Names, text : Texts, len : Nat, seen : BOOLEAN]

DiskType ==
  /\ sb \in BOOLEAN
  /\ dbbm \in SUBSET DataBlocks
  /\ dibm \in SUBSET Inodes
  /\ itab \in [Inodes -> Inode]
  /\ blk \in [DataBlocks -> [Cells -> Cell]]

MemType ==
  /\ up \in BOOLEAN
  /\ bbm \in SUBSET DataBlocks
  /\ ibm \in SUBSET Inodes
  /\ cwd \in Inodes

GhostType ==
  /\ saved \subseteq Save
  /\ cut \in BOOLEAN /\ cmds \in Nat /\ cuts \in Nat

\* Every variable, on disk and in memory, stays in its set, whatever is on the
\* disk: above all, every pointer of an inode is 0 or a block of the data area,
\* and every inode number the shell follows is one of the table.
TypeOK == DiskType /\ MemType /\ GhostType /\ pc \in Places /\ job \in Job

Init ==
  /\ sb = FALSE /\ dbbm = {} /\ dibm = {}
  /\ itab = [i \in Inodes |-> NoInode]
  /\ blk = [b \in DataBlocks |-> ZeroBlock]
  /\ up = FALSE /\ bbm = {} /\ ibm = {} /\ cwd = 0
  /\ pc = "boot" /\ job = NoJob
  /\ saved = {} /\ cut = FALSE /\ cmds = 0 /\ cuts = 0

-----------------------------------------------------------------------------
(* Bitmaps: every change of memory is saved to disk by the same call.      *)

save_block_bitmap(S) == bbm' = S /\ dbbm' = S
save_inode_bitmap(S) == ibm' = S /\ dibm' = S

\* Mutant: the scan stops one block early.
NewBlockMutant ==
  LET seen == DataBlocks \ {Max(DataBlocks)}
  IN IF seen \subseteq bbm THEN 0 ELSE Min(seen \ bbm)

\* The block alloc_block() would return: the first free one, 0 when none is.
NewBlock == IF DataBlocks \subseteq bbm THEN 0 ELSE Min(DataBlocks \ bbm)

\* Mutant: the bit is set in memory and not saved.
AllocUnsavedMutant ==
  IF NewBlock = 0 THEN UNCHANGED <<bbm, dbbm>>
                  ELSE bbm' = bbm \cup {NewBlock} /\ UNCHANGED dbbm

\* alloc_block() saves the bitmap only when it found a block.
alloc_block ==
  IF NewBlock = 0 THEN UNCHANGED <<bbm, dbbm>>
                  ELSE save_block_bitmap(bbm \cup {NewBlock})

\* Mutant: the bit is cleared in memory and not saved.
FreeUnsavedMutant(b) == bbm' = bbm \ {b} /\ UNCHANGED dbbm

free_block(b) == save_block_bitmap(bbm \ {b})

\* Mutant: the scan runs one inode too far.
FreeInodesMutant == (0 .. NInodes) \ ibm

FreeInodes == Inodes \ ibm

free_inode(i) == save_inode_bitmap(ibm \ {i})

-----------------------------------------------------------------------------
(* Directories                                                             *)

\* Entries of a directory a lookup visits: it stops at the first direct[b] = 0.
LookupHits(d, n) ==
  {h \in Direct \X Cells :
     /\ \A a \in 0 .. h[1] : d.direct[a] # 0
     /\ LET e == blk[d.direct[h[1]]][h[2]] IN e.w # 0 /\ e.w < NInodes /\ e.t = n}

\* Mutant: any entry will do.
RemoveAnyMutant(d, n) ==
  {h \in Direct \X Cells : d.direct[h[1]] # 0 /\ blk[d.direct[h[1]]][h[2]].w # 0}

\* Entries that dir_remove would clear: it skips direct[b] = 0.
RemoveHits(d, n) ==
  {h \in Direct \X Cells :
     /\ d.direct[h[1]] # 0
     /\ LET e == blk[d.direct[h[1]]][h[2]] IN e.w # 0 /\ e.t = n}

First(hits) ==
  CHOOSE h \in hits : \A g \in hits : h[1] < g[1] \/ (h[1] = g[1] /\ h[2] <= g[2])

\* dir_lookup: the inode of the first entry named n, or -1.
dir_lookup(d, n) ==
  LET hits == LookupHits(d, n) IN
    IF d.type # 2 \/ hits = {} THEN -1
    ELSE LET h == First(hits) IN blk[d.direct[h[1]]][h[2]].w

FreeCells(b) == {s \in Cells : blk[b][s].w = 0}

\* The direct blocks at which dir_add stops: missing, or with a free entry.
AddStops(d) == {b \in Direct : d.direct[b] = 0 \/ FreeCells(d.direct[b]) # {}}

\* dir_add would have to give the directory another block.
Grows(d) == AddStops(d) # {} /\ d.direct[Min(AddStops(d))] = 0

-----------------------------------------------------------------------------
(* Control                                                                 *)

Goto(p, j) == pc' = p /\ job' = j

\* The command is over; its locals are gone.
Finish == Goto("idle", NoJob)

\* A command starts at the prompt of a mounted disk.  On an unmounted one
\* inode_count and total_blocks are 0 and every command is without effect.
Prompt == pc = "idle" /\ up /\ cmds < MaxCmds

Counted == cmds' = cmds + 1 /\ UNCHANGED <<cut, cuts>>

Forget(i) == saved' = {r \in saved : r.ino # i}

-----------------------------------------------------------------------------
(* fs_create_file and fs_create_dir                                        *)

\* alloc_inode() of both; without a free inode the command fails at once.
BeginCreate(op, n, c, l) ==
  /\ FreeInodes # {}
  /\ save_inode_bitmap(ibm \cup {Min(FreeInodes)})
  /\ Goto("new_block", [NoJob EXCEPT !.op = op, !.name = n, !.text = c, !.len = l,
                                     !.idx = Min(FreeInodes), !.home = cwd])

Wr(n, c, l) ==
  /\ Prompt /\ BeginCreate("wr", n, c, l) /\ Counted
  /\ UNCHANGED <<sb, dbbm, itab, blk, up, bbm, cwd, saved>>

Mf(n) ==
  /\ Prompt /\ BeginCreate("mf", n, None, 0) /\ Counted
  /\ UNCHANGED <<sb, dbbm, itab, blk, up, bbm, cwd, saved>>

\* new_note -> save_notes_to_disk: looked up in the root, created in g_current_dir.
NoteNew(c) ==
  /\ Prompt /\ dir_lookup(itab[0], NotesName) = -1
  /\ BeginCreate("note", NotesName, c, NotesLen) /\ Counted
  /\ UNCHANGED <<sb, dbbm, itab, blk, up, bbm, cwd, saved>>

NoteAgain(c) ==
  LET i == dir_lookup(itab[0], NotesName) IN
  /\ Prompt /\ i # -1
  /\ Goto("fw", [NoJob EXCEPT !.op = "note", !.name = NotesName, !.text = c,
                              !.len = NotesLen, !.idx = i, !.node = itab[i],
                              !.seen = TRUE])
  /\ Forget(i) /\ Counted
  /\ UNCHANGED <<disk, mem>>

\* What the caller does when the new inode is in place, whatever dir_add said.
AfterAdd(ok) ==
  \/ /\ job.op \in FileOps
     /\ Goto("fw", [job EXCEPT !.k = 0, !.node = itab[job.idx], !.seen = ok,
                               !.off = IF job.op = "wr" THEN itab[job.idx].size ELSE 0])
  \/ job.op \in Formats /\ Goto("defdirs", [job EXCEPT !.k = job.k + 1])
  \/ job.op = "mf" /\ Finish

\* alloc_block() for the first block; on a full disk the inode is given back.
NewBlockStep ==
  /\ pc = "new_block"
  /\ IF NewBlock = 0
       THEN /\ free_inode(job.idx)
            /\ IF job.op \in Formats
                 THEN Goto("defdirs", [job EXCEPT !.k = job.k + 1])
                 ELSE Finish
            /\ UNCHANGED <<bbm, dbbm>>
       ELSE /\ alloc_block
            /\ Goto("new_inode",
                    [job EXCEPT !.node = FreshInode(IF job.op \in FileOps THEN 1 ELSE 2,
                                                    NewBlock)])
            /\ UNCHANGED <<ibm, dibm>>
  /\ UNCHANGED <<sb, itab, blk, up, cwd, ghost>>

\* write_inode of the new inode, then read_inode of the directory.  The block
\* of a new directory is not cleared.
NewInodeStep ==
  /\ pc = "new_inode"
  /\ itab' = [itab EXCEPT ![job.idx] = job.node]
  /\ Goto("dir_add", [job EXCEPT !.dir = itab'[job.home]])
  /\ UNCHANGED <<sb, dbbm, dibm, blk, mem, ghost>>

\* fs_create_file passes 0 as dir_inode_id, fs_create_dir the parent.
DirInodeId == IF job.op \in FileOps THEN 0 ELSE job.home

Entry(n, i) == [w |-> i, t |-> n]

\* dir_add: take the first free entry, or give the directory a block, or fail.
DirAdd ==
  /\ pc = "dir_add"
  /\ IF AddStops(job.dir) = {} THEN AfterAdd(FALSE) /\ UNCHANGED <<blk, bbm, dbbm>>
     ELSE LET a == Min(AddStops(job.dir))
              b == job.dir.direct[a]
          IN IF b # 0
               THEN /\ blk' = [blk EXCEPT ![b][Min(FreeCells(b))] = Entry(job.name, job.idx)]
                    /\ AfterAdd(TRUE)
                    /\ UNCHANGED <<bbm, dbbm>>
               ELSE /\ alloc_block
                    /\ IF NewBlock = 0 THEN AfterAdd(FALSE)
                       ELSE Goto("dir_grow", [job EXCEPT !.dir.direct[a] = NewBlock,
                                                         !.ptr = NewBlock])
                    /\ UNCHANGED blk
  /\ UNCHANGED <<sb, dibm, itab, up, ibm, cwd, ghost>>

DirGrow ==
  /\ pc = "dir_grow"
  /\ itab' = [itab EXCEPT ![DirInodeId] = job.dir]
  /\ Goto("dir_put", job)
  /\ UNCHANGED <<sb, dbbm, dibm, blk, mem, ghost>>

DirPut ==
  /\ pc = "dir_put"
  /\ blk' = [blk EXCEPT ![job.ptr] = [ZeroBlock EXCEPT ![0] = Entry(job.name, job.idx)]]
  /\ AfterAdd(TRUE)
  /\ UNCHANGED <<sb, dbbm, dibm, itab, mem, ghost>>

-----------------------------------------------------------------------------
(* fs_write with get_physical_block(.., 1).  Files reach the single         *)
(* indirect block; job.k is `written`.                                     *)

Pos == job.off + job.k     \* current_global_offset
LB  == Pos \div Slots      \* block_index
PI  == LB - NDirect        \* its index in the single indirect block

InDirect == LB < NDirect
InSingle == LB >= NDirect /\ PI < Slots

Writing == pc = "fw" /\ job.k < job.len

\* The pointer to the block at LB, 0 when there is none yet.
Phys == IF InDirect THEN job.node.direct[LB] ELSE blk[job.node.single][PI].w

FwAllocDirect ==
  /\ Writing /\ InDirect /\ job.node.direct[LB] = 0
  /\ alloc_block
  /\ Goto("fw_inode", [job EXCEPT !.node.direct[LB] = NewBlock])
  /\ UNCHANGED <<sb, dibm, itab, blk, up, ibm, cwd, ghost>>

FwAllocSingle ==
  /\ Writing /\ InSingle /\ job.node.single = 0
  /\ alloc_block
  /\ Goto("fw_zero", [job EXCEPT !.node.single = NewBlock])
  /\ UNCHANGED <<sb, dibm, itab, blk, up, ibm, cwd, ghost>>

\* Mutant: a new pointer block is not cleared.
FwZeroMutant ==
  /\ pc = "fw_zero"
  /\ IF job.node.single = 0 THEN sb' = FALSE ELSE UNCHANGED sb
  /\ Goto("fw_inode", job)
  /\ UNCHANGED <<blk, dbbm, dibm, itab, mem, ghost>>

\* zero_block(node->single_indirect): block 0, the superblock, on a full disk.
FwZero ==
  /\ pc = "fw_zero"
  /\ IF job.node.single = 0
       THEN sb' = FALSE /\ UNCHANGED blk
       ELSE blk' = [blk EXCEPT ![job.node.single] = ZeroBlock] /\ UNCHANGED sb
  /\ Goto("fw_inode", job)
  /\ UNCHANGED <<dbbm, dibm, itab, mem, ghost>>

\* write_inode of the new pointer; fs_write gives up when it is 0.
FwInode ==
  /\ pc = "fw_inode"
  /\ itab' = [itab EXCEPT ![job.idx] = job.node]
  /\ IF (IF InDirect THEN job.node.direct[LB] ELSE job.node.single) = 0
       THEN Finish ELSE Goto("fw", job)
  /\ UNCHANGED <<sb, dbbm, dibm, blk, mem, ghost>>

FwAllocPtr ==
  /\ Writing /\ InSingle /\ job.node.single # 0 /\ Phys = 0
  /\ alloc_block
  /\ Goto("fw_ptr", [job EXCEPT !.ptr = NewBlock])
  /\ UNCHANGED <<sb, dibm, itab, blk, up, ibm, cwd, ghost>>

Pointer(b) == [w |-> b, t |-> None]

FwPtr ==
  /\ pc = "fw_ptr"
  /\ blk' = [blk EXCEPT ![job.node.single][PI] = Pointer(job.ptr)]
  /\ IF job.ptr = 0 THEN Finish ELSE Goto("fw", job)
  /\ UNCHANGED <<sb, dbbm, dibm, itab, mem, ghost>>

\* The rest of the sector keeps what block_read found in it.
Overlay(old, o, n) ==
  [s \in Cells |-> IF o <= s /\ s < o + n
                     THEN [w |-> TextWord, t |-> <<job.text, job.k + s - o>>]
                     ELSE old[s]]

Mapped == (InDirect \/ (InSingle /\ job.node.single # 0)) /\ Phys # 0

\* Mutant: `written` is not advanced.
FwDataMutant ==
  LET o == Pos % Slots
      n == Min({Slots - o, job.len - job.k})
  IN
  /\ Writing /\ Mapped /\ Phys \in DataBlocks
  /\ blk' = [blk EXCEPT ![Phys] = Overlay(@, o, n)]
  /\ Goto("fw", job)
  /\ UNCHANGED <<sb, dbbm, dibm, itab, mem, ghost>>

FwData ==
  LET o == Pos % Slots
      n == Min({Slots - o, job.len - job.k})
  IN
  /\ Writing /\ Mapped /\ Phys \in DataBlocks
  /\ blk' = [blk EXCEPT ![Phys] = Overlay(@, o, n)]
  /\ Goto("fw", [job EXCEPT !.k = job.k + n])
  /\ UNCHANGED <<sb, dbbm, dibm, itab, mem, ghost>>

\* A pointer that leaves the data area, or a file beyond the single indirect
\* block: what follows is not modelled.
FwWild ==
  /\ Writing
  /\ \/ Mapped /\ Phys \notin DataBlocks
     \/ ~InDirect /\ ~InSingle
  /\ Goto("wild", NoJob)
  /\ UNCHANGED <<disk, mem, ghost>>

\* Mutant: the comparison with the old size is turned round.
FwSizeMutant ==
  /\ pc = "fw" /\ job.k = job.len
  /\ IF Pos < job.node.size
       THEN itab' = [itab EXCEPT ![job.idx] = [job.node EXCEPT !.size = Pos]]
       ELSE UNCHANGED itab
  /\ saved' = saved \cup
       {[ino |-> job.idx, home |-> job.home, name |-> job.name,
         text |-> job.text, len |-> job.len, seen |-> job.seen]}
  /\ Finish
  /\ UNCHANGED <<sb, dbbm, dibm, blk, mem, cut, cmds, cuts>>

\* The size is written last, and only when the file has grown.
FwSize ==
  /\ pc = "fw" /\ job.k = job.len
  /\ IF Pos > job.node.size
       THEN itab' = [itab EXCEPT ![job.idx] = [job.node EXCEPT !.size = Pos]]
       ELSE UNCHANGED itab
  /\ saved' = saved \cup
       {[ino |-> job.idx, home |-> job.home, name |-> job.name,
         text |-> job.text, len |-> job.len, seen |-> job.seen]}
  /\ Finish
  /\ UNCHANGED <<sb, dbbm, dibm, blk, mem, cut, cmds, cuts>>

-----------------------------------------------------------------------------
(* fs_delete_file: always in the root, whatever the type of the inode      *)

Dl(n) ==
  LET i == dir_lookup(itab[0], n) IN
  /\ Prompt /\ i # -1
  /\ Goto("dl_direct", [NoJob EXCEPT !.op = "dl", !.name = n, !.idx = i,
                                     !.node = itab[i], !.dir = itab[0]])
  /\ Forget(i) /\ Counted
  /\ UNCHANGED <<disk, mem>>

LiveDirect == {i \in Direct : job.node.direct[i] # 0}

DlDirect ==
  /\ pc = "dl_direct"
  /\ IF LiveDirect = {}
       THEN /\ Goto(IF job.node.single = 0 THEN "dl_inode" ELSE "dl_single", job)
            /\ UNCHANGED <<bbm, dbbm>>
       ELSE /\ free_block(job.node.direct[Min(LiveDirect)])
            /\ Goto("dl_direct", [job EXCEPT !.node.direct[Min(LiveDirect)] = 0])
  /\ UNCHANGED <<sb, dibm, itab, blk, up, ibm, cwd, ghost>>

\* Mutant: the pointer block itself is not freed.
DlSingleMutant ==
  LET left == {s \in Cells : s >= job.k /\ blk[job.node.single][s].w # 0} IN
  /\ pc = "dl_single"
  /\ IF left # {}
       THEN /\ free_block(blk[job.node.single][Min(left)].w)
            /\ Goto("dl_single", [job EXCEPT !.k = Min(left) + 1])
       ELSE /\ UNCHANGED <<bbm, dbbm>>
            /\ Goto("dl_inode", [job EXCEPT !.node.single = 0])
  /\ UNCHANGED <<sb, dibm, itab, blk, up, ibm, cwd, ghost>>

\* free_indirect_tree(single, 1): the pointers in order, then the block itself.
DlSingle ==
  LET left == {s \in Cells : s >= job.k /\ blk[job.node.single][s].w # 0} IN
  /\ pc = "dl_single"
  /\ IF left # {}
       THEN /\ free_block(blk[job.node.single][Min(left)].w)
            /\ Goto("dl_single", [job EXCEPT !.k = Min(left) + 1])
       ELSE /\ free_block(job.node.single)
            /\ Goto("dl_inode", [job EXCEPT !.node.single = 0])
  /\ UNCHANGED <<sb, dibm, itab, blk, up, ibm, cwd, ghost>>

DlInode ==
  /\ pc = "dl_inode"
  /\ free_inode(job.idx)
  /\ Goto("dl_entry", job)
  /\ UNCHANGED <<sb, dbbm, itab, blk, up, bbm, cwd, ghost>>

\* Mutant: dir_remove is forgotten.
DlEntryMutant ==
  /\ pc = "dl_entry"
  /\ Finish
  /\ UNCHANGED <<disk, mem, ghost>>

DlEntry ==
  LET hits == RemoveHits(job.dir, job.name) IN
  /\ pc = "dl_entry"
  /\ IF hits = {} THEN UNCHANGED blk
     ELSE blk' = [blk EXCEPT ![job.dir.direct[First(hits)[1]]][First(hits)[2]] = Zero]
  /\ Finish
  /\ UNCHANGED <<sb, dbbm, dibm, itab, mem, ghost>>

-----------------------------------------------------------------------------
(* format_fs, qformat_fs, create_root, create_defdirs, init_fs             *)

\* format_fs writes the superblock first and clears both bitmaps in memory.
Format ==
  /\ pc = "idle" /\ cmds < MaxCmds
  /\ sb' = TRUE /\ up' = TRUE /\ bbm' = {} /\ ibm' = {} /\ cwd' = 0
  /\ Goto("f_bbm", [NoJob EXCEPT !.op = "format"])
  /\ saved' = {} /\ Counted
  /\ UNCHANGED <<dbbm, dibm, itab, blk>>

\* qformat_fs clears the bitmaps and the start of the inode table on disk,
\* writes the superblock, and only then clears the bitmaps in memory.
Qformat ==
  /\ pc = "idle" /\ cmds < MaxCmds
  /\ dbbm' = {} /\ up' = TRUE /\ cwd' = 0
  /\ Goto("q_ibm", [NoJob EXCEPT !.op = "qformat"])
  /\ saved' = {} /\ Counted
  /\ UNCHANGED <<sb, dibm, itab, blk, bbm, ibm>>

QIbm ==
  /\ pc = "q_ibm"
  /\ dibm' = {}
  /\ Goto("q_itab", job)
  /\ UNCHANGED <<sb, dbbm, itab, blk, mem, ghost>>

TableSectors == (NInodes + PerSector - 1) \div PerSector

QItab ==
  /\ pc = "q_itab"
  /\ itab' = [i \in Inodes |-> IF i \div PerSector = job.k THEN NoInode ELSE itab[i]]
  /\ IF job.k + 1 = Min({QuickSectors, TableSectors})
       THEN Goto("q_sb", [job EXCEPT !.k = 0])
       ELSE Goto("q_itab", [job EXCEPT !.k = job.k + 1])
  /\ UNCHANGED <<sb, dbbm, dibm, blk, mem, ghost>>

\* Mutant: inode_bitmap is not cleared in memory.
QSbMutant ==
  /\ pc = "q_sb"
  /\ sb' = TRUE /\ bbm' = {}
  /\ Goto("f_bbm", job)
  /\ UNCHANGED <<ibm, dbbm, dibm, itab, blk, up, cwd, ghost>>

QSb ==
  /\ pc = "q_sb"
  /\ sb' = TRUE /\ bbm' = {} /\ ibm' = {}
  /\ Goto("f_bbm", job)
  /\ UNCHANGED <<dbbm, dibm, itab, blk, up, cwd, ghost>>

\* save_block_bitmap(); only format_fs also saves the inode bitmap here.
FBbm ==
  /\ pc = "f_bbm"
  /\ dbbm' = bbm
  /\ Goto(IF job.op = "format" THEN "f_ibm" ELSE "r_ibm", job)
  /\ UNCHANGED <<sb, dibm, itab, blk, mem, ghost>>

FIbm ==
  /\ pc = "f_ibm"
  /\ dibm' = ibm
  /\ Goto("r_ibm", job)
  /\ UNCHANGED <<sb, dbbm, itab, blk, mem, ghost>>

\* What follows create_root(): create_defdirs() in a format, nothing at boot.
AfterRoot == IF job.op \in Formats THEN Goto("defdirs", [job EXCEPT !.k = 0]) ELSE Finish

RIbm ==
  /\ pc = "r_ibm"
  /\ save_inode_bitmap(ibm \cup {0})
  /\ Goto("r_block", job)
  /\ UNCHANGED <<sb, dbbm, itab, blk, up, bbm, cwd, ghost>>

RBlock ==
  /\ pc = "r_block"
  /\ alloc_block
  /\ IF NewBlock = 0 THEN AfterRoot
     ELSE Goto("r_inode", [job EXCEPT !.node = FreshInode(2, NewBlock)])
  /\ UNCHANGED <<sb, dibm, itab, blk, up, ibm, cwd, ghost>>

RInode ==
  /\ pc = "r_inode"
  /\ itab' = [itab EXCEPT ![0] = job.node]
  /\ Goto("r_zero", job)
  /\ UNCHANGED <<sb, dbbm, dibm, blk, mem, ghost>>

RZero ==
  /\ pc = "r_zero"
  /\ blk' = [blk EXCEPT ![job.node.direct[0]] = ZeroBlock]
  /\ AfterRoot
  /\ UNCHANGED <<sb, dbbm, dibm, itab, mem, ghost>>

\* fs_create_dir(DefDirs[k + 1], 0); without a free inode the next name is tried.
DefDir ==
  /\ pc = "defdirs" /\ job.k < Len(DefDirs)
  /\ IF FreeInodes = {}
       THEN Goto("defdirs", [job EXCEPT !.k = job.k + 1]) /\ UNCHANGED <<ibm, dibm>>
       ELSE /\ save_inode_bitmap(ibm \cup {Min(FreeInodes)})
            /\ Goto("new_block", [job EXCEPT !.name = DefDirs[job.k + 1], !.home = 0,
                                             !.idx = Min(FreeInodes)])
  /\ UNCHANGED <<sb, dbbm, itab, blk, up, bbm, cwd, ghost>>

\* init_fs() once the superblock has been read: the bitmaps come from disk, and
\* a root that is no directory is made anew.
init_fs ==
  /\ bbm' = dbbm /\ ibm' = dibm
  /\ IF itab[0].type # 2 THEN Goto("r_ibm", [NoJob EXCEPT !.op = "boot"]) ELSE Finish

\* fs_cd: the inode cd n would make current, or -1.
fs_cd(n) ==
  LET i == dir_lookup(itab[cwd], n)
  IN IF i = -1 THEN -1 ELSE IF itab[i].type # 2 THEN -1 ELSE i

\* create_defdirs ends with fs_cd("user"), a format with init_fs().
DefDone ==
  /\ pc = "defdirs" /\ job.k = Len(DefDirs)
  /\ cwd' = IF fs_cd(DefDirs[1]) = -1 THEN cwd ELSE fs_cd(DefDirs[1])
  /\ init_fs
  /\ UNCHANGED <<disk, up, ghost>>

\* kmain: without the magic number g_superblock stays zero.
Boot ==
  /\ pc = "boot"
  /\ up' = sb
  /\ IF sb THEN init_fs ELSE Finish /\ UNCHANGED <<bbm, ibm>>
  /\ UNCHANGED <<disk, cwd, ghost>>

Cd(n) ==
  /\ Prompt /\ fs_cd(n) # -1 /\ fs_cd(n) # cwd
  /\ cwd' = fs_cd(n)
  /\ Counted
  /\ UNCHANGED <<disk, up, bbm, ibm, pc, job, saved>>

CdUp ==
  /\ Prompt /\ cwd # 0
  /\ cwd' = 0
  /\ Counted
  /\ UNCHANGED <<disk, up, bbm, ibm, pc, job, saved>>

\* cmd_reboot, or the power fails: memory is lost, each sector is old or new.
PowerCut ==
  /\ pc # "boot" /\ cuts < MaxCuts
  /\ up' = FALSE /\ bbm' = {} /\ ibm' = {} /\ cwd' = 0
  /\ Goto("boot", NoJob)
  /\ cut' = (cut \/ pc # "idle") /\ cuts' = cuts + 1
  /\ UNCHANGED <<disk, saved, cmds>>

-----------------------------------------------------------------------------
(* The kernel's own steps, and what the user may do between them           *)

Kernel ==
  \/ NewBlockStep \/ NewInodeStep \/ DirAdd \/ DirGrow \/ DirPut
  \/ FwAllocDirect \/ FwAllocSingle \/ FwZero \/ FwInode \/ FwAllocPtr \/ FwPtr
  \/ FwData \/ FwWild \/ FwSize
  \/ DlDirect \/ DlSingle \/ DlInode \/ DlEntry
  \/ QIbm \/ QItab \/ QSb \/ FBbm \/ FIbm
  \/ RIbm \/ RBlock \/ RInode \/ RZero \/ DefDir \/ DefDone \/ Boot

Create ==
  \/ \E n \in Names, c \in Texts, l \in Lens : Wr(n, c, l)
  \/ \E c \in Texts : NoteNew(c)

Next ==
  \/ Kernel
  \/ Create
  \/ \E c \in Texts : NoteAgain(c)
  \/ \E n \in Names : Mf(n) \/ Dl(n) \/ Cd(n)
  \/ CdUp
  \/ Format \/ Qformat
  \/ PowerCut

Spec == Init /\ [][Next]_vars

-----------------------------------------------------------------------------
(* Careful use: the conditions under which the file system keeps its        *)
(* promises.  Each excludes one thing the code does not survive.           *)

\* dir_add will not enlarge a subdirectory through the root's inode number.
RoomHere == cwd = 0 \/ ~Grows(itab[cwd])

\* The name resolves to a file of the root.
FileInRoot(n) ==
  LET i == dir_lookup(itab[0], n) IN i # -1 /\ itab[i].type = 1

\* A disk of zeroes, as the Makefile makes it.
Blank ==
  /\ itab = [i \in Inodes |-> NoInode]
  /\ blk = [b \in DataBlocks |-> ZeroBlock]

CarefulNext ==
  \/ Kernel
  \/ RoomHere /\ Create
  \/ \E c \in Texts : FileInRoot(NotesName) /\ NoteAgain(c)
  \/ \E n \in Names : Mf(n) \/ (FileInRoot(n) /\ Dl(n)) \/ Cd(n)
  \/ CdUp
  \/ Blank /\ (Format \/ Qformat)
  \/ job.op # "dl" /\ PowerCut

\* As before, but files are created wherever the user stands.
CrowdedSpec == Init /\ [][CarefulNext \/ Create]_vars

CarefulSpec == Init /\ [][CarefulNext]_vars

\* The kernel runs the command it was given: its own steps are not put off.
LiveSpec == Spec /\ WF_vars(Kernel)

-----------------------------------------------------------------------------
(* What is on the disk                                                     *)

Pointers(i) == {itab[i].direct[d] : d \in Direct} \ {0}

\* The blocks that belong to inode i, through its inode and its pointer block.
Owned(i) ==
  Pointers(i) \cup
    (IF itab[i].single = 0 THEN {}
     ELSE {itab[i].single} \cup ({blk[itab[i].single][s].w : s \in Cells} \ {0}))

\* The inodes entered under some name, anywhere on the disk.
Entered ==
  {blk[c[1]][c[2]].w : c \in {d \in DataBlocks \X Cells : blk[d[1]][d[2]].t \in Names}}

\* The inodes in use: the root and whatever is entered, but not what a running
\* dl has begun to take apart.
InUse ==
  ((Entered \cap (Inodes \ {0})) \cup {i \in {0} : itab[0].type = 2})
    \ (IF job.op = "dl" THEN {job.idx} ELSE {})

\* The cell of the disk that holds position x of file i, Zero past its blocks.
FileCell(i, x) ==
  LET lb == x \div Slots
      p  == IF lb < NDirect THEN itab[i].direct[lb]
            ELSE IF itab[i].single = 0 THEN 0
            ELSE blk[itab[i].single][lb - NDirect].w
  IN IF p \in DataBlocks THEN blk[p][x % Slots] ELSE Zero

-----------------------------------------------------------------------------
(* Safety                                                                  *)

\* The bitmaps saved on disk are the ones in memory whenever the shell waits
\* for a command: a reboot then changes no allocation.  (save_block_bitmap and
\* save_inode_bitmap, called by every change, and load_* at boot.)
BitmapsSaved == pc = "idle" /\ up => bbm = dbbm /\ ibm = dibm

\* At every sector write, and so after a power cut at any of them, an inode in
\* use is marked used on disk and so is every block it owns: nothing that is
\* reachable can be allocated again after the next boot.
UsedIsMarked ==
  \A i \in InUse : i \in dibm /\ Owned(i) \subseteq dbbm /\ itab[i].type \in {1, 2}

\* No block belongs to two inodes in use, at every sector write.
NoSharedBlock ==
  LET used == InUse IN
  \A i, j \in used : i # j => Owned(i) \cap Owned(j) = {}

\* A file whose write ended in "write successful" keeps its length and every
\* piece of its text until it is deleted, overwritten or formatted away:
\* across other commands that allocate and free blocks, and power cuts.
FileIntact ==
  \A r \in saved :
    /\ r.ino \in dibm /\ itab[r.ino].type = 1 /\ itab[r.ino].size >= r.len
    /\ \A x \in 0 .. r.len - 1 :
         FileCell(r.ino, x) = [w |-> TextWord, t |-> <<r.text, x>>]

\* A file whose entry dir_add made stays entered in the directory it was made
\* in, under its name, and that directory still is one.
SavedIsEntered ==
  \A r \in saved : r.seen =>
    /\ itab[r.home].type = 2
    /\ \E d \in Direct, s \in Cells :
         LET b == itab[r.home].direct[d]
         IN b # 0 /\ blk[b][s] = Entry(r.name, r.ino)

\* While no power cut hit a command, every block marked used belongs to an
\* inode marked used: no command, not even one that fails half way on a full
\* disk, loses a block.
NoLostBlock ==
  pc = "idle" /\ up /\ ~cut => bbm = UNION {Owned(i) : i \in ibm}

\* Memory the kernel follows blindly stays inside the data area: no pointer
\* read from a pointer block is text or a directory entry.
NoWildWrite == pc # "wild"

\* The superblock, once written, survives every command.
SuperblockIntact == [][sb => sb']_vars

\* Only a full disk can cost the superblock.
SuperblockLostOnlyWhenFull == [][sb /\ ~sb' => DataBlocks \subseteq bbm]_vars

\* The entries of directory i, as ls would list them.
Listing(i) ==
  {[name |-> blk[itab[i].direct[h[1]]][h[2]].t, ino |-> blk[itab[i].direct[h[1]]][h[2]].w] :
     h \in {g \in Direct \X Cells :
              itab[i].direct[g[1]] # 0 /\ blk[itab[i].direct[g[1]]][g[2]].w # 0}}

\* Every entry ls shows in the current directory is an inode in use.
\* (cmd_ls prints whatever has a non-zero inode number.)
ListedIsUsed ==
  pc = "idle" /\ up /\ itab[cwd].type = 2 => \A e \in Listing(cwd) : e.ino \in ibm

\* A file reported written can be looked up at once in the directory the user
\* stands in, provided dir_add said it had made the entry.
SavedIsSeen ==
  [][\A r \in saved' \ saved : r.seen => dir_lookup(itab[r.home], r.name)' # -1]_vars

\* Whatever was on the disk, and wherever an earlier format was cut off, a
\* format that had room ends with the root and the default directories, each
\* marked used, and with no other block or inode taken.
FormatIsFresh ==
  [][ (pc = "defdirs" /\ pc' = "idle" /\ bbm # DataBlocks) =>
        /\ ibm' = 0 .. Len(DefDirs)
        /\ bbm' = UNION {Owned(i)' : i \in ibm'}
        /\ Listing(0)' = {[name |-> DefDirs[i], ino |-> i] : i \in DOMAIN DefDirs}
    ]_vars

-----------------------------------------------------------------------------
(* Liveness                                                                *)

\* A command that was begun ends at the prompt, unless the power fails; then
\* the machine boots to a prompt.  One that followed a wild pointer may end
\* anywhere: with care none does (NoWildWrite).
CommandsEnd == pc # "idle" ~> pc \in {"idle", "wild"}

-----------------------------------------------------------------------------
(* What a reader finds on the disk, and the store it amounts to             *)

EntryNames(i) ==
  {blk[h[1]][h[2]].t : h \in {g \in DataBlocks \X Cells : blk[g[1]][g[2]].w = i}} \cap Names

\* Inode i is a file with something to read: its size is the last thing written.
Readable(i) ==
  itab[i].size > 0 /\ itab[i].type = 1 /\ i \in dibm /\ EntryNames(i) # {}

\* The texts file i holds from its first cell to its last: none when it is torn.
WholeTexts(i) ==
  {c \in Texts : \A x \in 0 .. itab[i].size - 1 :
                    FileCell(i, x) = [w |-> TextWord, t |-> <<c, x>>]}

OnDisk(i) ==
  IF ~Readable(i) THEN None
  ELSE [name |-> CHOOSE n \in EntryNames(i) : TRUE,
        text |-> IF WholeTexts(i) = {} THEN None ELSE CHOOSE c \in WholeTexts(i) : TRUE,
        len  |-> itab[i].size]

\* The command as the user sees it: a dl has done its work when the inode is
\* free on disk, and a format or a boot touches no file.
Doing ==
  CASE job.op \in FileOps -> [op |-> "write", name |-> job.name, text |-> job.text]
    [] job.op = "dl" /\ pc # "dl_entry" -> [op |-> "delete", name |-> job.name, text |-> None]
    [] OTHER -> None

Store == INSTANCE FileStore WITH
           Ids <- Inodes, Lens <- Lens \cup {NotesLen}, InPlace <- {NotesName},
           store <- [i \in Inodes |-> OnDisk(i)], doing <- Doing

\* Neither a file nor a command is taken for none.
ASSUME NoneAssumption == None \notin Store!File /\ None \notin Store!Command

\* The sectors implement the store: a file appears on the disk whole, in the one
\* step that writes its size, and goes in the one that saves the inode bitmap;
\* no other step of any command, and no power cut, changes what a reader finds.
\* Only notes.cos, rewritten in place by every note, can be found torn.
ImplementsFileStore == Store!Spec

=============================================================================
