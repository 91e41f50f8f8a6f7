------------------------ MODULE CrusaderFsOwnership ------------------------
(***************************************************************************)
(* Who owns which block: with care, no block belongs to two inodes in use  *)
(* and whatever is in use is marked on disk, at every sector write, for    *)
(* every size of disk, every sequence of commands and every power cut; and *)
(* until a power cut hits a command, no block is marked that nobody owns.  *)
(***************************************************************************)
EXTENDS CrusaderFsProofs

-----------------------------------------------------------------------------
(* The invariant                                                           *)

\* The root has been made.
Rooted == itab[0].type = 2

\* The cells that enter inode i under a name, wherever they are.
Ents(i) ==
  {h \in DataBlocks \X Cells : blk[h[1]][h[2]].w = i /\ blk[h[1]][h[2]].t \in Names}

\* The files reported written, and the directories they were made in.
Kept(i) == \E r \in saved : i \in {r.ino, r.home}

\* Where a command works on an inode that is marked and may not be entered yet.
HoldPlaces == {"dir_add", "dir_grow", "dir_put", "fw", "fw_zero", "fw_inode", "fw_ptr"}

\* The inodes in use or about to be.
Held(i) ==
  \/ Rooted /\ i \in {0, cwd}
  \/ i # 0 /\ Ents(i) # {} /\ ~(job.op = "dl" /\ i = job.idx)
  \/ pc \in HoldPlaces /\ i = job.idx
  \/ Kept(i)

\* The pointer block of i is none of the blocks it points to.
PtrOK(i) ==
  itab[i].single # 0 =>
    /\ itab[i].single \notin Pointers(i)
    /\ \A s \in Cells : blk[itab[i].single][s].w # itab[i].single

\* What is in use is marked on disk, and is a file or a directory.
Good(i) ==
  /\ i \in dibm /\ Owned(i) \subseteq dbbm
  /\ itab[i].type \in {1, 2} /\ (itab[i].type = 2 => itab[i].single = 0)
  /\ PtrOK(i)

Marked == \A i \in Inodes : Held(i) => Good(i)
Apart  == \A i, j \in Inodes : Held(i) /\ Held(j) /\ i # j => Owned(i) \cap Owned(j) = {}
\* An inode is entered once, and no entry names an inode outside the table.
OneEntry == \A i \in Inodes \ {0} : \A g, h \in Ents(i) : g = h
Named == \A b \in DataBlocks, s \in Cells : blk[b][s].t \in Names => blk[b][s].w \in Inodes

\* Marked on disk, and nobody's yet.
Spare(b) == b \in dbbm /\ \A i \in Inodes : Held(i) => b \notin Owned(i)

\* The places before the root is written.
EarlyPlaces == {"q_ibm", "q_itab", "q_sb", "f_bbm", "f_ibm", "r_ibm", "r_block", "r_inode"}
Creates == FileOps \cup Formats \cup {"mf"}
Waiting == pc = "idle" /\ up

\* Until there is a root the disk is blank; then the current directory is one.
RootInv ==
  /\ ~Rooted => Blank /\ cwd = 0 /\ pc \in EarlyPlaces \cup {"boot", "idle", "defdirs", "new_block"}
  /\ (~Rooted \/ pc = "r_zero") => saved = {}
  /\ pc \in EarlyPlaces => ~Rooted
  /\ Rooted => itab[cwd].type = 2
  /\ ~Rooted /\ (pc \in {"defdirs", "new_block"} \/ Waiting) => DataBlocks \subseteq bbm
  /\ pc \in {"r_block", "r_inode", "defdirs", "new_block"} \/ Waiting => 0 \in dibm

\* The type fs_create_file or fs_create_dir gives.
Kind == IF job.op \in FileOps THEN 1 ELSE 2
RoomThere(d) == job.op \in FileOps => job.home = 0 \/ ~Grows(d)

\* What each place of the code knows of the command's arguments and locals.
MakingOK ==
  pc \in {"new_block", "new_inode"} =>
    /\ job.op \in Creates /\ job.idx \notin {0, cwd} /\ job.idx \in dibm
    /\ Ents(job.idx) = {} /\ ~Kept(job.idx)
    /\ job.home \in {0, cwd} /\ RoomThere(itab[job.home])
FreshOK ==
  pc = "new_inode" => \E b \in DataBlocks : Spare(b) /\ job.node = FreshInode(Kind, b)
AddingOK ==
  pc \in {"dir_add", "dir_grow", "dir_put"} =>
    /\ job.op \in Creates /\ job.idx \notin {0, cwd}
    /\ Ents(job.idx) = {} /\ job.home \in {0, cwd}
    /\ job.op \in FileOps => itab[job.idx].type = 1
AddOK == pc = "dir_add" => job.dir = itab[job.home] /\ RoomThere(job.dir)
GrowOK ==
  pc = "dir_grow" =>
    /\ DirInodeId = job.home /\ job.ptr # 0 /\ Spare(job.ptr)
    /\ \E a \in Direct : /\ itab[job.home].direct[a] = 0
                         /\ job.dir = [itab[job.home] EXCEPT !.direct[a] = job.ptr]
PutOK == pc = "dir_put" => job.ptr # 0 /\ job.ptr \in Pointers(job.home)
WriteOK ==
  pc \in {"fw", "fw_zero", "fw_inode", "fw_ptr"} =>
    job.op \in FileOps /\ itab[job.idx].type = 1 /\ job.home \in {0, cwd}
NodeOK == pc \in {"fw", "fw_ptr"} => job.node = itab[job.idx]
ZeroOK ==
  pc = "fw_zero" =>
    /\ itab[job.idx].single = 0 /\ (job.node.single = 0 \/ Spare(job.node.single))
    /\ job.node = [itab[job.idx] EXCEPT !.single = job.node.single]
InodeOK ==
  pc = "fw_inode" =>
    \E b \in Ptr :
      /\ b = 0 \/ Spare(b)
      /\ \/ \E d \in Direct : /\ itab[job.idx].direct[d] = 0
                             /\ job.node = [itab[job.idx] EXCEPT !.direct[d] = b]
         \/ /\ itab[job.idx].single = 0 /\ job.node = [itab[job.idx] EXCEPT !.single = b]
            /\ b # 0 => blk[b] = ZeroBlock
PtrPlaceOK ==
  pc = "fw_ptr" =>
    /\ job.node.single # 0 /\ PI \in Cells /\ (job.ptr = 0 \/ Spare(job.ptr))
    /\ blk[job.node.single][PI].w = 0
DlOK ==
  pc \in {"dl_direct", "dl_single", "dl_inode", "dl_entry"} =>
    /\ Rooted /\ job.op = "dl" /\ job.name \in Names
    /\ job.idx # 0 /\ ~Kept(job.idx) /\ itab[job.idx].type = 1
    /\ job.dir = itab[0] /\ dir_lookup(itab[0], job.name) = job.idx
    /\ \A i \in Inodes : Held(i) => Owned(i) \cap Owned(job.idx) = {}
DlNodeOK ==
  /\ pc = "dl_direct" => \A d \in Direct : job.node.direct[d] \in Pointers(job.idx) \cup {0}
  /\ pc \in {"dl_direct", "dl_single"} => job.node.single = itab[job.idx].single
  /\ pc = "dl_single" => job.node.single # 0
OpOK ==
  /\ job.op = "dl" => pc \in {"dl_direct", "dl_single", "dl_inode", "dl_entry"}
  /\ pc = "defdirs" => job.op \in Formats
RootJobOK ==
  /\ pc = "r_inode" => \E b \in DataBlocks : b \in dbbm /\ job.node = FreshInode(2, b)
  /\ pc = "r_zero" => job.node = itab[0] /\ job.node.direct[0] # 0

Own == Marked /\ Apart /\ OneEntry /\ Named
JobInv ==
  /\ MakingOK /\ FreshOK /\ AddingOK /\ AddOK /\ GrowOK /\ PutOK
  /\ WriteOK /\ NodeOK /\ ZeroOK /\ InodeOK /\ PtrPlaceOK
  /\ DlOK /\ DlNodeOK /\ OpOK /\ RootJobOK

\* A saved file stays a file, its directory a directory, and no command is at work on it.
SavedInv ==
  \A r \in saved : /\ r.ino # 0 /\ r.ino # job.idx
                   /\ itab[r.ino].type = 1 /\ itab[r.home].type = 2

\* Directory h enters inode x as n, in a block that dir_add is not about to fill.
EntryOf(h, n, x) ==
  \E d \in Direct, s \in Cells :
    /\ itab[h].direct[d] # 0 /\ blk[itab[h].direct[d]][s] = Entry(n, x)
    /\ pc = "dir_put" => itab[h].direct[d] # job.ptr
WritePlaces == {"fw", "fw_zero", "fw_inode", "fw_ptr"}

\* What a careful step does to the files in use: only fs_write changes one, and
\* only the one it writes.
FilesStay ==
  \A i \in Inodes : Held(i)' =>
    \/ pc = "new_inode" /\ i = job.idx
    \/ pc = "r_inode" /\ saved' = {}
    \/ /\ Held(i) /\ itab'[i].type = itab[i].type
       /\ \/ itab[i].type = 2
          \/ pc \in WritePlaces /\ i = job.idx
          \/ itab'[i] = itab[i] /\ \A b \in Owned(i) : blk'[b] = blk[b]

\* An entry goes only when its file is deleted.
EntriesStay ==
  \A h \in Inodes, n \in Names, x \in Inodes \ {0} :
    /\ Held(h) /\ Held(h)' /\ itab[h].type = 2 /\ pc # "r_zero"
    /\ ~(pc = "dl_entry" /\ x = job.idx)
    /\ EntryOf(h, n, x)
    => EntryOf(h, n, x)'

Stays == FilesStay /\ EntriesStay

OwnInv == Own /\ RootInv /\ JobInv

-----------------------------------------------------------------------------
(* What is in use                                                          *)

\* What the parts of the state are.
LEMMA StateTypes ==
  ASSUME Sound
  PROVE  /\ \A i \in Inodes : /\ itab[i] \in Inode
                              /\ itab[i].direct \in [Direct -> Ptr]
                              /\ itab[i].single \in Ptr /\ itab[i].type \in 0 .. 2
         /\ \A b \in DataBlocks : blk[b] \in [Cells -> Cell]
         /\ \A b \in DataBlocks, s \in Cells : blk[b][s] \in Cell /\ blk[b][s].w \in Nat
         /\ itab \in [Inodes -> Inode]
         /\ blk \in [DataBlocks -> [Cells -> Cell]]
         /\ bbm \subseteq DataBlocks /\ dbbm \subseteq DataBlocks
         /\ ibm \subseteq Inodes /\ dibm \subseteq Inodes /\ cwd \in Inodes
<1>1. /\ itab \in [Inodes -> Inode] /\ blk \in [DataBlocks -> [Cells -> Cell]]
      /\ bbm \subseteq DataBlocks /\ dbbm \subseteq DataBlocks
      /\ ibm \subseteq Inodes /\ dibm \subseteq Inodes /\ cwd \in Inodes
  BY DEF Sound, TypeOK, DiskType, MemType
<1>2. \A i \in Inodes : itab[i] \in Inode
  BY <1>1
<1>3. \A n \in Inode : n.direct \in [Direct -> Ptr] /\ n.single \in Ptr /\ n.type \in 0 .. 2
  BY DEF Inode
<1>4. \A b \in DataBlocks, s \in Cells : blk[b][s] \in Cell
  BY <1>1
<1>5. \A e \in Cell : e.w \in Nat
  BY DEF Cell
<1> QED BY <1>1, <1>2, <1>3, <1>4, <1>5

\* Block 0 belongs to nobody, and what is owned by an inode in use is a block.
LEMMA OwnedIsNotZero ==
  ASSUME NEW i
  PROVE  0 \notin Owned(i) /\ 0 \notin Pointers(i)
<1>1. 0 \notin Pointers(i)
  BY DEF Pointers
<1> QED BY <1>1 DEF Owned

\* What an inode owns does not change when neither it nor its pointer block does.
LEMMA OwnedSame ==
  ASSUME Sound, NEW i \in Inodes, NEW c,
         \A d \in DataBlocks \ {c} : blk'[d] = blk[d],
         itab'[i].direct = itab[i].direct, itab'[i].single = itab[i].single,
         itab[i].single # c \/ itab[i].single = 0
  PROVE  /\ Owned(i)' = Owned(i) /\ Pointers(i)' = Pointers(i)
         /\ PtrOK(i) => PtrOK(i)'
<1>1. Pointers(i)' = Pointers(i)
  BY DEF Pointers
<1>2. CASE itab[i].single = 0
  BY <1>1, <1>2 DEF Owned, PtrOK
<1>3. CASE itab[i].single # 0
  <2>1. itab[i].single \in DataBlocks
    BY <1>3, StateTypes DEF Ptr
  <2>2. blk'[itab[i].single] = blk[itab[i].single]
    BY <1>3, <2>1
  <2> QED BY <1>1, <1>3, <2>2 DEF Owned, PtrOK
<1> QED BY <1>2, <1>3

\* One inode may gain blocks, one block may change that no other inode owns.
LEMMA GainOwned ==
  ASSUME Sound, Marked, Apart, NEW x \in Inodes, NEW c,
         \A d \in DataBlocks \ {c} : blk'[d] = blk[d],
         \A i \in Inodes \ {x} : Held(i)' =>
            /\ Held(i)
            /\ itab'[i].direct = itab[i].direct /\ itab'[i].single = itab[i].single
            /\ itab'[i].type = itab[i].type
            /\ c \notin Owned(i)
            /\ i \in dibm' /\ Owned(i) \subseteq dbbm',
         Held(x)' => Good(x)',
         Held(x)' => \A i \in Inodes \ {x} : Held(i) => Owned(x)' \cap Owned(i) = {}
  PROVE  /\ Marked' /\ Apart'
         /\ \A i \in Inodes \ {x} : Held(i)' => Owned(i)' = Owned(i)
<1>1. ASSUME NEW i \in Inodes \ {x}, Held(i)'
      PROVE  /\ Owned(i)' = Owned(i) /\ Good(i)' /\ Held(i)
  <2>1. Held(i) /\ Good(i)
    BY <1>1 DEF Marked
  <2>2. itab[i].single # c \/ itab[i].single = 0
    BY <1>1 DEF Owned
  <2>3. Owned(i)' = Owned(i) /\ PtrOK(i)'
    BY <1>1, <2>1, <2>2, OwnedSame DEF Good
  <2> QED BY <1>1, <2>1, <2>3 DEF Good
<1>2. Marked'
  <2> SUFFICES ASSUME NEW i \in Inodes, Held(i)' PROVE Good(i)'
    BY DEF Marked
  <2> QED BY <1>1
<1>3. Apart'
  <2> SUFFICES ASSUME NEW i \in Inodes, NEW j \in Inodes, Held(i)', Held(j)', i # j
               PROVE  Owned(i)' \cap Owned(j)' = {}
    BY DEF Apart
  <2>1. CASE i # x /\ j # x
    BY <1>1, <2>1 DEF Apart
  <2>2. CASE i = x
    BY <1>1, <2>2
  <2>3. CASE j = x
    BY <1>1, <2>3
  <2> QED BY <2>1, <2>2, <2>3
<1> QED BY <1>1, <1>2, <1>3

\* A step after which nobody owns more than before.
LEMMA KeepOwned ==
  ASSUME Sound, Marked, Apart, NEW c,
         \A d \in DataBlocks \ {c} : blk'[d] = blk[d],
         \A i \in Inodes : Held(i)' =>
            /\ Held(i)
            /\ itab'[i].direct = itab[i].direct /\ itab'[i].single = itab[i].single
            /\ itab'[i].type = itab[i].type
            /\ itab[i].single # c \/ itab[i].single = 0
            /\ i \in dibm' /\ Owned(i) \subseteq dbbm'
  PROVE  /\ Marked' /\ Apart'
         /\ \A i \in Inodes : Held(i)' => Owned(i)' = Owned(i)
<1>1. ASSUME NEW i \in Inodes, Held(i)'
      PROVE  Owned(i)' = Owned(i) /\ Good(i)' /\ Held(i)
  <2>1. Held(i) /\ Good(i)
    BY <1>1 DEF Marked
  <2>2. Owned(i)' = Owned(i) /\ PtrOK(i)'
    BY <1>1, <2>1, OwnedSame DEF Good
  <2> QED BY <1>1, <2>1, <2>2 DEF Good
<1> QED BY <1>1 DEF Marked, Apart

\* Cells that change hold no name afterwards: no entry is made.
LEMMA EntsShrink ==
  ASSUME Sound, OneEntry, Named,
         \A b \in DataBlocks, s \in Cells : blk'[b][s] = blk[b][s] \/ blk'[b][s].t \notin Names
  PROVE  OneEntry' /\ Named' /\ \A i : Ents(i)' \subseteq Ents(i)
<1>1. ASSUME NEW i PROVE Ents(i)' \subseteq Ents(i)
  <2> SUFFICES ASSUME NEW h \in Ents(i)' PROVE h \in Ents(i)
    OBVIOUS
  <2>1. /\ h \in DataBlocks \X Cells /\ blk'[h[1]][h[2]].w = i
        /\ blk'[h[1]][h[2]].t \in Names
    BY DEF Ents
  <2>2. h[1] \in DataBlocks /\ h[2] \in Cells
    BY <2>1
  <2>3. blk'[h[1]][h[2]] = blk[h[1]][h[2]]
    BY <2>1, <2>2
  <2> QED BY <2>1, <2>3 DEF Ents
<1>2. OneEntry'
  BY <1>1 DEF OneEntry
<1>3. Named'
  BY DEF Named
<1> QED BY <1>1, <1>2, <1>3

\* One entry is made, for an inode that had none.
LEMMA EntsAdd ==
  ASSUME Sound, OneEntry, Named, NEW x \in Inodes, NEW n, Ents(x) = {},
         NEW p \in DataBlocks, NEW q \in Cells, blk'[p][q] = Entry(n, x),
         \A b \in DataBlocks, s \in Cells :
            (b = p /\ s = q) \/ blk'[b][s] = blk[b][s] \/ blk'[b][s].t \notin Names
  PROVE  OneEntry' /\ Named' /\ \A i : i # x => Ents(i)' \subseteq Ents(i)
<1>1. ASSUME NEW i, NEW h \in Ents(i)'
      PROVE  h \in Ents(i) \/ (h = <<p, q>> /\ i = x)
  <2>1. /\ h \in DataBlocks \X Cells /\ blk'[h[1]][h[2]].w = i
        /\ blk'[h[1]][h[2]].t \in Names
    BY <1>1 DEF Ents
  <2>2. h[1] \in DataBlocks /\ h[2] \in Cells /\ h = <<h[1], h[2]>>
    BY <2>1
  <2>3. CASE h[1] = p /\ h[2] = q
    BY <2>1, <2>2, <2>3 DEF Entry
  <2>4. CASE blk'[h[1]][h[2]] = blk[h[1]][h[2]]
    BY <2>1, <2>4 DEF Ents
  <2> QED BY <2>1, <2>2, <2>3, <2>4
<1>2. \A i : i # x => Ents(i)' \subseteq Ents(i)
  BY <1>1
<1>3. \A g \in Ents(x)' : g = <<p, q>>
  BY <1>1
<1>4. OneEntry'
  <2> SUFFICES ASSUME NEW i \in Inodes \ {0}, NEW g \in Ents(i)', NEW h \in Ents(i)'
               PROVE  g = h
    BY DEF OneEntry
  <2>1. CASE i = x
    BY <1>3, <2>1
  <2>2. CASE i # x
    BY <1>2, <2>2 DEF OneEntry
  <2> QED BY <2>1, <2>2
<1>5. Named'
  BY DEF Named, Entry
<1> QED BY <1>2, <1>4, <1>5

\* A step that changes no inode and no block, and takes nothing into use.
LEMMA QuietStep ==
  ASSUME Sound, OwnInv, UNCHANGED <<itab, blk>>, saved' \subseteq saved,
         Rooted => Held(cwd'), pc' # "dir_put",
         pc' \in HoldPlaces => Held(job'.idx),
         job.op = "dl" => job'.op = "dl" /\ job'.idx = job.idx,
         \A i \in Inodes : Held(i) => i \in dibm' /\ Owned(i) \subseteq dbbm'
  PROVE  /\ Own'
         /\ \A i \in Inodes : (Held(i)' => Held(i)) /\ Owned(i)' = Owned(i)
         /\ \A i : Ents(i)' = Ents(i)
         /\ \A b : Spare(b) /\ b \in dbbm' => Spare(b)'
         /\ Stays
<1>1. \A i : Ents(i)' = Ents(i) /\ Owned(i)' = Owned(i)
  BY DEF Ents, Owned, Pointers
<1>2. Rooted' = Rooted
  BY DEF Rooted
<1>3. \A i \in Inodes : Held(i)' => Held(i)
  <2> SUFFICES ASSUME NEW i \in Inodes, Held(i)' PROVE Held(i)
    OBVIOUS
  <2>1. CASE Rooted' /\ i \in {0, cwd'}
    BY <1>2, <2>1 DEF Held
  <2>2. CASE i # 0 /\ Ents(i)' # {} /\ ~(job'.op = "dl" /\ i = job'.idx)
    BY <1>1, <2>2 DEF Held
  <2>3. CASE pc' \in HoldPlaces /\ i = job'.idx
    BY <2>3 DEF HoldPlaces
  <2>4. CASE Kept(i)'
    BY <2>4 DEF Held, Kept
  <2> QED BY <2>1, <2>2, <2>3, <2>4 DEF Held, HoldPlaces
<1>4. Marked' /\ Apart'
  BY <1>3, KeepOwned DEF OwnInv, Own
<1>5. OneEntry' /\ Named'
  BY EntsShrink DEF OwnInv, Own
<1>6. FilesStay
  BY <1>3 DEF FilesStay
<1>7. EntriesStay
  BY DEF EntriesStay, EntryOf
<1> QED BY <1>1, <1>3, <1>4, <1>5, <1>6, <1>7 DEF Own, Spare, Stays

\* The block alloc_block() returns belongs to nobody, and is marked on disk.
LEMMA NewBlockIsSpare ==
  ASSUME Sound, OwnInv, alloc_block, bbm = dbbm, NewBlock # 0
  PROVE  /\ NewBlock \in DataBlocks /\ NewBlock \in dbbm' /\ dbbm \subseteq dbbm'
         /\ \A i \in Inodes : Held(i) => NewBlock \notin Owned(i)
<1>1. NewBlock \in DataBlocks \ bbm
  BY NewBlockIsFree DEF Sound, TypeOK, MemType
<1>2. dbbm' = bbm \cup {NewBlock}
  BY DEF alloc_block, save_block_bitmap
<1> QED BY <1>1, <1>2 DEF OwnInv, Own, Marked, Good

\* alloc_block() marks, it never clears.
LEMMA AllocKeepsMarks ==
  ASSUME alloc_block, bbm = dbbm
  PROVE  dbbm \subseteq dbbm' /\ (NewBlock = 0 => UNCHANGED <<bbm, dbbm>>)
BY DEF alloc_block, save_block_bitmap

\* When it returns none there is none.
LEMMA NoBlockMeansFull ==
  ASSUME Sound, NewBlock = 0
  PROVE  DataBlocks \subseteq bbm
<1> SUFFICES ASSUME ~(DataBlocks \subseteq bbm) PROVE FALSE
  OBVIOUS
<1>1. DataBlocks \ bbm \subseteq Nat \ {0} /\ DataBlocks \ bbm # {}
  BY BlocksAssumption
<1>2. NewBlock \in DataBlocks \ bbm
  BY <1>1, MinIsLeast DEF NewBlock
<1> QED BY <1>1, <1>2

\* Where no command has anything at stake.
LEMMA AtRest ==
  ASSUME pc' \in {"idle", "wild", "boot", "q_ibm", "q_itab", "q_sb", "f_bbm", "f_ibm",
                  "r_ibm", "r_block"},
         job'.op # "dl"
  PROVE  JobInv'
BY DEF JobInv, MakingOK, FreshOK, AddingOK, AddOK, GrowOK, PutOK, WriteOK, NodeOK, ZeroOK,
       InodeOK, PtrPlaceOK, DlOK, DlNodeOK, OpOK, RootJobOK

\* Outside dl nothing is being taken apart.
LEMMA HeldOutsideDl ==
  ASSUME OwnInv, pc \notin {"dl_direct", "dl_single", "dl_inode", "dl_entry"}
  PROVE  job.op # "dl" /\ \A i : i # 0 /\ Ents(i) # {} => Held(i)
BY DEF OwnInv, JobInv, OpOK, Held

\* With a root, the root and the current directory are directories in use.
LEMMA DirsAreHeld ==
  ASSUME Sound, OwnInv, Rooted
  PROVE  /\ Held(0) /\ Held(cwd) /\ itab[0].type = 2 /\ itab[cwd].type = 2
         /\ itab[0].single = 0 /\ itab[cwd].single = 0
         /\ 0 \in dibm /\ cwd \in dibm
<1>1. 0 \in Inodes /\ cwd \in Inodes
  BY BaseTypes, StateTypes
<1>2. Held(0) /\ Held(cwd)
  BY DEF Held
<1>3. itab[0].type = 2 /\ itab[cwd].type = 2
  BY DEF OwnInv, RootInv, Rooted
<1> QED BY <1>1, <1>2, <1>3 DEF OwnInv, Own, Marked, Good

\* A name that is found is an inode in use, and never the root.
LEMMA FoundIsHeld ==
  ASSUME Sound, OwnInv, job.op # "dl", NEW d \in Inodes, NEW n \in Names,
         dir_lookup(itab[d], n) # -1
  PROVE  /\ dir_lookup(itab[d], n) \in Inodes \ {0}
         /\ Held(dir_lookup(itab[d], n)) /\ itab[d].type = 2
<1> DEFINE h == First(LookupHits(itab[d], n))
           e == blk[itab[d].direct[h[1]]][h[2]]
<1>1. LookupHits(itab[d], n) \subseteq Nat \X Nat
  BY BaseTypes DEF LookupHits
<1>2. itab[d].type = 2 /\ LookupHits(itab[d], n) # {} /\ dir_lookup(itab[d], n) = e.w
  BY DEF dir_lookup
<1>3. h \in LookupHits(itab[d], n)
  BY <1>1, <1>2, FirstIsIn
<1> HIDE DEF h
<1>4. /\ h \in Direct \X Cells /\ \A a \in 0 .. h[1] : itab[d].direct[a] # 0
      /\ e.w # 0 /\ e.w < NInodes /\ e.t = n
  BY <1>3 DEF LookupHits
<1>5. h[1] \in Nat /\ h[1] \in Direct /\ h[2] \in Cells
  BY <1>4, BaseTypes
<1>6. itab[d].direct[h[1]] \in DataBlocks
  BY <1>4, <1>5, StateTypes DEF Ptr
<1>7. e.w \in Inodes
  BY <1>4, <1>5, <1>6, StateTypes, SizeAssumption DEF Inodes
<1>8. <<itab[d].direct[h[1]], h[2]>> \in Ents(e.w)
  BY <1>4, <1>5, <1>6 DEF Ents
<1>9. Held(e.w)
  BY <1>4, <1>8 DEF Held
<1> QED BY <1>2, <1>4, <1>7, <1>9

-----------------------------------------------------------------------------
(* The user's commands                                                     *)

\* alloc_inode() takes an inode nobody uses.
LEMMA OwnBegin ==
  ASSUME Sound, BitmapInv, OwnInv, NEW op \in FileOps \cup {"mf"}, NEW n, NEW c, NEW l,
         Prompt, BeginCreate(op, n, c, l), op \in FileOps => RoomHere,
         UNCHANGED <<sb, dbbm, itab, blk, up, bbm, cwd, saved>>
  PROVE  OwnInv' /\ Stays
<1> DEFINE x == Min(FreeInodes)
<1>1. /\ pc = "idle" /\ up /\ pc' = "new_block"
      /\ job' = [NoJob EXCEPT !.op = op, !.name = n, !.text = c, !.len = l,
                              !.idx = x, !.home = cwd]
      /\ dibm' = ibm \cup {x} /\ FreeInodes # {}
  BY DEF Prompt, BeginCreate, Goto, save_inode_bitmap
<1>2. /\ job'.op = op /\ job'.idx = x /\ job'.home = cwd
  BY <1>1 DEF NoJob
<1>3. job.op # "dl" /\ \A i : i # 0 /\ Ents(i) # {} => Held(i)
  BY <1>1, HeldOutsideDl
<1>4. ibm = dibm /\ bbm = dbbm
  BY <1>1 DEF BitmapInv, InQformat
<1>5. x \in Inodes /\ x \notin dibm
  BY <1>1, <1>4, MinIsLeast, BaseTypes DEF FreeInodes
<1>6. 0 \in dibm
  BY <1>1 DEF OwnInv, RootInv, Waiting
<1>7. ~Held(x)
  BY <1>5 DEF OwnInv, Own, Marked, Good
<1>8. x \notin {0, cwd}
  BY <1>5, <1>6, DirsAreHeld DEF OwnInv, RootInv
<1>9. Ents(x) = {} /\ ~Kept(x)
  BY <1>3, <1>7, <1>8 DEF Held
<1> HIDE DEF x
<1>10. /\ Own' /\ Stays /\ \A i : Ents(i)' = Ents(i)
  <2>1. Rooted => Held(cwd')
    BY DirsAreHeld
  <2>2. \A i \in Inodes : Held(i) => i \in dibm' /\ Owned(i) \subseteq dbbm'
    BY <1>1, <1>4 DEF OwnInv, Own, Marked, Good
  <2> QED BY <1>1, <1>3, <2>1, <2>2, QuietStep DEF HoldPlaces
<1>11. RootInv'
  BY <1>1, <1>4, <1>6 DEF OwnInv, RootInv, Rooted, Blank, Waiting, EarlyPlaces
<1>12. RoomThere(itab[job.home])'
  <2>1. op \in FileOps => cwd = 0 \/ ~Grows(itab[cwd])
    BY DEF RoomHere
  <2>2. Grows(itab[cwd])' = Grows(itab[cwd])
    BY DEF Grows, AddStops, FreeCells
  <2> QED BY <1>2, <2>1, <2>2 DEF RoomThere
<1>13. MakingOK'
  BY <1>1, <1>2, <1>5, <1>8, <1>9, <1>10, <1>12 DEF MakingOK, Creates, Kept
<1>14. JobInv'
  BY <1>1, <1>2, <1>13
  DEF JobInv, MakingOK, FreshOK, AddingOK, AddOK, GrowOK, PutOK, WriteOK, NodeOK, ZeroOK,
      InodeOK, PtrPlaceOK, DlOK, DlNodeOK, OpOK, RootJobOK, FileOps
<1> QED BY <1>10, <1>11, <1>14 DEF OwnInv

\* A note is rewritten in the file that was found.
LEMMA OwnNoteAgain ==
  ASSUME Sound, BitmapInv, OwnInv, NEW c, FileInRoot(NotesName), NoteAgain(c)
  PROVE  OwnInv' /\ Stays
<1> DEFINE x == dir_lookup(itab[0], NotesName)
<1>1. /\ pc = "idle" /\ up /\ pc' = "fw" /\ x # -1
      /\ job' = [NoJob EXCEPT !.op = "note", !.name = NotesName, !.text = c,
                              !.len = NotesLen, !.idx = x, !.node = itab[x], !.seen = TRUE]
      /\ UNCHANGED <<disk, mem>> /\ saved' \subseteq saved
  BY DEF NoteAgain, Goto, Prompt, Forget
<1>2. x # -1 /\ itab[x].type = 1
  BY DEF FileInRoot
<1> HIDE DEF x
<1>3. job'.op = "note" /\ job'.idx = x /\ job'.node = itab[x] /\ job'.home = 0
  BY <1>1 DEF NoJob
<1>4. job.op # "dl"
  BY <1>1, HeldOutsideDl
<1>5. x \in Inodes \ {0} /\ Held(x) /\ Rooted
  BY <1>2, <1>4, FoundIsHeld, BaseTypes, NamesAssumption DEF x, Rooted
<1>6. Own' /\ Stays
  <2>1. Rooted => Held(cwd')
    BY <1>1, DirsAreHeld DEF mem
  <2>2. \A i \in Inodes : Held(i) => i \in dibm' /\ Owned(i) \subseteq dbbm'
    BY <1>1 DEF OwnInv, Own, Marked, Good, disk
  <2> QED BY <1>1, <1>3, <1>4, <1>5, <2>1, <2>2, QuietStep DEF disk
<1>7. RootInv'
  BY <1>1, <1>5 DEF OwnInv, RootInv, Rooted, EarlyPlaces, Waiting, disk, mem
<1>8. JobInv'
  BY <1>1, <1>2, <1>3
  DEF JobInv, MakingOK, FreshOK, AddingOK, AddOK, GrowOK, PutOK, WriteOK, NodeOK, ZeroOK,
      InodeOK, PtrPlaceOK, DlOK, DlNodeOK, OpOK, RootJobOK, FileOps, disk
<1> QED BY <1>6, <1>7, <1>8 DEF OwnInv

\* From here on the file is not in use, though its blocks are still marked.
LEMMA OwnDl ==
  ASSUME Sound, BitmapInv, OwnInv, SavedInv, NEW n \in Names, FileInRoot(n), Dl(n)
  PROVE  OwnInv' /\ Stays
<1>1. pc = "idle" /\ dir_lookup(itab[0], n) # -1
  BY DEF Dl, Prompt
<1>2. job.op # "dl"
  BY <1>1, HeldOutsideDl
<1>3. PICK x \in Inodes \ {0} : x = dir_lookup(itab[0], n) /\ Held(x) /\ Rooted
  BY <1>1, <1>2, FoundIsHeld, BaseTypes DEF Rooted
<1>4. /\ pc = "idle" /\ up /\ pc' = "dl_direct" /\ x # -1
      /\ job' = [NoJob EXCEPT !.op = "dl", !.name = n, !.idx = x, !.node = itab[x],
                              !.dir = itab[0]]
      /\ UNCHANGED <<disk, mem>> /\ saved' = {r \in saved : r.ino # x}
  BY <1>3 DEF Dl, Goto, Prompt, Forget
<1>5. x # -1 /\ itab[x].type = 1
  BY <1>3, <1>4 DEF FileInRoot
<1>6. /\ job'.op = "dl" /\ job'.idx = x /\ job'.node = itab[x] /\ job'.dir = itab[0]
      /\ job'.name = n
  BY <1>4 DEF NoJob
<1>7. x \in Inodes \ {0} /\ Held(x) /\ Rooted
  BY <1>3
<1>8. Own' /\ Stays /\ \A i \in Inodes : (Held(i)' => Held(i)) /\ Owned(i)' = Owned(i)
  <2>1. Rooted => Held(cwd')
    BY <1>4, DirsAreHeld DEF mem
  <2>2. \A i \in Inodes : Held(i) => i \in dibm' /\ Owned(i) \subseteq dbbm'
    BY <1>4 DEF OwnInv, Own, Marked, Good, disk
  <2> QED BY <1>4, <1>2, <2>1, <2>2, QuietStep DEF disk, HoldPlaces
<1>9. RootInv'
  BY <1>4, <1>7 DEF OwnInv, RootInv, Rooted, EarlyPlaces, Waiting, disk, mem
<1>10. ~Held(x)' /\ ~Kept(x)'
  <2>1. cwd' # x
    BY <1>4, <1>5, <1>7, DirsAreHeld DEF mem
  <2>2. ~Kept(x)'
    BY <1>4, <1>5 DEF Kept, SavedInv
  <2> QED BY <1>4, <1>6, <1>7, <2>1, <2>2 DEF Held, HoldPlaces
<1>11. DlOK'
  <2>1. dir_lookup(itab[0], n)' = x
    BY <1>3, <1>4 DEF dir_lookup, LookupHits, disk
  <2>2. Rooted' /\ itab'[x].type = 1 /\ job'.dir = itab'[0]
    BY <1>4, <1>5, <1>6, <1>7 DEF Rooted, disk
  <2>3. \A i \in Inodes : Held(i)' => Owned(i)' \cap Owned(x)' = {}
    BY <1>7, <1>8, <1>10 DEF OwnInv, Own, Apart
  <2> QED BY <1>6, <1>7, <1>10, <2>1, <2>2, <2>3 DEF DlOK
<1>12. DlNodeOK'
  <2>1. \A d \in Direct : itab[x].direct[d] \in Pointers(x)' \cup {0}
    BY <1>4 DEF Pointers, disk
  <2> QED BY <1>4, <1>6, <2>1 DEF DlNodeOK, disk
<1>13. JobInv'
  BY <1>4, <1>6, <1>11, <1>12
  DEF JobInv, MakingOK, FreshOK, AddingOK, AddOK, GrowOK, PutOK, WriteOK, NodeOK, ZeroOK,
      InodeOK, PtrPlaceOK, OpOK, RootJobOK
<1> QED BY <1>8, <1>9, <1>13 DEF OwnInv

\* The directory that cd makes current is in use.
LEMMA CdTarget ==
  ASSUME Sound, OwnInv, job.op # "dl", NEW n \in Names, fs_cd(n) # -1
  PROVE  fs_cd(n) \in Inodes /\ Held(fs_cd(n)) /\ itab[fs_cd(n)].type = 2 /\ Rooted
<1>1. /\ dir_lookup(itab[cwd], n) # -1 /\ fs_cd(n) = dir_lookup(itab[cwd], n)
      /\ itab[fs_cd(n)].type = 2
  BY DEF fs_cd
<1>2. fs_cd(n) \in Inodes /\ Held(fs_cd(n)) /\ itab[cwd].type = 2
  BY <1>1, FoundIsHeld, StateTypes
<1>3. Rooted
  BY <1>2 DEF OwnInv, RootInv, Rooted
<1> QED BY <1>1, <1>2, <1>3

\* cd moves to a directory in use, or to the root.
LEMMA OwnCd ==
  ASSUME Sound, OwnInv, NEW n \in Names, Cd(n) \/ CdUp
  PROVE  OwnInv' /\ Stays
<1>1. /\ pc = "idle" /\ pc' = pc /\ job' = job
      /\ UNCHANGED <<disk, up, bbm, ibm, saved>>
  BY DEF ghost, Cd, CdUp, Prompt
<1>2. job.op # "dl"
  BY <1>1, HeldOutsideDl
<1>3. Rooted /\ Held(cwd') /\ itab[cwd'].type = 2
  <2>1. CASE Cd(n)
    BY <1>2, <2>1, CdTarget DEF Cd
  <2>2. CASE CdUp
    <3>1. cwd' = 0 /\ Rooted
      BY <2>2 DEF CdUp, OwnInv, RootInv
    <3> QED BY <3>1, DirsAreHeld
  <2> QED BY <2>1, <2>2
<1>4. Own' /\ Stays
  <2>1. \A i \in Inodes : Held(i) => i \in dibm' /\ Owned(i) \subseteq dbbm'
    BY <1>1 DEF OwnInv, Own, Marked, Good, disk
  <2> QED BY <1>1, <1>2, <1>3, <2>1, QuietStep DEF disk, HoldPlaces
<1>5. RootInv'
  BY <1>1, <1>3 DEF OwnInv, RootInv, Rooted, EarlyPlaces, Waiting, disk
<1> QED BY <1>1, <1>2, <1>4, <1>5, AtRest DEF OwnInv

\* A disk of zeroes: nothing is in use.
LEMMA BlankHoldsNothing ==
  ASSUME Sound, Blank
  PROVE  ~Rooted /\ \A i : Ents(i) = {}
<1>1. ~Rooted
  BY BaseTypes DEF Blank, Rooted, NoInode
<1>2. \A b \in DataBlocks, s \in Cells : blk[b][s].t = None
  BY DEF Blank, ZeroBlock, Zero
<1> QED BY <1>1, <1>2, NamesAssumption DEF Ents

\* Before the root is made the disk is blank and nothing is in use.
LEMMA OwnBlank ==
  ASSUME Sound, Sound', Blank', saved' = {}, pc' \notin HoldPlaces
  PROVE  Own' /\ ~Rooted' /\ (\A i : ~Held(i)') /\ Stays
<1>1. ~Rooted'
  BY BaseTypes DEF Blank, Rooted, NoInode
<1>2. \A b \in DataBlocks, s \in Cells : blk'[b][s].t = None
  BY DEF Blank, ZeroBlock, Zero
<1>3. \A i : Ents(i)' = {}
  BY <1>2, NamesAssumption DEF Ents
<1>4. \A i : ~Held(i)'
  BY <1>1, <1>3 DEF Held, Kept
<1>5. Named'
  BY <1>2, NamesAssumption DEF Named
<1>6. Stays
  BY <1>4 DEF Stays, FilesStay, EntriesStay
<1> QED BY <1>1, <1>3, <1>4, <1>5, <1>6 DEF Own, Marked, Apart, OneEntry

\* A format of a blank disk: nothing is in use yet.
LEMMA OwnFormat ==
  ASSUME Sound, Sound', OwnInv, Blank, Format \/ Qformat
  PROVE  OwnInv' /\ Stays
<1>1. /\ pc' \in {"f_bbm", "q_ibm"} /\ job'.op # "dl" /\ cwd' = 0
      /\ UNCHANGED <<itab, blk>> /\ saved' = {}
  BY DEF Format, Qformat, Goto, NoJob
<1>2. Blank'
  BY <1>1 DEF Blank
<1>3. Own' /\ Stays /\ ~Rooted'
  BY <1>1, <1>2, OwnBlank DEF HoldPlaces
<1>4. RootInv'
  BY <1>1, <1>2, <1>3 DEF RootInv, EarlyPlaces, Waiting
<1> QED BY <1>1, <1>3, <1>4, AtRest DEF OwnInv

\* Of a command that was cut off, what was in use on the disk stays in use.
LEMMA OwnPowerCut ==
  ASSUME Sound, OwnInv, job.op # "dl", PowerCut
  PROVE  OwnInv' /\ Stays
<1>1. /\ pc' = "boot" /\ job' = NoJob /\ cwd' = 0 /\ ~up' /\ UNCHANGED <<disk, saved>>
  BY DEF ghost, PowerCut, Goto
<1>2. job'.op = "none"
  BY <1>1 DEF NoJob
<1>3. Own' /\ Stays
  <2>1. Rooted => Held(cwd')
    BY <1>1, DirsAreHeld
  <2>2. \A i \in Inodes : Held(i) => i \in dibm' /\ Owned(i) \subseteq dbbm'
    BY <1>1 DEF OwnInv, Own, Marked, Good, disk
  <2> QED BY <1>1, <2>1, <2>2, QuietStep DEF disk, HoldPlaces
<1>4. RootInv'
  BY <1>1 DEF OwnInv, RootInv, Rooted, EarlyPlaces, Waiting, disk, Blank
<1> QED BY <1>1, <1>2, <1>3, <1>4, AtRest DEF OwnInv

-----------------------------------------------------------------------------
(* Formats and boots                                                       *)

\* Nothing comes into use when no entry is made.
LEMMA HeldWithin ==
  ASSUME OwnInv, itab'[0].type = itab[0].type, cwd' = cwd,
         \A i : i # 0 => Ents(i)' \subseteq Ents(i),
         pc' \in HoldPlaces => Held(job'.idx),
         \A r \in saved' \ saved : Held(r.ino) /\ Held(r.home),
         job.op # "dl"
  PROVE  \A i \in Inodes : Held(i)' => Held(i)
<1> SUFFICES ASSUME NEW i \in Inodes, Held(i)' PROVE Held(i)
  OBVIOUS
<1>1. CASE Rooted' /\ i \in {0, cwd'}
  BY <1>1 DEF Held, Rooted
<1>2. CASE i # 0 /\ Ents(i)' # {}
  BY <1>2 DEF Held
<1>3. CASE pc' \in HoldPlaces /\ i = job'.idx
  BY <1>3 DEF HoldPlaces
<1>4. CASE Kept(i)'
  <2>1. PICK r \in saved' : i \in {r.ino, r.home}
    BY <1>4 DEF Kept
  <2>2. CASE r \in saved
    BY <2>1, <2>2 DEF Held, Kept
  <2>3. CASE r \notin saved
    BY <2>1, <2>3
  <2> QED BY <2>2, <2>3
<1> QED BY <1>1, <1>2, <1>3, <1>4 DEF Held, HoldPlaces

\* A block of a directory in use is nobody's pointer block.
LEMMA DirBlockPointsNowhere ==
  ASSUME Sound, OwnInv, NEW d \in Inodes, Held(d), itab[d].type = 2,
         NEW b \in Pointers(d)
  PROVE  /\ b \in DataBlocks /\ b \in Owned(d)
         /\ \A i \in Inodes : Held(i) => itab[i].single # b
<1>1. b \in DataBlocks /\ b \in Owned(d)
  BY StateTypes DEF Pointers, Owned, Ptr
<1>2. b # 0
  BY OwnedIsNotZero
<1>3. itab[d].single = 0
  BY DEF OwnInv, Own, Marked, Good
<1>4. ASSUME NEW i \in Inodes, Held(i), itab[i].single = b PROVE FALSE
  <2>1. b \in Owned(i)
    BY <1>2, <1>4 DEF Owned
  <2> QED BY <1>1, <1>2, <1>3, <1>4, <2>1 DEF OwnInv, Own, Apart
<1> QED BY <1>1, <1>4

\* A block of a directory in use changes: no file does.
LEMMA DirStepFilesStay ==
  ASSUME Sound, OwnInv, NEW d \in Inodes, Held(d), itab[d].type = 2,
         NEW b \in Pointers(d), \A p \in DataBlocks \ {b} : blk'[p] = blk[p],
         UNCHANGED itab, \A i \in Inodes : Held(i)' => Held(i)
  PROVE  FilesStay
<1> SUFFICES ASSUME NEW i \in Inodes, Held(i)', itab[i].type # 2
             PROVE  Held(i) /\ \A p \in Owned(i) : blk'[p] = blk[p]
  BY DEF FilesStay
<1>1. Held(i) /\ Owned(i) \subseteq DataBlocks
  BY StateTypes DEF OwnInv, Own, Marked, Good
<1>2. b \in Owned(d)
  BY DirBlockPointsNowhere
<1>3. b \notin Owned(i)
  BY <1>1, <1>2 DEF OwnInv, Own, Apart
<1> QED BY <1>1, <1>3

\* A step of fs_create_file or fs_write on its own inode and on a block that
\* belongs to nobody else.
LEMMA FileStepStays ==
  ASSUME Sound, OwnInv, NEW c,
         pc \in WritePlaces \cup {"new_inode"}, pc' # "dir_put",
         \A d \in DataBlocks \ {c} : blk'[d] = blk[d],
         \A i \in Inodes \ {job.idx} : /\ itab'[i] = itab[i]
                                       /\ Held(i)' => Held(i)
                                       /\ Held(i) => c \notin Owned(i),
         Held(job.idx) => itab[job.idx].type = 1 /\ itab'[job.idx].type = 1,
         pc \in WritePlaces => Held(job.idx)
  PROVE  Stays
<1>1. ASSUME NEW i \in Inodes \ {job.idx}, Held(i)
      PROVE  \A p \in Owned(i) : p \in DataBlocks /\ blk'[p] = blk[p]
  <2>1. Owned(i) \subseteq DataBlocks
    BY <1>1, StateTypes DEF OwnInv, Own, Marked, Good
  <2> QED BY <1>1, <2>1
<1>2. FilesStay
  <2> SUFFICES ASSUME NEW i \in Inodes, Held(i)', ~(pc = "new_inode" /\ i = job.idx)
               PROVE  /\ Held(i) /\ itab'[i].type = itab[i].type
                      /\ \/ pc \in WritePlaces /\ i = job.idx
                         \/ itab'[i] = itab[i] /\ \A b \in Owned(i) : blk'[b] = blk[b]
    BY DEF FilesStay
  <2>1. CASE i = job.idx
    BY <2>1
  <2>2. CASE i # job.idx
    BY <1>1, <2>2
  <2> QED BY <2>1, <2>2
<1>3. EntriesStay
  <2> SUFFICES ASSUME NEW h \in Inodes, NEW n \in Names, NEW x \in Inodes \ {0},
                      Held(h), itab[h].type = 2, EntryOf(h, n, x)
               PROVE  EntryOf(h, n, x)'
    BY DEF EntriesStay
  <2>1. h # job.idx /\ itab'[h] = itab[h]
    OBVIOUS
  <2>2. PICK d \in Direct, s \in Cells :
          itab[h].direct[d] # 0 /\ blk[itab[h].direct[d]][s] = Entry(n, x)
    BY DEF EntryOf
  <2>3. itab[h].direct[d] \in Owned(h)
    BY <2>2 DEF Owned, Pointers
  <2>4. blk'[itab[h].direct[d]] = blk[itab[h].direct[d]]
    BY <1>1, <2>1, <2>3
  <2>5. itab'[h].direct[d] # 0 /\ blk'[itab'[h].direct[d]][s] = Entry(n, x)
    BY <2>1, <2>2, <2>4
  <2> QED BY <2>5 DEF EntryOf
<1> QED BY <1>2, <1>3 DEF Stays

\* init_fs(): the root is there, or is about to be made on a blank disk.
LEMMA OwnInitFs ==
  ASSUME Sound, Sound', OwnInv, UNCHANGED <<disk, saved>>, pc \in {"boot", "defdirs"}, init_fs,
         Rooted => Held(cwd') /\ itab[cwd'].type = 2, ~Rooted => cwd' = 0
  PROVE  OwnInv' /\ Stays
<1>1. job.op # "dl"
  BY HeldOutsideDl
<1>2. CASE Rooted
  <2>1. pc' = "idle" /\ job'.op = "none"
    BY <1>2 DEF init_fs, Rooted, Finish, Goto, NoJob
  <2>2. \A i \in Inodes : Held(i) => i \in dibm' /\ Owned(i) \subseteq dbbm'
    BY DEF OwnInv, Own, Marked, Good, disk
  <2>3. Own' /\ Stays
    BY <1>1, <1>2, <2>1, <2>2, QuietStep DEF disk, HoldPlaces
  <2>4. RootInv'
    BY <1>2, <2>1, DirsAreHeld DEF RootInv, Rooted, EarlyPlaces, Waiting, disk
  <2> QED BY <2>1, <2>3, <2>4, AtRest DEF OwnInv
<1>3. CASE ~Rooted
  <2>1. pc' = "r_ibm" /\ job'.op = "boot"
    BY <1>3 DEF init_fs, Rooted, Goto, NoJob
  <2>2. Blank' /\ saved' = {}
    BY <1>3 DEF OwnInv, RootInv, Blank, disk
  <2>3. Own' /\ Stays /\ ~Rooted'
    BY <2>1, <2>2, OwnBlank DEF HoldPlaces
  <2>4. RootInv'
    BY <1>3, <2>1, <2>2, <2>3 DEF RootInv, EarlyPlaces, Waiting
  <2> QED BY <2>1, <2>3, <2>4, AtRest DEF OwnInv
<1> QED BY <1>2, <1>3

\* A boot reads the bitmaps, and takes nothing.
LEMMA OwnBoot ==
  ASSUME Sound, Sound', OwnInv, Boot
  PROVE  OwnInv' /\ Stays
<1>1. pc = "boot" /\ cwd' = cwd /\ UNCHANGED <<disk, saved>>
  BY DEF ghost, Boot
<1>2. (Rooted => Held(cwd) /\ itab[cwd].type = 2) /\ (~Rooted => cwd = 0)
  BY DirsAreHeld DEF OwnInv, RootInv
<1>3. CASE sb
  BY <1>1, <1>2, <1>3, OwnInitFs DEF Boot
<1>4. CASE ~sb
  <2>1. pc' = "idle" /\ job'.op = "none" /\ ~up'
    BY <1>4 DEF Boot, Finish, Goto, NoJob
  <2>2. job.op # "dl"
    BY <1>1, HeldOutsideDl
  <2>3. \A i \in Inodes : Held(i) => i \in dibm' /\ Owned(i) \subseteq dbbm'
    BY <1>1 DEF OwnInv, Own, Marked, Good, disk
  <2>4. Own' /\ Stays
    BY <1>1, <1>2, <2>1, <2>2, <2>3, QuietStep DEF disk, HoldPlaces
  <2>5. RootInv'
    BY <1>1, <2>1 DEF OwnInv, RootInv, Rooted, EarlyPlaces, Waiting, disk, Blank
  <2> QED BY <2>1, <2>4, <2>5, AtRest DEF OwnInv
<1> QED BY <1>3, <1>4

\* create_defdirs is over, and its last cd.
LEMMA OwnDefDone ==
  ASSUME Sound, Sound', OwnInv, DefDone
  PROVE  OwnInv' /\ Stays
<1>1. /\ pc = "defdirs" /\ init_fs /\ UNCHANGED <<disk, saved>>
      /\ cwd' = IF fs_cd(DefDirs[1]) = -1 THEN cwd ELSE fs_cd(DefDirs[1])
  BY DEF ghost, DefDone
<1>2. job.op # "dl"
  BY <1>1, HeldOutsideDl
<1>3. DefDirs[1] \in Names
  BY NamesAssumption
<1>4. Rooted => Held(cwd') /\ itab[cwd'].type = 2
  BY <1>1, <1>2, <1>3, CdTarget, DirsAreHeld
<1>5. ~Rooted => cwd' = 0
  BY <1>1, <1>2, <1>3, CdTarget DEF OwnInv, RootInv
<1> QED BY <1>1, <1>4, <1>5, OwnInitFs

\* Up to the root's inode the disk is blank.
LEMMA OwnEarly ==
  ASSUME Sound, Sound', BitmapInv, OwnInv, QIbm \/ QItab \/ QSb \/ FBbm \/ FIbm \/ RIbm
  PROVE  OwnInv' /\ Stays
<1>1. /\ pc \in {"q_ibm", "q_itab", "q_sb", "f_bbm", "f_ibm", "r_ibm"}
      /\ pc' \in EarlyPlaces \ {"r_inode"} /\ UNCHANGED <<blk, cwd, saved>>
      /\ pc' = "r_block" => 0 \in dibm'
  BY DEF ghost, QIbm, QItab, QSb, FBbm, FIbm, RIbm, Goto, EarlyPlaces, mem, save_inode_bitmap
<1>2. Blank /\ cwd = 0 /\ saved' = {}
  BY <1>1 DEF OwnInv, RootInv, EarlyPlaces
<1>3. Blank'
  <2>1. CASE QItab
    BY <1>1, <1>2, <2>1 DEF QItab, Blank
  <2>2. CASE ~QItab
    BY <1>1, <1>2, <2>2 DEF QIbm, QSb, FBbm, FIbm, RIbm, Blank
  <2> QED BY <2>1, <2>2
<1>4. job.op # "dl"
  BY <1>1, HeldOutsideDl
<1>5. job'.op = job.op
  BY DEF QIbm, QItab, QSb, FBbm, FIbm, RIbm, Goto, Sound, TypeOK, Job
<1>6. Own' /\ Stays /\ ~Rooted'
  BY <1>1, <1>2, <1>3, OwnBlank DEF HoldPlaces, EarlyPlaces
<1>7. RootInv'
  BY <1>1, <1>2, <1>3, <1>6 DEF RootInv, EarlyPlaces, Waiting
<1> QED BY <1>1, <1>4, <1>5, <1>6, <1>7, AtRest DEF OwnInv, EarlyPlaces

\* The root's block: without one there is no root, and the disk stays blank.
LEMMA OwnRBlock ==
  ASSUME Sound, Sound', BitmapInv, OwnInv, RBlock
  PROVE  OwnInv' /\ Stays
<1>1. pc = "r_block" /\ alloc_block /\ UNCHANGED <<dibm, itab, blk, up, cwd, saved>>
  BY DEF ghost, RBlock
<1>2. Blank /\ ~Rooted /\ cwd = 0 /\ 0 \in dibm /\ saved = {}
  BY <1>1 DEF OwnInv, RootInv, EarlyPlaces
<1>3. Blank' /\ cwd' = 0 /\ saved' = {}
  BY <1>1, <1>2 DEF Blank
<1>4. job.op # "dl"
  BY <1>1, HeldOutsideDl
<1>5. pc' \in {"idle", "defdirs", "r_inode"}
  BY DEF RBlock, AfterRoot, Goto, Finish
<1>6. Own' /\ Stays /\ ~Rooted'
  BY <1>3, <1>5, OwnBlank DEF HoldPlaces
<1>7. bbm = dbbm /\ up
  BY <1>1 DEF BitmapInv, InQformat
<1>8. CASE NewBlock = 0
  <2>1. DataBlocks \subseteq bbm'
    BY <1>1, <1>7, <1>8, NoBlockMeansFull, AllocKeepsMarks
  <2>2. /\ pc' = "defdirs" => job'.op \in Formats
        /\ pc' = "defdirs" \/ (pc' = "idle" /\ job'.op = "none")
    BY <1>8 DEF RBlock, AfterRoot, Goto, Finish, NoJob, Sound, TypeOK, Job
  <2>3. RootInv'
    BY <1>1, <1>2, <1>3, <1>6, <2>1, <2>2 DEF RootInv, EarlyPlaces, Waiting
  <2>4. JobInv'
    BY <2>2
    DEF JobInv, MakingOK, FreshOK, AddingOK, AddOK, GrowOK, PutOK, WriteOK, NodeOK, ZeroOK,
        InodeOK, PtrPlaceOK, DlOK, DlNodeOK, OpOK, RootJobOK, Formats
  <2> QED BY <1>6, <2>3, <2>4 DEF OwnInv
<1>9. CASE NewBlock # 0
  <2>1. /\ pc' = "r_inode" /\ job' = [job EXCEPT !.node = FreshInode(2, NewBlock)]
    BY <1>9 DEF RBlock, Goto
  <2>2. job'.op = job.op /\ job'.node = FreshInode(2, NewBlock)
    BY <2>1 DEF Sound, TypeOK, Job
  <2>3. NewBlock \in DataBlocks /\ NewBlock \in dbbm'
    BY <1>1, <1>7, <1>9, NewBlockIsSpare
  <2>4. \E b \in DataBlocks : b \in dbbm' /\ job'.node = FreshInode(2, b)
    BY <2>2, <2>3
  <2>5. RootInv'
    BY <1>1, <1>2, <1>3, <1>6, <2>1 DEF RootInv, EarlyPlaces, Waiting
  <2>6. JobInv'
    BY <1>4, <2>1, <2>2, <2>4
    DEF JobInv, MakingOK, FreshOK, AddingOK, AddOK, GrowOK, PutOK, WriteOK, NodeOK, ZeroOK,
        InodeOK, PtrPlaceOK, DlOK, DlNodeOK, OpOK, RootJobOK
  <2> QED BY <1>6, <2>5, <2>6 DEF OwnInv
<1> QED BY <1>8, <1>9

\* The root's inode makes the root the one inode in use.
LEMMA OwnRInode ==
  ASSUME Sound, Sound', OwnInv, RInode
  PROVE  OwnInv' /\ Stays
<1>1. /\ pc = "r_inode" /\ pc' = "r_zero" /\ job' = job
      /\ itab' = [itab EXCEPT ![0] = job.node]
      /\ UNCHANGED <<dbbm, dibm, blk, mem, saved>>
  BY DEF ghost, RInode, Goto
<1>2. Blank /\ saved = {} /\ ~Rooted /\ cwd = 0 /\ 0 \in dibm
  BY <1>1 DEF OwnInv, RootInv, EarlyPlaces
<1>3. PICK b \in DataBlocks : b \in dbbm /\ job.node = FreshInode(2, b)
  BY <1>1 DEF OwnInv, JobInv, RootJobOK
<1>4. job.op # "dl"
  BY <1>1, HeldOutsideDl
<1>5. itab'[0] = FreshInode(2, b) /\ 0 \in Inodes
  BY <1>1, <1>3, StateTypes, BaseTypes
<1>6. /\ b # 0 /\ itab'[0].type = 2 /\ itab'[0].single = 0
      /\ itab'[0].direct = [i \in Direct |-> IF i = 0 THEN b ELSE 0]
      /\ itab'[0].direct[0] = b
  <2>1. itab'[0].direct = [i \in Direct |-> IF i = 0 THEN b ELSE 0] /\ itab'[0].single = 0
    BY <1>5, FreshFields
  <2>2. itab'[0].type = 2
    BY <1>5 DEF FreshInode, NoInode
  <2> QED BY <2>1, <2>2, BlocksAssumption, BaseTypes
<1>7. Pointers(0)' = {b} /\ Owned(0)' = {b}
  <2>1. Pointers(0)' = {b}
    BY <1>6, BaseTypes DEF Pointers
  <2> QED BY <1>6, <2>1 DEF Owned
<1>8. \A i : Ents(i)' = {}
  <2>1. \A i : Ents(i) = {}
    BY <1>2, BlankHoldsNothing
  <2> QED BY <1>1, <2>1 DEF Ents
<1>9. \A i \in Inodes : Held(i)' => i = 0
  BY <1>1, <1>2, <1>8 DEF Held, Kept, HoldPlaces, mem
<1>10. Good(0)'
  BY <1>1, <1>2, <1>3, <1>6, <1>7 DEF Good, PtrOK
<1>11. Own'
  <2>1. Named'
    BY <1>1 DEF OwnInv, Own, Named
  <2> QED BY <1>8, <1>9, <1>10, <2>1 DEF Own, Marked, Apart, OneEntry
<1>12. RootInv'
  BY <1>1, <1>2, <1>6 DEF RootInv, Rooted, EarlyPlaces, Waiting, mem
<1>13. RootJobOK'
  BY <1>1, <1>3, <1>5, <1>6 DEF RootJobOK
<1>14. JobInv'
  BY <1>1, <1>4, <1>13
  DEF JobInv, MakingOK, FreshOK, AddingOK, AddOK, GrowOK, PutOK, WriteOK, NodeOK, ZeroOK,
      InodeOK, PtrPlaceOK, DlOK, DlNodeOK, OpOK
<1>15. Stays
  <2>1. FilesStay
    BY <1>1, <1>2, <1>9 DEF FilesStay
  <2>2. EntriesStay
    BY <1>2, <1>9 DEF EntriesStay, Rooted
  <2> QED BY <2>1, <2>2 DEF Stays
<1> QED BY <1>11, <1>12, <1>14, <1>15 DEF OwnInv

\* zero_block() of the root's block.
LEMMA OwnRZero ==
  ASSUME Sound, Sound', OwnInv, RZero
  PROVE  OwnInv' /\ Stays
<1>1. /\ pc = "r_zero" /\ blk' = [blk EXCEPT ![job.node.direct[0]] = ZeroBlock]
      /\ UNCHANGED <<dbbm, dibm, itab, mem, saved>>
  BY DEF ghost, RZero
<1>2. Rooted /\ job.node = itab[0] /\ job.node.direct[0] # 0
  BY <1>1 DEF OwnInv, RootInv, JobInv, RootJobOK, EarlyPlaces
<1>3. job.op # "dl"
  BY <1>1, HeldOutsideDl
<1>4. PICK b \in DataBlocks : b = job.node.direct[0] /\ b \in Pointers(0)
  BY <1>2, StateTypes, BaseTypes DEF Pointers, Ptr
<1>5. \A i \in Inodes : Held(i) => itab[i].single # b
  BY <1>2, <1>4, DirsAreHeld, DirBlockPointsNowhere, BaseTypes
<1>6. OneEntry' /\ Named' /\ \A i : Ents(i)' \subseteq Ents(i)
  <2>1. ZeroBlock \in [Cells -> Cell] /\ \A s \in Cells : ZeroBlock[s].t \notin Names
    BY NamesAssumption, BaseTypes DEF ZeroBlock, Zero
  <2>2. \A d \in DataBlocks, s \in Cells : blk'[d][s] = blk[d][s] \/ blk'[d][s].t \notin Names
    BY <1>1, <1>4, <2>1, StateTypes
  <2> QED BY <2>2, EntsShrink DEF OwnInv, Own
<1>7. /\ pc' = "defdirs" => job'.op \in Formats
      /\ pc' = "defdirs" \/ (pc' = "idle" /\ job'.op = "none")
  BY DEF RZero, AfterRoot, Goto, Finish, NoJob, Sound, TypeOK, Job
<1>8. \A i \in Inodes : Held(i)' => Held(i)
  BY <1>1, <1>3, <1>6, <1>7, HeldWithin DEF HoldPlaces, mem
<1>9. Own'
  <2>1. \A d \in DataBlocks \ {b} : blk'[d] = blk[d]
    BY <1>1, <1>4, StateTypes
  <2>2. \A i \in Inodes : Held(i) => i \in dibm' /\ Owned(i) \subseteq dbbm'
    BY <1>1 DEF OwnInv, Own, Marked, Good
  <2>3. Marked' /\ Apart'
    BY <1>1, <1>5, <1>8, <2>1, <2>2, KeepOwned DEF OwnInv, Own
  <2> QED BY <1>6, <2>3 DEF Own
<1>10. RootInv'
  BY <1>1, <1>2, <1>7, DirsAreHeld DEF RootInv, Rooted, EarlyPlaces, Waiting, mem
<1>11. JobInv'
  BY <1>7
  DEF JobInv, MakingOK, FreshOK, AddingOK, AddOK, GrowOK, PutOK, WriteOK, NodeOK, ZeroOK,
      InodeOK, PtrPlaceOK, DlOK, DlNodeOK, OpOK, RootJobOK, Formats
<1>12. Stays
  <2>1. \A d \in DataBlocks \ {b} : blk'[d] = blk[d]
    BY <1>1, <1>4, StateTypes
  <2>2. FilesStay
    BY <1>1, <1>2, <1>4, <1>8, <2>1, DirStepFilesStay, DirsAreHeld, BaseTypes
  <2>3. EntriesStay
    BY <1>1 DEF EntriesStay
  <2> QED BY <2>2, <2>3 DEF Stays
<1> QED BY <1>9, <1>10, <1>11, <1>12 DEF OwnInv

\* The next default directory.
LEMMA OwnDefDir ==
  ASSUME Sound, Sound', BitmapInv, OwnInv, DefDir
  PROVE  OwnInv' /\ Stays
<1>1. /\ pc = "defdirs" /\ UNCHANGED <<sb, dbbm, itab, blk, up, bbm, cwd, saved>>
  BY DEF ghost, DefDir
<1>2. job.op # "dl" /\ job.op \in Formats /\ \A i : i # 0 /\ Ents(i) # {} => Held(i)
  BY <1>1, HeldOutsideDl DEF OwnInv, JobInv, OpOK
<1>3. ibm = dibm /\ bbm = dbbm /\ up
  BY <1>1 DEF BitmapInv, InQformat
<1>4. 0 \in dibm
  BY <1>1 DEF OwnInv, RootInv
<1>5. CASE FreeInodes = {}
  <2>1. pc' = "defdirs" /\ UNCHANGED dibm /\ job' = [job EXCEPT !.k = job.k + 1]
    BY <1>5 DEF DefDir, Goto
  <2>2. job'.op = job.op
    BY <2>1 DEF Sound, TypeOK, Job
  <2>3. Own' /\ Stays
    <3>1. \A i \in Inodes : Held(i) => i \in dibm' /\ Owned(i) \subseteq dbbm'
      BY <1>1, <2>1 DEF OwnInv, Own, Marked, Good
    <3> QED BY <1>1, <1>2, <2>1, <3>1, QuietStep, DirsAreHeld DEF HoldPlaces
  <2>4. RootInv'
    BY <1>1, <2>1 DEF OwnInv, RootInv, Rooted, Blank, Waiting, EarlyPlaces
  <2>5. JobInv'
    BY <1>2, <2>1, <2>2
    DEF JobInv, MakingOK, FreshOK, AddingOK, AddOK, GrowOK, PutOK, WriteOK, NodeOK, ZeroOK,
        InodeOK, PtrPlaceOK, DlOK, DlNodeOK, OpOK, RootJobOK
  <2> QED BY <2>3, <2>4, <2>5 DEF OwnInv
<1>6. CASE FreeInodes # {}
  <2>1. PICK x \in Inodes : x = Min(FreeInodes) /\ x \notin dibm
    BY <1>3, <1>6, MinIsLeast, BaseTypes DEF FreeInodes
  <2>2. /\ pc' = "new_block" /\ dibm' = ibm \cup {x}
        /\ job' = [job EXCEPT !.name = DefDirs[job.k + 1], !.home = 0, !.idx = x]
    BY <1>6, <2>1 DEF DefDir, Goto, save_inode_bitmap
  <2>3. job'.op = job.op /\ job'.home = 0 /\ job'.idx = x
    BY <2>2 DEF Sound, TypeOK, Job
  <2>4. ~Held(x)
    BY <2>1 DEF OwnInv, Own, Marked, Good
  <2>5. x \notin {0, cwd} /\ Ents(x) = {} /\ ~Kept(x)
    BY <1>2, <1>4, <2>1, <2>4, DirsAreHeld DEF OwnInv, RootInv, Held
  <2>6. Own' /\ Stays /\ \A i : Ents(i)' = Ents(i)
    <3>1. \A i \in Inodes : Held(i) => i \in dibm' /\ Owned(i) \subseteq dbbm'
      BY <1>1, <1>3, <2>2 DEF OwnInv, Own, Marked, Good
    <3> QED BY <1>1, <1>2, <2>2, <3>1, QuietStep, DirsAreHeld DEF HoldPlaces
  <2>7. RootInv'
    BY <1>1, <1>3, <1>4, <2>2 DEF OwnInv, RootInv, Rooted, Blank, Waiting, EarlyPlaces
  <2>8. MakingOK'
    BY <1>1, <1>2, <2>2, <2>3, <2>5, <2>6 DEF MakingOK, Creates, RoomThere, Kept
  <2>9. JobInv'
    BY <1>2, <2>2, <2>3, <2>8
    DEF JobInv, FreshOK, AddingOK, AddOK, GrowOK, PutOK, WriteOK, NodeOK, ZeroOK,
        InodeOK, PtrPlaceOK, DlOK, DlNodeOK, OpOK, RootJobOK
  <2> QED BY <2>6, <2>7, <2>9 DEF OwnInv
<1> QED BY <1>5, <1>6

-----------------------------------------------------------------------------
(* A file or a directory is made                                           *)

\* The first block of a new file: marked, and nobody's until its inode is written.
LEMMA OwnNewBlock ==
  ASSUME Sound, Sound', BitmapInv, OwnInv, NewBlockStep
  PROVE  OwnInv' /\ Stays
<1>1. /\ pc = "new_block" /\ UNCHANGED <<itab, blk, up, cwd, saved>>
  BY DEF ghost, NewBlockStep
<1>2. /\ job.op \in Creates /\ job.idx \notin {0, cwd} /\ job.idx \in dibm
      /\ Ents(job.idx) = {} /\ ~Kept(job.idx)
      /\ job.home \in {0, cwd} /\ RoomThere(itab[job.home])
  BY <1>1 DEF OwnInv, JobInv, MakingOK
<1>3. job.op # "dl" /\ job.idx \in Inodes
  BY <1>1, HeldOutsideDl DEF Sound, TypeOK, Job
<1>4. ibm = dibm /\ bbm = dbbm
  BY <1>1 DEF BitmapInv, InQformat
<1>5. 0 \in dibm
  BY <1>1 DEF OwnInv, RootInv
<1>6. ~Held(job.idx)
  BY <1>1, <1>2 DEF Held, HoldPlaces
<1>7. CASE NewBlock = 0
  <2>1. UNCHANGED dbbm /\ UNCHANGED bbm /\ dibm' = ibm \ {job.idx}
    BY <1>7 DEF NewBlockStep, free_inode, save_inode_bitmap
  <2>2. /\ pc' = "defdirs" => job'.op \in Formats
        /\ pc' = "defdirs" \/ (pc' = "idle" /\ job'.op = "none")
    BY <1>7 DEF NewBlockStep, Goto, Finish, NoJob, Sound, TypeOK, Job
  <2>3. Own' /\ Stays
    <3>1. \A i \in Inodes : Held(i) => i \in dibm' /\ Owned(i) \subseteq dbbm'
      BY <1>4, <1>6, <2>1 DEF OwnInv, Own, Marked, Good
    <3> QED BY <1>1, <1>3, <2>2, <3>1, QuietStep, DirsAreHeld DEF HoldPlaces
  <2>4. RootInv'
    BY <1>1, <1>2, <1>4, <1>5, <2>1, <2>2
    DEF OwnInv, RootInv, Rooted, Blank, Waiting, EarlyPlaces
  <2>5. JobInv'
    BY <2>2
    DEF JobInv, MakingOK, FreshOK, AddingOK, AddOK, GrowOK, PutOK, WriteOK, NodeOK, ZeroOK,
        InodeOK, PtrPlaceOK, DlOK, DlNodeOK, OpOK, RootJobOK, Formats
  <2> QED BY <2>3, <2>4, <2>5 DEF OwnInv
<1>8. CASE NewBlock # 0
  <2>1. /\ alloc_block /\ UNCHANGED dibm /\ pc' = "new_inode"
        /\ job' = [job EXCEPT !.node = FreshInode(Kind, NewBlock)]
    BY <1>8 DEF NewBlockStep, Goto, Kind
  <2>2. /\ job'.op = job.op /\ job'.idx = job.idx /\ job'.home = job.home
        /\ job'.node = FreshInode(Kind, NewBlock)
    BY <2>1 DEF Sound, TypeOK, Job
  <2>3. /\ NewBlock \in DataBlocks /\ NewBlock \in dbbm' /\ dbbm \subseteq dbbm'
        /\ \A i \in Inodes : Held(i) => NewBlock \notin Owned(i)
    BY <1>4, <1>8, <2>1, NewBlockIsSpare
  <2>4. Rooted
    <3>1. NewBlock \notin bbm
      BY <1>8, NewBlockIsFree DEF Sound, TypeOK, MemType
    <3> QED BY <1>1, <2>3, <3>1 DEF OwnInv, RootInv
  <2>5. /\ Own' /\ Stays /\ \A i : Ents(i)' = Ents(i)
        /\ \A i \in Inodes : (Held(i)' => Held(i)) /\ Owned(i)' = Owned(i)
    <3>1. \A i \in Inodes : Held(i) => i \in dibm' /\ Owned(i) \subseteq dbbm'
      BY <2>1, <2>3 DEF OwnInv, Own, Marked, Good
    <3> QED BY <1>1, <1>3, <2>1, <3>1, QuietStep, DirsAreHeld DEF HoldPlaces
  <2>6. RootInv'
    BY <1>1, <2>1, <2>4 DEF OwnInv, RootInv, Rooted, Waiting, EarlyPlaces
  <2>7. MakingOK'
    <3>1. Grows(itab[job.home])' = Grows(itab[job.home])
      BY <1>1, <2>2 DEF Grows, AddStops, FreeCells
    <3> QED BY <1>1, <1>2, <2>1, <2>2, <2>5, <3>1 DEF MakingOK, RoomThere, Kept
  <2>8. FreshOK'
    <3>1. PICK b \in DataBlocks : b = NewBlock
      BY <2>3
    <3>2. Spare(b)'
      BY <2>3, <2>5, <3>1 DEF Spare
    <3>3. job'.node = FreshInode(Kind', b)
      BY <2>2, <3>1 DEF Kind
    <3> QED BY <3>2, <3>3 DEF FreshOK, FreshInode
  <2>9. JobInv'
    BY <1>3, <2>1, <2>2, <2>7, <2>8
    DEF JobInv, AddingOK, AddOK, GrowOK, PutOK, WriteOK, NodeOK, ZeroOK,
        InodeOK, PtrPlaceOK, DlOK, DlNodeOK, OpOK, RootJobOK
  <2> QED BY <2>5, <2>6, <2>9 DEF OwnInv
<1> QED BY <1>7, <1>8

\* The new inode owns its one block, and no other.
LEMMA OwnNewInode ==
  ASSUME Sound, Sound', BitmapInv, OwnInv, NewInodeStep
  PROVE  OwnInv' /\ Stays
<1>1. /\ pc = "new_inode" /\ pc' = "dir_add"
      /\ itab' = [itab EXCEPT ![job.idx] = job.node]
      /\ job' = [job EXCEPT !.dir = itab'[job.home]]
      /\ UNCHANGED <<dbbm, dibm, blk, mem, saved>>
  BY DEF ghost, NewInodeStep, Goto
<1>2. /\ job.op \in Creates /\ job.idx \notin {0, cwd} /\ job.idx \in dibm
      /\ Ents(job.idx) = {} /\ ~Kept(job.idx)
      /\ job.home \in {0, cwd} /\ RoomThere(itab[job.home])
  BY <1>1 DEF OwnInv, JobInv, MakingOK
<1>3. PICK b \in DataBlocks : Spare(b) /\ job.node = FreshInode(Kind, b)
  BY <1>1 DEF OwnInv, JobInv, FreshOK
<1>4. PICK x \in Inodes : x = job.idx
  BY DEF Sound, TypeOK, Job
<1>5. job.op # "dl" /\ Rooted
  BY <1>1, HeldOutsideDl DEF OwnInv, RootInv, EarlyPlaces
<1>6. /\ job'.op = job.op /\ job'.idx = x /\ job'.home = job.home
      /\ job'.dir = itab[job.home]
  <2>1. /\ job'.op = job.op /\ job'.idx = x /\ job'.home = job.home
        /\ job'.dir = itab'[job.home]
    BY <1>1, <1>4 DEF Sound, TypeOK, Job
  <2> QED BY <1>1, <1>2, <2>1, StateTypes, BaseTypes
<1>7. itab'[x] = job.node /\ \A i \in Inodes \ {x} : itab'[i] = itab[i]
  BY <1>1, <1>4, StateTypes
<1>8. /\ b # 0 /\ itab'[x].type = Kind /\ itab'[x].single = 0
      /\ itab'[x].direct = [i \in Direct |-> IF i = 0 THEN b ELSE 0]
  <2>1. itab'[x].direct = [i \in Direct |-> IF i = 0 THEN b ELSE 0] /\ itab'[x].single = 0
    BY <1>3, <1>7, FreshFields
  <2>2. itab'[x].type = Kind
    BY <1>3, <1>7 DEF FreshInode, NoInode
  <2> QED BY <2>1, <2>2, BlocksAssumption
<1>9. Pointers(x)' = {b} /\ Owned(x)' = {b}
  <2>1. Pointers(x)' = {b}
    BY <1>8, BaseTypes DEF Pointers
  <2> QED BY <1>8, <2>1 DEF Owned
<1>10. Good(x)'
  BY <1>1, <1>2, <1>3, <1>4, <1>8, <1>9 DEF Good, PtrOK, Kind, Spare
<1>11. \A i : Ents(i)' = Ents(i)
  BY <1>1 DEF Ents
<1>12. \A i \in Inodes \ {x} : Held(i)' => Held(i)
  <2>1. Rooted' = Rooted
    BY <1>2, <1>4, <1>7, BaseTypes DEF Rooted
  <2> QED BY <1>1, <1>5, <1>6, <1>11, <2>1 DEF Held, Kept, mem
<1>13. Own'
  <2>1. \A i \in Inodes \ {x} : Held(i) => 0 \notin Owned(i) /\ b \notin Owned(i)
    BY <1>3, OwnedIsNotZero DEF Spare
  <2>2. \A i \in Inodes : Held(i) => i \in dibm' /\ Owned(i) \subseteq dbbm'
    BY <1>1 DEF OwnInv, Own, Marked, Good
  <2>3. Marked' /\ Apart'
    BY <1>1, <1>7, <1>9, <1>10, <1>12, <2>1, <2>2, GainOwned DEF OwnInv, Own
  <2>4. OneEntry' /\ Named'
    BY <1>1, EntsShrink DEF OwnInv, Own
  <2> QED BY <2>3, <2>4 DEF Own
<1>14. RootInv'
  <2>1. cwd # x /\ 0 # x /\ 0 \in Inodes /\ cwd \in Inodes
    BY <1>2, <1>4, BaseTypes, StateTypes
  <2> QED BY <1>1, <1>5, <1>7, <2>1 DEF OwnInv, RootInv, Rooted, Waiting, EarlyPlaces, mem
<1>15. AddingOK'
  BY <1>1, <1>2, <1>4, <1>6, <1>8, <1>11 DEF AddingOK, Kind, mem
<1>16. AddOK'
  <2>1. job'.dir = itab'[job'.home]
    BY <1>1, <1>6 DEF Sound, TypeOK, Job
  <2>2. Grows(job.dir)' = Grows(itab[job.home])
    <3>1. job'.dir = itab[job.home] /\ blk' = blk
      BY <1>1, <1>6
    <3> QED BY ONLY <3>1 DEF Grows, AddStops, FreeCells
  <2> QED BY <1>1, <1>2, <1>6, <2>1, <2>2 DEF AddOK, RoomThere
<1>17. JobInv'
  BY <1>1, <1>5, <1>6, <1>15, <1>16
  DEF JobInv, MakingOK, FreshOK, GrowOK, PutOK, WriteOK, NodeOK, ZeroOK,
      InodeOK, PtrPlaceOK, DlOK, DlNodeOK, OpOK, RootJobOK
<1>18. Stays
  <2>1. ~Held(x)
    BY <1>1, <1>2, <1>4 DEF Held, HoldPlaces
  <2>2. \A i \in Inodes \ {job.idx} : /\ itab'[i] = itab[i] /\ (Held(i)' => Held(i))
                                      /\ (Held(i) => 0 \notin Owned(i))
    BY <1>4, <1>7, <1>12, OwnedIsNotZero
  <2> QED BY <1>1, <1>4, <2>1, <2>2, FileStepStays DEF WritePlaces
<1> QED BY <1>13, <1>14, <1>17, <1>18 DEF OwnInv

\* What the caller of dir_add knows when it goes on.
LEMMA OwnAfterAdd ==
  ASSUME Sound, Sound', OwnInv, pc \in {"dir_add", "dir_put"}, NEW ok, AfterAdd(ok),
         UNCHANGED <<itab, dibm, up, cwd, saved>>
  PROVE  /\ RootInv' /\ JobInv' /\ (pc' \in HoldPlaces => job'.idx = job.idx)
         /\ Rooted /\ pc' \in {"fw", "defdirs", "idle"}
<1>1. /\ job.op \in Creates /\ (job.op \in FileOps => itab[job.idx].type = 1)
      /\ job.home \in {0, cwd}
  BY DEF OwnInv, JobInv, AddingOK
<1>2. Rooted /\ 0 \in dibm
  <2>1. Rooted
    BY DEF OwnInv, RootInv, EarlyPlaces
  <2> QED BY <2>1, DirsAreHeld
<1>3. CASE job.op \in FileOps
  <2>1. /\ pc' = "fw"
        /\ job' = [job EXCEPT !.k = 0, !.node = itab[job.idx], !.seen = ok,
                              !.off = IF job.op = "wr" THEN itab[job.idx].size ELSE 0]
    BY <1>3 DEF AfterAdd, FileOps, Formats, Goto
  <2>2. /\ job'.op = job.op /\ job'.idx = job.idx /\ job'.node = itab[job.idx]
        /\ job'.home = job.home
    BY <2>1 DEF Sound, TypeOK, Job
  <2>3. RootInv'
    BY <1>2, <2>1 DEF OwnInv, RootInv, Rooted, EarlyPlaces, Waiting
  <2>4. JobInv'
    BY <1>1, <1>3, <2>1, <2>2
    DEF JobInv, MakingOK, FreshOK, AddingOK, AddOK, GrowOK, PutOK, WriteOK, NodeOK, ZeroOK,
        InodeOK, PtrPlaceOK, DlOK, DlNodeOK, OpOK, RootJobOK, FileOps
  <2> QED BY <1>2, <2>1, <2>2, <2>3, <2>4
<1>4. CASE job.op \notin FileOps
  <2>1. /\ pc' = "defdirs" => job'.op \in Formats
        /\ pc' = "defdirs" \/ (pc' = "idle" /\ job'.op = "none")
    BY <1>4 DEF AfterAdd, Goto, Finish, NoJob, Sound, TypeOK, Job
  <2>2. RootInv'
    BY <1>2, <2>1 DEF OwnInv, RootInv, Rooted, EarlyPlaces, Waiting
  <2>3. JobInv'
    BY <2>1
    DEF JobInv, MakingOK, FreshOK, AddingOK, AddOK, GrowOK, PutOK, WriteOK, NodeOK, ZeroOK,
        InodeOK, PtrPlaceOK, DlOK, DlNodeOK, OpOK, RootJobOK, Formats
  <2> QED BY <1>2, <2>1, <2>2, <2>3 DEF HoldPlaces
<1> QED BY <1>3, <1>4

\* The entry is written into a block of a directory in use.
LEMMA OwnEnter ==
  ASSUME Sound, Sound', OwnInv, pc \in {"dir_add", "dir_put"}, AfterAdd(TRUE),
         UNCHANGED <<itab, dbbm, dibm, up, cwd, saved>>,
         NEW d \in {0, cwd}, NEW b \in Pointers(d), NEW q \in Cells,
         \A p \in DataBlocks \ {b} : blk'[p] = blk[p],
         blk'[b][q] = Entry(job.name, job.idx),
         \A s \in Cells \ {q} : blk'[b][s] = blk[b][s] \/ blk'[b][s].t \notin Names,
         \/ pc = "dir_put" /\ b = job.ptr
         \/ /\ pc = "dir_add" /\ blk[b][q].w = 0
            /\ \A s \in Cells \ {q} : blk'[b][s] = blk[b][s]
  PROVE  OwnInv' /\ Stays
<1>1. /\ job.op \in Creates /\ job.idx # 0 /\ Ents(job.idx) = {}
  BY DEF OwnInv, JobInv, AddingOK
<1>2. job.op # "dl"
  BY HeldOutsideDl
<1>3. PICK x \in Inodes : x = job.idx /\ Held(x)
  BY DEF Sound, TypeOK, Job, Held, HoldPlaces
<1>4. /\ RootInv' /\ JobInv' /\ (pc' \in HoldPlaces => job'.idx = job.idx) /\ Rooted
      /\ pc' # "dir_put"
  BY OwnAfterAdd
<1>5. d \in Inodes /\ Held(d) /\ itab[d].type = 2
  BY <1>4, DirsAreHeld, StateTypes, BaseTypes
<1>6. b \in DataBlocks /\ \A i \in Inodes : Held(i) => itab[i].single # b
  BY <1>5, DirBlockPointsNowhere
<1>7. OneEntry' /\ Named' /\ \A i : i # x => Ents(i)' \subseteq Ents(i)
  <2>1. \A p \in DataBlocks, s \in Cells :
           (p = b /\ s = q) \/ blk'[p][s] = blk[p][s] \/ blk'[p][s].t \notin Names
    BY <1>6
  <2> QED BY <1>1, <1>3, <1>6, <2>1, EntsAdd DEF OwnInv, Own
<1>8. \A i \in Inodes : Held(i)' => Held(i)
  <2> SUFFICES ASSUME NEW i \in Inodes \ {x}, Held(i)' PROVE Held(i)
    BY <1>3
  <2> QED BY <1>2, <1>3, <1>4, <1>7 DEF Held, Kept, Rooted
<1>9. Marked' /\ Apart'
  <2>1. \A i \in Inodes : Held(i) => i \in dibm' /\ Owned(i) \subseteq dbbm'
    BY DEF OwnInv, Own, Marked, Good
  <2> QED BY <1>6, <1>8, <2>1, KeepOwned DEF OwnInv, Own
<1>10. EntriesStay
  <2> SUFFICES ASSUME NEW h \in Inodes, NEW n \in Names, NEW y \in Inodes \ {0},
                      EntryOf(h, n, y)
               PROVE  EntryOf(h, n, y)'
    BY DEF EntriesStay
  <2>1. PICK e \in Direct, s \in Cells :
          /\ itab[h].direct[e] # 0 /\ blk[itab[h].direct[e]][s] = Entry(n, y)
          /\ pc = "dir_put" => itab[h].direct[e] # job.ptr
    BY DEF EntryOf
  <2>2. itab[h].direct[e] \in DataBlocks
    BY <2>1, StateTypes DEF Ptr
  <2>3. blk'[itab[h].direct[e]][s] = blk[itab[h].direct[e]][s]
    <3>1. CASE itab[h].direct[e] = b
      <4>1. s # q
        BY <2>1, <3>1 DEF Entry
      <4> QED BY <2>1, <3>1, <4>1
    <3>2. CASE itab[h].direct[e] # b
      BY <2>2, <3>2
    <3> QED BY <3>1, <3>2
  <2>4. itab'[h].direct[e] # 0 /\ blk'[itab'[h].direct[e]][s] = Entry(n, y)
    BY <2>1, <2>3
  <2> QED BY <1>4, <2>4 DEF EntryOf
<1>11. FilesStay
  BY <1>5, <1>8, DirStepFilesStay
<1> QED BY <1>4, <1>7, <1>9, <1>10, <1>11 DEF OwnInv, Own, Stays

\* The entry in the block the directory was just given.
LEMMA OwnDirPut ==
  ASSUME Sound, Sound', OwnInv, DirPut
  PROVE  OwnInv' /\ Stays
<1>1. /\ pc = "dir_put" /\ AfterAdd(TRUE) /\ UNCHANGED <<itab, dbbm, dibm, up, cwd, saved>>
      /\ blk' = [blk EXCEPT ![job.ptr] = [ZeroBlock EXCEPT ![0] = Entry(job.name, job.idx)]]
  BY DEF ghost, DirPut, mem
<1>2. job.home \in {0, cwd} /\ job.ptr \in Pointers(job.home) /\ job.ptr # 0
  BY <1>1 DEF OwnInv, JobInv, AddingOK, PutOK
<1>3. job.ptr \in DataBlocks
  BY <1>2 DEF Sound, TypeOK, Job, Ptr
<1>4. PICK d \in {0, cwd} : d = job.home
  BY <1>2
<1>5. PICK b \in Pointers(d) : b = job.ptr
  BY <1>2, <1>4
<1>6. b \in DataBlocks /\ 0 \in Cells
  BY <1>3, <1>5, BaseTypes
<1>7. blk'[b] = [ZeroBlock EXCEPT ![0] = Entry(job.name, job.idx)]
      /\ \A p \in DataBlocks \ {b} : blk'[p] = blk[p]
  BY <1>1, <1>5, <1>6, StateTypes
<1>8. /\ blk'[b][0] = Entry(job.name, job.idx)
      /\ \A s \in Cells \ {0} : blk'[b][s].t \notin Names
  BY <1>6, <1>7, NamesAssumption DEF ZeroBlock, Zero
<1> QED BY <1>1, <1>5, <1>6, <1>7, <1>8, OwnEnter

\* The directory has given its new block to the entry that is coming.
LEMMA OwnDirGrow ==
  ASSUME Sound, Sound', OwnInv, DirGrow
  PROVE  OwnInv' /\ Stays
<1>1. /\ pc = "dir_grow" /\ pc' = "dir_put" /\ job' = job
      /\ itab' = [itab EXCEPT ![DirInodeId] = job.dir]
      /\ UNCHANGED <<dbbm, dibm, blk, mem, saved>>
  BY DEF ghost, DirGrow, Goto
<1>2. /\ job.op \in Creates /\ job.idx \notin {0, cwd} /\ Ents(job.idx) = {}
      /\ job.home \in {0, cwd} /\ (job.op \in FileOps => itab[job.idx].type = 1)
      /\ DirInodeId = job.home /\ job.ptr # 0 /\ Spare(job.ptr)
  BY <1>1 DEF OwnInv, JobInv, AddingOK, GrowOK
<1>3. PICK a \in Direct :
        itab[job.home].direct[a] = 0 /\ job.dir = [itab[job.home] EXCEPT !.direct[a] = job.ptr]
  BY <1>1 DEF OwnInv, JobInv, GrowOK
<1>4. PICK x \in Inodes, b \in DataBlocks : x = job.home /\ b = job.ptr
  BY <1>2 DEF Sound, TypeOK, Job, Ptr
<1>5. job.op # "dl" /\ Rooted
  BY <1>1, HeldOutsideDl DEF OwnInv, RootInv, EarlyPlaces
<1>6. Held(x) /\ itab[x].type = 2 /\ itab[x].single = 0
  BY <1>2, <1>4, <1>5, DirsAreHeld
<1>7. /\ itab'[x].direct = [itab[x].direct EXCEPT ![a] = b] /\ itab'[x].single = 0
      /\ itab'[x].type = 2 /\ \A i \in Inodes \ {x} : itab'[i] = itab[i]
  <2>1. itab'[x] = [itab[x] EXCEPT !.direct = [itab[x].direct EXCEPT ![a] = b]]
    BY <1>1, <1>2, <1>3, <1>4, StateTypes
  <2>2. \A i \in Inodes \ {x} : itab'[i] = itab[i]
    BY <1>1, <1>2, <1>4, StateTypes
  <2>3. itab[x] \in Inode
    BY StateTypes
  <2> QED BY <1>6, <2>1, <2>2, <2>3 DEF Inode
<1>8. Pointers(x)' \subseteq Pointers(x) \cup {b} /\ b \in Pointers(x)'
  <2>1. itab'[x].direct[a] = b /\ \A e \in Direct \ {a} : itab'[x].direct[e] = itab[x].direct[e]
    BY <1>7, StateTypes
  <2>2. b # 0
    BY BlocksAssumption
  <2> QED BY <2>1, <2>2 DEF Pointers
<1>9. Owned(x)' = Pointers(x)' /\ Owned(x) = Pointers(x)
  BY <1>6, <1>7 DEF Owned
<1>10. Good(x)'
  <2>1. Good(x)
    BY <1>6 DEF OwnInv, Own, Marked
  <2> QED BY <1>1, <1>2, <1>4, <1>7, <1>8, <1>9, <2>1 DEF Good, PtrOK, Spare
<1>11. \A i : Ents(i)' = Ents(i)
  BY <1>1 DEF Ents
<1>12. \A i \in Inodes : itab'[i].type = itab[i].type
  BY <1>6, <1>7
<1>13. \A i \in Inodes : Held(i)' => Held(i)
  BY <1>1, <1>5, <1>11, <1>12, HeldWithin, BaseTypes DEF mem, Held, HoldPlaces
<1>14. Own'
  <2>1. \A i \in Inodes \ {x} : Held(i) => b \notin Owned(i) /\ 0 \notin Owned(i)
    BY <1>2, <1>4, OwnedIsNotZero DEF Spare
  <2>2. \A i \in Inodes : Held(i) => i \in dibm' /\ Owned(i) \subseteq dbbm'
    BY <1>1 DEF OwnInv, Own, Marked, Good
  <2>3. \A i \in Inodes \ {x} : Held(i) => Owned(x)' \cap Owned(i) = {}
    BY <1>6, <1>8, <1>9, <2>1 DEF OwnInv, Own, Apart
  <2>4. Marked' /\ Apart'
    BY <1>1, <1>7, <1>10, <1>13, <2>1, <2>2, <2>3, GainOwned DEF OwnInv, Own
  <2>5. OneEntry' /\ Named'
    BY <1>1, EntsShrink DEF OwnInv, Own
  <2> QED BY <2>4, <2>5 DEF Own
<1>15. RootInv'
  BY <1>1, <1>5, <1>12, StateTypes, BaseTypes
  DEF OwnInv, RootInv, Rooted, Waiting, EarlyPlaces, mem
<1>16. AddingOK' /\ PutOK'
  <2>1. itab'[job.idx].type = itab[job.idx].type
    BY <1>12 DEF Sound, TypeOK, Job
  <2> QED BY <1>1, <1>2, <1>4, <1>8, <1>11, <2>1 DEF AddingOK, PutOK, mem
<1>17. JobInv'
  BY <1>1, <1>5, <1>16
  DEF JobInv, MakingOK, FreshOK, AddOK, GrowOK, WriteOK, NodeOK, ZeroOK,
      InodeOK, PtrPlaceOK, DlOK, DlNodeOK, OpOK, RootJobOK
<1>18. FilesStay
  BY <1>1, <1>6, <1>7, <1>13 DEF FilesStay
<1>19. EntriesStay
  <2> SUFFICES ASSUME NEW h \in Inodes, NEW n \in Names, NEW y \in Inodes \ {0},
                      Held(h), EntryOf(h, n, y)
               PROVE  EntryOf(h, n, y)'
    BY DEF EntriesStay
  <2>1. PICK e \in Direct, s \in Cells :
          itab[h].direct[e] # 0 /\ blk[itab[h].direct[e]][s] = Entry(n, y)
    BY DEF EntryOf
  <2>2. itab'[h].direct[e] = itab[h].direct[e]
    <3>1. CASE h = x
      <4>1. e # a
        BY <1>3, <1>4, <2>1, <3>1
      <4> QED BY <1>7, <2>1, <3>1, <4>1, StateTypes
    <3>2. CASE h # x
      BY <1>7, <3>2
    <3> QED BY <3>1, <3>2
  <2>3. itab[h].direct[e] # job'.ptr
    <3>1. itab[h].direct[e] \in Owned(h)
      BY <2>1 DEF Owned, Pointers
    <3> QED BY <1>1, <1>2, <3>1 DEF Spare
  <2> QED BY <1>1, <2>1, <2>2, <2>3 DEF EntryOf
<1> QED BY <1>14, <1>15, <1>17, <1>18, <1>19 DEF OwnInv, Stays

\* The entry in a free cell, or a block for the directory.
LEMMA OwnDirAdd ==
  ASSUME Sound, Sound', BitmapInv, OwnInv, DirAdd
  PROVE  OwnInv' /\ Stays
<1>1. pc = "dir_add" /\ UNCHANGED <<dibm, itab, up, cwd, saved>>
  BY DEF ghost, DirAdd
<1>2. /\ job.op \in Creates /\ job.idx \notin {0, cwd} /\ Ents(job.idx) = {}
      /\ job.home \in {0, cwd} /\ (job.op \in FileOps => itab[job.idx].type = 1)
      /\ job.dir = itab[job.home] /\ RoomThere(job.dir)
  BY <1>1 DEF OwnInv, JobInv, AddingOK, AddOK
<1>3. job.op # "dl" /\ Rooted /\ bbm = dbbm
  BY <1>1, HeldOutsideDl DEF OwnInv, RootInv, EarlyPlaces, BitmapInv, InQformat
<1>4. job.idx \in Inodes /\ job.home \in Inodes /\ Held(job.idx)
  BY <1>1 DEF Sound, TypeOK, Job, Held, HoldPlaces
<1>5. ASSUME NEW ok, AfterAdd(ok), UNCHANGED blk, dbbm \subseteq dbbm'
      PROVE  OwnInv' /\ Stays
  <2>1. /\ RootInv' /\ JobInv' /\ (pc' \in HoldPlaces => job'.idx = job.idx)
        /\ pc' # "dir_put"
    BY <1>1, <1>5, OwnAfterAdd
  <2>2. \A i \in Inodes : Held(i) => i \in dibm' /\ Owned(i) \subseteq dbbm'
    BY <1>1, <1>5 DEF OwnInv, Own, Marked, Good
  <2>3. Own' /\ Stays
    BY <1>1, <1>3, <1>4, <1>5, <2>1, <2>2, QuietStep, DirsAreHeld
  <2> QED BY <2>1, <2>3 DEF OwnInv
<1>6. CASE AddStops(job.dir) = {}
  BY <1>5, <1>6 DEF DirAdd
<1>7. CASE AddStops(job.dir) # {}
  <2>1. PICK a \in Direct : a = Min(AddStops(job.dir)) /\ a \in AddStops(job.dir)
    BY <1>7, MinIsLeast, BaseTypes DEF AddStops
  <2>2. CASE job.dir.direct[a] # 0
    <3>1. PICK d \in {0, cwd} : d = job.home
      BY <1>2
    <3>2. PICK b \in Pointers(d) : b = job.dir.direct[a]
      BY <1>2, <2>2, <3>1 DEF Pointers
    <3>3. /\ blk' = [blk EXCEPT ![b][Min(FreeCells(b))] = Entry(job.name, job.idx)]
          /\ AfterAdd(TRUE) /\ UNCHANGED <<bbm, dbbm>>
      BY <1>7, <2>1, <2>2, <3>2 DEF DirAdd
    <3>4. PICK q \in Cells : q = Min(FreeCells(b))
      <4>1. FreeCells(b) # {} /\ FreeCells(b) \subseteq Cells
        BY <2>1, <2>2, <3>2 DEF AddStops, FreeCells
      <4> QED BY <4>1, MinIsLeast, BaseTypes
    <3>5. b \in DataBlocks
      BY <1>3, <3>1, <3>2, DirBlockPointsNowhere, DirsAreHeld, StateTypes, BaseTypes
    <3>6. /\ blk'[b][q] = Entry(job.name, job.idx)
          /\ \A s \in Cells \ {q} : blk'[b][s] = blk[b][s]
          /\ \A p \in DataBlocks \ {b} : blk'[p] = blk[p]
      BY <3>3, <3>4, <3>5, StateTypes
    <3>7. UNCHANGED <<itab, dbbm, dibm, up, cwd, saved>>
      BY <1>1, <3>3
    <3>8. \A s \in Cells \ {q} : blk'[b][s] = blk[b][s] \/ blk'[b][s].t \notin Names
      BY <3>6
    <3>9. pc \in {"dir_add", "dir_put"} /\ AfterAdd(TRUE)
      BY <1>1, <3>3
    <3>10. \A p \in DataBlocks \ {b} : blk'[p] = blk[p]
      BY <3>6
    <3>11. blk'[b][q] = Entry(job.name, job.idx)
      BY <3>6
    <3>12. blk[b][q].w = 0 /\ \A s \in Cells \ {q} : blk'[b][s] = blk[b][s]
      <4>1. FreeCells(b) # {} /\ FreeCells(b) \subseteq Cells
        BY <2>1, <2>2, <3>2 DEF AddStops, FreeCells
      <4>2. q \in FreeCells(b)
        BY <3>4, <4>1, MinIsLeast, BaseTypes
      <4> QED BY <3>6, <4>2 DEF FreeCells
    <3> QED BY <1>1, <3>7, <3>8, <3>9, <3>10, <3>11, <3>12, OwnEnter, SMTT(60)
  <2>3. CASE job.dir.direct[a] = 0 /\ NewBlock = 0
    BY <1>3, <1>5, <1>7, <2>1, <2>3, AllocKeepsMarks DEF DirAdd
  <2>4. CASE job.dir.direct[a] = 0 /\ NewBlock # 0
    <3>1. /\ pc' = "dir_grow" /\ alloc_block /\ UNCHANGED blk
          /\ job' = [job EXCEPT !.dir.direct[a] = NewBlock, !.ptr = NewBlock]
      BY <1>7, <2>1, <2>4 DEF DirAdd, Goto
    <3>2. /\ NewBlock \in DataBlocks /\ NewBlock \in dbbm' /\ dbbm \subseteq dbbm'
          /\ \A i \in Inodes : Held(i) => NewBlock \notin Owned(i)
      BY <1>3, <2>4, <3>1, NewBlockIsSpare
    <3>3. /\ job'.op = job.op /\ job'.idx = job.idx /\ job'.home = job.home
          /\ job'.ptr = NewBlock /\ job'.dir = [job.dir EXCEPT !.direct[a] = NewBlock]
      BY <3>1 DEF Sound, TypeOK, Job
    <3>4. /\ Own' /\ Stays /\ \A i : Ents(i)' = Ents(i)
          /\ \A i \in Inodes : (Held(i)' => Held(i)) /\ Owned(i)' = Owned(i)
      <4>1. \A i \in Inodes : Held(i) => i \in dibm' /\ Owned(i) \subseteq dbbm'
        BY <1>1, <3>2 DEF OwnInv, Own, Marked, Good
      <4> QED BY <1>1, <1>3, <1>4, <3>1, <3>3, <4>1, QuietStep, DirsAreHeld
    <3>5. RootInv'
      BY <1>1, <1>3, <3>1 DEF OwnInv, RootInv, Rooted, Waiting, EarlyPlaces
    <3>6. DirInodeId' = job'.home
      <4>1. Grows(job.dir)
        BY <1>7, <2>1, <2>4 DEF Grows
      <4> QED BY <1>2, <3>3, <4>1 DEF DirInodeId, RoomThere
    <3>7. GrowOK'
      <4>1. Spare(job.ptr)'
        BY <3>2, <3>3, <3>4 DEF Spare
      <4>2. job'.dir = [itab'[job'.home] EXCEPT !.direct[a] = job'.ptr]
        BY <1>1, <1>2, <3>3
      <4>3. job'.ptr # 0 /\ itab'[job'.home].direct[a] = 0
        BY <1>1, <1>2, <2>4, <3>3
      <4> QED BY <3>6, <4>1, <4>2, <4>3 DEF GrowOK
    <3>8. AddingOK'
      BY <1>1, <1>2, <3>3, <3>4 DEF AddingOK
    <3>9. JobInv'
      BY <1>3, <3>1, <3>3, <3>7, <3>8
      DEF JobInv, MakingOK, FreshOK, AddOK, PutOK, WriteOK, NodeOK, ZeroOK,
          InodeOK, PtrPlaceOK, DlOK, DlNodeOK, OpOK, RootJobOK
    <3> QED BY <3>4, <3>5, <3>9 DEF OwnInv
  <2> QED BY <2>2, <2>3, <2>4
<1> QED BY <1>6, <1>7

-----------------------------------------------------------------------------
(* fs_write                                                                *)

\* What fs_write knows of the file it writes.
LEMMA WritingFacts ==
  ASSUME Sound, BitmapInv, OwnInv, pc \in {"fw", "fw_zero", "fw_inode", "fw_ptr"}
  PROVE  /\ job.op \in FileOps /\ job.op # "dl" /\ itab[job.idx].type = 1
         /\ job.idx \in Inodes /\ Held(job.idx) /\ Good(job.idx) /\ Rooted
         /\ job.idx # cwd /\ job.idx # 0 /\ bbm = dbbm
         /\ job.home \in {0, cwd}
<1>1. job.op \in FileOps /\ itab[job.idx].type = 1 /\ job.home \in {0, cwd}
  BY DEF OwnInv, JobInv, WriteOK
<1>2. job.idx \in Inodes /\ Held(job.idx)
  BY DEF Sound, TypeOK, Job, Held, HoldPlaces
<1>3. Rooted /\ itab[cwd].type = 2 /\ itab[0].type = 2
  BY DirsAreHeld DEF OwnInv, RootInv, EarlyPlaces
<1>4. bbm = dbbm
  BY DEF BitmapInv, InQformat
<1> QED BY <1>1, <1>2, <1>3, <1>4 DEF FileOps, OwnInv, Own, Marked

\* The place of the write in the file.
LEMMA PlaceInFile ==
  ASSUME Sound
  PROVE  /\ LB \in Nat /\ Pos \in Nat /\ (InDirect => LB \in Direct)
         /\ InSingle => PI \in Cells
<1>1. job.off \in Nat /\ job.k \in Nat
  BY FieldTypes DEF Sound
<1>2. Pos \in Nat
  BY <1>1 DEF Pos
<1>3. LB \in Nat
  BY <1>2, Division DEF LB
<1>4. InDirect => LB \in Direct
  BY <1>3, SizeAssumption DEF InDirect, Direct
<1>5. InSingle => PI \in Cells
  BY <1>3, SizeAssumption DEF InSingle, PI, Cells
<1> QED BY <1>2, <1>3, <1>4, <1>5

\* The root while a file is written.
LEMMA WritingKeepsRoot ==
  ASSUME Sound, OwnInv, Rooted, \A i \in Inodes : itab'[i].type = itab[i].type,
         UNCHANGED <<dibm, cwd>>,
         pc' \notin EarlyPlaces \cup {"new_block", "r_zero"}
  PROVE  RootInv'
BY DirsAreHeld, StateTypes, BaseTypes DEF OwnInv, RootInv, Rooted, EarlyPlaces

\* A block is taken for the file, and nothing points to it yet.
LEMMA OwnFwAlloc ==
  ASSUME Sound, Sound', BitmapInv, OwnInv, FwAllocDirect \/ FwAllocSingle \/ FwAllocPtr
  PROVE  OwnInv' /\ Stays
<1>1. /\ pc = "fw" /\ pc' \in {"fw_inode", "fw_zero", "fw_ptr"} /\ alloc_block
      /\ UNCHANGED <<dibm, itab, blk, cwd, saved>>
  BY DEF ghost, FwAllocDirect, FwAllocSingle, FwAllocPtr, Writing, Goto
<1>2. /\ job.op \in FileOps /\ job.op # "dl" /\ itab[job.idx].type = 1
      /\ job.idx \in Inodes /\ Held(job.idx) /\ Rooted /\ bbm = dbbm
      /\ job.home \in {0, cwd}
  BY <1>1, WritingFacts
<1>3. job.node = itab[job.idx]
  BY <1>1 DEF OwnInv, JobInv, NodeOK
<1>4. job'.op = job.op /\ job'.idx = job.idx /\ job'.home = job.home
  BY DEF FwAllocDirect, FwAllocSingle, FwAllocPtr, Goto, Sound, TypeOK, Job
<1>5. dbbm \subseteq dbbm'
  BY <1>1, <1>2, AllocKeepsMarks
<1>6. /\ Own' /\ Stays /\ \A i \in Inodes : (Held(i)' => Held(i)) /\ Owned(i)' = Owned(i)
  <2>1. \A i \in Inodes : Held(i) => i \in dibm' /\ Owned(i) \subseteq dbbm'
    BY <1>1, <1>5 DEF OwnInv, Own, Marked, Good
  <2> QED BY <1>1, <1>2, <1>4, <2>1, QuietStep, DirsAreHeld
<1>7. PICK b \in Ptr : b = NewBlock
  BY NewBlockIsFree DEF Sound, TypeOK, MemType
<1>8. b = 0 \/ Spare(b)'
  BY <1>1, <1>2, <1>6, <1>7, NewBlockIsSpare DEF Spare
<1>9. RootInv'
  BY <1>1, <1>2, WritingKeepsRoot DEF EarlyPlaces
<1>10. WriteOK'
  BY <1>1, <1>2, <1>4 DEF WriteOK
<1>11. CASE FwAllocDirect
  <2>1. /\ pc' = "fw_inode" /\ job' = [job EXCEPT !.node.direct[LB] = NewBlock] /\ InDirect
        /\ job.node.direct[LB] = 0
    BY <1>11 DEF FwAllocDirect, Goto
  <2>2. PICK d \in Direct : d = LB
    BY <2>1, PlaceInFile
  <2>3. job'.node = [itab[job.idx] EXCEPT !.direct[d] = b]
    BY <1>3, <1>7, <2>1, <2>2 DEF Sound, TypeOK, Job
  <2>4. InodeOK'
    <3>1. itab'[job'.idx].direct[d] = 0
      BY <1>1, <1>3, <1>4, <2>1, <2>2
    <3>2. job'.node = [itab'[job'.idx] EXCEPT !.direct[d] = b]
      BY <1>1, <1>4, <2>3
    <3> QED BY <1>8, <3>1, <3>2 DEF InodeOK
  <2>5. JobInv'
    BY <1>2, <1>4, <1>10, <2>1, <2>4
    DEF JobInv, MakingOK, FreshOK, AddingOK, AddOK, GrowOK, PutOK, NodeOK, ZeroOK,
        PtrPlaceOK, DlOK, DlNodeOK, OpOK, RootJobOK
  <2> QED BY <1>6, <1>9, <2>5 DEF OwnInv
<1>12. CASE FwAllocSingle
  <2>1. /\ pc' = "fw_zero" /\ job' = [job EXCEPT !.node.single = NewBlock]
        /\ job.node.single = 0
    BY <1>12 DEF FwAllocSingle, Goto
  <2>2. job'.node = [itab[job.idx] EXCEPT !.single = b]
    BY <1>3, <1>7, <2>1 DEF Sound, TypeOK, Job
  <2>3. job'.node.single = b
    BY <1>2, <2>2, StateTypes DEF Inode
  <2>4. ZeroOK'
    <3>1. job'.node.single = 0 \/ Spare(job.node.single)'
      BY <1>8, <2>3 DEF Spare
    <3> QED BY <1>1, <1>3, <1>4, <2>1, <2>2, <2>3, <3>1 DEF ZeroOK
  <2>5. JobInv'
    BY <1>2, <1>4, <1>10, <2>1, <2>4
    DEF JobInv, MakingOK, FreshOK, AddingOK, AddOK, GrowOK, PutOK, NodeOK, InodeOK,
        PtrPlaceOK, DlOK, DlNodeOK, OpOK, RootJobOK
  <2> QED BY <1>6, <1>9, <2>5 DEF OwnInv
<1>13. CASE FwAllocPtr
  <2>1. /\ pc' = "fw_ptr" /\ job' = [job EXCEPT !.ptr = NewBlock] /\ InSingle
        /\ job.node.single # 0 /\ blk[job.node.single][PI].w = 0
    BY <1>13, PlaceInFile, SizeAssumption DEF FwAllocPtr, Goto, Phys, InDirect, InSingle
  <2>2. /\ job'.node = job.node /\ job'.ptr = b /\ job'.off = job.off /\ job'.k = job.k
    BY <1>7, <2>1 DEF Sound, TypeOK, Job
  <2>3. PI' = PI
    BY <2>2 DEF PI, LB, Pos
  <2>4. PtrPlaceOK'
    <3>1. job'.ptr = 0 \/ Spare(job.ptr)'
      BY <1>8, <2>2 DEF Spare
    <3> QED BY <1>1, <2>1, <2>2, <2>3, <3>1, PlaceInFile DEF PtrPlaceOK, Cells
  <2>5. NodeOK'
    BY <1>1, <1>3, <1>4, <2>2 DEF NodeOK
  <2>6. JobInv'
    BY <1>2, <1>4, <1>10, <2>1, <2>4, <2>5
    DEF JobInv, MakingOK, FreshOK, AddingOK, AddOK, GrowOK, PutOK, ZeroOK, InodeOK,
        DlOK, DlNodeOK, OpOK, RootJobOK
  <2> QED BY <1>6, <1>9, <2>6 DEF OwnInv
<1> QED BY <1>11, <1>12, <1>13

\* zero_block() of the new pointer block, which nobody owns yet.
LEMMA OwnFwZero ==
  ASSUME Sound, Sound', BitmapInv, OwnInv, FwZero
  PROVE  OwnInv' /\ Stays
<1>1. /\ pc = "fw_zero" /\ pc' = "fw_inode" /\ job' = job
      /\ UNCHANGED <<dbbm, dibm, itab, mem, saved>>
  BY DEF ghost, FwZero, Goto
<1>2. /\ job.op \in FileOps /\ job.op # "dl" /\ itab[job.idx].type = 1
      /\ job.idx \in Inodes /\ Held(job.idx) /\ Rooted /\ job.home \in {0, cwd}
  BY <1>1, WritingFacts
<1>3. PICK b \in Ptr : b = job.node.single
  BY FieldTypes DEF Sound
<1>4. /\ itab[job.idx].single = 0 /\ (b = 0 \/ Spare(b))
      /\ job.node = [itab[job.idx] EXCEPT !.single = b]
  BY <1>1, <1>3 DEF OwnInv, JobInv, ZeroOK
<1>5. /\ \A d \in DataBlocks \ {b} : blk'[d] = blk[d]
      /\ b # 0 => blk'[b] = ZeroBlock
  <2>1. CASE b = 0
    BY <1>3, <2>1 DEF FwZero
  <2>2. CASE b # 0
    BY <1>3, <2>2, StateTypes DEF FwZero, Ptr
  <2> QED BY <2>1, <2>2
<1>6. OneEntry' /\ Named' /\ \A i : Ents(i)' \subseteq Ents(i)
  <2>1. \A s \in Cells : ZeroBlock[s].t \notin Names
    BY NamesAssumption DEF ZeroBlock, Zero
  <2>2. 0 \notin DataBlocks
    BY BlocksAssumption
  <2>3. \A d \in DataBlocks, s \in Cells : blk'[d][s] = blk[d][s] \/ blk'[d][s].t \notin Names
    BY <1>5, <2>1, <2>2
  <2> QED BY <2>3, EntsShrink DEF OwnInv, Own
<1>7. \A i \in Inodes : Held(i)' => Held(i)
  BY <1>1, <1>2, <1>6, HeldWithin DEF mem
<1>8. \A i \in Inodes : Held(i) => itab[i].single # b \/ itab[i].single = 0
  BY <1>4 DEF Spare, Owned
<1>9. Marked' /\ Apart' /\ \A i \in Inodes : Held(i)' => Owned(i)' = Owned(i)
  <2>1. \A i \in Inodes : Held(i) => i \in dibm' /\ Owned(i) \subseteq dbbm'
    BY <1>1 DEF OwnInv, Own, Marked, Good
  <2> QED BY <1>1, <1>5, <1>7, <1>8, <2>1, KeepOwned DEF OwnInv, Own
<1>10. RootInv'
  BY <1>1, <1>2, WritingKeepsRoot DEF EarlyPlaces, mem
<1>11. InodeOK'
  <2>1. b = 0 \/ Spare(b)'
    BY <1>1, <1>4, <1>7, <1>9 DEF Spare
  <2> QED BY <1>1, <1>4, <1>5, <2>1 DEF InodeOK
<1>12. JobInv'
  BY <1>1, <1>2, <1>11
  DEF mem, JobInv, MakingOK, FreshOK, AddingOK, AddOK, GrowOK, PutOK, WriteOK, NodeOK, ZeroOK,
      PtrPlaceOK, DlOK, DlNodeOK, OpOK, RootJobOK
<1>13. Stays
  <2>1. \A i \in Inodes : Held(i) => b \notin Owned(i)
    BY <1>4, OwnedIsNotZero DEF Spare
  <2> QED BY <1>1, <1>2, <1>5, <1>7, <2>1, FileStepStays DEF WritePlaces
<1> QED BY <1>6, <1>9, <1>10, <1>12, <1>13 DEF OwnInv, Own

\* The place where a write goes on, or the end of the command.
LEMMA GoesOn ==
  ASSUME Sound, OwnInv, job.op \in FileOps, job.home \in {0, cwd}, cwd' = cwd,
         \/ pc' = "fw" /\ job'.home = job.home /\ job'.op = job.op /\ job'.idx = job.idx
              /\ job'.node = itab'[job.idx] /\ itab'[job.idx].type = 1
         \/ pc' = "idle" /\ job'.op = "none"
  PROVE  JobInv' /\ (pc' \in HoldPlaces => job'.idx = job.idx)
BY DEF JobInv, MakingOK, FreshOK, AddingOK, AddOK, GrowOK, PutOK, WriteOK, NodeOK, ZeroOK,
       InodeOK, PtrPlaceOK, DlOK, DlNodeOK, OpOK, RootJobOK, FileOps, HoldPlaces

\* The new pointer is in the inode.
LEMMA OwnFwInode ==
  ASSUME Sound, Sound', BitmapInv, OwnInv, FwInode
  PROVE  OwnInv' /\ Stays
<1>1. /\ pc = "fw_inode" /\ itab' = [itab EXCEPT ![job.idx] = job.node]
      /\ UNCHANGED <<dbbm, dibm, blk, mem, saved>>
      /\ (pc' = "fw" /\ job' = job) \/ (pc' = "idle" /\ job'.op = "none")
  BY DEF ghost, FwInode, Goto, Finish, NoJob
<1>2. /\ job.op \in FileOps /\ job.op # "dl" /\ itab[job.idx].type = 1 /\ Rooted
      /\ Held(job.idx) /\ Good(job.idx) /\ job.idx \in Inodes /\ job.home \in {0, cwd}
  BY <1>1, WritingFacts
<1>3. PICK x \in Inodes : x = job.idx
  BY <1>2
<1>4. PICK b \in Ptr :
        /\ b = 0 \/ Spare(b)
        /\ \/ \E d \in Direct : /\ itab[x].direct[d] = 0
                                /\ job.node = [itab[x] EXCEPT !.direct[d] = b]
           \/ /\ itab[x].single = 0 /\ job.node = [itab[x] EXCEPT !.single = b]
              /\ b # 0 => blk[b] = ZeroBlock
  BY <1>1, <1>3 DEF OwnInv, JobInv, InodeOK
<1>5. itab'[x] = job.node /\ \A i \in Inodes \ {x} : itab'[i] = itab[i]
  BY <1>1, <1>3, StateTypes
<1>6. itab[x] \in Inode /\ itab[x].direct \in [Direct -> Ptr]
  BY StateTypes
<1>7. /\ itab'[x].type = 1
      /\ Owned(x)' \subseteq Owned(x) \cup ({b} \ {0}) /\ PtrOK(x)'
  <2>1. CASE \E d \in Direct : job.node = [itab[x] EXCEPT !.direct[d] = b]
    <3>1. PICK d \in Direct : job.node = [itab[x] EXCEPT !.direct[d] = b]
      BY <2>1
    <3>2. /\ itab'[x].direct = [itab[x].direct EXCEPT ![d] = b]
          /\ itab'[x].single = itab[x].single /\ itab'[x].type = 1
      BY <1>2, <1>3, <1>5, <1>6, <3>1 DEF Inode
    <3>3. Pointers(x)' \subseteq Pointers(x) \cup ({b} \ {0})
      BY <1>6, <3>2 DEF Pointers
    <3>4. itab[x].single # 0 => itab[x].single \in Owned(x)
      BY DEF Owned
    <3>5. PtrOK(x)'
      BY <1>1, <1>2, <1>3, <1>4, <3>2, <3>3, <3>4 DEF PtrOK, Good, Spare
    <3>6. Owned(x)' \subseteq Owned(x) \cup ({b} \ {0})
      BY <1>1, <3>2, <3>3 DEF Owned
    <3> QED BY <3>2, <3>5, <3>6
  <2>2. CASE /\ itab[x].single = 0 /\ job.node = [itab[x] EXCEPT !.single = b]
             /\ b # 0 => blk[b] = ZeroBlock
    <3>1. /\ itab'[x].direct = itab[x].direct /\ itab'[x].single = b /\ itab'[x].type = 1
      BY <1>2, <1>3, <1>5, <1>6, <2>2 DEF Inode
    <3>2. Pointers(x)' = Pointers(x)
      BY <3>1 DEF Pointers
    <3>3. b # 0 => \A s \in Cells : blk'[b][s].w = 0
      BY <1>1, <2>2 DEF ZeroBlock, Zero
    <3>4. Owned(x)' \subseteq Owned(x) \cup ({b} \ {0})
      BY <3>1, <3>2, <3>3 DEF Owned
    <3>5. PtrOK(x)'
      BY <1>2, <1>3, <1>4, <3>1, <3>2, <3>3 DEF PtrOK, Spare, Owned
    <3> QED BY <3>1, <3>4, <3>5
  <2> QED BY <1>4, <2>1, <2>2
<1>8. /\ JobInv' /\ (pc' \in HoldPlaces => job'.idx = job.idx)
  BY <1>1, <1>2, <1>3, <1>5, <1>7, GoesOn DEF mem
<1>9. \A i : Ents(i)' = Ents(i)
  BY <1>1 DEF Ents
<1>10. \A i \in Inodes : itab'[i].type = itab[i].type
  BY <1>2, <1>3, <1>5, <1>7
<1>11. \A i \in Inodes : Held(i)' => Held(i)
  BY <1>1, <1>2, <1>8, <1>9, <1>10, HeldWithin, BaseTypes DEF mem
<1>12. Good(x)'
  BY <1>1, <1>2, <1>3, <1>4, <1>7 DEF Good, Spare
<1>13. Own'
  <2>1. \A i \in Inodes \ {x} : Held(i) => 0 \notin Owned(i) /\ (b # 0 => b \notin Owned(i))
    BY <1>4, OwnedIsNotZero DEF Spare
  <2>2. \A i \in Inodes : Held(i) => i \in dibm' /\ Owned(i) \subseteq dbbm'
    BY <1>1 DEF OwnInv, Own, Marked, Good
  <2>3. \A i \in Inodes \ {x} : Held(i) => Owned(x)' \cap Owned(i) = {}
    BY <1>2, <1>3, <1>7, <2>1 DEF OwnInv, Own, Apart
  <2>4. Marked' /\ Apart'
    BY <1>1, <1>5, <1>11, <1>12, <2>1, <2>2, <2>3, GainOwned DEF OwnInv, Own
  <2>5. OneEntry' /\ Named'
    BY <1>1, EntsShrink DEF OwnInv, Own
  <2> QED BY <2>4, <2>5 DEF Own
<1>14. RootInv'
  BY <1>1, <1>2, <1>10, WritingKeepsRoot DEF EarlyPlaces, mem
<1>15. Stays
  <2>1. \A i \in Inodes : Held(i) => 0 \notin Owned(i)
    BY OwnedIsNotZero
  <2> QED BY <1>1, <1>2, <1>3, <1>5, <1>7, <1>11, <2>1, FileStepStays DEF WritePlaces
<1> QED BY <1>8, <1>13, <1>14, <1>15 DEF OwnInv

\* The new pointer is in the pointer block.
LEMMA OwnFwPtr ==
  ASSUME Sound, Sound', BitmapInv, OwnInv, FwPtr
  PROVE  OwnInv' /\ Stays
<1>1. /\ pc = "fw_ptr" /\ blk' = [blk EXCEPT ![job.node.single][PI] = Pointer(job.ptr)]
      /\ UNCHANGED <<dbbm, dibm, itab, mem, saved>>
      /\ (pc' = "fw" /\ job' = job) \/ (pc' = "idle" /\ job'.op = "none")
  BY DEF ghost, FwPtr, Goto, Finish, NoJob
<1>2. /\ job.op \in FileOps /\ job.op # "dl" /\ itab[job.idx].type = 1 /\ Rooted
      /\ Held(job.idx) /\ Good(job.idx) /\ job.idx \in Inodes /\ job.home \in {0, cwd}
  BY <1>1, WritingFacts
<1>3. /\ job.node = itab[job.idx] /\ job.node.single # 0 /\ PI \in Cells
      /\ job.ptr = 0 \/ Spare(job.ptr)
  BY <1>1 DEF OwnInv, JobInv, NodeOK, PtrPlaceOK
<1>4. PICK x \in Inodes : x = job.idx
  BY <1>2
<1>5. PICK c \in DataBlocks : c = itab[x].single /\ c = job.node.single /\ c # 0
  BY <1>3, <1>4, StateTypes DEF Ptr
<1>6. PICK q \in Cells, b \in Ptr : q = PI /\ b = job.ptr
  BY <1>3, FieldTypes DEF Sound
<1>7. /\ \A d \in DataBlocks \ {c} : blk'[d] = blk[d]
      /\ blk'[c][q] = Pointer(b) /\ \A s \in Cells \ {q} : blk'[c][s] = blk[c][s]
  BY <1>1, <1>5, <1>6, StateTypes
<1>8. OneEntry' /\ Named' /\ \A i : Ents(i)' \subseteq Ents(i)
  <2>1. \A d \in DataBlocks, s \in Cells : blk'[d][s] = blk[d][s] \/ blk'[d][s].t \notin Names
    BY <1>7, NamesAssumption DEF Pointer
  <2> QED BY <2>1, EntsShrink DEF OwnInv, Own
<1>9. /\ JobInv' /\ (pc' \in HoldPlaces => job'.idx = job.idx)
  BY <1>1, <1>2, <1>3, GoesOn DEF mem
<1>10. \A i \in Inodes : Held(i)' => Held(i)
  BY <1>1, <1>2, <1>8, <1>9, HeldWithin DEF mem
<1>11. c \in Owned(x) /\ PtrOK(x)
  BY <1>2, <1>4, <1>5 DEF Owned, Good
<1>12. Owned(x)' \subseteq Owned(x) \cup ({b} \ {0}) /\ PtrOK(x)'
  <2>1. Pointers(x)' = Pointers(x) /\ itab'[x].single = c
    BY <1>1, <1>5 DEF Pointers
  <2>2. blk'[c][q].w = b /\ b # c
    BY <1>3, <1>4, <1>5, <1>6, <1>7, <1>11, <1>2 DEF Pointer, Spare
  <2>3. PtrOK(x)'
    BY <1>5, <1>7, <1>11, <2>1, <2>2 DEF PtrOK
  <2>4. Owned(x)' \subseteq Owned(x) \cup ({b} \ {0})
    BY <1>5, <1>7, <2>1, <2>2 DEF Owned
  <2> QED BY <2>3, <2>4
<1>13. Good(x)'
  BY <1>1, <1>2, <1>3, <1>4, <1>6, <1>12 DEF Good, Spare
<1>14. Marked' /\ Apart'
  <2>1. \A i \in Inodes \ {x} : Held(i) => c \notin Owned(i) /\ (b # 0 => b \notin Owned(i))
    BY <1>2, <1>3, <1>4, <1>6, <1>11 DEF OwnInv, Own, Apart, Spare
  <2>2. \A i \in Inodes : Held(i) => i \in dibm' /\ Owned(i) \subseteq dbbm'
    BY <1>1 DEF OwnInv, Own, Marked, Good
  <2>3. \A i \in Inodes \ {x} : Held(i) => Owned(x)' \cap Owned(i) = {}
    BY <1>2, <1>4, <1>12, <2>1 DEF OwnInv, Own, Apart
  <2> QED BY <1>1, <1>7, <1>10, <1>13, <2>1, <2>2, <2>3, GainOwned DEF OwnInv, Own
<1>15. RootInv'
  BY <1>1, <1>2, WritingKeepsRoot DEF EarlyPlaces, mem
<1>16. Stays
  <2>1. \A i \in Inodes \ {x} : Held(i) => c \notin Owned(i)
    BY <1>2, <1>4, <1>11 DEF OwnInv, Own, Apart
  <2> QED BY <1>1, <1>2, <1>4, <1>7, <1>10, <2>1, FileStepStays DEF WritePlaces
<1> QED BY <1>8, <1>9, <1>14, <1>15, <1>16 DEF OwnInv, Own

\* Text goes into a block of the file, and never into its pointer block.
LEMMA OwnFwData ==
  ASSUME Sound, Sound', BitmapInv, OwnInv, FwData
  PROVE  OwnInv' /\ Stays
<1> DEFINE o == Pos % Slots
           n == Min({Slots - o, job.len - job.k})
<1>1. /\ pc = "fw" /\ Mapped /\ Phys \in DataBlocks /\ pc' = "fw"
      /\ blk' = [blk EXCEPT ![Phys] = Overlay(@, o, n)]
      /\ job' = [job EXCEPT !.k = job.k + n]
      /\ UNCHANGED <<dbbm, dibm, itab, mem, saved>>
  BY DEF ghost, FwData, Writing, Goto
<1>2. /\ job.op \in FileOps /\ job.op # "dl" /\ itab[job.idx].type = 1 /\ Rooted
      /\ Held(job.idx) /\ Good(job.idx) /\ job.idx \in Inodes /\ job.home \in {0, cwd}
  BY <1>1, WritingFacts
<1>3. job.node = itab[job.idx]
  BY <1>1 DEF OwnInv, JobInv, NodeOK
<1>4. o \in Nat
  BY PlaceInFile, Division, BaseTypes
<1> HIDE DEF o, n
<1>5. PICK x \in Inodes, c \in DataBlocks : x = job.idx /\ c = Phys
  BY <1>1, <1>2
<1>6. c \in Owned(x) /\ c # itab[x].single
  <2>1. c # 0
    BY BlocksAssumption
  <2>2. CASE InDirect
    BY <1>2, <1>3, <1>5, <2>1, <2>2, PlaceInFile DEF Phys, Owned, Pointers, Good, PtrOK
  <2>3. CASE ~InDirect
    <3>1. InSingle /\ itab[x].single # 0 /\ c = blk[itab[x].single][PI].w /\ PI \in Cells
      BY <1>1, <1>3, <1>5, <2>3, PlaceInFile DEF Mapped, Phys
    <3> QED BY <1>2, <1>5, <2>1, <3>1 DEF Owned, Good, PtrOK
  <2> QED BY <2>2, <2>3
<1>7. \A i \in Inodes : Held(i) => itab[i].single # c \/ itab[i].single = 0
  <2>1. ASSUME NEW i \in Inodes, Held(i), itab[i].single = c, itab[i].single # 0 PROVE FALSE
    <3>1. c \in Owned(i)
      BY <2>1 DEF Owned
    <3>2. i # x
      BY <1>6, <2>1
    <3> QED BY <1>2, <1>5, <1>6, <2>1, <3>1, <3>2 DEF OwnInv, Own, Apart
  <2> QED BY <2>1
<1>8. \A d \in DataBlocks \ {c} : blk'[d] = blk[d]
  BY <1>1, <1>5, StateTypes
<1>9. OneEntry' /\ Named' /\ \A i : Ents(i)' \subseteq Ents(i)
  <2>1. \A s \in Cells : blk'[c][s] = blk[c][s] \/ blk'[c][s].t \notin Names
    <3> SUFFICES ASSUME NEW s \in Cells
                 PROVE  blk'[c][s] = blk[c][s] \/ blk'[c][s].t \notin Names
      OBVIOUS
    <3>1. blk'[c] = Overlay(blk[c], o, n)
      BY <1>1, <1>5, StateTypes
    <3>2. CASE o <= s /\ s < o + n
      <4>1. blk'[c][s].t = <<job.text, job.k + s - o>>
        BY <3>1, <3>2 DEF Overlay
      <4>2. job.k + s - o \in Nat
        BY <1>4, <3>2, FieldTypes, BaseTypes DEF Sound
      <4>3. job.text \in Texts
        BY <1>2 DEF Sound, FrameOK
      <4> QED BY <4>1, <4>2, <4>3, NamesAssumption
    <3>3. CASE ~(o <= s /\ s < o + n)
      BY <3>1, <3>3 DEF Overlay
    <3> QED BY <3>2, <3>3
  <2>2. \A d \in DataBlocks, s \in Cells : blk'[d][s] = blk[d][s] \/ blk'[d][s].t \notin Names
    BY <1>8, <2>1
  <2> QED BY <2>2, EntsShrink DEF OwnInv, Own
<1>10. /\ JobInv' /\ (pc' \in HoldPlaces => job'.idx = job.idx)
  <2>1. /\ job'.op = job.op /\ job'.idx = job.idx /\ job'.node = job.node
        /\ job'.home = job.home
    BY <1>1 DEF Sound, TypeOK, Job
  <2> QED BY <1>1, <1>2, <1>3, <2>1, GoesOn DEF mem
<1>11. \A i \in Inodes : Held(i)' => Held(i)
  BY <1>1, <1>2, <1>9, <1>10, HeldWithin DEF mem
<1>12. Marked' /\ Apart'
  <2>1. \A i \in Inodes : Held(i) => i \in dibm' /\ Owned(i) \subseteq dbbm'
    BY <1>1 DEF OwnInv, Own, Marked, Good
  <2> QED BY <1>1, <1>7, <1>8, <1>11, <2>1, KeepOwned DEF OwnInv, Own
<1>13. RootInv'
  BY <1>1, <1>2, WritingKeepsRoot DEF EarlyPlaces, mem
<1>14. Stays
  <2>1. \A i \in Inodes \ {x} : Held(i) => c \notin Owned(i)
    BY <1>2, <1>5, <1>6 DEF OwnInv, Own, Apart
  <2> QED BY <1>1, <1>2, <1>5, <1>8, <1>11, <2>1, FileStepStays DEF WritePlaces
<1> QED BY <1>9, <1>10, <1>12, <1>13, <1>14 DEF OwnInv, Own

\* The end of a write, good or wild.
LEMMA OwnFwEnd ==
  ASSUME Sound, Sound', BitmapInv, OwnInv, FwWild \/ FwSize
  PROVE  OwnInv' /\ Stays
<1>1. /\ pc = "fw" /\ pc' \in {"wild", "idle"} /\ job'.op = "none"
      /\ UNCHANGED <<dbbm, dibm, blk, mem>>
  BY DEF FwWild, FwSize, Writing, Goto, Finish, NoJob, disk
<1>2. /\ job.op # "dl" /\ Rooted /\ job.idx \in Inodes /\ Held(job.idx)
      /\ job.home \in {0, cwd}
  BY <1>1, WritingFacts
<1>3. \A i \in Inodes : /\ itab'[i].direct = itab[i].direct
                        /\ itab'[i].single = itab[i].single /\ itab'[i].type = itab[i].type
  <2>1. CASE UNCHANGED itab
    BY <2>1
  <2>2. CASE ~UNCHANGED itab
    <3>1. itab' = [itab EXCEPT ![job.idx] = [job.node EXCEPT !.size = Pos]]
      BY <2>2 DEF FwWild, FwSize, disk
    <3>2. job.node = itab[job.idx]
      BY <1>1 DEF OwnInv, JobInv, NodeOK
    <3>3. itab[job.idx] \in Inode
      BY <1>2, StateTypes
    <3>4. itab' = [itab EXCEPT ![job.idx] = [itab[job.idx] EXCEPT !.size = Pos]]
      BY <3>1, <3>2
    <3> QED BY <1>2, <3>3, <3>4, StateTypes DEF Inode
  <2> QED BY <2>1, <2>2
<1>4. \A i : Ents(i)' = Ents(i)
  BY <1>1 DEF Ents
<1>5. \A i \in Inodes : Held(i)' => Held(i)
  <2>1. \A r \in saved' \ saved : Held(r.ino) /\ Held(r.home)
    <3>1. \A r \in saved' \ saved : r.ino = job.idx /\ r.home = job.home
      BY DEF FwWild, FwSize, ghost
    <3> QED BY <1>2, <3>1, DirsAreHeld
  <2> QED BY <1>1, <1>2, <1>3, <1>4, <2>1, HeldWithin, BaseTypes DEF mem, HoldPlaces
<1>6. Own'
  <2>1. 0 \notin DataBlocks
    BY BlocksAssumption
  <2>2. \A i \in Inodes : Held(i) => i \in dibm' /\ Owned(i) \subseteq dbbm'
    BY <1>1 DEF OwnInv, Own, Marked, Good
  <2>3. Marked' /\ Apart'
    BY <1>1, <1>3, <1>5, <2>2, KeepOwned DEF OwnInv, Own
  <2>4. OneEntry' /\ Named'
    BY <1>1, EntsShrink DEF OwnInv, Own
  <2> QED BY <2>3, <2>4 DEF Own
<1>7. RootInv'
  BY <1>1, <1>2, <1>3, WritingKeepsRoot DEF EarlyPlaces, mem
<1>8. Stays
  <2>1. \A i \in Inodes : Held(i) => 0 \notin Owned(i)
    BY OwnedIsNotZero
  <2>2. \A i \in Inodes \ {job.idx} : itab'[i] = itab[i]
    BY <1>2, StateTypes DEF FwWild, FwSize, disk
  <2>3. itab[job.idx].type = 1
    BY <1>1, WritingFacts
  <2> QED BY <1>1, <1>2, <1>3, <1>5, <2>1, <2>2, <2>3, FileStepStays DEF WritePlaces
<1> QED BY <1>1, <1>6, <1>7, <1>8, AtRest DEF OwnInv

-----------------------------------------------------------------------------
(* fs_delete_file                                                          *)

\* What is taken apart is not in use, and shares no block with what is.
LEMMA DeletingFacts ==
  ASSUME Sound, BitmapInv, OwnInv, pc \in {"dl_direct", "dl_single", "dl_inode", "dl_entry"}
  PROVE  /\ Rooted /\ job.op = "dl" /\ job.name \in Names /\ ~Kept(job.idx)
         /\ job.idx \in Inodes \ {0, cwd} /\ itab[job.idx].type = 1 /\ job.dir = itab[0]
         /\ dir_lookup(itab[0], job.name) = job.idx
         /\ \A i \in Inodes : Held(i) => Owned(i) \cap Owned(job.idx) = {}
         /\ ~Held(job.idx) /\ bbm = dbbm /\ ibm = dibm
<1>1. /\ Rooted /\ job.op = "dl" /\ job.name \in Names /\ ~Kept(job.idx) /\ job.idx # 0
      /\ itab[job.idx].type = 1 /\ job.dir = itab[0]
      /\ dir_lookup(itab[0], job.name) = job.idx
      /\ \A i \in Inodes : Held(i) => Owned(i) \cap Owned(job.idx) = {}
  BY DEF OwnInv, JobInv, DlOK
<1>2. job.idx \in Inodes /\ job.idx # cwd
  BY <1>1, DirsAreHeld DEF Sound, TypeOK, Job
<1>3. ~Held(job.idx)
  BY <1>1, <1>2 DEF Held, HoldPlaces
<1>4. bbm = dbbm /\ ibm = dibm
  BY DEF BitmapInv, InQformat
<1> QED BY <1>1, <1>2, <1>3, <1>4

\* The steps of dl that only clear bits.
LEMMA OwnDlFrees ==
  ASSUME Sound, Sound', BitmapInv, OwnInv,
         pc \in {"dl_direct", "dl_single", "dl_inode"},
         pc' \in {"dl_direct", "dl_single", "dl_inode", "dl_entry"},
         UNCHANGED <<itab, blk, cwd, saved>>,
         job'.op = job.op, job'.idx = job.idx, job'.dir = job.dir, job'.name = job.name,
         \A i \in Inodes : Held(i) => i \in dibm' /\ Owned(i) \subseteq dbbm',
         DlNodeOK'
  PROVE  OwnInv' /\ Stays
<1>1. /\ Rooted /\ job.op = "dl" /\ job.name \in Names /\ ~Kept(job.idx)
      /\ job.idx \in Inodes \ {0, cwd}
      /\ itab[job.idx].type = 1 /\ job.dir = itab[0]
      /\ dir_lookup(itab[0], job.name) = job.idx
      /\ \A i \in Inodes : Held(i) => Owned(i) \cap Owned(job.idx) = {}
  BY DeletingFacts
<1>2. /\ Own' /\ Stays /\ \A i \in Inodes : (Held(i)' => Held(i)) /\ Owned(i)' = Owned(i)
  BY <1>1, QuietStep, DirsAreHeld DEF HoldPlaces
<1>3. RootInv'
  BY <1>1, DirsAreHeld DEF RootInv, Rooted, EarlyPlaces, Waiting
<1>4. DlOK'
  <2>1. dir_lookup(itab[0], job.name)' = dir_lookup(itab[0], job.name)
    BY DEF dir_lookup, LookupHits
  <2>2. Owned(job.idx)' = Owned(job.idx)
    BY DEF Owned, Pointers
  <2> QED BY <1>1, <1>2, <2>1, <2>2 DEF DlOK, Rooted, Kept
<1>5. JobInv'
  BY <1>4
  DEF JobInv, MakingOK, FreshOK, AddingOK, AddOK, GrowOK, PutOK, WriteOK, NodeOK, ZeroOK,
      InodeOK, PtrPlaceOK, OpOK, RootJobOK
<1> QED BY <1>2, <1>3, <1>5 DEF OwnInv

\* A block of the file is freed: none of anybody else's.
LEMMA FreesOwn ==
  ASSUME Sound, BitmapInv, OwnInv, pc \in {"dl_direct", "dl_single"},
         NEW b \in Owned(job.idx), dbbm' = bbm \ {b}, UNCHANGED dibm
  PROVE  \A i \in Inodes : Held(i) => i \in dibm' /\ Owned(i) \subseteq dbbm'
BY DeletingFacts DEF OwnInv, Own, Marked, Good

\* dl frees the direct blocks, which nobody in use owns.
LEMMA OwnDlDirect ==
  ASSUME Sound, Sound', BitmapInv, OwnInv, DlDirect
  PROVE  OwnInv' /\ Stays
<1>1. pc = "dl_direct" /\ UNCHANGED <<dibm, itab, blk, cwd, saved>>
  BY DEF ghost, DlDirect
<1>2. /\ \A d \in Direct : job.node.direct[d] \in Pointers(job.idx) \cup {0}
      /\ job.node.single = itab[job.idx].single
  BY <1>1 DEF OwnInv, JobInv, DlNodeOK
<1>3. Pointers(job.idx)' = Pointers(job.idx)
  <2>1. PICK x : x = job.idx
    OBVIOUS
  <2>2. job'.idx = x
    BY <2>1 DEF DlDirect, Goto, Sound, TypeOK, Job
  <2> QED BY <1>1, <2>1, <2>2 DEF Pointers
<1>4. CASE LiveDirect = {}
  <2>1. /\ pc' = IF job.node.single = 0 THEN "dl_inode" ELSE "dl_single"
        /\ job' = job /\ UNCHANGED dbbm
    BY <1>4 DEF DlDirect, Goto
  <2>2. DlNodeOK'
    BY <1>1, <1>2, <2>1 DEF DlNodeOK
  <2>3. \A i \in Inodes : Held(i) => i \in dibm' /\ Owned(i) \subseteq dbbm'
    BY <1>1, <2>1 DEF OwnInv, Own, Marked, Good
  <2> QED BY <1>1, <2>1, <2>2, <2>3, OwnDlFrees
<1>5. CASE LiveDirect # {}
  <2>1. PICK m \in Direct : m = Min(LiveDirect) /\ job.node.direct[m] # 0
    BY <1>5, MinIsLeast, BaseTypes DEF LiveDirect
  <2>2. /\ pc' = "dl_direct" /\ dbbm' = bbm \ {job.node.direct[m]}
        /\ job' = [job EXCEPT !.node.direct[m] = 0]
    BY <1>5, <2>1 DEF DlDirect, Goto, free_block, save_block_bitmap
  <2>3. /\ job'.op = job.op /\ job'.idx = job.idx /\ job'.dir = job.dir
        /\ job'.name = job.name /\ job'.node = [job.node EXCEPT !.direct[m] = 0]
    BY <2>2 DEF Sound, TypeOK, Job
  <2>4. PICK b : b = job.node.direct[m] /\ b \in Owned(job.idx)
    BY <1>2, <2>1 DEF Owned
  <2>5. \A i \in Inodes : Held(i) => i \in dibm' /\ Owned(i) \subseteq dbbm'
    BY <1>1, <2>2, <2>4, FreesOwn
  <2>6. /\ job'.node.single = job.node.single
        /\ \A d \in Direct : job'.node.direct[d] \in {job.node.direct[d], 0}
    <3>1. job.node \in Inode
      BY FieldTypes DEF Sound
    <3> QED BY <2>1, <2>3, <3>1 DEF Inode
  <2>7. DlNodeOK'
    BY <1>1, <1>2, <1>3, <2>2, <2>3, <2>6 DEF DlNodeOK
  <2> QED BY <1>1, <2>2, <2>3, <2>5, <2>7, OwnDlFrees
<1> QED BY <1>4, <1>5

\* dl frees what the pointer block points to, then the pointer block.
LEMMA OwnDlSingle ==
  ASSUME Sound, Sound', BitmapInv, OwnInv, DlSingle
  PROVE  OwnInv' /\ Stays
<1> DEFINE left == {s \in Cells : s >= job.k /\ blk[job.node.single][s].w # 0}
<1>1. pc = "dl_single" /\ UNCHANGED <<dibm, itab, blk, cwd, saved>>
  BY DEF ghost, DlSingle
<1>2. job.node.single = itab[job.idx].single /\ job.node.single # 0
  BY <1>1 DEF OwnInv, JobInv, DlNodeOK
<1>3. CASE left # {}
  <2>1. PICK m \in Cells : m = Min(left) /\ blk[job.node.single][m].w # 0
    BY <1>3, MinIsLeast, BaseTypes
  <2>2. /\ pc' = "dl_single" /\ dbbm' = bbm \ {blk[job.node.single][m].w}
        /\ job' = [job EXCEPT !.k = m + 1]
    BY <1>3, <2>1 DEF DlSingle, Goto, free_block, save_block_bitmap
  <2>3. /\ job'.op = job.op /\ job'.idx = job.idx /\ job'.dir = job.dir
        /\ job'.name = job.name /\ job'.node = job.node
    BY <2>2 DEF Sound, TypeOK, Job
  <2>4. PICK b : b = blk[job.node.single][m].w /\ b \in Owned(job.idx)
    BY <1>2, <2>1 DEF Owned
  <2>5. \A i \in Inodes : Held(i) => i \in dibm' /\ Owned(i) \subseteq dbbm'
    BY <1>1, <2>2, <2>4, FreesOwn
  <2>6. DlNodeOK'
    BY <1>1, <1>2, <2>2, <2>3 DEF DlNodeOK
  <2> QED BY <1>1, <2>2, <2>3, <2>5, <2>6, OwnDlFrees
<1>4. CASE left = {}
  <2>1. /\ pc' = "dl_inode" /\ dbbm' = bbm \ {job.node.single}
        /\ job' = [job EXCEPT !.node.single = 0]
    BY <1>4 DEF DlSingle, Goto, free_block, save_block_bitmap
  <2>2. /\ job'.op = job.op /\ job'.idx = job.idx /\ job'.dir = job.dir
        /\ job'.name = job.name
    BY <2>1 DEF Sound, TypeOK, Job
  <2>3. PICK b : b = job.node.single /\ b \in Owned(job.idx)
    BY <1>2 DEF Owned
  <2>4. \A i \in Inodes : Held(i) => i \in dibm' /\ Owned(i) \subseteq dbbm'
    BY <1>1, <2>1, <2>3, FreesOwn
  <2>5. DlNodeOK'
    BY <2>1 DEF DlNodeOK
  <2> QED BY <1>1, <2>1, <2>2, <2>4, <2>5, OwnDlFrees
<1> QED BY <1>3, <1>4

\* dl frees the inode, while its entry still stands.
LEMMA OwnDlInode ==
  ASSUME Sound, Sound', BitmapInv, OwnInv, DlInode
  PROVE  OwnInv' /\ Stays
<1>1. /\ pc = "dl_inode" /\ pc' = "dl_entry" /\ job' = job
      /\ dibm' = ibm \ {job.idx} /\ UNCHANGED <<dbbm, itab, blk, cwd, saved>>
  BY DEF ghost, DlInode, Goto, free_inode, save_inode_bitmap
<1>2. \A i \in Inodes : Held(i) => i \in dibm' /\ Owned(i) \subseteq dbbm'
  BY <1>1, DeletingFacts DEF OwnInv, Own, Marked, Good
<1>3. DlNodeOK'
  BY <1>1 DEF DlNodeOK
<1> QED BY <1>1, <1>2, <1>3, OwnDlFrees

\* No place of H comes before First(H).
LEMMA FirstIsLeast ==
  ASSUME NEW H, H \subseteq Nat \X Nat, H # {}
  PROVE  \A g \in H : First(H)[1] < g[1] \/ (First(H)[1] = g[1] /\ First(H)[2] <= g[2])
<1> DEFINE B == {h[1] : h \in H}
<1>1. B \subseteq Nat /\ B # {}
  OBVIOUS
<1>2. PICK h0 \in H : h0[1] = Min(B)
  BY <1>1, MinIsLeast
<1> DEFINE C == {h[2] : h \in {g \in H : g[1] = Min(B)}}
<1>3. C \subseteq Nat /\ C # {}
  BY <1>2
<1>4. PICK h1 \in H : h1[1] = Min(B) /\ h1[2] = Min(C)
  BY <1>3, MinIsLeast
<1>5. \A g \in H : Min(B) <= g[1]
  BY <1>1, MinIsLeast
<1>6. \A g \in H : g[1] = Min(B) => Min(C) <= g[2]
  BY <1>3, MinIsLeast
<1>7. \A g \in H : h1[1] < g[1] \/ (h1[1] = g[1] /\ h1[2] <= g[2])
  <2> TAKE g \in H
  <2> HIDE DEF B, C
  <2>1. g[1] \in Nat /\ g[2] \in Nat /\ h1[1] \in Nat /\ h1[2] \in Nat
    OBVIOUS
  <2>2. CASE g[1] = h1[1]
    BY <1>4, <1>6, <2>1, <2>2
  <2>3. CASE g[1] # h1[1]
    BY <1>4, <1>5, <2>1, <2>3
  <2> QED BY <2>2, <2>3
<1> QED BY <1>7 DEF First

\* dir_remove clears the entry that dir_lookup found, though it would not stop
\* at a missing block.
LEMMA RemovesWhatWasFound ==
  ASSUME Sound, OwnInv, NEW d \in Inodes, NEW n \in Names, NEW x \in Inodes,
         dir_lookup(itab[d], n) = x
  PROVE  /\ RemoveHits(itab[d], n) # {}
         /\ LET g == First(RemoveHits(itab[d], n)) IN
              /\ g \in Direct \X Cells /\ itab[d].direct[g[1]] \in Pointers(d)
              /\ blk[itab[d].direct[g[1]]][g[2]].w = x
              /\ blk[itab[d].direct[g[1]]][g[2]].t \in Names
<1> DEFINE L == LookupHits(itab[d], n)
           R == RemoveHits(itab[d], n)
           f == First(L)
           g == First(R)
<1>1. L \subseteq Direct \X Cells /\ R \subseteq Direct \X Cells
  BY DEF LookupHits, RemoveHits
<1>2. L \subseteq Nat \X Nat /\ R \subseteq Nat \X Nat
  BY <1>1, BaseTypes
<1>3. x # -1
  BY BaseTypes
<1>4. L # {} /\ blk[itab[d].direct[f[1]]][f[2]].w = x
  BY <1>3 DEF dir_lookup
<1>5. f \in L
  BY <1>2, <1>4, FirstIsIn
<1>6. L \subseteq R
  <2> SUFFICES ASSUME NEW h \in L PROVE h \in R
    OBVIOUS
  <2>1. h \in Direct \X Cells /\ h[1] \in Nat
    BY <1>1, <1>2
  <2>2. \A a \in 0 .. h[1] : itab[d].direct[a] # 0
    BY DEF LookupHits
  <2>3. itab[d].direct[h[1]] # 0
    BY <2>1, <2>2
  <2> QED BY <2>1, <2>3 DEF LookupHits, RemoveHits
<1>7. g \in R
  BY <1>2, <1>5, <1>6, FirstIsIn
<1>8. f[1] < g[1] \/ (f[1] = g[1] /\ f[2] <= g[2]) \/ g \notin L
  BY <1>2, <1>4, FirstIsLeast
<1>9. g[1] < f[1] \/ (g[1] = f[1] /\ g[2] <= f[2])
  BY <1>2, <1>5, <1>6, FirstIsLeast
<1> HIDE DEF f, g, L, R
<1>10. /\ g \in Direct \X Cells /\ f \in Direct \X Cells
       /\ g[1] \in Nat /\ g[2] \in Nat /\ f[1] \in Nat /\ f[2] \in Nat
       /\ g[1] \in Direct /\ g[2] \in Cells /\ g = <<g[1], g[2]>> /\ f = <<f[1], f[2]>>
  BY <1>1, <1>2, <1>5, <1>7
<1>11. /\ itab[d].direct[g[1]] # 0 /\ blk[itab[d].direct[g[1]]][g[2]].w # 0
       /\ blk[itab[d].direct[g[1]]][g[2]].t = n
  BY <1>7 DEF R, RemoveHits
<1>12. itab[d].direct[g[1]] \in Pointers(d) /\ itab[d].direct[g[1]] \in DataBlocks
  BY <1>10, <1>11, StateTypes DEF Pointers, Ptr
<1>13. g \in L
  <2>1. blk[itab[d].direct[g[1]]][g[2]].w < NInodes
    <3>1. blk[itab[d].direct[g[1]]][g[2]].w \in Inodes
      BY <1>10, <1>11, <1>12 DEF OwnInv, Own, Named
    <3> QED BY <3>1, SizeAssumption DEF Inodes
  <2>2. \A a \in 0 .. f[1] : itab[d].direct[a] # 0
    BY <1>5 DEF L, LookupHits
  <2>3. \A a \in 0 .. g[1] : itab[d].direct[a] # 0
    BY <1>9, <1>10, <2>2
  <2> QED BY <1>10, <1>11, <2>1, <2>3 DEF L, LookupHits
<1>14. g[1] = f[1] /\ g[2] = f[2]
  BY <1>8, <1>9, <1>10, <1>13
<1>15. blk[itab[d].direct[g[1]]][g[2]].w = x
  BY <1>4, <1>14
<1> QED BY <1>7, <1>10, <1>11, <1>12, <1>15 DEF g, R

\* The last step of dl takes the file's one entry away.
LEMMA OwnDlEntry ==
  ASSUME Sound, Sound', BitmapInv, OwnInv, DlEntry
  PROVE  OwnInv' /\ Stays
<1>1. /\ pc = "dl_entry" /\ pc' = "idle" /\ job'.op = "none"
      /\ UNCHANGED <<dbbm, dibm, itab, mem, saved>>
  BY DEF ghost, DlEntry, Finish, Goto, NoJob
<1>2. /\ Rooted /\ job.op = "dl" /\ job.idx \in Inodes \ {0, cwd} /\ job.dir = itab[0]
      /\ dir_lookup(itab[0], job.name) = job.idx /\ ~Held(job.idx)
  BY <1>1, DeletingFacts
<1>3. PICK x \in Inodes \ {0, cwd} : x = job.idx
  BY <1>2
<1>4. PICK n \in Names : n = job.name
  BY <1>1, DeletingFacts
<1>5. dir_lookup(itab[0], n) = x
  BY <1>2, <1>3, <1>4
<1>6. PICK g : g = First(RemoveHits(itab[0], n))
  OBVIOUS
<1>7. /\ RemoveHits(itab[0], n) # {} /\ g \in Direct \X Cells
      /\ itab[0].direct[g[1]] \in Pointers(0)
      /\ blk[itab[0].direct[g[1]]][g[2]].w = x
      /\ blk[itab[0].direct[g[1]]][g[2]].t \in Names
  <2>1. 0 \in Inodes /\ x \in Inodes /\ n \in Names
    BY BaseTypes
  <2>2. /\ RemoveHits(itab[0], n) # {}
        /\ LET h == First(RemoveHits(itab[0], n)) IN
             /\ h \in Direct \X Cells /\ itab[0].direct[h[1]] \in Pointers(0)
             /\ blk[itab[0].direct[h[1]]][h[2]].w = x
             /\ blk[itab[0].direct[h[1]]][h[2]].t \in Names
    BY ONLY Sound, OwnInv, <1>5, <2>1, RemovesWhatWasFound
  <2> QED BY <1>6, <2>2
<1>8. PICK b : b = itab[0].direct[g[1]]
  OBVIOUS
<1>9. PICK s \in Cells : s = g[2]
  BY <1>7
<1>10. /\ b \in DataBlocks /\ b \in Owned(0)
       /\ \A i \in Inodes : Held(i) => itab[i].single # b
  BY <1>2, <1>7, <1>8, DirsAreHeld, BaseTypes, DirBlockPointsNowhere
<1>11. blk' = [blk EXCEPT ![b][s] = Zero]
  BY <1>2, <1>4, <1>6, <1>7, <1>8, <1>9 DEF DlEntry
<1>12. /\ blk'[b][s] = Zero
       /\ \A c \in DataBlocks, r \in Cells : (c = b /\ r = s) \/ blk'[c][r] = blk[c][r]
       /\ \A c \in DataBlocks \ {b} : blk'[c] = blk[c]
  BY <1>10, <1>11, StateTypes
<1>13. Zero.t \notin Names
  BY NamesAssumption DEF Zero
<1>14. OneEntry' /\ Named' /\ \A i : Ents(i)' \subseteq Ents(i)
  <2>1. OneEntry /\ Named
    BY DEF OwnInv, Own
  <2>2. \A c \in DataBlocks, r \in Cells : blk'[c][r] = blk[c][r] \/ blk'[c][r].t \notin Names
    BY <1>12, <1>13
  <2> QED BY <2>1, <2>2, EntsShrink
<1>15. Ents(x)' = {}
  <2>1. <<b, s>> \in Ents(x)
    BY <1>7, <1>8, <1>9, <1>10 DEF Ents
  <2>2. \A h \in Ents(x) : h = <<b, s>>
    BY <2>1, <1>3 DEF OwnInv, Own, OneEntry
  <2>3. <<b, s>> \notin Ents(x)'
    BY <1>12, <1>13 DEF Ents
  <2> QED BY <1>14, <2>2, <2>3
<1>16. UNCHANGED <<itab, dbbm, dibm>> /\ cwd' = cwd
  BY <1>1 DEF mem
<1>17. \A i \in Inodes : Held(i)' => Held(i)
  <2> SUFFICES ASSUME NEW i \in Inodes, Held(i)' PROVE Held(i)
    OBVIOUS
  <2>1. CASE Rooted' /\ i \in {0, cwd'}
    BY <1>2, <1>16, <2>1 DEF Held
  <2>2. CASE i # 0 /\ Ents(i)' # {}
    BY <1>3, <1>14, <1>15, <2>2 DEF Held
  <2>3. ~(pc' \in HoldPlaces)
    BY <1>1 DEF HoldPlaces
  <2>4. CASE Kept(i)'
    BY <1>1, <2>4 DEF Held, Kept
  <2> QED BY <2>1, <2>2, <2>3, <2>4 DEF Held
<1>18. Marked' /\ Apart'
  <2>1. Marked /\ Apart
    BY DEF OwnInv, Own
  <2>2. \A i \in Inodes : Held(i) => i \in dibm' /\ Owned(i) \subseteq dbbm'
    BY <1>16, <2>1 DEF Marked, Good
  <2> QED BY <1>10, <1>12, <1>16, <1>17, <2>1, <2>2, KeepOwned
<1>19. RootInv'
  BY <1>1, <1>2, <1>16, DirsAreHeld DEF RootInv, Rooted, EarlyPlaces, Waiting
<1>20. JobInv'
  BY <1>1, AtRest
<1>21. FilesStay
  BY <1>2, <1>7, <1>8, <1>12, <1>16, <1>17, DirsAreHeld, BaseTypes, DirStepFilesStay
<1>22. EntriesStay
  <2> SUFFICES ASSUME NEW h \in Inodes, NEW m \in Names, NEW y \in Inodes \ {0, x},
                      EntryOf(h, m, y)
               PROVE  EntryOf(h, m, y)'
    BY <1>1, <1>3 DEF EntriesStay
  <2>1. PICK e \in Direct, r \in Cells :
          itab[h].direct[e] # 0 /\ blk[itab[h].direct[e]][r] = Entry(m, y)
    BY DEF EntryOf
  <2>2. itab[h].direct[e] \in DataBlocks
    BY <2>1, StateTypes DEF Ptr
  <2>3. ~(itab[h].direct[e] = b /\ r = s)
    BY <1>7, <1>8, <1>9, <2>1 DEF Entry
  <2>4. blk'[itab'[h].direct[e]][r] = Entry(m, y)
    BY <1>12, <1>16, <2>1, <2>2, <2>3
  <2> QED BY <1>1, <1>16, <2>1, <2>4 DEF EntryOf
<1> QED BY <1>14, <1>18, <1>19, <1>20, <1>21, <1>22 DEF OwnInv, Own, Stays

-----------------------------------------------------------------------------
(* The theorems                                                            *)

\* Nothing is owned at the start.
LEMMA OwnInit == Init => OwnInv
<1> SUFFICES ASSUME Init PROVE OwnInv
  OBVIOUS
<1>1. Blank /\ saved = {} /\ pc = "boot" /\ job = NoJob /\ cwd = 0
  BY DEF Init, Blank
<1>2. job.op = "none"
  BY <1>1 DEF NoJob
<1>3. ~Rooted
  BY <1>1, BaseTypes DEF Blank, Rooted, NoInode
<1>4. \A i : Ents(i) = {}
  BY <1>1, NamesAssumption DEF Blank, Ents, ZeroBlock, Zero
<1>5. \A i : ~Held(i)
  BY <1>1, <1>3, <1>4 DEF Held, Kept, HoldPlaces
<1>6. Named
  BY <1>1, NamesAssumption DEF Blank, Named, ZeroBlock, Zero
<1>7. Own
  BY <1>4, <1>5, <1>6 DEF Own, Marked, Apart, OneEntry
<1>8. RootInv
  BY <1>1, <1>3 DEF RootInv, EarlyPlaces, Waiting
<1>9. JobInv
  BY <1>1, <1>2
  DEF JobInv, MakingOK, FreshOK, AddingOK, AddOK, GrowOK, PutOK, WriteOK, NodeOK, ZeroOK,
      InodeOK, PtrPlaceOK, DlOK, DlNodeOK, OpOK, RootJobOK
<1> QED BY <1>7, <1>8, <1>9 DEF OwnInv

\* A step that changes nothing.
LEMMA OwnStays ==
  ASSUME Sound, OwnInv, UNCHANGED vars
  PROVE  OwnInv' /\ Stays
<1>1. UNCHANGED <<itab, blk, dbbm, dibm, bbm, up, cwd, pc, job, saved>>
  BY DEF vars, disk, mem, ghost
<1>2. /\ \A i : Ents(i)' = Ents(i) /\ Owned(i)' = Owned(i) /\ Pointers(i)' = Pointers(i)
      /\ \A i : (Held(i)' <=> Held(i)) /\ (Kept(i)' <=> Kept(i))
  BY <1>1 DEF Ents, Owned, Pointers, Held, Kept, Rooted
<1>3. Own'
  BY <1>1, <1>2 DEF OwnInv, Own, Marked, Apart, OneEntry, Named, Good, PtrOK
<1>4. RootInv'
  BY <1>1 DEF OwnInv, RootInv, Rooted, Blank, Waiting
<1>5. /\ \A b : Spare(b)' <=> Spare(b)
      /\ \A d : RoomThere(d)' <=> RoomThere(d)
      /\ \A d, n : dir_lookup(d, n)' = dir_lookup(d, n)
      /\ Kind' = Kind /\ PI' = PI /\ DirInodeId' = DirInodeId
  <2>1. \A b : Spare(b)' <=> Spare(b)
    BY <1>1, <1>2 DEF Spare
  <2>2. \A d : RoomThere(d)' <=> RoomThere(d)
    BY <1>1 DEF RoomThere, Grows, AddStops, FreeCells
  <2>3. \A d, n : dir_lookup(d, n)' = dir_lookup(d, n)
    BY <1>1 DEF dir_lookup, LookupHits
  <2>4. Kind' = Kind /\ PI' = PI /\ DirInodeId' = DirInodeId
    BY <1>1 DEF Kind, PI, LB, Pos, DirInodeId
  <2> QED BY <2>1, <2>2, <2>3, <2>4
<1>6. MakingOK' /\ FreshOK' /\ AddingOK' /\ AddOK' /\ GrowOK' /\ PutOK' /\ WriteOK' /\ NodeOK'
  BY <1>1, <1>2, <1>5
  DEF OwnInv, JobInv, MakingOK, FreshOK, AddingOK, AddOK, GrowOK, PutOK, WriteOK, NodeOK
<1>7. /\ ZeroOK' /\ InodeOK' /\ PtrPlaceOK' /\ DlOK' /\ DlNodeOK' /\ OpOK' /\ RootJobOK'
  BY <1>1, <1>2, <1>5
  DEF OwnInv, JobInv, ZeroOK, InodeOK, PtrPlaceOK, DlOK, DlNodeOK, OpOK, RootJobOK, Rooted
<1>8. FilesStay
  BY <1>1, <1>2 DEF FilesStay
<1>9. EntriesStay
  BY <1>1 DEF EntriesStay, EntryOf
<1> QED BY <1>3, <1>4, <1>6, <1>7, <1>8, <1>9 DEF OwnInv, JobInv, Stays

\* Every step of the kernel keeps the invariant.
LEMMA OwnKernel ==
  ASSUME Sound, Sound', BitmapInv, OwnInv, Kernel
  PROVE  OwnInv' /\ Stays
BY OwnNewBlock, OwnNewInode, OwnDirAdd, OwnDirGrow, OwnDirPut,
   OwnFwAlloc, OwnFwZero, OwnFwInode, OwnFwPtr, OwnFwData, OwnFwEnd,
   OwnDlDirect, OwnDlSingle, OwnDlInode, OwnDlEntry,
   OwnEarly, OwnRBlock, OwnRInode, OwnRZero, OwnDefDir, OwnDefDone, OwnBoot
DEF Kernel

\* Every careful step does, whoever takes it.
LEMMA OwnStep ==
  ASSUME Sound, Sound', BitmapInv, OwnInv, SavedInv, [CarefulNext]_vars
  PROVE  OwnInv' /\ Stays
<1>1. CASE Kernel
  BY <1>1, OwnKernel
<1>2. CASE RoomHere /\ Create
  <2>1. ASSUME NEW n \in Names, NEW c \in Texts, NEW l \in Lens, Wr(n, c, l)
        PROVE  OwnInv' /\ Stays
    BY <1>2, <2>1, OwnBegin DEF Wr, FileOps
  <2>2. ASSUME NEW c \in Texts, NoteNew(c) PROVE OwnInv' /\ Stays
    BY <1>2, <2>2, OwnBegin DEF NoteNew, FileOps
  <2> QED BY <1>2, <2>1, <2>2 DEF Create
<1>3. ASSUME NEW c \in Texts, FileInRoot(NotesName), NoteAgain(c) PROVE OwnInv' /\ Stays
  BY <1>3, OwnNoteAgain
<1>4. ASSUME NEW n \in Names, Mf(n) PROVE OwnInv' /\ Stays
  BY <1>4, OwnBegin DEF Mf, FileOps
<1>5. ASSUME NEW n \in Names, FileInRoot(n), Dl(n) PROVE OwnInv' /\ Stays
  BY <1>5, OwnDl
<1>6. ASSUME NEW n \in Names, Cd(n) \/ CdUp PROVE OwnInv' /\ Stays
  BY <1>6, OwnCd
<1>7. CASE Blank /\ (Format \/ Qformat)
  BY <1>7, OwnFormat
<1>8. CASE job.op # "dl" /\ PowerCut
  BY <1>8, OwnPowerCut
<1>9. CASE UNCHANGED vars
  BY <1>9, OwnStays
<1> QED BY <1>1, <1>2, <1>3, <1>4, <1>5, <1>6, <1>7, <1>8, <1>9, NamesAssumption
    DEF CarefulNext

\* Careful use is use.
LEMMA CarefulIsUse == CarefulSpec => Spec
<1>1. CarefulNext => Next
  BY DEF CarefulNext, Next
<1> QED BY <1>1, PTL DEF CarefulSpec, Spec

\* Steps at which no file is made or written: what becomes of the call frame.
Elsewhere ==
  \/ NewBlockStep \/ DlDirect \/ DlSingle \/ DlInode \/ DlEntry
  \/ QIbm \/ QItab \/ QSb \/ FBbm \/ FIbm \/ RIbm \/ RBlock \/ RInode \/ RZero
  \/ DefDone \/ Boot \/ FwWild \/ PowerCut \/ Format \/ Qformat
  \/ (\E n \in Names : Cd(n)) \/ CdUp

\* Such a step begins no write and reports none.
LEMMA ElsewhereFrame ==
  ASSUME Sound, Elsewhere
  PROVE  /\ pc' \notin HoldPlaces /\ saved' \subseteq saved
         /\ job'.idx \in {job.idx, 0} /\ job'.off \in {job.off, 0}
<1>1. job \in Job
  BY DEF Sound, TypeOK
<1>2. CASE NewBlockStep \/ DlDirect \/ DlSingle \/ DlInode \/ DlEntry
  <2>1. CASE NewBlockStep
    BY <1>1, <2>1 DEF NewBlockStep, Goto, Finish, NoJob, Job, ghost, HoldPlaces
  <2>2. CASE DlDirect
    BY <1>1, <2>2 DEF DlDirect, Goto, Job, ghost, HoldPlaces
  <2>3. CASE DlSingle
    BY <1>1, <2>3 DEF DlSingle, Goto, Job, ghost, HoldPlaces
  <2>4. CASE DlInode \/ DlEntry
    BY <1>1, <2>4 DEF DlInode, DlEntry, Goto, Finish, NoJob, Job, ghost, HoldPlaces
  <2> QED BY <1>2, <2>1, <2>2, <2>3, <2>4
<1>3. CASE QIbm \/ QItab \/ QSb \/ FBbm \/ FIbm \/ RIbm \/ RBlock \/ RInode \/ RZero
  BY <1>1, <1>3
  DEF QIbm, QItab, QSb, FBbm, FIbm, RIbm, RBlock, RInode, RZero, AfterRoot, Goto, Finish,
      NoJob, Job, ghost, HoldPlaces
<1>4. CASE DefDone \/ Boot \/ FwWild \/ PowerCut \/ Format \/ Qformat
  BY <1>1, <1>4
  DEF DefDone, Boot, FwWild, PowerCut, Format, Qformat, init_fs, Goto, Finish, NoJob, ghost,
      HoldPlaces
<1>5. CASE (\E n \in Names : Cd(n)) \/ CdUp
  BY <1>5 DEF Cd, CdUp, Prompt, HoldPlaces
<1> QED BY <1>2, <1>3, <1>4, <1>5 DEF Elsewhere

\* A command begins on an inode that no saved file or directory is.
Begins ==
  \/ \E op \in FileOps \cup {"mf"}, n \in Names, c \in Texts \cup {None}, l \in Nat :
       Prompt /\ BeginCreate(op, n, c, l) /\ UNCHANGED saved
  \/ DefDir
  \/ \E n \in Names : Dl(n)
  \/ \E c \in Texts : NoteAgain(c)

\* The inode is a free one, or saved has let go of it.
LEMMA BeginsFrame ==
  ASSUME Sound, BitmapInv, OwnInv, SavedInv, Begins
  PROVE  /\ saved' \subseteq saved /\ \A r \in saved' : r.ino # job'.idx
         /\ job'.off \in {job.off, 0}
         /\ pc' \in HoldPlaces => pc' = "fw" /\ \E c \in Texts : NoteAgain(c)
<1>1. job \in Job /\ \A r \in saved : r.ino \in Inodes
  BY DEF Sound, TypeOK, GhostType, Save
<1>2. ASSUME ibm = dibm, FreeInodes # {}
      PROVE  \A r \in saved : r.ino # Min(FreeInodes)
  <2>1. Min(FreeInodes) \in Inodes \ dibm
    BY <1>2, MinIsLeast, BaseTypes DEF FreeInodes
  <2>2. \A r \in saved : r.ino \in dibm
    BY <1>1 DEF OwnInv, Own, Marked, Good, Held, Kept
  <2> QED BY <2>1, <2>2
<1>3. ASSUME NEW op \in FileOps \cup {"mf"}, NEW n \in Names, NEW c \in Texts \cup {None},
             NEW l \in Nat, Prompt, BeginCreate(op, n, c, l), UNCHANGED saved
      PROVE  /\ \A r \in saved' : r.ino # job'.idx
             /\ job'.off = 0 /\ pc' = "new_block"
  <2>1. ibm = dibm
    BY <1>3 DEF Prompt, BitmapInv, InQformat
  <2> QED BY <1>2, <1>3, <2>1 DEF BeginCreate, Goto, NoJob
<1>4. CASE DefDir
  <2>1. ibm = dibm /\ UNCHANGED saved
    BY <1>4 DEF DefDir, BitmapInv, InQformat, ghost
  <2>2. CASE FreeInodes = {}
    BY <1>1, <1>4, <2>1, <2>2 DEF DefDir, Goto, Job, HoldPlaces, SavedInv
  <2>3. CASE FreeInodes # {}
    BY <1>1, <1>2, <1>4, <2>1, <2>3 DEF DefDir, Goto, Job, HoldPlaces
  <2> QED BY <2>2, <2>3
<1>5. ASSUME NEW n \in Names, Dl(n)
      PROVE  /\ saved' \subseteq saved /\ \A r \in saved' : r.ino # job'.idx
             /\ job'.off = 0 /\ pc' = "dl_direct"
  BY <1>5 DEF Dl, Forget, Goto, NoJob
<1>6. ASSUME NEW c \in Texts, NoteAgain(c)
      PROVE  /\ saved' \subseteq saved /\ \A r \in saved' : r.ino # job'.idx
             /\ job'.off = 0 /\ pc' = "fw"
  BY <1>6 DEF NoteAgain, Forget, Goto, NoJob
<1> QED BY <1>3, <1>4, <1>5, <1>6 DEF Begins, HoldPlaces

\* The steps that make or write a file.
Makes ==
  \/ NewInodeStep \/ DirAdd \/ DirGrow \/ DirPut
  \/ FwAllocDirect \/ FwAllocSingle \/ FwZero \/ FwInode \/ FwAllocPtr \/ FwPtr \/ FwData

\* Such a step reports nothing and stays with its inode.
LEMMA MakesFrame ==
  ASSUME Sound, Makes
  PROVE  saved' = saved /\ job'.idx \in {job.idx, 0} /\ pc \in HoldPlaces \cup {"new_inode"}
<1>1. job \in Job
  BY DEF Sound, TypeOK
<1>2. CASE NewInodeStep \/ DirGrow
  BY <1>1, <1>2 DEF NewInodeStep, DirGrow, Goto, Job, ghost, HoldPlaces
<1>3. CASE FwAllocDirect \/ FwAllocSingle \/ FwZero \/ FwInode \/ FwAllocPtr \/ FwPtr \/ FwData
  BY <1>1, <1>3
  DEF FwAllocDirect, FwAllocSingle, FwZero, FwInode, FwAllocPtr, FwPtr, FwData, Writing,
      Goto, Finish, NoJob, Job, ghost, HoldPlaces
<1>4. ASSUME NEW ok, AfterAdd(ok) PROVE job'.idx \in {job.idx, 0}
  <2>1. CASE job' = [job EXCEPT !.k = job.k + 1]
    BY <1>1, <2>1 DEF Job
  <2>2. CASE job' = NoJob
    BY <2>2 DEF NoJob
  <2>3. \/ job' = [job EXCEPT !.k = 0, !.node = itab[job.idx], !.seen = ok,
                            !.off = IF job.op = "wr" THEN itab[job.idx].size ELSE 0]
        \/ job' = [job EXCEPT !.k = job.k + 1]
        \/ job' = NoJob
    BY <1>4 DEF AfterAdd, Goto, Finish
  <2>4. CASE job' = [job EXCEPT !.k = 0, !.node = itab[job.idx], !.seen = ok,
                                !.off = IF job.op = "wr" THEN itab[job.idx].size ELSE 0]
    BY <1>1, <2>4 DEF Job
  <2> QED BY <2>1, <2>2, <2>3, <2>4
<1>5. CASE DirPut
  BY <1>4, <1>5 DEF DirPut, ghost, HoldPlaces
<1>6. CASE DirAdd
  <2>1. saved' = saved /\ pc = "dir_add"
    BY <1>6 DEF DirAdd, ghost
  <2>2. CASE \E ok \in BOOLEAN : AfterAdd(ok)
    BY <1>4, <2>1, <2>2 DEF HoldPlaces
  <2>3. CASE \E a, b : Goto("dir_grow", [job EXCEPT !.dir.direct[a] = b, !.ptr = b])
    BY <1>1, <2>1, <2>3 DEF Goto, Job, HoldPlaces
  <2> QED BY <1>6, <2>2, <2>3 DEF DirAdd
<1> QED BY <1>2, <1>3, <1>5, <1>6 DEF Makes

\* Every careful step is of one of these kinds.
LEMMA CarefulSteps ==
  ASSUME CarefulNext
  PROVE  Elsewhere \/ Begins \/ Makes \/ FwSize
<1>1. CASE Kernel
  BY <1>1 DEF Kernel, Elsewhere, Begins, Makes
<1>2. CASE Create
  <2>1. ASSUME NEW n \in Names, NEW c \in Texts, NEW l \in Lens, Wr(n, c, l) PROVE Begins
    BY <2>1, SizeAssumption DEF Wr, Begins, FileOps
  <2>2. ASSUME NEW c \in Texts, NoteNew(c) PROVE Begins
    BY <2>2, SizeAssumption, NamesAssumption DEF NoteNew, Begins, FileOps
  <2> QED BY <1>2, <2>1, <2>2 DEF Create
<1>3. ASSUME NEW n \in Names, Mf(n) PROVE Begins
  BY <1>3 DEF Mf, Begins
<1> QED BY <1>1, <1>2, <1>3 DEF CarefulNext, Elsewhere, Begins

\* A saved file stays a file, and nobody works on it.
LEMMA SavedGoesOn ==
  ASSUME Sound, Sound', BitmapInv, OwnInv, SavedInv, Stays, [CarefulNext]_vars
  PROVE  SavedInv'
<1>1. \A r \in saved : r.ino \in Inodes /\ r.home \in Inodes
  BY DEF Sound, TypeOK, GhostType, Save
<1>2. ASSUME NEW r \in saved, r \in saved', r.ino # job'.idx
      PROVE  /\ r.ino # 0 /\ r.ino # job'.idx
             /\ itab'[r.ino].type = 1 /\ itab'[r.home].type = 2
  <2>1. Held(r.ino)' /\ Held(r.home)'
    BY <1>2 DEF Held, Kept
  <2>2. pc = "new_inode" => r.ino # job.idx /\ r.home # job.idx
    BY DEF OwnInv, JobInv, MakingOK, Kept
  <2>3. saved' # {}
    BY <1>2
  <2>4. /\ itab'[r.ino].type = itab[r.ino].type /\ itab'[r.home].type = itab[r.home].type
    BY <1>1, <2>1, <2>2, <2>3 DEF Stays, FilesStay
  <2> QED BY <1>2, <2>4 DEF SavedInv
<1>3. \A r \in saved : r.ino # 0 /\ r.ino # job.idx
  BY DEF SavedInv
<1>4. CASE Elsewhere \/ Begins \/ Makes
  <2>1. saved' \subseteq saved /\ \A r \in saved' : r.ino # job'.idx
    BY <1>3, <1>4, ElsewhereFrame, BeginsFrame, MakesFrame
  <2> QED BY <1>2, <2>1 DEF SavedInv
<1>5. CASE FwSize
  <2>1. /\ pc = "fw" /\ job'.idx = 0
        /\ saved' = saved \cup
             {[ino |-> job.idx, home |-> job.home, name |-> job.name,
               text |-> job.text, len |-> job.len, seen |-> job.seen]}
    BY <1>5 DEF FwSize, Finish, Goto, NoJob
  <2>2. ASSUME NEW r \in saved', r \notin saved
        PROVE  /\ r.ino # 0 /\ r.ino # job'.idx
               /\ itab'[r.ino].type = 1 /\ itab'[r.home].type = 2
    <3>1. r.ino = job.idx /\ r.home = job.home
      BY <2>1, <2>2
    <3>2. /\ job.idx \in Inodes /\ job.idx # 0 /\ job.home \in {0, cwd}
          /\ itab[job.idx].type = 1 /\ Rooted
      BY <2>1, WritingFacts
    <3>3. job.home \in Inodes /\ itab[job.home].type = 2
      BY <3>2, DirsAreHeld, BaseTypes, StateTypes
    <3>4. Held(r.ino)' /\ Held(r.home)'
      BY <2>2 DEF Held, Kept
    <3>5. itab'[r.ino].type = 1 /\ itab'[r.home].type = 2
      BY <2>1, <3>1, <3>2, <3>3, <3>4 DEF Stays, FilesStay
    <3> QED BY <2>1, <3>1, <3>2, <3>5
  <2>3. \A r \in saved : r.ino # job'.idx
    BY <1>3, <2>1
  <2> QED BY <1>2, <2>2, <2>3 DEF SavedInv
<1>6. CASE UNCHANGED vars
  BY <1>2, <1>3, <1>6 DEF vars, ghost, SavedInv
<1>7. CASE CarefulNext
  BY <1>4, <1>5, <1>7, CarefulSteps
<1> QED BY <1>6, <1>7

\* The invariant holds in every state of careful use.
LEMMA OwnAlways == CarefulSpec => [](Sound /\ BitmapInv /\ OwnInv /\ SavedInv)
<1>1. Init => SavedInv
  BY DEF Init, SavedInv
<1>2. Sound /\ Sound' /\ BitmapInv /\ OwnInv /\ SavedInv /\ [CarefulNext]_vars => OwnInv' /\ SavedInv'
  <2> SUFFICES ASSUME Sound, Sound', BitmapInv, OwnInv, SavedInv, [CarefulNext]_vars
               PROVE  OwnInv' /\ SavedInv'
    OBVIOUS
  <2>1. OwnInv' /\ Stays
    BY OwnStep
  <2>2. SavedInv'
    BY <2>1, SavedGoesOn
  <2> QED BY <2>1, <2>2
<1> QED BY <1>1, <1>2, OwnInit, CarefulIsUse, SoundAlways, BitmapsAlways, PTL
    DEF CarefulSpec, Spec

\* What is in use is held.
LEMMA UsedIsHeld ==
  ASSUME Sound, NEW i \in InUse
  PROVE  i \in Inodes /\ Held(i)
<1>1. CASE i = 0
  <2>1. ~(i \in Entered \cap (Inodes \ {0}))
    BY <1>1
  <2>2. itab[0].type = 2
    BY <2>1 DEF InUse
  <2> QED BY <1>1, <2>2, BaseTypes DEF Held, Rooted
<1>2. CASE i # 0
  <2>1. i \in Entered /\ i \in Inodes /\ ~(job.op = "dl" /\ i = job.idx)
    BY <1>2 DEF InUse
  <2>2. PICK c \in DataBlocks \X Cells : blk[c[1]][c[2]].t \in Names /\ i = blk[c[1]][c[2]].w
    BY <2>1 DEF Entered
  <2>3. c \in Ents(i)
    BY <2>2 DEF Ents
  <2> QED BY <1>2, <2>1, <2>3 DEF Held
<1> QED BY <1>1, <1>2

\* At every sector write of every command, whatever was created, written and
\* deleted before and wherever the power was cut, an inode in use and each of
\* its blocks is marked used on disk: used with care, the file system never
\* hands out what somebody still reaches.
THEOREM UsedAreMarked == CarefulSpec => []UsedIsMarked
<1>1. Sound /\ OwnInv => UsedIsMarked
  BY UsedIsHeld DEF UsedIsMarked, OwnInv, Own, Marked, Good
<1> QED BY <1>1, OwnAlways, PTL

\* Nor do two inodes in use ever share a block, data or pointers.
THEOREM BlocksNotShared == CarefulSpec => []NoSharedBlock
<1>1. Sound /\ OwnInv => NoSharedBlock
  BY UsedIsHeld DEF NoSharedBlock, OwnInv, Own, Apart
<1> QED BY <1>1, OwnAlways, PTL

-----------------------------------------------------------------------------
(* No block is lost: the invariant                                         *)

\* The inodes marked on disk, but for the one a command makes or takes apart.
Settled(i) ==
  i \in dibm /\ ~(i = job.idx /\ (pc \in {"new_block", "new_inode"} \/ job.op = "dl"))

\* The blocks an inode names.
Refs(n) == ({n.direct[d] : d \in Direct} \cup {n.single}) \ {0}

\* The pointer block dl has yet to free, with the pointers it has not come to.
Left ==
  IF job.node.single = 0 THEN {}
  ELSE {job.node.single} \cup ({blk[job.node.single][s].w : s \in {c \in Cells : c >= job.k}} \ {0})

NodePlaces == {"new_inode", "r_inode", "fw_zero", "fw_inode"}
PtrPlaces  == {"dir_grow", "fw_ptr"}

\* The blocks that are marked for the running command and in no inode yet, or
\* no longer.
Claims ==
  (IF pc \in NodePlaces THEN Refs(job.node) ELSE {}) \cup
  (IF pc \in PtrPlaces THEN {job.ptr} \ {0} ELSE {}) \cup
  (IF pc = "dl_direct" THEN {job.node.direct[d] : d \in Direct} \ {0} ELSE {}) \cup
  (IF pc \in {"dl_direct", "dl_single"} THEN Left ELSE {})

\* Marked inodes own marked blocks, each its own, and none that a command claims.
SettledMarked == \A i \in Inodes : Settled(i) => Owned(i) \subseteq dbbm
SettledApart ==
  \A i, j \in Inodes : Settled(i) /\ Settled(j) /\ i # j => Owned(i) \cap Owned(j) = {}
ClaimsApart ==
  \A i \in Inodes \ {job.idx} : Settled(i) =>
    /\ Owned(i) \cap Claims = {}
    /\ job.op = "dl" => Owned(i) \cap Owned(job.idx) = {}

\* Every marked block is a marked inode's, or claimed.
Accounted == \A b \in dbbm : b \in Claims \/ \E i \in Inodes : Settled(i) /\ b \in Owned(i)

\* What some places know besides.
PlacesKnow ==
  /\ pc = "dl_direct" => job.k = 0
  /\ pc = "dl_entry" => job.idx \notin dibm
  /\ pc = "f_bbm" => bbm = {}

Kempt == SettledMarked /\ SettledApart /\ ClaimsApart /\ Accounted /\ PlacesKnow
LossInv == ~cut => Kempt

\* A step that takes no block, frees none and gives none to another inode.
LEMMA KemptStay ==
  ASSUME Sound, Kempt, NEW c,
         \A d \in DataBlocks \ {c} : blk'[d] = blk[d],
         \A i \in Inodes : Settled(i)' <=> Settled(i),
         \A i \in Inodes : Settled(i) =>
            /\ itab'[i].direct = itab[i].direct /\ itab'[i].single = itab[i].single
            /\ itab[i].single # c \/ itab[i].single = 0,
         dbbm' = dbbm, Claims' = Claims, Claims = {} \/ job'.idx = job.idx,
         job'.op # "dl", PlacesKnow'
  PROVE  Kempt'
<1>1. \A i \in Inodes : Settled(i) => Owned(i)' = Owned(i)
  BY OwnedSame
<1>2. SettledMarked' /\ SettledApart'
  BY <1>1 DEF Kempt, SettledMarked, SettledApart
<1>3. ClaimsApart'
  BY <1>1 DEF Kempt, ClaimsApart
<1>4. Accounted'
  BY <1>1 DEF Kempt, Accounted
<1> QED BY <1>2, <1>3, <1>4 DEF Kempt

\* The command takes a block, if there is one.
LEMMA KemptAlloc ==
  ASSUME Sound, Kempt, alloc_block, bbm = dbbm, UNCHANGED <<itab, blk>>,
         \A i \in Inodes : Settled(i)' <=> Settled(i),
         job'.idx = job.idx, job'.op # "dl", Claims = {},
         Claims' \subseteq Owned(job.idx) \cup {NewBlock},
         Settled(job.idx) \/ Claims' \subseteq {NewBlock},
         job.idx \in Inodes, NewBlock # 0 => NewBlock \in Claims', PlacesKnow'
  PROVE  Kempt'
<1>1. \A i : Owned(i)' = Owned(i) /\ 0 \notin Owned(i)
  BY OwnedIsNotZero DEF Owned, Pointers
<1>2. NewBlock = 0 \/ NewBlock \notin dbbm
  BY NewBlockIsFree DEF Sound, TypeOK, MemType
<1>3. dbbm' = dbbm \cup ({NewBlock} \ {0})
  BY DEF alloc_block, save_block_bitmap
<1>4. \A i \in Inodes : Settled(i) => NewBlock \notin Owned(i)
  BY <1>1, <1>2 DEF Kempt, SettledMarked
<1>5. SettledMarked' /\ SettledApart'
  BY <1>1, <1>3 DEF Kempt, SettledMarked, SettledApart
<1>6. ClaimsApart'
  BY <1>1, <1>4 DEF Kempt, ClaimsApart, SettledApart
<1>7. Accounted'
  BY <1>1, <1>3 DEF Kempt, Accounted
<1> QED BY <1>5, <1>6, <1>7 DEF Kempt

\* What the command claims goes into inode x.
LEMMA KemptGain ==
  ASSUME Sound, Kempt, NEW x \in Inodes, NEW c,
         \A d \in DataBlocks \ {c} : blk'[d] = blk[d],
         \A i \in Inodes \ {x} : Settled(i)' <=> Settled(i),
         \A i \in Inodes \ {x} : Settled(i) =>
            /\ itab'[i].direct = itab[i].direct /\ itab'[i].single = itab[i].single
            /\ c \notin Owned(i) /\ Owned(i) \cap Claims = {},
         Settled(x)', Claims \subseteq Owned(x)', Claims \subseteq dbbm,
         Settled(x) => Owned(x) \subseteq Owned(x)',
         \A b \in Owned(x)' : b \in Claims \/ (Settled(x) /\ b \in Owned(x)),
         dbbm' = dbbm, Claims' = {}, job'.op # "dl", PlacesKnow'
  PROVE  Kempt'
<1>1. ASSUME NEW i \in Inodes \ {x}, Settled(i) PROVE Owned(i)' = Owned(i)
  <2>1. itab[i].single # c \/ itab[i].single = 0
    BY <1>1 DEF Owned
  <2> QED BY <1>1, <2>1, OwnedSame
<1>2. SettledMarked'
  BY <1>1 DEF Kempt, SettledMarked
<1>3. \A i \in Inodes \ {x} : Settled(i) => Owned(x)' \cap Owned(i) = {}
  BY DEF Kempt, SettledApart
<1>4. SettledApart'
  <2> SUFFICES ASSUME NEW i \in Inodes, NEW j \in Inodes, Settled(i)', Settled(j)', i # j
               PROVE  Owned(i)' \cap Owned(j)' = {}
    BY DEF SettledApart
  <2>1. CASE i # x /\ j # x
    BY <1>1, <2>1 DEF Kempt, SettledApart
  <2>2. CASE i = x
    BY <1>1, <1>3, <2>2
  <2>3. CASE j = x
    BY <1>1, <1>3, <2>3
  <2> QED BY <2>1, <2>2, <2>3
<1>5. ClaimsApart'
  BY DEF ClaimsApart
<1>6. Accounted'
  BY <1>1 DEF Kempt, Accounted
<1> QED BY <1>2, <1>4, <1>5, <1>6 DEF Kempt

\* dl gives one of its blocks back.
LEMMA KemptFree ==
  ASSUME Sound, Kempt, NEW b, b = 0 \/ b \in Claims, dbbm' = dbbm \ {b},
         UNCHANGED <<itab, blk>>, job.op = "dl", job'.op = "dl", job'.idx = job.idx,
         \A i \in Inodes : Settled(i)' <=> Settled(i),
         Claims \ {b} \subseteq Claims', Claims' \subseteq Claims, PlacesKnow'
  PROVE  Kempt'
<1>1. \A i : Owned(i)' = Owned(i) /\ 0 \notin Owned(i)
  BY OwnedIsNotZero DEF Owned, Pointers
<1>2. \A i \in Inodes : Settled(i) => i # job.idx
  BY DEF Settled
<1>3. SettledMarked'
  BY <1>1, <1>2 DEF Kempt, SettledMarked, ClaimsApart
<1>4. SettledApart'
  BY <1>1 DEF Kempt, SettledApart
<1>5. ClaimsApart'
  BY <1>1 DEF Kempt, ClaimsApart
<1>6. Accounted'
  BY <1>1 DEF Kempt, Accounted
<1> QED BY <1>3, <1>4, <1>5, <1>6 DEF Kempt

\* Nobody owns a block of a blank disk, so none is marked but what is claimed.
LEMMA BlankOwnsNothing ==
  ASSUME Blank
  PROVE  \A i \in Inodes : Owned(i) = {}
<1>1. \A i \in Inodes : itab[i].single = 0 /\ itab[i].direct = [d \in Direct |-> 0]
  BY DEF Blank, NoInode
<1> QED BY <1>1 DEF Owned, Pointers

LEMMA BlankIsUnmarked ==
  ASSUME Blank, Kempt, Claims = {}
  PROVE  dbbm = {}
BY BlankOwnsNothing DEF Kempt, Accounted

LEMMA KemptBlank ==
  ASSUME Blank', dbbm' \subseteq Claims', job'.op # "dl", PlacesKnow'
  PROVE  Kempt'
<1>1. \A i \in Inodes : Owned(i)' = {}
  <2>1. \A i \in Inodes : itab'[i].single = 0 /\ itab'[i].direct = [d \in Direct |-> 0]
    BY DEF Blank, NoInode
  <2> QED BY <2>1 DEF Owned, Pointers
<1> QED BY <1>1 DEF Kempt, SettledMarked, SettledApart, ClaimsApart, Accounted

\* The places where a command claims blocks.
ClaimPlaces == NodePlaces \cup PtrPlaces \cup {"dl_direct", "dl_single"}

\* Where no inode is being made or taken apart, the marked ones are settled.
LEMMA AllSettled ==
  ASSUME OwnInv,
         pc \notin {"new_block", "new_inode", "dl_direct", "dl_single", "dl_inode", "dl_entry"}
  PROVE  job.op # "dl" /\ \A i : Settled(i) <=> i \in dibm
BY HeldOutsideDl DEF Settled

\* A step at the ends of which no block is claimed, and that touches no inode.
LEMMA KemptQuiet ==
  ASSUME Sound, Kempt, UNCHANGED <<itab, blk, dbbm>>,
         \A i \in Inodes : Settled(i)' <=> Settled(i),
         pc \notin ClaimPlaces, pc' \notin ClaimPlaces, job'.op # "dl", PlacesKnow'
  PROVE  Kempt'
<1>1. Claims = {} /\ Claims' = {}
  BY DEF Claims, ClaimPlaces
<1> QED BY <1>1, KemptStay

-----------------------------------------------------------------------------
(* No block is lost: commands, boots and formats                           *)

\* alloc_inode() marks an inode that counts for nothing yet.
LEMMA KemptTaken ==
  ASSUME Sound, OwnInv, Kempt, pc \in {"idle", "defdirs"}, ibm = dibm, FreeInodes # {},
         UNCHANGED <<itab, blk, dbbm>>, dibm' = ibm \cup {Min(FreeInodes)},
         pc' = "new_block", job'.idx = Min(FreeInodes), job'.op # "dl"
  PROVE  Kempt'
<1>1. Min(FreeInodes) \notin dibm
  BY MinIsLeast, BaseTypes DEF FreeInodes
<1>2. \A i \in Inodes : Settled(i)' <=> Settled(i)
  BY <1>1, AllSettled DEF Settled
<1>3. PlacesKnow'
  BY DEF PlacesKnow
<1> QED BY <1>2, <1>3, KemptQuiet DEF ClaimPlaces, NodePlaces, PtrPlaces

LEMMA KemptBegin ==
  ASSUME Sound, BitmapInv, OwnInv, Kempt, Prompt, NEW op, op # "dl", NEW n, NEW c, NEW l,
         BeginCreate(op, n, c, l), UNCHANGED <<itab, blk, dbbm>>
  PROVE  Kempt'
<1>1. pc = "idle" /\ up /\ ibm = dibm
  BY DEF Prompt, BitmapInv, InQformat
<1>2. /\ FreeInodes # {} /\ dibm' = ibm \cup {Min(FreeInodes)} /\ pc' = "new_block"
      /\ job' = [NoJob EXCEPT !.op = op, !.name = n, !.text = c, !.len = l,
                              !.idx = Min(FreeInodes), !.home = cwd]
  BY DEF BeginCreate, Goto, save_inode_bitmap
<1>3. job'.op = op /\ job'.idx = Min(FreeInodes)
  BY <1>2 DEF NoJob
<1> QED BY <1>1, <1>2, <1>3, KemptTaken

LEMMA KemptDefDir ==
  ASSUME Sound, BitmapInv, OwnInv, Kempt, DefDir
  PROVE  Kempt'
<1>1. pc = "defdirs" /\ UNCHANGED <<itab, blk, dbbm>> /\ ibm = dibm /\ job.op # "dl"
  BY AllSettled DEF DefDir, BitmapInv, InQformat
<1>2. CASE FreeInodes = {}
  <2>1. pc' = "defdirs" /\ dibm' = dibm /\ job'.op = job.op
    BY <1>2 DEF DefDir, Goto, Sound, TypeOK, Job
  <2>2. \A i \in Inodes : Settled(i)' <=> Settled(i)
    BY <1>1, <2>1 DEF Settled
  <2>3. PlacesKnow'
    BY <2>1 DEF PlacesKnow
  <2> QED BY <1>1, <2>1, <2>2, <2>3, KemptQuiet DEF ClaimPlaces, NodePlaces, PtrPlaces
<1>3. CASE FreeInodes # {}
  <2>1. /\ dibm' = ibm \cup {Min(FreeInodes)} /\ pc' = "new_block"
        /\ job' = [job EXCEPT !.name = DefDirs[job.k + 1], !.home = 0, !.idx = Min(FreeInodes)]
    BY <1>3 DEF DefDir, Goto, save_inode_bitmap
  <2>2. job'.op = job.op /\ job'.idx = Min(FreeInodes)
    BY <2>1 DEF Sound, TypeOK, Job
  <2> QED BY <1>1, <1>3, <2>1, <2>2, KemptTaken
<1> QED BY <1>2, <1>3

\* Steps of memory only: a note that is written again, cd, boot, the power cut.
LEMMA KemptElsewhere ==
  ASSUME Sound, OwnInv, Kempt,
         pc \in {"idle", "boot", "defdirs", "fw"}, UNCHANGED <<dbbm, dibm, itab, blk>>,
         pc' \in {"idle", "boot", "fw", "r_ibm", "wild"}, job'.op # "dl"
  PROVE  Kempt'
<1>1. \A i \in Inodes : Settled(i)' <=> Settled(i)
  BY AllSettled DEF Settled
<1>2. PlacesKnow'
  BY DEF PlacesKnow
<1> QED BY <1>1, <1>2, KemptQuiet DEF ClaimPlaces, NodePlaces, PtrPlaces

LEMMA KemptMemory ==
  ASSUME Sound, OwnInv, Kempt, NEW n, NEW c, pc = "idle" \/ ~PowerCut,
         NoteAgain(c) \/ Cd(n) \/ CdUp \/ DefDone \/ Boot \/ FwWild \/ PowerCut
  PROVE  Kempt'
<1>1. /\ pc \in {"idle", "boot", "defdirs", "fw"} /\ UNCHANGED <<dbbm, dibm, itab, blk>>
      /\ pc' \in {"idle", "boot", "fw", "r_ibm", "wild"}
  BY DEF NoteAgain, Cd, CdUp, DefDone, Boot, FwWild, PowerCut, Prompt, Writing, init_fs,
         Goto, Finish, disk
<1>2. job.op # "dl"
  BY <1>1, HeldOutsideDl
<1>3. job'.op # "dl"
  <2>1. CASE NoteAgain(c)
    BY <2>1 DEF NoteAgain, Goto, NoJob
  <2>2. CASE Cd(n) \/ CdUp
    BY <1>2, <2>2 DEF Cd, CdUp
  <2>3. CASE DefDone \/ Boot
    BY <2>3 DEF DefDone, Boot, init_fs, Goto, Finish, NoJob
  <2>4. CASE FwWild \/ PowerCut
    BY <2>4 DEF FwWild, PowerCut, Goto, NoJob
  <2> QED BY <2>1, <2>2, <2>3, <2>4
<1> QED BY <1>1, <1>3, KemptElsewhere

\* A format starts on a blank disk, where nothing is marked.
LEMMA KemptFormat ==
  ASSUME Sound, OwnInv, Kempt, Blank, Format \/ Qformat
  PROVE  Kempt'
<1>1. /\ pc = "idle" /\ pc' \in {"f_bbm", "q_ibm"} /\ job'.op # "dl"
      /\ UNCHANGED <<itab, blk>> /\ (dbbm' = dbbm \/ dbbm' = {})
      /\ pc' = "f_bbm" => bbm' = {}
  BY DEF Format, Qformat, Goto, NoJob
<1>2. Claims = {}
  BY <1>1 DEF Claims, NodePlaces, PtrPlaces
<1>3. dbbm' = {} /\ Blank'
  BY <1>1, <1>2, BlankIsUnmarked DEF Blank
<1>4. PlacesKnow'
  BY <1>1 DEF PlacesKnow
<1> QED BY <1>1, <1>3, <1>4, KemptBlank

\* Until the root's block is taken nothing is marked.
LEMMA KemptEarly ==
  ASSUME Sound, OwnInv, OwnInv', Kempt, QIbm \/ QItab \/ QSb \/ FBbm \/ FIbm \/ RIbm
  PROVE  Kempt'
<1>1. /\ pc \in {"q_ibm", "q_itab", "q_sb", "f_bbm", "f_ibm", "r_ibm"}
      /\ pc' \in EarlyPlaces \ {"r_inode"}
      /\ dbbm' = dbbm \/ (pc = "f_bbm" /\ dbbm' = bbm)
      /\ pc' = "f_bbm" => bbm' = {}
  BY DEF QIbm, QItab, QSb, FBbm, FIbm, RIbm, Goto, EarlyPlaces, mem
<1>2. job'.op = job.op /\ job.op # "dl"
  BY <1>1, HeldOutsideDl
  DEF QIbm, QItab, QSb, FBbm, FIbm, RIbm, Goto, Sound, TypeOK, Job
<1>3. Claims = {} /\ Blank /\ Blank'
  BY <1>1 DEF Claims, NodePlaces, PtrPlaces, OwnInv, RootInv, EarlyPlaces
<1>4. dbbm' = {}
  BY <1>1, <1>3, BlankIsUnmarked DEF Kempt, PlacesKnow
<1>5. PlacesKnow'
  BY <1>1 DEF PlacesKnow, EarlyPlaces
<1> QED BY <1>2, <1>3, <1>4, <1>5, KemptBlank

LEMMA KemptRBlock ==
  ASSUME Sound, BitmapInv, OwnInv, OwnInv', Kempt, RBlock
  PROVE  Kempt'
<1>1. pc = "r_block" /\ alloc_block /\ UNCHANGED <<itab, blk>>
  BY DEF RBlock
<1>2. job.op # "dl" /\ bbm = dbbm /\ Claims = {} /\ Blank
  BY <1>1, HeldOutsideDl
  DEF Claims, NodePlaces, PtrPlaces, OwnInv, RootInv, EarlyPlaces, BitmapInv, InQformat
<1>3. dbbm = {} /\ Blank'
  BY <1>1, <1>2, BlankIsUnmarked DEF Blank
<1>4. CASE NewBlock = 0
  <2>1. dbbm' = {}
    BY <1>1, <1>2, <1>3, <1>4, AllocKeepsMarks
  <2>2. pc' \in {"defdirs", "idle"} /\ job'.op # "dl"
    BY <1>2, <1>4 DEF RBlock, AfterRoot, Goto, Finish, NoJob, Sound, TypeOK, Job
  <2>3. PlacesKnow'
    BY <2>2 DEF PlacesKnow
  <2> QED BY <1>3, <2>1, <2>2, <2>3, KemptBlank
<1>5. CASE NewBlock # 0
  <2>1. /\ pc' = "r_inode" /\ job' = [job EXCEPT !.node = FreshInode(2, NewBlock)]
        /\ dbbm' = bbm \cup {NewBlock}
    BY <1>1, <1>5 DEF RBlock, Goto, alloc_block, save_block_bitmap
  <2>2. job'.op = job.op /\ job'.node = FreshInode(2, NewBlock)
    BY <2>1 DEF Sound, TypeOK, Job
  <2>3. NewBlock \in Claims'
    <3>1. job'.node.direct = [d \in Direct |-> IF d = 0 THEN NewBlock ELSE 0]
      BY <2>2, FreshFields
    <3>2. job'.node.direct[0] = NewBlock
      BY <3>1, BaseTypes
    <3> QED BY <1>5, <2>1, <3>2, BaseTypes DEF Claims, Refs, NodePlaces
  <2>4. PlacesKnow'
    BY <2>1 DEF PlacesKnow
  <2> QED BY <1>2, <1>3, <2>1, <2>2, <2>3, <2>4, KemptBlank
<1> QED BY <1>4, <1>5

\* What a new inode owns.
LEMMA FreshOwns ==
  ASSUME NEW x \in Inodes, NEW ty, NEW b \in DataBlocks, itab'[x] = FreshInode(ty, b)
  PROVE  Owned(x)' = {b}
<1>1. /\ itab'[x].direct = [i \in Direct |-> IF i = 0 THEN b ELSE 0]
      /\ itab'[x].single = 0 /\ b # 0
  BY FreshFields, BlocksAssumption
<1>2. Pointers(x)' = {b}
  BY <1>1, BaseTypes DEF Pointers
<1> QED BY <1>1, <1>2 DEF Owned

LEMMA FreshRefs ==
  ASSUME NEW ty, NEW b \in DataBlocks
  PROVE  Refs(FreshInode(ty, b)) = {b}
<1>1. /\ FreshInode(ty, b).direct = [i \in Direct |-> IF i = 0 THEN b ELSE 0]
      /\ FreshInode(ty, b).single = 0 /\ b # 0
  BY FreshFields, BlocksAssumption
<1>2. {FreshInode(ty, b).direct[d] : d \in Direct} \subseteq {0, b}
  BY <1>1
<1>3. FreshInode(ty, b).direct[0] = b
  BY <1>1, BaseTypes
<1> QED BY <1>1, <1>2, <1>3, BaseTypes DEF Refs

\* The root takes its block over.
LEMMA KemptRInode ==
  ASSUME Sound, OwnInv, Kempt, RInode
  PROVE  Kempt'
<1>1. /\ pc = "r_inode" /\ pc' = "r_zero" /\ job' = job
      /\ itab' = [itab EXCEPT ![0] = job.node] /\ UNCHANGED <<dbbm, dibm, blk, mem>>
  BY DEF RInode, Goto
<1>2. PICK b \in DataBlocks : b \in dbbm /\ job.node = FreshInode(2, b)
  BY <1>1 DEF OwnInv, JobInv, RootJobOK
<1>3. Blank /\ 0 \in dibm /\ 0 \in Inodes
  BY <1>1, BaseTypes DEF OwnInv, RootInv, EarlyPlaces
<1>4. Claims = {b} /\ Claims' = {}
  BY <1>1, <1>2, FreshRefs DEF Claims, NodePlaces, PtrPlaces
<1>5. /\ itab'[0] = FreshInode(2, b) /\ \A i \in Inodes \ {0} : itab'[i] = itab[i]
  BY <1>1, <1>2, <1>3, StateTypes
<1>6. Owned(0)' = {b}
  BY <1>3, <1>5, FreshOwns
<1>7. job.op # "dl" /\ \A i \in Inodes : (Settled(i) <=> i \in dibm) /\ (Settled(i)' <=> i \in dibm)
  BY <1>1, AllSettled DEF Settled
<1>8. \A i \in Inodes : Owned(i) = {}
  BY <1>3, BlankOwnsNothing
<1>9. PlacesKnow'
  BY <1>1 DEF PlacesKnow
<1> QED BY <1>1, <1>2, <1>3, <1>4, <1>5, <1>6, <1>7, <1>8, <1>9, KemptGain

\* Nobody but a directory reaches its blocks, and it only directly.
LEMMA DirBlockIsNoSingle ==
  ASSUME Sound, OwnInv, Kempt, NEW d \in Inodes, Held(d), itab[d].type = 2, Settled(d),
         NEW b \in Pointers(d)
  PROVE  \A i \in Inodes : Settled(i) => itab[i].single # b
<1>1. b \in Owned(d) /\ b # 0 /\ itab[d].single # b
  BY DirBlockPointsNowhere, BlocksAssumption
<1>2. \A i \in Inodes : Settled(i) /\ i # d => b \notin Owned(i)
  BY <1>1 DEF Kempt, SettledApart
<1> QED BY <1>1, <1>2 DEF Owned

LEMMA KemptRZero ==
  ASSUME Sound, OwnInv, Kempt, RZero
  PROVE  Kempt'
<1>1. /\ pc = "r_zero" /\ blk' = [blk EXCEPT ![job.node.direct[0]] = ZeroBlock]
      /\ UNCHANGED <<dbbm, dibm, itab, mem>>
  BY DEF RZero
<1>2. Rooted /\ job.node = itab[0] /\ job.node.direct[0] # 0
  BY <1>1 DEF OwnInv, RootInv, JobInv, RootJobOK, EarlyPlaces
<1>3. PICK b \in DataBlocks : b = job.node.direct[0] /\ b \in Pointers(0)
  BY <1>2, StateTypes, BaseTypes DEF Pointers, Ptr
<1>4. job.op # "dl" /\ \A i \in Inodes : Settled(i) <=> i \in dibm
  BY <1>1, AllSettled
<1>5. \A i \in Inodes : Settled(i) => itab[i].single # b
  BY <1>2, <1>3, <1>4, DirsAreHeld, DirBlockIsNoSingle, BaseTypes
<1>6. pc' \in {"defdirs", "idle"} /\ job'.op # "dl"
  BY <1>4 DEF RZero, AfterRoot, Goto, Finish, NoJob, Sound, TypeOK, Job
<1>7. \A i \in Inodes : Settled(i)' <=> Settled(i)
  BY <1>1, <1>4, <1>6 DEF Settled
<1>8. Claims = {} /\ Claims' = {} /\ PlacesKnow'
  BY <1>1, <1>6 DEF Claims, NodePlaces, PtrPlaces, PlacesKnow
<1>9. \A d \in DataBlocks \ {b} : blk'[d] = blk[d]
  BY <1>1, <1>3, StateTypes
<1> QED BY <1>1, <1>5, <1>6, <1>7, <1>8, <1>9, KemptStay

-----------------------------------------------------------------------------
(* No block is lost: a file or a directory is made                         *)

LEMMA KemptNewBlock ==
  ASSUME Sound, BitmapInv, OwnInv, Kempt, NewBlockStep
  PROVE  Kempt'
<1>1. /\ pc = "new_block" /\ UNCHANGED <<itab, blk>> /\ bbm = dbbm /\ ibm = dibm
  BY DEF NewBlockStep, BitmapInv, InQformat
<1>2. job.op # "dl" /\ job.idx \in Inodes
  BY <1>1, HeldOutsideDl DEF Sound, TypeOK, Job
<1>3. CASE NewBlock = 0
  <2>1. /\ UNCHANGED dbbm /\ dibm' = ibm \ {job.idx} /\ pc' \in {"defdirs", "idle"}
        /\ job'.op # "dl"
    BY <1>2, <1>3
    DEF NewBlockStep, free_inode, save_inode_bitmap, Goto, Finish, NoJob, Sound, TypeOK, Job
  <2>2. \A i \in Inodes : Settled(i)' <=> Settled(i)
    BY <1>1, <1>2, <2>1 DEF Settled
  <2>3. PlacesKnow'
    BY <2>1 DEF PlacesKnow
  <2> QED BY <1>1, <2>1, <2>2, <2>3, KemptQuiet DEF ClaimPlaces, NodePlaces, PtrPlaces
<1>4. CASE NewBlock # 0
  <2>1. /\ alloc_block /\ pc' = "new_inode" /\ dibm' = dibm
        /\ job' = [job EXCEPT !.node = FreshInode(Kind, NewBlock)]
    BY <1>4 DEF NewBlockStep, Goto, Kind
  <2>2. job'.op = job.op /\ job'.idx = job.idx /\ job'.node = FreshInode(Kind, NewBlock)
    BY <2>1 DEF Sound, TypeOK, Job
  <2>3. NewBlock \in DataBlocks
    BY <1>4, NewBlockIsFree DEF Sound, TypeOK, MemType
  <2>4. Claims = {} /\ Claims' = {NewBlock} /\ PlacesKnow'
    BY <1>1, <2>1, <2>2, <2>3, FreshRefs DEF Claims, NodePlaces, PtrPlaces, PlacesKnow
  <2>5. \A i \in Inodes : Settled(i)' <=> Settled(i)
    BY <1>1, <1>2, <2>1, <2>2 DEF Settled
  <2> QED BY <1>1, <1>2, <2>1, <2>2, <2>4, <2>5, KemptAlloc
<1> QED BY <1>3, <1>4

LEMMA KemptNewInode ==
  ASSUME Sound, OwnInv, Kempt, NewInodeStep
  PROVE  Kempt'
<1>1. /\ pc = "new_inode" /\ pc' = "dir_add"
      /\ itab' = [itab EXCEPT ![job.idx] = job.node]
      /\ job' = [job EXCEPT !.dir = itab'[job.home]]
      /\ UNCHANGED <<dbbm, dibm, blk, mem>>
  BY DEF NewInodeStep, Goto
<1>2. PICK b \in DataBlocks : b \in dbbm /\ job.node = FreshInode(Kind, b)
  BY <1>1 DEF OwnInv, JobInv, FreshOK, Spare
<1>3. PICK x \in Inodes : x = job.idx
  BY DEF Sound, TypeOK, Job
<1>4. x \in dibm /\ job.op # "dl" /\ job'.op = job.op /\ job'.idx = x
  BY <1>1, <1>3, HeldOutsideDl DEF OwnInv, JobInv, MakingOK, Sound, TypeOK, Job
<1>5. Claims = {b} /\ Claims' = {} /\ PlacesKnow'
  BY <1>1, <1>2, FreshRefs DEF Claims, NodePlaces, PtrPlaces, PlacesKnow
<1>6. itab'[x] = FreshInode(Kind, b) /\ \A i \in Inodes \ {x} : itab'[i] = itab[i]
  BY <1>1, <1>2, <1>3, StateTypes
<1>7. PICK y : y = Kind
  OBVIOUS
<1>8. Owned(x)' = {b}
  BY <1>6, <1>7, FreshOwns
<1>9. /\ \A i \in Inodes \ {x} : Settled(i)' <=> Settled(i)
      /\ ~Settled(x) /\ Settled(x)'
  BY <1>1, <1>3, <1>4 DEF Settled
<1>10. \A i \in Inodes \ {x} : Settled(i) => 0 \notin Owned(i) /\ Owned(i) \cap Claims = {}
  BY <1>3, OwnedIsNotZero DEF Kempt, ClaimsApart
<1>11. \A d \in DataBlocks \ {0} : blk'[d] = blk[d]
  BY <1>1
<1>12. /\ Claims \subseteq Owned(x)' /\ Claims \subseteq dbbm
       /\ \A p \in Owned(x)' : p \in Claims
  BY <1>2, <1>5, <1>8
<1>13. dbbm' = dbbm /\ job'.op # "dl"
  BY <1>1, <1>4
<1> QED BY <1>5, <1>6, <1>9, <1>10, <1>11, <1>12, <1>13, KemptGain

\* dir_add is over; it may have filled a cell of a block of the directory.
LEMMA KemptAfterAdd ==
  ASSUME Sound, OwnInv, Kempt, pc \in {"dir_add", "dir_put"}, NEW ok, AfterAdd(ok),
         UNCHANGED <<itab, dibm, dbbm>>, NEW c,
         \A d \in DataBlocks \ {c} : blk'[d] = blk[d],
         c = 0 \/ c \in Pointers(job.home)
  PROVE  Kempt'
<1>1. Rooted /\ job.home \in {0, cwd} /\ job.op \in Creates
  BY DEF OwnInv, RootInv, EarlyPlaces, JobInv, AddingOK
<1>2. job.op # "dl" /\ \A i \in Inodes : Settled(i) <=> i \in dibm
  BY AllSettled
<1>3. PICK h \in Inodes : h = job.home /\ Held(h) /\ itab[h].type = 2 /\ Settled(h)
  BY <1>1, <1>2, DirsAreHeld, BaseTypes, StateTypes
<1>4. \A i \in Inodes : Settled(i) => itab[i].single # c \/ itab[i].single = 0
  BY <1>3, DirBlockIsNoSingle
<1>5. pc' \in {"fw", "defdirs", "idle"} /\ job'.op # "dl"
  <2>1. CASE job.op \in FileOps /\ pc' = "fw"
    <3>1. job'.op = job.op
      BY <2>1 DEF AfterAdd, Goto, Finish, NoJob, Sound, TypeOK, Job, FileOps, Formats
    <3> QED BY <1>2, <2>1, <3>1
  <2>2. CASE job.op \in Formats /\ Goto("defdirs", [job EXCEPT !.k = job.k + 1])
    BY <1>2, <2>2 DEF Goto, Sound, TypeOK, Job
  <2>3. CASE Finish
    BY <2>3 DEF Goto, Finish, NoJob
  <2> QED BY <2>1, <2>2, <2>3 DEF AfterAdd, Goto
<1>6. \A i \in Inodes : Settled(i)' <=> Settled(i)
  BY <1>2, <1>5 DEF Settled
<1>7. Claims = {} /\ Claims' = {} /\ PlacesKnow'
  BY <1>5 DEF Claims, NodePlaces, PtrPlaces, PlacesKnow
<1> QED BY <1>4, <1>5, <1>6, <1>7, KemptStay

LEMMA KemptDirAdd ==
  ASSUME Sound, BitmapInv, OwnInv, Kempt, DirAdd
  PROVE  Kempt'
<1>1. pc = "dir_add" /\ UNCHANGED <<dibm, itab>> /\ bbm = dbbm
  BY DEF DirAdd, BitmapInv, InQformat
<1>2. job.op # "dl" /\ \A i \in Inodes : Settled(i) <=> i \in dibm
  BY <1>1, AllSettled
<1>3. CASE AddStops(job.dir) = {}
  BY <1>1, <1>3, KemptAfterAdd DEF DirAdd
<1>4. CASE AddStops(job.dir) # {}
  <2>1. PICK a \in Direct : a = Min(AddStops(job.dir))
    BY <1>4, MinIsLeast, BaseTypes DEF AddStops
  <2>2. CASE job.dir.direct[a] # 0
    <3>1. PICK b : b = job.dir.direct[a] /\ b \in Pointers(job.home)
      BY <1>1, <2>2 DEF Pointers, OwnInv, JobInv, AddOK
    <3>2. /\ blk' = [blk EXCEPT ![b][Min(FreeCells(b))] = Entry(job.name, job.idx)]
          /\ AfterAdd(TRUE) /\ UNCHANGED <<bbm, dbbm>>
      BY <1>4, <2>1, <2>2, <3>1 DEF DirAdd
    <3>3. \A d \in DataBlocks \ {b} : blk'[d] = blk[d]
      BY <3>2, StateTypes
    <3> QED BY <1>1, <3>1, <3>2, <3>3, KemptAfterAdd
  <2>3. CASE job.dir.direct[a] = 0 /\ NewBlock = 0
    <3>1. AfterAdd(FALSE) /\ UNCHANGED <<blk, dbbm>>
      BY <1>1, <1>4, <2>1, <2>3, AllocKeepsMarks DEF DirAdd
    <3> QED BY <1>1, <3>1, KemptAfterAdd
  <2>4. CASE job.dir.direct[a] = 0 /\ NewBlock # 0
    <3>1. /\ pc' = "dir_grow" /\ alloc_block /\ UNCHANGED blk
          /\ job' = [job EXCEPT !.dir.direct[a] = NewBlock, !.ptr = NewBlock]
      BY <1>4, <2>1, <2>4 DEF DirAdd, Goto
    <3>2. /\ job'.op = job.op /\ job'.idx = job.idx /\ job'.ptr = NewBlock
          /\ job.idx \in Inodes
      BY <3>1 DEF Sound, TypeOK, Job
    <3>3. Claims = {} /\ Claims' = {NewBlock} /\ PlacesKnow'
      BY <1>1, <2>4, <3>1, <3>2 DEF Claims, NodePlaces, PtrPlaces, PlacesKnow
    <3>4. \A i \in Inodes : Settled(i)' <=> Settled(i)
      BY <1>1, <1>2, <3>1, <3>2 DEF Settled
    <3> QED BY <1>1, <1>2, <3>1, <3>2, <3>3, <3>4, KemptAlloc
  <2> QED BY <2>2, <2>3, <2>4
<1> QED BY <1>3, <1>4

LEMMA KemptDirPut ==
  ASSUME Sound, OwnInv, Kempt, DirPut
  PROVE  Kempt'
<1>1. /\ pc = "dir_put" /\ AfterAdd(TRUE) /\ UNCHANGED <<itab, dibm, dbbm>>
      /\ blk' = [blk EXCEPT ![job.ptr] = [ZeroBlock EXCEPT ![0] = Entry(job.name, job.idx)]]
  BY DEF DirPut
<1>2. job.ptr \in Pointers(job.home)
  BY <1>1 DEF OwnInv, JobInv, PutOK
<1>3. \A d \in DataBlocks \ {job.ptr} : blk'[d] = blk[d]
  BY <1>1, StateTypes
<1> QED BY <1>1, <1>2, <1>3, KemptAfterAdd

\* The directory takes its new block over.
LEMMA KemptDirGrow ==
  ASSUME Sound, OwnInv, Kempt, DirGrow
  PROVE  Kempt'
<1>1. /\ pc = "dir_grow" /\ pc' = "dir_put" /\ job' = job
      /\ itab' = [itab EXCEPT ![DirInodeId] = job.dir]
      /\ UNCHANGED <<dbbm, dibm, blk, mem>>
  BY DEF DirGrow, Goto
<1>2. /\ job.home \in {0, cwd} /\ DirInodeId = job.home /\ job.ptr # 0 /\ Spare(job.ptr)
      /\ job.idx \notin {0, cwd}
  BY <1>1 DEF OwnInv, JobInv, AddingOK, GrowOK
<1>3. PICK a \in Direct :
        itab[job.home].direct[a] = 0 /\ job.dir = [itab[job.home] EXCEPT !.direct[a] = job.ptr]
  BY <1>1 DEF OwnInv, JobInv, GrowOK
<1>4. PICK x \in Inodes, b \in DataBlocks : x = job.home /\ b = job.ptr
  BY <1>2 DEF Sound, TypeOK, Job, Ptr
<1>5. /\ job.op # "dl" /\ Rooted
      /\ \A i \in Inodes : (Settled(i) <=> i \in dibm) /\ (Settled(i)' <=> i \in dibm)
  BY <1>1, AllSettled DEF OwnInv, RootInv, EarlyPlaces, Settled
<1>6. Held(x) /\ itab[x].single = 0 /\ x \in dibm
  BY <1>2, <1>4, <1>5, DirsAreHeld
<1>7. /\ itab'[x].direct = [itab[x].direct EXCEPT ![a] = b] /\ itab'[x].single = 0
      /\ \A i \in Inodes \ {x} : itab'[i] = itab[i]
  <2>1. itab'[x] = [itab[x] EXCEPT !.direct = [itab[x].direct EXCEPT ![a] = b]]
    BY <1>1, <1>2, <1>3, <1>4, StateTypes
  <2>2. \A i \in Inodes \ {x} : itab'[i] = itab[i]
    BY <1>1, <1>2, <1>4, StateTypes
  <2>3. itab[x] \in Inode
    BY StateTypes
  <2> QED BY <1>6, <2>1, <2>2, <2>3 DEF Inode
<1>8. \A p : p \in Pointers(x)' <=> p \in Pointers(x) \/ p = b
  <2>1. itab'[x].direct[a] = b /\ \A e \in Direct \ {a} : itab'[x].direct[e] = itab[x].direct[e]
    BY <1>7, StateTypes
  <2>2. b # 0 /\ itab[x].direct[a] = 0
    BY <1>3, <1>4, BlocksAssumption
  <2> QED BY <2>1, <2>2 DEF Pointers
<1>9. \A p : p \in Owned(x)' <=> p \in Owned(x) \/ p = b
  BY <1>6, <1>7, <1>8 DEF Owned
<1>10. Claims = {b} /\ Claims' = {} /\ PlacesKnow'
  BY <1>1, <1>2, <1>4 DEF Claims, NodePlaces, PtrPlaces, PlacesKnow
<1>11. \A i \in Inodes : Settled(i) => b \notin Owned(i) /\ 0 \notin Owned(i)
  <2>1. Held(job.idx) /\ job.idx \in Inodes
    BY <1>1 DEF Held, HoldPlaces, Sound, TypeOK, Job
  <2> QED BY <1>2, <1>4, <1>10, <2>1, OwnedIsNotZero DEF Kempt, ClaimsApart, Spare
<1>12. b \in dbbm
  BY <1>2, <1>4 DEF Spare
<1>13. \A d \in DataBlocks \ {0} : blk'[d] = blk[d]
  BY <1>1
<1>14. /\ Claims \subseteq Owned(x)' /\ Claims \subseteq dbbm /\ Owned(x) \subseteq Owned(x)'
       /\ \A p \in Owned(x)' : p \in Claims \/ (Settled(x) /\ p \in Owned(x))
  BY <1>5, <1>6, <1>9, <1>10, <1>12
<1>15. /\ dbbm' = dbbm /\ job'.op # "dl" /\ Settled(x)' /\ x \in Inodes
       /\ \A i \in Inodes \ {x} : Settled(i)' <=> Settled(i)
  BY <1>1, <1>5, <1>6
<1>16. \A i \in Inodes \ {x} : Settled(i) =>
         /\ itab'[i].direct = itab[i].direct /\ itab'[i].single = itab[i].single
         /\ 0 \notin Owned(i) /\ Owned(i) \cap Claims = {}
  BY <1>7, <1>10, <1>11
<1> QED BY <1>10, <1>13, <1>14, <1>15, <1>16, KemptGain

-----------------------------------------------------------------------------
(* No block is lost: fs_write                                              *)

\* An inode owns whatever it names.
LEMMA RefsOwned ==
  ASSUME NEW i
  PROVE  Refs(itab[i]) \subseteq Owned(i)
BY DEF Refs, Owned, Pointers

LEMMA KemptFwAlloc ==
  ASSUME Sound, BitmapInv, OwnInv, Kempt, FwAllocDirect \/ FwAllocSingle \/ FwAllocPtr
  PROVE  Kempt'
<1>1. /\ pc = "fw" /\ pc' \in {"fw_inode", "fw_zero", "fw_ptr"} /\ alloc_block
      /\ UNCHANGED <<dibm, itab, blk>>
  BY DEF FwAllocDirect, FwAllocSingle, FwAllocPtr, Writing, Goto
<1>2. /\ job.op # "dl" /\ job.idx \in Inodes /\ bbm = dbbm /\ job.idx \in dibm
  BY <1>1, WritingFacts DEF Good
<1>3. PICK x \in Inodes : x = job.idx
  BY <1>2
<1>4. job.node = itab[x]
  BY <1>1, <1>3 DEF OwnInv, JobInv, NodeOK
<1>5. job'.op = job.op /\ job'.idx = job.idx
  BY DEF FwAllocDirect, FwAllocSingle, FwAllocPtr, Goto, Sound, TypeOK, Job
<1>6. /\ \A i \in Inodes : Settled(i)' <=> Settled(i)
      /\ Settled(x)
  BY <1>1, <1>2, <1>3, <1>5 DEF Settled
<1>7. PICK b \in Ptr : b = NewBlock
  BY NewBlockIsFree DEF Sound, TypeOK, MemType
<1>8. itab[x] \in Inode /\ itab[x].direct \in [Direct -> Ptr] /\ Refs(itab[x]) \subseteq Owned(x)
  BY StateTypes, RefsOwned
<1>9. Claims' \subseteq Owned(x) \cup {b} /\ (b # 0 => b \in Claims')
  <2>1. CASE FwAllocDirect
    <3>1. /\ pc' = "fw_inode" /\ job' = [job EXCEPT !.node.direct[LB] = NewBlock] /\ InDirect
      BY <2>1 DEF FwAllocDirect, Goto
    <3>2. PICK d \in Direct : d = LB
      BY <3>1, PlaceInFile
    <3>3. job'.node = [itab[x] EXCEPT !.direct[d] = b]
      BY <1>4, <1>7, <3>1, <3>2 DEF Sound, TypeOK, Job
    <3>4. /\ job'.node.direct = [itab[x].direct EXCEPT ![d] = b]
          /\ job'.node.single = itab[x].single
      BY <1>8, <3>3 DEF Inode
    <3>5. \A e \in Direct : job'.node.direct[e] = IF e = d THEN b ELSE itab[x].direct[e]
      BY <1>8, <3>4
    <3>6. Claims' = Refs(job'.node)
      BY <3>1 DEF Claims, NodePlaces, PtrPlaces
    <3> QED BY <1>8, <3>4, <3>5, <3>6 DEF Refs
  <2>2. CASE FwAllocSingle
    <3>1. /\ pc' = "fw_zero" /\ job' = [job EXCEPT !.node.single = NewBlock]
      BY <2>2 DEF FwAllocSingle, Goto
    <3>2. job'.node = [itab[x] EXCEPT !.single = b]
      BY <1>4, <1>7, <3>1 DEF Sound, TypeOK, Job
    <3>3. job'.node.direct = itab[x].direct /\ job'.node.single = b
      BY <1>8, <3>2 DEF Inode
    <3>4. Claims' = Refs(job'.node)
      BY <3>1 DEF Claims, NodePlaces, PtrPlaces
    <3> QED BY <1>8, <3>3, <3>4 DEF Refs
  <2>3. CASE FwAllocPtr
    <3>1. pc' = "fw_ptr" /\ job' = [job EXCEPT !.ptr = NewBlock]
      BY <2>3 DEF FwAllocPtr, Goto
    <3>2. job'.ptr = b
      BY <1>7, <3>1 DEF Sound, TypeOK, Job
    <3> QED BY <3>1, <3>2 DEF Claims, NodePlaces, PtrPlaces
  <2> QED BY <2>1, <2>2, <2>3
<1>10. Claims = {} /\ PlacesKnow'
  BY <1>1 DEF Claims, NodePlaces, PtrPlaces, PlacesKnow
<1> QED BY <1>1, <1>2, <1>3, <1>5, <1>6, <1>7, <1>9, <1>10, KemptAlloc

LEMMA KemptFwZero ==
  ASSUME Sound, BitmapInv, OwnInv, Kempt, FwZero
  PROVE  Kempt'
<1>1. /\ pc = "fw_zero" /\ pc' = "fw_inode" /\ job' = job /\ UNCHANGED <<dbbm, dibm, itab>>
      /\ blk' = blk \/ blk' = [blk EXCEPT ![job.node.single] = ZeroBlock]
  BY DEF FwZero, Goto
<1>2. job.op # "dl"
  BY <1>1, WritingFacts
<1>3. PICK c : c = job.node.single
  OBVIOUS
<1>4. \A d \in DataBlocks \ {c} : blk'[d] = blk[d]
  BY <1>1, <1>3, StateTypes
<1>5. Claims' = Claims /\ PlacesKnow' /\ (c # 0 => c \in Claims)
  BY <1>1, <1>3 DEF Claims, NodePlaces, PtrPlaces, PlacesKnow, Refs
<1>6. \A i \in Inodes : Settled(i) => itab[i].single # c \/ itab[i].single = 0
  <2>1. itab[job.idx].single = 0
    BY <1>1 DEF OwnInv, JobInv, ZeroOK
  <2>2. \A i \in Inodes \ {job.idx} : Settled(i) /\ c # 0 => c \notin Owned(i)
    BY <1>5 DEF Kempt, ClaimsApart
  <2> QED BY <2>1, <2>2 DEF Owned
<1>7. \A i \in Inodes : Settled(i)' <=> Settled(i)
  BY <1>1 DEF Settled
<1> QED BY <1>1, <1>2, <1>4, <1>5, <1>6, <1>7, KemptStay

\* The file takes its new block over.
LEMMA KemptFwInode ==
  ASSUME Sound, BitmapInv, OwnInv, Kempt, FwInode
  PROVE  Kempt'
<1>1. /\ pc = "fw_inode" /\ itab' = [itab EXCEPT ![job.idx] = job.node]
      /\ UNCHANGED <<dbbm, dibm, blk>>
      /\ (pc' = "fw" /\ job' = job) \/ (pc' = "idle" /\ job'.op = "none")
  BY DEF FwInode, Goto, Finish, NoJob
<1>2. job.op # "dl" /\ job.idx \in dibm /\ job.idx \in Inodes
  BY <1>1, WritingFacts DEF Good
<1>3. PICK x \in Inodes : x = job.idx
  BY <1>2
<1>4. PICK b \in Ptr :
        /\ b = 0 \/ Spare(b)
        /\ \/ \E d \in Direct : /\ itab[x].direct[d] = 0
                                /\ job.node = [itab[x] EXCEPT !.direct[d] = b]
           \/ /\ itab[x].single = 0 /\ job.node = [itab[x] EXCEPT !.single = b]
              /\ b # 0 => blk[b] = ZeroBlock
  BY <1>1, <1>3 DEF OwnInv, JobInv, InodeOK
<1>5. itab'[x] = job.node /\ \A i \in Inodes \ {x} : itab'[i] = itab[i]
  BY <1>1, <1>3, StateTypes
<1>6. itab[x] \in Inode /\ itab[x].direct \in [Direct -> Ptr]
  BY StateTypes
<1>7. \A p : p \in Owned(x)' <=> p \in Owned(x) \/ (p = b /\ p # 0)
  <2>1. ASSUME NEW d \in Direct, itab[x].direct[d] = 0,
               job.node = [itab[x] EXCEPT !.direct[d] = b]
        PROVE  \A p : p \in Owned(x)' <=> p \in Owned(x) \/ (p = b /\ p # 0)
    <3>1. /\ itab'[x].direct = [itab[x].direct EXCEPT ![d] = b]
          /\ itab'[x].single = itab[x].single
      BY <1>5, <1>6, <2>1 DEF Inode
    <3>2. \A e \in Direct : itab'[x].direct[e] = IF e = d THEN b ELSE itab[x].direct[e]
      BY <1>6, <3>1
    <3>3. \A p : p \in Pointers(x)' <=> p \in Pointers(x) \/ (p = b /\ p # 0)
      BY <2>1, <3>2 DEF Pointers
    <3> QED BY <1>1, <3>1, <3>3 DEF Owned
  <2>2. ASSUME itab[x].single = 0, job.node = [itab[x] EXCEPT !.single = b],
               b # 0 => blk[b] = ZeroBlock
        PROVE  \A p : p \in Owned(x)' <=> p \in Owned(x) \/ (p = b /\ p # 0)
    <3>1. itab'[x].direct = itab[x].direct /\ itab'[x].single = b
      BY <1>5, <1>6, <2>2 DEF Inode
    <3>2. Pointers(x)' = Pointers(x)
      BY <3>1 DEF Pointers
    <3>3. b # 0 => \A s \in Cells : blk'[b][s].w = 0
      BY <1>1, <2>2 DEF ZeroBlock, Zero
    <3> QED BY <2>2, <3>1, <3>2, <3>3 DEF Owned
  <2> QED BY <1>4, <2>1, <2>2
<1>8. Claims = Refs(job.node) /\ Claims' = {} /\ PlacesKnow'
  BY <1>1 DEF Claims, NodePlaces, PtrPlaces, PlacesKnow
<1>9. Refs(job.node) \subseteq Owned(x)'
  BY <1>5 DEF Refs, Owned, Pointers
<1>10. /\ \A i \in Inodes \ {x} : Settled(i)' <=> Settled(i)
       /\ Settled(x) /\ Settled(x)' /\ job'.op # "dl"
  BY <1>1, <1>2, <1>3 DEF Settled
<1>11. Owned(x) \subseteq dbbm /\ (b # 0 => b \in dbbm)
  BY <1>4, <1>10 DEF Kempt, SettledMarked, Spare
<1>12. b # 0 => b \in Claims
  <2>1. CASE \E d \in Direct : job.node = [itab[x] EXCEPT !.direct[d] = b]
    <3>1. PICK d \in Direct : job.node = [itab[x] EXCEPT !.direct[d] = b]
      BY <2>1
    <3>2. job.node.direct[d] = b
      BY <1>6, <3>1 DEF Inode
    <3> QED BY <1>8, <3>2 DEF Refs
  <2>2. CASE job.node = [itab[x] EXCEPT !.single = b]
    <3>1. job.node.single = b
      BY <1>6, <2>2 DEF Inode
    <3> QED BY <1>8, <3>1 DEF Refs
  <2> QED BY <1>4, <2>1, <2>2
<1>13. /\ Claims \subseteq Owned(x)' /\ Claims \subseteq dbbm /\ Owned(x) \subseteq Owned(x)'
       /\ \A p \in Owned(x)' : p \in Claims \/ (Settled(x) /\ p \in Owned(x))
  BY <1>7, <1>8, <1>9, <1>10, <1>11, <1>12
<1>14. \A i \in Inodes \ {x} : Settled(i) =>
         /\ itab'[i].direct = itab[i].direct /\ itab'[i].single = itab[i].single
         /\ 0 \notin Owned(i) /\ Owned(i) \cap Claims = {}
  BY <1>3, <1>5, OwnedIsNotZero DEF Kempt, ClaimsApart
<1>15. dbbm' = dbbm /\ \A d \in DataBlocks \ {0} : blk'[d] = blk[d]
  BY <1>1
<1> QED BY <1>8, <1>10, <1>13, <1>14, <1>15, KemptGain

LEMMA KemptFwPtr ==
  ASSUME Sound, BitmapInv, OwnInv, Kempt, FwPtr
  PROVE  Kempt'
<1>1. /\ pc = "fw_ptr" /\ blk' = [blk EXCEPT ![job.node.single][PI] = Pointer(job.ptr)]
      /\ UNCHANGED <<dbbm, dibm, itab>>
      /\ (pc' = "fw" /\ job' = job) \/ (pc' = "idle" /\ job'.op = "none")
  BY DEF FwPtr, Goto, Finish, NoJob
<1>2. job.op # "dl" /\ Good(job.idx) /\ job.idx \in Inodes /\ job.idx \in dibm
  BY <1>1, WritingFacts DEF Good
<1>3. /\ job.node = itab[job.idx] /\ job.node.single # 0 /\ PI \in Cells
      /\ job.ptr = 0 \/ Spare(job.ptr)
      /\ blk[job.node.single][PI].w = 0
  BY <1>1 DEF OwnInv, JobInv, NodeOK, PtrPlaceOK
<1>4. PICK x \in Inodes : x = job.idx
  BY <1>2
<1>5. PICK c \in DataBlocks : c = itab[x].single /\ c = job.node.single /\ c # 0
  BY <1>3, <1>4, StateTypes DEF Ptr
<1>6. PICK q \in Cells, b \in Ptr : q = PI /\ b = job.ptr
  BY <1>3, FieldTypes DEF Sound
<1>7. /\ \A d \in DataBlocks \ {c} : blk'[d] = blk[d]
      /\ blk'[c][q] = Pointer(b) /\ \A s \in Cells \ {q} : blk'[c][s] = blk[c][s]
  BY <1>1, <1>5, <1>6, StateTypes
<1>8. \A p : p \in Owned(x)' <=> p \in Owned(x) \/ (p = b /\ p # 0)
  <2>1. Pointers(x)' = Pointers(x) /\ itab'[x].single = c
    BY <1>1, <1>5 DEF Pointers
  <2>2. blk'[c][q].w = b /\ blk[c][q].w = 0
    BY <1>3, <1>5, <1>6, <1>7 DEF Pointer
  <2> QED BY <1>5, <1>7, <2>1, <2>2 DEF Owned
<1>9. Claims = {b} \ {0} /\ Claims' = {} /\ PlacesKnow'
  BY <1>1, <1>6 DEF Claims, NodePlaces, PtrPlaces, PlacesKnow
<1>10. /\ \A i \in Inodes \ {x} : Settled(i)' <=> Settled(i)
       /\ Settled(x) /\ Settled(x)' /\ job'.op # "dl"
  BY <1>1, <1>2, <1>4 DEF Settled
<1>11. Claims \subseteq dbbm
  BY <1>3, <1>6, <1>9 DEF Spare
<1>12. \A i \in Inodes \ {x} : Settled(i) =>
         /\ itab'[i].direct = itab[i].direct /\ itab'[i].single = itab[i].single
         /\ c \notin Owned(i) /\ Owned(i) \cap Claims = {}
  <2>1. c \in Owned(x)
    BY <1>5 DEF Owned
  <2> QED BY <1>1, <1>4, <1>10, <2>1 DEF Kempt, ClaimsApart, SettledApart
<1>13. /\ Claims \subseteq Owned(x)' /\ Owned(x) \subseteq Owned(x)'
       /\ \A p \in Owned(x)' : p \in Claims \/ (Settled(x) /\ p \in Owned(x))
  BY <1>8, <1>9, <1>10
<1> QED BY <1>1, <1>7, <1>9, <1>10, <1>11, <1>12, <1>13, KemptGain

\* Text goes into a block of the file that is not its pointer block.
LEMMA KemptFwData ==
  ASSUME Sound, BitmapInv, OwnInv, Kempt, FwData
  PROVE  Kempt'
<1>1. /\ pc = "fw" /\ Mapped /\ Phys \in DataBlocks /\ pc' = "fw"
      /\ \E z : blk' = [blk EXCEPT ![Phys] = z]
      /\ job'.op = job.op /\ UNCHANGED <<dbbm, dibm, itab>>
  BY DEF FwData, Writing, Goto, Sound, TypeOK, Job
<1>2. job.op # "dl" /\ Good(job.idx) /\ job.idx \in Inodes /\ job.idx \in dibm
  BY <1>1, WritingFacts DEF Good
<1>3. job.node = itab[job.idx]
  BY <1>1 DEF OwnInv, JobInv, NodeOK
<1>4. PICK x \in Inodes, c \in DataBlocks : x = job.idx /\ c = Phys
  BY <1>1, <1>2
<1>5. c \in Owned(x) /\ c # itab[x].single
  <2>1. c # 0
    BY BlocksAssumption
  <2>2. CASE InDirect
    BY <1>2, <1>3, <1>4, <2>1, <2>2, PlaceInFile DEF Phys, Owned, Pointers, Good, PtrOK
  <2>3. CASE ~InDirect
    <3>1. InSingle /\ itab[x].single # 0 /\ c = blk[itab[x].single][PI].w /\ PI \in Cells
      BY <1>1, <1>3, <1>4, <2>3, PlaceInFile DEF Mapped, Phys
    <3> QED BY <1>2, <1>4, <2>1, <3>1 DEF Owned, Good, PtrOK
  <2> QED BY <2>2, <2>3
<1>6. \A i \in Inodes : Settled(i) <=> i \in dibm
  BY <1>1, AllSettled
<1>7. \A i \in Inodes : Settled(i) => itab[i].single # c \/ itab[i].single = 0
  <2>1. \A i \in Inodes : Settled(i) /\ i # x => c \notin Owned(i)
    BY <1>2, <1>4, <1>5, <1>6 DEF Kempt, SettledApart
  <2> QED BY <1>5, <2>1 DEF Owned
<1>8. \A d \in DataBlocks \ {c} : blk'[d] = blk[d]
  BY <1>1, <1>4, StateTypes
<1>9. \A i \in Inodes : Settled(i)' <=> Settled(i)
  BY <1>1, <1>2, <1>6 DEF Settled
<1>10. Claims = {} /\ Claims' = {} /\ PlacesKnow'
  BY <1>1 DEF Claims, NodePlaces, PtrPlaces, PlacesKnow
<1> QED BY <1>1, <1>2, <1>7, <1>8, <1>9, <1>10, KemptStay

\* The size of a file says nothing of its blocks.
LEMMA KemptFwSize ==
  ASSUME Sound, BitmapInv, OwnInv, Kempt, FwSize
  PROVE  Kempt'
<1>1. /\ pc = "fw" /\ pc' = "idle" /\ job'.op = "none" /\ UNCHANGED <<dbbm, dibm, blk>>
      /\ itab' = itab \/ itab' = [itab EXCEPT ![job.idx] = [job.node EXCEPT !.size = Pos]]
  BY DEF FwSize, Goto, Finish, NoJob
<1>2. job.op # "dl" /\ job.idx \in Inodes
  BY <1>1, WritingFacts
<1>3. job.node = itab[job.idx] /\ itab[job.idx] \in Inode
  BY <1>1, <1>2, StateTypes DEF OwnInv, JobInv, NodeOK
<1>4. \A i \in Inodes : itab'[i].direct = itab[i].direct /\ itab'[i].single = itab[i].single
  <2>1. CASE itab' = itab
    BY <2>1
  <2>2. CASE itab' = [itab EXCEPT ![job.idx] = [job.node EXCEPT !.size = Pos]]
    BY <1>2, <1>3, <2>2, StateTypes DEF Inode
  <2> QED BY <1>1, <2>1, <2>2
<1>5. \A i \in Inodes : Settled(i)' <=> Settled(i)
  BY <1>1, <1>2 DEF Settled
<1>6. Claims = {} /\ Claims' = {} /\ PlacesKnow'
  BY <1>1 DEF Claims, NodePlaces, PtrPlaces, PlacesKnow
<1>7. \A d \in DataBlocks \ {0} : blk'[d] = blk[d]
  BY <1>1
<1> QED BY <1>1, <1>4, <1>5, <1>6, <1>7, KemptStay

-----------------------------------------------------------------------------
(* No block is lost: fs_delete_file                                        *)

\* What the file owned is now what dl has to free.
LEMMA KemptDl ==
  ASSUME Sound, OwnInv, Kempt, NEW n \in Names, Dl(n)
  PROVE  Kempt'
<1>1. pc = "idle" /\ dir_lookup(itab[0], n) # -1
  BY DEF Dl, Prompt
<1>2. job.op # "dl" /\ \A i : Settled(i) <=> i \in dibm
  BY <1>1, AllSettled
<1>3. PICK x \in Inodes : x = dir_lookup(itab[0], n) /\ Held(x)
  BY <1>1, <1>2, FoundIsHeld, BaseTypes
<1>4. x \in dibm
  BY <1>3 DEF OwnInv, Own, Marked, Good
<1>5. /\ pc' = "dl_direct" /\ UNCHANGED <<dbbm, dibm, itab, blk>>
      /\ job' = [NoJob EXCEPT !.op = "dl", !.name = n, !.idx = x, !.node = itab[x],
                              !.dir = itab[0]]
  BY <1>3 DEF Dl, Goto, disk
<1>6. job'.op = "dl" /\ job'.idx = x /\ job'.node = itab[x] /\ job'.k = 0
  BY <1>5 DEF NoJob
<1>7. \A i : Owned(i)' = Owned(i)
  BY <1>5 DEF Owned, Pointers
<1>8. \A i \in Inodes : Settled(i)' <=> Settled(i) /\ i # x
  BY <1>2, <1>5, <1>6 DEF Settled
<1>9. Claims' = Owned(x)
  <2>1. {c \in Cells : c >= 0} = Cells
    BY SizeAssumption DEF Cells
  <2>2. Left' = IF itab[x].single = 0 THEN {}
                ELSE {itab[x].single} \cup ({blk[itab[x].single][s].w : s \in Cells} \ {0})
    BY <1>5, <1>6, <2>1 DEF Left
  <2>3. Claims' = Pointers(x) \cup Left'
    BY <1>5, <1>6 DEF Claims, NodePlaces, PtrPlaces, Pointers
  <2> QED BY <2>2, <2>3 DEF Owned
<1>10. Claims = {}
  BY <1>1 DEF Claims, NodePlaces, PtrPlaces
<1>11. SettledMarked' /\ SettledApart'
  BY <1>5, <1>7, <1>8 DEF Kempt, SettledMarked, SettledApart
<1>12. ClaimsApart'
  BY <1>2, <1>3, <1>4, <1>6, <1>7, <1>8, <1>9 DEF Kempt, SettledApart, ClaimsApart
<1>13. Accounted'
  BY <1>5, <1>7, <1>8, <1>9, <1>10 DEF Kempt, Accounted
<1>14. PlacesKnow'
  BY <1>5, <1>6 DEF PlacesKnow
<1> QED BY <1>11, <1>12, <1>13, <1>14 DEF Kempt

LEMMA KemptDlDirect ==
  ASSUME Sound, BitmapInv, OwnInv, Kempt, DlDirect
  PROVE  Kempt'
<1>1. pc = "dl_direct" /\ UNCHANGED <<dibm, itab, blk>> /\ job.k = 0
  BY DEF DlDirect, Kempt, PlacesKnow
<1>2. job.op = "dl" /\ job.idx \in Inodes /\ bbm = dbbm
  BY <1>1, DeletingFacts
<1>3. Claims = ({job.node.direct[d] : d \in Direct} \ {0}) \cup Left
  BY <1>1 DEF Claims, NodePlaces, PtrPlaces
<1>4. job.node \in Inode /\ job.node.direct \in [Direct -> Ptr]
  BY FieldTypes DEF Sound, Inode
<1>5. CASE LiveDirect = {}
  <2>1. /\ pc' = IF job.node.single = 0 THEN "dl_inode" ELSE "dl_single"
        /\ job' = job /\ UNCHANGED dbbm
    BY <1>5 DEF DlDirect, Goto
  <2>2. Left' = Left /\ (job.node.single = 0 => Left = {})
    BY <1>1, <2>1 DEF Left
  <2>3. Claims' = Left
    BY <2>1, <2>2 DEF Claims, NodePlaces, PtrPlaces
  <2>4. Claims = Left
    BY <1>3, <1>5 DEF LiveDirect
  <2>5. PlacesKnow'
    BY <2>1 DEF PlacesKnow
  <2>6. \A i \in Inodes : Settled(i)' <=> Settled(i)
    BY <1>1, <1>2, <2>1 DEF Settled
  <2>7. dbbm' = dbbm \ {0}
    BY <2>1, BlocksAssumption, StateTypes
  <2> QED BY <1>1, <1>2, <2>1, <2>3, <2>4, <2>5, <2>6, <2>7, KemptFree
<1>6. CASE LiveDirect # {}
  <2>1. PICK m \in Direct : m = Min(LiveDirect) /\ job.node.direct[m] # 0
    BY <1>6, MinIsLeast, BaseTypes DEF LiveDirect
  <2>2. PICK b : b = job.node.direct[m]
    OBVIOUS
  <2>3. /\ dbbm' = bbm \ {b} /\ pc' = "dl_direct"
        /\ job' = [job EXCEPT !.node.direct[m] = 0]
    BY <1>6, <2>1, <2>2 DEF DlDirect, Goto, free_block, save_block_bitmap
  <2>4. /\ job'.op = job.op /\ job'.idx = job.idx /\ job'.k = job.k
        /\ job'.node = [job.node EXCEPT !.direct[m] = 0]
    BY <2>3 DEF Sound, TypeOK, Job
  <2>5. /\ job'.node.single = job.node.single
        /\ \A d \in Direct : job'.node.direct[d] = IF d = m THEN 0 ELSE job.node.direct[d]
    BY <1>4, <2>4 DEF Inode
  <2>6. Left' = Left
    BY <1>1, <2>4, <2>5 DEF Left
  <2>7. Claims' = ({job'.node.direct[d] : d \in Direct} \ {0}) \cup Left
    BY <2>3, <2>6 DEF Claims, NodePlaces, PtrPlaces
  <2>8. Claims \ {b} \subseteq Claims' /\ Claims' \subseteq Claims /\ b \in Claims
    BY <1>3, <2>1, <2>2, <2>5, <2>7
  <2>9. PlacesKnow'
    BY <1>1, <2>3, <2>4 DEF PlacesKnow
  <2>10. \A i \in Inodes : Settled(i)' <=> Settled(i)
    BY <1>1, <1>2, <2>3, <2>4 DEF Settled
  <2> QED BY <1>1, <1>2, <2>3, <2>4, <2>8, <2>9, <2>10, KemptFree
<1> QED BY <1>5, <1>6

LEMMA KemptDlSingle ==
  ASSUME Sound, BitmapInv, OwnInv, Kempt, DlSingle
  PROVE  Kempt'
<1> DEFINE left == {s \in Cells : s >= job.k /\ blk[job.node.single][s].w # 0}
<1>1. pc = "dl_single" /\ UNCHANGED <<dibm, itab, blk>>
  BY DEF DlSingle
<1>2. job.op = "dl" /\ job.idx \in Inodes /\ bbm = dbbm /\ job.k \in Nat
  BY <1>1, DeletingFacts, FieldTypes DEF Sound
<1>3. job.node.single # 0
  BY <1>1 DEF OwnInv, JobInv, DlNodeOK
<1>4. PICK g : g = job.node.single
  OBVIOUS
<1>5. \A p : p \in Claims <=> p = g \/ (p # 0 /\ \E s \in Cells : s >= job.k /\ p = blk[g][s].w)
  BY <1>1, <1>3, <1>4 DEF Claims, NodePlaces, PtrPlaces, Left
<1>6. CASE left # {}
  <2>1. PICK m \in left : m = Min(left) /\ \A y \in left : m <= y
    BY <1>6, MinIsLeast, BaseTypes
  <2>2. m \in Cells /\ m \in Nat /\ m >= job.k /\ blk[g][m].w # 0
    BY <1>4, <2>1, BaseTypes
  <2>3. PICK b : b = blk[g][m].w
    OBVIOUS
  <2>4. /\ dbbm' = bbm \ {b} /\ pc' = "dl_single" /\ job' = [job EXCEPT !.k = m + 1]
    BY <1>4, <1>6, <2>1, <2>3 DEF DlSingle, Goto, free_block, save_block_bitmap
  <2>5. /\ job'.op = job.op /\ job'.idx = job.idx /\ job'.k = m + 1 /\ job'.node = job.node
    BY <2>4 DEF Sound, TypeOK, Job
  <2>6. \A p : p \in Claims' <=> p = g \/ (p # 0 /\ \E s \in Cells : s >= m + 1 /\ p = blk[g][s].w)
    BY <1>1, <1>3, <1>4, <2>4, <2>5 DEF Claims, NodePlaces, PtrPlaces, Left
  <2>7. ASSUME NEW s \in Cells, s >= job.k, blk[g][s].w # 0, s # m PROVE s >= m + 1
    <3>1. s \in left
      BY <1>4, <2>7
    <3>2. m <= s /\ s \in Nat
      BY <2>1, <3>1, BaseTypes
    <3> QED BY <2>2, <2>7, <3>2
  <2>8. Claims \ {b} \subseteq Claims'
    BY <1>5, <2>3, <2>6, <2>7
  <2>9. Claims' \subseteq Claims
    <3>1. ASSUME NEW s \in Cells, s >= m + 1 PROVE s >= job.k
      <4>1. s \in Nat
        BY BaseTypes
      <4> QED BY <1>2, <2>2, <3>1, <4>1
    <3> QED BY <1>5, <2>6, <3>1
  <2>10. b \in Claims
    BY <1>5, <2>2, <2>3
  <2>11. PlacesKnow'
    BY <2>4 DEF PlacesKnow
  <2>12. \A i \in Inodes : Settled(i)' <=> Settled(i)
    BY <1>1, <1>2, <2>4, <2>5 DEF Settled
  <2> QED BY <1>1, <1>2, <2>4, <2>5, <2>8, <2>9, <2>10, <2>11, <2>12, KemptFree
<1>7. CASE left = {}
  <2>1. /\ dbbm' = bbm \ {g} /\ pc' = "dl_inode" /\ job' = [job EXCEPT !.node.single = 0]
    BY <1>4, <1>7 DEF DlSingle, Goto, free_block, save_block_bitmap
  <2>2. job'.op = job.op /\ job'.idx = job.idx
    BY <2>1 DEF Sound, TypeOK, Job
  <2>3. Claims' = {} /\ PlacesKnow'
    BY <2>1 DEF Claims, NodePlaces, PtrPlaces, PlacesKnow
  <2>4. Claims = {g}
    BY <1>4, <1>5, <1>7
  <2>5. \A i \in Inodes : Settled(i)' <=> Settled(i)
    BY <1>1, <1>2, <2>1, <2>2 DEF Settled
  <2> QED BY <1>1, <1>2, <2>1, <2>2, <2>3, <2>4, <2>5, KemptFree
<1> QED BY <1>6, <1>7

LEMMA KemptDlInode ==
  ASSUME Sound, BitmapInv, OwnInv, Kempt, DlInode
  PROVE  Kempt'
<1>1. /\ pc = "dl_inode" /\ pc' = "dl_entry" /\ job' = job /\ UNCHANGED <<dbbm, itab, blk>>
      /\ dibm' = ibm \ {job.idx}
  BY DEF DlInode, Goto, free_inode, save_inode_bitmap
<1>2. job.op = "dl" /\ ibm = dibm
  BY <1>1, DeletingFacts
<1>3. Claims = {} /\ Claims' = {} /\ PlacesKnow'
  BY <1>1 DEF Claims, NodePlaces, PtrPlaces, PlacesKnow
<1>4. \A i \in Inodes : Settled(i)' <=> Settled(i)
  BY <1>1, <1>2 DEF Settled
<1>5. dbbm' = dbbm \ {0}
  BY <1>1, BlocksAssumption, StateTypes
<1> QED BY <1>1, <1>2, <1>3, <1>4, <1>5, KemptFree

LEMMA KemptDlEntry ==
  ASSUME Sound, BitmapInv, OwnInv, Kempt, DlEntry
  PROVE  Kempt'
<1> DEFINE hits == RemoveHits(job.dir, job.name)
           h == First(hits)
<1>1. /\ pc = "dl_entry" /\ pc' = "idle" /\ job'.op = "none" /\ UNCHANGED <<dbbm, dibm, itab>>
  BY DEF DlEntry, Goto, Finish, NoJob
<1>2. job.op = "dl" /\ job.dir = itab[0] /\ Rooted /\ job.idx # 0 /\ job.idx \notin dibm
  BY <1>1, DeletingFacts DEF Kempt, PlacesKnow
<1>3. \A i \in Inodes : (Settled(i)' <=> Settled(i)) /\ (Settled(i) <=> i \in dibm)
  BY <1>1, <1>2 DEF Settled
<1>4. Claims = {} /\ Claims' = {} /\ PlacesKnow'
  BY <1>1 DEF Claims, NodePlaces, PtrPlaces, PlacesKnow
<1>5. CASE hits = {}
  <2>1. \A d \in DataBlocks \ {0} : blk'[d] = blk[d]
    BY <1>5 DEF DlEntry
  <2> QED BY <1>1, <1>3, <1>4, <2>1, KemptStay
<1>6. CASE hits # {}
  <2>1. hits \subseteq Nat \X Nat
    BY BaseTypes DEF RemoveHits
  <2>2. h \in hits
    BY <1>6, <2>1, FirstIsIn
  <2>3. blk' = [blk EXCEPT ![job.dir.direct[h[1]]][h[2]] = Zero]
    BY <1>6 DEF DlEntry
  <2> HIDE DEF h
  <2>4. h[1] \in Direct /\ job.dir.direct[h[1]] # 0
    BY <2>2 DEF RemoveHits
  <2>5. PICK c : c = job.dir.direct[h[1]] /\ c \in Pointers(0)
    BY <1>2, <2>4 DEF Pointers
  <2>6. \A d \in DataBlocks \ {c} : blk'[d] = blk[d]
    BY <2>3, <2>5, StateTypes
  <2>7. \A i \in Inodes : Settled(i) => itab[i].single # c
    BY <1>2, <1>3, <2>5, DirsAreHeld, DirBlockIsNoSingle, BaseTypes
  <2> QED BY <1>1, <1>3, <1>4, <2>6, <2>7, KemptStay
<1> QED BY <1>5, <1>6

-----------------------------------------------------------------------------
(* No block is lost                                                        *)

LEMMA KemptKernel ==
  ASSUME Sound, BitmapInv, OwnInv, OwnInv', Kempt, Kernel
  PROVE  Kempt'
<1>1. PICK n : n \in Names
  BY NamesAssumption
<1>2. CASE FwWild \/ DefDone \/ Boot
  <2>1. pc = "idle" \/ ~PowerCut
    BY <1>2 DEF FwWild, DefDone, Boot, PowerCut, Writing, Goto, init_fs, Finish
  <2> QED BY <1>2, <2>1, KemptMemory
<1>3. CASE ~(FwWild \/ DefDone \/ Boot)
  BY <1>3, KemptNewBlock, KemptNewInode, KemptDirAdd, KemptDirGrow, KemptDirPut,
     KemptFwAlloc, KemptFwZero, KemptFwInode, KemptFwPtr, KemptFwData, KemptFwSize,
     KemptDlDirect, KemptDlSingle, KemptDlInode, KemptDlEntry,
     KemptEarly, KemptRBlock, KemptRInode, KemptRZero, KemptDefDir
  DEF Kernel
<1> QED BY <1>2, <1>3

\* Only a power cut inside a command can spoil it, and that is remembered.
LEMMA KemptStep ==
  ASSUME Sound, BitmapInv, OwnInv, OwnInv', LossInv, [CarefulNext]_vars
  PROVE  LossInv'
<1> SUFFICES ASSUME ~cut' PROVE Kempt'
  BY DEF LossInv
<1>1. CASE UNCHANGED vars
  <2>1. UNCHANGED <<itab, blk, dbbm, dibm, bbm, pc, job, cut>>
    BY <1>1 DEF vars, disk, mem, ghost
  <2>2. \A i : (Settled(i)' <=> Settled(i)) /\ Owned(i)' = Owned(i)
    BY <2>1 DEF Settled, Owned, Pointers
  <2>3. Claims' = Claims /\ Kempt
    BY <2>1 DEF Claims, Left, Refs, LossInv
  <2> QED BY <2>1, <2>2, <2>3
          DEF Kempt, SettledMarked, SettledApart, ClaimsApart, Accounted, PlacesKnow
<1>2. CASE Kernel
  <2>1. cut' = cut
    BY <1>2
    DEF Kernel, NewBlockStep, NewInodeStep, DirAdd, DirGrow, DirPut, FwAllocDirect,
        FwAllocSingle, FwZero, FwInode, FwAllocPtr, FwPtr, FwData, FwWild, FwSize, DlDirect,
        DlSingle, DlInode, DlEntry, QIbm, QItab, QSb, FBbm, FIbm, RIbm, RBlock, RInode, RZero,
        DefDir, DefDone, Boot, ghost
  <2> QED BY <1>2, <2>1, KemptKernel DEF LossInv
<1>3. ASSUME NEW n \in Names, NEW c \in Texts, NEW l \in Lens, Wr(n, c, l) PROVE Kempt'
  BY <1>3, KemptBegin DEF Wr, Counted, LossInv
<1>4. ASSUME NEW c \in Texts, NoteNew(c) PROVE Kempt'
  BY <1>4, KemptBegin DEF NoteNew, Counted, LossInv
<1>5. ASSUME NEW n \in Names, Mf(n) PROVE Kempt'
  BY <1>5, KemptBegin DEF Mf, Counted, LossInv
<1>6. ASSUME NEW n \in Names, Dl(n) PROVE Kempt'
  BY <1>6, KemptDl DEF Dl, Counted, LossInv
<1>7. ASSUME NEW n, NEW c, NoteAgain(c) \/ Cd(n) \/ CdUp \/ PowerCut PROVE Kempt'
  <2>1. Kempt /\ (pc = "idle" \/ ~PowerCut)
    BY <1>7 DEF NoteAgain, Cd, CdUp, PowerCut, Counted, LossInv, Prompt
  <2> QED BY <1>7, <2>1, KemptMemory
<1>8. CASE Blank /\ (Format \/ Qformat)
  <2>1. Kempt
    BY <1>8 DEF Format, Qformat, Counted, LossInv
  <2> QED BY <1>8, <2>1, KemptFormat
<1> QED BY <1>1, <1>2, <1>3, <1>4, <1>5, <1>6, <1>7, <1>8, NamesAssumption
        DEF CarefulNext, Create

LEMMA LossAlways == CarefulSpec => []LossInv
<1>1. Init => LossInv
  <2> SUFFICES ASSUME Init PROVE Kempt
    BY DEF LossInv
  <2>1. /\ dbbm = {} /\ dibm = {} /\ pc = "boot"
    BY DEF Init
  <2> QED BY <2>1 DEF Kempt, SettledMarked, SettledApart, ClaimsApart, Accounted, PlacesKnow,
                      Settled
<1>2. Sound /\ BitmapInv /\ OwnInv /\ OwnInv' /\ LossInv /\ [CarefulNext]_vars => LossInv'
  BY KemptStep
<1> QED BY <1>1, <1>2, OwnAlways, PTL DEF CarefulSpec

\* While no power cut hit a command, whatever was created, written, deleted,
\* cut short by a full disk or lost from its directory, every block marked used
\* is owned by an inode marked used, and the bitmap is exactly what the inodes own.
THEOREM NoBlockIsLost == CarefulSpec => []NoLostBlock
<1>1. Sound /\ BitmapInv /\ OwnInv /\ LossInv => NoLostBlock
  <2> SUFFICES ASSUME Sound, BitmapInv, OwnInv, LossInv, pc = "idle", up, ~cut
               PROVE  bbm = UNION {Owned(i) : i \in ibm}
    BY DEF NoLostBlock
  <2>1. bbm = dbbm /\ ibm = dibm /\ ibm \subseteq Inodes
    BY StateTypes DEF BitmapInv, InQformat
  <2>2. Claims = {} /\ \A i : Settled(i) <=> i \in ibm
    BY <2>1, AllSettled DEF Claims, NodePlaces, PtrPlaces
  <2>3. \A b \in bbm : \E i \in ibm : b \in Owned(i)
    BY <2>1, <2>2 DEF LossInv, Kempt, Accounted
  <2>4. \A i \in ibm : Owned(i) \subseteq bbm
    BY <2>1, <2>2 DEF LossInv, Kempt, SettledMarked
  <2> QED BY <2>3, <2>4
<1> QED BY <1>1, OwnAlways, LossAlways, PTL
=============================================================================
