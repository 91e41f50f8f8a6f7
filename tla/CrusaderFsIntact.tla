-------------------------- MODULE CrusaderFsIntact --------------------------
(***************************************************************************)
(* With careful use, a file reported written keeps its text and its entry, *)
(* and what a reader finds on the disk is the store of FileStore: the      *)
(* content half of what the file system promises, on top of the ownership  *)
(* half of CrusaderFsOwnership.                                            *)
(***************************************************************************)
EXTENDS CrusaderFsOwnership

\* The block at place l of file i, as get_physical_block finds it.
BlockAt(i, l) ==
  IF l < NDirect THEN itab[i].direct[l]
  ELSE IF itab[i].single = 0 THEN 0 ELSE blk[itab[i].single][l - NDirect].w

FilePlaces == 0 .. NDirect + Slots - 1

\* No block stands at two places of one file.
Distinct(i) ==
  \A l, m \in FilePlaces : l # m /\ BlockAt(i, l) = BlockAt(i, m) => BlockAt(i, l) = 0
DistinctInv == \A i \in Inodes : Held(i) /\ itab[i].type = 1 => Distinct(i)

\* Position x of file i holds text c.
TextAt(i, x, c) ==
  /\ x \div Slots \in FilePlaces /\ BlockAt(i, x \div Slots) # 0
  /\ blk[BlockAt(i, x \div Slots)][x % Slots] = [w |-> TextWord, t |-> <<c, x>>]

\* A step leaves the blocks of file i where they are, and what they hold.
PlacesStay(i) ==
  \A l \in FilePlaces : BlockAt(i, l) # 0 =>
     BlockAt(i, l)' = BlockAt(i, l) /\ blk'[BlockAt(i, l)] = blk[BlockAt(i, l)]

\* What was written is there, of a file reported written and of one being written.
IntactInv ==
  \A r \in saved : /\ itab[r.ino].size >= r.len
                   /\ \A x \in 0 .. r.len - 1 : TextAt(r.ino, x, r.text)
WrittenInv ==
  /\ job.off = 0
  /\ pc \in {"dir_add", "dir_grow", "dir_put"} /\ job.op \in FileOps => itab[job.idx].size = 0
  /\ pc \in WritePlaces =>
       job.k <= job.len /\ \A x \in 0 .. job.k - 1 : TextAt(job.idx, x, job.text)

EntryInv ==
  /\ \A r \in saved : r.seen => EntryOf(r.home, r.name, r.ino)
  /\ pc \in WritePlaces /\ job.seen => EntryOf(job.home, job.name, job.idx)

ContentInv == DistinctInv /\ IntactInv /\ WrittenInv /\ EntryInv

-----------------------------------------------------------------------------
(* Places and positions of a file                                          *)

\* A number is its quotient and its remainder.
LEMMA DivisionLaw ==
  ASSUME NEW x \in Nat
  PROVE  x = Slots * (x \div Slots) + (x % Slots)
BY SizeAssumption

\* A number has one quotient and one remainder.
LEMMA Quotient ==
  ASSUME NEW q \in Nat, NEW r \in Cells, NEW x \in Nat, x = Slots * q + r
  PROVE  x \div Slots = q /\ x % Slots = r
<1>1. PICK s \in Nat \ {0} : s = Slots
  BY SizeAssumption
<1>2. PICK d \in Nat, m \in 0 .. s - 1 : d = x \div Slots /\ m = x % Slots
  BY <1>1
<1>3. x = s * d + m
  <2>1. x = Slots * (x \div Slots) + (x % Slots)
    BY DivisionLaw
  <2> QED BY <1>1, <1>2, <2>1
<1>4. x = s * q + r /\ r \in 0 .. s - 1
  BY <1>1 DEF Cells
<1>5. ~(d < q)
  <2> SUFFICES ASSUME d < q PROVE FALSE
    OBVIOUS
  <2>1. PICK e \in Nat : q = d + 1 + e
    <3>1. q - d - 1 \in Nat /\ q = d + 1 + (q - d - 1)
      OBVIOUS
    <3> QED BY <3>1
  <2>2. s * q = s * d + s + s * e /\ s * e >= 0
    BY <2>1
  <2> QED BY <1>3, <1>4, <2>2
<1>6. ~(q < d)
  <2> SUFFICES ASSUME q < d PROVE FALSE
    OBVIOUS
  <2>1. PICK e \in Nat : d = q + 1 + e
    <3>1. d - q - 1 \in Nat /\ d = q + 1 + (d - q - 1)
      OBVIOUS
    <3> QED BY <3>1
  <2>2. s * d = s * q + s + s * e /\ s * e >= 0
    BY <2>1
  <2> QED BY <1>3, <1>4, <2>2
<1>7. d = q
  BY <1>5, <1>6
<1>8. m = r
  <2>1. PICK p \in Nat : p = s * q
    OBVIOUS
  <2>2. x = p + m /\ x = p + r
    BY <1>3, <1>4, <1>7, <2>1
  <2> QED BY <1>4, <2>2
<1> QED BY <1>2, <1>7, <1>8

\* Positions within the stretch that one sector write covers.
LEMMA Stretch ==
  ASSUME NEW k \in Nat, NEW e \in Nat, (k % Slots) + e < Slots
  PROVE  (k + e) \div Slots = k \div Slots /\ (k + e) % Slots = (k % Slots) + e
<1>1. k \div Slots \in Nat /\ k % Slots \in Cells
  BY Division
<1>2. k = Slots * (k \div Slots) + (k % Slots)
  BY DivisionLaw
<1>3. (k % Slots) + e \in Cells
  BY <1>1, SizeAssumption DEF Cells
<1>4. PICK q \in Nat, r \in Cells : q = k \div Slots /\ r = k % Slots
  BY <1>1
<1>5. PICK m \in Nat : m = Slots * q
  BY <1>4, SizeAssumption
<1>6. k + e = Slots * q + (r + e)
  BY <1>2, <1>4, <1>5, BaseTypes
<1> QED BY <1>3, <1>4, <1>6, Quotient

\* Whatever stands at a place of a file is owned by it.
LEMMA BlockIsOwned ==
  ASSUME Sound, NEW i \in Inodes, NEW l \in FilePlaces
  PROVE  /\ BlockAt(i, l) = 0 \/ BlockAt(i, l) \in Owned(i)
         /\ l < NDirect => l \in Direct
         /\ ~(l < NDirect) => l - NDirect \in Cells
<1>1. l \in Nat /\ (l < NDirect => l \in Direct) /\ (~(l < NDirect) => l - NDirect \in Cells)
  BY SizeAssumption DEF FilePlaces, Direct, Cells
<1>2. CASE l < NDirect
  BY <1>1, <1>2 DEF BlockAt, Owned, Pointers
<1>3. CASE ~(l < NDirect)
  BY <1>1, <1>3 DEF BlockAt, Owned
<1> QED BY <1>1, <1>2, <1>3

\* In a file in use it is a block of the data area, and not the pointer block.
LEMMA HeldBlock ==
  ASSUME Sound, OwnInv, NEW i \in Inodes, Held(i), NEW l \in FilePlaces, BlockAt(i, l) # 0
  PROVE  /\ BlockAt(i, l) \in Owned(i) /\ BlockAt(i, l) \in DataBlocks
         /\ itab[i].single # 0 => BlockAt(i, l) # itab[i].single
<1>1. BlockAt(i, l) \in Owned(i) /\ (l < NDirect => l \in Direct)
      /\ (~(l < NDirect) => l - NDirect \in Cells)
  BY BlockIsOwned
<1>2. Owned(i) \subseteq DataBlocks /\ PtrOK(i)
  BY StateTypes DEF OwnInv, Own, Marked, Good
<1>3. ASSUME itab[i].single # 0 PROVE BlockAt(i, l) # itab[i].single
  BY <1>1, <1>2, <1>3 DEF BlockAt, PtrOK, Pointers
<1> QED BY <1>1, <1>2, <1>3

\* The blocks of a file stand where they stood when neither its pointers nor
\* its pointer block changed.
LEMMA SamePlaces ==
  ASSUME NEW i, itab'[i].direct = itab[i].direct, itab'[i].single = itab[i].single,
         itab[i].single # 0 => blk'[itab[i].single] = blk[itab[i].single]
  PROVE  \A l : BlockAt(i, l)' = BlockAt(i, l)
BY DEF BlockAt

\* Text stays where its blocks stay.
LEMMA TextStays ==
  ASSUME NEW i, NEW x, NEW c, TextAt(i, x, c),
         PlacesStay(i)
  PROVE  TextAt(i, x, c)'
BY DEF TextAt, PlacesStay

\* A file that is left alone keeps its places and its text.
LEMMA FileKept ==
  ASSUME Sound, NEW i \in Inodes, itab'[i] = itab[i], \A b \in Owned(i) : blk'[b] = blk[b]
  PROVE  /\ Distinct(i) => Distinct(i)'
         /\ \A x, c : TextAt(i, x, c) => TextAt(i, x, c)'
         /\ PlacesStay(i)
<1>1. itab[i].single # 0 => itab[i].single \in Owned(i)
  BY DEF Owned
<1>2. \A l : BlockAt(i, l)' = BlockAt(i, l)
  BY <1>1, SamePlaces
<1>3. PlacesStay(i)
  BY <1>2, BlockIsOwned DEF PlacesStay
<1>4. Distinct(i) => Distinct(i)'
  BY <1>2 DEF Distinct
<1>5. ASSUME NEW x, NEW c, TextAt(i, x, c) PROVE TextAt(i, x, c)'
  BY <1>3, <1>5, TextStays
<1> QED BY <1>3, <1>4, <1>5

-----------------------------------------------------------------------------
(* fs_write on its own file                                                *)

\* The file gains one block at one empty place.
LEMMA PlaceGained ==
  ASSUME Sound, NEW i \in Inodes, NEW p, NEW b, b = 0 \/ b \notin Owned(i), Distinct(i),
         \A l \in FilePlaces :
           \/ BlockAt(i, l)' = BlockAt(i, l)
           \/ l = p /\ BlockAt(i, l) = 0 /\ BlockAt(i, l)' = b
  PROVE  Distinct(i)'
<1> SUFFICES ASSUME NEW l \in FilePlaces, NEW m \in FilePlaces, l # m,
                    BlockAt(i, l)' = BlockAt(i, m)'
             PROVE  BlockAt(i, l)' = 0
  BY DEF Distinct
<1>1. /\ BlockAt(i, l) = 0 \/ BlockAt(i, l) \in Owned(i)
      /\ BlockAt(i, m) = 0 \/ BlockAt(i, m) \in Owned(i)
  BY BlockIsOwned
<1>2. BlockAt(i, l) = BlockAt(i, m) => BlockAt(i, l) = 0
  BY DEF Distinct
<1>3. CASE BlockAt(i, l)' = BlockAt(i, l) /\ BlockAt(i, m)' = BlockAt(i, m)
  BY <1>2, <1>3
<1>4. CASE l = p /\ BlockAt(i, l)' = b
  BY <1>1, <1>4
<1>5. CASE m = p /\ BlockAt(i, m)' = b
  BY <1>1, <1>5
<1> QED BY <1>3, <1>4, <1>5

\* Before and after each step that takes, clears or enters a block.
LEMMA WriteKeepsText ==
  ASSUME Sound, BitmapInv, OwnInv, NEW i \in Inodes, i = job.idx, Distinct(i),
         \/ FwAllocDirect \/ FwAllocSingle \/ FwAllocPtr \/ FwWild
         \/ FwZero \/ FwInode \/ FwPtr \/ FwSize
  PROVE  /\ Distinct(i)'
         /\ \A x, c : TextAt(i, x, c) => TextAt(i, x, c)'
         /\ PlacesStay(i)
<1>1. pc \in WritePlaces
  BY DEF FwAllocDirect, FwAllocSingle, FwAllocPtr, FwWild, FwZero, FwInode, FwPtr, FwSize,
         Writing, WritePlaces
<1>2. Held(i) /\ Good(i) /\ itab[i].type = 1
  BY <1>1, WritingFacts DEF WritePlaces
<1>3. /\ itab[i] \in Inode /\ itab[i].direct \in [Direct -> Ptr] /\ itab[i].single \in Ptr
  BY StateTypes
<1>4. CASE FwAllocDirect \/ FwAllocSingle \/ FwAllocPtr \/ FwWild
  <2>1. UNCHANGED <<itab, blk>>
    BY <1>4 DEF FwAllocDirect, FwAllocSingle, FwAllocPtr, FwWild, disk
  <2> QED BY <2>1, FileKept
<1>5. CASE FwZero
  <2>1. /\ itab' = itab /\ pc = "fw_zero"
        /\ \A d \in DataBlocks : blk'[d] = blk[d] \/ (d = job.node.single /\ d # 0)
    BY <1>5, StateTypes DEF FwZero
  <2>2. job.node.single = 0 \/ job.node.single \notin Owned(i)
    BY <1>2, <2>1 DEF OwnInv, JobInv, ZeroOK, Spare
  <2>3. Owned(i) \subseteq DataBlocks
    BY <1>2, StateTypes DEF Good
  <2> QED BY <2>1, <2>2, <2>3, FileKept
<1>6. CASE FwSize
  <2>1. /\ blk' = blk /\ pc = "fw"
        /\ itab' = itab \/ itab' = [itab EXCEPT ![i] = [job.node EXCEPT !.size = Pos]]
    BY <1>6 DEF FwSize
  <2>2. job.node = itab[i]
    BY <2>1 DEF OwnInv, JobInv, NodeOK
  <2>3. itab'[i].direct = itab[i].direct /\ itab'[i].single = itab[i].single
    BY <1>3, <2>1, <2>2, StateTypes DEF Inode
  <2>4. \A l : BlockAt(i, l)' = BlockAt(i, l)
    BY <2>1, <2>3, SamePlaces
  <2>5. Distinct(i)'
    BY <2>4 DEF Distinct
  <2>6. PlacesStay(i)
    BY <2>1, <2>4 DEF PlacesStay
  <2> QED BY <2>5, <2>6, TextStays
<1>7. CASE FwInode
  <2>1. blk' = blk /\ pc = "fw_inode" /\ itab'[i] = job.node
    BY <1>7, StateTypes DEF FwInode
  <2>2. PICK b \in Ptr :
          /\ b = 0 \/ Spare(b)
          /\ \/ \E d \in Direct : /\ itab[i].direct[d] = 0
                                  /\ job.node = [itab[i] EXCEPT !.direct[d] = b]
             \/ /\ itab[i].single = 0 /\ job.node = [itab[i] EXCEPT !.single = b]
                /\ b # 0 => blk[b] = ZeroBlock
    BY <2>1 DEF OwnInv, JobInv, InodeOK
  <2>3. b = 0 \/ b \notin Owned(i)
    BY <1>2, <2>2 DEF Spare
  <2>4. PICK p \in FilePlaces : \A l \in FilePlaces :
          \/ BlockAt(i, l)' = BlockAt(i, l)
          \/ l = p /\ BlockAt(i, l) = 0 /\ BlockAt(i, l)' = b
    <3>1. CASE \E d \in Direct : /\ itab[i].direct[d] = 0
                                 /\ job.node = [itab[i] EXCEPT !.direct[d] = b]
      <4>1. PICK d \in Direct : /\ itab[i].direct[d] = 0
                                /\ job.node = [itab[i] EXCEPT !.direct[d] = b]
        BY <3>1
      <4>2. /\ itab'[i].direct = [itab[i].direct EXCEPT ![d] = b]
            /\ itab'[i].single = itab[i].single
        BY <1>3, <2>1, <4>1 DEF Inode
      <4>3. ASSUME NEW l \in FilePlaces
            PROVE  \/ BlockAt(i, l)' = BlockAt(i, l)
                   \/ l = d /\ BlockAt(i, l) = 0 /\ BlockAt(i, l)' = b
        <5>1. l < NDirect => l \in Direct
          BY BlockIsOwned
        <5>2. CASE l < NDirect
          BY <1>3, <4>1, <4>2, <5>1, <5>2 DEF BlockAt
        <5>3. CASE ~(l < NDirect)
          BY <2>1, <4>2, <5>3 DEF BlockAt
        <5> QED BY <5>2, <5>3
      <4>4. d \in FilePlaces
        BY SizeAssumption DEF Direct, FilePlaces
      <4> QED BY <4>3, <4>4
    <3>2. CASE /\ itab[i].single = 0 /\ job.node = [itab[i] EXCEPT !.single = b]
               /\ b # 0 => blk[b] = ZeroBlock
      <4>1. itab'[i].direct = itab[i].direct /\ itab'[i].single = b
        BY <1>3, <2>1, <3>2 DEF Inode
      <4>2. ASSUME NEW l \in FilePlaces PROVE BlockAt(i, l)' = BlockAt(i, l)
        <5>1. ~(l < NDirect) => l - NDirect \in Cells
          BY BlockIsOwned
        <5>2. CASE l < NDirect
          BY <4>1, <5>2 DEF BlockAt
        <5>3. CASE ~(l < NDirect)
          BY <2>1, <3>2, <4>1, <5>1, <5>3 DEF BlockAt, ZeroBlock, Zero
        <5> QED BY <5>2, <5>3
      <4>3. 0 \in FilePlaces
        BY SizeAssumption DEF FilePlaces
      <4> QED BY <4>2, <4>3
    <3> QED BY <2>2, <3>1, <3>2
  <2>5. Distinct(i)'
    BY <2>3, <2>4, PlaceGained
  <2>6. PlacesStay(i)
    BY <2>1, <2>4 DEF PlacesStay
  <2> QED BY <2>5, <2>6, TextStays
<1>8. CASE FwPtr
  <2>1. /\ pc = "fw_ptr" /\ itab' = itab
        /\ blk' = [blk EXCEPT ![job.node.single][PI] = Pointer(job.ptr)]
    BY <1>8 DEF FwPtr
  <2>2. /\ job.node = itab[i] /\ job.node.single # 0 /\ PI \in Cells
        /\ job.ptr = 0 \/ Spare(job.ptr)
        /\ blk[job.node.single][PI].w = 0
    BY <2>1 DEF OwnInv, JobInv, NodeOK, PtrPlaceOK
  <2>3. PICK s \in DataBlocks : s = itab[i].single /\ s # 0
    BY <1>3, <2>2 DEF Ptr
  <2>4. PICK q \in Cells, b \in Ptr : q = PI /\ b = job.ptr
    BY <2>2, FieldTypes DEF Sound
  <2>5. /\ \A d \in DataBlocks \ {s} : blk'[d] = blk[d]
        /\ blk'[s][q] = Pointer(b) /\ \A e \in Cells \ {q} : blk'[s][e] = blk[s][e]
    BY <2>1, <2>2, <2>3, <2>4, StateTypes
  <2>6. b = 0 \/ b \notin Owned(i)
    BY <1>2, <2>2, <2>4 DEF Spare
  <2>7. ASSUME NEW l \in FilePlaces
        PROVE  \/ BlockAt(i, l)' = BlockAt(i, l)
               \/ l = NDirect + q /\ BlockAt(i, l) = 0 /\ BlockAt(i, l)' = b
    <3>1. /\ ~(l < NDirect) => l - NDirect \in Cells
          /\ l \in Nat /\ q \in Nat /\ NDirect \in Nat
      BY BlockIsOwned, BaseTypes, SizeAssumption DEF FilePlaces
    <3>2. CASE l < NDirect
      BY <2>1, <3>2 DEF BlockAt
    <3>3. CASE ~(l < NDirect) /\ l - NDirect # q
      BY <2>1, <2>3, <2>5, <3>1, <3>3 DEF BlockAt
    <3>4. CASE ~(l < NDirect) /\ l - NDirect = q
      <4>1. l = NDirect + q
        BY <3>1, <3>4
      <4> QED BY <2>1, <2>2, <2>3, <2>4, <2>5, <3>4, <4>1 DEF BlockAt, Pointer
    <3> QED BY <3>2, <3>3, <3>4
  <2>8. Distinct(i)'
    BY <2>6, <2>7, PlaceGained
  <2>9. PlacesStay(i)
    BY <1>2, <2>3, <2>5, <2>7, HeldBlock DEF PlacesStay
  <2> QED BY <2>8, <2>9, TextStays
<1> QED BY <1>4, <1>5, <1>6, <1>7, <1>8

\* Text goes to the positions it belongs to, and to no others of the file.
LEMMA WriteAddsText ==
  ASSUME Sound, BitmapInv, OwnInv, WrittenInv, NEW i \in Inodes, i = job.idx, Distinct(i),
         NEW x, x = job.text, FwData
  PROVE  /\ Distinct(i)' /\ job.k < job'.k /\ job'.k <= job'.len
         /\ \A y \in 0 .. job'.k - 1 : TextAt(i, y, x)'
         /\ \A l : BlockAt(i, l)' = BlockAt(i, l)
<1> DEFINE o == Pos % Slots
           n == Min({Slots - o, job.len - job.k})
<1>1. /\ pc = "fw" /\ Mapped /\ Phys \in DataBlocks /\ job.k < job.len
      /\ blk' = [blk EXCEPT ![Phys] = Overlay(@, o, n)]
      /\ job' = [job EXCEPT !.k = job.k + n] /\ itab' = itab
  BY DEF FwData, Writing, Goto, disk
<1>2. PICK k \in Nat, len \in Nat : k = job.k /\ len = job.len /\ k < len
  BY <1>1, FieldTypes DEF Sound
<1>3. Pos = k /\ LB = k \div Slots
  BY <1>2 DEF WrittenInv, Pos, LB
<1>4. /\ o \in Cells /\ o = k % Slots /\ LB \in Nat /\ Slots - o \in Nat \ {0}
  BY <1>2, <1>3, Division, SizeAssumption DEF Cells
<1>5. /\ n \in Nat \ {0} /\ n <= Slots - o /\ n <= len - k
  <2>1. PICK u \in Nat \ {0}, v \in Nat \ {0} : u = Slots - o /\ v = job.len - job.k
    BY <1>2, <1>4
  <2>2. n = Min({u, v})
    BY <2>1
  <2>3. Min({u, v}) \in {u, v} /\ \A y \in {u, v} : Min({u, v}) <= y
    BY MinIsLeast
  <2> QED BY <1>2, <2>1, <2>2, <2>3
<1> HIDE DEF o, n
<1>6. job'.k = k + n /\ job'.len = len
  BY <1>1, <1>2 DEF Sound, TypeOK, Job
<1>7. Held(i) /\ job.node = itab[i] /\ itab[i].single \in Ptr
  BY <1>1, WritingFacts, StateTypes DEF OwnInv, JobInv, NodeOK
<1>8. PICK c \in DataBlocks : c = Phys /\ c # 0
  BY <1>1, BlocksAssumption
<1>9. LB \in FilePlaces /\ BlockAt(i, LB) = c
  <2>1. CASE InDirect
    BY <1>4, <1>7, <1>8, <2>1, SizeAssumption DEF InDirect, Phys, BlockAt, FilePlaces
  <2>2. CASE ~InDirect
    <3>1. InSingle /\ itab[i].single # 0 /\ c = blk[itab[i].single][PI].w
      BY <1>1, <1>7, <1>8, <2>2 DEF Mapped, Phys
    <3> QED BY <1>4, <2>2, <3>1, SizeAssumption DEF InDirect, InSingle, PI, BlockAt, FilePlaces
  <2> QED BY <2>1, <2>2
<1>10. /\ \A d \in DataBlocks \ {c} : blk'[d] = blk[d]
       /\ blk'[c] = Overlay(blk[c], o, n)
  BY <1>1, <1>8, StateTypes
<1>11. itab[i].single # 0 => itab[i].single \in DataBlocks /\ itab[i].single # c
  BY <1>7, <1>8, <1>9, HeldBlock DEF Ptr
<1>12. \A l : BlockAt(i, l)' = BlockAt(i, l)
  BY <1>1, <1>10, <1>11, SamePlaces
<1>13. Distinct(i)'
  BY <1>12 DEF Distinct
<1>14. ASSUME NEW y \in 0 .. k + n - 1 PROVE TextAt(i, y, x)'
  <2>1. y \in Nat /\ y \div Slots \in Nat /\ y % Slots \in Cells
    BY <1>2, <1>5, Division
  <2>2. CASE y < k
    <3>1. TextAt(i, y, x)
      BY <1>1, <1>2, <2>1, <2>2 DEF WrittenInv, WritePlaces
    <3>2. PICK b \in DataBlocks : b = BlockAt(i, y \div Slots) /\ b # 0
      BY <1>7, <3>1, HeldBlock DEF TextAt
    <3>3. blk'[b][y % Slots] = blk[b][y % Slots]
      <4>1. CASE b # c
        BY <1>10, <4>1
      <4>2. CASE b = c
        <5>1. y \div Slots = k \div Slots
          BY <1>3, <1>9, <3>1, <3>2, <4>2 DEF Distinct, TextAt
        <5>2. y % Slots < k % Slots
          <6>1. /\ y = Slots * (y \div Slots) + (y % Slots)
                /\ k = Slots * (k \div Slots) + (k % Slots)
            BY <2>1, DivisionLaw
          <6>2. PICK g \in Nat : g = Slots * (y \div Slots)
            BY <2>1, SizeAssumption
          <6>3. PICK a \in Nat, e \in Nat : a = y % Slots /\ e = k % Slots
            BY <1>4, <2>1, BaseTypes
          <6>4. y = g + a /\ k = g + e
            BY <5>1, <6>1, <6>2, <6>3
          <6> QED BY <2>1, <2>2, <6>3, <6>4
        <5>3. ~(o <= y % Slots)
          <6>1. PICK a \in Nat, e \in Nat : a = y % Slots /\ e = o
            BY <1>4, <2>1, BaseTypes
          <6> QED BY <1>4, <5>2, <6>1
        <5> QED BY <1>10, <2>1, <4>2, <5>3 DEF Overlay
      <4> QED BY <4>1, <4>2
    <3> QED BY <1>12, <3>1, <3>2, <3>3 DEF TextAt
  <2>3. CASE ~(y < k)
    <3>1. PICK e \in Nat : y = k + e /\ e < n
      <4>1. y - k \in Nat /\ y = k + (y - k) /\ y - k < n
        BY <1>2, <1>5, <2>1, <2>3
      <4> QED BY <4>1
    <3>2. (k % Slots) + e < Slots
      BY <1>4, <1>5, <3>1, BaseTypes, SizeAssumption
    <3>3. y \div Slots = LB /\ y % Slots = o + e
      BY <1>3, <1>4, <3>1, <3>2, Stretch
    <3>4. o <= y % Slots /\ y % Slots < o + n
      BY <1>4, <1>5, <3>1, <3>3, BaseTypes
    <3>5. job.k + (o + e) - o = y
      BY <1>2, <1>4, <3>1, BaseTypes
    <3>6. blk'[c][y % Slots] = [w |-> TextWord, t |-> <<x, y>>]
      BY <1>10, <2>1, <3>3, <3>4, <3>5 DEF Overlay
    <3> QED BY <1>8, <1>9, <1>12, <3>3, <3>6 DEF TextAt
  <2> QED BY <2>2, <2>3
<1>15. k < k + n /\ k + n <= len
  BY <1>2, <1>5
<1>16. ASSUME NEW y \in 0 .. job'.k - 1 PROVE TextAt(i, y, x)'
  <2>1. y \in 0 .. k + n - 1
    BY <1>5, <1>6
  <2> QED BY <1>14, <2>1
<1> QED BY <1>2, <1>6, <1>12, <1>13, <1>15, <1>16

-----------------------------------------------------------------------------
(* Where a step can touch a file in use                                    *)

WriteSteps ==
  \/ FwAllocDirect \/ FwAllocSingle \/ FwAllocPtr \/ FwWild
  \/ FwZero \/ FwInode \/ FwPtr \/ FwSize

\* At these places only one handler can run, or the power goes.
LEMMA StepsAt ==
  ASSUME CarefulNext
  PROVE  /\ pc \in WritePlaces => WriteSteps \/ FwData \/ PowerCut
         /\ pc = "new_inode" => NewInodeStep \/ PowerCut
         /\ pc = "r_inode" => RInode \/ PowerCut
<1> DEFINE Here == pc \in WritePlaces \cup {"new_inode", "r_inode"}
<1>1. CASE NewBlockStep \/ DirAdd \/ DirGrow \/ DirPut \/ DlDirect \/ DlSingle \/ DlInode \/ DlEntry
  <2>1. ~Here
    BY <1>1 DEF NewBlockStep, DirAdd, DirGrow, DirPut, DlDirect, DlSingle, DlInode, DlEntry,
                WritePlaces
  <2> QED BY <2>1
<1>2. CASE \/ QIbm \/ QItab \/ QSb \/ FBbm \/ FIbm \/ RIbm \/ RBlock \/ RZero
           \/ DefDir \/ DefDone \/ Boot
  <2>1. ~Here
    BY <1>2 DEF QIbm, QItab, QSb, FBbm, FIbm, RIbm, RBlock, RZero, DefDir, DefDone, Boot,
                WritePlaces
  <2> QED BY <2>1
<1>3. CASE NewInodeStep
  BY <1>3 DEF NewInodeStep, WritePlaces
<1>4. CASE RInode
  BY <1>4 DEF RInode, WritePlaces
<1>5. CASE WriteSteps \/ FwData
  <2>1. pc \in WritePlaces
    BY <1>5 DEF WriteSteps, FwAllocDirect, FwAllocSingle, FwAllocPtr, FwWild, FwZero, FwInode,
                FwPtr, FwSize, FwData, Writing, WritePlaces
  <2> QED BY <1>5, <2>1 DEF WritePlaces
<1>6. CASE Kernel
  BY <1>1, <1>2, <1>3, <1>4, <1>5, <1>6 DEF Kernel, WriteSteps
<1>7. CASE Prompt \/ pc = "idle"
  BY <1>7 DEF Prompt, WritePlaces
<1>8. CASE Create
  BY <1>7, <1>8 DEF Create, Wr, NoteNew
<1>9. ASSUME NEW n \in Names, Mf(n) \/ Dl(n) \/ Cd(n) PROVE Prompt
  BY <1>9 DEF Mf, Dl, Cd
<1>10. ASSUME NEW c \in Texts, NoteAgain(c) PROVE Prompt
  BY <1>10 DEF NoteAgain
<1>11. CASE CdUp \/ Format \/ Qformat
  BY <1>7, <1>11 DEF CdUp, Format, Qformat
<1>12. CASE PowerCut
  BY <1>12
<1> QED BY <1>6, <1>7, <1>8, <1>9, <1>10, <1>11, <1>12 DEF CarefulNext

\* The fields fs_write does not touch on its way from block to block.
LEMMA WriteFrame ==
  ASSUME Sound, pc' \in WritePlaces,
         \/ FwAllocDirect \/ FwAllocSingle \/ FwAllocPtr \/ FwZero \/ FwInode \/ FwPtr \/ FwData
  PROVE  /\ pc \in WritePlaces
         /\ job'.idx = job.idx /\ job'.off = job.off /\ job'.len = job.len
         /\ job'.text = job.text /\ job'.seen = job.seen
         /\ job'.home = job.home /\ job'.name = job.name
         /\ FwData \/ job'.k = job.k
<1>1. job \in Job
  BY DEF Sound, TypeOK
<1>2. CASE FwAllocDirect \/ FwAllocSingle \/ FwAllocPtr
  BY <1>1, <1>2 DEF FwAllocDirect, FwAllocSingle, FwAllocPtr, Writing, Goto, Job, WritePlaces
<1>3. CASE FwZero \/ FwInode \/ FwPtr
  BY <1>3 DEF FwZero, FwInode, FwPtr, Goto, Finish, WritePlaces
<1>4. CASE FwData
  BY <1>1, <1>4 DEF FwData, Writing, Goto, Job, WritePlaces
<1> QED BY <1>2, <1>3, <1>4

-----------------------------------------------------------------------------
(* The invariant, part by part                                             *)

\* A file just made has one block.
LEMMA NewFileDistinct ==
  ASSUME Sound, OwnInv, NewInodeStep, NEW i \in Inodes, i = job.idx
  PROVE  Distinct(i)'
<1>1. pc = "new_inode" /\ itab'[i] = job.node
  BY StateTypes DEF NewInodeStep
<1>2. PICK b \in DataBlocks : job.node = FreshInode(Kind, b)
  BY <1>1 DEF OwnInv, JobInv, FreshOK
<1>3. /\ itab'[i].direct = [d \in Direct |-> IF d = 0 THEN b ELSE 0]
      /\ itab'[i].single = 0
  BY <1>1, <1>2, FreshFields
<1>4. ASSUME NEW l \in FilePlaces, l # 0 PROVE BlockAt(i, l)' = 0
  <2>1. l < NDirect => l \in Direct
    BY BlockIsOwned
  <2> QED BY <1>3, <1>4, <2>1 DEF BlockAt
<1> QED BY <1>4 DEF Distinct

\* No step puts a block at a second place of a file.
LEMMA DistinctStep ==
  ASSUME Sound, BitmapInv, OwnInv, ContentInv, Stays, [CarefulNext]_vars
  PROVE  DistinctInv'
<1> SUFFICES ASSUME NEW i \in Inodes, Held(i)', itab'[i].type = 1
             PROVE  Distinct(i)'
  BY DEF DistinctInv
<1>1. CASE pc = "new_inode" /\ i = job.idx
  <2>1. /\ i \notin {0, cwd} /\ Ents(i) = {} /\ ~Kept(i)
    BY <1>1 DEF OwnInv, JobInv, MakingOK
  <2>2. CASE NewInodeStep
    BY <1>1, <2>2, NewFileDistinct
  <2>3. CASE PowerCut
    <3>1. UNCHANGED <<blk, saved>> /\ pc' = "boot" /\ cwd' = 0
      BY <2>3 DEF PowerCut, disk, Goto
    <3> QED BY <2>1, <3>1 DEF Held, Ents, Kept, HoldPlaces
  <2>4. CASE UNCHANGED vars
    <3>1. UNCHANGED <<blk, saved, itab, pc, job, cwd>>
      BY <2>4 DEF vars, disk, mem, ghost
    <3> QED BY <1>1, <2>1, <3>1 DEF Held, Ents, Kept, HoldPlaces
  <2> QED BY <1>1, <2>2, <2>3, <2>4, StepsAt
<1>2. CASE pc = "r_inode"
  <2>1. itab = [j \in Inodes |-> NoInode]
    BY <1>2 DEF OwnInv, RootInv, EarlyPlaces, Blank
  <2>2. PICK b \in DataBlocks : job.node = FreshInode(2, b)
    BY <1>2 DEF OwnInv, JobInv, RootJobOK
  <2>3. CASE RInode
    <3>1. itab'[i] = NoInode \/ itab'[i] = FreshInode(2, b)
      BY <2>1, <2>2, <2>3 DEF RInode
    <3>2. NoInode.type = 0 /\ FreshInode(2, b).type = 2
      BY DEF NoInode, FreshInode
    <3> QED BY <3>1, <3>2
  <2>4. CASE PowerCut \/ UNCHANGED vars
    <3>1. itab' = itab
      BY <2>4 DEF PowerCut, disk, vars
    <3> QED BY <2>1, <3>1 DEF NoInode
  <2> QED BY <1>2, <2>3, <2>4, StepsAt
<1>3. CASE /\ Held(i) /\ itab[i].type = 1
           /\ \/ pc \in WritePlaces /\ i = job.idx
              \/ itab'[i] = itab[i] /\ \A b \in Owned(i) : blk'[b] = blk[b]
  <2>1. Distinct(i)
    BY <1>3 DEF ContentInv, DistinctInv
  <2>2. CASE itab'[i] = itab[i] /\ \A b \in Owned(i) : blk'[b] = blk[b]
    BY <2>1, <2>2, FileKept
  <2>3. CASE pc \in WritePlaces /\ i = job.idx
    <3>1. CASE WriteSteps
      BY <2>1, <2>3, <3>1, WriteKeepsText DEF WriteSteps
    <3>2. CASE FwData
      BY <2>1, <2>3, <3>2, WriteAddsText DEF ContentInv
    <3>3. CASE PowerCut \/ UNCHANGED vars
      <4>1. UNCHANGED <<itab, blk>>
        BY <3>3 DEF PowerCut, disk, vars
      <4> QED BY <2>1, <4>1, FileKept
    <3> QED BY <2>3, <3>1, <3>2, <3>3, StepsAt
  <2> QED BY <1>3, <2>2, <2>3
<1> QED BY <1>1, <1>2, <1>3 DEF Stays, FilesStay

\* What is reported written is whole, and stays so.
LEMMA IntactStep ==
  ASSUME Sound, Sound', BitmapInv, OwnInv, SavedInv, ContentInv, Stays, [CarefulNext]_vars
  PROVE  IntactInv'
<1>1. ASSUME NEW r \in saved, r \in saved'
      PROVE  /\ itab'[r.ino].size >= r.len
             /\ \A x \in 0 .. r.len - 1 : TextAt(r.ino, x, r.text)'
  <2>1. r.ino \in Inodes /\ Held(r.ino)' /\ saved' # {}
    BY <1>1 DEF Sound, TypeOK, GhostType, Save, Held, Kept
  <2>2. r.ino # job.idx /\ itab[r.ino].type = 1
    BY DEF SavedInv
  <2>3. itab'[r.ino] = itab[r.ino] /\ \A b \in Owned(r.ino) : blk'[b] = blk[b]
    BY <2>1, <2>2 DEF Stays, FilesStay
  <2>4. PICK i \in Inodes, c \in Texts : i = r.ino /\ c = r.text
    BY DEF Sound, TypeOK, GhostType, Save
  <2>5. \A x : TextAt(i, x, c) => TextAt(i, x, c)'
    BY <2>3, <2>4, FileKept
  <2>6. /\ itab[i].size >= r.len
        /\ \A x \in 0 .. r.len - 1 : TextAt(i, x, c)
    BY <2>4 DEF ContentInv, IntactInv
  <2> QED BY <2>3, <2>4, <2>5, <2>6
<1>2. CASE saved' \subseteq saved
  BY <1>1, <1>2 DEF IntactInv
<1>3. CASE FwSize
  <2>1. /\ pc = "fw" /\ job.k = job.len
        /\ IF Pos > job.node.size
             THEN itab' = [itab EXCEPT ![job.idx] = [job.node EXCEPT !.size = Pos]]
             ELSE UNCHANGED itab
        /\ saved' = saved \cup
             {[ino |-> job.idx, home |-> job.home, name |-> job.name,
               text |-> job.text, len |-> job.len, seen |-> job.seen]}
    BY <1>3 DEF FwSize
  <2>2. PICK i \in Inodes, c \in Texts, k \in Nat : i = job.idx /\ c = job.text /\ k = job.k
    BY <2>1, WritingFacts, FieldTypes DEF Sound, FrameOK
  <2>3. Pos = k /\ job.len = k
    BY <2>1, <2>2 DEF ContentInv, WrittenInv, Pos
  <2>4. /\ job.node = itab[i] /\ itab[i] \in Inode /\ itab[i].size \in Nat
        /\ Held(i) /\ itab[i].type = 1
    BY <2>1, <2>2, WritingFacts, StateTypes, FieldTypes DEF OwnInv, JobInv, NodeOK, Sound
  <2>5. itab'[i].size >= k
    <3>1. CASE Pos > job.node.size
      BY <2>1, <2>2, <2>3, <2>4, <3>1, StateTypes DEF Inode
    <3>2. CASE ~(Pos > job.node.size)
      BY <2>1, <2>3, <2>4, <3>2
    <3> QED BY <3>1, <3>2
  <2>6. \A x \in 0 .. k - 1 : TextAt(i, x, c)'
    <3>1. \A x \in 0 .. k - 1 : TextAt(i, x, c)
      BY <2>1, <2>2 DEF ContentInv, WrittenInv, WritePlaces
    <3>2. Distinct(i)
      BY <2>4 DEF ContentInv, DistinctInv
    <3> QED BY <1>3, <2>2, <3>1, <3>2, WriteKeepsText
  <2>7. ASSUME NEW r \in saved', r \notin saved
        PROVE  /\ itab'[r.ino].size >= r.len
               /\ \A x \in 0 .. r.len - 1 : TextAt(r.ino, x, r.text)'
    <3>1. r.ino = i /\ r.text = c /\ r.len = k
      BY <2>1, <2>2, <2>3, <2>7
    <3> QED BY <2>5, <2>6, <3>1
  <2> QED BY <1>1, <2>7 DEF IntactInv
<1>4. CASE CarefulNext
  BY <1>2, <1>3, <1>4, CarefulSteps, ElsewhereFrame, BeginsFrame, MakesFrame
<1>5. CASE UNCHANGED vars
  BY <1>2, <1>5 DEF vars, ghost
<1> QED BY <1>4, <1>5

\* What fs_write finds when the new inode is in place.
LEMMA WrittenAfterAdd ==
  ASSUME Sound, WrittenInv, pc \in {"dir_add", "dir_put"}, NEW ok, AfterAdd(ok)
  PROVE  WrittenInv'
<1>1. job \in Job /\ job.off = 0
  BY DEF Sound, TypeOK, WrittenInv
<1>2. CASE job.op \in FileOps
  <2>1. /\ pc' = "fw"
        /\ job' = [job EXCEPT !.k = 0, !.node = itab[job.idx], !.seen = ok,
                              !.off = IF job.op = "wr" THEN itab[job.idx].size ELSE 0]
    BY <1>2 DEF AfterAdd, FileOps, Formats, Goto
  <2>2. itab[job.idx].size = 0
    BY <1>2 DEF WrittenInv
  <2>3. job'.off = 0 /\ job'.k = 0 /\ job'.len = job.len
    BY <1>1, <2>1, <2>2 DEF Job
  <2>4. job.len \in Nat
    BY FieldTypes DEF Sound
  <2> QED BY <2>1, <2>3, <2>4 DEF WrittenInv
<1>3. CASE ~(job.op \in FileOps)
  <2>1. /\ pc' \in {"defdirs", "idle"}
        /\ job' = [job EXCEPT !.k = job.k + 1] \/ job' = NoJob
    BY <1>3 DEF AfterAdd, Goto, Finish
  <2>2. pc' \in {"defdirs", "idle"} /\ job'.off = 0
    BY <1>1, <2>1 DEF Job, NoJob
  <2> QED BY <2>2 DEF WrittenInv, WritePlaces
<1> QED BY <1>2, <1>3

\* Each step that makes or writes a file carries the text written so far.
LEMMA WrittenMakes ==
  ASSUME Sound, BitmapInv, OwnInv, ContentInv, Makes
  PROVE  WrittenInv'
<1>1. job \in Job /\ job.off = 0 /\ WrittenInv
  BY DEF Sound, TypeOK, ContentInv, WrittenInv
<1>2. CASE NewInodeStep
  <2>1. /\ pc = "new_inode" /\ pc' = "dir_add" /\ itab' = [itab EXCEPT ![job.idx] = job.node]
        /\ job' = [job EXCEPT !.dir = itab'[job.home]]
    BY <1>2 DEF NewInodeStep, Goto
  <2>2. PICK b \in DataBlocks : job.node = FreshInode(Kind, b)
    BY <2>1 DEF OwnInv, JobInv, FreshOK
  <2>3. job'.off = 0 /\ job'.idx = job.idx /\ job.idx \in Inodes
    BY <1>1, <2>1 DEF Job
  <2>4. FreshInode(Kind, b).size = 0
    BY DEF FreshInode, NoInode
  <2>5. itab'[job.idx].size = 0
    BY <2>1, <2>2, <2>3, <2>4, StateTypes
  <2> QED BY <2>1, <2>3, <2>5 DEF WrittenInv, WritePlaces
<1>3. CASE DirAdd
  <2>1. pc = "dir_add" /\ itab' = itab
    BY <1>3 DEF DirAdd
  <2>2. ASSUME NEW ok, AfterAdd(ok) PROVE WrittenInv'
    BY <1>1, <2>1, <2>2, WrittenAfterAdd
  <2>3. ASSUME NEW a, NEW b, Goto("dir_grow", [job EXCEPT !.dir.direct[a] = b, !.ptr = b])
        PROVE  WrittenInv'
    <3>1. pc' = "dir_grow" /\ job'.off = 0 /\ job'.op = job.op /\ job'.idx = job.idx
      BY <1>1, <2>3 DEF Goto, Job
    <3> QED BY <1>1, <2>1, <3>1 DEF WrittenInv, WritePlaces
  <2> QED BY <1>3, <2>2, <2>3 DEF DirAdd
<1>4. CASE DirGrow
  <2>1. /\ pc = "dir_grow" /\ pc' = "dir_put" /\ job' = job
        /\ itab' = [itab EXCEPT ![DirInodeId] = job.dir]
    BY <1>4 DEF DirGrow, Goto
  <2>2. DirInodeId = job.home /\ job.home # job.idx /\ job.idx \in Inodes
    BY <1>1, <2>1 DEF OwnInv, JobInv, GrowOK, AddingOK, Job
  <2>3. itab'[job.idx] = itab[job.idx]
    BY <2>1, <2>2, StateTypes
  <2> QED BY <1>1, <2>1, <2>3 DEF WrittenInv, WritePlaces
<1>5. CASE DirPut
  BY <1>1, <1>5, WrittenAfterAdd DEF DirPut
<1>6. CASE \/ FwAllocDirect \/ FwAllocSingle \/ FwZero \/ FwInode \/ FwAllocPtr
           \/ FwPtr \/ FwData
  <2>1. /\ pc \in WritePlaces /\ job'.off = 0
        /\ pc' \notin {"dir_add", "dir_grow", "dir_put"}
    BY <1>1, <1>6
    DEF FwAllocDirect, FwAllocSingle, FwZero, FwInode, FwAllocPtr, FwPtr, FwData, Writing,
        Goto, Finish, NoJob, Job, WritePlaces
  <2>2. PICK i \in Inodes, c \in Texts : i = job.idx /\ c = job.text
    BY <2>1, WritingFacts DEF Sound, FrameOK, WritePlaces
  <2>3. Held(i) /\ itab[i].type = 1
    BY <2>1, <2>2, WritingFacts DEF WritePlaces
  <2>4. Distinct(i)
    BY <2>3 DEF ContentInv, DistinctInv
  <2>5. ASSUME pc' \in WritePlaces
        PROVE  job'.k <= job'.len /\ \A x \in 0 .. job'.k - 1 : TextAt(job.idx, x, job.text)'
    <3>1. /\ job'.idx = i /\ job'.text = c /\ job'.len = job.len /\ (FwData \/ job'.k = job.k)
      BY <1>6, <2>2, <2>5, WriteFrame
    <3>2. CASE FwData
      <4>1. job'.k <= job'.len /\ \A x \in 0 .. job'.k - 1 : TextAt(i, x, c)'
        BY <1>1, <2>2, <2>4, <3>2, WriteAddsText
      <4> QED BY <3>1, <4>1
    <3>3. CASE ~FwData
      <4>1. job.k <= job.len /\ \A x \in 0 .. job.k - 1 : TextAt(i, x, c)
        BY <1>1, <2>1, <2>2 DEF WrittenInv
      <4>2. \A x : TextAt(i, x, c) => TextAt(i, x, c)'
        BY <1>6, <2>2, <2>4, <3>3, WriteKeepsText
      <4> QED BY <3>1, <3>3, <4>1, <4>2
    <3> QED BY <3>2, <3>3
  <2> QED BY <2>1, <2>5 DEF WrittenInv
<1> QED BY <1>2, <1>3, <1>4, <1>5, <1>6 DEF Makes

\* So does every other step: it leaves fs_write, or begins it anew.
LEMMA WrittenStep ==
  ASSUME Sound, BitmapInv, OwnInv, SavedInv, ContentInv, [CarefulNext]_vars
  PROVE  WrittenInv'
<1>1. job.off = 0 /\ WrittenInv
  BY DEF ContentInv, WrittenInv
<1>2. CASE Elsewhere
  BY <1>1, <1>2, ElsewhereFrame DEF WrittenInv, WritePlaces, HoldPlaces
<1>3. CASE Begins
  <2>1. job'.off = 0 /\ (pc' \in HoldPlaces => pc' = "fw" /\ \E c \in Texts : NoteAgain(c))
    BY <1>1, <1>3, BeginsFrame
  <2>2. ASSUME NEW c \in Texts, NoteAgain(c) PROVE job'.k = 0 /\ job'.len \in Nat
    BY <2>2, SizeAssumption DEF NoteAgain, Goto, NoJob
  <2> QED BY <2>1, <2>2 DEF WrittenInv, WritePlaces, HoldPlaces
<1>4. CASE FwSize
  BY <1>4 DEF FwSize, Finish, Goto, NoJob, WrittenInv, WritePlaces
<1>5. CASE Makes
  BY <1>5, WrittenMakes
<1>6. CASE UNCHANGED vars
  <2>1. UNCHANGED <<itab, blk, pc, job>>
    BY <1>6 DEF vars, disk
  <2> QED BY <1>1, <2>1 DEF WrittenInv, TextAt, BlockAt
<1> QED BY <1>2, <1>3, <1>4, <1>5, <1>6, CarefulSteps

\* A note that is found is entered in the root.
LEMMA FoundIsEntered ==
  ASSUME Sound, NEW d \in Inodes, NEW n \in Names, dir_lookup(itab[d], n) # -1,
         pc # "dir_put"
  PROVE  EntryOf(d, n, dir_lookup(itab[d], n))
<1> DEFINE h == First(LookupHits(itab[d], n))
           e == blk[itab[d].direct[h[1]]][h[2]]
<1>1. LookupHits(itab[d], n) \subseteq Nat \X Nat
  BY BaseTypes DEF LookupHits
<1>2. LookupHits(itab[d], n) # {} /\ dir_lookup(itab[d], n) = e.w
  BY DEF dir_lookup
<1>3. h \in LookupHits(itab[d], n)
  BY <1>1, <1>2, FirstIsIn
<1> HIDE DEF h
<1>4. /\ h \in Direct \X Cells /\ \A a \in 0 .. h[1] : itab[d].direct[a] # 0
      /\ e.t = n
  BY <1>3 DEF LookupHits
<1>5. h[1] \in Nat /\ h[1] \in Direct /\ h[2] \in Cells
  BY <1>4, BaseTypes
<1>6. itab[d].direct[h[1]] \in DataBlocks /\ itab[d].direct[h[1]] # 0
  BY <1>4, <1>5, StateTypes DEF Ptr
<1>7. e \in Cell
  BY <1>5, <1>6, StateTypes
<1>8. e = Entry(n, e.w)
  BY <1>4, <1>7 DEF Cell, Entry
<1> QED BY <1>2, <1>5, <1>6, <1>8 DEF EntryOf

\* What dir_add enters is entered.
LEMMA EntryAfterAdd ==
  ASSUME Sound, OwnInv, DirAdd \/ DirPut, pc' \in WritePlaces, job'.seen
  PROVE  EntryOf(job.home, job.name, job.idx)'
<1>1. job \in Job /\ job.home \in Inodes
  BY DEF Sound, TypeOK, Job
<1>2. PICK h \in Inodes, x \in Inodes, n \in Names \cup {None} :
       h = job.home /\ x = job.idx /\ n = job.name
  BY <1>1 DEF Job
<1>3. pc' # "dir_put" /\ itab' = itab
  BY DEF WritePlaces, DirAdd, DirPut
<1>4. ASSUME NEW ok, AfterAdd(ok)
      PROVE  job'.seen = ok /\ job'.home = h /\ job'.name = n /\ job'.idx = x
  <2>1. job' = [job EXCEPT !.k = 0, !.node = itab[job.idx], !.seen = ok,
                           !.off = IF job.op = "wr" THEN itab[job.idx].size ELSE 0]
    BY <1>4 DEF AfterAdd, Goto, Finish, WritePlaces
  <2> QED BY <1>1, <1>2, <2>1 DEF Job
<1>5. ASSUME NEW d \in Direct, NEW s \in Cells, itab[h].direct[d] # 0,
             blk'[itab[h].direct[d]][s] = Entry(n, x), AfterAdd(TRUE)
      PROVE  EntryOf(job.home, job.name, job.idx)'
  <2>1. itab'[h].direct[d] # 0 /\ blk'[itab'[h].direct[d]][s] = Entry(n, x)
    BY <1>3, <1>5
  <2>2. job'.home = h /\ job'.name = n /\ job'.idx = x
    BY <1>4, <1>5
  <2> QED BY <1>3, <2>1, <2>2 DEF EntryOf, Entry
<1>6. CASE DirPut
  <2>1. /\ pc = "dir_put" /\ AfterAdd(TRUE)
        /\ blk' = [blk EXCEPT ![job.ptr] = [ZeroBlock EXCEPT ![0] = Entry(n, x)]]
    BY <1>2, <1>6 DEF DirPut
  <2>2. PICK d \in Direct : itab[h].direct[d] = job.ptr /\ job.ptr # 0
    BY <1>2, <2>1 DEF OwnInv, JobInv, PutOK, Pointers
  <2>3. job.ptr \in DataBlocks
    BY <2>2, FieldTypes DEF Sound, Ptr
  <2>4. blk'[job.ptr][0] = Entry(n, x)
    BY <2>1, <2>3, StateTypes, BaseTypes DEF ZeroBlock
  <2> QED BY <1>5, <2>1, <2>2, <2>4, BaseTypes
<1>7. CASE DirAdd
  <2>1. pc = "dir_add" /\ job.dir = itab[h]
    BY <1>2, <1>7 DEF DirAdd, OwnInv, JobInv, AddOK
  <2>2. ~AfterAdd(FALSE)
    BY <1>4
  <2>3. ASSUME NEW a, NEW b, Goto("dir_grow", [job EXCEPT !.dir.direct[a] = b, !.ptr = b])
        PROVE  FALSE
    BY <2>3 DEF Goto, WritePlaces
  <2>4. AddStops(itab[h]) # {}
    BY <1>7, <2>1, <2>2 DEF DirAdd
  <2>5. PICK a : a = Min(AddStops(itab[h]))
    OBVIOUS
  <2>6. a \in AddStops(itab[h])
    <3>1. AddStops(itab[h]) \subseteq Nat
      BY BaseTypes DEF AddStops
    <3> QED BY <2>4, <2>5, <3>1, MinIsLeast
  <2>7. PICK b : b = itab[h].direct[a]
    OBVIOUS
  <2>8. b # 0 /\ AfterAdd(TRUE)
        /\ blk' = [blk EXCEPT ![b][Min(FreeCells(b))] = Entry(n, x)]
    BY <1>2, <1>7, <2>1, <2>2, <2>3, <2>4, <2>5, <2>7 DEF DirAdd
  <2>9. a \in Direct /\ b \in DataBlocks /\ FreeCells(b) # {}
    BY <2>6, <2>7, <2>8, StateTypes DEF AddStops, Ptr
  <2>10. Min(FreeCells(b)) \in Cells
    <3>1. FreeCells(b) \subseteq Nat /\ FreeCells(b) \subseteq Cells
      BY BaseTypes DEF FreeCells
    <3> QED BY <2>9, <3>1, MinIsLeast
  <2>11. blk'[b][Min(FreeCells(b))] = Entry(n, x)
    BY <2>8, <2>9, <2>10, StateTypes
  <2> QED BY <1>5, <2>7, <2>8, <2>9, <2>10, <2>11
<1> QED BY <1>6, <1>7

\* An entry outlives a step that keeps its directory in use and deletes nothing.
LEMMA EntryKept ==
  ASSUME OwnInv, Stays, NEW h \in Inodes, NEW n \in Names, NEW x \in Inodes \ {0},
         Held(h), Held(h)', itab[h].type = 2, pc # "r_zero",
         ~(pc = "dl_entry" /\ x = job.idx), EntryOf(h, n, x)
  PROVE  EntryOf(h, n, x)'
BY DEF Stays, EntriesStay

\* While a file is written the directory it was created in is in use.
LEMMA HomeIsHeld ==
  ASSUME Sound, BitmapInv, OwnInv, pc \in WritePlaces
  PROVE  /\ job.home \in Inodes /\ job.home \in {0, cwd}
         /\ Held(job.home) /\ itab[job.home].type = 2
         /\ job.name \in Names /\ job.idx \in Inodes \ {0}
<1>1. /\ job.op \in FileOps /\ job.home \in {0, cwd} /\ Rooted
      /\ job.idx \in Inodes \ {0}
  BY WritingFacts DEF WritePlaces
<1>2. job.home \in Inodes /\ job.name \in Names
  BY <1>1, FieldTypes DEF Sound, FrameOK
<1> QED BY <1>1, <1>2, DirsAreHeld

\* A saved file stays entered, and one is saved only when it is.
LEMMA SavedEntryStep ==
  ASSUME Sound, Sound', BitmapInv, OwnInv, SavedInv, EntryInv, Stays, [CarefulNext]_vars,
         NEW r \in saved', r.seen
  PROVE  EntryOf(r.home, r.name, r.ino)'
<1>1. r.ino \in Inodes /\ r.home \in Inodes /\ r.name \in Names /\ Held(r.home)'
  BY DEF Sound, TypeOK, GhostType, Save, Held, Kept
<1>2. CASE r \in saved
  <2>1. /\ r.ino # 0 /\ r.ino # job.idx /\ itab[r.home].type = 2
        /\ EntryOf(r.home, r.name, r.ino)
    BY <1>2 DEF SavedInv, EntryInv
  <2>2. Held(r.home) /\ pc # "r_zero"
    BY <1>2 DEF Held, Kept, OwnInv, RootInv
  <2> QED BY <1>1, <2>1, <2>2, EntryKept
<1>3. CASE r \notin saved
  <2>1. CASE FwSize
    <3>1. /\ pc = "fw"
          /\ r = [ino |-> job.idx, home |-> job.home, name |-> job.name,
                  text |-> job.text, len |-> job.len, seen |-> job.seen]
      BY <1>3, <2>1 DEF FwSize
    <3>2. r.ino = job.idx /\ r.home = job.home /\ r.name = job.name /\ job.seen
      BY <3>1
    <3>3. /\ Held(r.home) /\ itab[r.home].type = 2 /\ r.ino # 0
          /\ EntryOf(r.home, r.name, r.ino)
      BY <3>1, <3>2, HomeIsHeld DEF EntryInv, WritePlaces
    <3> QED BY <1>1, <3>1, <3>3, EntryKept
  <2>2. CASE saved' \subseteq saved
    BY <1>3, <2>2
  <2>3. CASE UNCHANGED vars
    BY <1>3, <2>3 DEF vars, ghost
  <2> QED BY <2>1, <2>2, <2>3, CarefulSteps, ElsewhereFrame, BeginsFrame, MakesFrame
<1> QED BY <1>2, <1>3

\* The file that is being written is entered when dir_add said so.
LEMMA WritingEntryStep ==
  ASSUME Sound, Sound', BitmapInv, OwnInv, OwnInv', SavedInv, EntryInv, Stays,
         [CarefulNext]_vars, pc' \in WritePlaces, job'.seen
  PROVE  EntryOf(job.home, job.name, job.idx)'
<1>1. /\ job'.home \in Inodes /\ Held(job.home)'
      /\ job'.name \in Names /\ job'.idx \in Inodes \ {0}
  <2>1. job'.op \in FileOps /\ job'.home \in {0, cwd'} /\ itab'[job'.idx].type = 1
    BY DEF OwnInv, JobInv, WriteOK, WritePlaces
  <2>2. Rooted'
    BY DEF OwnInv, RootInv, EarlyPlaces, WritePlaces
  <2>3. job'.home \in Inodes /\ job'.idx \in Inodes /\ job'.name \in Names
    BY <2>1 DEF Sound, TypeOK, Job, FrameOK
  <2> QED BY <2>1, <2>2, <2>3 DEF Held, Rooted
<1>2. CASE Begins
  <2>1. PICK c \in Texts : NoteAgain(c)
    BY <1>2, BeginsFrame DEF WritePlaces, HoldPlaces
  <2>2. PICK i : i = dir_lookup(itab[0], NotesName)
    OBVIOUS
  <2>3. /\ pc = "idle" /\ i # -1 /\ UNCHANGED <<itab, blk>>
        /\ job'.home = 0 /\ job'.name = NotesName /\ job'.idx = i
    BY <2>1, <2>2 DEF NoteAgain, Prompt, Goto, NoJob, disk
  <2>4. EntryOf(0, NotesName, i)
    BY <2>2, <2>3, FoundIsEntered, BaseTypes, NamesAssumption
  <2> QED BY <2>3, <2>4 DEF EntryOf, WritePlaces
<1>3. CASE \/ FwAllocDirect \/ FwAllocSingle \/ FwZero \/ FwInode \/ FwAllocPtr
           \/ FwPtr \/ FwData
  <2>1. /\ pc \in WritePlaces /\ job'.home = job.home /\ job'.name = job.name
        /\ job'.idx = job.idx /\ job'.seen = job.seen
    BY <1>3, WriteFrame
  <2>2. PICK h \in Inodes, n \in Names, x \in Inodes \ {0} :
          h = job.home /\ n = job.name /\ x = job.idx
    BY <1>1, <2>1
  <2>3. Held(h) /\ itab[h].type = 2
    BY <2>1, <2>2, HomeIsHeld
  <2>4. Held(h)'
    BY <1>1, <2>1, <2>2
  <2>5. EntryOf(h, n, x)
    BY <2>1, <2>2 DEF EntryInv
  <2>6. EntryOf(h, n, x)'
    BY <2>1, <2>3, <2>4, <2>5, EntryKept DEF WritePlaces
  <2> QED BY <2>1, <2>2, <2>6
<1>4. CASE DirAdd \/ DirPut
  BY <1>4, EntryAfterAdd
<1>5. CASE NewInodeStep \/ DirGrow \/ FwSize
  BY <1>5 DEF NewInodeStep, DirGrow, FwSize, Goto, Finish, WritePlaces
<1>6. CASE Elsewhere
  BY <1>6, ElsewhereFrame DEF WritePlaces, HoldPlaces
<1>7. CASE UNCHANGED vars
  <2>1. UNCHANGED <<itab, blk, pc, job>>
    BY <1>7 DEF vars, disk
  <2>2. EntryOf(job.home, job.name, job.idx)
    BY <2>1 DEF EntryInv
  <2> QED BY <2>1, <2>2 DEF EntryOf
<1> QED BY <1>2, <1>3, <1>4, <1>5, <1>6, <1>7, CarefulSteps DEF Makes

-----------------------------------------------------------------------------
(* The theorems                                                            *)

\* The invariant holds at the start, is kept by every careful step, and so always holds.
LEMMA ContentInit == Init => ContentInv
<1> SUFFICES ASSUME Init PROVE ContentInv
  OBVIOUS
<1>1. itab = [i \in Inodes |-> NoInode] /\ saved = {} /\ pc = "boot" /\ job = NoJob
  BY DEF Init
<1>2. \A i \in Inodes : itab[i].type # 1
  BY <1>1 DEF NoInode
<1>3. job.off = 0
  BY <1>1 DEF NoJob
<1> QED BY <1>1, <1>2, <1>3
    DEF ContentInv, DistinctInv, IntactInv, WrittenInv, EntryInv, WritePlaces

LEMMA ContentStep ==
  ASSUME Sound, Sound', BitmapInv, OwnInv, OwnInv', SavedInv, ContentInv, Stays,
         [CarefulNext]_vars
  PROVE  ContentInv'
<1>1. DistinctInv' /\ IntactInv' /\ WrittenInv'
  BY DistinctStep, IntactStep, WrittenStep
<1>2. EntryInv'
  BY SavedEntryStep, WritingEntryStep DEF ContentInv, EntryInv
<1> QED BY <1>1, <1>2 DEF ContentInv

LEMMA ContentAlways == CarefulSpec => [](Sound /\ OwnInv /\ SavedInv /\ ContentInv)
<1>1. /\ Sound /\ Sound' /\ BitmapInv /\ OwnInv /\ OwnInv' /\ SavedInv
      /\ ContentInv /\ [CarefulNext]_vars
      => ContentInv'
  BY OwnStep, ContentStep
<1> QED BY <1>1, ContentInit, OwnAlways, PTL DEF CarefulSpec

\* A file whose write ended in "write successful" keeps its length and every
\* piece of its text until it is deleted, overwritten or formatted away, across
\* every other command and every power cut of careful use.
THEOREM SavedFilesKept == CarefulSpec => []FileIntact
<1>1. Sound /\ OwnInv /\ SavedInv /\ ContentInv => FileIntact
  <2> SUFFICES ASSUME Sound, OwnInv, SavedInv, ContentInv, NEW r \in saved
               PROVE  /\ r.ino \in dibm /\ itab[r.ino].type = 1 /\ itab[r.ino].size >= r.len
                      /\ \A x \in 0 .. r.len - 1 :
                           FileCell(r.ino, x) = [w |-> TextWord, t |-> <<r.text, x>>]
    BY DEF FileIntact
  <2>1. r.ino \in Inodes /\ Held(r.ino) /\ r.len \in Nat
    BY DEF Sound, TypeOK, GhostType, Save, Held, Kept
  <2>2. r.ino \in dibm
    BY <2>1 DEF OwnInv, Own, Marked, Good
  <2>3. ASSUME NEW x \in 0 .. r.len - 1
        PROVE  FileCell(r.ino, x) = [w |-> TextWord, t |-> <<r.text, x>>]
    <3>1. TextAt(r.ino, x, r.text)
      BY DEF ContentInv, IntactInv
    <3>2. BlockAt(r.ino, x \div Slots) \in DataBlocks
      BY <2>1, <3>1, HeldBlock DEF TextAt
    <3> QED BY <3>1, <3>2 DEF TextAt, BlockAt, FileCell
  <2> QED BY <2>2, <2>3 DEF SavedInv, ContentInv, IntactInv
<1> QED BY <1>1, ContentAlways, PTL

\* A file whose entry dir_add made stays entered, under its name, in the
\* directory it was made in, and that directory stays one.
THEOREM SavedStaysEntered == CarefulSpec => []SavedIsEntered
<1>1. SavedInv /\ ContentInv => SavedIsEntered
  BY DEF SavedInv, ContentInv, EntryInv, EntryOf, SavedIsEntered
<1> QED BY <1>1, ContentAlways, PTL

-----------------------------------------------------------------------------
(* No wild pointers                                                        *)

\* Every text the commands write fits a file with a single indirect block.
TextsFit == \A l \in Lens \cup {NotesLen} : l <= Slots * (NDirect + Slots)

TameInv ==
  /\ pc # "wild"
  /\ job.op \in FileOps => job.len \in Lens \cup {NotesLen}

\* A command stays what it is until it is over.
SameCommand ==
  job'.op = job.op /\ job'.name = job.name /\ job'.text = job.text /\ job'.len = job.len

CommandBegins ==
  /\ pc = "idle" /\ UNCHANGED <<itab, blk>>
  /\ job'.op \in FileOps => job'.len \in Lens \cup {NotesLen}
  /\ job'.op = "note" => job'.name = NotesName
  /\ job'.op = "dl" => UNCHANGED dibm

\* Where a command that writes is.
FilePcs == {"new_block", "new_inode"} \cup HoldPlaces

\* Its length is given with the command, and its place is one of fs_create_file
\* or fs_write.
LEMMA CommandKept ==
  ASSUME Sound, OwnInv, CarefulNext
  PROVE  /\ pc' = "wild" => pc = "wild" \/ FwWild
         /\ job'.op \in FileOps \cup {"dl"} => SameCommand \/ CommandBegins
         /\ job'.op \in FileOps /\ (job.op \in FileOps => pc \in FilePcs) => pc' \in FilePcs
<1> DEFINE Keeps == job'.op \in FileOps \cup {"dl"} => SameCommand
<1>1. job \in Job
  BY DEF Sound, TypeOK
<1>2. CASE NewBlockStep \/ NewInodeStep \/ DirGrow
  BY <1>1, <1>2
  DEF NewBlockStep, NewInodeStep, DirGrow, Goto, Finish, NoJob, Job, FileOps, Formats,
      SameCommand, FilePcs, HoldPlaces
<1>3. ASSUME NEW ok, AfterAdd(ok)
      PROVE  pc' # "wild" /\ Keeps /\ (job'.op \in FileOps => pc' = "fw")
  <2>1. ASSUME job' = [job EXCEPT !.k = job.k + 1] PROVE SameCommand
    BY <1>1, <2>1 DEF Job, SameCommand
  <2>2. ASSUME job' = NoJob PROVE job'.op \notin FileOps \cup {"dl"}
    BY <2>2 DEF NoJob, FileOps
  <2>3. ASSUME job' = [job EXCEPT !.k = 0, !.node = itab[job.idx], !.seen = ok,
                                  !.off = IF job.op = "wr" THEN itab[job.idx].size ELSE 0]
        PROVE  SameCommand
    BY <1>1, <2>3 DEF Job, SameCommand
  <2>4. pc' # "wild"
    BY <1>3 DEF AfterAdd, Goto, Finish
  <2>5. job'.op \in FileOps => pc' = "fw"
    BY <1>1, <1>3, <2>1, <2>2 DEF AfterAdd, Goto, Finish, SameCommand, FileOps, Formats
  <2> QED BY <1>3, <2>1, <2>2, <2>3, <2>4, <2>5 DEF AfterAdd, Goto, Finish
<1>4. CASE DirPut
  BY <1>3, <1>4 DEF DirPut, FilePcs, HoldPlaces
<1>5. CASE DirAdd
  <2>1. CASE \E ok \in BOOLEAN : AfterAdd(ok)
    BY <1>3, <2>1 DEF FilePcs, HoldPlaces
  <2>2. CASE \E a, b : Goto("dir_grow", [job EXCEPT !.dir.direct[a] = b, !.ptr = b])
    BY <1>1, <2>2 DEF Goto, Job, SameCommand, FilePcs, HoldPlaces
  <2> QED BY <1>5, <2>1, <2>2 DEF DirAdd
<1>6. CASE \/ FwAllocDirect \/ FwAllocSingle \/ FwZero \/ FwInode \/ FwAllocPtr
           \/ FwPtr \/ FwData \/ FwWild \/ FwSize
  <2>1. CASE FwAllocDirect \/ FwAllocSingle \/ FwAllocPtr
    BY <1>1, <2>1
    DEF FwAllocDirect, FwAllocSingle, FwAllocPtr, Goto, Job, SameCommand, FilePcs, HoldPlaces
  <2>2. CASE FwZero \/ FwInode \/ FwPtr
    BY <1>1, <2>2
    DEF FwZero, FwInode, FwPtr, Goto, Finish, NoJob, FileOps, SameCommand, FilePcs, HoldPlaces
  <2>3. CASE FwData
    BY <1>1, <2>3 DEF FwData, Goto, Job, SameCommand, FilePcs, HoldPlaces
  <2>4. CASE FwWild \/ FwSize
    BY <2>4 DEF FwWild, FwSize, Goto, Finish, NoJob, FileOps
  <2> QED BY <1>6, <2>1, <2>2, <2>3, <2>4
<1>7. CASE DlDirect \/ DlSingle \/ DlInode \/ DlEntry
  <2>1. CASE DlDirect
    BY <1>1, <2>1 DEF DlDirect, Goto, Job, SameCommand, OwnInv, JobInv, DlOK, FileOps
  <2>2. CASE DlSingle
    BY <1>1, <2>2 DEF DlSingle, Goto, Job, SameCommand, OwnInv, JobInv, DlOK, FileOps
  <2>3. CASE DlInode \/ DlEntry
    BY <1>1, <2>3
    DEF DlInode, DlEntry, Goto, Finish, NoJob, FileOps, SameCommand, OwnInv, JobInv, DlOK
  <2> QED BY <1>7, <2>1, <2>2, <2>3
<1>8. CASE QIbm \/ QItab \/ QSb \/ FBbm \/ FIbm \/ RIbm \/ RBlock \/ RInode \/ RZero
  <2>1. job' = job \/ \E k, d : job' = [job EXCEPT !.k = k] \/ job' = [job EXCEPT !.node = d]
                             \/ job' = NoJob
    BY <1>8
    DEF QIbm, QItab, QSb, FBbm, FIbm, RIbm, RBlock, RInode, RZero, AfterRoot, Goto, Finish
  <2>2. Keeps /\ pc' # "wild"
    BY <1>1, <1>8, <2>1
    DEF QIbm, QItab, QSb, FBbm, FIbm, RIbm, RBlock, RInode, RZero, AfterRoot, Goto, Finish,
        Job, NoJob, FileOps, SameCommand
  <2>3. pc \notin FilePcs
    BY <1>8
    DEF QIbm, QItab, QSb, FBbm, FIbm, RIbm, RBlock, RInode, RZero, FilePcs, HoldPlaces
  <2> QED BY <2>2, <2>3 DEF SameCommand
<1>9. CASE DefDir \/ DefDone \/ Boot \/ PowerCut \/ Format \/ Qformat
  <2>1. CASE DefDir
    BY <1>1, <2>1
    DEF DefDir, Goto, Job, OwnInv, JobInv, OpOK, Formats, FileOps
  <2>2. CASE init_fs
    BY <2>2 DEF init_fs, Goto, Finish, NoJob, FileOps
  <2>3. CASE DefDone \/ Boot
    BY <2>2, <2>3 DEF DefDone, Boot, Goto, Finish, NoJob, FileOps
  <2>4. CASE PowerCut \/ Format \/ Qformat
    BY <2>4 DEF PowerCut, Format, Qformat, Goto, NoJob, FileOps
  <2> QED BY <1>9, <2>1, <2>2, <2>3, <2>4
<1>10. ASSUME NEW op, NEW n, NEW c, NEW l, BeginCreate(op, n, c, l)
       PROVE  pc' = "new_block" /\ job'.op = op /\ job'.len = l /\ job'.name = n
  BY <1>10 DEF BeginCreate, Goto, NoJob
<1>11. CASE Create
  <2>1. ASSUME NEW n \in Names, NEW c \in Texts, NEW l \in Lens, Wr(n, c, l)
        PROVE  CommandBegins /\ pc' = "new_block"
    BY <1>10, <2>1 DEF Wr, Prompt, CommandBegins
  <2>2. ASSUME NEW c \in Texts, NoteNew(c) PROVE CommandBegins /\ pc' = "new_block"
    BY <1>10, <2>2 DEF NoteNew, Prompt, CommandBegins
  <2> QED BY <1>11, <2>1, <2>2 DEF Create, FilePcs
<1>12. ASSUME NEW c \in Texts, NoteAgain(c) PROVE CommandBegins /\ pc' = "fw"
  BY <1>12 DEF NoteAgain, Goto, NoJob, Prompt, CommandBegins, disk
<1>13. ASSUME NEW n \in Names, Mf(n) PROVE pc' # "wild" /\ job'.op \notin FileOps \cup {"dl"}
  BY <1>10, <1>13 DEF Mf, FileOps
<1>14. ASSUME NEW n \in Names, Dl(n)
       PROVE  pc' # "wild" /\ CommandBegins /\ job'.op \notin FileOps
  BY <1>14 DEF Dl, Goto, NoJob, FileOps, Prompt, CommandBegins, disk
<1>15. ASSUME NEW n \in Names, Cd(n) \/ CdUp PROVE pc' = pc /\ job' = job
  BY <1>15 DEF Cd, CdUp
<1> QED BY <1>2, <1>4, <1>5, <1>6, <1>7, <1>8, <1>9, <1>11, <1>12, <1>13, <1>14, <1>15,
           NamesAssumption
    DEF CarefulNext, Kernel, SameCommand, FilePcs, HoldPlaces

\* A careful write follows no pointer out of the data area.
LEMMA NoWildStep ==
  ASSUME TextsFit, Sound, BitmapInv, OwnInv, ContentInv, TameInv
  PROVE  ~FwWild
<1> SUFFICES ASSUME FwWild PROVE FALSE
  OBVIOUS
<1>1. pc = "fw" /\ job.k < job.len
  BY DEF FwWild, Writing
<1>2. /\ job.op \in FileOps /\ Held(job.idx) /\ job.idx \in Inodes
      /\ job.node = itab[job.idx]
  BY <1>1, WritingFacts DEF OwnInv, JobInv, NodeOK
<1>3. PICK k \in Nat, len \in Nat, i \in Inodes : k = job.k /\ len = job.len /\ i = job.idx
  BY <1>2, FieldTypes DEF Sound
<1>4. LB = k \div Slots /\ LB \in Nat
  BY <1>3, Division DEF ContentInv, WrittenInv, Pos, LB
<1>5. k < Slots * (NDirect + Slots)
  <2>1. PICK m \in Nat : m = Slots * (NDirect + Slots)
    BY SizeAssumption
  <2>2. len <= m
    BY <1>2, <1>3, <2>1 DEF TameInv, TextsFit
  <2> QED BY <1>1, <1>3, <2>1, <2>2
<1>6. LB < NDirect + Slots
  <2> SUFFICES ASSUME ~(LB < NDirect + Slots) PROVE FALSE
    OBVIOUS
  <2>1. PICK e \in Nat : LB = NDirect + Slots + e
    <3>1. /\ LB - (NDirect + Slots) \in Nat
          /\ LB = NDirect + Slots + (LB - (NDirect + Slots))
      BY <1>4, SizeAssumption
    <3> QED BY <3>1
  <2>2. k = Slots * LB + (k % Slots) /\ k % Slots \in Nat
    BY <1>3, <1>4, DivisionLaw, Division, BaseTypes
  <2>3. Slots * LB = Slots * (NDirect + Slots) + Slots * e /\ Slots * e >= 0
    BY <2>1, SizeAssumption
  <2>4. PICK m \in Nat, g \in Nat : m = Slots * (NDirect + Slots) /\ g = Slots * e
    BY SizeAssumption
  <2> QED BY <1>3, <1>5, <2>2, <2>3, <2>4
<1>7. InDirect \/ InSingle
  BY <1>4, <1>6, SizeAssumption DEF InDirect, InSingle, PI
<1>8. Mapped => Phys = BlockAt(i, LB) /\ Phys # 0
  BY <1>2, <1>3 DEF Mapped, Phys, BlockAt, InDirect, InSingle, PI
<1>9. LB \in FilePlaces
  BY <1>4, <1>6, SizeAssumption DEF FilePlaces
<1>10. Mapped => Phys \in DataBlocks
  BY <1>2, <1>3, <1>8, <1>9, HeldBlock
<1> QED BY <1>7, <1>10 DEF FwWild

\* Where the texts fit, no careful command ever follows a pointer that leaves
\* the data area, or writes past the pointers a file has.
THEOREM PointersStayHome == TextsFit /\ CarefulSpec => []NoWildWrite
<1> SUFFICES ASSUME TextsFit PROVE CarefulSpec => []NoWildWrite
  OBVIOUS
<1>1. Init => TameInv
  BY DEF Init, TameInv, NoJob, FileOps
<1>2. Sound /\ BitmapInv /\ OwnInv /\ ContentInv /\ TameInv /\ [CarefulNext]_vars => TameInv'
  <2> SUFFICES ASSUME Sound, BitmapInv, OwnInv, ContentInv, TameInv, [CarefulNext]_vars
               PROVE  TameInv'
    OBVIOUS
  <2>1. CASE CarefulNext
    <3>1. job'.op \in FileOps =>
            (job.op \in FileOps /\ job'.len = job.len) \/ job'.len \in Lens \cup {NotesLen}
      BY <2>1, CommandKept DEF SameCommand, CommandBegins
    <3> QED BY <2>1, <3>1, CommandKept, NoWildStep DEF TameInv
  <2>2. CASE UNCHANGED vars
    BY <2>2 DEF TameInv, vars
  <2> QED BY <2>1, <2>2
<1>3. TameInv => NoWildWrite
  BY DEF TameInv, NoWildWrite
<1> QED BY <1>1, <1>2, <1>3, OwnAlways, ContentAlways, PTL DEF CarefulSpec

-----------------------------------------------------------------------------
(* What a reader finds                                                     *)

\* An entry leads to inode h, or it is the root.
Reached(h) == IF h = 0 THEN Rooted ELSE Ents(h) # {}

\* Every name on the disk stands in a directory that is reached: none is left
\* behind in a block that is free, or about to be filled.
HomesInv ==
  /\ \A b \in DataBlocks, s \in Cells : blk[b][s].t \in Names =>
       /\ blk[b][s].w # 0
       /\ \E h \in Inodes : Reached(h) /\ itab[h].type = 2 /\ b \in Pointers(h)
       /\ pc = "dir_put" => b # job.ptr
       /\ pc # "r_zero"
  /\ cwd = 0 \/ Ents(cwd) # {}

\* A file has blocks for the whole of its size, which is that of a text.
SizesInv ==
  \A i \in Inodes :
    /\ itab[i].size \in Lens \cup {0, NotesLen}
    /\ Held(i) /\ itab[i].type = 1 =>
         \A x \in 0 .. itab[i].size - 1 :
           x \div Slots \in FilePlaces /\ BlockAt(i, x \div Slots) # 0

\* Only notes.cos is written again; what is made has no size before its text.
CommandInv ==
  /\ job.op \in FileOps => pc \in FilePcs /\ job.len \in Lens \cup {NotesLen}
  /\ job.op = "note" => job.name = NotesName
  /\ pc \in {"dir_add", "dir_grow", "dir_put"} => itab[job.idx].size = 0
  /\ pc \in WritePlaces =>
       /\ job.op = "wr" => itab[job.idx].size = 0
       /\ ~job.seen => Ents(job.idx) = {}
  /\ pc = "dl_entry" => job.idx \notin dibm

StoreInv == HomesInv /\ SizesInv /\ CommandInv

\* What a step does to the names on the disk, and to the directories they are in.
NamesStay ==
  \A b \in DataBlocks, s \in Cells :
    blk[b][s].t \in Names /\ ~(pc = "dl_entry" /\ blk[b][s].w = job.idx) => blk'[b][s] = blk[b][s]
NamesMade ==
  \A b \in DataBlocks, s \in Cells : blk'[b][s].t \in Names =>
    \/ blk'[b][s] = blk[b][s]
    \/ /\ pc \in {"dir_add", "dir_put"} /\ pc' \notin {"dir_put", "r_zero"}
       /\ blk'[b][s].w = job.idx /\ b \in Pointers(job.home)
DirsStay ==
  \A h \in Inodes : Reached(h) /\ itab[h].type = 2 =>
    itab'[h].type = 2 /\ Pointers(h) \subseteq Pointers(h)'

\* Who writes blocks, who writes the inode table, and who comes to the places
\* at which something is known of the disk.
LEMMA DiskSteps ==
  ASSUME CarefulNext
  PROVE  /\ blk' = blk \/ DirAdd \/ DirPut \/ FwZero \/ FwPtr \/ FwData \/ DlEntry \/ RZero
         /\ itab' = itab \/ NewInodeStep \/ DirGrow \/ FwInode \/ FwSize \/ QItab \/ RInode
         /\ pc' = "dir_put" => DirGrow
         /\ pc' = "r_zero" => RInode
         /\ pc' = "dl_entry" => DlInode
         /\ cwd' \in {cwd, 0} \/ DefDone \/ \E n \in Names : Cd(n)
<1> DEFINE Quiet == UNCHANGED <<itab, blk>> /\ pc' \notin {"dir_put", "r_zero", "dl_entry"}
           Away == pc' \notin {"dir_put", "r_zero", "dl_entry"} /\ cwd' = cwd
<1> USE DEF disk, mem, Goto, Finish, AfterRoot, AfterAdd, init_fs
<1>1. CASE NewBlockStep \/ DlDirect \/ DlSingle
  BY <1>1 DEF NewBlockStep, DlDirect, DlSingle
<1>2. CASE FwAllocDirect \/ FwAllocSingle \/ FwAllocPtr \/ FwWild
  BY <1>2 DEF FwAllocDirect, FwAllocSingle, FwAllocPtr, FwWild
<1>3. CASE QIbm \/ QSb \/ FBbm \/ FIbm \/ RIbm \/ RBlock
  BY <1>3 DEF QIbm, QSb, FBbm, FIbm, RIbm, RBlock
<1>4. CASE DefDir \/ DefDone \/ Boot
  BY <1>4 DEF DefDir, DefDone, Boot
<1>5. CASE DirAdd \/ DirPut \/ FwZero \/ FwPtr \/ FwData \/ DlEntry \/ RZero
  <2>1. Away /\ itab' = itab
    BY <1>5 DEF DirAdd, DirPut, FwZero, FwPtr, FwData, DlEntry, RZero
  <2> QED BY <1>5, <2>1
<1>6. CASE NewInodeStep \/ FwInode \/ FwSize \/ QItab
  <2>1. Away /\ blk' = blk
    BY <1>6 DEF NewInodeStep, FwInode, FwSize, QItab
  <2> QED BY <1>6, <2>1
<1>7. CASE DirGrow \/ RInode \/ DlInode
  BY <1>7 DEF DirGrow, RInode, DlInode
<1>8. CASE Create
  BY <1>8 DEF Create, Wr, NoteNew, BeginCreate
<1>9. ASSUME NEW c \in Texts, NoteAgain(c) PROVE Quiet /\ cwd' = cwd
  BY <1>9 DEF NoteAgain
<1>10. ASSUME NEW n \in Names, Mf(n) \/ Dl(n) PROVE Quiet /\ cwd' = cwd
  BY <1>10 DEF Mf, Dl, BeginCreate
<1>11. ASSUME NEW n \in Names, Cd(n) PROVE Quiet
  BY <1>11 DEF Cd, Prompt
<1>12. CASE CdUp
  BY <1>12 DEF CdUp, Prompt
<1>13. CASE PowerCut \/ Format \/ Qformat
  BY <1>13 DEF PowerCut, Format, Qformat
<1> HIDE DEF disk, mem, Goto, Finish, AfterRoot, AfterAdd, init_fs
<1> QED BY <1>1, <1>2, <1>3, <1>4, <1>5, <1>6, <1>7, <1>8, <1>9, <1>10, <1>11, <1>12, <1>13
        DEF CarefulNext, Kernel

\* A directory that is reached is in use, and no dl is about to take it away.
LEMMA ReachedIsHeld ==
  ASSUME Sound, OwnInv, NEW h \in Inodes, Reached(h), itab[h].type = 2
  PROVE  Held(h) /\ ~(job.op = "dl" /\ h = job.idx)
<1>1. job.op = "dl" => itab[job.idx].type = 1
  BY DEF OwnInv, JobInv, DlOK, OpOK
<1> QED BY <1>1 DEF Reached, Held, Rooted

\* A name stands in a block of a directory in use, where no file has its own.
LEMMA NamesAreHeld ==
  ASSUME Sound, OwnInv, HomesInv, NEW b \in DataBlocks, NEW s \in Cells, blk[b][s].t \in Names
  PROVE  \E h \in Inodes : /\ Held(h) /\ itab[h].type = 2 /\ b \in Owned(h)
                           /\ \A i \in Inodes : Held(i) /\ i # h => b \notin Owned(i)
<1>1. PICK h \in Inodes : Reached(h) /\ itab[h].type = 2 /\ b \in Pointers(h)
  BY DEF HomesInv
<1>2. Held(h)
  BY <1>1, ReachedIsHeld
<1>3. b \in Owned(h)
  BY <1>1 DEF Owned
<1> QED BY <1>1, <1>2, <1>3 DEF OwnInv, Own, Apart

\* The block a write puts text in is one of the file's.
LEMMA TextBlock ==
  ASSUME Sound, BitmapInv, OwnInv, FwData
  PROVE  Phys \in Owned(job.idx) /\ Phys \in DataBlocks
<1>1. pc = "fw" /\ Mapped /\ Phys \in DataBlocks /\ Phys # 0
  BY BlocksAssumption DEF FwData, Writing
<1>2. /\ job.idx \in Inodes /\ job.node = itab[job.idx]
  BY <1>1, WritingFacts DEF OwnInv, JobInv, NodeOK
<1>3. CASE InDirect
  BY <1>1, <1>2, <1>3, PlaceInFile DEF Phys, Owned, Pointers
<1>4. CASE ~InDirect
  BY <1>1, <1>2, <1>4, PlaceInFile DEF Mapped, Phys, Owned
<1> QED BY <1>1, <1>3, <1>4

\* Of the steps that write blocks, only the last of dl takes a name away, and
\* only dir_add makes one.
LEMMA BlocksNames ==
  ASSUME Sound, BitmapInv, OwnInv, HomesInv,
         blk' = blk \/ DirAdd \/ DirPut \/ FwZero \/ FwPtr \/ FwData \/ DlEntry \/ RZero
  PROVE  NamesStay /\ NamesMade
<1>1. CASE blk' = blk
  BY <1>1 DEF NamesStay, NamesMade
<1>2. ASSUME NEW p \in DataBlocks, NEW q \in Cells,
             \A d \in DataBlocks \ {p} : blk'[d] = blk[d],
             \A e \in Cells \ {q} : blk'[p][e] = blk[p][e]
      PROVE  \A b \in DataBlocks, s \in Cells : (b = p /\ s = q) \/ blk'[b][s] = blk[b][s]
  BY <1>2
<1>3. \A b \in DataBlocks, s \in Cells : blk[b][s].t \in Names => blk[b][s].w # 0
  BY DEF HomesInv
<1>4. job \in Job /\ Zero.t \notin Names /\ \A b : Pointer(b).t \notin Names
  BY NamesAssumption DEF Sound, TypeOK, Zero, Pointer
<1>5. CASE DirAdd
  <2>1. pc = "dir_add" /\ job.dir = itab[job.home] /\ job.home \in Inodes
    BY <1>4, <1>5 DEF DirAdd, OwnInv, JobInv, AddOK, Job
  <2>2. CASE blk' = blk
    BY <1>1, <2>2
  <2>3. CASE blk' # blk
    <3>1. PICK a, b : /\ a = Min(AddStops(job.dir)) /\ b = job.dir.direct[a] /\ b # 0
                      /\ AddStops(job.dir) # {} /\ AfterAdd(TRUE)
                      /\ blk' = [blk EXCEPT ![b][Min(FreeCells(b))] = Entry(job.name, job.idx)]
      BY <1>5, <2>3 DEF DirAdd
    <3>2. a \in Direct /\ (job.dir.direct[a] = 0 \/ FreeCells(job.dir.direct[a]) # {})
      <4>1. AddStops(job.dir) \subseteq Nat
        BY BaseTypes DEF AddStops
      <4>2. a \in AddStops(job.dir)
        BY <3>1, <4>1, MinIsLeast
      <4> QED BY <4>2 DEF AddStops
    <3>3. b \in DataBlocks /\ b \in Pointers(job.home) /\ FreeCells(b) # {}
      BY <2>1, <3>1, <3>2, StateTypes DEF Ptr, Pointers
    <3>4. PICK q \in FreeCells(b) : q = Min(FreeCells(b))
      <4>1. FreeCells(b) \subseteq Nat
        BY BaseTypes DEF FreeCells
      <4> QED BY <3>3, <4>1, MinIsLeast
    <3>5. q \in Cells /\ blk[b][q].w = 0
      BY <3>4 DEF FreeCells
    <3>6. /\ \A d \in DataBlocks \ {b} : blk'[d] = blk[d]
          /\ \A e \in Cells \ {q} : blk'[b][e] = blk[b][e]
          /\ blk'[b][q] = Entry(job.name, job.idx)
      BY <3>1, <3>3, <3>4, <3>5, StateTypes
    <3>7. \A d \in DataBlocks, s \in Cells : (d = b /\ s = q) \/ blk'[d][s] = blk[d][s]
      BY <3>6
    <3>8. NamesStay
      BY <1>3, <3>3, <3>5, <3>7 DEF NamesStay
    <3>9. pc' \notin {"dir_put", "r_zero"}
      BY <3>1 DEF AfterAdd, Goto, Finish
    <3>10. NamesMade
      BY <2>1, <3>3, <3>6, <3>7, <3>9 DEF NamesMade, Entry
    <3> QED BY <3>8, <3>10
  <2> QED BY <2>2, <2>3
<1>6. CASE DirPut
  <2>1. /\ pc = "dir_put" /\ job.ptr \in Pointers(job.home) /\ job.ptr \in DataBlocks
        /\ AfterAdd(TRUE)
        /\ blk' = [blk EXCEPT ![job.ptr] = [ZeroBlock EXCEPT ![0] = Entry(job.name, job.idx)]]
    BY <1>6, FieldTypes DEF DirPut, OwnInv, JobInv, PutOK, Sound, Ptr
  <2>2. /\ \A d \in DataBlocks \ {job.ptr} : blk'[d] = blk[d]
        /\ blk'[job.ptr] = [ZeroBlock EXCEPT ![0] = Entry(job.name, job.idx)]
    BY <2>1, StateTypes
  <2>3. NamesStay
    BY <2>1, <2>2 DEF NamesStay, HomesInv
  <2>4. \A s \in Cells : blk'[job.ptr][s] = Zero \/ blk'[job.ptr][s] = Entry(job.name, job.idx)
    BY <2>2, BaseTypes DEF ZeroBlock
  <2>5. pc' \notin {"dir_put", "r_zero"}
    BY <2>1 DEF AfterAdd, Goto, Finish
  <2>6. NamesMade
    BY <1>4, <2>1, <2>2, <2>4, <2>5 DEF NamesMade, Entry
  <2> QED BY <2>3, <2>6
<1>7. CASE FwZero
  <2>1. pc = "fw_zero" /\ (job.node.single = 0 \/ Spare(job.node.single))
        /\ (blk' = blk \/ blk' = [blk EXCEPT ![job.node.single] = ZeroBlock])
    BY <1>7 DEF FwZero, OwnInv, JobInv, ZeroOK
  <2>2. CASE blk' = blk
    BY <1>1, <2>2
  <2>3. CASE blk' # blk
    <3>1. PICK c : c = job.node.single
      OBVIOUS
    <3>2. /\ \A d \in DataBlocks \ {c} : blk'[d] = blk[d]
          /\ c \in DataBlocks => blk'[c] = ZeroBlock
      BY <2>1, <2>3, <3>1, StateTypes
    <3>3. ASSUME NEW b \in DataBlocks, NEW s \in Cells, blk[b][s].t \in Names PROVE b # c
      <4>1. b # 0
        BY BlocksAssumption
      <4> QED BY <2>1, <3>1, <3>3, <4>1, NamesAreHeld DEF Spare
    <3>4. NamesStay
      BY <3>2, <3>3 DEF NamesStay
    <3>5. NamesMade
      BY <1>4, <3>2 DEF NamesMade, ZeroBlock
    <3> QED BY <3>4, <3>5
  <2> QED BY <2>2, <2>3
<1>8. CASE FwPtr
  <2>1. /\ pc = "fw_ptr" /\ job.node.single # 0 /\ job.node.single \in DataBlocks
        /\ PI \in Cells /\ blk[job.node.single][PI].w = 0
        /\ blk' = [blk EXCEPT ![job.node.single][PI] = Pointer(job.ptr)]
    BY <1>8, FieldTypes DEF FwPtr, OwnInv, JobInv, PtrPlaceOK, Sound, Ptr
  <2>2. PICK p \in DataBlocks, q \in Cells : p = job.node.single /\ q = PI
    BY <2>1
  <2>3. /\ \A d \in DataBlocks \ {p} : blk'[d] = blk[d]
        /\ \A e \in Cells \ {q} : blk'[p][e] = blk[p][e]
        /\ blk'[p][q] = Pointer(job.ptr)
    BY <2>1, <2>2, StateTypes
  <2>4. \A d \in DataBlocks, s \in Cells : (d = p /\ s = q) \/ blk'[d][s] = blk[d][s]
    BY <2>3
  <2>5. NamesStay
    BY <1>3, <2>1, <2>2, <2>4 DEF NamesStay
  <2>6. NamesMade
    BY <1>4, <2>3, <2>4 DEF NamesMade
  <2> QED BY <2>5, <2>6
<1>9. CASE FwData
  <2> DEFINE o == Pos % Slots
             n == Min({Slots - o, job.len - job.k})
  <2>1. /\ pc = "fw" /\ Phys \in DataBlocks /\ Phys \in Owned(job.idx)
        /\ blk' = [blk EXCEPT ![Phys] = Overlay(@, o, n)]
    BY <1>9, TextBlock DEF FwData, Writing
  <2>2. /\ itab[job.idx].type = 1 /\ Held(job.idx) /\ job.idx \in Inodes /\ job.text \in Texts
    BY <2>1, WritingFacts DEF Sound, FrameOK
  <2>3. o \in Nat
    BY PlaceInFile, Division, BaseTypes
  <2> HIDE DEF o, n
  <2>4. PICK c \in DataBlocks : c = Phys
    BY <2>1
  <2>5. /\ \A d \in DataBlocks \ {c} : blk'[d] = blk[d]
        /\ blk'[c] = Overlay(blk[c], o, n)
    BY <2>1, <2>4, StateTypes
  <2>6. ASSUME NEW s \in Cells PROVE blk'[c][s] = blk[c][s] \/ blk'[c][s].t \notin Names
    <3>1. CASE o <= s /\ s < o + n
      <4>1. blk'[c][s].t = <<job.text, job.k + s - o>>
        BY <2>5, <3>1 DEF Overlay
      <4>2. job.k + s - o \in Nat
        BY <2>3, <3>1, FieldTypes, BaseTypes DEF Sound
      <4> QED BY <2>2, <4>1, <4>2, NamesAssumption
    <3>2. CASE ~(o <= s /\ s < o + n)
      BY <2>5, <3>2 DEF Overlay
    <3> QED BY <3>1, <3>2
  <2>7. ASSUME NEW b \in DataBlocks, NEW s \in Cells, blk[b][s].t \in Names PROVE b # c
    <3>1. PICK h \in Inodes : /\ itab[h].type = 2
                              /\ \A i \in Inodes : Held(i) /\ i # h => b \notin Owned(i)
      BY <2>7, NamesAreHeld
    <3> QED BY <2>1, <2>2, <2>4, <3>1
  <2>8. NamesStay
    BY <2>5, <2>7 DEF NamesStay
  <2>9. NamesMade
    BY <2>5, <2>6 DEF NamesMade
  <2> QED BY <2>8, <2>9
<1>10. CASE DlEntry
  <2>1. pc = "dl_entry" /\ RemoveHits(job.dir, job.name) # {}
          => blk' = [blk EXCEPT ![job.dir.direct[First(RemoveHits(job.dir, job.name))[1]]]
                               [First(RemoveHits(job.dir, job.name))[2]] = Zero]
    BY <1>10 DEF DlEntry
  <2>2. /\ pc = "dl_entry" /\ job.dir = itab[0] /\ job.name \in Names /\ job.idx \in Inodes
        /\ dir_lookup(itab[0], job.name) = job.idx
    BY <1>10, DeletingFacts DEF DlEntry
  <2>3. PICK n \in Names, x \in Inodes : n = job.name /\ x = job.idx
    BY <2>2
  <2>4. PICK g : g = First(RemoveHits(itab[0], n))
    OBVIOUS
  <2>5. /\ RemoveHits(itab[0], n) # {} /\ g \in Direct \X Cells
        /\ itab[0].direct[g[1]] \in Pointers(0)
        /\ blk[itab[0].direct[g[1]]][g[2]].w = x
    <3>1. 0 \in Inodes /\ dir_lookup(itab[0], n) = x
      BY <2>2, <2>3, BaseTypes
    <3>2. /\ RemoveHits(itab[0], n) # {}
          /\ LET h == First(RemoveHits(itab[0], n)) IN
               /\ h \in Direct \X Cells /\ itab[0].direct[h[1]] \in Pointers(0)
               /\ blk[itab[0].direct[h[1]]][h[2]].w = x
      BY ONLY Sound, OwnInv, <3>1, n \in Names, x \in Inodes, RemovesWhatWasFound
    <3> QED BY <2>4, <3>2
  <2>6. PICK p, q : p = itab[0].direct[g[1]] /\ q = g[2]
    OBVIOUS
  <2>7. p \in DataBlocks /\ q \in Cells /\ blk[p][q].w = x
    <3>1. g[1] \in Direct /\ g[2] \in Cells /\ p # 0
      BY <2>5, <2>6, OwnedIsNotZero
    <3> QED BY <2>5, <2>6, <3>1, StateTypes, BaseTypes DEF Ptr
  <2>8. blk' = [blk EXCEPT ![p][q] = Zero]
    BY <2>1, <2>2, <2>3, <2>4, <2>5, <2>6
  <2>9. /\ \A d \in DataBlocks \ {p} : blk'[d] = blk[d]
        /\ \A e \in Cells \ {q} : blk'[p][e] = blk[p][e]
        /\ blk'[p][q] = Zero
    BY <2>7, <2>8, StateTypes
  <2>10. \A d \in DataBlocks, s \in Cells : (d = p /\ s = q) \/ blk'[d][s] = blk[d][s]
    BY <2>9
  <2>11. NamesStay
    BY <2>2, <2>3, <2>7, <2>10 DEF NamesStay
  <2>12. NamesMade
    BY <1>4, <2>9, <2>10 DEF NamesMade
  <2> QED BY <2>11, <2>12
<1>11. CASE RZero
  <2>1. pc = "r_zero" /\ blk' = [blk EXCEPT ![job.node.direct[0]] = ZeroBlock]
    BY <1>11 DEF RZero
  <2>2. \A b \in DataBlocks, s \in Cells : blk'[b][s] = blk[b][s] \/ blk'[b][s] = Zero
    BY <2>1, StateTypes DEF ZeroBlock
  <2>3. NamesStay
    BY <2>1 DEF NamesStay, HomesInv
  <2>4. NamesMade
    BY <1>4, <2>2 DEF NamesMade
  <2> QED BY <2>3, <2>4
<1> QED BY <1>1, <1>5, <1>6, <1>7, <1>8, <1>9, <1>10, <1>11

\* A directory that is reached stays one, and keeps its blocks.
LEMMA DirsStep ==
  ASSUME Sound, Sound', BitmapInv, OwnInv, CarefulNext
  PROVE  DirsStay
<1> SUFFICES ASSUME NEW h \in Inodes, Reached(h), itab[h].type = 2
             PROVE  itab'[h].type = 2 /\ Pointers(h) \subseteq Pointers(h)'
  BY DEF DirsStay
<1>1. CASE itab'[h] = itab[h]
  BY <1>1 DEF Pointers
<1>2. CASE NewInodeStep
  <2>1. pc = "new_inode" /\ itab' = [itab EXCEPT ![job.idx] = job.node]
    BY <1>2 DEF NewInodeStep
  <2>2. h # job.idx
    BY <2>1 DEF OwnInv, JobInv, MakingOK, Reached
  <2> QED BY <1>1, <2>1, <2>2, StateTypes
<1>3. CASE DirGrow
  <2>1. pc = "dir_grow" /\ itab' = [itab EXCEPT ![DirInodeId] = job.dir]
    BY <1>3 DEF DirGrow
  <2>2. PICK a \in Direct : /\ itab[job.home].direct[a] = 0 /\ DirInodeId = job.home
                            /\ job.dir = [itab[job.home] EXCEPT !.direct[a] = job.ptr]
    BY <2>1 DEF OwnInv, JobInv, GrowOK
  <2>3. CASE h = job.home
    <3>1. itab'[h] = [itab[h] EXCEPT !.direct[a] = job.ptr] /\ itab[h].direct[a] = 0
      BY <2>1, <2>2, <2>3, StateTypes
    <3>2. /\ itab'[h].type = 2
          /\ \A d \in Direct : d # a => itab'[h].direct[d] = itab[h].direct[d]
      BY <3>1, StateTypes DEF Inode
    <3> QED BY <3>1, <3>2 DEF Pointers
  <2>4. CASE h # job.home
    BY <1>1, <2>1, <2>2, <2>4, StateTypes
  <2> QED BY <2>3, <2>4
<1>4. CASE FwInode \/ FwSize
  <2>1. /\ pc \in {"fw", "fw_inode"}
        /\ itab' = itab \/ \E d : itab' = [itab EXCEPT ![job.idx] = d]
    BY <1>4 DEF FwInode, FwSize
  <2>2. h # job.idx
    BY <2>1, WritingFacts
  <2> QED BY <1>1, <2>1, <2>2, StateTypes
<1>5. CASE QItab \/ RInode
  <2>1. itab[h] = NoInode
    BY <1>5 DEF QItab, RInode, OwnInv, RootInv, EarlyPlaces, Blank
  <2> QED BY <2>1 DEF NoInode
<1> QED BY <1>1, <1>2, <1>3, <1>4, <1>5, DiskSteps

\* What the disk was found to hold is found still: the directories, and the
\* names in them.
LEMMA ReachedStays ==
  ASSUME Sound, BitmapInv, OwnInv, NamesStay, DirsStay,
         NEW h \in Inodes, Reached(h), itab[h].type = 2
  PROVE  Reached(h)' /\ itab'[h].type = 2 /\ Pointers(h) \subseteq Pointers(h)'
<1>1. itab'[h].type = 2 /\ Pointers(h) \subseteq Pointers(h)'
  BY DEF DirsStay
<1>2. CASE h = 0
  BY <1>1, <1>2 DEF Reached, Rooted
<1>3. CASE h # 0
  <2>1. PICK e \in Ents(h) : TRUE
    BY <1>3 DEF Reached
  <2>2. /\ e \in DataBlocks \X Cells /\ e[1] \in DataBlocks /\ e[2] \in Cells
        /\ blk[e[1]][e[2]].w = h /\ blk[e[1]][e[2]].t \in Names
    BY <2>1 DEF Ents
  <2>3. ~(pc = "dl_entry" /\ h = job.idx)
    BY DeletingFacts
  <2>4. blk'[e[1]][e[2]] = blk[e[1]][e[2]]
    BY <2>2, <2>3 DEF NamesStay
  <2>5. e \in Ents(h)'
    BY <2>2, <2>4 DEF Ents
  <2> QED BY <1>1, <1>3, <2>5 DEF Reached
<1> QED BY <1>2, <1>3

\* A name that is found is an entry of the inode it is found for.
LEMMA FoundHasEntry ==
  ASSUME Sound, NEW d \in Inodes, NEW n \in Names, dir_lookup(itab[d], n) # -1,
         pc # "dir_put"
  PROVE  /\ Ents(dir_lookup(itab[d], n)) # {}
         /\ n \in EntryNames(dir_lookup(itab[d], n))
<1>1. PICK x : x = dir_lookup(itab[d], n)
  OBVIOUS
<1>2. EntryOf(d, n, x)
  BY <1>1, FoundIsEntered
<1>3. PICK a \in Direct, s \in Cells :
        itab[d].direct[a] # 0 /\ blk[itab[d].direct[a]][s] = Entry(n, x)
  BY <1>2 DEF EntryOf
<1>4. PICK b \in DataBlocks : b = itab[d].direct[a]
  BY <1>3, StateTypes DEF Ptr
<1>5. blk[b][s].w = x /\ blk[b][s].t = n
  BY <1>3, <1>4 DEF Entry
<1>6. <<b, s>> \in Ents(x)
  BY <1>5 DEF Ents
<1>7. n \in EntryNames(x)
  <2>1. <<b, s>> \in {g \in DataBlocks \X Cells : blk[g[1]][g[2]].w = x}
    BY <1>5
  <2>2. blk[<<b, s>>[1]][<<b, s>>[2]].t = n
    BY <1>5
  <2> QED BY <2>1, <2>2 DEF EntryNames
<1> QED BY <1>1, <1>6, <1>7

\* The current directory is the root or is entered somewhere.
LEMMA CwdStep ==
  ASSUME Sound, BitmapInv, OwnInv, HomesInv, NamesStay, DirsStay, CarefulNext
  PROVE  cwd' = 0 \/ Ents(cwd)' # {}
<1>1. CASE cwd' = cwd
  <2>1. CASE cwd = 0
    BY <1>1, <2>1
  <2>2. CASE cwd # 0
    <3>1. cwd \in Inodes /\ itab[cwd].type = 2 /\ Reached(cwd)
      BY <2>2, StateTypes DEF OwnInv, RootInv, HomesInv, Reached
    <3>2. PICK h \in Inodes : h = cwd /\ h # 0
      BY <2>2, <3>1
    <3>3. Reached(h)'
      BY <3>1, <3>2, ReachedStays
    <3> QED BY <1>1, <3>2, <3>3 DEF Reached
  <2> QED BY <2>1, <2>2
<1>2. ASSUME NEW n \in Names, fs_cd(n) # -1, cwd' = fs_cd(n), blk' = blk, pc # "dir_put"
      PROVE  Ents(cwd)' # {}
  <2>1. fs_cd(n) = dir_lookup(itab[cwd], n) /\ dir_lookup(itab[cwd], n) # -1
    BY <1>2 DEF fs_cd
  <2>2. Ents(fs_cd(n)) # {}
    BY <1>2, <2>1, StateTypes, FoundHasEntry
  <2>3. Ents(cwd)' = Ents(fs_cd(n))
    BY <1>2 DEF Ents
  <2> QED BY <2>2, <2>3
<1>3. ASSUME NEW n \in Names, Cd(n) PROVE Ents(cwd)' # {}
  BY <1>2, <1>3 DEF Cd, Prompt, disk
<1>4. CASE DefDone
  <2>1. /\ pc = "defdirs" /\ blk' = blk
        /\ cwd' = cwd \/ (fs_cd(DefDirs[1]) # -1 /\ cwd' = fs_cd(DefDirs[1]))
    BY <1>4 DEF DefDone, disk
  <2>2. DefDirs[1] \in Names
    BY NamesAssumption
  <2> QED BY <1>1, <1>2, <2>1, <2>2
<1> QED BY <1>1, <1>3, <1>4, DiskSteps

\* No step leaves a name behind in a block that no directory has.
LEMMA HomesStep ==
  ASSUME Sound, Sound', BitmapInv, OwnInv, HomesInv, [CarefulNext]_vars
  PROVE  HomesInv'
<1>1. CASE UNCHANGED vars
  <2>1. UNCHANGED <<itab, blk, pc, job, cwd>>
    BY <1>1 DEF vars, disk, mem
  <2>2. \A h : Reached(h)' <=> Reached(h)
    BY <2>1 DEF Reached, Ents, Rooted
  <2> QED BY <2>1, <2>2 DEF HomesInv, Pointers, Ents
<1>2. CASE CarefulNext
  <2>1. NamesStay /\ NamesMade /\ DirsStay
    BY <1>2, DiskSteps, BlocksNames, DirsStep
  <2>2. ASSUME NEW b \in DataBlocks, NEW s \in Cells, blk'[b][s].t \in Names,
               blk'[b][s] = blk[b][s]
        PROVE  /\ blk'[b][s].w # 0
               /\ \E h \in Inodes : Reached(h)' /\ itab'[h].type = 2 /\ b \in Pointers(h)'
               /\ pc' = "dir_put" => b # job'.ptr
               /\ pc' # "r_zero"
    <3>1. blk[b][s].t \in Names /\ blk[b][s].w # 0
      BY <2>2 DEF HomesInv
    <3>2. PICK h \in Inodes : Reached(h) /\ itab[h].type = 2 /\ b \in Pointers(h)
      BY <3>1 DEF HomesInv
    <3>3. Reached(h)' /\ itab'[h].type = 2 /\ b \in Pointers(h)'
      BY <2>1, <3>2, ReachedStays
    <3>4. ASSUME pc' = "dir_put" PROVE b # job'.ptr
      <4>1. DirGrow
        BY <1>2, <3>4, DiskSteps
      <4>2. pc = "dir_grow" /\ job' = job
        BY <4>1 DEF DirGrow, Goto
      <4>3. Spare(job.ptr)
        BY <4>2 DEF OwnInv, JobInv, GrowOK
      <4>4. Held(h) /\ b \in Owned(h)
        BY <3>2, ReachedIsHeld DEF Owned
      <4> QED BY <4>2, <4>3, <4>4 DEF Spare
    <3>5. ASSUME pc' = "r_zero" PROVE FALSE
      <4>1. pc = "r_inode"
        BY <1>2, <3>5, DiskSteps DEF RInode
      <4>2. blk[b][s] = Zero
        BY <4>1 DEF OwnInv, RootInv, EarlyPlaces, Blank, ZeroBlock
      <4> QED BY <3>1, <4>2, NamesAssumption DEF Zero
    <3> QED BY <2>2, <3>1, <3>3, <3>4, <3>5
  <2>3. ASSUME NEW b \in DataBlocks, NEW s \in Cells, blk'[b][s].t \in Names,
               pc \in {"dir_add", "dir_put"}, pc' \notin {"dir_put", "r_zero"},
               blk'[b][s].w = job.idx, b \in Pointers(job.home)
        PROVE  /\ blk'[b][s].w # 0
               /\ \E h \in Inodes : Reached(h)' /\ itab'[h].type = 2 /\ b \in Pointers(h)'
    <3>1. job.idx # 0 /\ job.home \in {0, cwd} /\ Rooted
      BY <2>3 DEF OwnInv, JobInv, AddingOK, RootInv, EarlyPlaces
    <3>2. PICK h \in Inodes : h = job.home
      BY FieldTypes DEF Sound
    <3>3. Reached(h) /\ itab[h].type = 2
      BY <3>1, <3>2, DirsAreHeld DEF HomesInv, Reached
    <3>4. Reached(h)' /\ itab'[h].type = 2 /\ b \in Pointers(h)'
      BY <2>1, <2>3, <3>2, <3>3, ReachedStays
    <3> QED BY <2>3, <3>1, <3>4
  <2>4. cwd' = 0 \/ Ents(cwd)' # {}
    BY <1>2, <2>1, CwdStep
  <2>5. ASSUME NEW b \in DataBlocks, NEW s \in Cells, blk'[b][s].t \in Names
        PROVE  /\ blk'[b][s].w # 0
               /\ \E h \in Inodes : Reached(h)' /\ itab'[h].type = 2 /\ b \in Pointers(h)'
               /\ pc' = "dir_put" => b # job'.ptr
               /\ pc' # "r_zero"
    <3>1. CASE blk'[b][s] = blk[b][s]
      BY <2>2, <2>5, <3>1
    <3>2. CASE ~(blk'[b][s] = blk[b][s])
      <4>1. /\ pc \in {"dir_add", "dir_put"} /\ pc' \notin {"dir_put", "r_zero"}
            /\ blk'[b][s].w = job.idx /\ b \in Pointers(job.home)
        BY <2>1, <2>5, <3>2 DEF NamesMade
      <4> QED BY <2>3, <2>5, <4>1
    <3> QED BY <3>1, <3>2
  <2> QED BY <2>4, <2>5 DEF HomesInv
<1> QED BY <1>1, <1>2

-----------------------------------------------------------------------------
(* Sizes                                                                   *)

\* What may happen to a file in use: it is made, left alone, or written.
LEMMA FileStep ==
  ASSUME Sound, BitmapInv, OwnInv, ContentInv, Stays, [CarefulNext]_vars,
         NEW i \in Inodes, Held(i)', itab'[i].type = 1
  PROVE  \/ NewInodeStep /\ i = job.idx
         \/ /\ Held(i) /\ itab[i].type = 1
            /\ \/ itab'[i] = itab[i] /\ PlacesStay(i)
               \/ /\ pc \in WritePlaces /\ i = job.idx
                  /\ \/ WriteSteps /\ PlacesStay(i)
                     \/ FwData
<1>1. CASE pc = "new_inode" /\ i = job.idx
  <2>1. /\ i \notin {0, cwd} /\ Ents(i) = {} /\ ~Kept(i)
    BY <1>1 DEF OwnInv, JobInv, MakingOK
  <2>2. CASE PowerCut
    <3>1. UNCHANGED <<blk, saved>> /\ pc' = "boot" /\ cwd' = 0
      BY <2>2 DEF PowerCut, disk, Goto
    <3> QED BY <2>1, <3>1 DEF Held, Ents, Kept, HoldPlaces
  <2>3. CASE UNCHANGED vars
    <3>1. UNCHANGED <<blk, saved, itab, pc, job, cwd>>
      BY <2>3 DEF vars, disk, mem, ghost
    <3> QED BY <1>1, <2>1, <3>1 DEF Held, Ents, Kept, HoldPlaces
  <2> QED BY <1>1, <2>2, <2>3, StepsAt
<1>2. CASE pc = "r_inode"
  <2>1. itab = [j \in Inodes |-> NoInode]
    BY <1>2 DEF OwnInv, RootInv, EarlyPlaces, Blank
  <2>2. PICK b \in DataBlocks : job.node = FreshInode(2, b)
    BY <1>2 DEF OwnInv, JobInv, RootJobOK
  <2>3. CASE RInode
    <3>1. itab'[i] = NoInode \/ itab'[i] = FreshInode(2, b)
      BY <2>1, <2>2, <2>3 DEF RInode
    <3>2. NoInode.type = 0 /\ FreshInode(2, b).type = 2
      BY DEF NoInode, FreshInode
    <3> QED BY <3>1, <3>2
  <2>4. CASE PowerCut \/ UNCHANGED vars
    <3>1. itab' = itab
      BY <2>4 DEF PowerCut, disk, vars
    <3> QED BY <2>1, <3>1 DEF NoInode
  <2> QED BY <1>2, <2>3, <2>4, StepsAt
<1>3. CASE /\ Held(i) /\ itab[i].type = 1
           /\ \/ pc \in WritePlaces /\ i = job.idx
              \/ itab'[i] = itab[i] /\ \A b \in Owned(i) : blk'[b] = blk[b]
  <2>1. Distinct(i)
    BY <1>3 DEF ContentInv, DistinctInv
  <2>2. CASE itab'[i] = itab[i] /\ \A b \in Owned(i) : blk'[b] = blk[b]
    BY <1>3, <2>2, FileKept
  <2>3. CASE pc \in WritePlaces /\ i = job.idx
    <3>1. CASE WriteSteps
      <4>1. PlacesStay(i)
        BY <2>1, <2>3, <3>1, WriteKeepsText DEF WriteSteps
      <4> QED BY <1>3, <2>3, <3>1, <4>1
    <3>2. CASE FwData
      BY <1>3, <2>3, <3>2
    <3>3. CASE PowerCut \/ UNCHANGED vars
      <4>1. UNCHANGED <<itab, blk>>
        BY <3>3 DEF PowerCut, disk, vars
      <4> QED BY <1>3, <4>1, FileKept
    <3> QED BY <2>3, <3>1, <3>2, <3>3, StepsAt
  <2> QED BY <1>3, <2>2, <2>3
<1> QED BY <1>1, <1>2, <1>3 DEF Stays, FilesStay

\* fs_write leaves the size alone until the text is written.
LEMMA WriteKeepsSize ==
  ASSUME Sound, BitmapInv, OwnInv, pc \in WritePlaces, WriteSteps, ~FwSize
  PROVE  itab'[job.idx].size = itab[job.idx].size /\ itab'[job.idx].type = 1
<1>1. job.idx \in Inodes /\ itab[job.idx].type = 1 /\ itab[job.idx] \in Inode
  BY WritingFacts, StateTypes DEF WritePlaces
<1>2. CASE FwInode
  <2>1. pc = "fw_inode" /\ itab'[job.idx] = job.node
    BY <1>1, <1>2, StateTypes DEF FwInode
  <2>2. job.node.size = itab[job.idx].size /\ job.node.type = itab[job.idx].type
    <3>1. PICK b \in Ptr :
            \/ \E d \in Direct : job.node = [itab[job.idx] EXCEPT !.direct[d] = b]
            \/ job.node = [itab[job.idx] EXCEPT !.single = b]
      BY <2>1 DEF OwnInv, JobInv, InodeOK
    <3> QED BY <1>1, <3>1 DEF Inode
  <2> QED BY <1>1, <2>1, <2>2
<1>3. CASE FwZero \/ FwPtr
  BY <1>1, <1>3 DEF FwZero, FwPtr
<1>4. CASE FwAllocDirect \/ FwAllocSingle \/ FwAllocPtr \/ FwWild
  BY <1>1, <1>4 DEF FwAllocDirect, FwAllocSingle, FwAllocPtr, FwWild, disk
<1> QED BY <1>2, <1>3, <1>4 DEF WriteSteps

\* The size that ends a write is the length of what was written.
LEMMA WrittenSize ==
  ASSUME Sound, BitmapInv, OwnInv, ContentInv, CommandInv, FwSize
  PROVE  /\ pc = "fw" /\ job.idx \in Inodes /\ itab[job.idx] \in Inode
         /\ job.node = itab[job.idx] /\ Pos = job.k /\ job.k = job.len
         /\ job.len \in Lens \cup {NotesLen} /\ job.len \in Nat \ {0}
         /\ IF job.len > itab[job.idx].size
              THEN itab' = [itab EXCEPT ![job.idx] = [itab[job.idx] EXCEPT !.size = job.len]]
              ELSE itab' = itab
<1>1. pc = "fw" /\ job.k = job.len
  BY DEF FwSize
<1>2. /\ job.node = itab[job.idx] /\ job.idx \in Inodes /\ job.op \in FileOps
      /\ itab[job.idx] \in Inode
  BY <1>1, WritingFacts, StateTypes DEF OwnInv, JobInv, NodeOK
<1>3. job.len \in Lens \cup {NotesLen} /\ job.len \in Nat \ {0}
  BY <1>2, SizeAssumption DEF CommandInv
<1>4. Pos = job.k
  BY <1>1, <1>3 DEF ContentInv, WrittenInv, Pos
<1> QED BY <1>1, <1>2, <1>3, <1>4 DEF FwSize

\* Sizes are those of texts.
LEMMA SizeValues ==
  ASSUME Sound, Sound', BitmapInv, OwnInv, ContentInv, SizesInv, CommandInv, [CarefulNext]_vars,
         NEW i \in Inodes
  PROVE  itab'[i].size \in Lens \cup {0, NotesLen}
<1>1. itab[i].size \in Lens \cup {0, NotesLen}
  BY DEF SizesInv
<1>2. NoInode.size = 0 /\ \A ty, b : FreshInode(ty, b).size = 0
  BY DEF NoInode, FreshInode
<1>3. CASE itab' = itab
  BY <1>1, <1>3
<1>4. CASE NewInodeStep
  <2>1. /\ itab' = [itab EXCEPT ![job.idx] = job.node]
        /\ \E b \in DataBlocks : job.node = FreshInode(Kind, b)
    BY <1>4 DEF NewInodeStep, OwnInv, JobInv, FreshOK
  <2>2. itab'[i] = itab[i] \/ itab'[i] = job.node
    BY <2>1, StateTypes
  <2> QED BY <1>1, <1>2, <2>1, <2>2
<1>5. CASE DirGrow
  <2>1. pc = "dir_grow" /\ itab' = [itab EXCEPT ![DirInodeId] = job.dir]
    BY <1>5 DEF DirGrow
  <2>2. PICK a \in Direct, h \in Inodes :
          h = DirInodeId /\ job.dir = [itab[h] EXCEPT !.direct[a] = job.ptr]
    BY <2>1, FieldTypes DEF Sound, OwnInv, JobInv, GrowOK
  <2>3. itab[h] \in Inode
    BY StateTypes
  <2>4. job.dir.size = itab[h].size
    BY <2>2, <2>3 DEF Inode
  <2>5. itab'[i] = itab[i] \/ (i = h /\ itab'[i] = job.dir)
    BY <2>1, <2>2, StateTypes
  <2> QED BY <1>1, <2>4, <2>5
<1>6. CASE FwInode
  <2>1. pc = "fw_inode" /\ pc \in WritePlaces /\ itab' = [itab EXCEPT ![job.idx] = job.node]
    BY <1>6 DEF FwInode, WritePlaces
  <2>2. ~FwSize
    BY <2>1 DEF FwSize
  <2>3. itab'[job.idx].size = itab[job.idx].size
    BY <1>6, <2>1, <2>2, WriteKeepsSize DEF WriteSteps
  <2>4. itab'[i] = itab[i] \/ i = job.idx
    BY <2>1, StateTypes
  <2> QED BY <1>1, <2>3, <2>4
<1>7. CASE FwSize
  <2>1. /\ job.len \in Lens \cup {NotesLen} /\ job.idx \in Inodes /\ itab[job.idx] \in Inode
        /\ \/ itab' = itab
           \/ itab' = [itab EXCEPT ![job.idx] = [itab[job.idx] EXCEPT !.size = job.len]]
    BY <1>7, WrittenSize
  <2>2. itab'[i] = itab[i] \/ itab'[i] = [itab[job.idx] EXCEPT !.size = job.len]
    BY <2>1, StateTypes
  <2>3. [itab[job.idx] EXCEPT !.size = job.len].size = job.len
    BY <2>1 DEF Inode
  <2> QED BY <1>1, <2>1, <2>2, <2>3
<1>8. CASE QItab
  <2>1. itab'[i] = itab[i] \/ itab'[i] = NoInode
    BY <1>8 DEF QItab
  <2> QED BY <1>1, <1>2, <2>1
<1>9. CASE RInode
  <2>1. /\ itab' = [itab EXCEPT ![0] = job.node]
        /\ \E b \in DataBlocks : job.node = FreshInode(2, b)
    BY <1>9 DEF RInode, OwnInv, JobInv, RootJobOK
  <2>2. itab'[i] = itab[i] \/ itab'[i] = job.node
    BY <2>1, StateTypes
  <2> QED BY <1>1, <1>2, <2>1, <2>2
<1>10. CASE UNCHANGED vars
  BY <1>3, <1>10 DEF vars, disk
<1> QED BY <1>3, <1>4, <1>5, <1>6, <1>7, <1>8, <1>9, <1>10, DiskSteps

\* A file is mapped as far as its size: the size is written when the text is.
LEMMA SizesStep ==
  ASSUME Sound, Sound', BitmapInv, OwnInv, ContentInv, SizesInv, CommandInv, Stays,
         [CarefulNext]_vars
  PROVE  SizesInv'
<1> SUFFICES ASSUME NEW i \in Inodes, Held(i)', itab'[i].type = 1
             PROVE  \A x \in 0 .. itab'[i].size - 1 :
                      x \div Slots \in FilePlaces /\ BlockAt(i, x \div Slots)' # 0
  BY SizeValues DEF SizesInv
<1>1. CASE NewInodeStep /\ i = job.idx
  <2>1. /\ pc = "new_inode" /\ itab'[i] = job.node
    BY <1>1, StateTypes DEF NewInodeStep
  <2>2. itab'[i].size = 0
    BY <2>1 DEF OwnInv, JobInv, FreshOK, FreshInode, NoInode
  <2> QED BY <2>2
<1>2. ASSUME Held(i), itab[i].type = 1, PlacesStay(i), itab'[i].size = itab[i].size
      PROVE  \A x \in 0 .. itab'[i].size - 1 :
               x \div Slots \in FilePlaces /\ BlockAt(i, x \div Slots)' # 0
  BY <1>2 DEF SizesInv, PlacesStay
<1>3. CASE Held(i) /\ itab[i].type = 1 /\ pc \in WritePlaces /\ i = job.idx
  <2>1. Distinct(i)
    BY <1>3 DEF ContentInv, DistinctInv
  <2>2. CASE FwData
    <3>1. \A l : BlockAt(i, l)' = BlockAt(i, l)
      BY <1>3, <2>1, <2>2, WriteAddsText DEF ContentInv
    <3>2. itab' = itab
      BY <2>2 DEF FwData
    <3> QED BY <1>3, <3>1, <3>2 DEF SizesInv
  <2>3. CASE WriteSteps /\ PlacesStay(i) /\ ~FwSize
    <3>1. itab'[i].size = itab[i].size
      BY <1>3, <2>3, WriteKeepsSize
    <3> QED BY <1>2, <1>3, <2>3, <3>1
  <2>4. CASE FwSize /\ PlacesStay(i)
    <3>1. /\ itab[i] \in Inode /\ job.k = job.len
          /\ \/ itab' = itab
             \/ itab' = [itab EXCEPT ![i] = [itab[i] EXCEPT !.size = job.len]]
      BY <1>3, <2>4, WrittenSize
    <3>2. CASE itab' = itab
      BY <1>2, <1>3, <2>4, <3>2
    <3>3. CASE itab' = [itab EXCEPT ![i] = [itab[i] EXCEPT !.size = job.len]]
      <4>1. itab'[i].size = job.k
        BY <3>1, <3>3, StateTypes DEF Inode
      <4>2. \A x \in 0 .. job.k - 1 : TextAt(i, x, job.text)
        BY <1>3 DEF ContentInv, WrittenInv
      <4> QED BY <4>1, <4>2, <2>4 DEF TextAt, PlacesStay
    <3> QED BY <3>1, <3>2, <3>3
  <2>5. (WriteSteps /\ PlacesStay(i)) \/ FwData \/ (itab'[i] = itab[i] /\ PlacesStay(i))
    <3>1. ~NewInodeStep
      BY <1>3 DEF NewInodeStep, WritePlaces
    <3> QED BY <3>1, FileStep
  <2> QED BY <1>2, <1>3, <2>2, <2>3, <2>4, <2>5
<1> QED BY <1>1, <1>2, <1>3, FileStep

-----------------------------------------------------------------------------
(* What a command knows                                                    *)

\* How the places of dir_add and of fs_write are come to.
LEMMA PlaceFrame ==
  ASSUME Sound, BitmapInv, OwnInv, SavedInv, CarefulNext
  PROVE  /\ pc' \in {"dir_add", "dir_grow", "dir_put"} =>
              /\ job'.idx = job.idx
              /\ \/ NewInodeStep
                 \/ pc \in {"dir_add", "dir_grow", "dir_put"} /\ (itab' = itab \/ DirGrow)
         /\ pc' \in WritePlaces =>
              \/ \E c \in Texts : NoteAgain(c)
              \/ DirAdd \/ DirPut
              \/ /\ pc \in WritePlaces /\ (WriteSteps \/ FwData) /\ ~FwSize
                 /\ job'.idx = job.idx /\ job'.seen = job.seen
<1>1. job \in Job
  BY DEF Sound, TypeOK
<1>2. CASE Elsewhere
  BY <1>2, ElsewhereFrame DEF HoldPlaces, WritePlaces
<1>3. CASE Begins
  BY <1>3, BeginsFrame DEF HoldPlaces, WritePlaces
<1>4. CASE FwSize
  BY <1>4 DEF FwSize, Finish, Goto, WritePlaces
<1>5. CASE NewInodeStep \/ DirGrow
  BY <1>1, <1>5 DEF NewInodeStep, DirGrow, Goto, Job, WritePlaces
<1>6. CASE DirPut
  BY <1>6, AfterAddPlace DEF DirPut
<1>7. CASE DirAdd
  <2>1. pc = "dir_add" /\ itab' = itab
    BY <1>7 DEF DirAdd
  <2>2. ASSUME NEW ok, AfterAdd(ok) PROVE pc' \in {"fw", "defdirs", "idle"}
    BY <2>2, AfterAddPlace
  <2>3. ASSUME NEW a, NEW b, Goto("dir_grow", [job EXCEPT !.dir.direct[a] = b, !.ptr = b])
        PROVE  pc' = "dir_grow" /\ job'.idx = job.idx
    BY <1>1, <2>3 DEF Goto, Job
  <2> QED BY <1>7, <2>1, <2>2, <2>3 DEF DirAdd, WritePlaces
<1>8. CASE \/ FwAllocDirect \/ FwAllocSingle \/ FwZero \/ FwInode \/ FwAllocPtr
           \/ FwPtr \/ FwData
  <2>1. pc' \notin {"dir_add", "dir_grow", "dir_put"} /\ ~FwSize
    BY <1>8
    DEF FwAllocDirect, FwAllocSingle, FwZero, FwInode, FwAllocPtr, FwPtr, FwData, Writing,
        Goto, Finish, FwSize
  <2>2. pc' \in WritePlaces =>
          pc \in WritePlaces /\ job'.idx = job.idx /\ job'.seen = job.seen
    BY <1>8, WriteFrame
  <2> QED BY <1>8, <2>1, <2>2 DEF WriteSteps
<1> QED BY <1>2, <1>3, <1>4, <1>5, <1>6, <1>7, <1>8, CarefulSteps DEF Makes

\* What fs_write is given by dir_add: a file without a size, entered if dir_add
\* said so.
LEMMA CommandAfterAdd ==
  ASSUME Sound, OwnInv, CommandInv, DirAdd \/ DirPut, pc' \in WritePlaces
  PROVE  /\ itab'[job'.idx].size = 0
         /\ ~job'.seen => Ents(job.idx)' = {}
<1>1. job \in Job /\ itab' = itab /\ pc \in {"dir_add", "dir_put"}
  BY DEF Sound, TypeOK, DirAdd, DirPut
<1>2. itab[job.idx].size = 0 /\ Ents(job.idx) = {}
  BY <1>1 DEF CommandInv, OwnInv, JobInv, AddingOK
<1>3. ASSUME NEW ok, AfterAdd(ok) PROVE job'.idx = job.idx /\ job'.seen = ok
  <2>1. job' = [job EXCEPT !.k = 0, !.node = itab[job.idx], !.seen = ok,
                           !.off = IF job.op = "wr" THEN itab[job.idx].size ELSE 0]
    BY <1>3 DEF AfterAdd, Goto, Finish, WritePlaces
  <2> QED BY <1>1, <2>1 DEF Job
<1>4. ASSUME NEW a, NEW b, Goto("dir_grow", [job EXCEPT !.dir.direct[a] = b, !.ptr = b])
      PROVE  FALSE
  BY <1>4 DEF Goto, WritePlaces
<1>5. AfterAdd(TRUE) \/ (AfterAdd(FALSE) /\ blk' = blk)
  BY <1>4 DEF DirAdd, DirPut
<1>6. CASE AfterAdd(TRUE)
  BY <1>1, <1>2, <1>3, <1>6
<1>7. CASE AfterAdd(FALSE) /\ blk' = blk
  <2>1. job'.idx = job.idx
    BY <1>3, <1>7
  <2>2. Ents(job.idx)' = Ents(job.idx)
    BY <1>7, <2>1 DEF Ents
  <2> QED BY <1>1, <1>2, <2>1, <2>2
<1> QED BY <1>5, <1>6, <1>7

LEMMA CommandStep ==
  ASSUME Sound, Sound', BitmapInv, OwnInv, SavedInv, HomesInv, CommandInv, [CarefulNext]_vars
  PROVE  CommandInv'
<1>1. CASE UNCHANGED vars
  <2>1. UNCHANGED <<itab, blk, pc, job, dibm>>
    BY <1>1 DEF vars, disk
  <2> QED BY <2>1 DEF CommandInv, Ents
<1>2. CASE CarefulNext
  <2>1. /\ job'.op \in FileOps => pc' \in FilePcs /\ job'.len \in Lens \cup {NotesLen}
        /\ job'.op = "note" => job'.name = NotesName
    BY <1>2, CommandKept DEF CommandInv, SameCommand, CommandBegins, FileOps
  <2>2. ASSUME pc' \in {"dir_add", "dir_grow", "dir_put"} PROVE itab'[job'.idx].size = 0
    <3>1. job'.idx = job.idx
      BY <1>2, <2>2, PlaceFrame
    <3>2. PICK i \in Inodes : i = job.idx
      BY FieldTypes DEF Sound
    <3>3. CASE NewInodeStep
      <4>1. pc = "new_inode" /\ itab'[i] = job.node
        BY <3>2, <3>3, StateTypes DEF NewInodeStep
      <4>2. itab'[i].size = 0
        BY <4>1 DEF OwnInv, JobInv, FreshOK, FreshInode, NoInode
      <4> QED BY <3>1, <3>2, <4>2
    <3>4. CASE pc \in {"dir_add", "dir_grow", "dir_put"} /\ itab' = itab
      BY <3>1, <3>4 DEF CommandInv
    <3>5. CASE pc \in {"dir_add", "dir_grow", "dir_put"} /\ DirGrow
      <4>1. pc = "dir_grow" /\ itab' = [itab EXCEPT ![DirInodeId] = job.dir]
        BY <3>5 DEF DirGrow
      <4>2. DirInodeId = job.home /\ job.home # job.idx
        BY <4>1 DEF OwnInv, JobInv, GrowOK, AddingOK
      <4>3. itab'[i] = itab[i]
        BY <3>2, <4>1, <4>2, StateTypes
      <4> QED BY <3>1, <3>2, <4>1, <4>3 DEF CommandInv
    <3> QED BY <1>2, <2>2, <3>3, <3>4, <3>5, PlaceFrame
  <2>3. ASSUME pc' \in WritePlaces
        PROVE  /\ job'.op = "wr" => itab'[job'.idx].size = 0
               /\ ~job'.seen => Ents(job.idx)' = {}
    <3>1. CASE \E c \in Texts : NoteAgain(c)
      <4>1. job'.op = "note" /\ job'.seen
        BY <3>1 DEF NoteAgain, Goto, NoJob
      <4> QED BY <4>1
    <3>2. CASE DirAdd \/ DirPut
      BY <2>3, <3>2, CommandAfterAdd
    <3>3. CASE /\ pc \in WritePlaces /\ (WriteSteps \/ FwData) /\ ~FwSize
               /\ job'.idx = job.idx /\ job'.seen = job.seen
      <4>1. itab'[job.idx].size = itab[job.idx].size
        <5>1. CASE WriteSteps
          BY <3>3, <5>1, WriteKeepsSize
        <5>2. CASE FwData
          BY <5>2 DEF FwData
        <5> QED BY <3>3, <5>1, <5>2
      <4>2. job'.op = "wr" => job.op = "wr"
        BY <1>2, <3>3, CommandKept DEF SameCommand, CommandBegins, FileOps, WritePlaces
      <4>3. Ents(job.idx)' \subseteq Ents(job.idx)
        <5>1. NamesMade
          BY <1>2, DiskSteps, BlocksNames
        <5>2. PICK i : i = job.idx /\ i = job'.idx
          BY <3>3
        <5>3. ASSUME NEW h \in DataBlocks \X Cells, blk'[h[1]][h[2]].w = i,
                     blk'[h[1]][h[2]].t \in Names
              PROVE  h \in Ents(i)
          <6>1. h[1] \in DataBlocks /\ h[2] \in Cells
            BY <5>3
          <6>2. blk'[h[1]][h[2]] = blk[h[1]][h[2]]
            BY <3>3, <5>1, <5>3, <6>1 DEF NamesMade, WritePlaces
          <6> QED BY <5>3, <6>2 DEF Ents
        <5>4. Ents(i)' \subseteq Ents(i)
          BY <5>3 DEF Ents
        <5> QED BY <5>2, <5>4 DEF Ents
      <4> QED BY <3>3, <4>1, <4>2, <4>3 DEF CommandInv
    <3> QED BY <1>2, <2>3, <3>1, <3>2, <3>3, PlaceFrame
  <2>4. ASSUME pc' = "dl_entry" PROVE job'.idx \notin dibm'
    <3>1. DlInode
      BY <1>2, <2>4, DiskSteps
    <3>2. job' = job /\ dibm' = ibm \ {job.idx}
      BY <3>1 DEF DlInode, Goto, free_inode, save_inode_bitmap
    <3> QED BY <3>2
  <2> QED BY <2>1, <2>2, <2>3, <2>4 DEF CommandInv
<1> QED BY <1>1, <1>2

-----------------------------------------------------------------------------
(* The invariant                                                           *)

LEMMA StoreInit == Init => StoreInv
<1> SUFFICES ASSUME Init PROVE StoreInv
  OBVIOUS
<1>1. /\ itab = [i \in Inodes |-> NoInode] /\ blk = [b \in DataBlocks |-> ZeroBlock]
      /\ pc = "boot" /\ job = NoJob /\ cwd = 0
  BY DEF Init
<1>2. \A i \in Inodes : itab[i].type = 0 /\ itab[i].size = 0
  BY <1>1 DEF NoInode
<1>3. \A b \in DataBlocks, s \in Cells : blk[b][s].t \notin Names
  BY <1>1, NamesAssumption DEF ZeroBlock, Zero
<1>4. job.op = "none"
  BY <1>1 DEF NoJob
<1> QED BY <1>1, <1>2, <1>3, <1>4
    DEF StoreInv, HomesInv, SizesInv, CommandInv, FileOps, WritePlaces

LEMMA StoreAlways == CarefulSpec => []StoreInv
<1>1. /\ Sound /\ Sound' /\ BitmapInv /\ OwnInv /\ SavedInv /\ ContentInv
      /\ StoreInv /\ [CarefulNext]_vars
      => StoreInv'
  <2> SUFFICES ASSUME Sound, Sound', BitmapInv, OwnInv, SavedInv, ContentInv, StoreInv,
                      [CarefulNext]_vars
               PROVE  StoreInv'
    OBVIOUS
  <2>1. Stays
    BY OwnStep
  <2> QED BY <2>1, HomesStep, SizesStep, CommandStep DEF StoreInv
<1> QED BY <1>1, StoreInit, OwnAlways, ContentAlways, PTL DEF CarefulSpec

-----------------------------------------------------------------------------
(* The steps of the store                                                  *)

\* The command is one the store knows.
DoingOK == Doing \in Store!Command \cup {None}

\* A reader finds the same under every number.
ReadsStay == \A i \in Inodes : OnDisk(i)' = OnDisk(i)

\* A step of the store that touches no file.
LEMMA NoFileTouched ==
  ASSUME DoingOK, DoingOK', ReadsStay,
         Doing # None /\ Doing' # None => Doing' = Doing
  PROVE  [Store!Next]_(Store!vars)
<1>1. [i \in Inodes |-> OnDisk(i)]' = [i \in Inodes |-> OnDisk(i)]
  BY DEF ReadsStay
<1>2. CASE Doing' = Doing
  BY <1>1, <1>2 DEF Store!vars
<1>3. CASE Doing = None /\ Doing' # None
  <2>1. Store!Begin
    BY <1>1, <1>3 DEF Store!Begin, DoingOK
  <2> QED BY <2>1 DEF Store!Next
<1>4. CASE Doing # None /\ Doing' = None
  <2>1. Store!End
    BY <1>1, <1>4 DEF Store!End
  <2> QED BY <2>1 DEF Store!Next
<1> QED BY <1>2, <1>3, <1>4

\* A step of the store that touches one file.
LEMMA OneFileTouched ==
  ASSUME NEW i \in Inodes, \A j \in Inodes \ {i} : OnDisk(j)' = OnDisk(j), Doing # None,
         \/ /\ Doing.op = "write" /\ OnDisk(i) = None /\ Doing' = None
            /\ \E l \in Lens \cup {NotesLen} :
                 OnDisk(i)' = [name |-> Doing.name, text |-> Doing.text, len |-> l]
         \/ /\ Doing.op = "write" /\ OnDisk(i) # None /\ Doing' \in {Doing, None}
            /\ Doing.name = NotesName
            /\ \E u, z : OnDisk(i) = [name |-> Doing.name, text |-> u, len |-> z]
            /\ \E c \in {Doing.text, None}, l \in Lens \cup {NotesLen} : l >= OnDisk(i).len
                 /\ OnDisk(i)' = [name |-> Doing.name, text |-> c, len |-> l]
         \/ /\ Doing.op = "delete" /\ OnDisk(i) # None /\ Doing' = None
            /\ OnDisk(i).name = Doing.name /\ OnDisk(i)' = None
  PROVE  Store!Next
<1> DEFINE s == [j \in Inodes |-> OnDisk(j)]
<1>1. s[i] = OnDisk(i) /\ s'[i] = OnDisk(i)'
  OBVIOUS
<1>2. s' = [s EXCEPT ![i] = s'[i]]
  OBVIOUS
<1>3. Store!Only(i)
  BY <1>2 DEF Store!Only
<1> HIDE DEF s
<1>4. CASE /\ Doing.op = "write" /\ OnDisk(i) = None /\ Doing' = None
           /\ \E l \in Lens \cup {NotesLen} :
                OnDisk(i)' = [name |-> Doing.name, text |-> Doing.text, len |-> l]
  <2>1. Store!Put(i)
    BY <1>1, <1>3, <1>4 DEF Store!Put, s
  <2> QED BY <2>1 DEF Store!Next
<1>5. CASE /\ Doing.op = "write" /\ OnDisk(i) # None /\ Doing' \in {Doing, None}
           /\ Doing.name = NotesName
           /\ \E u, z : OnDisk(i) = [name |-> Doing.name, text |-> u, len |-> z]
           /\ \E c \in {Doing.text, None}, l \in Lens \cup {NotesLen} : l >= OnDisk(i).len
                /\ OnDisk(i)' = [name |-> Doing.name, text |-> c, len |-> l]
  <2>1. PICK n, u, z : n = Doing.name /\ OnDisk(i) = [name |-> n, text |-> u, len |-> z]
    BY <1>5
  <2>2. PICK c \in {Doing.text, None}, l \in Lens \cup {NotesLen} :
          l >= OnDisk(i).len /\ OnDisk(i)' = [name |-> n, text |-> c, len |-> l]
    BY <1>5, <2>1
  <2>3. PICK r : r = OnDisk(i)
    OBVIOUS
  <2>4. [r EXCEPT !.text = c, !.len = l] = [name |-> n, text |-> c, len |-> l]
    <3>1. [r EXCEPT !.text = c, !.len = l] = [[r EXCEPT !.text = c] EXCEPT !.len = l]
      OBVIOUS
    <3>2. PICK q : q = [r EXCEPT !.text = c]
      OBVIOUS
    <3>3. q = [name |-> n, text |-> c, len |-> z]
      BY <2>1, <2>3, <3>2
    <3>4. [q EXCEPT !.len = l] = [name |-> n, text |-> c, len |-> l]
      BY <3>3
    <3> QED BY <3>1, <3>2, <3>4
  <2>5. OnDisk(i)' = [OnDisk(i) EXCEPT !.text = c, !.len = l] /\ OnDisk(i).name = Doing.name
    BY <2>1, <2>2, <2>3, <2>4
  <2>6. Store!Rewrite(i)
    BY <1>1, <1>3, <1>5, <2>2, <2>5 DEF Store!Rewrite, s
  <2> QED BY <2>6 DEF Store!Next
<1>6. CASE /\ Doing.op = "delete" /\ OnDisk(i) # None /\ Doing' = None
           /\ OnDisk(i).name = Doing.name /\ OnDisk(i)' = None
  <2>1. Store!Delete(i)
    BY <1>1, <1>3, <1>6 DEF Store!Delete, s
  <2> QED BY <2>1 DEF Store!Next
<1> QED BY <1>4, <1>5, <1>6

-----------------------------------------------------------------------------
(* What a reader finds                                                     *)

\* Without an entry, off the bitmap, empty or no file: nothing.
LEMMA NothingToRead ==
  ASSUME NEW i \in Inodes
  PROVE  /\ ~Readable(i) => OnDisk(i) = None
         /\ ~Readable(i)' => OnDisk(i)' = None
         /\ Ents(i) = {} => ~Readable(i)
         /\ Ents(i)' = {} => ~Readable(i)'
<1>1. ASSUME NEW n \in EntryNames(i) PROVE Ents(i) # {}
  <2>1. PICK h \in DataBlocks \X Cells : blk[h[1]][h[2]].w = i /\ blk[h[1]][h[2]].t \in Names
    BY <1>1 DEF EntryNames
  <2> QED BY <2>1 DEF Ents
<1>2. ASSUME NEW n \in EntryNames(i)' PROVE Ents(i)' # {}
  <2>1. PICK h \in DataBlocks \X Cells :
          blk'[h[1]][h[2]].w = i /\ blk'[h[1]][h[2]].t \in Names
    BY <1>2 DEF EntryNames
  <2> QED BY <2>1 DEF Ents
<1>3. (~Readable(i) => OnDisk(i) = None) /\ (~Readable(i)' => OnDisk(i)' = None)
  BY DEF OnDisk
<1>4. Ents(i) = {} => ~Readable(i)
  BY <1>1 DEF Readable
<1>5. Ents(i)' = {} => ~Readable(i)'
  BY <1>2 DEF Readable
<1> QED BY <1>3, <1>4, <1>5

\* The names of an inode are those of its entries.
LEMMA NamesOfEntries ==
  ASSUME NEW i \in Inodes, NEW e \in Ents(i), \A g, h \in Ents(i) : g = h
  PROVE  EntryNames(i) = {blk[e[1]][e[2]].t} /\ blk[e[1]][e[2]].t \in Names
<1>1. e \in DataBlocks \X Cells /\ blk[e[1]][e[2]].w = i /\ blk[e[1]][e[2]].t \in Names
  BY DEF Ents
<1>2. blk[e[1]][e[2]].t \in EntryNames(i)
  BY <1>1 DEF EntryNames
<1>3. ASSUME NEW n \in EntryNames(i) PROVE n = blk[e[1]][e[2]].t
  <2>1. PICK h \in DataBlocks \X Cells :
          blk[h[1]][h[2]].w = i /\ blk[h[1]][h[2]].t = n /\ n \in Names
    BY <1>3 DEF EntryNames
  <2>2. h \in Ents(i)
    BY <2>1 DEF Ents
  <2> QED BY <2>1, <2>2
<1> QED BY <1>1, <1>2, <1>3

LEMMA NamesOfNewEntries ==
  ASSUME NEW i \in Inodes, NEW e \in Ents(i)', \A g, h \in Ents(i)' : g = h
  PROVE  EntryNames(i)' = {blk'[e[1]][e[2]].t}
<1>1. e \in DataBlocks \X Cells /\ blk'[e[1]][e[2]].w = i /\ blk'[e[1]][e[2]].t \in Names
  BY DEF Ents
<1>2. blk'[e[1]][e[2]].t \in EntryNames(i)'
  BY <1>1 DEF EntryNames
<1>3. ASSUME NEW n \in EntryNames(i)' PROVE n = blk'[e[1]][e[2]].t
  <2>1. PICK h \in DataBlocks \X Cells :
          blk'[h[1]][h[2]].w = i /\ blk'[h[1]][h[2]].t = n /\ n \in Names
    BY <1>3 DEF EntryNames
  <2>2. h \in Ents(i)'
    BY <2>1 DEF Ents
  <2> QED BY <2>1, <2>2
<1> QED BY <1>1, <1>2, <1>3

\* The root is entered nowhere.
LEMMA RootHasNoEntry ==
  ASSUME HomesInv
  PROVE  Ents(0) = {}
<1> SUFFICES ASSUME NEW h \in Ents(0) PROVE FALSE
  OBVIOUS
<1>1. h[1] \in DataBlocks /\ h[2] \in Cells /\ blk[h[1]][h[2]].w = 0 /\ blk[h[1]][h[2]].t \in Names
  BY DEF Ents
<1> QED BY <1>1 DEF HomesInv

\* Nothing a reader looks at changed.
LEMMA SameReading ==
  ASSUME NEW i \in Inodes,
         Readable(i)' <=> Readable(i), EntryNames(i)' = EntryNames(i),
         itab'[i].size = itab[i].size, WholeTexts(i)' = WholeTexts(i)
  PROVE  OnDisk(i)' = OnDisk(i)
BY DEF OnDisk

LEMMA SameDisk ==
  ASSUME UNCHANGED <<itab, blk, dibm>>
  PROVE  ReadsStay
BY DEF ReadsStay, OnDisk, Readable, EntryNames, WholeTexts, FileCell

\* The cell a reader takes for position x of file i.
LEMMA ReadCell ==
  ASSUME NEW i, NEW x
  PROVE  /\ FileCell(i, x) = IF BlockAt(i, x \div Slots) \in DataBlocks
                               THEN blk[BlockAt(i, x \div Slots)][x % Slots] ELSE Zero
         /\ FileCell(i, x)' = IF BlockAt(i, x \div Slots)' \in DataBlocks
                                THEN blk'[BlockAt(i, x \div Slots)'][x % Slots] ELSE Zero
BY DEF FileCell, BlockAt

\* A file in use whose blocks and size are as they were says what it said.
LEMMA SameTexts ==
  ASSUME Sound, OwnInv, SizesInv, NEW i \in Inodes, Held(i), itab[i].type = 1,
         PlacesStay(i), itab'[i].size = itab[i].size
  PROVE  WholeTexts(i)' = WholeTexts(i)
<1>1. ASSUME NEW x \in 0 .. itab[i].size - 1 PROVE FileCell(i, x)' = FileCell(i, x)
  <2>1. PICK l : l = x \div Slots
    OBVIOUS
  <2>2. l \in FilePlaces /\ BlockAt(i, l) # 0
    BY <2>1 DEF SizesInv
  <2>3. BlockAt(i, l)' = BlockAt(i, l) /\ blk'[BlockAt(i, l)] = blk[BlockAt(i, l)]
    BY <2>2 DEF PlacesStay
  <2> QED BY <2>1, <2>3, ReadCell
<1> QED BY <1>1 DEF WholeTexts

\* Names are made and taken away at three places only.
LEMMA SameNames ==
  ASSUME NamesStay, NamesMade, pc \notin {"dir_add", "dir_put", "dl_entry"}
  PROVE  \A i : EntryNames(i)' = EntryNames(i) /\ Ents(i)' = Ents(i)
<1>1. ASSUME NEW h \in DataBlocks \X Cells, blk[h[1]][h[2]].t \in Names \/ blk'[h[1]][h[2]].t \in Names
      PROVE  blk'[h[1]][h[2]] = blk[h[1]][h[2]]
  <2>1. h[1] \in DataBlocks /\ h[2] \in Cells
    OBVIOUS
  <2> QED BY <1>1, <2>1 DEF NamesStay, NamesMade
<1> SUFFICES ASSUME NEW i PROVE EntryNames(i)' = EntryNames(i) /\ Ents(i)' = Ents(i)
  OBVIOUS
<1>2. Ents(i)' = Ents(i)
  BY <1>1 DEF Ents
<1>3. ASSUME NEW n \in Names PROVE n \in EntryNames(i)' <=> n \in EntryNames(i)
  <2>1. n \in EntryNames(i)' <=>
          \E h \in DataBlocks \X Cells : blk'[h[1]][h[2]].w = i /\ blk'[h[1]][h[2]].t = n
    BY DEF EntryNames
  <2>2. n \in EntryNames(i) <=>
          \E h \in DataBlocks \X Cells : blk[h[1]][h[2]].w = i /\ blk[h[1]][h[2]].t = n
    BY DEF EntryNames
  <2> QED BY <1>1, <2>1, <2>2
<1>4. EntryNames(i) \subseteq Names /\ EntryNames(i)' \subseteq Names
  BY DEF EntryNames
<1> QED BY <1>2, <1>3, <1>4

\* Where dl is, only dl moves on: a power cut during dl is not careful.
LEMMA DlStepsAt ==
  ASSUME Sound, OwnInv, CarefulNext, job.op = "dl"
  PROVE  /\ DlDirect \/ DlSingle \/ DlInode \/ DlEntry
         /\ job'.idx = job.idx \/ job'.op = "none"
<1>1. job \in Job /\ pc \in {"dl_direct", "dl_single", "dl_inode", "dl_entry"}
  BY DEF Sound, TypeOK, OwnInv, JobInv, OpOK
<1>2. DlDirect \/ DlSingle \/ DlInode \/ DlEntry
  <2>1. ~(NewBlockStep \/ NewInodeStep \/ DirAdd \/ DirGrow \/ DirPut)
    BY <1>1 DEF NewBlockStep, NewInodeStep, DirAdd, DirGrow, DirPut
  <2>2. ~(WriteSteps \/ FwData)
    BY <1>1 DEF WriteSteps, FwAllocDirect, FwAllocSingle, FwAllocPtr, FwWild, FwZero, FwInode,
                FwPtr, FwSize, FwData, Writing
  <2>3. ~(\/ QIbm \/ QItab \/ QSb \/ FBbm \/ FIbm \/ RIbm \/ RBlock \/ RInode \/ RZero
          \/ DefDir \/ DefDone \/ Boot)
    BY <1>1 DEF QIbm, QItab, QSb, FBbm, FIbm, RIbm, RBlock, RInode, RZero, DefDir, DefDone, Boot
  <2>4. ~Prompt /\ pc # "idle"
    BY <1>1 DEF Prompt
  <2>5. ~Create
    BY <2>4 DEF Create, Wr, NoteNew
  <2>6. \A c \in Texts, n \in Names : ~(NoteAgain(c) \/ Mf(n) \/ Dl(n) \/ Cd(n))
    BY <2>4 DEF NoteAgain, Mf, Dl, Cd
  <2>7. ~(CdUp \/ Format \/ Qformat)
    BY <2>4 DEF CdUp, Format, Qformat
  <2>8. ~\E n \in Names : Mf(n) \/ (FileInRoot(n) /\ Dl(n)) \/ Cd(n)
    <3>1. PICK c : c \in Texts
      BY TextAssumption
    <3> QED BY <2>6, <3>1
  <2>9. ~\E c \in Texts : FileInRoot(NotesName) /\ NoteAgain(c)
    BY <2>6, NamesAssumption
  <2> QED BY <2>1, <2>2, <2>3, <2>5, <2>7, <2>8, <2>9 DEF CarefulNext, Kernel, WriteSteps
<1>3. CASE DlDirect
  BY <1>1, <1>2, <1>3 DEF DlDirect, Goto, Job
<1>4. CASE DlSingle
  BY <1>1, <1>2, <1>4 DEF DlSingle, Goto, Job
<1>5. CASE DlInode
  BY <1>2, <1>5 DEF DlInode, Goto
<1>6. CASE DlEntry
  BY <1>2, <1>6 DEF DlEntry, Goto, Finish, NoJob
<1> QED BY <1>2, <1>3, <1>4, <1>5, <1>6

\* The file dl is about: it is gone once its inode is free.
LEMMA DeletedReads ==
  ASSUME Sound, OwnInv, StoreInv, CarefulNext, job.op = "dl", ~DlInode,
         NEW i \in Inodes, i = job.idx
  PROVE  OnDisk(i)' = OnDisk(i)
<1>1. CASE DlDirect \/ DlSingle
  <2>1. UNCHANGED <<itab, blk, dibm>>
    BY <1>1 DEF DlDirect, DlSingle
  <2> QED BY <2>1, SameDisk DEF ReadsStay
<1>2. CASE DlEntry
  <2>1. pc = "dl_entry" /\ dibm' = dibm /\ job' = NoJob
    BY <1>2 DEF DlEntry, Goto, Finish
  <2>2. i \notin dibm
    BY <2>1 DEF StoreInv, CommandInv
  <2>3. ~Readable(i) /\ ~Readable(i)'
    BY <2>1, <2>2 DEF Readable
  <2> QED BY <2>3, NothingToRead
<1> QED BY <1>1, <1>2, DlStepsAt

\* An entry that is there before and after a step is the same one.
LEMMA EntryStays ==
  ASSUME Sound, OwnInv, OwnInv', NamesStay, NamesMade, NEW i \in Inodes,
         Ents(i) # {}, Ents(i)' # {}, i # 0
  PROVE  EntryNames(i)' = EntryNames(i)
<1>1. PICK e \in Ents(i), f \in Ents(i)' : TRUE
  OBVIOUS
<1>2. /\ f \in DataBlocks \X Cells /\ f[1] \in DataBlocks /\ f[2] \in Cells
      /\ blk'[f[1]][f[2]].w = i /\ blk'[f[1]][f[2]].t \in Names
  BY <1>1 DEF Ents
<1>3. ~(pc \in {"dir_add", "dir_put"} /\ i = job.idx)
  BY <1>1 DEF OwnInv, JobInv, AddingOK
<1>4. blk'[f[1]][f[2]] = blk[f[1]][f[2]]
  BY <1>2, <1>3 DEF NamesMade
<1>5. f \in Ents(i)
  BY <1>2, <1>4 DEF Ents
<1>6. (\A g, h \in Ents(i) : g = h) /\ (\A g, h \in Ents(i)' : g = h)
  BY DEF OwnInv, Own, OneEntry
<1>7. EntryNames(i) = {blk[f[1]][f[2]].t}
  BY <1>5, <1>6, NamesOfEntries
<1>8. EntryNames(i)' = {blk'[f[1]][f[2]].t}
  BY <1>1, <1>6, NamesOfNewEntries
<1> QED BY <1>4, <1>7, <1>8

\* A file just entered has nothing in it yet.
LEMMA EnteredReads ==
  ASSUME Sound, OwnInv, StoreInv, CarefulNext, NamesMade, NEW i \in Inodes,
         Ents(i) = {}, Ents(i)' # {}
  PROVE  OnDisk(i)' = OnDisk(i)
<1>1. PICK f \in Ents(i)' : TRUE
  OBVIOUS
<1>2. /\ f \in DataBlocks \X Cells /\ f[1] \in DataBlocks /\ f[2] \in Cells
      /\ blk'[f[1]][f[2]].w = i /\ blk'[f[1]][f[2]].t \in Names
  BY <1>1 DEF Ents
<1>3. blk'[f[1]][f[2]] # blk[f[1]][f[2]]
  <2>1. blk'[f[1]][f[2]] = blk[f[1]][f[2]] => f \in Ents(i)
    BY <1>2 DEF Ents
  <2> QED BY <2>1
<1>4. pc \in {"dir_add", "dir_put"} /\ i = job.idx
  BY <1>2, <1>3 DEF NamesMade
<1>5. itab[i].size = 0
  BY <1>4 DEF StoreInv, CommandInv
<1>6. itab' = itab
  <2>1. ~(NewInodeStep \/ DirGrow \/ FwInode \/ FwSize \/ QItab \/ RInode)
    BY <1>4 DEF NewInodeStep, DirGrow, FwInode, FwSize, QItab, RInode
  <2> QED BY <2>1, DiskSteps
<1>7. ~Readable(i) /\ ~Readable(i)'
  BY <1>5, <1>6 DEF Readable
<1> QED BY <1>7, NothingToRead

\* A file that is entered, and not being taken apart, is in use.
LEMMA EnteredIsHeld ==
  ASSUME Sound, OwnInv, NEW i \in Inodes, i # 0, ~(job.op = "dl" /\ i = job.idx), Ents(i) # {}
  PROVE  Held(i) /\ i \in dibm /\ ~(pc = "new_inode" /\ i = job.idx) /\ pc # "r_inode"
<1>1. Held(i)
  BY DEF Held
<1>2. i \in dibm
  BY <1>1 DEF OwnInv, Own, Marked, Good
<1>3. ~(pc = "new_inode" /\ i = job.idx)
  BY DEF OwnInv, JobInv, MakingOK
<1>4. pc # "r_inode"
  <2> SUFFICES ASSUME pc = "r_inode" PROVE FALSE
    OBVIOUS
  <2>1. blk = [b \in DataBlocks |-> ZeroBlock]
    BY DEF OwnInv, RootInv, EarlyPlaces, Blank
  <2>2. PICK e \in Ents(i) : TRUE
    OBVIOUS
  <2>3. e[1] \in DataBlocks /\ e[2] \in Cells /\ blk[e[1]][e[2]].t \in Names
    BY <2>2 DEF Ents
  <2>4. blk[e[1]][e[2]] = Zero
    BY <2>1, <2>3 DEF ZeroBlock
  <2> QED BY <2>3, <2>4, NamesAssumption DEF Zero
<1> QED BY <1>1, <1>2, <1>3, <1>4

\* A command that begins finds the disk as it is, and one that is under way is
\* about one inode.
LEMMA DlGoesOn ==
  ASSUME Sound, OwnInv, CarefulNext, NEW i \in Inodes, ~(job.op = "dl" /\ i = job.idx),
         job'.op = "dl" /\ i = job'.idx
  PROVE  ReadsStay
<1>1. job.op # "dl"
  BY DlStepsAt
<1>2. CommandBegins
  BY <1>1, CommandKept DEF SameCommand, FileOps
<1>3. UNCHANGED <<itab, blk, dibm>>
  BY <1>2 DEF CommandBegins
<1> QED BY <1>3, SameDisk

\* An entered file reads the same after every step that is not the write of its
\* text or its size.
LEMMA EnteredStays ==
  ASSUME Sound, Sound', BitmapInv, OwnInv, OwnInv', ContentInv, StoreInv, Stays, CarefulNext,
         NamesStay, NamesMade, NEW i \in Inodes, i # 0,
         ~(job.op = "dl" /\ i = job.idx), ~(job'.op = "dl" /\ i = job'.idx),
         ~(i = job.idx /\ (FwData \/ FwSize)),
         Ents(i) # {}, Ents(i)' # {}
  PROVE  OnDisk(i)' = OnDisk(i)
<1>1. /\ Held(i) /\ i \in dibm /\ ~(pc = "new_inode" /\ i = job.idx) /\ pc # "r_inode"
  BY EnteredIsHeld
<1>2. Held(i)' /\ i \in dibm'
  BY DEF Held, OwnInv, Own, Marked, Good
<1>3. EntryNames(i)' = EntryNames(i)
  BY EntryStays
<1>4. itab'[i].type = itab[i].type
  BY <1>1, <1>2 DEF Stays, FilesStay
<1>5. CASE itab[i].type # 1
  <2>1. ~Readable(i) /\ ~Readable(i)'
    BY <1>4, <1>5 DEF Readable
  <2> QED BY <2>1, NothingToRead
<1>6. CASE itab[i].type = 1
  <2>1. PlacesStay(i) /\ itab'[i].size = itab[i].size
    <3>1. \/ itab'[i] = itab[i] /\ PlacesStay(i)
          \/ pc \in WritePlaces /\ i = job.idx /\ WriteSteps /\ PlacesStay(i)
      BY <1>1, <1>2, <1>4, <1>6, FileStep DEF NewInodeStep
    <3>2. ASSUME pc \in WritePlaces, i = job.idx, WriteSteps, PlacesStay(i)
          PROVE  itab'[i].size = itab[i].size
      BY <3>2, WriteKeepsSize
    <3> QED BY <3>1, <3>2
  <2>2. WholeTexts(i)' = WholeTexts(i)
    BY <1>1, <1>6, <2>1, SameTexts DEF StoreInv
  <2>3. Readable(i)' <=> Readable(i)
    BY <1>1, <1>2, <1>3, <1>4, <2>1 DEF Readable
  <2> QED BY <1>3, <2>1, <2>2, <2>3, SameReading
<1> QED BY <1>5, <1>6

\* Three steps change what a reader finds, and only of the file they are about:
\* the one that writes text, the one that writes the size, and the one of dl
\* that frees the inode.
LEMMA FileReads ==
  ASSUME Sound, Sound', BitmapInv, OwnInv, OwnInv', ContentInv, StoreInv, StoreInv', Stays,
         CarefulNext, NEW i \in Inodes, ~(i = job.idx /\ (FwData \/ FwSize \/ DlInode))
  PROVE  OnDisk(i)' = OnDisk(i)
<1>1. NamesStay /\ NamesMade
  BY DiskSteps, BlocksNames DEF StoreInv
<1>2. CASE job.op = "dl" /\ i = job.idx
  BY <1>2, DeletedReads
<1>3. CASE ~(job.op = "dl" /\ i = job.idx) /\ job'.op = "dl" /\ i = job'.idx
  BY <1>3, DlGoesOn DEF ReadsStay
<1>4. CASE ~(job.op = "dl" /\ i = job.idx) /\ ~(job'.op = "dl" /\ i = job'.idx)
  <2>1. CASE Ents(i) = {} /\ Ents(i)' = {}
    BY <2>1, NothingToRead
  <2>2. CASE Ents(i) = {} /\ Ents(i)' # {}
    BY <1>1, <2>2, EnteredReads
  <2>3. Ents(i) # {} => Ents(i)' # {}
    <3> SUFFICES ASSUME NEW e \in Ents(i) PROVE e \in Ents(i)'
      OBVIOUS
    <3>1. /\ e \in DataBlocks \X Cells /\ e[1] \in DataBlocks /\ e[2] \in Cells
          /\ blk[e[1]][e[2]].w = i /\ blk[e[1]][e[2]].t \in Names
      BY DEF Ents
    <3>2. ~(pc = "dl_entry" /\ i = job.idx)
      BY <1>4, DeletingFacts
    <3>3. blk'[e[1]][e[2]] = blk[e[1]][e[2]]
      BY <1>1, <3>1, <3>2 DEF NamesStay
    <3> QED BY <3>1, <3>3 DEF Ents
  <2>4. CASE Ents(i) # {} /\ Ents(i)' # {}
    <3>1. i # 0
      BY <2>4, RootHasNoEntry DEF StoreInv
    <3> QED BY <1>1, <1>4, <2>4, <3>1, EnteredStays
  <2> QED BY <2>1, <2>2, <2>3, <2>4
<1> QED BY <1>2, <1>3, <1>4

-----------------------------------------------------------------------------
(* The steps that change what a reader finds                               *)

\* The command under way is one the store knows.
LEMMA DoingIsCommand ==
  ASSUME Sound, OwnInv
  PROVE  /\ DoingOK
         /\ job.op \in FileOps => /\ Doing = [op |-> "write", name |-> job.name, text |-> job.text]
                                  /\ Doing # None
         /\ job.op = "dl" /\ pc # "dl_entry" =>
              /\ Doing = [op |-> "delete", name |-> job.name, text |-> None] /\ Doing # None
         /\ job.op \notin FileOps /\ ~(job.op = "dl" /\ pc # "dl_entry") => Doing = None
<1>1. CASE job.op \in FileOps
  <2>1. Doing = [op |-> "write", name |-> job.name, text |-> job.text]
    BY <1>1 DEF Doing, FileOps
  <2>2. Doing \in Store!Command
    BY <1>1, <2>1 DEF Store!Command, Sound, FrameOK
  <2> QED BY <1>1, <2>1, <2>2, NoneAssumption DEF DoingOK, FileOps
<1>2. CASE job.op = "dl" /\ pc # "dl_entry"
  <2>1. Doing = [op |-> "delete", name |-> job.name, text |-> None]
    BY <1>2 DEF Doing, FileOps
  <2>2. job.name \in Names
    BY <1>2 DEF OwnInv, JobInv, OpOK, DlOK
  <2>3. Doing \in Store!Command
    BY <2>1, <2>2 DEF Store!Command
  <2> QED BY <1>2, <2>1, <2>3, NoneAssumption DEF DoingOK, FileOps
<1>3. CASE job.op \notin FileOps /\ ~(job.op = "dl" /\ pc # "dl_entry")
  <2>1. Doing = None
    BY <1>3 DEF Doing
  <2> QED BY <1>3, <2>1 DEF DoingOK
<1> QED BY <1>1, <1>2, <1>3

\* A command stays what it is, or there is none before or none after.
LEMMA DoingGoesOn ==
  ASSUME Sound, Sound', OwnInv, OwnInv', CommandInv, CarefulNext, Doing # None, Doing' # None
  PROVE  Doing' = Doing
<1>1. job.op \in FileOps \/ (job.op = "dl" /\ pc # "dl_entry")
  BY DEF Doing
<1>2. job'.op \in FileOps \/ (job'.op = "dl" /\ pc' # "dl_entry")
  BY DEF Doing
<1>3. pc # "idle"
  BY <1>1 DEF CommandInv, FilePcs, HoldPlaces, OwnInv, JobInv, OpOK
<1>4. SameCommand
  BY <1>2, <1>3, CommandKept DEF CommandBegins
<1>5. CASE job.op \in FileOps
  BY <1>4, <1>5 DEF SameCommand, Doing
<1>6. CASE job.op = "dl" /\ pc # "dl_entry"
  <2>1. job.op \notin FileOps /\ job'.op \notin FileOps /\ job'.op = "dl" /\ pc' # "dl_entry"
    BY <1>2, <1>4, <1>6 DEF SameCommand, FileOps
  <2>2. Doing' = [op |-> "delete", name |-> job'.name, text |-> None]
    BY <2>1 DEF Doing
  <2>3. Doing = [op |-> "delete", name |-> job.name, text |-> None]
    BY <1>6, <2>1 DEF Doing
  <2> QED BY <1>4, <2>2, <2>3 DEF SameCommand
<1> QED BY <1>1, <1>5, <1>6

\* What a reader finds is a file of the store.
LEMMA ReadIsFile ==
  ASSUME Sound, SizesInv, NEW i \in Inodes, Readable(i)
  PROVE  /\ OnDisk(i) # None
         /\ OnDisk(i) = [name |-> OnDisk(i).name, text |-> OnDisk(i).text, len |-> itab[i].size]
         /\ OnDisk(i).name \in EntryNames(i)
         /\ itab[i].size \in Lens \cup {NotesLen} /\ itab[i].size \in Nat
<1> DEFINE n == CHOOSE m \in EntryNames(i) : TRUE
           t == IF WholeTexts(i) = {} THEN None ELSE CHOOSE c \in WholeTexts(i) : TRUE
<1>1. OnDisk(i) = [name |-> n, text |-> t, len |-> itab[i].size]
  BY DEF OnDisk
<1>2. n \in EntryNames(i) /\ EntryNames(i) \subseteq Names
  BY DEF Readable, EntryNames
<1>3. t \in Texts \cup {None}
  <2>1. WholeTexts(i) # {} => (CHOOSE c \in WholeTexts(i) : TRUE) \in WholeTexts(i)
    OBVIOUS
  <2>2. WholeTexts(i) \subseteq Texts
    BY DEF WholeTexts
  <2> QED BY <2>1, <2>2
<1> HIDE DEF n, t
<1>4. itab[i].size \in Lens \cup {NotesLen} /\ itab[i].size \in Nat
  <2>1. itab[i].size \in Lens \cup {0, NotesLen} /\ itab[i].size > 0
    BY DEF Readable, SizesInv
  <2>2. PICK z : z = itab[i].size
    OBVIOUS
  <2>3. \A y \in Lens \cup {NotesLen} : y \in Nat
    BY SizeAssumption
  <2> QED BY <2>1, <2>2, <2>3
<1>5. OnDisk(i) \in Store!File
  BY <1>1, <1>2, <1>3, <1>4 DEF Store!File
<1>6. OnDisk(i) # None
  BY <1>5, NoneAssumption
<1> QED BY <1>1, <1>2, <1>4, <1>6

\* The file a write is about is entered under the name of the command.
LEMMA WritingName ==
  ASSUME Sound, BitmapInv, OwnInv, ContentInv, StoreInv, pc \in WritePlaces,
         NEW i \in Inodes, i = job.idx, Ents(i) # {}
  PROVE  /\ i # 0 /\ Held(i) /\ i \in dibm /\ itab[i].type = 1
         /\ EntryNames(i) = {job.name}
<1>1. i # 0 /\ Held(i) /\ i \in dibm /\ itab[i].type = 1
  BY WritingFacts DEF WritePlaces, Good
<1>2. EntryOf(job.home, job.name, i)
  BY DEF StoreInv, CommandInv, ContentInv, EntryInv
<1>3. PICK h \in Inodes, n \in Names : h = job.home /\ n = job.name
  <2>1. job.op \in FileOps
    BY WritingFacts DEF WritePlaces
  <2> QED BY <2>1, FieldTypes DEF Sound, FrameOK
<1>4. PICK d \in Direct, s \in Cells :
        itab[h].direct[d] # 0 /\ blk[itab[h].direct[d]][s] = Entry(n, i)
  BY <1>2, <1>3 DEF EntryOf
<1>5. PICK b \in DataBlocks : b = itab[h].direct[d]
  BY <1>4, StateTypes DEF Ptr
<1>6. blk[b][s].w = i /\ blk[b][s].t = n
  BY <1>4, <1>5 DEF Entry
<1>7. PICK e : e = <<b, s>>
  OBVIOUS
<1>8. e \in Ents(i) /\ blk[e[1]][e[2]].t = n
  BY <1>6, <1>7 DEF Ents
<1>9. EntryNames(i) = {n}
  BY <1>1, <1>8, NamesOfEntries DEF OwnInv, Own, OneEntry
<1> QED BY <1>1, <1>3, <1>9

\* What a reader finds in a file with one entry that can say one thing only.
LEMMA NewReading ==
  ASSUME NEW i \in Inodes, NEW n, NEW c, Readable(i)', EntryNames(i)' = {n},
         WholeTexts(i)' \subseteq {c}
  PROVE  /\ \E t \in {c, None} : OnDisk(i)' = [name |-> n, text |-> t, len |-> itab'[i].size]
         /\ WholeTexts(i)' # {} =>
              OnDisk(i)' = [name |-> n, text |-> c, len |-> itab'[i].size]
<1>1. (CHOOSE m \in EntryNames(i) : TRUE)' = n
  BY (CHOOSE m \in {n} : TRUE) = n
<1>2. CASE WholeTexts(i)' = {}
  BY <1>1, <1>2 DEF OnDisk
<1>3. CASE WholeTexts(i)' # {}
  <2>1. WholeTexts(i)' = {c}
    BY <1>3
  <2>2. (CHOOSE d \in WholeTexts(i) : TRUE)' = c
    BY <2>1, (CHOOSE d \in {c} : TRUE) = c
  <2> QED BY <1>1, <1>3, <2>2 DEF OnDisk
<1> QED BY <1>2, <1>3

\* A file that begins with a text can say nothing else.
LEMMA OneText ==
  ASSUME NEW i \in Inodes, NEW c, itab'[i].size > 0, itab'[i].size \in Nat, TextAt(i, 0, c)',
         BlockAt(i, 0 \div Slots)' \in DataBlocks
  PROVE  WholeTexts(i)' \subseteq {c}
<1> SUFFICES ASSUME NEW d \in WholeTexts(i)' PROVE d = c
  OBVIOUS
<1>1. 0 \in 0 .. itab'[i].size - 1
  BY itab'[i].size > 0, itab'[i].size \in Nat
<1>2. FileCell(i, 0)' = [w |-> TextWord, t |-> <<d, 0>>]
  BY <1>1 DEF WholeTexts
<1>3. FileCell(i, 0)' = [w |-> TextWord, t |-> <<c, 0>>]
  BY ReadCell DEF TextAt
<1>4. <<d, 0>> = <<c, 0>>
  BY <1>2, <1>3
<1> QED BY <1>4

\* Text that is written over what a file said leaves the new text or none; in a
\* file without a size it is not seen.
LEMMA TextIsWritten ==
  ASSUME Sound, Sound', BitmapInv, OwnInv, OwnInv', ContentInv, StoreInv, StoreInv', Stays,
         CarefulNext, FwData
  PROVE  [Store!Next]_(Store!vars)
<1>1. /\ pc = "fw" /\ pc \in WritePlaces /\ itab' = itab /\ dibm' = dibm
      /\ \E k : job' = [job EXCEPT !.k = k]
  BY DEF FwData, Writing, WritePlaces, Goto
<1>2. /\ job \in Job /\ job.op \in FileOps /\ job.text \in Texts /\ job.name \in Names
      /\ job.idx \in Inodes
  BY <1>1, WritingFacts DEF Sound, TypeOK, FrameOK
<1>3. PICK i \in Inodes, c \in Texts, n \in Names : i = job.idx /\ c = job.text /\ n = job.name
  BY <1>2
<1>4. Doing = [op |-> "write", name |-> n, text |-> c] /\ Doing # None /\ Doing' = Doing
  <2>1. job'.op = job.op /\ job'.name = job.name /\ job'.text = job.text
    BY <1>1, <1>2 DEF Job
  <2>2. Doing' = [op |-> "write", name |-> job'.name, text |-> job'.text]
    BY <1>2, <2>1 DEF Doing, FileOps
  <2> QED BY <1>2, <1>3, <2>1, <2>2, DoingIsCommand
<1>5. \A j \in Inodes \ {i} : OnDisk(j)' = OnDisk(j)
  BY <1>3, FileReads
<1>6. EntryNames(i)' = EntryNames(i) /\ Ents(i)' = Ents(i)
  <2>1. NamesStay /\ NamesMade
    BY DiskSteps, BlocksNames DEF StoreInv
  <2>2. pc \notin {"dir_add", "dir_put", "dl_entry"}
    BY <1>1
  <2> QED BY ONLY <2>1, <2>2, SameNames
<1>7. Readable(i)' <=> Readable(i)
  BY <1>1, <1>6 DEF Readable
<1>8. CASE ~Readable(i)
  <2>1. OnDisk(i)' = OnDisk(i)
    BY <1>7, <1>8, NothingToRead
  <2>2. ReadsStay
    BY <1>5, <2>1 DEF ReadsStay
  <2> QED BY <1>4, <2>2, NoFileTouched, DoingIsCommand DEF DoingOK
<1>9. CASE Readable(i)
  <2>1. Ents(i) # {}
    BY <1>9, NothingToRead
  <2>2. Held(i) /\ itab[i].type = 1 /\ EntryNames(i) = {n}
    BY <1>1, <1>3, <2>1, WritingName
  <2>3. /\ OnDisk(i) # None /\ OnDisk(i).name = n /\ itab[i].size \in Lens \cup {NotesLen}
        /\ OnDisk(i) = [name |-> n, text |-> OnDisk(i).text, len |-> itab[i].size]
        /\ itab[i].size \in Nat /\ itab[i].size > 0
    BY <1>9, <2>2, ReadIsFile DEF StoreInv, Readable
  <2>4. n = NotesName
    <3>1. job.op # "wr"
      BY <1>1, <1>3, <2>3 DEF StoreInv, CommandInv
    <3> QED BY <1>2, <1>3, <3>1 DEF StoreInv, CommandInv, FileOps
  <2>5. TextAt(i, 0, c)' /\ BlockAt(i, 0 \div Slots)' \in DataBlocks
    <3>1. /\ job.k < job'.k /\ \A y \in 0 .. job'.k - 1 : TextAt(i, y, c)'
          /\ \A l : BlockAt(i, l)' = BlockAt(i, l)
      BY <1>3, <2>2, WriteAddsText DEF ContentInv, DistinctInv
    <3>2. 0 \in 0 .. job'.k - 1
      BY <3>1, FieldTypes DEF Sound, TypeOK, Job
    <3>3. TextAt(i, 0, c)'
      BY <3>1, <3>2
    <3>4. PICK l : l = 0 \div Slots
      OBVIOUS
    <3>5. l \in FilePlaces /\ BlockAt(i, l)' # 0
      BY <3>3, <3>4 DEF TextAt
    <3>6. BlockAt(i, l) \in DataBlocks /\ BlockAt(i, l)' = BlockAt(i, l)
      BY <2>2, <3>1, <3>5, HeldBlock
    <3> QED BY <3>3, <3>4, <3>6
  <2>6. WholeTexts(i)' \subseteq {c}
    BY <1>1, <2>3, <2>5, OneText
  <2>7. PICK t \in {c, None} : OnDisk(i)' = [name |-> n, text |-> t, len |-> itab[i].size]
    BY <1>1, <1>6, <1>7, <1>9, <2>2, <2>6, NewReading
  <2>8. PICK l \in Lens \cup {NotesLen} : l = itab[i].size /\ l \in Nat
    BY <2>3
  <2>9. \E u, z : OnDisk(i) = [name |-> n, text |-> u, len |-> z] /\ l >= OnDisk(i).len
    BY <2>3, <2>8
  <2>10. Doing.op = "write" /\ Doing.name = n /\ Doing.text = c
    BY <1>4
  <2>11. \E d \in {Doing.text, None}, m \in Lens \cup {NotesLen} : m >= OnDisk(i).len
            /\ OnDisk(i)' = [name |-> Doing.name, text |-> d, len |-> m]
    BY <2>7, <2>8, <2>9, <2>10
  <2>12. Doing' \in {Doing, None} /\ Doing.name = NotesName
    BY <1>4, <2>4, <2>10
  <2>13. Store!Next
    BY ONLY <1>4, <1>5, <2>3, <2>9, <2>10, <2>11, <2>12, OneFileTouched
  <2> QED BY <2>13
<1> QED BY <1>8, <1>9

\* The step that writes the size ends the command: the file appears with all of
\* its text, or says the new text, or is as long as it was.
LEMMA SizeIsWritten ==
  ASSUME Sound, Sound', BitmapInv, OwnInv, OwnInv', ContentInv, StoreInv, StoreInv', Stays,
         CarefulNext, FwSize
  PROVE  [Store!Next]_(Store!vars)
<1>1. /\ pc = "fw" /\ pc \in WritePlaces /\ blk' = blk /\ dibm' = dibm /\ job' = NoJob
      /\ job.k = job.len
  BY DEF FwSize, WritePlaces, Finish, Goto
<1>2. /\ job \in Job /\ job.op \in FileOps /\ job.text \in Texts /\ job.name \in Names
      /\ job.idx \in Inodes
  BY <1>1, WritingFacts DEF Sound, TypeOK, FrameOK
<1>3. PICK i \in Inodes, c \in Texts, n \in Names, l \in Lens \cup {NotesLen} :
        i = job.idx /\ c = job.text /\ n = job.name /\ l = job.len
  BY <1>2, WrittenSize DEF StoreInv
<1>4. /\ Doing = [op |-> "write", name |-> n, text |-> c] /\ Doing # None /\ Doing' = None
      /\ DoingOK /\ DoingOK'
  <2>1. Doing' = None
    BY <1>1 DEF Doing, NoJob, FileOps
  <2> QED BY <1>2, <1>3, <2>1, DoingIsCommand DEF DoingOK
<1>5. \A j \in Inodes \ {i} : OnDisk(j)' = OnDisk(j)
  BY <1>3, FileReads
<1>6. EntryNames(i)' = EntryNames(i) /\ Ents(i)' = Ents(i)
  BY <1>1 DEF EntryNames, Ents
<1>7. /\ l \in Nat \ {0} /\ itab[i] \in Inode
      /\ IF l > itab[i].size THEN itab' = [itab EXCEPT ![i] = [itab[i] EXCEPT !.size = l]]
                             ELSE itab' = itab
  BY <1>3, WrittenSize DEF StoreInv
<1>8. CASE itab' = itab \/ Ents(i) = {}
  <2>1. OnDisk(i)' = OnDisk(i)
    <3>1. CASE itab' = itab
      BY <1>1, <3>1, SameDisk DEF ReadsStay
    <3>2. CASE Ents(i) = {}
      BY <1>6, <3>2, NothingToRead
    <3> QED BY <1>8, <3>1, <3>2
  <2>2. ReadsStay
    BY <1>5, <2>1 DEF ReadsStay
  <2> QED BY <1>4, <2>2, NoFileTouched
<1>9. CASE Ents(i) # {} /\ itab' = [itab EXCEPT ![i] = [itab[i] EXCEPT !.size = l]]
           /\ l > itab[i].size
  <2>1. /\ itab'[i].size = l /\ itab'[i].type = itab[i].type
        /\ itab'[i].direct = itab[i].direct /\ itab'[i].single = itab[i].single
    BY <1>7, <1>9, StateTypes DEF Inode
  <2>2. Held(i) /\ i \in dibm /\ itab[i].type = 1 /\ EntryNames(i) = {n}
    BY <1>1, <1>3, <1>9, WritingName
  <2>3. \A m : BlockAt(i, m)' = BlockAt(i, m)
    BY <1>1, <2>1, SamePlaces
  <2>4. ASSUME NEW x \in 0 .. l - 1
        PROVE  /\ TextAt(i, x, c)' /\ BlockAt(i, x \div Slots)' \in DataBlocks
               /\ FileCell(i, x)' = [w |-> TextWord, t |-> <<c, x>>]
    <3>1. TextAt(i, x, c)
      BY <1>1, <1>3 DEF ContentInv, WrittenInv
    <3>2. PICK m : m = x \div Slots
      OBVIOUS
    <3>3. BlockAt(i, m) \in DataBlocks
      BY <2>2, <3>1, <3>2, HeldBlock DEF TextAt
    <3>4. TextAt(i, x, c)' /\ BlockAt(i, x \div Slots)' \in DataBlocks
      BY <1>1, <2>3, <3>1, <3>2, <3>3 DEF TextAt
    <3> QED BY <3>4, ReadCell DEF TextAt
  <2>5. Readable(i)'
    <3>1. l > 0
      BY <1>7
    <3> QED BY <1>1, <1>6, <2>1, <2>2, <3>1 DEF Readable
  <2>6. WholeTexts(i)' \subseteq {c}
    <3>1. 0 \in 0 .. l - 1 /\ l > 0
      BY <1>7
    <3> QED BY <1>7, <2>1, <2>4, <3>1, OneText
  <2>7. c \in WholeTexts(i)'
    BY <2>1, <2>4 DEF WholeTexts
  <2>8. OnDisk(i)' = [name |-> n, text |-> c, len |-> l]
    BY <1>6, <2>1, <2>2, <2>5, <2>6, <2>7, NewReading
  <2>9. Doing.op = "write" /\ Doing.name = n /\ Doing.text = c
    BY <1>4
  <2>10. CASE ~Readable(i)
    <3>1. OnDisk(i) = None
      BY <2>10, NothingToRead
    <3> QED BY ONLY <1>3, <1>4, <1>5, <2>8, <2>9, <3>1, OneFileTouched
  <2>11. CASE Readable(i)
    <3>1. /\ OnDisk(i) # None /\ OnDisk(i).name = n /\ itab[i].size # 0
          /\ OnDisk(i) = [name |-> n, text |-> OnDisk(i).text, len |-> itab[i].size]
          /\ itab[i].size \in Nat
      BY <2>2, <2>11, ReadIsFile DEF StoreInv, Readable
    <3>2. n = NotesName
      <4>1. job.op # "wr"
        BY <1>1, <1>3, <3>1 DEF StoreInv, CommandInv
      <4> QED BY <1>2, <1>3, <4>1 DEF StoreInv, CommandInv, FileOps
    <3>3. PICK u, z : u = OnDisk(i).text /\ z = itab[i].size
      OBVIOUS
    <3>4. OnDisk(i) = [name |-> n, text |-> u, len |-> z]
      BY <3>1, <3>3
    <3>5. OnDisk(i).len = z /\ l >= z
      BY <1>7, <1>9, <3>1, <3>3, <3>4
    <3>6. \E d \in {Doing.text, None}, m \in Lens \cup {NotesLen} : m >= OnDisk(i).len
             /\ OnDisk(i)' = [name |-> Doing.name, text |-> d, len |-> m]
      BY <1>3, <2>8, <2>9, <3>5
    <3>7. Doing' \in {Doing, None} /\ Doing.name = NotesName
      BY <1>4, <2>9, <3>2
    <3>8. \E v, y : OnDisk(i) = [name |-> Doing.name, text |-> v, len |-> y]
      BY <2>9, <3>4
    <3> QED BY ONLY <1>4, <1>5, <2>9, <3>1, <3>6, <3>7, <3>8, OneFileTouched
  <2> QED BY <2>10, <2>11
<1> QED BY <1>7, <1>8, <1>9

\* The step that frees the inode takes the file away, under the name it has.
LEMMA InodeIsFreed ==
  ASSUME Sound, Sound', BitmapInv, OwnInv, OwnInv', ContentInv, StoreInv, StoreInv', Stays,
         CarefulNext, DlInode
  PROVE  [Store!Next]_(Store!vars)
<1>1. pc = "dl_inode" /\ pc' = "dl_entry" /\ job' = job /\ dibm' = ibm \ {job.idx}
  BY DEF DlInode, Goto, free_inode, save_inode_bitmap
<1>2. /\ job.op = "dl" /\ job.name \in Names /\ job.idx \in Inodes \ {0}
      /\ dir_lookup(itab[0], job.name) = job.idx
  BY <1>1, DeletingFacts
<1>3. PICK i \in Inodes, n \in Names : i = job.idx /\ n = job.name /\ i # 0
  BY <1>2
<1>4. /\ Doing = [op |-> "delete", name |-> n, text |-> None] /\ Doing # None /\ Doing' = None
      /\ DoingOK /\ DoingOK'
  <2>1. Doing' = None
    BY <1>1, <1>2 DEF Doing, FileOps
  <2> QED BY <1>1, <1>2, <1>3, <2>1, DoingIsCommand DEF DoingOK
<1>5. \A j \in Inodes \ {i} : OnDisk(j)' = OnDisk(j)
  BY <1>3, FileReads
<1>6. OnDisk(i)' = None
  BY <1>1, <1>3, NothingToRead DEF Readable
<1>7. CASE OnDisk(i) = None
  <2>1. ReadsStay
    BY <1>5, <1>6, <1>7 DEF ReadsStay
  <2> QED BY <1>4, <2>1, NoFileTouched
<1>8. CASE OnDisk(i) # None
  <2>1. Readable(i) /\ Ents(i) # {}
    BY <1>8, NothingToRead
  <2>2. n \in EntryNames(i)
    <3>1. 0 \in Inodes /\ dir_lookup(itab[0], n) = i /\ i # -1 /\ pc # "dir_put"
      BY <1>1, <1>2, <1>3, BaseTypes DEF Inodes
    <3> QED BY <3>1, FoundHasEntry
  <2>3. PICK e \in Ents(i) : TRUE
    BY <2>1
  <2>4. EntryNames(i) = {blk[e[1]][e[2]].t}
    BY <1>3, <2>3, NamesOfEntries DEF OwnInv, Own, OneEntry
  <2>5. OnDisk(i).name = n
    BY <2>1, <2>2, <2>4, ReadIsFile DEF StoreInv
  <2>6. Doing.op = "delete" /\ Doing.name = n
    BY <1>4
  <2> QED BY ONLY <1>4, <1>5, <1>6, <1>8, <2>5, <2>6, OneFileTouched
<1> QED BY <1>7, <1>8

-----------------------------------------------------------------------------
(* The sectors implement the store                                         *)

LEMMA StoreStep ==
  ASSUME Sound, Sound', BitmapInv, OwnInv, OwnInv', ContentInv, StoreInv, StoreInv', DoingOK',
         Stays, [CarefulNext]_vars
  PROVE  [Store!Next]_(Store!vars)
<1>1. CASE UNCHANGED vars
  <2>1. UNCHANGED <<itab, blk, dibm>> /\ UNCHANGED <<pc, job>>
    BY <1>1 DEF vars, disk
  <2>2. ReadsStay /\ Doing' = Doing
    BY <2>1, SameDisk DEF Doing
  <2> QED BY <2>2, NoFileTouched, DoingIsCommand
<1>2. CASE CarefulNext /\ ~(FwData \/ FwSize \/ DlInode)
  <2>1. ReadsStay
    BY <1>2, FileReads DEF ReadsStay
  <2>2. Doing # None /\ Doing' # None => Doing' = Doing
    BY <1>2, DoingGoesOn DEF StoreInv
  <2> QED BY <2>1, <2>2, NoFileTouched, DoingIsCommand
<1> QED BY <1>1, <1>2, TextIsWritten, SizeIsWritten, InodeIsFreed

LEMMA StoreBegins == Init => Store!Init
<1> SUFFICES ASSUME Init PROVE Store!Init
  OBVIOUS
<1>1. itab = [i \in Inodes |-> NoInode] /\ job = NoJob
  BY DEF Init
<1>2. ASSUME NEW i \in Inodes PROVE OnDisk(i) = None
  <2>1. ~Readable(i)
    BY <1>1 DEF Readable, NoInode
  <2> QED BY <2>1, NothingToRead
<1>3. [i \in Inodes |-> OnDisk(i)] = [i \in Inodes |-> None]
  BY <1>2
<1>4. Doing = None
  BY <1>1 DEF Doing, NoJob, FileOps
<1> QED BY <1>3, <1>4 DEF Store!Init

\* The sectors implement the store: on every disk, whatever is written and
\* deleted with care and wherever the power fails, a file appears whole in the
\* step that writes its size and goes in the step of dl that saves the inode
\* bitmap; no other step changes what a reader finds, and only notes.cos, which
\* is rewritten in place, can be found torn.
THEOREM FilesAreAStore == CarefulSpec => ImplementsFileStore
<1>1. /\ Sound /\ Sound' /\ BitmapInv /\ OwnInv /\ OwnInv' /\ SavedInv /\ ContentInv
      /\ StoreInv /\ StoreInv' /\ DoingOK' /\ [CarefulNext]_vars
      => [Store!Next]_(Store!vars)
  BY OwnStep, StoreStep
<1>2. Sound /\ OwnInv => DoingOK
  BY DoingIsCommand
<1> QED BY <1>1, <1>2, StoreBegins, OwnAlways, ContentAlways, StoreAlways, PTL
        DEF CarefulSpec, ImplementsFileStore, Store!Spec

=============================================================================
