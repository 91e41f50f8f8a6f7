------------------------ MODULE CrusaderDrivesProofs ------------------------
(***************************************************************************)
(* Proofs about CrusaderDrives: types, and the geometry of a file system,  *)
(* for drives of every size and any set of units.  TLC checks the geometry *)
(* for two sizes; here it is arithmetic over all of them.                  *)
(***************************************************************************)
EXTENDS CrusaderDrives, TLAPS

-----------------------------------------------------------------------------
(* Arithmetic                                                              *)

\* As many blocks as the block bitmap has bits.
MaxBlocks == 512 * 512

\* The counts never exceed what the bitmap of blocks can mark.
LEMMA BlocksBounded ==
  ASSUME NEW n \in Nat
  PROVE  BlocksOf(n) \in Nat /\ BlocksOf(n) <= MaxBlocks
<1> DEFINE M == 64 * 512 * 8
           t == IF n > M THEN M ELSE n
<1>1. M = MaxBlocks /\ M \in Nat
  BY DEF MaxBlocks
<1>2. BlocksOf(n) = IF t \div 4 > M THEN M * 4 ELSE t
  BY DEF BlocksOf, BLOCK_BITMAP_MAX_SIZE, INODE_BITMAP_SIZE
<1>3. t \in Nat /\ t <= M
  <2> HIDE DEF M
  <2> QED BY <1>1
<1>4. t \div 4 <= t
  <2> HIDE DEF t
  <2> QED BY <1>3
<1>5. ~(t \div 4 > M)
  <2> HIDE DEF t, M
  <2> QED BY <1>1, <1>3, <1>4
<1> HIDE DEF t, M
<1> QED BY <1>1, <1>2, <1>3, <1>5

LEMMA CeilDivBounds ==
  ASSUME NEW n \in Nat, NEW d \in {8, 512}
  PROVE  /\ CeilDiv(n, d) \in Nat
         /\ CeilDiv(n, d) * d >= n
         /\ CeilDiv(n, d) * d < n + d
<1>1. CASE d = 8
  BY <1>1 DEF CeilDiv
<1>2. CASE d = 512
  BY <1>2 DEF CeilDiv
<1> QED BY <1>1, <1>2

\* Eight inodes at least, and no more than blocks.
LEMMA InodesBounded ==
  ASSUME NEW t \in Nat, t <= MaxBlocks
  PROVE  InodesFor(t) \in Nat /\ InodesFor(t) >= 8 /\ InodesFor(t) <= MaxBlocks
<1> DEFINE a == t \div 4
           q == (a + 7) \div 8
<1>1. a \in Nat /\ a * 4 <= t
  OBVIOUS
<1>2. q \in Nat /\ q * 8 <= a + 7
  <2> HIDE DEF a
  <2> QED BY <1>1
<1>3. InodesFor(t) = IF q * 8 = 0 THEN 8 ELSE q * 8
  BY DEF InodesFor
<1>4. MaxBlocks \in Nat /\ MaxBlocks >= 100
  BY DEF MaxBlocks
<1>5. q * 8 <= MaxBlocks
  <2> HIDE DEF a, q
  <2> QED BY <1>1, <1>2, <1>4
<1> HIDE DEF a, q
<1> QED BY <1>2, <1>3, <1>4, <1>5

\* What the kernel computes at a mount is what the format computed.
LEMMA MountIsFormat ==
  ASSUME NEW n \in Nat
  PROVE  /\ MountGeometry(Layout(n)) = FormatGeometry(Layout(n).total)
         /\ Layout(n).total = BlocksOf(n) /\ Layout(n).inodes = InodesFor(BlocksOf(n))
         /\ Layout(n).magic = "cos"
BY DEF MountGeometry, FormatGeometry, Layout

LEMMA LayoutType ==
  ASSUME NEW n \in Nat
  PROVE  Layout(n) \in Superblock /\ MountGeometry(Layout(n)) \in Geometry
<1> DEFINE t == BlocksOf(n)
           c == InodesFor(t)
           g == FormatGeometry(t)
<1>1. t \in Nat /\ c \in Nat
  BY BlocksBounded, InodesBounded
<1>2. g \in Geometry
  <2>0. g = [bytes |-> CeilDiv(t, 8), bsec |-> CeilDiv(CeilDiv(t, 8), 512),
             isec  |-> CeilDiv(CeilDiv(c, 8), 512), table |-> CeilDiv(c * 128, 512)]
    BY DEF FormatGeometry, SECTOR_SIZE, INODE_SIZE
  <2> HIDE DEF t, c, g
  <2>1. CeilDiv(t, 8) \in Nat /\ CeilDiv(c, 8) \in Nat /\ c * 128 \in Nat
    BY <1>1, CeilDivBounds
  <2>2. /\ CeilDiv(CeilDiv(t, 8), 512) \in Nat /\ CeilDiv(CeilDiv(c, 8), 512) \in Nat
        /\ CeilDiv(c * 128, 512) \in Nat
    BY <2>1, CeilDivBounds
  <2> QED BY <2>0, <2>1, <2>2 DEF Geometry
<1>3. Layout(n) = [magic |-> "cos", total |-> t, inodes |-> c, bstart |-> 1,
                   istart |-> 1 + g.bsec + g.isec, dstart |-> 1 + g.bsec + g.isec + g.table]
  BY DEF Layout
<1>4. 1 + g.bsec + g.isec \in Nat /\ 1 + g.bsec + g.isec + g.table \in Nat
  <2> HIDE DEF g
  <2> QED BY <1>2 DEF Geometry
<1>5. Layout(n) \in Superblock
  <2> HIDE DEF t, c, g
  <2> QED BY <1>1, <1>3, <1>4 DEF Superblock
<1>6. MountGeometry(Layout(n)) = g
  BY MountIsFormat
<1> QED BY <1>2, <1>5, <1>6

LEMMA EightToAByte ==
  ASSUME NEW x \in Nat, NEW y \in Nat, y <= MaxBlocks, x * 8 < y + 8
  PROVE  x <= 64 * 512
<1>1. x * 8 < 512 * 512 + 8
  BY DEF MaxBlocks
<1> QED BY <1>1

\* Every region is as long as the counts say, and the bitmaps fit their arrays.
LEMMA LayoutFits ==
  ASSUME NEW n \in Nat
  PROVE  LET s == Layout(n)
             g == MountGeometry(s)
         IN /\ g.bytes <= BLOCK_BITMAP_MAX_SIZE /\ g.bytes * 8 >= s.total
            /\ g.isec * SECTOR_SIZE <= INODE_BITMAP_SIZE
            /\ g.isec * SECTOR_SIZE * 8 >= s.inodes
            /\ g.table * SECTOR_SIZE >= s.inodes * INODE_SIZE
            /\ s.istart = s.bstart + g.bsec + g.isec
            /\ s.dstart = s.istart + g.table
<1> DEFINE t == BlocksOf(n)
           c == InodesFor(t)
           b == CeilDiv(c, 8)
           k == CeilDiv(b, 512)
<1>1. t \in Nat /\ t <= MaxBlocks /\ c \in Nat /\ c <= MaxBlocks
  BY BlocksBounded, InodesBounded
<1>2. /\ CeilDiv(t, 8) <= 64 * 512 /\ CeilDiv(t, 8) * 8 >= t
      /\ b \in Nat /\ b <= 64 * 512 /\ b * 8 >= c
  <2> HIDE DEF t, c
  <2>1. /\ CeilDiv(t, 8) \in Nat /\ CeilDiv(t, 8) * 8 >= t /\ CeilDiv(t, 8) * 8 < t + 8
        /\ b \in Nat /\ b * 8 >= c /\ b * 8 < c + 8
    BY <1>1, CeilDivBounds
  <2> HIDE DEF b
  <2>2. CeilDiv(t, 8) <= 64 * 512
    BY <1>1, <2>1, EightToAByte
  <2>3. b <= 64 * 512
    BY <1>1, <2>1, EightToAByte
  <2> QED BY <2>1, <2>2, <2>3
<1>3. k \in Nat /\ k * 512 >= b /\ k <= 64
  <2> HIDE DEF b
  <2>0. b \in Nat /\ b <= 64 * 512
    BY <1>2
  <2>1. k \in Nat /\ k * 512 >= b /\ k * 512 < b + 512
    BY <2>0, CeilDivBounds
  <2> HIDE DEF k
  <2> QED BY <2>0, <2>1
<1>4. k * 512 * 8 >= c /\ k * 512 <= 64 * 512
  <2> HIDE DEF t, c, b, k
  <2> QED BY <1>1, <1>2, <1>3
<1>5. CeilDiv(c * 128, 512) * 512 >= c * 128
  <2> HIDE DEF c
  <2>1. c * 128 \in Nat
    BY <1>1
  <2> QED BY <2>1, CeilDivBounds
<1>6. /\ Layout(n) = [magic |-> "cos", total |-> t, inodes |-> c, bstart |-> 1,
              istart |-> 1 + FormatGeometry(t).bsec + FormatGeometry(t).isec,
              dstart |-> 1 + FormatGeometry(t).bsec + FormatGeometry(t).isec
                           + FormatGeometry(t).table]
      /\ MountGeometry(Layout(n)) = FormatGeometry(t)
  BY MountIsFormat DEF Layout
<1>7. FormatGeometry(t) =
        [bytes |-> CeilDiv(t, 8), bsec |-> CeilDiv(CeilDiv(t, 8), 512),
         isec  |-> k, table |-> CeilDiv(c * 128, 512)]
  BY DEF FormatGeometry, SECTOR_SIZE, INODE_SIZE
<1> HIDE DEF t, c, b, k
<1> QED BY <1>2, <1>4, <1>5, <1>6, <1>7
        DEF BLOCK_BITMAP_MAX_SIZE, INODE_BITMAP_SIZE, SECTOR_SIZE, INODE_SIZE

-----------------------------------------------------------------------------
(* The invariant                                                           *)

\* A superblock with the magic number was laid out by a format.
Laid(s) == s.magic = "cos" => \E n \in Nat : s = Layout(n)

Geometric ==
  /\ \A u \in Units : Laid(disk[u].super)
  /\ Laid(gsb)
  /\ gsb.magic = "cos" => geo = MountGeometry(gsb)

Sound == TypeOK /\ (power = "boot" => cur = 0) /\ Geometric

LEMMA EntryOfTable ==
  ASSUME TypeOK, NEW i \in DOMAIN table
  PROVE  table[i] \in Drive /\ table[i].unit \in Units /\ table[i].total \in Nat
<1>1. table \in Seq(Drive) /\ i \in 1 .. Len(table)
  BY DEF TypeOK
<1>2. table[i] \in Drive
  BY <1>1
<1> QED BY <1>2 DEF Drive

LEMMA CurrentIsListed ==
  ASSUME TypeOK, table # << >>
  PROVE  cur + 1 \in DOMAIN table /\ Current \in Units
<1>1. cur + 1 \in DOMAIN table
  BY DEF TypeOK
<1> QED BY <1>1, EntryOfTable DEF Current

\* Marking and freeing an inode leave the rest of a disk alone.
LEMMA NewInodeType ==
  ASSUME NEW d \in Disk, NEW i \in Inodes, NEW k \in Kinds
  PROVE  LET D == NewInode(d, i, k)
         IN /\ D \in Disk /\ D.super = d.super /\ D.bm = d.bm /\ D.root = d.root
            /\ D.used = d.used \cup {i} /\ \A j \in Inodes : j # i => D.kinds[j] = d.kinds[j]
BY DEF Disk, NewInode

LEMMA FreeInodeType ==
  ASSUME NEW d \in Disk, NEW i \in Inodes
  PROVE  LET D == free_inode(d, i)
         IN /\ D \in Disk /\ D.super = d.super /\ D.bm = d.bm /\ D.root = d.root
            /\ D.used = d.used \ {i} /\ D.kinds = d.kinds
BY DEF Disk, free_inode

LEMMA Sector0Type ==
  ASSUME NEW m \in {"zero", "junk"}
  PROVE  Sector0(m) \in Superblock /\ Sector0(m).magic = m /\ Laid(Sector0(m))
BY DEF Sector0, Superblock, Laid

LEMMA SoundInit == Init => Sound
<1> SUFFICES ASSUME Init PROVE Sound
  OBVIOUS
<1>1. /\ Sector0("zero") \in Superblock /\ Sector0("zero").magic = "zero"
      /\ Laid(Sector0("zero"))
  BY Sector0Type
<1>2. BlankDisk \in Disk /\ BlankDisk.super = Sector0("zero")
  BY <1>1 DEF BlankDisk, Disk
<1>3. NoGeometry \in Geometry
  BY DEF NoGeometry, Geometry
<1>4. TypeOK
  BY <1>1, <1>2, <1>3, UnitsAssumption DEF Init, TypeOK
<1>5. Geometric
  BY <1>1, <1>2 DEF Init, Geometric
<1> QED BY <1>4, <1>5 DEF Init, Sound

\* init_fs leaves in memory what it found on the unit.
LEMMA MountSound ==
  ASSUME Sound, NEW u \in Units, init_fs(u)
  PROVE  /\ disk' \in [Units -> Disk] /\ sel' \in Units /\ gsb' \in Superblock
         /\ geo' \in Geometry /\ bm' \in Units \cup {None}
         /\ Geometric'
<1>a. TypeOK /\ Geometric
  BY DEF Sound
<1>b. disk[u] \in Disk
  BY <1>a DEF TypeOK
<1>1. sel' = u /\ gsb' = disk[u].super /\ gsb' \in Superblock /\ Laid(gsb')
  BY <1>a, <1>b DEF init_fs, Disk, Geometric
<1>2. CASE disk[u].super.magic = "cos"
  <2> DEFINE r == disk[u].root \/ Room(disk[u].super) > 0
  <2>1. /\ geo' = MountGeometry(gsb') /\ bm' = disk[u].bm
        /\ disk' = [disk EXCEPT ![u].root = @ \/ Room(disk[u].super) > 0]
    BY <1>1, <1>2 DEF init_fs
  <2>2. PICK n \in Nat : gsb' = Layout(n)
    BY <1>1, <1>2 DEF Laid
  <2>3. geo' \in Geometry
    BY <2>1, <2>2, LayoutType
  <2>4. disk' = [disk EXCEPT ![u] = [disk[u] EXCEPT !.root = r]]
    BY <1>a, <2>1 DEF TypeOK
  <2>5. r \in BOOLEAN /\ disk[u].bm \in Units \cup {None}
    BY <1>b DEF Disk
  <2> HIDE DEF r
  <2>6. [disk[u] EXCEPT !.root = r] \in Disk /\ [disk[u] EXCEPT !.root = r].super = disk[u].super
    BY <1>b, <2>5 DEF Disk
  <2>7. disk' \in [Units -> Disk] /\ \A v \in Units : disk'[v].super = disk[v].super
    BY <1>a, <2>4, <2>6 DEF TypeOK
  <2>8. Geometric'
    BY <1>a, <1>1, <2>1, <2>7 DEF Geometric
  <2> QED BY <1>1, <2>1, <2>3, <2>5, <2>7, <2>8
<1>3. CASE disk[u].super.magic # "cos"
  <2>1. UNCHANGED <<geo, bm, disk>>
    BY <1>3 DEF init_fs
  <2> QED BY <1>a, <1>1, <1>3, <2>1 DEF TypeOK, Geometric
<1> QED BY <1>2, <1>3

\* Saving the bitmaps changes their owner, or spoils a sector 0, and no layout.
LEMMA SavedSound ==
  ASSUME Sound
  PROVE  /\ Saved \in [Units -> Disk]
         /\ \A u \in Units : /\ Laid(Saved[u].super)
                              /\ Saved[u].used = disk[u].used
                              /\ Saved[u].kinds = disk[u].kinds
<1>a. /\ disk \in [Units -> Disk] /\ sel \in Units /\ bm \in Units \cup {None}
      /\ \A u \in Units : Laid(disk[u].super)
  BY DEF Sound, TypeOK, Geometric
<1> DEFINE B == [disk[sel] EXCEPT !.bm = bm]
           S == [disk[sel] EXCEPT !.super = Sector0("junk")]
<1>b. /\ B \in Disk /\ B.super = disk[sel].super
      /\ B.used = disk[sel].used /\ B.kinds = disk[sel].kinds
      /\ S \in Disk /\ S.super = Sector0("junk")
      /\ S.used = disk[sel].used /\ S.kinds = disk[sel].kinds
  BY <1>a, Sector0Type DEF Disk
<1>c. Saved = disk \/ Saved = [disk EXCEPT ![sel] = B] \/ Saved = [disk EXCEPT ![sel] = S]
  BY <1>a DEF Saved
<1>d. Laid(Sector0("junk"))
  BY Sector0Type
<1> HIDE DEF B, S
<1> QED BY <1>a, <1>b, <1>c, <1>d

\* A format's geometry is that of some number of sectors.
LEMMA FormatSound ==
  ASSUME Sound, NEW quick \in BOOLEAN, Format(quick)
  PROVE  /\ disk' \in [Units -> Disk] /\ sel' \in Units /\ gsb' \in Superblock
         /\ geo' \in Geometry /\ bm' \in Units \cup {None} /\ cwd' \in Nat
         /\ Geometric'
<1>a. TypeOK /\ Geometric
  BY DEF Sound
<1> DEFINE n    == table[cur + 1].total
           s    == Layout(n)
           dirs == IF Room(s) = 0 THEN 0 ELSE Least(NDefDirs, Room(s) - 1)
           K    == [i \in Inodes |-> IF i <= dirs THEN "dir"
                                    ELSE IF quick THEN "none" ELSE disk[Current].kinds[i]]
           D    == [super |-> s, bm |-> Current, root |-> Room(s) > 0,
                    used |-> 1 .. dirs, kinds |-> K]
<1>1. cur + 1 \in DOMAIN table /\ Current \in Units
  BY <1>a, CurrentIsListed DEF Format, Shell
<1>2. n \in Nat /\ Current \in Units
  BY <1>a, <1>1, EntryOfTable
<1>3. s \in Superblock /\ Laid(s) /\ FormatGeometry(s.total) = MountGeometry(s)
      /\ MountGeometry(s) \in Geometry
  <2> HIDE DEF n
  <2> QED BY <1>2, LayoutType, MountIsFormat DEF Laid
<1>4. dirs \in Nat /\ 1 .. dirs \in SUBSET Inodes
  <2> HIDE DEF n, s
  <2>1. Room(s) \in Nat
    BY <1>3 DEF Room, Superblock
  <2>2. dirs \in Nat /\ dirs <= NDefDirs
    BY <2>1, BoundsAssumption DEF Least
  <2> HIDE DEF dirs
  <2> QED BY <2>2, BoundsAssumption DEF Inodes
<1>5. K \in [Inodes -> Kinds \cup {"none"}]
  <2> HIDE DEF dirs
  <2>1. disk[Current].kinds \in [Inodes -> Kinds \cup {"none"}]
    BY <1>a, <1>2 DEF TypeOK, Disk
  <2> QED BY <2>1 DEF Kinds
<1>6. D \in Disk /\ D.super = s
  <2> HIDE DEF s, dirs, K
  <2> QED BY <1>2, <1>3, <1>4, <1>5 DEF Disk
<1>7. /\ disk' = [disk EXCEPT ![Current] = D] /\ sel' = Current
      /\ gsb' = s /\ geo' = FormatGeometry(s.total) /\ bm' = Current
      /\ cwd' \in {0, 1}
  BY DEF Format
<1> HIDE DEF D, s, K
<1>8. disk' \in [Units -> Disk] /\ \A u \in Units : disk'[u].super = disk[u].super \/ disk'[u].super = s
  BY <1>a, <1>2, <1>6, <1>7 DEF TypeOK
<1> QED BY <1>a, <1>2, <1>3, <1>7, <1>8 DEF Geometric

LEMMA SoundStep == Sound /\ [Next]_vars => Sound'
<1> SUFFICES ASSUME Sound, [Next]_vars PROVE Sound'
  OBVIOUS
<1> USE UnitsAssumption, BoundsAssumption
<1>a. TypeOK /\ Geometric /\ (power = "boot" => cur = 0)
  BY DEF Sound
<1>b. Current \in Units \/ table = << >>
  BY <1>a, CurrentIsListed
<1>1. CASE drives
  <2>1. /\ power = "boot" /\ probe < Len(Scan) /\ probe' = probe + 1
        /\ UNCHANGED <<disk, cur, sel, gsb, geo, bm, cwd, power, player, slips>>
    BY <1>1 DEF drives
  <2>2. Scan[probe + 1] \in Units
    BY <1>a, <2>1 DEF TypeOK
  <2>3. [unit |-> Scan[probe + 1], total |-> Sectors[Scan[probe + 1]]] \in Drive
    BY <2>2 DEF Drive
  <2>4. table' \in Seq(Drive) /\ (table' # << >> => 0 < Len(table'))
    BY <1>a, <1>1, <2>3 DEF drives, TypeOK
  <2>5. TypeOK'
    BY <1>a, <2>1, <2>4 DEF TypeOK
  <2> QED BY <1>a, <2>1, <2>5 DEF Sound, Geometric
<1>2. CASE Boot
  <2>1. power' = "on" /\ UNCHANGED <<table, probe, cur, cwd, player, slips>>
    BY <1>2 DEF Boot
  <2>2. CASE table = << >>
    <3>1. UNCHANGED <<disk, sel, gsb, geo, bm>>
      BY <1>2, <2>2 DEF Boot
    <3> QED BY <1>a, <2>1, <3>1 DEF Sound, TypeOK, Geometric
  <2>3. CASE table # << >>
    <3>1. init_fs(Current)
      BY <1>2, <2>3 DEF Boot
    <3> QED BY <1>a, <1>b, <2>1, <2>3, <3>1, MountSound DEF Sound, TypeOK
  <2> QED BY <2>2, <2>3
<1>3. CASE Reboot
  <2>1. /\ gsb' = Sector0("zero") /\ geo' = NoGeometry
        /\ table' = << >> /\ probe' = 0 /\ cur' = 0 /\ sel' = HomeUnit
        /\ power' = "boot" /\ bm' = None /\ cwd' = 0 /\ player' = "none"
        /\ UNCHANGED <<disk, slips>>
    BY <1>3 DEF Reboot
  <2>2. /\ gsb' \in Superblock /\ gsb'.magic = "zero" /\ Laid(gsb')
        /\ geo' \in Geometry
    BY <2>1, Sector0Type DEF NoGeometry, Geometry
  <2>3. TypeOK'
    BY <1>a, <2>1, <2>2 DEF TypeOK
  <2> QED BY <1>a, <2>1, <2>2, <2>3 DEF Sound, Geometric
<1>4. ASSUME NEW i \in 1 .. MaxDrives, Use(i) PROVE Sound'
  <2>1. /\ power = "on" /\ i \in DOMAIN table /\ cur' = i - 1 /\ init_fs(table[i].unit)
        /\ Careless(cwd # 0)
        /\ UNCHANGED <<table, probe, cwd, power, player>>
    BY <1>4 DEF Use, Shell
  <2>2. table[i].unit \in Units
    BY <1>a, <2>1, EntryOfTable
  <2>3. cur' \in Nat /\ cur' < Len(table) /\ slips' \in Nat
    BY <1>a, <2>1 DEF TypeOK, Careless
  <2> QED BY <1>a, <2>1, <2>2, <2>3, MountSound DEF Sound, TypeOK
<1>5. ASSUME NEW u \in Units, UseNew(u) PROVE Sound'
  <2>1. /\ power = "on" /\ table' = Append(table, [unit |-> u, total |-> 0])
        /\ cur' = Len(table) /\ init_fs(u) /\ slips' = slips + 1
        /\ UNCHANGED <<probe, cwd, power, player>>
    BY <1>5 DEF UseNew, Shell, Careless
  <2>2. [unit |-> u, total |-> 0] \in Drive
    BY DEF Drive
  <2>3. table' \in Seq(Drive) /\ cur' \in Nat /\ cur' < Len(table')
    BY <1>a, <2>1, <2>2 DEF TypeOK
  <2> QED BY <1>a, <2>1, <2>3, MountSound DEF Sound, TypeOK
<1>6. ASSUME NEW u \in Units, UseFull(u) PROVE Sound'
  BY <1>a, <1>6 DEF UseFull, Careless, Sound, TypeOK, Geometric, Shell
<1>7. CASE Ld
  BY <1>a, <1>b, <1>7 DEF Ld, Sound, TypeOK, Geometric, Shell
<1>8. ASSUME NEW quick \in BOOLEAN, Format(quick) PROVE Sound'
  <2>1. UNCHANGED <<table, probe, cur, power, player, slips>> /\ power = "on"
    BY <1>8 DEF Format, Shell
  <2> QED BY <1>a, <1>8, <2>1, FormatSound DEF Sound, TypeOK
<1>9. CASE Shutdown
  <2>1. /\ disk' = Saved /\ power' = "off"
        /\ UNCHANGED <<table, probe, cur, sel, gsb, geo, bm, cwd, player>>
    BY <1>9 DEF Shutdown
  <2>2. slips' \in Nat
    BY <1>a, <1>9 DEF Shutdown, Careless, TypeOK
  <2> QED BY <1>a, <2>1, <2>2, SavedSound DEF Sound, TypeOK, Geometric
<1>10. ASSUME NEW k \in Kinds, NEW i \in Inodes, Create(k, i) PROVE Sound'
  <2>1. /\ disk' = [Saved EXCEPT ![sel] = NewInode(Saved[sel], i, k)] \/ disk' = Saved
        /\ UNCHANGED <<table, probe, cur, sel, gsb, geo, bm, cwd, power, player, slips>>
    BY <1>10 DEF Create
  <2>2. Saved[sel] \in Disk /\ Saved \in [Units -> Disk] /\ sel \in Units
    BY <1>a, SavedSound DEF TypeOK
  <2>3. NewInode(Saved[sel], i, k) \in Disk /\ NewInode(Saved[sel], i, k).super = Saved[sel].super
    BY <2>2, NewInodeType
  <2>4. disk' \in [Units -> Disk] /\ \A u \in Units : disk'[u].super = Saved[u].super
    BY <2>1, <2>2, <2>3
  <2> QED BY <1>a, <2>1, <2>4, SavedSound DEF Sound, TypeOK, Geometric
<1>11. ASSUME NEW i \in Inodes, Dl(i) PROVE Sound'
  <2>1. /\ disk' = [Saved EXCEPT ![sel] = free_inode(Saved[sel], i)] \/ disk' = Saved
        /\ UNCHANGED <<table, probe, cur, sel, gsb, geo, bm, cwd, power, player>>
        /\ slips' \in Nat
    BY <1>a, <1>11 DEF Dl, Careless, TypeOK
  <2>2. Saved[sel] \in Disk /\ Saved \in [Units -> Disk] /\ sel \in Units
    BY <1>a, SavedSound DEF TypeOK
  <2>3. free_inode(Saved[sel], i) \in Disk /\ free_inode(Saved[sel], i).super = Saved[sel].super
    BY <2>2, FreeInodeType
  <2>4. disk' \in [Units -> Disk] /\ \A u \in Units : disk'[u].super = Saved[u].super
    BY <2>1, <2>2, <2>3
  <2> QED BY <1>a, <2>1, <2>4, SavedSound DEF Sound, TypeOK, Geometric
<1>12. ASSUME NEW i \in 0 .. MaxFiles, Cd(i) PROVE Sound'
  BY <1>a, <1>12 DEF Cd, Careless, Sound, TypeOK, Geometric, Shell
<1>13. CASE PlayBegin \/ PlaySelect \/ PlayEnd \/ PlayExit
  BY <1>a, <1>13 DEF PlayBegin, PlaySelect, PlayEnd, PlayExit, Careless, Sound, TypeOK,
                     Geometric, Shell
<1>14. CASE UNCHANGED vars
  BY <1>a, <1>14 DEF vars, Sound, TypeOK, Geometric
<1> QED BY <1>1, <1>2, <1>3, <1>4, <1>5, <1>6, <1>7, <1>8, <1>9, <1>10, <1>11, <1>12, <1>13,
           <1>14 DEF Next

THEOREM SoundAlways == Spec => []Sound
BY SoundInit, SoundStep, PTL DEF Spec

\* Every variable keeps its type, and g_current_drive is an entry of the table.
THEOREM TypeCorrect == Spec => []TypeOK
<1>1. Sound => TypeOK
  BY DEF Sound
<1> QED BY <1>1, SoundAlways, PTL

\* The three copies of the geometry arithmetic agree, for drives of every size.
THEOREM GeometriesAgree == Spec => []GeometryAgrees
<1>1. Sound => GeometryAgrees
  <2> SUFFICES ASSUME Sound, gsb.magic = "cos"
               PROVE  /\ geo = FormatGeometry(gsb.total)
                      /\ gsb.istart = gsb.bstart + geo.bsec + geo.isec
                      /\ gsb.dstart = gsb.istart + geo.table
    BY DEF GeometryAgrees
  <2>1. PICK n \in Nat : gsb = Layout(n)
    BY DEF Sound, Geometric, Laid
  <2>2. geo = MountGeometry(gsb)
    BY DEF Sound, Geometric
  <2> QED BY <2>1, <2>2, MountIsFormat, LayoutFits
<1> QED BY <1>1, SoundAlways, PTL

\* The bitmaps of a mounted file system fit the arrays in memory and mark
\* every block and inode, for drives of every size.
THEOREM BitmapsAlwaysFit == Spec => []BitmapsFit
<1>1. Sound => BitmapsFit
  <2> SUFFICES ASSUME Sound, gsb.magic = "cos" PROVE BitmapsFit
    BY DEF BitmapsFit
  <2>1. PICK n \in Nat : gsb = Layout(n)
    BY DEF Sound, Geometric, Laid
  <2>2. geo = MountGeometry(gsb)
    BY DEF Sound, Geometric
  <2> QED BY <2>1, <2>2, LayoutFits DEF BitmapsFit
<1> QED BY <1>1, SoundAlways, PTL
-----------------------------------------------------------------------------
(* Careful use                                                             *)

AtHome(u) == Formatted(u) => disk[u].bm = u

\* The machine is on and the current drive is the one mounted: the superblock
\* in memory is its own, and so are the bitmaps, the root and g_current_dir if
\* it has a file system.
Mounted ==
  /\ sel = Current /\ gsb = disk[Current].super
  /\ gsb.magic = "cos" =>
       /\ bm = Current
       /\ Room(gsb) > 0 => disk[Current].root /\ IsDir(disk[Current], cwd)

HomeInv ==
  /\ player = "none"
  /\ \A u \in Units : AtHome(u)
  /\ power = "boot" \/ table = << >> => gsb.magic # "cos"
  /\ power = "boot" => cwd = 0
  /\ power # "boot" /\ table # << >> => Mounted

\* No careless act so far, and everything is where it belongs.
Cared == slips = 0 => HomeInv

\* Without a player, a saved disk has the bitmaps of the drive that is mounted.
LEMMA SavedAtHome ==
  ASSUME Sound, HomeInv, gsb.magic = "cos", power # "boot"
  PROVE  /\ sel = Current /\ table # << >> /\ sel \in Units
         /\ Saved \in [Units -> Disk]
         /\ \A u \in Units : /\ Saved[u].super = disk[u].super /\ Saved[u].root = disk[u].root
                             /\ Saved[u].used = disk[u].used /\ Saved[u].kinds = disk[u].kinds
                             /\ AtHome(u) => (Formatted(u) => Saved[u].bm = u)
                             /\ u # sel => Saved[u] = disk[u]
<1>1. table # << >> /\ Mounted
  BY DEF HomeInv
<1>2. sel = Current /\ bm = sel /\ sel \in Units
  BY <1>1, CurrentIsListed DEF Mounted, Sound
<1>3. disk \in [Units -> Disk]
  BY DEF Sound, TypeOK
<1> DEFINE B == [disk[sel] EXCEPT !.bm = bm]
<1>4. /\ B.super = disk[sel].super /\ B.root = disk[sel].root /\ B.bm = sel
      /\ B.used = disk[sel].used /\ B.kinds = disk[sel].kinds
  BY <1>2, <1>3 DEF Disk
<1>5. Saved = disk \/ Saved = [disk EXCEPT ![sel] = B]
  BY <1>3 DEF Saved
<1> HIDE DEF B
<1>6. Saved \in [Units -> Disk]
  BY SavedSound
<1> QED BY <1>1, <1>2, <1>3, <1>4, <1>5, <1>6 DEF AtHome

\* init_fs of what is to be the current drive, when the shell stands in the root.
LEMMA MountCared ==
  ASSUME Sound, HomeInv, NEW u \in Units, init_fs(u), cwd' = 0,
         table' # << >>, table'[cur' + 1].unit = u, player' = "none", power' = "on"
  PROVE  /\ HomeInv'
         /\ \A v \in Units : disk'[v] # disk[v] => v = u
<1>1. disk \in [Units -> Disk] /\ disk[u] \in Disk
  BY DEF Sound, TypeOK
<1>2. Current' = u
  BY DEF Current
<1>3. sel' = u /\ gsb' = disk[u].super
  BY DEF init_fs
<1>4. CASE disk[u].super.magic = "cos"
  <2> DEFINE r == disk[u].root \/ Room(disk[u].super) > 0
             D == [disk[u] EXCEPT !.root = r]
  <2>1. bm' = disk[u].bm /\ disk' = [disk EXCEPT ![u].root = @ \/ Room(disk[u].super) > 0]
    BY <1>4 DEF init_fs
  <2>2. disk' = [disk EXCEPT ![u] = D]
    BY <1>1, <2>1
  <2>3. D.super = disk[u].super /\ D.bm = disk[u].bm /\ (Room(disk[u].super) > 0 => D.root)
    BY <1>1 DEF Disk
  <2> HIDE DEF D
  <2>4. /\ \A v \in Units : v # u => disk'[v] = disk[v]
        /\ disk'[u] = D
    BY <1>1, <2>2
  <2>5. \A v \in Units : AtHome(v)'
    BY <2>3, <2>4 DEF HomeInv, AtHome, Formatted
  <2>6. bm' = u
    BY <1>4, <2>1 DEF HomeInv, AtHome, Formatted
  <2>7. Mounted'
    BY <1>2, <1>3, <2>3, <2>4, <2>6 DEF Mounted, IsDir
  <2> QED BY <2>4, <2>5, <2>7 DEF HomeInv
<1>5. CASE disk[u].super.magic # "cos"
  <2>1. UNCHANGED <<bm, disk>>
    BY <1>5 DEF init_fs
  <2>2. Mounted'
    BY <1>2, <1>3, <1>5, <2>1 DEF Mounted
  <2> QED BY <2>1, <2>2 DEF HomeInv, AtHome, Formatted
<1> QED BY <1>4, <1>5

LEMMA FormatCared ==
  ASSUME Sound, HomeInv, NEW quick \in BOOLEAN, Format(quick)
  PROVE  /\ HomeInv'
         /\ \A v \in Units : disk'[v] # disk[v] => v = Current
<1> DEFINE s    == Layout(table[cur + 1].total)
           dirs == IF Room(s) = 0 THEN 0 ELSE Least(NDefDirs, Room(s) - 1)
           K    == [i \in Inodes |-> IF i <= dirs THEN "dir"
                                    ELSE IF quick THEN "none" ELSE disk[Current].kinds[i]]
           D    == [super |-> s, bm |-> Current, root |-> Room(s) > 0,
                    used |-> 1 .. dirs, kinds |-> K]
<1>1. /\ power = "on" /\ table # << >> /\ gsb' = s /\ sel' = Current /\ bm' = Current
      /\ cwd' = IF dirs > 0 THEN 1 ELSE 0
      /\ UNCHANGED <<table, probe, cur, power, player, slips>>
      /\ disk' = [disk EXCEPT ![Current] = D]
  BY DEF Format, Shell
<1>2. Current \in Units /\ disk \in [Units -> Disk] /\ Current' = Current
  BY <1>1, CurrentIsListed DEF Sound, TypeOK, Current
<1>3. /\ D.super = s /\ D.bm = Current /\ (Room(s) > 0 => D.root)
      /\ D.used = 1 .. dirs /\ D.kinds = K
  OBVIOUS
<1>4. dirs > 0 => 1 \in 1 .. dirs /\ K[1] = "dir"
  <2>1. table[cur + 1].total \in Nat
    BY <1>1, CurrentIsListed, EntryOfTable DEF Sound
  <2>2. s \in Superblock
    BY <2>1, LayoutType
  <2> HIDE DEF s
  <2>3. Room(s) \in Nat
    BY <2>2 DEF Room, Superblock
  <2>4. dirs \in Nat
    BY <2>3, BoundsAssumption DEF Least
  <2> HIDE DEF dirs
  <2>5. 1 \in Inodes
    BY BoundsAssumption DEF Inodes
  <2> QED BY <2>4, <2>5
<1>5. Room(s) > 0 => IsDir(D, cwd')
  <2> HIDE DEF s, dirs, K
  <2> QED BY <1>1, <1>3, <1>4 DEF IsDir
<1> HIDE DEF s, dirs, K, D
<1>6. disk'[Current] = D /\ \A v \in Units : v # Current => disk'[v] = disk[v]
  BY <1>1, <1>2
<1>7. Mounted'
  BY <1>1, <1>2, <1>3, <1>5, <1>6 DEF Mounted
<1>8. \A v \in Units : AtHome(v)'
  BY <1>2, <1>3, <1>6 DEF HomeInv, AtHome, Formatted
<1> QED BY <1>1, <1>6, <1>7, <1>8 DEF HomeInv

\* A saved disk whose inodes change, but not the directory the shell stands in.
LEMMA InodesCared ==
  ASSUME Sound, HomeInv, gsb.magic = "cos", power = "on", NEW D \in Disk,
         D.super = Saved[sel].super, D.root = Saved[sel].root, D.bm = Saved[sel].bm,
         cwd \in Saved[sel].used => cwd \in D.used /\ D.kinds[cwd] = Saved[sel].kinds[cwd],
         disk' = [Saved EXCEPT ![sel] = D],
         UNCHANGED <<table, probe, cur, sel, gsb, geo, bm, cwd, power, player>>
  PROVE  /\ HomeInv'
         /\ \A v \in Units : disk'[v] # disk[v] => v = Current
<1>1. /\ sel = Current /\ table # << >> /\ sel \in Units /\ Saved \in [Units -> Disk]
      /\ \A u \in Units : /\ Saved[u].super = disk[u].super /\ Saved[u].root = disk[u].root
                          /\ Saved[u].used = disk[u].used /\ Saved[u].kinds = disk[u].kinds
                          /\ AtHome(u) => (Formatted(u) => Saved[u].bm = u)
                          /\ u # sel => Saved[u] = disk[u]
  BY SavedAtHome
<1>2. disk'[sel] = D /\ \A v \in Units : v # sel => disk'[v] = disk[v]
  BY <1>1
<1>3. IsDir(disk[sel], cwd) => IsDir(disk'[sel], cwd)
  BY <1>1, <1>2 DEF IsDir
<1>4. Mounted'
  BY <1>1, <1>2, <1>3 DEF HomeInv, Mounted, Current
<1>5. \A v \in Units : AtHome(v)'
  BY <1>1, <1>2 DEF HomeInv, AtHome, Formatted
<1> QED BY <1>1, <1>2, <1>4, <1>5 DEF HomeInv

\* A new file or directory takes an inode that was free, hence not the shell's.
LEMMA CreateCared ==
  ASSUME Sound, HomeInv, NEW k \in Kinds, NEW i \in Inodes, Create(k, i)
  PROVE  /\ HomeInv'
         /\ \A v \in Units : disk'[v] # disk[v] => v = Current
<1>1. /\ power = "on" /\ gsb.magic = "cos" /\ (bm = sel => i \notin disk[sel].used)
      /\ sel = Current => disk' = [Saved EXCEPT ![sel] = NewInode(Saved[sel], i, k)]
      /\ UNCHANGED <<table, probe, cur, sel, gsb, geo, bm, cwd, power, player>>
  BY DEF Create, Shell, alloc_inode
<1>2. /\ sel = Current /\ table # << >> /\ sel \in Units /\ Saved \in [Units -> Disk]
      /\ Saved[sel].used = disk[sel].used
  BY <1>1, SavedAtHome
<1>3. i \notin Saved[sel].used
  BY <1>1, <1>2 DEF HomeInv, Mounted
<1> DEFINE D == NewInode(Saved[sel], i, k)
<1>4. /\ D \in Disk /\ D.super = Saved[sel].super
      /\ D.bm = Saved[sel].bm /\ D.root = Saved[sel].root /\ D.used = Saved[sel].used \cup {i}
      /\ \A j \in Inodes : j # i => D.kinds[j] = Saved[sel].kinds[j]
  BY <1>2, NewInodeType
<1>5. disk' = [Saved EXCEPT ![sel] = D]
  BY <1>1, <1>2
<1> HIDE DEF D
<1>6. cwd \in Saved[sel].used => cwd \in D.used /\ D.kinds[cwd] = Saved[sel].kinds[cwd]
  <2>1. Saved[sel].used \subseteq Inodes
    BY <1>2 DEF Disk
  <2> QED BY <1>3, <1>4, <2>1
<1> QED BY <1>1, <1>4, <1>5, <1>6, InodesCared

LEMMA DlCared ==
  ASSUME Sound, HomeInv, NEW i \in Inodes, Dl(i), i # cwd
  PROVE  /\ HomeInv'
         /\ \A v \in Units : disk'[v] # disk[v] => v = Current
<1>1. /\ power = "on" /\ gsb.magic = "cos"
      /\ sel = Current => disk' = [Saved EXCEPT ![sel] = free_inode(Saved[sel], i)]
      /\ UNCHANGED <<table, probe, cur, sel, gsb, geo, bm, cwd, power, player>>
  BY DEF Dl, Shell
<1>2. sel = Current /\ sel \in Units /\ Saved \in [Units -> Disk]
  BY <1>1, SavedAtHome
<1> DEFINE D == free_inode(Saved[sel], i)
<1>3. /\ D \in Disk /\ D.super = Saved[sel].super
      /\ D.bm = Saved[sel].bm /\ D.root = Saved[sel].root
      /\ D.used = Saved[sel].used \ {i} /\ D.kinds = Saved[sel].kinds
  BY <1>2, FreeInodeType
<1>4. disk' = [Saved EXCEPT ![sel] = D]
  BY <1>1, <1>2
<1> HIDE DEF D
<1>5. cwd \in Saved[sel].used => cwd \in D.used /\ D.kinds[cwd] = Saved[sel].kinds[cwd]
  BY <1>3
<1> QED BY <1>1, <1>3, <1>4, <1>5, InodesCared

LEMMA ShutdownCared ==
  ASSUME Sound, HomeInv, Shutdown, gsb.magic = "cos"
  PROVE  /\ HomeInv'
         /\ \A v \in Units : disk'[v] # disk[v] => v = Current
<1>1. /\ power = "on" /\ disk' = Saved /\ power' = "off"
      /\ UNCHANGED <<table, probe, cur, sel, gsb, geo, bm, cwd, player>>
  BY DEF Shutdown
<1>2. /\ sel = Current /\ table # << >> /\ sel \in Units
      /\ \A u \in Units : /\ Saved[u].super = disk[u].super /\ Saved[u].root = disk[u].root
                          /\ Saved[u].used = disk[u].used /\ Saved[u].kinds = disk[u].kinds
                          /\ AtHome(u) => (Formatted(u) => Saved[u].bm = u)
                          /\ u # sel => Saved[u] = disk[u]
  BY <1>1, SavedAtHome
<1>3. Mounted'
  BY <1>1, <1>2 DEF HomeInv, Mounted, Current, IsDir
<1>4. \A v \in Units : AtHome(v)'
  BY <1>1, <1>2 DEF HomeInv, AtHome, Formatted
<1> QED BY <1>1, <1>2, <1>3, <1>4 DEF HomeInv

LEMMA CaredInit == Init => Cared
BY Sector0Type DEF Init, Cared, HomeInv, AtHome, Formatted, BlankDisk

\* A step without a careless act keeps everything where it belongs, and writes
\* to the current drive only.
LEMMA CaredStep ==
  ASSUME Sound, Cared, [Next]_vars, slips' = 0
  PROVE  /\ HomeInv'
         /\ \A v \in Units : disk'[v] # disk[v] => v = table'[cur' + 1].unit
<1>a. TypeOK /\ (power = "boot" => cur = 0) /\ disk \in [Units -> Disk]
  BY DEF Sound, TypeOK
<1>b. slips = 0 /\ HomeInv
  <2>1. slips \in Nat
    BY <1>a DEF TypeOK
  <2>2. slips' = slips \/ slips' = slips + 1
    BY DEF Next, vars, drives, Boot, Reboot, Use, UseNew, UseFull, Ld, Format, Shutdown, Create,
           Dl, Cd, PlayBegin, PlaySelect, PlayEnd, PlayExit, Careless
  <2> QED BY <2>1, <2>2 DEF Cared
<1>1. CASE drives
  BY <1>b, <1>1 DEF drives, HomeInv, AtHome, Formatted
<1>2. CASE Boot
  <2>1. power = "boot" /\ power' = "on" /\ UNCHANGED <<table, probe, cur, cwd, player, slips>>
    BY <1>2 DEF Boot
  <2>2. CASE table = << >>
    BY <1>2, <1>b, <2>1, <2>2 DEF Boot, HomeInv, AtHome, Formatted
  <2>3. CASE table # << >>
    <3>1. init_fs(Current) /\ Current \in Units
      BY <1>2, <1>a, <2>3, CurrentIsListed DEF Boot
    <3>2. table'[cur' + 1].unit = Current /\ cwd' = 0 /\ player' = "none" /\ table' # << >>
      BY <1>b, <2>1, <2>3 DEF HomeInv, Current
    <3> QED BY <1>b, <2>1, <3>1, <3>2, MountCared
  <2> QED BY <2>2, <2>3
<1>3. CASE Reboot
  BY <1>b, <1>3, Sector0Type DEF Reboot, HomeInv, AtHome, Formatted
<1>4. ASSUME NEW i \in 1 .. MaxDrives, Use(i)
      PROVE  /\ HomeInv'
             /\ \A v \in Units : disk'[v] # disk[v] => v = table'[cur' + 1].unit
  <2>1. /\ power = "on" /\ table # << >> /\ i \in DOMAIN table /\ cur' = i - 1
        /\ init_fs(table[i].unit) /\ Careless(cwd # 0)
        /\ UNCHANGED <<table, probe, cwd, power, player>>
    BY <1>4 DEF Use, Shell
  <2>2. cwd = 0
    BY <1>b, <2>1 DEF Careless
  <2>3. table[i].unit \in Units /\ table'[cur' + 1].unit = table[i].unit
    BY <1>a, <2>1, EntryOfTable
  <2>4. player' = "none"
    BY <1>b, <2>1 DEF HomeInv
  <2> QED BY <1>b, <2>1, <2>2, <2>3, <2>4, MountCared
<1>5. ASSUME NEW u \in Units, UseNew(u) \/ UseFull(u) PROVE FALSE
  BY <1>b, <1>5 DEF UseNew, UseFull, Careless
<1>6. CASE Ld
  BY <1>b, <1>6 DEF Ld, Shell, HomeInv, Mounted, Current, IsDir, AtHome, Formatted
<1>7. ASSUME NEW quick \in BOOLEAN, Format(quick)
      PROVE  /\ HomeInv'
             /\ \A v \in Units : disk'[v] # disk[v] => v = table'[cur' + 1].unit
  <2>1. table'[cur' + 1].unit = Current
    BY <1>7 DEF Format, Current
  <2> QED BY <1>b, <1>7, <2>1, FormatCared
<1>8. CASE Shutdown
  <2>1. gsb.magic = "cos" /\ table'[cur' + 1].unit = Current
    BY <1>b, <1>8 DEF Shutdown, Careless, Current
  <2> QED BY <1>b, <1>8, <2>1, ShutdownCared
<1>9. ASSUME NEW k \in Kinds, NEW i \in Inodes, Create(k, i)
      PROVE  /\ HomeInv'
             /\ \A v \in Units : disk'[v] # disk[v] => v = table'[cur' + 1].unit
  <2>1. table'[cur' + 1].unit = Current
    BY <1>9 DEF Create, Current
  <2> QED BY <1>b, <1>9, <2>1, CreateCared
<1>10. ASSUME NEW i \in Inodes, Dl(i)
       PROVE  /\ HomeInv'
              /\ \A v \in Units : disk'[v] # disk[v] => v = table'[cur' + 1].unit
  <2>1. i # cwd /\ table'[cur' + 1].unit = Current
    BY <1>b, <1>10 DEF Dl, Careless, Current
  <2> QED BY <1>b, <1>10, <2>1, DlCared
<1>11. ASSUME NEW i \in 0 .. MaxFiles, Cd(i)
       PROVE  /\ HomeInv'
              /\ \A v \in Units : disk'[v] # disk[v] => v = table'[cur' + 1].unit
  <2>1. /\ power = "on" /\ table # << >> /\ cwd' = i
        /\ i # 0 => i \in disk[sel].used /\ disk[sel].kinds[i] = "dir"
        /\ UNCHANGED <<disk, table, probe, cur, sel, gsb, geo, bm, power, player>>
    BY <1>b, <1>11 DEF Cd, Shell, Careless
  <2>2. Mounted
    BY <1>b, <2>1 DEF HomeInv
  <2>3. Mounted'
    BY <2>1, <2>2 DEF Mounted, Current, IsDir
  <2> QED BY <1>b, <2>1, <2>3 DEF HomeInv, AtHome, Formatted
<1>12. CASE PlayBegin \/ PlaySelect \/ PlayEnd \/ PlayExit
  BY <1>b, <1>12 DEF PlayBegin, PlaySelect, PlayEnd, PlayExit, Careless, HomeInv
<1>13. CASE UNCHANGED vars
  BY <1>b, <1>13 DEF vars, HomeInv, Mounted, Current, IsDir, AtHome, Formatted
<1> QED BY <1>1, <1>2, <1>3, <1>4, <1>5, <1>6, <1>7, <1>8, <1>9, <1>10, <1>11, <1>12, <1>13
        DEF Next

LEMMA CaredAlways == Spec => [](Sound /\ Cared)
<1>1. Sound /\ Cared /\ [Next]_vars => Cared'
  BY CaredStep DEF Cared
<1> QED BY CaredInit, SoundInit, SoundStep, <1>1, PTL DEF Spec

\* Used with care, a drive with a file system always holds its own bitmaps.
THEOREM BitmapsStayHome == Spec => []BitmapsAtHome
<1>1. Cared => BitmapsAtHome
  BY DEF Cared, HomeInv, AtHome, BitmapsAtHome
<1> QED BY <1>1, CaredAlways, PTL

\* Used with care, the shell stands in a directory of the current drive, also
\* after files and other directories have been deleted and their inodes reused.
THEOREM CwdStaysDirectory == Spec => []CarefulCwd
<1>1. Cared => CarefulCwd
  BY DEF Cared, HomeInv, Mounted, CarefulCwd, CwdIsDirectory
<1> QED BY <1>1, CaredAlways, PTL

\* Used with care, the shell's writes go to the drive usedisk called current.
THEOREM WritesGoHome == Spec => CarefulWritesStayHome
<1>1. Sound /\ Cared /\ [Next]_vars
        => [slips' = 0 => \A u \in Units : disk'[u] # disk[u] => u = table'[cur' + 1].unit]_vars
  BY CaredStep
<1> QED BY <1>1, CaredAlways, PTL DEF Spec, CarefulWritesStayHome
=============================================================================
