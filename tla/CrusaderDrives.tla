--------------------------- MODULE CrusaderDrives ---------------------------
(***************************************************************************)
(* Which drive the file system works on: the table drives() fills at boot, *)
(* the geometry a format computes and a mount recomputes, the memory that  *)
(* survives a change of drive, and the player task that selects a drive of *)
(* its own.  What CrusaderFs does inside one file system is one step here. *)
(*                                                                         *)
(* The kernel keeps one copy of everything: g_superblock, the four derived *)
(* counts, the two bitmaps, g_current_dir and the selected unit.  init_fs  *)
(* replaces some of them on a change of drive; the rest stay as they were. *)
(***************************************************************************)
EXTENDS Integers, Sequences

CONSTANTS
  Units,       \* ATA units: a port and master or slave
  Scan,        \* the units drives() probes, in order
  Sectors,     \* what a unit reports to IDENTIFY, 0 when it gives no answer
  MaxDrives,   \* MAX_DRIVES
  HomeUnit,    \* 0x1F0 master, which cmd_playraw selects when it leaves
  PlayUnit,    \* 0x1F0 slave, which it plays from
  NDefDirs,    \* directories create_defdirs makes
  None,        \* no drive: bitmaps of zeroes
  MaxFiles,    \* bound: inodes of a drive, beside the root's
  MaxSlips     \* bound: careless acts

ASSUME UnitsAssumption ==
  /\ HomeUnit \in Units /\ PlayUnit \in Units /\ None \notin Units
  /\ Scan \in Seq(Units)
  /\ Sectors \in [Units -> Nat]
ASSUME BoundsAssumption ==
  MaxDrives \in Nat \ {0} /\ MaxFiles \in Nat /\ NDefDirs \in 1 .. MaxFiles /\ MaxSlips \in Nat

SECTOR_SIZE           == 512
INODE_SIZE            == 128
BLOCK_BITMAP_MAX_SIZE == 64 * 512   \* 32768
INODE_BITMAP_SIZE     == 64 * 512   \* 32768

-----------------------------------------------------------------------------
(* Geometry                                                                *)

CeilDiv(n, d) == (n + d - 1) \div d

\* superblock_t; magic says what the first word of sector 0 is.
Superblock == [magic : {"cos", "zero", "junk"}, total : Nat, inodes : Nat,
               bstart : Nat, istart : Nat, dstart : Nat]

Sector0(m) == [magic |-> m, total |-> 0, inodes |-> 0,
               bstart |-> 0, istart |-> 0, dstart |-> 0]

Geometry == [bytes : Nat, bsec : Nat, isec : Nat, table : Nat]

NoGeometry == [bytes |-> 0, bsec |-> 0, isec |-> 0, table |-> 0]

\* Mutant: the count of blocks is not limited.
BlocksOfMutant(sectors) == sectors

\* total_blocks: no more than the bitmaps in memory can mark.
BlocksOf(sectors) ==
  LET t == IF sectors > BLOCK_BITMAP_MAX_SIZE * 8 THEN BLOCK_BITMAP_MAX_SIZE * 8 ELSE sectors
  IN IF t \div 4 > INODE_BITMAP_SIZE * 8 THEN INODE_BITMAP_SIZE * 8 * 4 ELSE t

\* A quarter as many inodes as blocks, in whole bytes of bitmap, eight at least.
InodesFor(t) ==
  LET c == ((t \div 4 + 7) \div 8) * 8 IN IF c = 0 THEN 8 ELSE c

\* Mutant: bits are rounded down to whole bytes.
FormatGeometryMutant(t) ==
  [bytes |-> t \div 8,
   bsec  |-> CeilDiv(t \div 8, SECTOR_SIZE),
   isec  |-> CeilDiv(CeilDiv(InodesFor(t), 8), SECTOR_SIZE),
   table |-> CeilDiv(InodesFor(t) * INODE_SIZE, SECTOR_SIZE)]

\* The derived counts as format_fs and qformat_fs compute them.
FormatGeometry(t) ==
  [bytes |-> CeilDiv(t, 8),
   bsec  |-> CeilDiv(CeilDiv(t, 8), SECTOR_SIZE),
   isec  |-> CeilDiv(CeilDiv(InodesFor(t), 8), SECTOR_SIZE),
   table |-> CeilDiv(InodesFor(t) * INODE_SIZE, SECTOR_SIZE)]

\* The superblock they write on a drive of so many sectors.
Layout(sectors) ==
  LET t == BlocksOf(sectors)
      g == FormatGeometry(t)
  IN [magic |-> "cos", total |-> t, inodes |-> InodesFor(t), bstart |-> 1,
      istart |-> 1 + g.bsec + g.isec, dstart |-> 1 + g.bsec + g.isec + g.table]

\* The derived counts as init_fs computes them from the superblock it read.
MountGeometry(s) ==
  [bytes |-> CeilDiv(s.total, 8),
   bsec  |-> CeilDiv(CeilDiv(s.total, 8), SECTOR_SIZE),
   isec  |-> CeilDiv(CeilDiv(s.inodes, 8), SECTOR_SIZE),
   table |-> CeilDiv(s.inodes * INODE_SIZE, SECTOR_SIZE)]

\* Data blocks of a file system.
Room(s) == IF s.total > s.dstart THEN s.total - s.dstart ELSE 0

-----------------------------------------------------------------------------
VARIABLES
  disk,    \* per unit: sector 0, whose bitmaps it holds, its inodes
  table,   \* g_drives with g_active_drives entries
  probe,   \* units drives() has probed
  cur,     \* g_current_drive, an index of table less one
  sel,     \* current_ata_base and current_is_slave
  gsb,     \* g_superblock
  geo,     \* block_bitmap_bytes, .._sectors, inode_bitmap_sectors, inode_table_blocks
  bm,      \* the drive whose bitmaps are in memory
  cwd,     \* g_current_dir
  power,   \* "boot", "on", or "off" after shutdown or task_exit
  player,  \* the task cmd_playraw runs in
  slips    \* ghost: careless acts so far, things this code does not survive

vars == <<disk, table, probe, cur, sel, gsb, geo, bm, cwd, power, player, slips>>

Kinds == {"file", "dir"}

Inodes == 1 .. MaxFiles

\* root says that inode 0 is a directory.  Of the others, used are those marked
\* in the inode bitmap, and kinds are the types in the inode table: freeing an
\* inode leaves its type there.
Disk == [super : Superblock, bm : Units \cup {None}, root : BOOLEAN,
         used : SUBSET Inodes, kinds : [Inodes -> Kinds \cup {"none"}]]

Drive == [unit : Units, total : Nat]

\* Every variable stays in its set, and g_current_drive is an entry of the
\* table whenever the table has one.
TypeOK ==
  /\ disk \in [Units -> Disk]
  /\ table \in Seq(Drive)
  /\ probe \in 0 .. Len(Scan)
  /\ cur \in Nat /\ (table # << >> => cur < Len(table))
  /\ sel \in Units
  /\ gsb \in Superblock /\ geo \in Geometry /\ bm \in Units \cup {None}
  /\ cwd \in Nat
  /\ power \in {"boot", "on", "off"}
  /\ player \in {"none", "begin", "play", "end"}
  /\ slips \in Nat

BlankDisk == [super |-> Sector0("zero"), bm |-> None, root |-> FALSE,
              used |-> {}, kinds |-> [i \in Inodes |-> "none"]]

Init ==
  /\ disk = [u \in Units |-> BlankDisk]
  /\ table = << >> /\ probe = 0 /\ cur = 0 /\ sel = HomeUnit
  /\ gsb = Sector0("zero") /\ geo = NoGeometry /\ bm = None /\ cwd = 0
  /\ power = "boot" /\ player = "none" /\ slips = 0

Current == table[cur + 1].unit

Formatted(u) == disk[u].super.magic = "cos"

IsDir(d, i) ==
  \/ i = 0 /\ d.root
  \/ i \in d.used /\ d.kinds[i] = "dir"

Careless(act) == IF act THEN slips < MaxSlips /\ slips' = slips + 1 ELSE UNCHANGED slips

\* A command typed at the prompt; the player may be running beside it.
Shell == power = "on" /\ table # << >>

-----------------------------------------------------------------------------
(* Boot and change of drive                                                *)

\* drives(): a unit of more than 128 GB less two sectors is passed over too.
Answers(u) == Sectors[u] > 0 /\ Sectors[u] < 268435455

drives ==
  /\ power = "boot" /\ probe < Len(Scan)
  /\ probe' = probe + 1
  /\ table' = IF Answers(Scan[probe + 1])
                 THEN Append(table, [unit  |-> Scan[probe + 1],
                                     total |-> Sectors[Scan[probe + 1]]])
                 ELSE table
  /\ UNCHANGED <<disk, cur, sel, gsb, geo, bm, cwd, power, player, slips>>

\* Mutant: the bitmaps are not read.
InitFsMutant(u) ==
  /\ sel' = u
  /\ gsb' = disk[u].super
  /\ IF disk[u].super.magic = "cos"
       THEN geo' = MountGeometry(disk[u].super) ELSE UNCHANGED geo
  /\ UNCHANGED <<disk, bm>>

\* Mutant: the unit is not selected.
InitFsUnselectedMutant(u) ==
  /\ gsb' = disk[u].super
  /\ IF disk[u].super.magic = "cos"
       THEN /\ geo' = MountGeometry(disk[u].super)
            /\ bm' = disk[u].bm
            /\ disk' = [disk EXCEPT ![u].root = @ \/ Room(disk[u].super) > 0]
       ELSE UNCHANGED <<geo, bm, disk>>
  /\ UNCHANGED sel

\* init_fs: g_superblock is replaced whatever the sector holds; the counts and
\* the bitmaps only when it holds a file system.  A missing root is made if
\* there is room.
init_fs(u) ==
  /\ sel' = u
  /\ gsb' = disk[u].super
  /\ IF disk[u].super.magic = "cos"
       THEN /\ geo' = MountGeometry(disk[u].super)
            /\ bm' = disk[u].bm
            /\ disk' = [disk EXCEPT ![u].root = @ \/ Room(disk[u].super) > 0]
       ELSE UNCHANGED <<geo, bm, disk>>

Boot ==
  /\ power = "boot" /\ probe = Len(Scan)
  /\ power' = "on"
  /\ IF table = << >> THEN UNCHANGED <<disk, sel, gsb, geo, bm>>
                      ELSE init_fs(Current)
  /\ UNCHANGED <<table, probe, cur, cwd, player, slips>>

\* The machine is switched off or resets; memory starts again from nothing.
Reboot ==
  /\ power # "boot"
  /\ power' = "boot" /\ table' = << >> /\ probe' = 0 /\ cur' = 0 /\ sel' = HomeUnit
  /\ gsb' = Sector0("zero") /\ geo' = NoGeometry /\ bm' = None /\ cwd' = 0
  /\ player' = "none"
  /\ UNCHANGED <<disk, slips>>

\* cmd_usedisk on a drive of the table: fs_change_drive, and select_drive again.
\* g_current_dir stays, an inode number of the drive that was left.
Use(i) ==
  /\ Shell /\ i \in DOMAIN table
  /\ cur' = i - 1
  /\ init_fs(table[i].unit)
  /\ Careless(cwd # 0)
  /\ UNCHANGED <<table, probe, cwd, power, player>>

Listed(u) == \E i \in DOMAIN table : table[i].unit = u

\* Mutant: g_active_drives is counted up before its old value is used.
UseNewMutant(u) ==
  /\ Shell /\ ~Listed(u) /\ Len(table) < MaxDrives
  /\ table' = Append(table, [unit |-> u, total |-> 0])
  /\ cur' = Len(table) + 1
  /\ init_fs(u)
  /\ Careless(TRUE)
  /\ UNCHANGED <<probe, cwd, power, player>>

\* cmd_usedisk with a port and a unit that is not in the table: it is added,
\* with no sectors.
UseNew(u) ==
  /\ Shell /\ ~Listed(u) /\ Len(table) < MaxDrives
  /\ table' = Append(table, [unit |-> u, total |-> 0])
  /\ cur' = Len(table)
  /\ init_fs(u)
  /\ Careless(TRUE)
  /\ UNCHANGED <<probe, cwd, power, player>>

\* With a full table the unit is selected all the same.
UseFull(u) ==
  /\ Shell /\ ~Listed(u) /\ Len(table) >= MaxDrives
  /\ sel' = u
  /\ Careless(TRUE)
  /\ UNCHANGED <<disk, table, probe, cur, gsb, geo, bm, cwd, power, player>>

\* cmd_ld reads sector 0 of every drive and selects the current one again.
Ld ==
  /\ Shell
  /\ sel' = Current
  /\ UNCHANGED <<disk, table, probe, cur, gsb, geo, bm, cwd, power, player, slips>>

-----------------------------------------------------------------------------
(* Commands on the file system                                             *)

Least(a, b) == IF a < b THEN a ELSE b

\* format_fs and qformat_fs: the layout for the sectors in the table, a root
\* and the default directories as far as there is room, and init_fs.  The
\* shell stands in the first of them.  The types of old inodes stay in the
\* table; the quick format clears its first 256.
Format(quick) ==
  LET s    == Layout(table[cur + 1].total)
      dirs == IF Room(s) = 0 THEN 0 ELSE Least(NDefDirs, Room(s) - 1)
  IN
  /\ Shell
  /\ disk' = [disk EXCEPT ![Current] =
                [super |-> s, bm |-> Current, root |-> Room(s) > 0, used |-> 1 .. dirs,
                 kinds |-> [i \in Inodes |-> IF i <= dirs THEN "dir"
                                            ELSE IF quick THEN "none"
                                            ELSE disk[Current].kinds[i]]]]
  /\ sel' = Current
  /\ gsb' = s /\ geo' = FormatGeometry(s.total) /\ bm' = Current
  /\ cwd' = IF dirs > 0 THEN 1 ELSE 0
  /\ UNCHANGED <<table, probe, cur, power, player, slips>>

\* save_block_bitmap and save_inode_bitmap on whatever unit is selected: from
\* sector bitmap_start on, which is sector 0 when g_superblock is not one.
Saved ==
  IF geo.bsec + geo.isec = 0 THEN disk
  ELSE IF gsb.magic = "cos" THEN [disk EXCEPT ![sel].bm = bm]
  ELSE [disk EXCEPT ![sel].super = Sector0("junk")]

\* alloc_inode: the lowest that is not marked.
alloc_inode(d) == {i \in Inodes \ d.used : \A j \in Inodes \ d.used : i <= j}

\* The inode is marked and its type written.
NewInode(d, i, k) == [d EXCEPT !.used = @ \cup {i}, !.kinds[i] = k]

free_inode(d, i) == [d EXCEPT !.used = @ \ {i}]

\* fs_create_file and fs_create_dir, when there is a free inode and a free
\* block.  The entry goes into the blocks of inode g_current_dir.  Another
\* drive's bitmaps may give any inode.
Create(k, i) ==
  /\ Shell /\ gsb.magic = "cos" /\ Room(gsb) > 0
  /\ bm = sel => i \in alloc_inode(disk[sel])
  /\ disk' = IF sel = Current THEN [Saved EXCEPT ![sel] = NewInode(@, i, k)] ELSE Saved
  /\ UNCHANGED <<table, probe, cur, sel, gsb, geo, bm, cwd, power, player, slips>>

\* fs_delete_file: the inode of an entry of the root is freed, be it a file's or
\* a directory's, the one the shell stands in too.  Which entries the root has
\* is CrusaderFs's; here it may have any inode's.
Dl(i) ==
  /\ Shell /\ gsb.magic = "cos" /\ disk[sel].root /\ i \in disk[sel].used
  /\ disk' = IF sel = Current THEN [Saved EXCEPT ![sel] = free_inode(@, i)] ELSE Saved
  /\ Careless(i = cwd)
  /\ UNCHANGED <<table, probe, cur, sel, gsb, geo, bm, cwd, power, player>>

\* Mutant: the type of the inode is not looked at.
CdMutant(i) ==
  /\ Shell /\ gsb.magic = "cos"
  /\ cwd' = i
  /\ Careless(i # 0 /\ i \notin disk[sel].used)
  /\ UNCHANGED <<disk, table, probe, cur, sel, gsb, geo, bm, power, player>>

\* fs_cd looks at the type, not at the bitmap: an old entry, in a block that was
\* never cleared, may lead into an inode that is free.
Cd(i) ==
  /\ Shell /\ gsb.magic = "cos" /\ (i # 0 => disk[sel].kinds[i] = "dir")
  /\ cwd' = i
  /\ Careless(i # 0 /\ i \notin disk[sel].used)
  /\ UNCHANGED <<disk, table, probe, cur, sel, gsb, geo, bm, power, player>>

\* cmd_shutdown saves the bitmaps and stops.
Shutdown ==
  /\ power = "on"
  /\ disk' = Saved
  /\ power' = "off"
  /\ Careless(gsb.magic # "cos")
  /\ UNCHANGED <<table, probe, cur, sel, gsb, geo, bm, cwd, player>>

-----------------------------------------------------------------------------
(* cmd_playraw, a task beside the shell                                    *)

PlayBegin ==
  /\ Shell /\ player = "none"
  /\ player' = "begin" /\ Careless(TRUE)
  /\ UNCHANGED <<disk, table, probe, cur, sel, gsb, geo, bm, cwd, power>>

\* select_drive(0x1F0, 1), then sector after sector, or "wave not found".
PlaySelect ==
  /\ power = "on" /\ player = "begin"
  /\ sel' = PlayUnit /\ player' = "play"
  /\ UNCHANGED <<disk, table, probe, cur, gsb, geo, bm, cwd, power, slips>>

PlayEnd ==
  /\ power = "on" /\ player = "play"
  /\ sel' = HomeUnit /\ player' = "end"
  /\ UNCHANGED <<disk, table, probe, cur, gsb, geo, bm, cwd, power, slips>>

\* The task returns into task_exit: interrupts off, for ever.
PlayExit ==
  /\ power = "on" /\ player = "end"
  /\ power' = "off"
  /\ UNCHANGED <<disk, table, probe, cur, sel, gsb, geo, bm, cwd, player, slips>>

Next ==
  \/ drives \/ Boot \/ Reboot
  \/ \E i \in 1 .. MaxDrives : Use(i)
  \/ \E u \in Units : UseNew(u) \/ UseFull(u)
  \/ Ld \/ Shutdown
  \/ \E quick \in BOOLEAN : Format(quick)
  \/ \E i \in Inodes : Dl(i) \/ \E k \in Kinds : Create(k, i)
  \/ \E i \in 0 .. MaxFiles : Cd(i)
  \/ PlayBegin \/ PlaySelect \/ PlayEnd \/ PlayExit

Spec == Init /\ [][Next]_vars

-----------------------------------------------------------------------------
(* Properties                                                              *)

\* What the kernel knows of a mounted file system is what its format wrote:
\* the counts of bitmap and inode table sectors recomputed from the superblock
\* are those the regions were laid out with, whichever drives were used in
\* between.  (The arithmetic stands three times in fs.c.)
GeometryAgrees ==
  gsb.magic = "cos" =>
    /\ geo = FormatGeometry(gsb.total)
    /\ gsb.istart = gsb.bstart + geo.bsec + geo.isec
    /\ gsb.dstart = gsb.istart + geo.table

\* The bitmaps in memory never outgrow their arrays and have a bit for every
\* block and every inode; the inode table has room for every inode.
BitmapsFit ==
  gsb.magic = "cos" =>
    /\ geo.bytes <= BLOCK_BITMAP_MAX_SIZE /\ geo.bytes * 8 >= gsb.total
    /\ geo.isec * SECTOR_SIZE <= INODE_BITMAP_SIZE
    /\ geo.isec * SECTOR_SIZE * 8 >= gsb.inodes
    /\ geo.table * SECTOR_SIZE >= gsb.inodes * INODE_SIZE

\* The shell's writes go to the drive that usedisk called current.
WritesStayHome ==
  [][\A u \in Units : disk'[u] # disk[u] => u = table'[cur' + 1].unit]_vars

\* They do as long as the drives are used with care.
CarefulWritesStayHome ==
  [][slips' = 0 => \A u \in Units : disk'[u] # disk[u] => u = table'[cur' + 1].unit]_vars

\* Used with care, a drive with a file system holds its own bitmaps and never
\* another drive's: whatever is mounted, formatted, saved, shut down and
\* booted in between.
BitmapsAtHome == slips = 0 => \A u \in Units : Formatted(u) => disk[u].bm = u

\* The directory the shell stands in is a directory of the current drive.
CwdIsDirectory ==
  power = "on" /\ table # << >> /\ gsb.magic = "cos" /\ Room(gsb) > 0
    => IsDir(disk[Current], cwd)

\* A change of drive leaves the shell in a directory of the new one.
CwdFollowsDrive == [][cur' # cur /\ CwdIsDirectory => CwdIsDirectory']_vars

\* The shell stands in a directory as long as a drive is left from its root and
\* nobody deletes the directory he stands in, or follows an entry older than its
\* directory: whatever else is deleted, and whatever takes its inode.
CarefulCwd == slips = 0 => CwdIsDirectory

=============================================================================
