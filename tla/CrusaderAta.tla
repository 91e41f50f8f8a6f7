---------------------------- MODULE CrusaderAta ----------------------------
(***************************************************************************)
(* The ATA channels as fs.c drives them, port write by port write: the     *)
(* unit selected in two globals, the registers of each channel, the two    *)
(* waits that give up after a while and whose result nobody looks at, and  *)
(* the one in select_drive that does not give up.  The drives are          *)
(* external.  A register written while the drive is busy is taken or not.  *)
(*                                                                         *)
(* Two tasks use it.  A task does one thing at a time, of which io[t] is   *)
(* the place; the caller says what the thing is.                           *)
(***************************************************************************)
EXTENDS Naturals, Sequences

CONSTANTS
  Units,     \* drives: a base port and master or slave
  Home,      \* the unit of the file system: 0x1F0, master
  Sectors,   \* their sectors
  Contents   \* per unit: what its sectors hold at first

Bases == {u.base : u \in Units}

\* What a sector holds, as far as anyone looks: its kind, and a list of notes.
Holding(kind, list) == [kind |-> kind, list |-> list]

Kinds == {"super", "root", "wave", "notes", "noise", "else"}

ASSUME AtaAssumption ==
  /\ Home \in Units /\ 0 \in Sectors
  /\ Contents \in [Units -> [Sectors -> {Holding(k, << >>) : k \in Kinds}]]

\* What is read when there is nothing to read.
Noise == Holding("noise", << >>)

AtaTasks == {"main", "player"}

VARIABLES
  sel,    \* current_ata_base and current_is_slave
  dev,    \* per channel: the drive chosen, the sector, the command, the state
  disk,   \* per unit: its sectors
  io,     \* per task: its place in select_drive, block_read or block_write
  buf,    \* per task: the sector it has read
  slow,   \* bound: in this behaviour the drives may be slow, or fail a command
  late    \* ghost: a wait has given up

ataVars == <<sel, dev, disk, io, buf, slow, late>>

Ops    == {"read", "write"}
Places == {"idle", "select", "wait", "lba", "command", "drq", "data"}

AtaTypeOK ==
  /\ sel \in Units
  /\ dev \in [Bases -> [drive : Units, sector : Sectors, cmd : Ops \cup {"none"},
                        state : {"ready", "busy", "drq"}]]
  /\ \A b \in Bases : dev[b].drive.base = b
  /\ io \in [AtaTasks -> Places]
  /\ slow \in BOOLEAN /\ late \in BOOLEAN

\* After a reset; drives() has asked the units of each channel for their size,
\* with the sector registers at 0, and left one of them chosen.
FreshDevs ==
  {d \in [Bases -> [drive : Units, sector : {0}, cmd : {"none"}, state : {"ready"}]] :
     \A b \in Bases : d[b].drive.base = b}

AllIdle == [t \in AtaTasks |-> "idle"]

AtaInit ==
  /\ sel = Home /\ dev \in FreshDevs /\ disk = Contents
  /\ io = AllIdle /\ buf = [t \in AtaTasks |-> Noise] /\ late = FALSE

AtaReset ==
  /\ sel' = Home /\ dev' \in FreshDevs
  /\ io' = AllIdle /\ buf' = [t \in AtaTasks |-> Noise]
  /\ UNCHANGED <<disk, slow, late>>

Goes(t, place) == io' = [io EXCEPT ![t] = place]

\* A write to a register of channel b.
Out(b, regs) ==
  \/ dev' = [dev EXCEPT ![b] = regs]
  \/ dev[b].state # "ready" /\ UNCHANGED dev

-----------------------------------------------------------------------------
(* select_drive                                                            *)

Select(t, u) ==
  /\ io[t] = "idle" /\ Goes(t, "select")
  /\ sel' = u
  /\ Out(u.base, [dev[u.base] EXCEPT !.drive = u])
  /\ UNCHANGED <<disk, buf, slow, late>>

\* Mutant: it does not wait.
SelectedMutant(t, u) ==
  /\ io[t] = "select" /\ Goes(t, "idle")
  /\ UNCHANGED <<sel, dev, disk, buf, slow, late>>

\* Without a limit.
Selected(t, u) ==
  /\ io[t] = "select" /\ dev[u.base].state # "busy" /\ Goes(t, "idle")
  /\ UNCHANGED <<sel, dev, disk, buf, slow, late>>

-----------------------------------------------------------------------------
(* block_read and block_write                                              *)

ChooseDrive(t) ==
  /\ io[t] = "idle" /\ Goes(t, "wait")
  /\ Out(sel.base, [dev[sel.base] EXCEPT !.drive = sel])
  /\ UNCHANGED <<sel, disk, buf, slow, late>>

\* Mutant: it waits for as long as it takes.
WaitBusyMutant(t) ==
  /\ io[t] = "wait" /\ dev[sel.base].state # "busy" /\ Goes(t, "lba")
  /\ UNCHANGED <<sel, dev, disk, buf, slow, late>>

\* ata_wait_busy; the result is dropped.
WaitBusy(t) ==
  /\ io[t] = "wait" /\ Goes(t, "lba")
  /\ dev[sel.base].state = "busy" => slow
  /\ late' = (late \/ dev[sel.base].state = "busy")
  /\ UNCHANGED <<sel, dev, disk, buf, slow>>

SetSector(t, s) ==
  /\ io[t] = "lba" /\ Goes(t, "command")
  /\ Out(sel.base, [dev[sel.base] EXCEPT !.sector = s])
  /\ UNCHANGED <<sel, disk, buf, slow, late>>

Command(t, op) ==
  /\ io[t] = "command" /\ Goes(t, "drq")
  /\ Out(sel.base, [dev[sel.base] EXCEPT !.cmd = op, !.state = "busy"])
  /\ UNCHANGED <<sel, disk, buf, slow, late>>

\* ata_wait_drq; the result is dropped, and the error bit is not looked at.
WaitDrq(t) ==
  /\ io[t] = "drq" /\ Goes(t, "data")
  /\ dev[sel.base].state # "drq" => slow
  /\ late' = (late \/ dev[sel.base].state # "drq")
  /\ UNCHANGED <<sel, dev, disk, buf, slow>>

\* insw, outsw: the sector goes where the registers say, if the drive is at it.
Asked(op) == dev[sel.base].state = "drq" /\ dev[sel.base].cmd = op

insw(t) ==
  LET d == dev[sel.base] IN
  /\ io[t] = "data" /\ Goes(t, "idle")
  /\ IF Asked("read")
       THEN /\ buf' = [buf EXCEPT ![t] = disk[d.drive][d.sector]]
            /\ dev' = [dev EXCEPT ![sel.base] = [@ EXCEPT !.state = "ready", !.cmd = "none"]]
       ELSE buf' = [buf EXCEPT ![t] = Noise] /\ UNCHANGED dev
  /\ UNCHANGED <<sel, disk, slow, late>>

\* The drive is busy with the sector for a while after it has taken it.
outsw(t, value) ==
  LET d == dev[sel.base] IN
  /\ io[t] = "data" /\ Goes(t, "idle")
  /\ IF Asked("write")
       THEN /\ disk' = [disk EXCEPT ![d.drive][d.sector] = value]
            /\ dev' = [dev EXCEPT ![sel.base] = [@ EXCEPT !.state = "busy", !.cmd = "none"]]
       ELSE UNCHANGED <<disk, dev>>
  /\ UNCHANGED <<sel, buf, slow, late>>

\* The port writes of a transfer before its data.
Transfer(t, op, s) ==
  ChooseDrive(t) \/ WaitBusy(t) \/ SetSector(t, s) \/ Command(t, op) \/ WaitDrq(t)

-----------------------------------------------------------------------------
(* The drives                                                              *)

\* The sector is there, or the drive is ready to take it.
DevData(b) ==
  /\ dev[b].state = "busy" /\ dev[b].cmd \in Ops
  /\ dev' = [dev EXCEPT ![b].state = "drq"]
  /\ UNCHANGED <<sel, disk, io, buf, slow, late>>

\* It has written the sector, or it gives the command up with an error.
DevReady(b) ==
  /\ dev[b].state = "busy" /\ (dev[b].cmd \in Ops => slow)
  /\ dev' = [dev EXCEPT ![b] = [@ EXCEPT !.state = "ready", !.cmd = "none"]]
  /\ UNCHANGED <<sel, disk, io, buf, slow, late>>

=============================================================================
