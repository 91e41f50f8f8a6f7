--------------------------- MODULE CrusaderNotes ---------------------------
(***************************************************************************)
(* The notes and the status lines of klog.c, in memory: note_list with its *)
(* fixed slots, and log_buffer, which holds the latest lines.              *)
(***************************************************************************)
EXTENDS Integers, Sequences

CONSTANTS
  MaxNotes,    \* MAX_NOTES, 15
  NameLen,     \* characters of a name that fit: NAME_LEN - 1, 19
  ContentLen,  \* CONTENT_LEN - 1, 49
  MaxLogs,     \* rows of log_buffer, 11
  Chars        \* the characters of the keyboard

ASSUME NotesAssumption ==
  /\ MaxNotes \in Nat /\ NameLen \in Nat /\ ContentLen \in Nat
  /\ MaxLogs \in Nat \ {0}

Messages == {"BOOTED", "MULTITASKING_STARTED", "NOTES_SAVED"}

VARIABLES
  note_list,
  log_buffer,  \* its first total_logs rows
  logs         \* ghost: every status line since boot

noteVars == <<note_list, log_buffer, logs>>

Slots == 1 .. MaxNotes
Words == Seq(Chars)
Note  == [active : BOOLEAN, name : Words, content : Words]

NoNote == [active |-> FALSE, name |-> << >>, content |-> << >>]

NotesTypeOK ==
  /\ note_list \in [Slots -> Note]
  /\ log_buffer \in Seq(Messages) /\ logs \in Seq(Messages)

NotesInit == note_list = [i \in Slots |-> NoNote] /\ log_buffer = << >> /\ logs = << >>

\* strncpy into an array of so many characters and a 0.
Cut(w, n) == SubSeq(w, 1, IF Len(w) > n THEN n ELSE Len(w))

FreeSlots == {i \in Slots : ~note_list[i].active}

First(S) == CHOOSE i \in S : \A j \in S : i <= j

\* new_note up to the save: the first free slot, if there is one.
NoteMade(name, content) ==
  [note_list EXCEPT ![First(FreeSlots)] =
     [active |-> TRUE, name |-> Cut(name, NameLen), content |-> Cut(content, ContentLen)]]

\* delete_note: the first of that name.  The slot keeps its text.
Named(name) == {i \in Slots : note_list[i].active /\ note_list[i].name = name}

delete_note(name) ==
  note_list' = IF Named(name) = {} THEN note_list
               ELSE [note_list EXCEPT ![First(Named(name))].active = FALSE]

delete_all_notes == note_list' = [i \in Slots |-> [note_list[i] EXCEPT !.active = FALSE]]

\* Mutant: a row of the full buffer is moved too few.
LoggedMutant(msg) ==
  IF Len(log_buffer) < MaxLogs THEN Append(log_buffer, msg)
  ELSE [i \in 1 .. MaxLogs |-> IF i = MaxLogs THEN msg
                               ELSE IF i = MaxLogs - 1 THEN log_buffer[i]
                               ELSE log_buffer[i + 1]]

\* The rows move up when there is no more room.
Logged(msg) ==
  IF Len(log_buffer) < MaxLogs THEN Append(log_buffer, msg)
  ELSE [i \in 1 .. MaxLogs |-> IF i = MaxLogs THEN msg ELSE log_buffer[i + 1]]

klog_status(msg) ==
  /\ log_buffer' = Logged(msg) /\ logs' = Append(logs, msg)
  /\ UNCHANGED note_list

NotesReset ==
  note_list' = [i \in Slots |-> NoNote] /\ log_buffer' = << >> /\ logs' = << >>

\* The status area shows the latest lines, oldest first, however many there were.
LogIsLatest ==
  LET n == Len(logs)
      k == IF n < MaxLogs THEN n ELSE MaxLogs
  IN Len(log_buffer) = k /\ \A i \in 1 .. k : log_buffer[i] = logs[n - k + i]

=============================================================================
