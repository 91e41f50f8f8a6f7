----------------------------- MODULE FileStore -----------------------------
(***************************************************************************)
(* What a user is promised of files.  A command writes or deletes at most  *)
(* one file, in one step: a new file appears with all of its text, or not  *)
(* at all, and a power cut between two steps changes nothing.  Only a file *)
(* that is rewritten in place can be found torn, half old and half new.    *)
(***************************************************************************)
EXTENDS Integers

CONSTANTS
  Ids,       \* what a file is known by inside the store
  Names,     \* what it is called
  Texts,     \* what it can say
  Lens,      \* how long it can be
  InPlace,   \* the names whose file is rewritten in place
  None       \* no file, no command, and the text of a torn file

VARIABLES
  store,  \* the file each id stands for, or None
  doing   \* the command under way, or None

vars == <<store, doing>>

File    == [name : Names, text : Texts \cup {None}, len : Lens]
Command == [op : {"write"}, name : Names, text : Texts]
             \cup [op : {"delete"}, name : Names, text : {None}]

StoreOK ==
  /\ store \in [Ids -> File \cup {None}]
  /\ doing \in Command \cup {None}

Init == store = [i \in Ids |-> None] /\ doing = None

Begin == doing = None /\ doing' \in Command /\ UNCHANGED store

\* The command ends, in success or failure; or the power fails.
End == doing # None /\ doing' = None /\ UNCHANGED store

\* Every other file is as it was.
Only(i) == store' = [store EXCEPT ![i] = store'[i]]

Put(i) ==
  /\ doing # None /\ doing.op = "write"
  /\ store[i] = None
  /\ \E l \in Lens : store'[i] = [name |-> doing.name, text |-> doing.text, len |-> l]
  /\ Only(i) /\ doing' = None

\* The file may grow; on the way it may say nothing that was meant.
Rewrite(i) ==
  /\ doing # None /\ doing.op = "write"
  /\ store[i] # None /\ store[i].name = doing.name /\ doing.name \in InPlace
  /\ \E c \in {doing.text, None}, l \in Lens :
       l >= store[i].len /\ store'[i] = [store[i] EXCEPT !.text = c, !.len = l]
  /\ Only(i) /\ doing' \in {doing, None}

Delete(i) ==
  /\ doing # None /\ doing.op = "delete"
  /\ store[i] # None /\ store[i].name = doing.name
  /\ store'[i] = None
  /\ Only(i) /\ doing' = None

Next == Begin \/ End \/ \E i \in Ids : Put(i) \/ Rewrite(i) \/ Delete(i)

Spec == Init /\ [][Next]_vars

-----------------------------------------------------------------------------
\* A file that is found torn is one of those rewritten in place: whatever is
\* written once is whole.
TornOnlyInPlace ==
  \A i \in Ids : store[i] # None => store[i].text # None \/ store[i].name \in InPlace

=============================================================================
