-------------------------- MODULE FileStoreProofs --------------------------
(* What the store alone guarantees, for every set of names and texts.      *)
EXTENDS FileStore, TLAPS

\* A text and a file are never mistaken for their absence.
NoneIsNone == None \notin Texts /\ None \notin File /\ None \notin Command

\* The store keeps its type: every id stands for a file or for none.
THEOREM StoreTypeOK ==
  ASSUME NoneIsNone
  PROVE  Spec => []StoreOK
<1>1. Init => StoreOK
  BY DEF Init, StoreOK
<1>2. StoreOK /\ [Next]_vars => StoreOK'
  <2> SUFFICES ASSUME StoreOK, [Next]_vars PROVE StoreOK'
    OBVIOUS
  <2>1. ASSUME NEW i \in Ids, Only(i), store'[i] \in File \cup {None}
        PROVE  store' \in [Ids -> File \cup {None}]
    BY <2>1 DEF StoreOK, Only
  <2>2. CASE Begin
    BY <2>2 DEF Begin, StoreOK
  <2>3. CASE End
    BY <2>3 DEF End, StoreOK
  <2>4. ASSUME NEW i \in Ids, Put(i) PROVE StoreOK'
    BY <2>1, <2>4 DEF Put, StoreOK, File, Command
  <2>5. ASSUME NEW i \in Ids, Rewrite(i) PROVE StoreOK'
    <3>1. doing \in Command /\ doing.text \in Texts
      BY <2>5 DEF Rewrite, StoreOK, Command
    <3>2. store[i] \in File
      BY <2>5 DEF Rewrite, StoreOK
    <3>3. store'[i] \in File
      BY <2>5, <3>1, <3>2 DEF Rewrite, File
    <3> QED BY <2>1, <2>5, <3>3 DEF Rewrite, StoreOK
  <2>6. ASSUME NEW i \in Ids, Delete(i) PROVE StoreOK'
    BY <2>1, <2>6 DEF Delete, StoreOK
  <2>7. CASE UNCHANGED vars
    BY <2>7 DEF vars, StoreOK
  <2> QED BY <2>2, <2>3, <2>4, <2>5, <2>6, <2>7 DEF Next
<1> QED BY <1>1, <1>2, PTL DEF Spec

\* No sequence of commands and power cuts leaves a file torn that is not one of
\* those rewritten in place.
THEOREM TornOnlyIsInPlace ==
  ASSUME NoneIsNone
  PROVE  Spec => []TornOnlyInPlace
<1>1. Init => TornOnlyInPlace
  BY DEF Init, TornOnlyInPlace
<1>2. StoreOK /\ TornOnlyInPlace /\ [Next]_vars => TornOnlyInPlace'
  <2> SUFFICES ASSUME StoreOK, TornOnlyInPlace, [Next]_vars,
                      NEW j \in Ids, store'[j] # None
               PROVE  store'[j].text # None \/ store'[j].name \in InPlace
    BY DEF TornOnlyInPlace
  <2>1. ASSUME store'[j] = store[j]
        PROVE  store'[j].text # None \/ store'[j].name \in InPlace
    BY <2>1 DEF TornOnlyInPlace
  <2>2. ASSUME NEW i \in Ids, Only(i), i # j PROVE store'[j] = store[j]
    BY <2>2 DEF Only, StoreOK
  <2>3. CASE Begin \/ End \/ UNCHANGED vars
    BY <2>1, <2>3 DEF Begin, End, vars
  <2>4. ASSUME NEW i \in Ids, Put(i)
        PROVE  store'[j].text # None \/ store'[j].name \in InPlace
    <3>1. doing.text \in Texts
      BY <2>4 DEF Put, StoreOK, Command
    <3>2. CASE i = j
      BY <2>4, <3>1, <3>2 DEF Put, NoneIsNone
    <3> QED BY <2>1, <2>2, <2>4, <3>2 DEF Put
  <2>5. ASSUME NEW i \in Ids, Rewrite(i)
        PROVE  store'[j].text # None \/ store'[j].name \in InPlace
    <3>1. CASE i = j
      <4>1. store[j] \in File
        BY <2>5, <3>1 DEF Rewrite, StoreOK
      <4>2. store'[j].name = store[j].name
        BY <2>5, <3>1, <4>1 DEF Rewrite, File
      <4> QED BY <2>5, <3>1, <4>2 DEF Rewrite
    <3> QED BY <2>1, <2>2, <2>5, <3>1 DEF Rewrite
  <2>6. ASSUME NEW i \in Ids, Delete(i)
        PROVE  store'[j].text # None \/ store'[j].name \in InPlace
    <3>1. CASE i = j
      BY <2>6, <3>1 DEF Delete
    <3> QED BY <2>1, <2>2, <2>6, <3>1 DEF Delete
  <2> QED BY <2>3, <2>4, <2>5, <2>6 DEF Next
<1>3. Spec => []StoreOK
  BY StoreTypeOK
<1> QED BY <1>1, <1>2, <1>3, PTL DEF Spec

=============================================================================
