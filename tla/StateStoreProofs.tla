-------------------------- MODULE StateStoreProofs --------------------------
(***************************************************************************)
(* Theorems about StateStore, for any contents and any number of keys and  *)
(* faults: what a crash or a power failure can leave in state.json.        *)
(***************************************************************************)
EXTENDS StateStore, TLAPS

-----------------------------------------------------------------------------
(* No half document *)

\* Only a whole temporary file is ever renamed over state.json.
WholeWhenRenamed ==
    /\ pc = "rename" => tmp # Partial
    /\ DocumentIntact

LEMMA PartialIsNoDocument ==
    /\ Missing # Partial
    /\ \A c, k : Whole(c, k) # Partial /\ Whole(c, k) # Missing
  <1>1. /\ Missing.kind = "missing" /\ Partial.kind = "partial"
        /\ \A c, k : Whole(c, k).kind = "document"
    BY DEF Missing, Partial, Whole
  <1>2. /\ "missing" # "partial" /\ "document" # "partial"
        /\ "document" # "missing"
    OBVIOUS
  <1> QED
    BY <1>1, <1>2

LEMMA WholeWhenRenamedInit == Init => WholeWhenRenamed
  BY PartialIsNoDocument DEF Init, WholeWhenRenamed, DocumentIntact

LEMMA WholeWhenRenamedNext ==
    WholeWhenRenamed /\ [Next]_vars => WholeWhenRenamed'
  <1> SUFFICES ASSUME WholeWhenRenamed, [Next]_vars PROVE WholeWhenRenamed'
    OBVIOUS
  <1> USE DEF WholeWhenRenamed, DocumentIntact
  <1>1. CASE BeginSave
    BY <1>1 DEF BeginSave, diskVars, ghosts
  <1>2. CASE Sign
    BY <1>2 DEF Sign, ghosts
  <1>3. CASE WriteTemporary
    BY <1>3 DEF WriteTemporary, ghosts
  <1>4. CASE Sync
    BY <1>4, PartialIsNoDocument DEF Sync, ghosts
  <1>5. CASE Rename
    BY <1>5 DEF Rename, ghosts
  <1>6. CASE SaveFails
    BY <1>6 DEF SaveFails, diskVars, ghosts
  <1>7. CASE Start
    BY <1>7 DEF Start, diskVars, ghosts
  <1>8. CASE LoadMissing
    BY <1>8 DEF LoadMissing, diskVars, ghosts
  <1>9. CASE LoadDocument
    BY <1>9 DEF LoadDocument, ghosts
  <1>10. CASE LoadPartial \/ ReadFails
    BY <1>10 DEF LoadPartial, ReadFails, diskVars, ghosts
  <1>16. CASE SetAside
    BY <1>16, PartialIsNoDocument DEF SetAside, ghosts
  <1>11. CASE WriteBack
    BY <1>11 DEF WriteBack, ghosts
  <1>12. CASE Stop \/ Crash
    BY <1>12 DEF Stop, Crash, diskVars, ghosts
  <1>13. CASE PowerFailure
    BY <1>13 DEF PowerFailure
  <1>14. CASE Damage
    BY <1>14 DEF Damage
  <1>15. CASE UNCHANGED vars
    BY <1>15 DEF vars
  <1> QED
    BY <1>1, <1>2, <1>3, <1>4, <1>5, <1>6, <1>7, <1>8, <1>9, <1>10, <1>11,
       <1>12, <1>13, <1>14, <1>15, <1>16 DEF Next, Save, Load

\* Whatever fails and whenever, state.json holds no half document unless
\* something outside damaged it.
THEOREM DocumentStaysIntact == Spec => []DocumentIntact
  <1>1. WholeWhenRenamed => DocumentIntact
    BY DEF WholeWhenRenamed
  <1> QED
    BY <1>1, WholeWhenRenamedInit, WholeWhenRenamedNext, PTL DEF Spec

-----------------------------------------------------------------------------
(* What was stored stays stored *)

\* A save that reached the disk calls has a key and a content to sign, and
\* what it renames is the document made of them.
SaveInProgress ==
    /\ data \in Contents
    /\ stored \in Contents
    /\ generated \in Nat
    /\ key \in Key \cup {NoKey}
    /\ secretFile \in Key \cup {NoKey}
    /\ pc \in {"write", "sync", "rename"} => key \in Key
    /\ pc = "rename" => tmp = Whole(data, key)

\* A new key is a key.
LEMMA NewKeyIsKey == ASSUME generated \in Nat, NewKey PROVE key' \in Key
  BY StoreAssumption DEF NewKey, Key

LEMMA SecretIsKey ==
    ASSUME SaveInProgress, GetSecret
    PROVE  /\ key' \in Key
           /\ secretFile' \in Key \cup {NoKey}
           /\ generated' \in Nat
  <1>1. CASE key # NoKey /\ UNCHANGED <<key, secretFile, secretSafe, generated, faults>>
    BY <1>1 DEF SaveInProgress
  <1>2. CASE secretFile # NoKey /\ key' = secretFile /\ UNCHANGED <<secretFile, generated>>
    BY <1>2 DEF SaveInProgress
  <1>3. CASE NewKey /\ (KeyWritten \/ UNCHANGED secretFile)
    BY <1>3, NewKeyIsKey DEF SaveInProgress, KeyWritten, NewKey
  <1> QED
    BY <1>1, <1>2, <1>3 DEF GetSecret

LEMMA SaveInProgressNext == SaveInProgress /\ [Next]_vars => SaveInProgress'
  <1> SUFFICES ASSUME SaveInProgress, [Next]_vars PROVE SaveInProgress'
    OBVIOUS
  <1>1. CASE BeginSave
    BY <1>1 DEF BeginSave, diskVars, ghosts, SaveInProgress
  <1>2. CASE Sign
    BY <1>2, SecretIsKey DEF Sign, ghosts, SaveInProgress
  <1>3. CASE WriteTemporary
    BY <1>3 DEF WriteTemporary, ghosts, SaveInProgress
  <1>4. CASE Sync
    BY <1>4 DEF Sync, ghosts, SaveInProgress
  <1>5. CASE Rename
    BY <1>5 DEF Rename, ghosts, SaveInProgress
  <1>6. CASE SaveFails
    BY <1>6 DEF SaveFails, diskVars, ghosts, SaveInProgress
  <1>7. CASE Start
    BY <1>7 DEF Start, diskVars, ghosts, SaveInProgress
  <1>8. CASE LoadMissing
    BY <1>8, StoreAssumption DEF LoadMissing, diskVars, ghosts, SaveInProgress
  <1>9. CASE LoadDocument
    <2>1. data' \in Contents
      BY <1>9 DEF LoadDocument, ghosts, Document, Whole
    <2> QED
      BY <1>9, <2>1, SecretIsKey DEF LoadDocument, ghosts, SaveInProgress
  <1>10. CASE LoadPartial \/ ReadFails
    BY <1>10 DEF LoadPartial, ReadFails, diskVars, ghosts, SaveInProgress
  <1>16. CASE SetAside
    BY <1>16, StoreAssumption DEF SetAside, ghosts, SaveInProgress
  <1>11. CASE WriteBack
    BY <1>11 DEF WriteBack, ghosts, SaveInProgress
  <1>12. CASE Stop \/ Crash
    BY <1>12 DEF Stop, Crash, diskVars, ghosts, SaveInProgress
  <1>13. CASE PowerFailure
    BY <1>13 DEF PowerFailure, SaveInProgress
  <1>14. CASE Damage
    BY <1>14 DEF Damage, SaveInProgress
  <1>15. CASE UNCHANGED vars
    BY <1>15 DEF vars, SaveInProgress
  <1> QED
    BY <1>1, <1>2, <1>3, <1>4, <1>5, <1>6, <1>7, <1>8, <1>9, <1>10, <1>11,
       <1>12, <1>13, <1>14, <1>15, <1>16 DEF Next, Save, Load

\* A file is set aside only where it was damaged, or sound and not read.
AsideExcused == pc = "aside" => excused \/ misread

LEMMA AsideExcusedNext ==
    ASSUME AsideExcused, StoredContentKept, [Next]_vars
    PROVE  AsideExcused'
  <1>1. CASE pc' # "aside"
    BY <1>1 DEF AsideExcused
  <1>2. CASE LoadPartial \/ ReadFails
    BY <1>2 DEF LoadPartial, ReadFails, ghosts, StoredContentKept, AsideExcused
  <1>3. CASE pc' = pc /\ ~Rename
    <2>1. (excused => excused') /\ (misread => misread')
      BY <1>3 DEF Next, Save, Load, vars, BeginSave, Sign, WriteTemporary, Sync, SaveFails,
         Start, LoadMissing, LoadDocument, LoadPartial, ReadFails, SetAside, WriteBack, Stop,
         Crash, PowerFailure, Damage, ghosts
    <2>. QED
      BY <1>3, <2>1 DEF AsideExcused
  <1>. QED
    BY <1>1, <1>2, <1>3 DEF Next, Save, Load, vars, BeginSave, Sign, WriteTemporary, Sync,
       Rename, SaveFails, Start, LoadMissing, LoadDocument, SetAside, WriteBack, Stop, Crash,
       PowerFailure, Damage

LEMMA StoredNext ==
    ASSUME SaveInProgress, AsideExcused, StoredContentKept, [Next]_vars
    PROVE  StoredContentKept'
  <1>1. CASE UNCHANGED <<file, stored, excused, misread>>
    BY <1>1 DEF StoredContentKept, Says
  <1>2. CASE Rename
    <2>1. file' = Whole(data, key) /\ stored' = data
      BY <1>2 DEF Rename, ghosts, SaveInProgress
    <2>2. Whole(data, key) \in Document
      BY <1>2 DEF Rename, ghosts, SaveInProgress, Document
    <2>3. Whole(data, key).content = data
      BY DEF Whole
    <2> QED
      BY <2>1, <2>2, <2>3, PartialIsNoDocument DEF StoredContentKept, Says
  <1>3. CASE SetAside
    BY <1>3 DEF SetAside, ghosts, AsideExcused, StoredContentKept
  <1>4. CASE PowerFailure \/ Damage
    BY <1>4 DEF PowerFailure, Damage, StoredContentKept
  <1>5. CASE BeginSave \/ Sign \/ WriteTemporary \/ Sync \/ SaveFails
    BY <1>1, <1>5 DEF BeginSave, Sign, WriteTemporary, Sync, SaveFails, diskVars, ghosts
  <1>6. CASE Start \/ LoadMissing \/ LoadDocument \/ LoadPartial \/ WriteBack \/ Stop
             \/ Crash \/ UNCHANGED vars
    BY <1>1, <1>6 DEF Start, LoadMissing, LoadDocument, LoadPartial, WriteBack, Stop, Crash,
       diskVars, ghosts, vars
  <1>7. CASE ReadFails
    BY <1>7 DEF ReadFails, StoredContentKept
  <1> QED
    BY <1>2, <1>3, <1>4, <1>5, <1>6, <1>7 DEF Next, Save, Load

\* state.json always says what the last save that returned put there, through
\* failed saves, crashes between any two calls and restarts, unless since then
\* power failed, it was damaged or a sound file could not be read.
THEOREM StoredContentStays == Spec => []StoredContentKept
  <1>1. Init => SaveInProgress /\ AsideExcused /\ StoredContentKept
    <2> SUFFICES ASSUME Init PROVE SaveInProgress /\ AsideExcused /\ StoredContentKept
      OBVIOUS
    <2>1. SaveInProgress
      BY StoreAssumption DEF Init, SaveInProgress
    <2>3. AsideExcused
      BY DEF Init, AsideExcused
    <2>2. Missing \notin Document
      BY PartialIsNoDocument DEF Document
    <2> QED
      BY <2>1, <2>2, <2>3, PartialIsNoDocument DEF Init, StoredContentKept, Says
  <1>2. SaveInProgress /\ AsideExcused /\ StoredContentKept /\ [Next]_vars
          => (SaveInProgress /\ AsideExcused /\ StoredContentKept)'
    BY SaveInProgressNext, AsideExcusedNext, StoredNext
  <1> QED
    BY <1>1, <1>2, PTL DEF Spec

-----------------------------------------------------------------------------
(* Types *)

LEMMA FaultStaysBounded ==
    ASSUME faults \in 0 .. MaxFaults, Fault
    PROVE  faults' \in 0 .. MaxFaults
  BY StoreAssumption DEF Fault

LEMMA NewKeyStaysBounded ==
    ASSUME generated \in 0 .. MaxSecrets, NewKey
    PROVE  generated' \in 0 .. MaxSecrets
  BY StoreAssumption DEF NewKey

LEMMA SecretTypes ==
    ASSUME TypeOK, GetSecret
    PROVE  /\ secretSafe' \in BOOLEAN
           /\ generated' \in 0 .. MaxSecrets
           /\ faults' \in 0 .. MaxFaults
  <1>1. /\ generated \in 0 .. MaxSecrets /\ faults \in 0 .. MaxFaults
        /\ secretSafe \in BOOLEAN
    BY DEF TypeOK
  <1>2. CASE UNCHANGED <<secretSafe, generated, faults>>
    BY <1>1, <1>2
  <1>3. CASE NewKey /\ (KeyWritten \/ UNCHANGED secretSafe) /\ (Fault \/ UNCHANGED faults)
    <2>1. secretSafe' \in BOOLEAN
      BY <1>1, <1>3 DEF KeyWritten
    <2>. QED
      BY <1>1, <1>3, <2>1, FaultStaysBounded, NewKeyStaysBounded
  <1> QED
    BY <1>2, <1>3 DEF GetSecret

LEMMA TypeNext ==
    ASSUME SaveInProgress, TypeOK, [Next]_vars
    PROVE  TypeOK'
  <1>0. SaveInProgress'
    BY SaveInProgressNext
  <1>1. /\ data' \in Contents /\ stored' \in Contents
        /\ key' \in Key \cup {NoKey} /\ secretFile' \in Key \cup {NoKey}
    BY <1>0 DEF SaveInProgress
  <1>2. pc' \in Points /\ loading' \in BOOLEAN
    BY DEF TypeOK, Points, Next, Save, Load, vars, BeginSave, Sign, WriteTemporary, Sync,
       Rename, SaveFails, Start, LoadMissing, LoadDocument, LoadPartial, ReadFails, SetAside,
       WriteBack, Stop, Crash, PowerFailure, Damage
  <1>3. {file', stable', tmp'} \subseteq Document \cup {Missing, Partial}
    <2>. DEFINE Files == Document \cup {Missing, Partial}
    <2>1. file \in Files /\ stable \in Files /\ tmp \in Files
      BY DEF TypeOK
    <2>2. Missing \in Files /\ Partial \in Files
      OBVIOUS
    <2>3. CASE Sync
      <3>1. Whole(data, key) \in Document
        BY <2>3 DEF Sync, SaveInProgress, Document
      <3>. QED
        BY <2>1, <2>3, <3>1 DEF Sync, ghosts
    <2>. HIDE DEF Files
    <2>4. CASE BeginSave \/ Sign \/ SaveFails \/ Start \/ LoadMissing \/ LoadDocument
               \/ LoadPartial \/ ReadFails \/ Stop \/ Crash \/ UNCHANGED vars
      <3>1. UNCHANGED <<file, stable, tmp>>
        BY <2>4 DEF BeginSave, Sign, SaveFails, Start, LoadMissing, LoadDocument, LoadPartial,
           ReadFails, Stop, Crash, diskVars, vars
      <3>. QED
        BY <2>1, <3>1 DEF Files
    <2>5. CASE WriteTemporary \/ Rename \/ SetAside \/ WriteBack \/ PowerFailure \/ Damage
      <3>1. file' \in Files /\ stable' \in Files /\ tmp' \in Files
        BY <2>1, <2>2, <2>5 DEF WriteTemporary, Rename, SetAside, WriteBack, PowerFailure,
           Damage, ghosts
      <3>. QED
        BY <3>1 DEF Files
    <2>. QED
      BY <2>3, <2>4, <2>5 DEF Next, Save, Load
  <1>4. generated' \in 0 .. MaxSecrets /\ secretSafe' \in BOOLEAN
    <2>1. CASE Sign \/ LoadDocument
      BY <2>1, SecretTypes DEF Sign, LoadDocument
    <2>2. CASE ~(Sign \/ LoadDocument)
      <3>1. UNCHANGED generated /\ (UNCHANGED secretSafe \/ secretSafe' = TRUE)
        BY <2>2 DEF Next, Save, Load, vars, BeginSave, WriteTemporary, Sync, Rename,
           SaveFails, Start, LoadMissing, LoadPartial, ReadFails, SetAside, WriteBack, Stop,
           Crash, PowerFailure, Damage, diskVars, ghosts
      <3>. QED
        BY <3>1 DEF TypeOK
    <2>. QED
      BY <2>1, <2>2
  <1>5. faults' \in 0 .. MaxFaults
    <2>1. CASE Sign \/ LoadDocument
      BY <2>1, SecretTypes DEF Sign, LoadDocument
    <2>2. CASE ~(Sign \/ LoadDocument)
      <3>1. UNCHANGED faults \/ Fault
        BY <2>2 DEF Next, Save, Load, vars, BeginSave, WriteTemporary, Sync, Rename,
           SaveFails, Start, LoadMissing, LoadPartial, ReadFails, SetAside, WriteBack, Stop,
           Crash, PowerFailure, Damage, diskVars, ghosts
      <3>2. faults \in 0 .. MaxFaults
        BY DEF TypeOK
      <3>. QED
        BY <3>1, <3>2, FaultStaysBounded
    <2>. QED
      BY <2>1, <2>2
  <1>6. verified' \in BOOLEAN
    <2>1. CASE LoadDocument
      BY <2>1 DEF LoadDocument
    <2>2. CASE ~LoadDocument
      <3>1. CASE LoadMissing
        BY <3>1 DEF LoadMissing
      <3>2. CASE SetAside
        BY <3>2 DEF SetAside
      <3>3. CASE ~(LoadMissing \/ SetAside)
        <4>1. UNCHANGED verified
          BY <2>2, <3>3 DEF Next, Save, Load, vars, BeginSave, Sign, WriteTemporary, Sync,
             Rename, SaveFails, Start, LoadPartial, ReadFails, WriteBack, Stop, Crash,
             PowerFailure, Damage
        <4>. QED
          BY <4>1, ZenonT(30) DEF TypeOK
      <3>. QED
        BY <3>1, <3>2, <3>3
    <2>. QED
      BY <2>1, <2>2
  <1>7. damaged' \in BOOLEAN /\ excused' \in BOOLEAN /\ misread' \in BOOLEAN
    BY DEF TypeOK, Next, Save, Load, vars, BeginSave, Sign, WriteTemporary, Sync, Rename,
       SaveFails, Start, LoadMissing, LoadDocument, LoadPartial, ReadFails, SetAside, WriteBack,
       Stop, Crash, PowerFailure, Damage, ghosts
  <1> QED
    BY <1>1, <1>2, <1>3, <1>4, <1>5, <1>6, <1>7 DEF TypeOK

\* Every variable keeps its type: above all, what is in a file or about to be
\* renamed is no mixture of two documents, and the secret is a generated one.
THEOREM StoreTypeCorrect == Spec => []TypeOK
  <1>1. Init => SaveInProgress /\ TypeOK
    <2>. SUFFICES ASSUME Init
                  PROVE  SaveInProgress /\ TypeOK
      OBVIOUS
    <2>1. SaveInProgress
      BY StoreAssumption DEF Init, SaveInProgress
    <2>2. generated \in 0 .. MaxSecrets /\ faults \in 0 .. MaxFaults
      BY StoreAssumption DEF StoreAssumption, Init
    <2>3. pc \in Points /\ data \in Contents /\ stored \in Contents
      BY StoreAssumption DEF StoreAssumption, Init, Points
    <2>4. {file, stable, tmp} \subseteq Document \cup {Missing, Partial}
      BY Zenon DEF Init
    <2>5. key \in Key \cup {NoKey} /\ secretFile \in Key \cup {NoKey}
      BY Zenon DEF Init
    <2>6. /\ loading \in BOOLEAN /\ verified \in BOOLEAN /\ secretSafe \in BOOLEAN
          /\ damaged \in BOOLEAN /\ excused \in BOOLEAN /\ misread \in BOOLEAN
      BY DEF Init
    <2> QED
      BY <2>1, <2>2, <2>3, <2>4, <2>5, <2>6 DEF TypeOK
  <1>2. SaveInProgress /\ TypeOK /\ [Next]_vars => (SaveInProgress /\ TypeOK)'
    BY SaveInProgressNext, TypeNext
  <1> QED
    BY <1>1, <1>2, PTL DEF Spec

-----------------------------------------------------------------------------
(* The store implements a document saved as a whole *)

LEMMA SaysOfFiles ==
    /\ Says(Missing) = DefaultContent /\ Says(Partial) = DefaultContent
    /\ \A c \in Contents, k \in Key : Says(Whole(c, k)) = c
  <1>1. Missing \notin Document /\ Partial \notin Document
    BY PartialIsNoDocument DEF Document
  <1>2. ASSUME NEW c \in Contents, NEW k \in Key
        PROVE  Whole(c, k) \in Document /\ Whole(c, k).content = c
    BY DEF Document, Whole
  <1> QED
    BY <1>1, <1>2 DEF Says

LEMMA AtomicInit == Init => Durable!Init
  BY SaysOfFiles DEF Init, Durable!Init

\* Every system call is one step of the document or none.
LEMMA AtomicNext ==
    ASSUME SaveInProgress, [Next]_vars
    PROVE  [Durable!Next]_(Durable!documentVars)
  <1>1. CASE BeginSave
    <2>1. Durable!Change
      BY <1>1 DEF BeginSave, Durable!Change, diskVars, Says
    <2> QED
      BY <2>1 DEF Durable!Next
  <1>2. CASE Sign \/ WriteTemporary \/ Sync
    <2>1. UNCHANGED <<file, stable, data>>
      BY <1>2 DEF Sign, WriteTemporary, Sync
    <2>2. /\ pc \in {"sign", "write", "sync"}
          /\ pc' \in {"write", "sync", "rename"}
      BY <1>2 DEF Sign, WriteTemporary, Sync
    <2> QED
      BY <2>1, <2>2 DEF Durable!documentVars, Says
  <1>3. CASE Rename
    <2>1. Says(file)' = data
      BY <1>3, SaysOfFiles DEF Rename, SaveInProgress, Says
    <2>2. Durable!Commit
      BY <1>3, <2>1 DEF Rename, Durable!Commit, Says
    <2> QED
      BY <2>2 DEF Durable!Next
  <1>4. CASE SaveFails
    <2>1. CASE loading
      <3>1. Durable!Die
        BY <1>4, <2>1 DEF SaveFails, Durable!Die, diskVars, Says
      <3> QED
        BY <3>1 DEF Durable!Next
    <2>2. CASE ~loading
      <3>1. Durable!GiveUp
        BY <1>4, <2>2 DEF SaveFails, Durable!GiveUp, diskVars, Says
      <3> QED
        BY <3>1 DEF Durable!Next
    <2> QED
      BY <2>1, <2>2
  <1>5. CASE Start
    BY <1>5 DEF Start, Durable!documentVars, diskVars, Says
  <1>6. CASE LoadMissing
    <2>1. Durable!Load
      BY <1>6, SaysOfFiles DEF LoadMissing, Durable!Load, diskVars, Says
    <2> QED
      BY <2>1 DEF Durable!Next
  <1>7. CASE LoadDocument
    <2>1. Durable!Load
      BY <1>7 DEF LoadDocument, Durable!Load, Says
    <2> QED
      BY <2>1 DEF Durable!Next
  <1>8. CASE LoadPartial \/ ReadFails
    BY <1>8 DEF LoadPartial, ReadFails, Durable!documentVars, diskVars, Says
  <1>9. CASE SetAside
    <2>1. Says(file)' \in {Says(file), DefaultContent}
      BY <1>9, SaysOfFiles DEF SetAside, Says
    <2>2. Durable!Replace
      BY <1>9, <2>1 DEF SetAside, Durable!Replace, Says
    <2> QED
      BY <2>2 DEF Durable!Next
  <1>10. CASE WriteBack
    <2>1. Durable!Settle
      BY <1>10 DEF WriteBack, Durable!Settle, Says
    <2> QED
      BY <2>1 DEF Durable!Next
  <1>11. CASE Stop \/ Crash
    <2>1. Durable!Die
      BY <1>11 DEF Stop, Crash, Durable!Die, diskVars, Says
    <2> QED
      BY <2>1 DEF Durable!Next
  <1>12. CASE PowerFailure
    <2>1. Durable!PowerFails
      BY <1>12 DEF PowerFailure, Durable!PowerFails, Says
    <2> QED
      BY <2>1 DEF Durable!Next
  <1>13. CASE Damage
    <2>1. Says(file)' = DefaultContent
      BY <1>13, SaysOfFiles DEF Damage, Says
    <2>2. Durable!Lose
      BY <1>13, <2>1 DEF Damage, Durable!Lose, Says
    <2> QED
      BY <2>2 DEF Durable!Next
  <1>14. CASE UNCHANGED vars
    BY <1>14 DEF vars, diskVars, Durable!documentVars, Says
  <1> QED
    BY <1>1, <1>2, <1>3, <1>4, <1>5, <1>6, <1>7, <1>8, <1>9, <1>10, <1>11,
       <1>12, <1>13, <1>14 DEF Next, Save, Load

\* Whichever system calls fail, the rename of an unreadable file included, and
\* wherever the process dies or power fails, a save puts its content into
\* state.json in one step or not at all, and a process holds only what a load
\* found there or what it is saving itself.
THEOREM StoreIsAtomic == Spec => SavesAreAtomic
  <1>1. Init => SaveInProgress
    BY StoreAssumption DEF Init, SaveInProgress
  <1> QED
    BY <1>1, SaveInProgressNext, AtomicInit, AtomicNext, PTL
       DEF Spec, SavesAreAtomic, Durable!Spec
=============================================================================
