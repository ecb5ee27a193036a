----------------------------- MODULE StateStore -----------------------------
(***************************************************************************)
(* StateManager (storage/state.py): the document and the signing secret on *)
(* disk, one action per system call that matters to a crash.  save writes  *)
(* a temporary file, syncs it and renames it over state.json; load reads   *)
(* state.json, verifies its signature and falls back to a default document *)
(* when that raises.  The process may die between any two calls, and power *)
(* may fail: a rename or an unsynced file not yet written back is then     *)
(* lost.                                                                   *)
(*                                                                         *)
(* A document is its content and the key it was signed with; PolicyEngine  *)
(* says what the contents are.  data_dir exists and stays where it is.     *)
(***************************************************************************)
EXTENDS Integers

CONSTANTS
    Contents,       \* what a document may say
    DefaultContent, \* what PersistentData() says
    MaxSecrets,     \* bound: secrets generated
    MaxFaults       \* bound: crashes, power failures, bad reads and writes

ASSUME StoreAssumption ==
    /\ DefaultContent \in Contents
    /\ MaxFaults \in Nat
    /\ MaxSecrets \in Nat /\ MaxSecrets > MaxFaults

VARIABLES
    pc,         \* where the process is: see Points
    loading,    \* the running save was called by load
    data,       \* the content the process holds
    key,        \* _secret: the key in memory, None before _get_secret
    verified,   \* load's second result
    file,       \* state.json as a process sees it
    stable,     \* state.json as a power failure would leave it
    tmp,        \* state.json.tmp
    secretFile, \* .secret: none or the key written to it
    secretSafe, \* .secret has been written back to the disk
    generated,  \* number of keys generated so far
    faults,     \* faults so far, bounded by MaxFaults
    stored,     \* content of the last save that returned
    damaged,    \* state.json was damaged from outside
    excused,    \* since that save power failed or state.json was damaged
    misread     \* since that save a file that could be read was not

vars == <<pc, loading, data, key, verified, file, stable, tmp, secretFile, secretSafe,
          generated, faults, stored, damaged, excused, misread>>
diskVars == <<file, stable, tmp, secretFile, secretSafe>>
ghosts == <<stored, damaged, excused, misread>>

\* "idle": between requests.  "sign", "write", "sync", "rename": the next
\* call of save.  "load": about to read state.json.  "aside": about to rename
\* a state.json that could not be read.
Points == {"down", "load", "aside", "idle", "sign", "write", "sync", "rename"}

\* A file is missing, cut short, or a whole document.  A secret is 32 random
\* bytes; `stripped` says that strip() would take some of them away, since
\* they begin or end with white space.
Missing == [kind |-> "missing"]
Partial == [kind |-> "partial"]
Key == [id : 1 .. MaxSecrets, stripped : BOOLEAN]
NoKey == [id |-> 0, stripped |-> FALSE]
Whole(content, k) == [kind |-> "document", content |-> content, sig |-> k.id]
Document == {Whole(c, k) : c \in Contents, k \in Key}

TypeOK ==
    /\ pc \in Points
    /\ loading \in BOOLEAN
    /\ data \in Contents
    /\ key \in Key \cup {NoKey}
    /\ verified \in BOOLEAN
    /\ {file, stable, tmp} \subseteq Document \cup {Missing, Partial}
    /\ secretFile \in Key \cup {NoKey}
    /\ secretSafe \in BOOLEAN
    /\ generated \in 0 .. MaxSecrets
    /\ faults \in 0 .. MaxFaults
    /\ stored \in Contents
    /\ damaged \in BOOLEAN
    /\ excused \in BOOLEAN
    /\ misread \in BOOLEAN

-----------------------------------------------------------------------------
(* The secret *)

Fault == faults < MaxFaults /\ faults' = faults + 1

\* (Bound: enough keys are left for the faults to come.)
NewKey ==
    /\ generated < MaxSecrets
    /\ generated' = generated + 1
    /\ \E s \in BOOLEAN : key' = [id |-> generated + 1, stripped |-> s]
    /\ key'.stripped => generated + 2 + (MaxFaults - faults) <= MaxSecrets

KeyWritten == secretFile' = key' /\ secretSafe' = FALSE

\* _get_secret: the key in memory, or a whole one read from the file, or a new
\* one.  The bytes read are stripped, so a key that strip() shortens is never
\* read back.  A file that cannot be read is replaced, one that cannot be
\* written is left alone.
GetSecret ==
    \/ /\ key # NoKey
       /\ UNCHANGED <<key, secretFile, secretSafe, generated, faults>>
    \/ /\ key = NoKey
       /\ secretFile # NoKey
       /\ ~secretFile.stripped
       /\ key' = secretFile
       /\ UNCHANGED <<secretFile, secretSafe, generated, faults>>
    \/ /\ key = NoKey
       /\ secretFile = NoKey \/ secretFile.stripped
       /\ NewKey
       /\ \/ KeyWritten /\ UNCHANGED faults
          \/ Fault /\ UNCHANGED <<secretFile, secretSafe>>
    \/ /\ key = NoKey
       /\ secretFile # NoKey
       /\ Fault
       /\ NewKey
       /\ KeyWritten

-----------------------------------------------------------------------------
(* save *)

\* The caller changes what the process holds and calls save.
BeginSave ==
    /\ pc = "idle"
    /\ data' \in Contents
    /\ pc' = "sign"
    /\ UNCHANGED <<loading, key, verified, diskVars, generated, faults, ghosts>>

Sign ==
    /\ pc = "sign"
    /\ GetSecret
    /\ pc' = "write"
    /\ UNCHANGED <<loading, data, verified, file, stable, tmp, ghosts>>

\* Mutant: the old document is removed before the new one is written.
WriteTemporary_UnlinksFirst ==
    /\ pc = "write"
    /\ file' = Missing
    /\ tmp' = Partial
    /\ pc' = "sync"
    /\ UNCHANGED <<loading, data, key, verified, stable, secretFile,
                   secretSafe, generated, faults, ghosts>>

\* open(tmp_file, "w") and json.dump: until the flush the file is cut short.
WriteTemporary ==
    /\ pc = "write"
    /\ tmp' = Partial
    /\ pc' = "sync"
    /\ UNCHANGED <<loading, data, key, verified, file, stable, secretFile,
                   secretSafe, generated, faults, ghosts>>

Sync ==
    /\ pc = "sync"
    /\ tmp' = Whole(data, key)
    /\ pc' = "rename"
    /\ UNCHANGED <<loading, data, key, verified, file, stable, secretFile,
                   secretSafe, generated, faults, ghosts>>

\* os.replace, and the return from save.
Rename ==
    /\ pc = "rename"
    /\ file' = tmp
    /\ tmp' = Missing
    /\ stored' = data
    /\ excused' = FALSE
    /\ misread' = FALSE
    /\ pc' = "idle"
    /\ loading' = FALSE
    /\ UNCHANGED <<data, key, verified, stable, secretFile, secretSafe,
                   generated, faults, damaged>>

\* open, write or replace raises: an error to whoever called save, and the end
\* of a process that called it from load.
SaveFails ==
    /\ pc \in {"write", "sync", "rename"}
    /\ Fault
    /\ pc' = IF loading THEN "down" ELSE "idle"
    /\ loading' = FALSE
    /\ UNCHANGED <<data, key, verified, diskVars, generated, ghosts>>

-----------------------------------------------------------------------------
(* load *)

Start ==
    /\ pc = "down"
    /\ pc' = "load"
    /\ key' = NoKey
    /\ UNCHANGED <<loading, data, verified, diskVars, generated, faults, ghosts>>

LoadMissing ==
    /\ pc = "load"
    /\ file = Missing
    /\ data' = DefaultContent
    /\ verified' = TRUE
    /\ loading' = TRUE
    /\ pc' = "sign"
    /\ UNCHANGED <<key, diskVars, generated, faults, ghosts>>

\* Mutant: a content that does not verify is not used.
LoadDocument_Verified ==
    /\ pc = "load"
    /\ file \in Document
    /\ GetSecret
    /\ verified' = (file.sig = key'.id)
    /\ data' = IF verified' THEN file.content ELSE DefaultContent
    /\ pc' = "idle"
    /\ UNCHANGED <<loading, file, stable, tmp, ghosts>>

\* The caller never looks at `verified`: the content is used either way.
LoadDocument ==
    /\ pc = "load"
    /\ file \in Document
    /\ GetSecret
    /\ data' = file.content
    /\ verified' = (file.sig = key'.id)
    /\ pc' = "idle"
    /\ UNCHANGED <<loading, file, stable, tmp, ghosts>>

\* A file that is no JSON raises.
LoadPartial ==
    /\ pc = "load"
    /\ file = Partial
    /\ pc' = "aside"
    /\ UNCHANGED <<loading, data, key, verified, diskVars, generated, faults, ghosts>>

\* So does a whole file that cannot be opened or read this time.
ReadFails ==
    /\ pc = "load"
    /\ file # Missing
    /\ Fault
    /\ misread' = TRUE
    /\ pc' = "aside"
    /\ UNCHANGED <<loading, data, key, verified, diskVars, generated, stored,
                   damaged, excused>>

\* What raised is renamed to state.json.corrupt, unless that fails too, which
\* nobody is told; either way a default document is saved.
SetAside ==
    /\ pc = "aside"
    /\ \/ file' = Missing /\ UNCHANGED faults
       \/ Fault /\ UNCHANGED file
    /\ data' = DefaultContent
    /\ verified' = FALSE
    /\ loading' = TRUE
    /\ pc' = "sign"
    /\ UNCHANGED <<key, stable, tmp, secretFile, secretSafe, generated, ghosts>>

-----------------------------------------------------------------------------
(* The machine *)

\* The kernel writes renames and unsynced files back in its own time.
WriteBack ==
    /\ stable # file \/ ~secretSafe
    /\ stable' = file
    /\ secretSafe' = TRUE
    /\ UNCHANGED <<pc, loading, data, key, verified, file, tmp, secretFile,
                   generated, faults, ghosts>>

Stop ==
    /\ pc = "idle"
    /\ pc' = "down"
    /\ UNCHANGED <<loading, data, key, verified, diskVars, generated, faults, ghosts>>

Crash ==
    /\ pc # "down"
    /\ Fault
    /\ pc' = "down"
    /\ loading' = FALSE
    /\ UNCHANGED <<data, key, verified, diskVars, generated, ghosts>>

\* What has not been written back may be lost.
PowerFailure ==
    /\ Fault
    /\ pc' = "down"
    /\ loading' = FALSE
    /\ file' \in {file, stable}
    /\ stable' = file'
    /\ tmp' \in {tmp, Missing, Partial}
    /\ secretFile' \in {secretFile} \cup (IF secretSafe THEN {} ELSE {NoKey})
    /\ secretSafe' = TRUE
    /\ excused' = TRUE
    /\ UNCHANGED <<data, key, verified, generated, stored, damaged, misread>>

\* Something outside damages state.json.
Damage ==
    /\ pc = "down"
    /\ file \in Document
    /\ Fault
    /\ file' = Partial
    /\ damaged' = TRUE
    /\ excused' = TRUE
    /\ UNCHANGED <<pc, loading, data, key, verified, stable, tmp, secretFile,
                   secretSafe, generated, stored, misread>>

-----------------------------------------------------------------------------
Init ==
    /\ pc = "down"
    /\ data = DefaultContent
    /\ key = NoKey
    /\ verified = TRUE
    /\ file = Missing
    /\ stable = Missing
    /\ tmp = Missing
    /\ secretFile = NoKey
    /\ secretSafe = TRUE
    /\ generated = 0
    /\ faults = 0
    /\ loading = FALSE
    /\ stored = DefaultContent
    /\ damaged = FALSE
    /\ excused = FALSE
    /\ misread = FALSE

Save == BeginSave \/ Sign \/ WriteTemporary \/ Sync \/ Rename
Load == Start \/ LoadMissing \/ LoadDocument \/ LoadPartial \/ SetAside

Next ==
    \/ Save
    \/ SaveFails
    \/ Load
    \/ ReadFails
    \/ WriteBack
    \/ Stop
    \/ Crash
    \/ PowerFailure
    \/ Damage

Spec == Init /\ [][Next]_vars
-----------------------------------------------------------------------------
(* Properties *)

\* No failure of the process or of the power, at whatever point of a save,
\* leaves half a document in state.json.
DocumentIntact == ~damaged => Partial \notin {file, stable}

\* What a load would return now.
Says(f) == IF f \in Document THEN f.content ELSE DefaultContent

\* As long as sound files are read, state.json says what the last save that
\* returned put there: a save that is under way, has failed or has died shows
\* nothing of its content, and starting over changes nothing.
StoredContentKept ==
    ~excused /\ ~misread => file # Partial /\ Says(file) = stored

\* "Corrupted file": only a file that is corrupted is set aside, so state.json
\* keeps what was stored even where a sound file was not read at the first try.
SoundDocumentKept == ~excused => file # Partial /\ Says(file) = stored

\* A document written by the daemon and touched by nobody verifies when it is
\* loaded.
UntouchedStateVerifies == ~damaged /\ pc = "idle" => verified

\* The store implements a document that is saved as a whole and loaded as it
\* is, or not at all: a save, a load and the recovery of a file that could not
\* be read each show as one step, whichever of their system calls fail or are
\* never made.
Durable == INSTANCE DurableDocument WITH
    there <- Says(file), safe <- Says(stable),
    held <- IF pc \in {"down", "load", "aside"} THEN {} ELSE {data},
    saving <- pc \in {"sign", "write", "sync", "rename"}
SavesAreAtomic == Durable!Spec
=============================================================================
