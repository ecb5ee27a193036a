--------------------------- MODULE DurableDocument ---------------------------
(***************************************************************************)
(* What the daemon may expect of its state file, with none of the system   *)
(* calls: a save puts a new content there in one step or not at all, and   *)
(* only a load, of exactly what is there, gives the process a content it   *)
(* has not chosen.  A power failure may take the file back to what was     *)
(* last written back.  While no process holds the content, the file may be *)
(* damaged, or a process may find it unreadable: it then saves the default *)
(* over what is there or what it could move out of the way.                *)
(***************************************************************************)

CONSTANTS Contents, DefaultContent

VARIABLES there,    \* the content a load would find
          safe,     \* the content it would find after a power failure
          held,     \* the content a process holds: none or one
          saving    \* the process is saving it

documentVars == <<there, safe, held, saving>>

Init ==
    /\ there = DefaultContent /\ safe = DefaultContent
    /\ held = {}
    /\ saving = FALSE

Change ==
    /\ held # {} /\ ~saving
    /\ \E c \in Contents : held' = {c}
    /\ saving' = TRUE
    /\ UNCHANGED <<there, safe>>

Commit ==
    /\ saving /\ held = {there'}
    /\ saving' = FALSE
    /\ UNCHANGED <<safe, held>>

GiveUp ==
    /\ saving
    /\ saving' = FALSE
    /\ UNCHANGED <<there, safe, held>>

\* (A default that is nowhere on disk yet is saved at once.)
Load ==
    /\ held = {} /\ held' = {there}
    /\ saving' => there = DefaultContent
    /\ saving' \in BOOLEAN
    /\ UNCHANGED <<there, safe>>

\* Damaged.
Lose ==
    /\ held = {}
    /\ there' = DefaultContent
    /\ UNCHANGED <<safe, held, saving>>

\* Found unreadable, and moved out of the way or not.
Replace ==
    /\ held = {}
    /\ there' \in {there, DefaultContent}
    /\ held' = {DefaultContent}
    /\ saving' = TRUE
    /\ UNCHANGED safe

Settle == safe' = there /\ UNCHANGED <<there, held, saving>>

Die == held' = {} /\ saving' = FALSE /\ UNCHANGED <<there, safe>>

PowerFails ==
    /\ held' = {} /\ saving' = FALSE
    /\ there' \in {there, safe}
    /\ safe' = there'

Next == Change \/ Commit \/ GiveUp \/ Load \/ Lose \/ Replace \/ Settle \/ Die
        \/ PowerFails

Spec == Init /\ [][Next]_documentVars
=============================================================================
