----------------------------- MODULE ConfigFile -----------------------------
(***************************************************************************)
(* What the admin configuration API promises of the file: saves are        *)
(* serialised, one begins only if the file is what its author has seen,    *)
(* and until it ends the store writes nothing but a document that keeps    *)
(* every literal secret in its place, or the one that was there before.    *)
(* Editors who do not use the API may write the file at any time.          *)
(***************************************************************************)
EXTENDS ConfigDocument

CONSTANTS Admins, None, Gone

VARIABLES
    disk,   \* the document in the file, or Gone
    seen,   \* the document each admin has last been shown, or None
    saving, \* the admin whose save is under way, or None
    byHand  \* how often the file has been written without the API

file_vars == <<disk, seen, saving, byHand>>

Init ==
    /\ disk \in Document
    /\ seen = [a \in Admins |-> None]
    /\ saving = None /\ byHand = 0

See(a) ==
    /\ saving = None /\ disk # Gone
    /\ seen' = [seen EXCEPT ![a] = disk]
    /\ UNCHANGED <<disk, saving, byHand>>

Begin(a) ==
    /\ saving = None /\ seen[a] = disk
    /\ saving' = a
    /\ UNCHANGED <<disk, seen, byHand>>

Write(a) ==
    /\ saving = a
    /\ \/ disk' = Gone
       \/ disk' \in Document /\ PlacesKept(seen[a], disk')
    /\ UNCHANGED <<seen, saving, byHand>>

\* A save ends; an admin turns to something else.
End(a) ==
    /\ seen' = [seen EXCEPT ![a] = None]
    /\ saving' = (IF saving = a THEN None ELSE saving)
    /\ UNCHANGED <<disk, byHand>>

OutsideEdit ==
    /\ disk' \in Document /\ byHand' = byHand + 1
    /\ UNCHANGED <<seen, saving>>

Crash ==
    /\ seen' = [a \in Admins |-> None] /\ saving' = None
    /\ UNCHANGED <<disk, byHand>>

Next ==
    \/ \E a \in Admins : See(a) \/ Begin(a) \/ Write(a) \/ End(a)
    \/ OutsideEdit \/ Crash

Spec == Init /\ [][Next]_file_vars
=============================================================================
