---------------------------- MODULE ConfigStore ----------------------------
(***************************************************************************)
(* The configuration file, the admin API over it and the running process:  *)
(* Store.Read, Validate and Commit of internal/config/store.go with every  *)
(* file operation a step of its own, the reloader of cmd/tokenroute, the   *)
(* SIGHUP loop of main.go, which reads the file without the store's lock,  *)
(* and crashes and restarts.                                               *)
(*                                                                         *)
(* A revision is a hash of the file's bytes, here the document itself.     *)
(* A rename is atomic and lasts, also over a loss of power; what a file    *)
(* contains lasts over a loss of power only if it was synced, and backups  *)
(* never are.  Building and swapping the runtime state under reloader.mu   *)
(* is one step.                                                            *)
(***************************************************************************)
EXTENDS ConfigDocument

CONSTANTS
    Admins, None, Gone, Torn,
    InitialDocument,
    Outside,        \* the documents written by hand
    BackupLimit,
    MaxSaves,       \* bound: commits that get as far as the disk
    MaxEdits,       \* bound: files written by hand
    MaxFaults       \* bound: file operations that fail

ASSUME StoreAssumption ==
    /\ None \notin Admins \cup Document
    /\ Gone # Torn /\ Gone \notin Document /\ Torn \notin Document
    /\ InitialDocument \in Document /\ InitialDocument.hot \in Buildable
    /\ Outside \subseteq Document
    /\ BackupLimit \in Nat \ {0} /\ MaxSaves \in Nat /\ MaxEdits \in Nat /\ MaxFaults \in Nat

VARIABLES
    file,       \* the configuration file: its document, Gone or Torn, and its durability
    temp,       \* the temporary file of the save under way, or None
    backups,    \* the contents of <path>.bak.*, oldest first
    mu,         \* Store.mu: the admin whose Commit is under way, or None
    admins,     \* each admin's view, candidate and progress through Commit
    active,     \* the configuration the process runs with, None when it is down
    bound,      \* the addresses the process has opened: [listen, boot]
    hup,        \* SIGHUP: "idle", "loaded" or "rebind"
    loaded,     \* the document SIGHUP has read and not yet applied, or None
    saves, edits, faults,   \* what the bounds count
    replaced,   \* for the properties: what the last save has written over, or None
    behind,     \* for the properties: the process is not to be expected to run the
                \* file: it was edited by hand, a rollback has failed, or SIGHUP has
                \* applied a document that was overtaken (or, until the save under
                \* way applies or ends, another than this save has read)
    overtaken   \* for the properties: the file has changed since SIGHUP read it

disk_vars == <<file, temp, backups, saves, faults, replaced>>
hup_vars == <<hup, loaded, overtaken>>
run_vars == <<active, bound, behind>>
vars == <<disk_vars, mu, admins, run_vars, hup_vars, edits>>

Committing == {"backup", "write", "sync", "rename", "remove", "again", "apply", "rotate", "restored"}

Stages == {"idle", "viewing"} \cup Committing

Idle == [at |-> "idle", base |-> None, candidate |-> None, undo |-> FALSE]

Init ==
    /\ file = [doc |-> InitialDocument, synced |-> TRUE]
    /\ temp = None /\ backups = <<>> /\ mu = None
    /\ admins = [a \in Admins |-> Idle]
    /\ active = InitialDocument
    /\ bound = [listen |-> InitialDocument.listen, boot |-> InitialDocument.boot]
    /\ hup = "idle" /\ loaded = None
    /\ saves = 0 /\ edits = 0 /\ faults = 0
    /\ replaced = None /\ behind = FALSE /\ overtaken = FALSE

Up == active # None

\* The file changes, under the eyes of a SIGHUP that has read it.
Overtakes == overtaken' = (overtaken \/ hup = "loaded")

Readable == file.doc \notin {Gone, Torn}

At(a, stage) == Up /\ admins[a].at = stage

Go(a, stage) == admins' = [admins EXCEPT ![a].at = stage]

\* What the save of a writes: its candidate, or what was there before.
Target(a) == IF admins[a].undo THEN admins[a].base ELSE admins[a].candidate

-----------------------------------------------------------------------------
(* GET /admin/config                                                       *)

Read(a) ==
    /\ Up /\ mu = None /\ Readable /\ admins[a].at \in {"idle", "viewing"}
    /\ admins' = [admins EXCEPT ![a] = [Idle EXCEPT !.at = "viewing", !.base = file.doc]]
    /\ UNCHANGED <<disk_vars, mu, run_vars, hup_vars, edits>>

-----------------------------------------------------------------------------
(* PUT /admin/config: Store.Commit                                         *)

Finish(a) ==
    /\ mu' = None
    /\ admins' = [admins EXCEPT ![a] = Idle]

\* A variant that saves over whatever is there.
Put_NoRevisionCheck(a, sub, mode, claimed) ==
    /\ At(a, "viewing") /\ mu = None /\ saves < MaxSaves
    /\ UNCHANGED <<file, temp, backups, faults, replaced, run_vars, hup_vars, edits>>
    /\ IF Readable /\ Acceptable(file.doc, sub) /\ Candidate(file.doc, mode, sub) # file.doc
       THEN /\ mu' = a /\ saves' = saves + 1
            /\ admins' = [admins EXCEPT ![a].at = "backup",
                                        ![a].candidate = Candidate(file.doc, mode, sub)]
       ELSE Finish(a) /\ UNCHANGED saves

\* The client sends one edit of what it has seen, and the revision it expects
\* of the candidate: POST .../validate tells it (Acceptable, and the candidate
\* can be built) and changes nothing, or the client computes it; `claimed' is
\* whether it is right.
Put(a, sub, mode, claimed) ==
    /\ At(a, "viewing") /\ mu = None /\ saves < MaxSaves
    /\ UNCHANGED <<file, temp, backups, faults, replaced, run_vars, hup_vars, edits>>
    /\ IF /\ Readable /\ file.doc = admins[a].base
          /\ Acceptable(file.doc, sub)
          /\ claimed
          /\ Candidate(file.doc, mode, sub) # file.doc
       THEN /\ mu' = a /\ saves' = saves + 1
            /\ admins' = [admins EXCEPT ![a].at = "backup",
                                        ![a].candidate = Candidate(file.doc, mode, sub)]
       ELSE Finish(a) /\ UNCHANGED saves

\* A variant in which the lock is not deferred but released on success only.
Fault_KeepsLock(a) ==
    /\ faults < MaxFaults
    /\ faults' = faults + 1
    /\ behind' = (behind \/ admins[a].undo \/ file.doc = Gone)
    /\ admins' = [admins EXCEPT ![a] = Idle]
    /\ UNCHANGED mu

\* An operation of the save fails: Commit returns an error.
Fault(a) ==
    /\ faults < MaxFaults
    /\ faults' = faults + 1
    /\ behind' = (behind \/ admins[a].undo \/ file.doc = Gone)
    /\ Finish(a)

WriteBackup(a) ==
    /\ At(a, "backup")
    /\ \/ /\ backups' = Append(backups, admins[a].base)
          /\ Go(a, "write")
          /\ UNCHANGED <<file, temp, mu, saves, faults, replaced, behind>>
       \/ Fault(a) /\ UNCHANGED <<file, temp, backups, saves, replaced>>
    /\ UNCHANGED <<active, bound, hup_vars, edits>>

WriteTemp(a) ==
    /\ At(a, "write")
    /\ \/ /\ temp' = [doc |-> Target(a), synced |-> FALSE]
          /\ Go(a, "sync")
          /\ UNCHANGED <<file, backups, mu, saves, faults, replaced, behind>>
       \/ Fault(a) /\ UNCHANGED <<file, temp, backups, saves, replaced>>
    /\ UNCHANGED <<active, bound, hup_vars, edits>>

\* A variant that renames what it has written without waiting for the disk.
SyncTemp_Never(a) ==
    /\ At(a, "sync")
    /\ Go(a, "rename")
    /\ UNCHANGED <<disk_vars, mu, run_vars, hup_vars, edits>>

SyncTemp(a) ==
    /\ At(a, "sync")
    /\ \/ /\ temp' = [temp EXCEPT !.synced = TRUE]
          /\ Go(a, "rename")
          /\ UNCHANGED <<file, backups, mu, saves, faults, replaced, behind>>
       \/ Fault(a) /\ temp' = None /\ UNCHANGED <<file, backups, saves, replaced>>
    /\ UNCHANGED <<active, bound, hup_vars, edits>>

\* The temporary file takes the place of the configuration.
Move(a) ==
    /\ file' = temp /\ temp' = None
    /\ Overtakes
    /\ UNCHANGED <<backups, mu, saves, faults, behind>>
    /\ IF admins[a].undo
       THEN Go(a, "restored") /\ replaced' = None
       ELSE Go(a, "apply") /\ replaced' = admins[a].base

\* A rename that fails is tried again once the old file has been removed.
Rename(a) ==
    /\ At(a, "rename")
    /\ \/ Move(a)
       \/ /\ faults < MaxFaults /\ faults' = faults + 1
          /\ Go(a, "remove")
          /\ UNCHANGED <<file, temp, backups, mu, saves, replaced, behind, overtaken>>
    /\ UNCHANGED <<active, bound, hup, loaded, edits>>

RemoveOld(a) ==
    /\ At(a, "remove")
    /\ \/ /\ file' = [doc |-> Gone, synced |-> TRUE]
          /\ Go(a, "again")
          /\ Overtakes
          /\ UNCHANGED <<temp, mu, faults, behind>>
       \/ Fault(a) /\ temp' = None /\ UNCHANGED <<file, overtaken>>
    /\ UNCHANGED <<backups, saves, replaced, active, bound, hup, loaded, edits>>

RenameAgain(a) ==
    /\ At(a, "again")
    /\ \/ Move(a)
       \/ Fault(a) /\ temp' = None /\ UNCHANGED <<file, backups, saves, replaced, overtaken>>
    /\ UNCHANGED <<active, bound, hup, loaded, edits>>

\* A variant that reports the failure and leaves the file as it is.
Apply_NoRollback(a) ==
    /\ At(a, "apply")
    /\ active' = (IF admins[a].candidate.hot \in Buildable
                  THEN Overlay(admins[a].candidate, active) ELSE active)
    /\ behind' = (~Readable \/ file.doc # admins[a].candidate)
    /\ Go(a, "rotate")
    /\ UNCHANGED <<disk_vars, mu, bound, hup_vars, edits>>

\* reloader.Apply for an admin, and the rollback when the state cannot be built.
Apply(a) ==
    /\ At(a, "apply")
    /\ IF admins[a].candidate.hot \in Buildable
       THEN /\ active' = Overlay(admins[a].candidate, active)
            /\ behind' = (~Readable \/ file.doc # admins[a].candidate)
            /\ Go(a, "rotate")
       ELSE /\ admins' = [admins EXCEPT ![a].at = "write", ![a].undo = TRUE]
            /\ UNCHANGED <<active, behind>>
    /\ UNCHANGED <<disk_vars, mu, bound, hup_vars, edits>>

\* A variant that sorts the other way round.
RotateBackups_KeepsOldest(a) ==
    /\ At(a, "rotate")
    /\ backups' = SubSeq(backups, 1, IF Len(backups) > BackupLimit THEN BackupLimit ELSE Len(backups))
    /\ Finish(a)
    /\ UNCHANGED <<file, temp, saves, faults, replaced, run_vars, hup_vars, edits>>

RotateBackups(a) ==
    /\ At(a, "rotate")
    /\ backups' = SubSeq(backups, 1 + (IF Len(backups) > BackupLimit
                                       THEN Len(backups) - BackupLimit ELSE 0), Len(backups))
    /\ Finish(a)
    /\ UNCHANGED <<file, temp, saves, faults, replaced, run_vars, hup_vars, edits>>

ReportRestored(a) ==
    /\ At(a, "restored")
    /\ Finish(a)
    /\ UNCHANGED <<disk_vars, run_vars, hup_vars, edits>>

Commit(a) ==
    \/ WriteBackup(a) \/ WriteTemp(a) \/ SyncTemp(a) \/ Rename(a) \/ RemoveOld(a)
    \/ RenameAgain(a) \/ Apply(a) \/ RotateBackups(a) \/ ReportRestored(a)

-----------------------------------------------------------------------------
(* SIGHUP, the operator's editor, crashes and restarts                     *)

HupLoad ==
    /\ Up /\ hup = "idle"
    /\ Readable /\ file.doc.hot \in Loadable
    /\ hup' = "loaded" /\ loaded' = file.doc /\ overtaken' = FALSE
    /\ UNCHANGED <<disk_vars, mu, admins, run_vars, edits>>

\* The whole document becomes the active configuration.
HupApply ==
    /\ Up /\ hup = "loaded"
    /\ loaded' = None /\ overtaken' = FALSE
    /\ IF loaded.hot \in Buildable
       THEN /\ active' = loaded
            /\ behind' = (overtaken \/ (mu # None /\ loaded # admins[mu].base))
            /\ hup' = (IF loaded.listen = bound.listen THEN "idle" ELSE "rebind")
       ELSE hup' = "idle" /\ UNCHANGED <<active, behind>>
    /\ UNCHANGED <<disk_vars, mu, admins, bound, edits>>

\* A new server for the public address; the admin listener and the database
\* stay what they were.
HupRebind ==
    /\ Up /\ hup = "rebind"
    /\ bound' = [bound EXCEPT !.listen = active.listen]
    /\ hup' = "idle"
    /\ UNCHANGED <<disk_vars, mu, admins, active, behind, loaded, overtaken, edits>>

OutsideEdit ==
    /\ edits < MaxEdits
    /\ edits' = edits + 1
    /\ \E d \in Outside : file' = [doc |-> d, synced |-> TRUE]
    /\ behind' = TRUE
    /\ Overtakes
    /\ UNCHANGED <<temp, backups, saves, faults, replaced, mu, admins, active, bound, hup, loaded>>

Down ==
    /\ active' = None /\ mu' = None /\ temp' = None
    /\ admins' = [a \in Admins |-> Idle]
    /\ hup' = "idle" /\ loaded' = None /\ behind' = FALSE /\ overtaken' = FALSE
    /\ UNCHANGED <<bound, saves, edits, faults>>

Crash == Up /\ Down /\ UNCHANGED <<file, backups, replaced>>

\* The machine stops: what was not synced may be lost, the backups with it.
PowerLoss ==
    /\ Up /\ Down
    /\ file' \in (IF Readable /\ ~file.synced THEN {file, [doc |-> Torn, synced |-> TRUE]} ELSE {file})
    /\ \E lost \in SUBSET DOMAIN backups :
          backups' = [i \in DOMAIN backups |-> IF i \in lost THEN Torn ELSE backups[i]]
    /\ replaced' = None

Boot ==
    /\ ~Up
    /\ Readable /\ file.doc.hot \in Buildable
    /\ active' = file.doc
    /\ bound' = [listen |-> file.doc.listen, boot |-> file.doc.boot]
    /\ behind' = FALSE
    /\ UNCHANGED <<disk_vars, mu, admins, hup_vars, edits>>

Next ==
    \/ \E a \in Admins : Read(a) \/ Commit(a)
    \/ \E a \in Admins, mode \in {"raw", "structured"}, claimed \in BOOLEAN :
          admins[a].at = "viewing" /\
              \E sub \in Edits(Redact(admins[a].base)) : Put(a, sub, mode, claimed)
    \/ HupLoad \/ HupApply \/ HupRebind \/ OutsideEdit
    \/ Crash \/ PowerLoss \/ Boot

Spec == Init /\ [][Next]_vars

\* A handler that has the lock runs on: it waits for nothing but the disk.
FairSpec == Spec /\ \A a \in Admins : WF_vars(Commit(a))

-----------------------------------------------------------------------------
(* Properties                                                              *)

\* Types: a document, a file with its durability, and a save's progress.
TypeOK ==
    /\ file.doc \in Document \cup {Gone, Torn} /\ file.synced \in BOOLEAN
    /\ temp = None \/ (temp.doc \in Document /\ temp.synced \in BOOLEAN)
    /\ backups \in Seq(Document \cup {Torn})
    /\ mu \in Admins \cup {None}
    /\ \A a \in Admins :
          /\ admins[a].at \in Stages /\ admins[a].undo \in BOOLEAN
          /\ admins[a].at # "idle" => admins[a].base \in Document
          /\ admins[a].at \in Committing => admins[a].candidate \in Document
          /\ admins[a].at \in Committing <=> mu = a
    /\ active \in Document \cup {None}
    /\ bound \in [listen : Listens, boot : Boots]
    /\ hup \in {"idle", "loaded", "rebind"} /\ loaded \in Document \cup {None}
    /\ saves \in 0 .. MaxSaves /\ edits \in 0 .. MaxEdits /\ faults \in 0 .. MaxFaults
    /\ replaced \in Document \cup {None} /\ behind \in BOOLEAN /\ overtaken \in BOOLEAN

\* Whenever the process or the machine stops, the configuration is a complete
\* document, old or new (store.go:1721, "writes data to a temp file in the same
\* directory, syncs, closes, and renames").  Only a rename that fails can lose it.
FileComplete == file.doc # Torn /\ (file.doc = Gone => faults > 0)

\* What a save has written over can be found in a backup, from the moment the
\* new file is in place (design section 5.4, steps 6 and 11), wherever the process
\* stops.  Over a loss of power nothing is promised: backups are not synced.
PreviousIsBackedUp ==
    replaced # None => \E i \in DOMAIN backups : backups[i] = replaced

\* When no save is under way the process runs what the file says, but for the
\* bootstrap fields: also after an apply that failed and was rolled back, and a
\* crash in the middle of a save.  There are three exceptions: a file edited by
\* hand, a rollback that failed, and a SIGHUP whose document was replaced by a save
\* between its read and its apply, which the next save or SIGHUP puts right.
RunsTheFile ==
    Up /\ mu = None /\ ~behind => Readable /\ Overlay(file.doc, active) = active

\* The public address in the active configuration is the one the process has bound:
\* a saved one is deferred, SIGHUP rebinds.  (Not so for admin_listen and usage_db,
\* which SIGHUP puts into the active configuration and does not open.)
ListensWhereItSays == Up /\ hup # "rebind" => bound.listen = active.listen

\* A secret stays where it is: what the store writes has a literal only where
\* its author was shown a sentinel in the same place (design section 8).
SecretsStayInPlace ==
    [][file' # file /\ edits' = edits /\ file'.doc # Gone =>
          PlacesKept(admins[mu].base, file'.doc)]_vars

\* The file and the admins' views of it behave like ConfigFile: saves are
\* serialised and none is lost under another one.
Abstract == INSTANCE ConfigFile WITH
    disk <- file.doc,
    seen <- [a \in Admins |-> admins[a].base],
    saving <- mu,
    byHand <- edits

SavesAreSerialised == Abstract!Spec

\* A save that has taken the lock gives it back, whatever fails.
SavesEnd == \A a \in Admins : mu = a ~> mu # a
=============================================================================
