------------------------- MODULE ConfigStoreProofs -------------------------
(***************************************************************************)
(* What holds of the configuration file, its backups and the process that  *)
(* runs it, for any number of admins, any documents and any bounds on the  *)
(* saves, the edits by hand and the file operations that fail.             *)
(***************************************************************************)
EXTENDS ConfigStore, SequenceTheorems, TLAPS

-----------------------------------------------------------------------------
(***************************************************************************)
(* Documents.  What the operations on configuration documents give for     *)
(* every document and every edit: the candidate of an acceptable           *)
(* submission is a document that keeps each literal secret in its place,   *)
(* and an admin's save leaves the bootstrap fields of the running process  *)
(* alone.                                                                  *)
(***************************************************************************)
\* Keys of an identity list, whatever set of names it has.
Keyed(S) == UNION {[N -> S] : N \in SUBSET Names}

\* Membership field by field.
LEMMA DocumentFields ==
    ASSUME NEW S, NEW d \in DocumentOver(S)
    PROVE  /\ d.named \in Keyed(S) /\ d.pool \in Seq(S)
           /\ d.hot \in Hot /\ d.listen \in Listens /\ d.boot \in Boots /\ d.note \in Notes
           /\ d = [named |-> d.named, pool |-> d.pool, hot |-> d.hot,
                   listen |-> d.listen, boot |-> d.boot, note |-> d.note]
  <1> DEFINE NM == UNION {[N -> S] : N \in SUBSET Names}
             SQ == Seq(S)
  <1>1. d \in [named : NM, pool : SQ, hot : Hot, listen : Listens, boot : Boots, note : Notes]
    BY DEF DocumentOver
  <1> HIDE DEF NM, SQ
  <1>2. /\ d.named \in NM /\ d.pool \in SQ
        /\ d.hot \in Hot /\ d.listen \in Listens /\ d.boot \in Boots /\ d.note \in Notes
        /\ d = [named |-> d.named, pool |-> d.pool, hot |-> d.hot,
                listen |-> d.listen, boot |-> d.boot, note |-> d.note]
    BY <1>1
  <1> QED
    BY <1>2 DEF NM, SQ, Keyed

LEMMA FieldsDocument ==
    ASSUME NEW S, NEW n \in Keyed(S), NEW p \in Seq(S),
           NEW h \in Hot, NEW l \in Listens, NEW b \in Boots, NEW c \in Notes
    PROVE  [named |-> n, pool |-> p, hot |-> h, listen |-> l, boot |-> b, note |-> c]
              \in DocumentOver(S)
  <1> DEFINE NM == UNION {[N -> S] : N \in SUBSET Names}
             SQ == Seq(S)
  <1>1. n \in NM /\ p \in SQ
    BY DEF Keyed
  <1> HIDE DEF NM, SQ
  <1>2. [named |-> n, pool |-> p, hot |-> h, listen |-> l, boot |-> b, note |-> c]
           \in [named : NM, pool : SQ, hot : Hot, listen : Listens, boot : Boots, note : Notes]
    BY <1>1
  <1> QED
    BY <1>2 DEF NM, SQ, DocumentOver

LEMMA KeyedFacts ==
    ASSUME NEW S, NEW f \in Keyed(S)
    PROVE  /\ DOMAIN f \subseteq Names
           /\ f \in [DOMAIN f -> S]
  BY DEF Keyed

LEMMA KeyedFunction ==
    ASSUME NEW S, NEW N \in SUBSET Names, NEW f \in [N -> S]
    PROVE  f \in Keyed(S)
  BY DEF Keyed

LEMMA SeqFunction ==
    ASSUME NEW S, NEW n \in Nat, NEW f \in [1 .. n -> S]
    PROVE  f \in Seq(S)
  BY SeqDef

-----------------------------------------------------------------------------
(* Redaction and one edit of what is seen                                  *)

Hiding == Literals \cup Refs \cup {Keep}

LEMMA RedactSubmits ==
    ASSUME NEW d \in Document
    PROVE  Redact(d) \in Submission
  <1>1. /\ d.named \in Keyed(Literals \cup Refs) /\ d.pool \in Seq(Literals \cup Refs)
        /\ d.hot \in Hot /\ d.listen \in Listens /\ d.boot \in Boots /\ d.note \in Notes
        /\ d = [named |-> d.named, pool |-> d.pool, hot |-> d.hot,
                listen |-> d.listen, boot |-> d.boot, note |-> d.note]
    BY DocumentFields DEF Document
  <1> DEFINE nm == [n \in DOMAIN d.named |-> Hidden(d.named[n])]
             pl == [i \in DOMAIN d.pool |-> Hidden(d.pool[i])]
  <1>2. nm \in Keyed(Hiding)
    <2>1. nm \in [DOMAIN d.named -> Hiding]
      BY <1>1, KeyedFacts DEF Hidden, Hiding
    <2> QED
      BY <1>1, <2>1, KeyedFacts, KeyedFunction
  <1>3. pl \in Seq(Hiding)
    <2>1. /\ Len(d.pool) \in Nat /\ DOMAIN d.pool = 1 .. Len(d.pool)
          /\ d.pool \in [1 .. Len(d.pool) -> Literals \cup Refs]
      BY <1>1, LenProperties
    <2>2. pl \in [1 .. Len(d.pool) -> Hiding]
      BY <2>1 DEF Hidden, Hiding
    <2> QED
      BY <2>1, <2>2, SeqFunction
  <1>4. Redact(d) = [named |-> nm, pool |-> pl, hot |-> d.hot,
                     listen |-> d.listen, boot |-> d.boot, note |-> d.note]
    <2>1. Redact(d) = [d EXCEPT !.named = nm, !.pool = pl]
      BY DEF Redact
    <2> HIDE DEF nm, pl
    <2> QED
      BY <1>1, <2>1
  <1> HIDE DEF nm, pl
  <1> QED
    BY <1>1, <1>2, <1>3, <1>4, FieldsDocument DEF Submission, Hiding

LEMMA EditsSubmit ==
    ASSUME NEW view \in Submission, NEW sub \in Edits(view)
    PROVE  sub \in Submission
  <1>1. /\ view.named \in Keyed(Hiding) /\ view.pool \in Seq(Hiding)
        /\ view.hot \in Hot /\ view.listen \in Listens /\ view.boot \in Boots /\ view.note \in Notes
        /\ view = [named |-> view.named, pool |-> view.pool, hot |-> view.hot,
                   listen |-> view.listen, boot |-> view.boot, note |-> view.note]
    BY DocumentFields DEF Submission, Hiding
  <1>2. CASE \E m \in EditNamed(view.named) : sub = [view EXCEPT !.named = m]
    <2>1. PICK m \in EditNamed(view.named) : sub = [view EXCEPT !.named = m]
      BY <1>2
    <2>2. m \in Keyed(Hiding)
      <3>1. ASSUME NEW n \in DOMAIN view.named, m = Without(view.named, n)
            PROVE  m \in Keyed(Hiding)
        <4>1. m \in [DOMAIN view.named \ {n} -> Hiding]
          BY <1>1, <3>1, KeyedFacts DEF Without
        <4> QED
          BY <1>1, <4>1, KeyedFacts, KeyedFunction
      <3>2. ASSUME NEW n \in Names, NEW s \in Hiding, m = With(view.named, n, s)
            PROVE  m \in Keyed(Hiding)
        <4>1. m \in [DOMAIN view.named \cup {n} -> Hiding]
          BY <1>1, <3>2, KeyedFacts DEF With
        <4> QED
          BY <1>1, <4>1, KeyedFacts, KeyedFunction
      <3> QED
        BY <2>1, <3>1, <3>2 DEF EditNamed, Hiding
    <2>3. sub = [named |-> m, pool |-> view.pool, hot |-> view.hot,
                 listen |-> view.listen, boot |-> view.boot, note |-> view.note]
      BY <1>1, <2>1
    <2> QED
      BY <1>1, <2>2, <2>3, FieldsDocument DEF Submission, Hiding
  <1>3. CASE \E i \in DOMAIN view.pool : sub = [view EXCEPT !.pool = RemoveAt(@, i)]
    <2>1. PICK i \in DOMAIN view.pool : sub = [view EXCEPT !.pool = RemoveAt(view.pool, i)]
      BY <1>3
    <2>2. RemoveAt(view.pool, i) \in Seq(Hiding)
      <3>1. /\ Len(view.pool) \in Nat /\ i \in 1 .. Len(view.pool)
            /\ \A j \in 1 .. Len(view.pool) : view.pool[j] \in Hiding
        BY <1>1, LenProperties
      <3>2. SubSeq(view.pool, 1, i - 1) \in Seq(Hiding)
        BY <3>1, SubSeqProperties
      <3>3. SubSeq(view.pool, i + 1, Len(view.pool)) \in Seq(Hiding)
        BY <3>1, SubSeqProperties
      <3> QED
        BY <3>2, <3>3, ConcatProperties DEF RemoveAt
    <2>3. sub = [named |-> view.named, pool |-> RemoveAt(view.pool, i), hot |-> view.hot,
                 listen |-> view.listen, boot |-> view.boot, note |-> view.note]
      BY <1>1, <2>1
    <2> QED
      BY <1>1, <2>2, <2>3, FieldsDocument DEF Submission, Hiding
  <1>4. ASSUME NEW h \in Hot, sub = [view EXCEPT !.hot = h] PROVE sub \in Submission
    <2>1. sub = [named |-> view.named, pool |-> view.pool, hot |-> h,
                 listen |-> view.listen, boot |-> view.boot, note |-> view.note]
      BY <1>1, <1>4
    <2> QED
      BY <1>1, <2>1, FieldsDocument DEF Submission, Hiding
  <1>5. ASSUME NEW l \in Listens, sub = [view EXCEPT !.listen = l] PROVE sub \in Submission
    <2>1. sub = [named |-> view.named, pool |-> view.pool, hot |-> view.hot,
                 listen |-> l, boot |-> view.boot, note |-> view.note]
      BY <1>1, <1>5
    <2> QED
      BY <1>1, <2>1, FieldsDocument DEF Submission, Hiding
  <1>6. ASSUME NEW c \in Notes, sub = [view EXCEPT !.note = c] PROVE sub \in Submission
    <2>1. sub = [named |-> view.named, pool |-> view.pool, hot |-> view.hot,
                 listen |-> view.listen, boot |-> view.boot, note |-> c]
      BY <1>1, <1>6
    <2> QED
      BY <1>1, <2>1, FieldsDocument DEF Submission, Hiding
  <1>7. ASSUME NEW b \in Boots, sub = [view EXCEPT !.boot = b] PROVE sub \in Submission
    <2>1. sub = [named |-> view.named, pool |-> view.pool, hot |-> view.hot,
                 listen |-> view.listen, boot |-> b, note |-> view.note]
      BY <1>1, <1>7
    <2> QED
      BY <1>1, <2>1, FieldsDocument DEF Submission, Hiding
  <1> QED
    BY <1>2, <1>3, <1>4, <1>5, <1>6, <1>7 DEF Edits

-----------------------------------------------------------------------------
(* Restoration, and the candidate of a submission                          *)

\* Restored places hold documents' secrets, and a literal only where one was.
LEMMA RestoreKeeps ==
    ASSUME NEW D, NEW old, NEW new \in [D -> Hiding], KeepsOnly(old, new),
           \A x \in D : new[x] \notin Literals
    PROVE  /\ RestoreIn(old, new) \in [D -> Literals \cup Refs]
           /\ \A x \in D : RestoreIn(old, new)[x] \in Literals =>
                 x \in DOMAIN old /\ old[x] = RestoreIn(old, new)[x]
  <1>1. \A x \in D : new[x] \in Refs \cup {Keep}
    BY DEF Hiding
  <1>2. \A x \in D : new[x] = Keep => x \in DOMAIN old /\ old[x] \in Literals
    BY DEF KeepsOnly
  <1> QED
    BY <1>1, <1>2, SecretsAssumption DEF RestoreIn

\* Merging changes no secret.
LEMMA MergeSubmits ==
    ASSUME NEW cur \in Document, NEW mode, NEW sub \in Submission
    PROVE  /\ Merge(cur, mode, sub) \in Submission
           /\ Merge(cur, mode, sub).named = sub.named
           /\ Merge(cur, mode, sub).pool = sub.pool
  <1>1. /\ sub.named \in Keyed(Hiding) /\ sub.pool \in Seq(Hiding)
        /\ sub.hot \in Hot /\ sub.listen \in Listens /\ sub.boot \in Boots
        /\ sub = [named |-> sub.named, pool |-> sub.pool, hot |-> sub.hot,
                  listen |-> sub.listen, boot |-> sub.boot, note |-> sub.note]
    BY DocumentFields DEF Submission, Hiding
  <1>2. cur.note \in Notes
    BY DocumentFields DEF Document
  <1>3. CASE mode = "structured"
    <2>1. Merge(cur, mode, sub) =
             [named |-> sub.named, pool |-> sub.pool, hot |-> sub.hot,
              listen |-> sub.listen, boot |-> sub.boot, note |-> cur.note]
      BY <1>1, <1>3 DEF Merge
    <2> QED
      BY <1>1, <1>2, <2>1, FieldsDocument DEF Submission, Hiding
  <1>4. CASE mode # "structured"
    BY <1>4 DEF Merge
  <1> QED
    BY <1>3, <1>4

\* The candidate of a submission that passes validateAgainst is a document,
\* and a literal stands in it only where the current document has it.
THEOREM CandidateKeepsPlaces ==
    ASSUME NEW cur \in Document, NEW mode, NEW sub \in Submission, Acceptable(cur, sub)
    PROVE  Candidate(cur, mode, sub) \in Document /\ PlacesKept(cur, Candidate(cur, mode, sub))
  <1> DEFINE mrg == Merge(cur, mode, sub)
             res == Restore(cur, mrg)
  <1>1. /\ mrg.named \in Keyed(Hiding) /\ mrg.pool \in Seq(Hiding)
        /\ mrg.hot \in Hot /\ mrg.listen \in Listens /\ mrg.boot \in Boots /\ mrg.note \in Notes
        /\ mrg = [named |-> mrg.named, pool |-> mrg.pool, hot |-> mrg.hot,
                  listen |-> mrg.listen, boot |-> mrg.boot, note |-> mrg.note]
    BY MergeSubmits, DocumentFields DEF Submission, Hiding
  <1>2. /\ KeepsOnly(cur.named, mrg.named) /\ KeepsOnly(cur.pool, mrg.pool)
        /\ \A x \in DOMAIN mrg.named : mrg.named[x] \notin Literals
        /\ \A x \in DOMAIN mrg.pool : mrg.pool[x] \notin Literals
    <2>1. mrg.named = sub.named /\ mrg.pool = sub.pool
      BY MergeSubmits
    <2> HIDE DEF mrg
    <2> QED
      BY <2>1 DEF Acceptable, Restorable, NoLiterals, SecretsOf
  <1> HIDE DEF mrg
  <1> DEFINE nm == RestoreIn(cur.named, mrg.named)
             pl == RestoreIn(cur.pool, mrg.pool)
  <1>3. /\ nm \in Keyed(Literals \cup Refs)
        /\ DOMAIN nm = DOMAIN mrg.named
        /\ \A x \in DOMAIN nm : nm[x] \in Literals => x \in DOMAIN cur.named /\ cur.named[x] = nm[x]
    <2>1. mrg.named \in [DOMAIN mrg.named -> Hiding] /\ DOMAIN mrg.named \in SUBSET Names
      BY <1>1, KeyedFacts
    <2>2. /\ nm \in [DOMAIN mrg.named -> Literals \cup Refs]
          /\ \A x \in DOMAIN mrg.named : nm[x] \in Literals =>
                x \in DOMAIN cur.named /\ cur.named[x] = nm[x]
      BY <1>2, <2>1, RestoreKeeps
    <2> HIDE DEF nm
    <2> QED
      BY <2>1, <2>2, KeyedFunction
  <1>4. /\ pl \in Seq(Literals \cup Refs)
        /\ \A x \in DOMAIN pl : pl[x] \in Literals => x \in DOMAIN cur.pool /\ cur.pool[x] = pl[x]
    <2>1. /\ Len(mrg.pool) \in Nat /\ DOMAIN mrg.pool = 1 .. Len(mrg.pool)
          /\ mrg.pool \in [DOMAIN mrg.pool -> Hiding]
      BY <1>1, LenProperties
    <2>2. /\ pl \in [DOMAIN mrg.pool -> Literals \cup Refs]
          /\ \A x \in DOMAIN mrg.pool : pl[x] \in Literals =>
                x \in DOMAIN cur.pool /\ cur.pool[x] = pl[x]
      BY <1>2, <2>1, RestoreKeeps
    <2> HIDE DEF pl
    <2> QED
      BY <2>1, <2>2, SeqFunction
  <1>5. res = [mrg EXCEPT !.named = nm, !.pool = pl]
    BY DEF Restore
  <1> HIDE DEF nm, pl, res
  <1>6. res = [named |-> nm, pool |-> pl, hot |-> mrg.hot,
               listen |-> mrg.listen, boot |-> mrg.boot, note |-> mrg.note]
    BY <1>1, <1>5
  <1>7. res \in Document
    BY <1>1, <1>3, <1>4, <1>6, FieldsDocument DEF Document
  <1>8. PlacesKept(cur, res)
    BY <1>3, <1>4, <1>6 DEF PlacesKept
  <1>9. PlacesKept(cur, cur)
    BY DEF PlacesKept
  <1>10. Candidate(cur, mode, sub) \in {cur, res}
    BY DEF Candidate, res, mrg
  <1> QED
    BY <1>7, <1>8, <1>9, <1>10

\* What an admin's save makes of the running document: all of the new one but
\* the addresses, so that doing it again, or with the document itself, is idle.
LEMMA OverlayFacts ==
    ASSUME NEW d \in Document, NEW e \in Document
    PROVE  /\ Overlay(d, e) \in Document
           /\ Overlay(d, e).listen = e.listen
           /\ Overlay(d, Overlay(d, e)) = Overlay(d, e)
           /\ Overlay(d, d) = d
           /\ d.listen \in Listens /\ d.boot \in Boots
  <1>1. /\ d.named \in Keyed(Literals \cup Refs) /\ d.pool \in Seq(Literals \cup Refs)
        /\ d.hot \in Hot /\ d.listen \in Listens /\ d.boot \in Boots /\ d.note \in Notes
        /\ d = [named |-> d.named, pool |-> d.pool, hot |-> d.hot,
                listen |-> d.listen, boot |-> d.boot, note |-> d.note]
    BY DocumentFields DEF Document
  <1>2. e.listen \in Listens /\ e.boot \in Boots
    BY DocumentFields DEF Document
  <1>3. Overlay(d, e) = [named |-> d.named, pool |-> d.pool, hot |-> d.hot,
                         listen |-> e.listen, boot |-> e.boot, note |-> d.note]
    <2>1. Overlay(d, e) = [d EXCEPT !.listen = e.listen, !.boot = e.boot]
      BY DEF Overlay
    <2> DEFINE nm == d.named  pl == d.pool  ht == d.hot  ls == d.listen  bt == d.boot  nt == d.note
    <2>2. d = [named |-> nm, pool |-> pl, hot |-> ht, listen |-> ls, boot |-> bt, note |-> nt]
      BY <1>1
    <2> HIDE DEF nm, pl, ht, ls, bt, nt
    <2>3. Overlay(d, e) = [named |-> nm, pool |-> pl, hot |-> ht,
                           listen |-> e.listen, boot |-> e.boot, note |-> nt]
      BY <2>1, <2>2
    <2> QED
      BY <2>3 DEF nm, pl, ht, nt
  <1>4. Overlay(d, e) \in Document
    BY <1>1, <1>2, <1>3, FieldsDocument DEF Document
  <1>5. Overlay(d, d) = d
    BY <1>1 DEF Overlay
  <1>6. Overlay(d, Overlay(d, e)) = Overlay(d, e)
    BY <1>3 DEF Overlay
  <1> QED
    BY <1>1, <1>3, <1>4, <1>5, <1>6

-----------------------------------------------------------------------------
(* The store                                                               *)

Progress == [at : Stages, base : Document \cup {None},
             candidate : Document \cup {None}, undo : BOOLEAN]

\* What a backup may hold.
Kept == Document \cup {Torn}

\* Types, and two facts that make a loss of power harmless: what is in the
\* file's place has been synced, and it is no torn document.
Typed ==
    /\ file \in [doc : Document \cup {Gone}, synced : {TRUE}]
    /\ temp \in [doc : Document, synced : BOOLEAN] \cup {None}
    /\ backups \in Seq(Kept)
    /\ mu \in Admins \cup {None}
    /\ admins \in [Admins -> Progress]
    /\ active \in Document \cup {None}
    /\ bound \in [listen : Listens, boot : Boots]
    /\ hup \in {"idle", "loaded", "rebind"}
    /\ loaded \in Document \cup {None}
    /\ hup = "loaded" => loaded \in Document
    /\ saves \in 0 .. MaxSaves /\ edits \in 0 .. MaxEdits /\ faults \in 0 .. MaxFaults
    /\ replaced \in Document \cup {None}
    /\ behind \in BOOLEAN /\ overtaken \in BOOLEAN

\* Only who has the lock is past the checks of Commit, with a candidate that
\* keeps the literals of the document it has been shown.
Locked ==
    /\ active = None => mu = None
    /\ \A a \in Admins :
          /\ admins[a].at \in Committing <=> mu = a
          /\ admins[a].at # "idle" => admins[a].base \in Document
          /\ admins[a].at \in Committing =>
                /\ admins[a].candidate \in Document
                /\ PlacesKept(admins[a].base, admins[a].candidate)

\* What the save under way has on disk.
Staged(s) ==
    /\ s.at \in {"sync", "rename", "remove", "again"} =>
          /\ temp \in [doc : Document, synced : BOOLEAN]
          /\ temp.doc = (IF s.undo THEN s.base ELSE s.candidate)
    /\ s.at \in {"rename", "remove", "again"} => temp.synced = TRUE
    /\ s.at \in {"remove", "again"} => faults > 0
    /\ s.at # "backup" => Len(backups) > 0 /\ backups[Len(backups)] = s.base
    /\ s.at \in {"apply", "rotate"} => replaced = s.base

Saved ==
    /\ FileComplete
    /\ PreviousIsBackedUp
    /\ mu # None => Staged(admins[mu])

\* What the process runs, unless it has been left behind: the file when no save
\* is under way, and what the file was at first until the save has applied its
\* candidate.
Runs(d) == d \in Document /\ Overlay(d, active) = active

Under(s) ==
    /\ s.at # "rotate" => Runs(s.base)
    /\ s.at = "rotate" => Runs(file.doc)
    /\ s.at \in {"backup", "write", "sync", "rename", "remove"} /\ ~s.undo => file.doc = s.base
    /\ s.at = "again" /\ ~s.undo => file.doc \in {Gone, s.base}
    /\ s.at = "restored" => file.doc = s.base

Running ==
    Up /\ ~behind => /\ mu = None => Runs(file.doc)
                     /\ mu # None => Under(admins[mu])

\* SIGHUP has read what the file says, unless that has changed since.
Signalled ==
    /\ ListensWhereItSays
    /\ hup = "loaded" /\ ~overtaken => file.doc = loaded

IInv == Typed /\ Locked /\ Saved /\ Running /\ Signalled

-----------------------------------------------------------------------------
(* The admins' records                                                     *)

LEMMA CommittingStages ==
    /\ Committing \subseteq Stages /\ "idle" \notin Committing /\ "viewing" \notin Committing
    /\ Idle \in Progress
  BY DEF Committing, Stages, Idle, Progress

\* One record is replaced by another.
LEMMA Replaced ==
    ASSUME admins \in [Admins -> Progress], NEW a \in Admins, NEW s \in Progress,
           admins' = [admins EXCEPT ![a] = s]
    PROVE  /\ admins' \in [Admins -> Progress]
           /\ admins'[a] = s
           /\ \A o \in Admins \ {a} : admins'[o] = admins[o]
  OBVIOUS

\* A save takes its next step.
LEMMA GoFacts ==
    ASSUME admins \in [Admins -> Progress], NEW a \in Admins, NEW stage \in Stages, Go(a, stage)
    PROVE  /\ admins' \in [Admins -> Progress]
           /\ admins'[a].at = stage
           /\ admins'[a].base = admins[a].base
           /\ admins'[a].candidate = admins[a].candidate
           /\ admins'[a].undo = admins[a].undo
           /\ \A o \in Admins \ {a} : admins'[o] = admins[o]
  <1> DEFINE s == [admins[a] EXCEPT !.at = stage]
  <1>1. admins[a] \in Progress
    OBVIOUS
  <1>2. /\ s \in Progress /\ s.at = stage /\ s.base = admins[a].base
        /\ s.candidate = admins[a].candidate /\ s.undo = admins[a].undo
    BY <1>1 DEF Progress
  <1>3. admins' = [admins EXCEPT ![a] = s]
    BY DEF Go
  <1> HIDE DEF s
  <1> QED
    BY <1>2, <1>3, Replaced

LEMMA FinishFacts ==
    ASSUME Typed, NEW a \in Admins, Finish(a)
    PROVE  /\ admins' \in [Admins -> Progress] /\ mu' = None
           /\ admins'[a].at = "idle"
           /\ \A o \in Admins \ {a} : admins'[o] = admins[o]
  <1>1. admins' = [admins EXCEPT ![a] = Idle]
    BY DEF Finish
  <1>2. Idle.at = "idle"
    BY DEF Idle
  <1> QED
    BY <1>1, <1>2, CommittingStages, Replaced DEF Typed, Finish

\* A save that takes a step of its own keeps the lock.
LEMMA GoLocked ==
    ASSUME IInv, NEW a \in Admins, NEW stage \in Committing, mu = a, mu' = mu,
           active # None, active' # None,
           admins' \in [Admins -> Progress],
           admins'[a].at = stage,
           admins'[a].base = admins[a].base, admins'[a].candidate = admins[a].candidate,
           \A o \in Admins \ {a} : admins'[o] = admins[o]
    PROVE  Locked'
  BY CommittingStages DEF IInv, Locked

LEMMA FinishLocked ==
    ASSUME IInv, NEW a \in Admins, Finish(a), mu \in {a, None}
    PROVE  Locked'
  <1>1. /\ mu' = None /\ admins'[a].at = "idle"
        /\ \A o \in Admins \ {a} : admins'[o] = admins[o]
    BY FinishFacts DEF IInv
  <1>2. \A o \in Admins : mu # o => admins[o].at \notin Committing
    BY DEF IInv, Locked
  <1>3. None \notin Admins
    BY StoreAssumption
  <1> QED
    BY <1>1, <1>2, <1>3, CommittingStages DEF IInv, Locked

-----------------------------------------------------------------------------
(* The steps of a save                                                     *)

\* Who is at a stage of Commit has the lock.
LEMMA AtStage ==
    ASSUME IInv, NEW a \in Admins, NEW stage \in Committing, At(a, stage)
    PROVE  /\ mu = a /\ mu # None /\ active # None /\ active \in Document
           /\ admins[a].at = stage /\ admins[a] \in Progress
           /\ admins[a].base \in Document /\ admins[a].candidate \in Document
           /\ PlacesKept(admins[a].base, admins[a].candidate)
           /\ Staged(admins[a])
  <1>1. mu = a /\ mu # None
    BY StoreAssumption DEF IInv, Locked, At
  <1> QED
    BY <1>1, CommittingStages DEF IInv, Typed, Locked, Saved, At, Up

\* A file operation fails: the save is given up, and the file may be gone or
\* another than the process runs only if that is known.
LEMMA FaultStep ==
    ASSUME IInv, NEW a \in Admins, NEW stage \in {"backup", "write", "sync", "remove", "again"},
           At(a, stage), Fault(a), temp' \in {temp, None},
           UNCHANGED <<file, backups, saves, replaced, active, bound, hup_vars, edits>>
    PROVE  IInv'
  <1>1. stage \in Committing
    BY DEF Committing
  <1>2. /\ mu = a /\ mu # None /\ active # None /\ active \in Document
        /\ admins[a].at = stage /\ admins[a] \in Progress
    BY <1>1, AtStage
  <1>3. Finish(a) /\ faults < MaxFaults /\ faults' = faults + 1
    BY DEF Fault
  <1>4. admins' \in [Admins -> Progress] /\ mu' = None
    BY <1>3, FinishFacts DEF IInv
  <1>5. Typed'
    <2>1. behind' \in BOOLEAN
      BY DEF Fault
    <2>2. faults' \in 0 .. MaxFaults
      BY <1>3, StoreAssumption DEF IInv, Typed
    <2> QED
      BY <1>4, <2>1, <2>2 DEF IInv, Typed, hup_vars
  <1>6. Locked'
    BY <1>2, <1>3, FinishLocked
  <1>7. Saved'
    BY <1>3, <1>4 DEF IInv, Typed, Saved, FileComplete, PreviousIsBackedUp
  <1>8. Running'
    <2>1. SUFFICES ASSUME ~behind' PROVE Runs(file.doc)'
      BY <1>4 DEF Running
    <2>2. ~behind /\ ~admins[a].undo /\ file.doc # Gone
      BY <2>1 DEF Fault, IInv, Typed
    <2>3. Under(admins[a])
      BY <1>2, <2>2 DEF IInv, Running, Up
    <2>4. Runs(admins[a].base) /\ file.doc = admins[a].base
      BY <1>2, <2>2, <2>3 DEF Under
    <2> QED
      BY <2>4 DEF Runs
  <1>9. Signalled'
    BY DEF IInv, Signalled, ListensWhereItSays, Up, hup_vars
  <1> QED
    BY <1>5, <1>6, <1>7, <1>8, <1>9 DEF IInv

LEMMA WriteBackupStep ==
    ASSUME IInv, NEW a \in Admins, WriteBackup(a)
    PROVE  IInv'
  <1>1. At(a, "backup") /\ "backup" \in Committing /\ "write" \in Committing
    BY DEF WriteBackup, Committing
  <1>2. /\ mu = a /\ mu # None /\ active # None /\ active \in Document
        /\ admins[a].at = "backup" /\ admins[a] \in Progress
        /\ admins[a].base \in Document /\ admins[a].candidate \in Document
    BY <1>1, AtStage
  <1>3. CASE Fault(a) /\ UNCHANGED <<file, temp, backups, saves, replaced>>
    BY <1>1, <1>3, FaultStep DEF WriteBackup
  <1>4. CASE /\ backups' = Append(backups, admins[a].base)
             /\ Go(a, "write")
             /\ UNCHANGED <<file, temp, mu, saves, faults, replaced, behind>>
    <2>1. /\ admins' \in [Admins -> Progress]
          /\ admins'[a].at = "write"
          /\ admins'[a].base = admins[a].base
          /\ admins'[a].candidate = admins[a].candidate
          /\ admins'[a].undo = admins[a].undo
          /\ \A o \in Admins \ {a} : admins'[o] = admins[o]
      BY <1>1, <1>4, GoFacts, CommittingStages DEF IInv, Typed
    <2>2. /\ backups' \in Seq(Kept) /\ Len(backups') = Len(backups) + 1
          /\ backups'[Len(backups) + 1] = admins[a].base
          /\ \A i \in 1 .. Len(backups) : backups'[i] = backups[i]
          /\ Len(backups) \in Nat
      <3>1. backups \in Seq(Kept) /\ admins[a].base \in Kept
        BY <1>2 DEF IInv, Typed, Kept
      <3> QED
        BY <1>4, <3>1, AppendProperties, LenProperties
    <2>3. Typed'
      BY <1>2, <1>4, <2>1, <2>2 DEF IInv, Typed, hup_vars, WriteBackup
    <2>4. Locked'
      BY <1>1, <1>2, <1>4, <2>1, GoLocked DEF WriteBackup
    <2>5. Saved'
      <3>1. Staged(admins[a])'
        BY <2>1, <2>2 DEF Staged
      <3>2. FileComplete'
        BY <1>4 DEF IInv, Saved, FileComplete
      <3>3. PreviousIsBackedUp'
        <4>1. DOMAIN backups = 1 .. Len(backups) /\ DOMAIN backups' = 1 .. Len(backups')
          BY <2>2, LenProperties DEF IInv, Typed
        <4> QED
          BY <1>4, <2>2, <4>1 DEF IInv, Saved, PreviousIsBackedUp
      <3> QED
        BY <1>2, <1>4, <3>1, <3>2, <3>3 DEF Saved
    <2>6. Running'
      BY <1>2, <1>4, <2>1 DEF IInv, Running, Under, Runs, Up, WriteBackup
    <2>7. Signalled'
      BY <1>4 DEF IInv, Signalled, ListensWhereItSays, Up, hup_vars, WriteBackup
    <2> QED
      BY <2>3, <2>4, <2>5, <2>6, <2>7 DEF IInv
  <1> QED
    BY <1>3, <1>4 DEF WriteBackup

\* What a step from one stage to the next finds and leaves.
LEMMA NextStage ==
    ASSUME IInv, NEW a \in Admins, NEW from \in Committing, NEW to \in Committing,
           At(a, from), Go(a, to)
    PROVE  /\ admins' \in [Admins -> Progress]
           /\ admins'[a].at = to
           /\ admins'[a].base = admins[a].base
           /\ admins'[a].candidate = admins[a].candidate
           /\ admins'[a].undo = admins[a].undo
           /\ admins[a].undo \in BOOLEAN
           /\ mu' = mu /\ active' # None => Locked'
  <1>1. /\ mu = a /\ active # None /\ admins[a] \in Progress
    BY AtStage
  <1>2. /\ admins' \in [Admins -> Progress]
        /\ admins'[a].at = to
        /\ admins'[a].base = admins[a].base
        /\ admins'[a].candidate = admins[a].candidate
        /\ admins'[a].undo = admins[a].undo
        /\ \A o \in Admins \ {a} : admins'[o] = admins[o]
    BY GoFacts, CommittingStages DEF IInv, Typed
  <1> QED
    BY <1>1, <1>2, GoLocked DEF Progress

LEMMA WriteTempStep ==
    ASSUME IInv, NEW a \in Admins, WriteTemp(a)
    PROVE  IInv'
  <1>1. At(a, "write") /\ "write" \in Committing /\ "sync" \in Committing
    BY DEF WriteTemp, Committing
  <1>2. /\ mu = a /\ mu # None /\ active # None
        /\ admins[a].at = "write"
        /\ admins[a].base \in Document /\ admins[a].candidate \in Document
        /\ Staged(admins[a])
    BY <1>1, AtStage
  <1>3. CASE Fault(a) /\ UNCHANGED <<file, temp, backups, saves, replaced>>
    BY <1>1, <1>3, FaultStep DEF WriteTemp
  <1>4. CASE /\ temp' = [doc |-> Target(a), synced |-> FALSE]
             /\ Go(a, "sync")
             /\ UNCHANGED <<file, backups, mu, saves, faults, replaced, behind>>
    <2>1. /\ admins' \in [Admins -> Progress]
          /\ admins'[a].at = "sync"
          /\ admins'[a].base = admins[a].base
          /\ admins'[a].candidate = admins[a].candidate
          /\ admins'[a].undo = admins[a].undo
          /\ mu' = mu /\ active' # None => Locked'
      BY <1>1, <1>4, NextStage
    <2>2. temp' \in [doc : Document, synced : BOOLEAN]
      BY <1>2, <1>4 DEF Target
    <2>3. Typed'
      BY <1>4, <2>1, <2>2 DEF IInv, Typed, hup_vars, WriteTemp
    <2>4. Locked'
      BY <1>2, <1>4, <2>1 DEF WriteTemp
    <2>5. Saved'
      <3>1. Staged(admins[a])'
        BY <1>2, <1>4, <2>1, <2>2 DEF Staged, Target
      <3>2. FileComplete' /\ PreviousIsBackedUp'
        BY <1>4 DEF IInv, Saved, FileComplete, PreviousIsBackedUp
      <3> QED
        BY <1>2, <1>4, <3>1, <3>2 DEF Saved
    <2>6. Running'
      BY <1>2, <1>4, <2>1 DEF IInv, Running, Under, Runs, Up, WriteTemp
    <2>7. Signalled'
      BY <1>4 DEF IInv, Signalled, ListensWhereItSays, Up, hup_vars, WriteTemp
    <2> QED
      BY <2>3, <2>4, <2>5, <2>6, <2>7 DEF IInv
  <1> QED
    BY <1>3, <1>4 DEF WriteTemp

LEMMA SyncTempStep ==
    ASSUME IInv, NEW a \in Admins, SyncTemp(a)
    PROVE  IInv'
  <1>1. At(a, "sync") /\ "sync" \in Committing /\ "rename" \in Committing
    BY DEF SyncTemp, Committing
  <1>2. /\ mu = a /\ mu # None /\ active # None
        /\ admins[a].at = "sync"
        /\ Staged(admins[a])
    BY <1>1, AtStage
  <1>3. CASE Fault(a) /\ temp' = None /\ UNCHANGED <<file, backups, saves, replaced>>
    BY <1>1, <1>3, FaultStep DEF SyncTemp
  <1>4. CASE /\ temp' = [temp EXCEPT !.synced = TRUE]
             /\ Go(a, "rename")
             /\ UNCHANGED <<file, backups, mu, saves, faults, replaced, behind>>
    <2>1. /\ admins' \in [Admins -> Progress]
          /\ admins'[a].at = "rename"
          /\ admins'[a].base = admins[a].base
          /\ admins'[a].candidate = admins[a].candidate
          /\ admins'[a].undo = admins[a].undo
          /\ mu' = mu /\ active' # None => Locked'
      BY <1>1, <1>4, NextStage
    <2>2. /\ temp' \in [doc : Document, synced : BOOLEAN]
          /\ temp'.doc = temp.doc /\ temp'.synced = TRUE
      BY <1>2, <1>4 DEF Staged
    <2>3. Typed'
      BY <1>4, <2>1, <2>2 DEF IInv, Typed, hup_vars, SyncTemp
    <2>4. Locked'
      BY <1>2, <1>4, <2>1 DEF SyncTemp
    <2>5. Saved'
      <3>1. Staged(admins[a])'
        BY <1>2, <1>4, <2>1, <2>2 DEF Staged
      <3>2. FileComplete' /\ PreviousIsBackedUp'
        BY <1>4 DEF IInv, Saved, FileComplete, PreviousIsBackedUp
      <3> QED
        BY <1>2, <1>4, <3>1, <3>2 DEF Saved
    <2>6. Running'
      BY <1>2, <1>4, <2>1 DEF IInv, Running, Under, Runs, Up, SyncTemp
    <2>7. Signalled'
      BY <1>4 DEF IInv, Signalled, ListensWhereItSays, Up, hup_vars, SyncTemp
    <2> QED
      BY <2>3, <2>4, <2>5, <2>6, <2>7 DEF IInv
  <1> QED
    BY <1>3, <1>4 DEF SyncTemp

\* What was synced takes the place of the configuration, whole.
LEMMA MoveStep ==
    ASSUME IInv, NEW a \in Admins, NEW stage \in {"rename", "again"}, At(a, stage), Move(a),
           UNCHANGED <<active, bound, hup, loaded, edits>>
    PROVE  IInv'
  <1>1. stage \in Committing /\ "apply" \in Committing /\ "restored" \in Committing
    BY DEF Committing
  <1>2. /\ mu = a /\ mu # None /\ active # None
        /\ admins[a].at = stage /\ admins[a] \in Progress
        /\ admins[a].base \in Document
        /\ Staged(admins[a])
    BY <1>1, AtStage
  <1>3. /\ file' \in [doc : Document, synced : {TRUE}]
        /\ file'.doc = (IF admins[a].undo THEN admins[a].base ELSE admins[a].candidate)
    BY <1>2 DEF Staged, Move
  <1>4. Len(backups) \in Nat /\ DOMAIN backups = 1 .. Len(backups)
    BY LenProperties DEF IInv, Typed
  <1>5. PICK to \in {"apply", "restored"} :
           /\ Go(a, to)
           /\ to = "restored" <=> admins[a].undo
           /\ replaced' = (IF admins[a].undo THEN None ELSE admins[a].base)
    BY <1>2 DEF Move, Progress
  <1>6. /\ admins' \in [Admins -> Progress]
        /\ admins'[a].at = to
        /\ admins'[a].base = admins[a].base
        /\ admins'[a].candidate = admins[a].candidate
        /\ admins'[a].undo = admins[a].undo
        /\ mu' = mu /\ active' # None => Locked'
    BY <1>1, <1>5, NextStage
  <1>7. Typed'
    BY <1>2, <1>3, <1>5, <1>6 DEF IInv, Typed, Overtakes, Move
  <1>8. Locked'
    BY <1>2, <1>6 DEF Move
  <1>9. Saved'
    <2>1. Staged(admins[a])'
      BY <1>2, <1>5, <1>6 DEF Staged, Move
    <2>2. FileComplete'
      BY <1>3, StoreAssumption DEF FileComplete
    <2>3. PreviousIsBackedUp'
      BY <1>2, <1>4, <1>5 DEF Staged, PreviousIsBackedUp, Move
    <2> QED
      BY <1>2, <2>1, <2>2, <2>3 DEF Saved, Move
  <1>10. Running'
    BY <1>2, <1>3, <1>5, <1>6 DEF IInv, Running, Under, Runs, Up, Move
  <1>11. Signalled'
    BY DEF IInv, Signalled, ListensWhereItSays, Up, Overtakes, Move
  <1> QED
    BY <1>7, <1>8, <1>9, <1>10, <1>11 DEF IInv

LEMMA RenameStep ==
    ASSUME IInv, NEW a \in Admins, Rename(a)
    PROVE  IInv'
  <1>1. At(a, "rename") /\ "rename" \in Committing /\ "remove" \in Committing
    BY DEF Rename, Committing
  <1>2. /\ mu = a /\ mu # None /\ active # None
        /\ admins[a].at = "rename"
        /\ Staged(admins[a])
    BY <1>1, AtStage
  <1>3. CASE Move(a)
    BY <1>1, <1>3, MoveStep DEF Rename
  <1>4. CASE /\ faults < MaxFaults /\ faults' = faults + 1
             /\ Go(a, "remove")
             /\ UNCHANGED <<file, temp, backups, mu, saves, replaced, behind, overtaken>>
    <2>1. /\ admins' \in [Admins -> Progress]
          /\ admins'[a].at = "remove"
          /\ admins'[a].base = admins[a].base
          /\ admins'[a].candidate = admins[a].candidate
          /\ admins'[a].undo = admins[a].undo
          /\ mu' = mu /\ active' # None => Locked'
      BY <1>1, <1>4, NextStage
    <2>2. faults' \in 0 .. MaxFaults /\ faults' > 0
      BY <1>4, StoreAssumption DEF IInv, Typed
    <2>3. Typed'
      BY <1>4, <2>1, <2>2 DEF IInv, Typed, hup_vars, Rename
    <2>4. Locked'
      BY <1>2, <1>4, <2>1 DEF Rename
    <2>5. Saved'
      <3>1. Staged(admins[a])'
        BY <1>2, <1>4, <2>1, <2>2 DEF Staged
      <3>2. FileComplete' /\ PreviousIsBackedUp'
        BY <1>4, <2>2 DEF IInv, Saved, FileComplete, PreviousIsBackedUp
      <3> QED
        BY <1>2, <1>4, <3>1, <3>2 DEF Saved
    <2>6. Running'
      BY <1>2, <1>4, <2>1 DEF IInv, Running, Under, Runs, Up, Rename
    <2>7. Signalled'
      BY <1>4 DEF IInv, Signalled, ListensWhereItSays, Up, hup_vars, Rename
    <2> QED
      BY <2>3, <2>4, <2>5, <2>6, <2>7 DEF IInv
  <1> QED
    BY <1>3, <1>4 DEF Rename

LEMMA RemoveOldStep ==
    ASSUME IInv, NEW a \in Admins, RemoveOld(a)
    PROVE  IInv'
  <1>1. At(a, "remove") /\ "remove" \in Committing /\ "again" \in Committing
    BY DEF RemoveOld, Committing
  <1>2. /\ mu = a /\ mu # None /\ active # None
        /\ admins[a].at = "remove"
        /\ Staged(admins[a])
    BY <1>1, AtStage
  <1>3. CASE Fault(a) /\ temp' = None /\ UNCHANGED <<file, overtaken>>
    BY <1>1, <1>3, FaultStep DEF RemoveOld, hup_vars
  <1>4. CASE /\ file' = [doc |-> Gone, synced |-> TRUE]
             /\ Go(a, "again")
             /\ Overtakes
             /\ UNCHANGED <<temp, mu, faults, behind>>
    <2>1. /\ admins' \in [Admins -> Progress]
          /\ admins'[a].at = "again"
          /\ admins'[a].base = admins[a].base
          /\ admins'[a].candidate = admins[a].candidate
          /\ admins'[a].undo = admins[a].undo
          /\ mu' = mu /\ active' # None => Locked'
      BY <1>1, <1>4, NextStage
    <2>2. file' \in [doc : Document \cup {Gone}, synced : {TRUE}] /\ file'.doc = Gone
      BY <1>4
    <2>3. Typed'
      BY <1>4, <2>1, <2>2 DEF IInv, Typed, Overtakes, RemoveOld
    <2>4. Locked'
      BY <1>2, <1>4, <2>1 DEF RemoveOld
    <2>5. Saved'
      <3>1. Staged(admins[a])'
        BY <1>2, <1>4, <2>1 DEF Staged, RemoveOld
      <3>2. FileComplete'
        BY <1>2, <1>4, <2>2, StoreAssumption DEF FileComplete, Staged
      <3>3. PreviousIsBackedUp'
        BY DEF IInv, Saved, PreviousIsBackedUp, RemoveOld
      <3> QED
        BY <1>2, <1>4, <3>1, <3>2, <3>3 DEF Saved
    <2>6. Running'
      BY <1>2, <1>4, <2>1, <2>2 DEF IInv, Running, Under, Runs, Up, RemoveOld
    <2>7. Signalled'
      BY <1>4 DEF IInv, Signalled, ListensWhereItSays, Up, Overtakes, RemoveOld
    <2> QED
      BY <2>3, <2>4, <2>5, <2>6, <2>7 DEF IInv
  <1> QED
    BY <1>3, <1>4 DEF RemoveOld

LEMMA RenameAgainStep ==
    ASSUME IInv, NEW a \in Admins, RenameAgain(a)
    PROVE  IInv'
  <1>1. CASE Move(a)
    BY <1>1, MoveStep DEF RenameAgain
  <1>2. CASE Fault(a) /\ temp' = None /\ UNCHANGED <<file, backups, saves, replaced, overtaken>>
    BY <1>2, FaultStep DEF RenameAgain, hup_vars
  <1> QED
    BY <1>1, <1>2 DEF RenameAgain

\* The candidate is applied, or the save begins again with what was there.
LEMMA ApplyStep ==
    ASSUME IInv, NEW a \in Admins, Apply(a)
    PROVE  IInv'
  <1>1. /\ At(a, "apply")
        /\ "apply" \in Committing /\ "rotate" \in Committing /\ "write" \in Committing
    BY DEF Apply, Committing
  <1>2. /\ mu = a /\ mu # None /\ active # None /\ active \in Document
        /\ admins[a].at = "apply" /\ admins[a] \in Progress
        /\ admins[a].base \in Document /\ admins[a].candidate \in Document
        /\ Staged(admins[a])
    BY <1>1, AtStage
  <1>3. CASE /\ active' = Overlay(admins[a].candidate, active)
             /\ behind' = (~Readable \/ file.doc # admins[a].candidate)
             /\ Go(a, "rotate")
    <2>1. /\ admins' \in [Admins -> Progress]
          /\ admins'[a].at = "rotate"
          /\ admins'[a].base = admins[a].base
          /\ admins'[a].candidate = admins[a].candidate
          /\ admins'[a].undo = admins[a].undo
          /\ mu' = mu /\ active' # None => Locked'
      BY <1>1, <1>3, NextStage
    <2>2. /\ active' \in Document
          /\ active'.listen = active.listen
          /\ Overlay(admins[a].candidate, active') = active'
      BY <1>2, <1>3, OverlayFacts
    <2>3. active' # None
      BY <2>2, StoreAssumption
    <2>4. Typed'
      <3>1. behind' \in BOOLEAN
        BY <1>3
      <3> QED
        BY <2>1, <2>2, <3>1 DEF IInv, Typed, hup_vars, disk_vars, Apply
    <2>5. Locked'
      BY <2>1, <2>3 DEF Apply
    <2>6. Saved'
      <3>1. Staged(admins[a])'
        BY <1>2, <2>1 DEF Staged, Apply, disk_vars
      <3>2. FileComplete' /\ PreviousIsBackedUp'
        BY DEF IInv, Saved, FileComplete, PreviousIsBackedUp, Apply, disk_vars
      <3> QED
        BY <1>2, <3>1, <3>2 DEF Saved, Apply
    <2>7. Running'
      <3>1. SUFFICES ASSUME ~behind' PROVE Runs(file.doc)'
        BY <1>2, <2>1 DEF Running, Under, Apply
      <3>2. file.doc = admins[a].candidate
        BY <1>3, <3>1
      <3> QED
        BY <1>2, <2>2, <3>2 DEF Runs, Apply, disk_vars
    <2>8. Signalled'
      BY <1>2, <2>2 DEF IInv, Signalled, ListensWhereItSays, Up, hup_vars, disk_vars, Apply
    <2> QED
      BY <2>4, <2>5, <2>6, <2>7, <2>8 DEF IInv
  <1>4. CASE /\ admins' = [admins EXCEPT ![a].at = "write", ![a].undo = TRUE]
             /\ UNCHANGED <<active, behind>>
    <2> DEFINE s == [admins[a] EXCEPT !.at = "write", !.undo = TRUE]
    <2>1. /\ s \in Progress /\ s.at = "write" /\ s.undo = TRUE
          /\ s.base = admins[a].base /\ s.candidate = admins[a].candidate
      BY <1>1, <1>2, CommittingStages DEF Progress
    <2>2. admins' = [admins EXCEPT ![a] = s]
      BY <1>4
    <2> HIDE DEF s
    <2>3. /\ admins' \in [Admins -> Progress]
          /\ admins'[a] = s
          /\ \A o \in Admins \ {a} : admins'[o] = admins[o]
      BY <2>1, <2>2, Replaced DEF IInv, Typed
    <2>4. Typed'
      BY <1>4, <2>3 DEF IInv, Typed, hup_vars, disk_vars, Apply
    <2>5. Locked'
      BY <1>1, <1>2, <1>4, <2>1, <2>3, GoLocked DEF Apply
    <2>6. Saved'
      <3>1. Staged(admins[a])'
        BY <1>2, <2>1, <2>3 DEF Staged, Apply, disk_vars
      <3>2. FileComplete' /\ PreviousIsBackedUp'
        BY DEF IInv, Saved, FileComplete, PreviousIsBackedUp, Apply, disk_vars
      <3> QED
        BY <1>2, <3>1, <3>2 DEF Saved, Apply
    <2>7. Running'
      BY <1>2, <1>4, <2>1, <2>3 DEF IInv, Running, Under, Runs, Up, Apply, disk_vars
    <2>8. Signalled'
      BY <1>4 DEF IInv, Signalled, ListensWhereItSays, Up, hup_vars, disk_vars, Apply
    <2> QED
      BY <2>4, <2>5, <2>6, <2>7, <2>8 DEF IInv
  <1> QED
    BY <1>3, <1>4 DEF Apply

\* Rotation keeps the newest backup, which holds what this save has replaced.
LEMMA RotateBackupsStep ==
    ASSUME IInv, NEW a \in Admins, RotateBackups(a)
    PROVE  IInv'
  <1>1. At(a, "rotate") /\ "rotate" \in Committing /\ Finish(a)
    BY DEF RotateBackups, Committing
  <1>2. /\ mu = a /\ mu # None /\ active # None
        /\ admins[a].at = "rotate"
        /\ Staged(admins[a])
    BY <1>1, AtStage
  <1>3. /\ admins' \in [Admins -> Progress] /\ mu' = None
    BY <1>1, FinishFacts DEF IInv
  <1>4. /\ Len(backups) \in Nat /\ Len(backups) > 0 /\ DOMAIN backups = 1 .. Len(backups)
        /\ \A i \in 1 .. Len(backups) : backups[i] \in Kept
        /\ replaced = backups[Len(backups)]
    BY <1>2, LenProperties, ElementOfSeq DEF IInv, Typed, Staged
  <1> DEFINE first == 1 + (IF Len(backups) > BackupLimit THEN Len(backups) - BackupLimit ELSE 0)
  <1>5. first \in 1 .. Len(backups)
    BY <1>4, StoreAssumption
  <1>6. backups' = SubSeq(backups, first, Len(backups))
    BY DEF RotateBackups
  <1> HIDE DEF first
  <1>7. /\ backups' \in Seq(Kept)
        /\ Len(backups') = Len(backups) - first + 1
        /\ backups'[Len(backups')] = backups[Len(backups)]
    <2>1. /\ SubSeq(backups, first, Len(backups)) \in Seq(Kept)
          /\ Len(SubSeq(backups, first, Len(backups))) = Len(backups) - first + 1
          /\ \A i \in 1 .. Len(backups) - first + 1 :
                SubSeq(backups, first, Len(backups))[i] = backups[first + i - 1]
      BY <1>4, <1>5, SubSeqProperties
    <2>2. Len(backups) - first + 1 \in 1 .. Len(backups) - first + 1
      BY <1>4, <1>5
    <2> QED
      BY <1>4, <1>5, <1>6, <2>1, <2>2
  <1>8. Typed'
    BY <1>3, <1>7 DEF IInv, Typed, hup_vars, run_vars, RotateBackups
  <1>9. Locked'
    BY <1>1, <1>2, FinishLocked
  <1>10. Saved'
    <2>1. DOMAIN backups' = 1 .. Len(backups') /\ Len(backups') \in DOMAIN backups'
      BY <1>4, <1>5, <1>7, LenProperties
    <2>2. PreviousIsBackedUp'
      BY <1>4, <1>7, <2>1 DEF PreviousIsBackedUp, RotateBackups
    <2> QED
      BY <1>3, <2>2 DEF IInv, Saved, FileComplete, RotateBackups
  <1>11. Running'
    BY <1>2, <1>3 DEF IInv, Running, Under, Runs, Up, RotateBackups, run_vars
  <1>12. Signalled'
    BY DEF IInv, Signalled, ListensWhereItSays, Up, hup_vars, run_vars, RotateBackups
  <1> QED
    BY <1>8, <1>9, <1>10, <1>11, <1>12 DEF IInv

LEMMA ReportRestoredStep ==
    ASSUME IInv, NEW a \in Admins, ReportRestored(a)
    PROVE  IInv'
  <1>1. At(a, "restored") /\ "restored" \in Committing /\ Finish(a)
    BY DEF ReportRestored, Committing
  <1>2. /\ mu = a /\ mu # None /\ active # None
        /\ admins[a].at = "restored"
    BY <1>1, AtStage
  <1>3. /\ admins' \in [Admins -> Progress] /\ mu' = None
    BY <1>1, FinishFacts DEF IInv
  <1>4. Typed'
    BY <1>3 DEF IInv, Typed, hup_vars, run_vars, disk_vars, ReportRestored
  <1>5. Locked'
    BY <1>1, <1>2, FinishLocked
  <1>6. Saved'
    BY <1>3 DEF IInv, Saved, FileComplete, PreviousIsBackedUp, ReportRestored, disk_vars
  <1>7. Running'
    BY <1>2, <1>3 DEF IInv, Running, Under, Runs, Up, ReportRestored, run_vars, disk_vars
  <1>8. Signalled'
    BY DEF IInv, Signalled, ListensWhereItSays, Up, hup_vars, run_vars, disk_vars, ReportRestored
  <1> QED
    BY <1>4, <1>5, <1>6, <1>7, <1>8 DEF IInv

LEMMA CommitStep ==
    ASSUME IInv, NEW a \in Admins, Commit(a)
    PROVE  IInv'
  BY WriteBackupStep, WriteTempStep, SyncTempStep, RenameStep, RemoveOldStep, RenameAgainStep,
     ApplyStep, RotateBackupsStep, ReportRestoredStep DEF Commit

-----------------------------------------------------------------------------
(* What admins see and submit                                              *)

LEMMA ReadStep ==
    ASSUME IInv, NEW a \in Admins, Read(a)
    PROVE  IInv'
  <1> DEFINE s == [Idle EXCEPT !.at = "viewing", !.base = file.doc]
  <1>1. file.doc \in Document /\ mu = None /\ active # None
    BY DEF Read, Readable, IInv, Typed, Up
  <1>2. s \in Progress /\ s.at = "viewing" /\ s.base = file.doc
    BY <1>1 DEF Idle, Progress, Stages
  <1>3. admins' = [admins EXCEPT ![a] = s]
    BY DEF Read
  <1> HIDE DEF s
  <1>4. /\ admins' \in [Admins -> Progress]
        /\ admins'[a] = s
        /\ \A o \in Admins \ {a} : admins'[o] = admins[o]
    BY <1>2, <1>3, Replaced DEF IInv, Typed
  <1>5. Typed'
    BY <1>4 DEF IInv, Typed, hup_vars, run_vars, disk_vars, Read
  <1>6. Locked'
    BY <1>1, <1>2, <1>4, CommittingStages, StoreAssumption DEF IInv, Locked, Read, run_vars
  <1>7. Saved'
    BY <1>1 DEF IInv, Saved, FileComplete, PreviousIsBackedUp, Read, disk_vars
  <1>8. Running'
    BY <1>1 DEF IInv, Running, Runs, Up, Read, run_vars, disk_vars
  <1>9. Signalled'
    BY DEF IInv, Signalled, ListensWhereItSays, Up, hup_vars, run_vars, disk_vars, Read
  <1> QED
    BY <1>5, <1>6, <1>7, <1>8, <1>9 DEF IInv

\* A submission that is taken has seen what is in the file.
LEMMA PutStep ==
    ASSUME IInv, NEW a \in Admins, NEW sub, NEW mode, NEW claimed,
           admins[a].at = "viewing", sub \in Edits(Redact(admins[a].base)),
           Put(a, sub, mode, claimed)
    PROVE  IInv'
  <1>1. /\ mu = None /\ active # None /\ saves < MaxSaves
        /\ admins[a].base \in Document /\ admins[a] \in Progress
    BY DEF Put, At, Up, IInv, Locked, Typed
  <1>2. CASE /\ Readable /\ file.doc = admins[a].base
             /\ Acceptable(file.doc, sub)
             /\ mu' = a /\ saves' = saves + 1
             /\ admins' = [admins EXCEPT ![a].at = "backup",
                                         ![a].candidate = Candidate(file.doc, mode, sub)]
    <2> DEFINE c == Candidate(file.doc, mode, sub)
               s == [admins[a] EXCEPT !.at = "backup", !.candidate = c]
    <2>1. c \in Document /\ PlacesKept(admins[a].base, c)
      <3>1. sub \in Submission
        BY <1>1, RedactSubmits, EditsSubmit
      <3> QED
        BY <1>1, <1>2, <3>1, CandidateKeepsPlaces
    <2>2. admins' = [admins EXCEPT ![a] = s]
      BY <1>2
    <2> HIDE DEF c
    <2>3. /\ s \in Progress /\ s.at = "backup" /\ s.base = admins[a].base
          /\ s.candidate = c
      BY <1>1, <2>1 DEF Progress, Stages, Committing
    <2> HIDE DEF s
    <2>4. /\ admins' \in [Admins -> Progress]
          /\ admins'[a] = s
          /\ \A o \in Admins \ {a} : admins'[o] = admins[o]
      BY <2>2, <2>3, Replaced DEF IInv, Typed
    <2>5. Typed'
      <3>1. saves' \in 0 .. MaxSaves
        BY <1>1, <1>2, StoreAssumption DEF IInv, Typed
      <3> QED
        BY <1>2, <2>4, <3>1 DEF IInv, Typed, hup_vars, run_vars, Put
    <2>6. Locked'
      <3>1. "backup" \in Committing
        BY DEF Committing
      <3>2. active' # None
        BY <1>1 DEF Put, run_vars
      <3>3. \A o \in Admins : admins[o].at \notin Committing
        BY <1>1, StoreAssumption DEF IInv, Locked
      <3> QED
        BY <1>1, <1>2, <2>1, <2>3, <2>4, <3>1, <3>2, <3>3 DEF IInv, Locked
    <2>7. Saved'
      <3>1. Staged(admins[a])'
        BY <2>3, <2>4 DEF Staged
      <3> QED
        BY <1>2, <3>1 DEF IInv, Saved, FileComplete, PreviousIsBackedUp, Put
    <2>8. Running'
      <3>1. SUFFICES ASSUME ~behind' PROVE Under(admins[a])'
        BY <1>2, StoreAssumption DEF Running
      <3>2. Runs(admins[a].base)
        BY <1>1, <1>2, <3>1 DEF IInv, Running, Up, Put, run_vars
      <3> QED
        BY <1>2, <2>3, <2>4, <3>2 DEF Under, Runs, Put, run_vars
    <2>9. Signalled'
      BY DEF IInv, Signalled, ListensWhereItSays, Up, hup_vars, run_vars, Put
    <2> QED
      BY <2>5, <2>6, <2>7, <2>8, <2>9 DEF IInv
  <1>3. CASE Finish(a) /\ UNCHANGED saves
    <2>1. /\ admins' \in [Admins -> Progress] /\ mu' = None
      BY <1>3, FinishFacts DEF IInv
    <2>2. Typed'
      BY <1>3, <2>1 DEF IInv, Typed, hup_vars, run_vars, Put
    <2>3. Locked'
      BY <1>1, <1>3, FinishLocked
    <2>4. Saved'
      BY <2>1 DEF IInv, Saved, FileComplete, PreviousIsBackedUp, Put
    <2>5. Running'
      BY <1>1, <2>1 DEF IInv, Running, Runs, Up, Put, run_vars
    <2>6. Signalled'
      BY DEF IInv, Signalled, ListensWhereItSays, Up, hup_vars, run_vars, Put
    <2> QED
      BY <2>2, <2>3, <2>4, <2>5, <2>6 DEF IInv
  <1> QED
    BY <1>2, <1>3 DEF Put

-----------------------------------------------------------------------------
(* SIGHUP, edits by hand, crashes and restarts                             *)

LEMMA HupLoadStep ==
    ASSUME IInv, HupLoad
    PROVE  IInv'
  <1>1. file.doc \in Document
    BY DEF HupLoad, Readable, IInv, Typed
  <1>2. Typed'
    BY <1>1 DEF IInv, Typed, run_vars, disk_vars, HupLoad
  <1>3. Locked'
    BY DEF IInv, Locked, HupLoad, run_vars
  <1>4. Saved'
    BY DEF IInv, Saved, Staged, FileComplete, PreviousIsBackedUp, HupLoad, disk_vars
  <1>5. Running'
    BY DEF IInv, Running, Under, Runs, Up, HupLoad, run_vars, disk_vars
  <1>6. Signalled'
    BY DEF IInv, Signalled, ListensWhereItSays, Up, run_vars, disk_vars, HupLoad
  <1> QED
    BY <1>2, <1>3, <1>4, <1>5, <1>6 DEF IInv

\* SIGHUP may apply another document than the file has, or than a save that is
\* under way has found there; otherwise the process runs both.
LEMMA HupApplyStep ==
    ASSUME IInv, HupApply
    PROVE  IInv'
  <1>1. loaded \in Document /\ active # None
    BY DEF HupApply, IInv, Typed, Up
  <1>2. Typed'
    <2>1. behind' \in BOOLEAN
      BY DEF HupApply, IInv, Typed
    <2>2. hup' \in {"idle", "rebind"} /\ active' \in Document \cup {None}
      BY <1>1 DEF HupApply, IInv, Typed
    <2> QED
      BY <2>1, <2>2 DEF IInv, Typed, disk_vars, HupApply
  <1>3. active' # None
    BY <1>1, StoreAssumption DEF HupApply
  <1>4. Locked'
    BY <1>3 DEF IInv, Locked, HupApply
  <1>5. Saved'
    BY DEF IInv, Saved, Staged, FileComplete, PreviousIsBackedUp, HupApply, disk_vars
  <1>6. Running'
    <2>1. CASE loaded.hot \in Buildable
      <3>1. SUFFICES ASSUME ~behind'
            PROVE  /\ mu = None => Runs(file.doc)'
                   /\ mu # None => Under(admins[mu])'
        BY DEF Running, HupApply
      <3>2. /\ active' = loaded /\ file.doc = loaded
            /\ mu # None => loaded = admins[mu].base
        BY <2>1, <3>1 DEF HupApply, IInv, Signalled
      <3>3. Overlay(loaded, loaded) = loaded
        BY <1>1, OverlayFacts
      <3> QED
        BY <1>1, <3>2, <3>3 DEF Under, Runs, HupApply, disk_vars
    <2>2. CASE loaded.hot \notin Buildable
      BY <2>2 DEF IInv, Running, Under, Runs, Up, HupApply, disk_vars
    <2> QED
      BY <2>1, <2>2
  <1>7. Signalled'
    BY DEF IInv, Signalled, ListensWhereItSays, Up, HupApply
  <1> QED
    BY <1>2, <1>4, <1>5, <1>6, <1>7 DEF IInv

LEMMA HupRebindStep ==
    ASSUME IInv, HupRebind
    PROVE  IInv'
  <1>1. active \in Document /\ active.listen \in Listens
    BY OverlayFacts DEF HupRebind, IInv, Typed, Up
  <1>2. Typed'
    BY <1>1 DEF IInv, Typed, disk_vars, HupRebind
  <1>3. Locked'
    BY DEF IInv, Locked, HupRebind
  <1>4. Saved'
    BY DEF IInv, Saved, Staged, FileComplete, PreviousIsBackedUp, HupRebind, disk_vars
  <1>5. Running'
    BY DEF IInv, Running, Under, Runs, Up, HupRebind, disk_vars
  <1>6. Signalled'
    BY DEF Signalled, ListensWhereItSays, Up, HupRebind
  <1> QED
    BY <1>2, <1>3, <1>4, <1>5, <1>6 DEF IInv

LEMMA OutsideEditStep ==
    ASSUME IInv, OutsideEdit
    PROVE  IInv'
  <1>1. file' \in [doc : Document, synced : {TRUE}] /\ file'.doc \in Document
    BY StoreAssumption DEF OutsideEdit
  <1>2. Typed'
    <2>1. edits' \in 0 .. MaxEdits
      BY StoreAssumption DEF OutsideEdit, IInv, Typed
    <2>2. behind' = TRUE
      BY DEF OutsideEdit
    <2> QED
      BY <1>1, <2>1, <2>2 DEF IInv, Typed, Overtakes, OutsideEdit
  <1>3. Locked'
    BY DEF IInv, Locked, OutsideEdit
  <1>4. Saved'
    <2>1. FileComplete'
      BY <1>1, StoreAssumption DEF FileComplete
    <2> QED
      BY <2>1 DEF IInv, Saved, Staged, PreviousIsBackedUp, OutsideEdit
  <1>5. Running'
    BY DEF Running, OutsideEdit
  <1>6. Signalled'
    BY DEF IInv, Signalled, ListensWhereItSays, Up, Overtakes, OutsideEdit
  <1> QED
    BY <1>2, <1>3, <1>4, <1>5, <1>6 DEF IInv

\* A loss of power takes nothing that is in the file's place: it was synced.
LEMMA PowerLossKeepsFile ==
    ASSUME IInv, PowerLoss
    PROVE  file' = file
  BY DEF PowerLoss, IInv, Typed

LEMMA DownStep ==
    ASSUME IInv, Crash \/ PowerLoss
    PROVE  IInv'
  <1>1. /\ file' = file /\ Down /\ replaced' \in {replaced, None}
        /\ replaced' = None \/ backups' = backups
    BY PowerLossKeepsFile DEF Crash, PowerLoss
  <1>2. \A a \in Admins : admins'[a].at = "idle" /\ admins'[a] \in Progress
    BY <1>1, CommittingStages DEF Down, Idle
  <1>3. Typed'
    <2>1. admins' \in [Admins -> Progress]
      BY <1>1, CommittingStages DEF Down
    <2>2. behind' = FALSE
      BY <1>1 DEF Down
    <2>3. backups' \in Seq(Kept)
      <3>1. CASE backups' = backups
        BY <3>1 DEF IInv, Typed
      <3>2. ASSUME NEW lost,
                   backups' = [i \in DOMAIN backups |-> IF i \in lost THEN Torn ELSE backups[i]]
            PROVE  backups' \in Seq(Kept)
        <4>1. /\ Len(backups) \in Nat /\ DOMAIN backups = 1 .. Len(backups)
              /\ backups \in [1 .. Len(backups) -> Kept]
          BY LenProperties DEF IInv, Typed
        <4>2. backups' \in [1 .. Len(backups) -> Kept]
          BY <3>2, <4>1 DEF Kept
        <4> QED
          BY <4>1, <4>2, SeqFunction
      <3> QED
        BY <3>1, <3>2 DEF Crash, PowerLoss
    <2> QED
      BY <1>1, <2>1, <2>2, <2>3 DEF IInv, Typed, Down
  <1>4. Locked'
    BY <1>1, <1>2, CommittingStages, StoreAssumption DEF Locked, Down
  <1>5. Saved'
    BY <1>1 DEF IInv, Saved, FileComplete, PreviousIsBackedUp, Down
  <1>6. Running' /\ Signalled'
    BY <1>1 DEF Running, Signalled, ListensWhereItSays, Up, Down
  <1> QED
    BY <1>3, <1>4, <1>5, <1>6 DEF IInv

LEMMA BootStep ==
    ASSUME IInv, Boot
    PROVE  IInv'
  <1>1. file.doc \in Document /\ mu = None
    BY DEF Boot, Readable, Up, IInv, Typed, Locked
  <1>2. /\ file.doc.listen \in Listens /\ file.doc.boot \in Boots
        /\ Overlay(file.doc, file.doc) = file.doc
    BY <1>1, OverlayFacts
  <1>3. Typed'
    BY <1>1, <1>2 DEF IInv, Typed, hup_vars, disk_vars, Boot
  <1>4. Locked'
    BY <1>1 DEF IInv, Locked, Boot
  <1>5. Saved'
    BY <1>1 DEF IInv, Saved, FileComplete, PreviousIsBackedUp, Boot, disk_vars
  <1>6. Running'
    BY <1>1, <1>2 DEF Running, Runs, Boot, disk_vars
  <1>7. Signalled'
    BY DEF IInv, Signalled, ListensWhereItSays, Boot, hup_vars, disk_vars
  <1> QED
    BY <1>3, <1>4, <1>5, <1>6, <1>7 DEF IInv

-----------------------------------------------------------------------------
(* The invariant and what follows of it                                    *)

LEMMA InitInv ==
    ASSUME Init
    PROVE  IInv
  <1>1. /\ InitialDocument \in Document
        /\ InitialDocument.listen \in Listens /\ InitialDocument.boot \in Boots
        /\ Overlay(InitialDocument, InitialDocument) = InitialDocument
    BY StoreAssumption, OverlayFacts
  <1>2. \A a \in Admins : admins[a].at = "idle"
    BY DEF Init, Idle
  <1>3. Typed
    <2>1. backups \in Seq(Kept)
      BY EmptySeq DEF Init
    <2>2. /\ saves \in 0 .. MaxSaves /\ edits \in 0 .. MaxEdits /\ faults \in 0 .. MaxFaults
      BY StoreAssumption DEF Init
    <2>3. admins \in [Admins -> Progress]
      BY CommittingStages DEF Init
    <2> QED
      BY <1>1, <2>1, <2>2, <2>3 DEF Init, Typed
  <1>4. Locked
    BY <1>2, CommittingStages, StoreAssumption DEF Init, Locked
  <1>5. Saved
    BY <1>1, StoreAssumption DEF Init, Saved, FileComplete, PreviousIsBackedUp
  <1>6. Running /\ Signalled
    BY <1>1 DEF Init, Running, Runs, Signalled, ListensWhereItSays
  <1> QED
    BY <1>3, <1>4, <1>5, <1>6 DEF IInv

LEMMA StutterInv ==
    ASSUME IInv, UNCHANGED vars
    PROVE  IInv'
  <1> USE DEF vars, disk_vars, run_vars, hup_vars
  <1>1. Typed'
    BY DEF IInv, Typed
  <1>2. Locked'
    BY DEF IInv, Locked
  <1>3. Saved'
    BY DEF IInv, Saved, Staged, FileComplete, PreviousIsBackedUp
  <1>4. Running'
    BY DEF IInv, Running, Under, Runs, Up
  <1>5. Signalled'
    BY DEF IInv, Signalled, ListensWhereItSays, Up
  <1> QED
    BY <1>1, <1>2, <1>3, <1>4, <1>5 DEF IInv

LEMMA NextInv ==
    ASSUME IInv, [Next]_vars
    PROVE  IInv'
  <1>1. CASE \E a \in Admins : Read(a) \/ Commit(a)
    BY <1>1, ReadStep, CommitStep
  <1>2. CASE \E a \in Admins, mode \in {"raw", "structured"}, claimed \in BOOLEAN :
                admins[a].at = "viewing" /\
                    \E sub \in Edits(Redact(admins[a].base)) : Put(a, sub, mode, claimed)
    BY <1>2, PutStep
  <1>3. CASE HupLoad \/ HupApply \/ HupRebind \/ OutsideEdit \/ Crash \/ PowerLoss \/ Boot
    BY <1>3, HupLoadStep, HupApplyStep, HupRebindStep, OutsideEditStep, DownStep, BootStep
  <1> QED
    BY <1>1, <1>2, <1>3, StutterInv DEF Next

THEOREM Invariance == Spec => []IInv
  <1>1. Init => IInv
    BY InitInv
  <1>2. IInv /\ [Next]_vars => IInv'
    BY NextInv
  <1> QED
    BY <1>1, <1>2, PTL DEF Spec

\* Types of everything the store, the reloader and the admins keep.
THEOREM TypeCorrect == Spec => []TypeOK
  <1>1. IInv => TypeOK
    BY DEF IInv, Typed, Locked, TypeOK, Progress, Kept
  <1> QED
    BY <1>1, Invariance, PTL

\* Wherever the process or the machine stops, the configuration is a complete
\* document; it is missing only after a rename has failed.
THEOREM FileStaysComplete == Spec => []FileComplete
  <1>1. IInv => FileComplete
    BY DEF IInv, Saved
  <1> QED
    BY <1>1, Invariance, PTL

\* What the last save has written over is in a backup.
THEOREM PreviousStaysBackedUp == Spec => []PreviousIsBackedUp
  <1>1. IInv => PreviousIsBackedUp
    BY DEF IInv, Saved
  <1> QED
    BY <1>1, Invariance, PTL

\* With no save under way the process runs what the file says, also after a
\* rollback and a crash in the middle of a save, unless somebody edited the file, a
\* rollback failed, or a save overtook SIGHUP between its read and its apply.
THEOREM ProcessRunsTheFile == Spec => []RunsTheFile
  <1>1. IInv => RunsTheFile
    BY StoreAssumption DEF IInv, Running, Runs, RunsTheFile, Readable
  <1> QED
    BY <1>1, Invariance, PTL

\* The public address in the running configuration is the one the process has bound.
THEOREM ListensThere == Spec => []ListensWhereItSays
  <1>1. IInv => ListensWhereItSays
    BY DEF IInv, Signalled
  <1> QED
    BY <1>1, Invariance, PTL

-----------------------------------------------------------------------------
(* What each step writes, and the abstract file                            *)

\* Only a save's move and its removal of the old file, and an edit by hand,
\* change the file.
LEMMA MoveWrites ==
    ASSUME IInv, NEW a \in Admins, NEW stage \in {"rename", "again"}, At(a, stage), Move(a)
    PROVE  /\ mu = a /\ mu' = mu
           /\ file'.doc \in Document /\ PlacesKept(admins[a].base, file'.doc)
           /\ [o \in Admins |-> admins'[o].base] = [o \in Admins |-> admins[o].base]
  <1>1. stage \in Committing /\ "apply" \in Committing /\ "restored" \in Committing
    BY DEF Committing
  <1>2. /\ mu = a /\ admins[a].at = stage
        /\ admins[a].base \in Document /\ admins[a].candidate \in Document
        /\ PlacesKept(admins[a].base, admins[a].candidate)
        /\ Staged(admins[a])
    BY <1>1, AtStage
  <1>3. file'.doc \in {admins[a].base, admins[a].candidate}
    BY <1>2 DEF Staged, Move
  <1>4. PlacesKept(admins[a].base, admins[a].base)
    BY DEF PlacesKept
  <1>5. PICK to \in {"apply", "restored"} : Go(a, to)
    BY DEF Move
  <1>6. \A o \in Admins : admins'[o].base = admins[o].base
    BY <1>1, <1>5, GoFacts, CommittingStages DEF IInv, Typed
  <1> QED
    BY <1>2, <1>3, <1>4, <1>6 DEF Move

Shown == [a \in Admins |-> admins[a].base]

\* A step that goes on to another stage shows nobody anything.
LEMMA GoShown ==
    ASSUME IInv, NEW a \in Admins, NEW stage \in Stages, Go(a, stage)
    PROVE  Shown' = Shown
  <1>1. \A o \in Admins : admins'[o].base = admins[o].base
    BY GoFacts DEF IInv, Typed
  <1> QED
    BY <1>1 DEF Shown

LEMMA FinishShown ==
    ASSUME IInv, NEW a \in Admins, Finish(a)
    PROVE  Shown' = [Shown EXCEPT ![a] = None]
  <1>1. admins' = [admins EXCEPT ![a] = Idle] /\ Idle.base = None
    BY DEF Finish, Idle
  <1> QED
    BY <1>1 DEF Shown, IInv, Typed

AbstractStep == [Abstract!Next]_(Abstract!file_vars)

LEMMA CommitMaps ==
    ASSUME IInv, NEW a \in Admins, Commit(a)
    PROVE  /\ AbstractStep
           /\ file' # file => edits' = edits /\ mu = a
                              /\ (file'.doc # Gone => PlacesKept(admins[a].base, file'.doc))
  <1> USE DEF Shown, disk_vars, run_vars, hup_vars
  <1> DEFINE Goal == /\ AbstractStep
                     /\ file' # file => edits' = edits /\ mu = a
                              /\ (file'.doc # Gone => PlacesKept(admins[a].base, file'.doc))
  <1>1. ASSUME NEW stage \in Committing, At(a, stage) PROVE mu = a
    BY <1>1, AtStage
  <1>2. ASSUME mu = a, Finish(a), UNCHANGED <<file, edits>> PROVE Goal
    <2>1. Abstract!End(a)
      BY <1>2, FinishShown DEF Abstract!End, Finish
    <2> QED
      BY <1>2, <2>1 DEF AbstractStep, Abstract!Next
  <1>3. ASSUME NEW stage \in Stages, Go(a, stage), UNCHANGED <<file, edits, mu>> PROVE Goal
    BY <1>3, GoShown DEF AbstractStep, Abstract!file_vars
  <1>4. ASSUME NEW stage \in {"rename", "again"}, At(a, stage), Move(a), UNCHANGED edits PROVE Goal
    <2>1. /\ mu = a /\ mu' = mu
          /\ file'.doc \in Document /\ PlacesKept(admins[a].base, file'.doc)
          /\ Shown' = Shown
      BY <1>4, MoveWrites
    <2>2. Abstract!Write(a)
      BY <1>4, <2>1 DEF Abstract!Write, Abstract!PlacesKept, PlacesKept, Abstract!Document, Document, Abstract!DocumentOver, DocumentOver
    <2> QED
      BY <1>4, <2>1, <2>2 DEF AbstractStep, Abstract!Next
  <1>5. CASE WriteBackup(a) \/ WriteTemp(a) \/ SyncTemp(a)
    <2>1. {"backup", "write", "sync", "rename"} \subseteq Committing
      BY DEF Committing
    <2>2. mu = a /\ UNCHANGED <<file, edits>>
      BY <1>1, <1>5, <2>1 DEF WriteBackup, WriteTemp, SyncTemp
    <2>3. Finish(a) \/ \E stage \in {"write", "sync", "rename"} : Go(a, stage) /\ mu' = mu
      BY <1>5 DEF WriteBackup, WriteTemp, SyncTemp, Fault
    <2> QED
      BY <1>2, <1>3, <2>1, <2>2, <2>3, CommittingStages
  <1>6. CASE Rename(a)
    <2>1. CASE Move(a)
      BY <1>4, <1>6, <2>1 DEF Rename
    <2>2. CASE Go(a, "remove") /\ UNCHANGED <<file, mu>>
      BY <1>3, <1>6, <2>2 DEF Rename, Stages, Committing
    <2> QED
      BY <1>6, <2>1, <2>2 DEF Rename
  <1>7. CASE RemoveOld(a)
    <2>1. mu = a /\ edits' = edits
      BY <1>1, <1>7 DEF RemoveOld, Committing
    <2>2. CASE file' = [doc |-> Gone, synced |-> TRUE] /\ Go(a, "again") /\ mu' = mu
      <3>1. Shown' = Shown
        BY <2>2, GoShown DEF Stages, Committing
      <3>2. Abstract!Write(a)
        BY <2>1, <2>2, <3>1 DEF Abstract!Write
      <3> QED
        BY <2>1, <2>2, <3>2 DEF AbstractStep, Abstract!Next
    <2>3. CASE Fault(a) /\ UNCHANGED file
      BY <1>2, <2>1, <2>3 DEF Fault
    <2> QED
      BY <1>7, <2>2, <2>3 DEF RemoveOld
  <1>8. CASE RenameAgain(a)
    <2>1. CASE Move(a)
      BY <1>4, <1>8, <2>1 DEF RenameAgain
    <2>2. CASE Fault(a) /\ UNCHANGED file
      BY <1>1, <1>2, <1>8, <2>2 DEF RenameAgain, Fault, Committing
    <2> QED
      BY <1>8, <2>1, <2>2 DEF RenameAgain
  <1>9. CASE Apply(a)
    <2>1. UNCHANGED <<file, edits, mu>>
      BY <1>9 DEF Apply
    <2>2. CASE Go(a, "rotate")
      BY <1>3, <2>1, <2>2 DEF Stages, Committing
    <2>3. CASE admins' = [admins EXCEPT ![a].at = "write", ![a].undo = TRUE]
      <3>1. \A o \in Admins : admins'[o].base = admins[o].base
        BY <2>3 DEF IInv, Typed, Progress
      <3>2. Shown' = Shown
        BY <3>1
      <3> QED
        BY <2>1, <3>2 DEF AbstractStep, Abstract!file_vars
    <2> QED
      BY <1>9, <2>2, <2>3 DEF Apply
  <1>10. CASE RotateBackups(a) \/ ReportRestored(a)
    <2>1. mu = a /\ Finish(a) /\ UNCHANGED <<file, edits>>
      BY <1>1, <1>10 DEF RotateBackups, ReportRestored, Committing
    <2> QED
      BY <1>2, <2>1
  <1> QED
    BY <1>5, <1>6, <1>7, <1>8, <1>9, <1>10 DEF Commit

\* Saves are serialised: every step of the store, the reloader and the operator
\* is one of ConfigFile, or leaves the file and what the admins have seen alone.
LEMMA NextMaps ==
    ASSUME IInv, [Next]_vars
    PROVE  AbstractStep
  <1> USE DEF Shown, disk_vars, run_vars, hup_vars
  <1>1. ASSUME NEW a \in Admins, Read(a) PROVE AbstractStep
    <2>1. admins' = [admins EXCEPT ![a] = [Idle EXCEPT !.at = "viewing", !.base = file.doc]]
      BY <1>1 DEF Read
    <2>2. [Idle EXCEPT !.at = "viewing", !.base = file.doc].base = file.doc
      BY DEF Idle
    <2>3. Shown' = [Shown EXCEPT ![a] = file.doc]
      BY <2>1, <2>2 DEF IInv, Typed
    <2>4. Abstract!See(a)
      BY <1>1, <2>3 DEF Read, Readable, Abstract!See
    <2> QED
      BY <1>1, <2>4 DEF AbstractStep, Abstract!Next
  <1>2. ASSUME NEW a \in Admins, NEW sub, NEW mode, NEW claimed, Put(a, sub, mode, claimed)
        PROVE  AbstractStep
    <2>1. mu = None /\ UNCHANGED <<file, edits>>
      BY <1>2 DEF Put
    <2>2. CASE /\ file.doc = admins[a].base /\ mu' = a
               /\ admins' = [admins EXCEPT ![a].at = "backup",
                                           ![a].candidate = Candidate(file.doc, mode, sub)]
      <3>1. \A o \in Admins : admins'[o].base = admins[o].base
        BY <2>2 DEF IInv, Typed, Progress
      <3>2. Shown' = Shown /\ Shown[a] = file.doc
        BY <2>2, <3>1
      <3>3. Abstract!Begin(a)
        BY <2>1, <2>2, <3>2 DEF Abstract!Begin
      <3> QED
        BY <3>3 DEF AbstractStep, Abstract!Next
    <2>3. CASE Finish(a)
      <3>1. Abstract!End(a)
        BY <2>1, <2>3, FinishShown DEF Abstract!End, Finish
      <3> QED
        BY <3>1 DEF AbstractStep, Abstract!Next
    <2> QED
      BY <1>2, <2>2, <2>3 DEF Put
  <1>3. ASSUME NEW a \in Admins, Commit(a) PROVE AbstractStep
    BY <1>3, CommitMaps
  <1>4. CASE HupLoad \/ HupApply \/ HupRebind \/ Boot \/ UNCHANGED vars
    <2>1. UNCHANGED <<file, admins, mu, edits>>
      BY <1>4 DEF HupLoad, HupApply, HupRebind, Boot, vars
    <2> QED
      BY <2>1 DEF AbstractStep, Abstract!file_vars
  <1>5. CASE OutsideEdit
    <2>1. file'.doc \in Document /\ UNCHANGED <<mu, admins>> /\ edits' = edits + 1
      BY <1>5, StoreAssumption DEF OutsideEdit
    <2>2. Abstract!OutsideEdit
      BY <2>1 DEF Abstract!OutsideEdit, Abstract!Document, Document, Abstract!DocumentOver, DocumentOver
    <2> QED
      BY <2>2 DEF AbstractStep, Abstract!Next
  <1>6. CASE Crash \/ PowerLoss
    <2>1. file' = file /\ Down
      BY <1>6, PowerLossKeepsFile DEF Crash, PowerLoss
    <2>2. Shown' = [a \in Admins |-> None]
      BY <2>1 DEF Down, Idle
    <2>3. Abstract!Crash
      BY <2>1, <2>2 DEF Abstract!Crash, Down
    <2> QED
      BY <2>3 DEF AbstractStep, Abstract!Next
  <1> QED
    BY <1>1, <1>2, <1>3, <1>4, <1>5, <1>6 DEF Next

\* The store implements the abstract file: saves are serialised, one begins
\* only on what its author has seen, and none is lost under another.
THEOREM StoreImplementsFile == Spec => SavesAreSerialised
  <1>1. Init => Abstract!Init
    <2> SUFFICES ASSUME Init PROVE Abstract!Init
      OBVIOUS
    <2>1. file.doc \in Document /\ \A a \in Admins : admins[a].base = None
      BY StoreAssumption DEF Init, Idle
    <2> QED
      BY <2>1 DEF Init, Abstract!Init, Abstract!Document, Document, Abstract!DocumentOver, DocumentOver
  <1>2. IInv /\ [Next]_vars => [Abstract!Next]_(Abstract!file_vars)
    BY NextMaps DEF AbstractStep
  <1> QED
    BY <1>1, <1>2, Invariance, PTL DEF Spec, SavesAreSerialised, Abstract!Spec

\* No secret moves: what the store writes has a literal only where its author
\* was shown a sentinel.
THEOREM SecretsStay == Spec => SecretsStayInPlace
  <1> DEFINE InPlace == file' # file /\ edits' = edits /\ file'.doc # Gone =>
                           PlacesKept(admins[mu].base, file'.doc)
  <1>1. IInv /\ [Next]_vars => [InPlace]_vars
    <2> SUFFICES ASSUME IInv, Next, file' # file, edits' = edits, file'.doc # Gone
                 PROVE  PlacesKept(admins[mu].base, file'.doc)
      BY DEF vars
    <2>1. ASSUME NEW a \in Admins, Commit(a) PROVE PlacesKept(admins[mu].base, file'.doc)
      BY <2>1, CommitMaps
    <2>2. ~PowerLoss
      BY PowerLossKeepsFile
    <2>3. ~OutsideEdit
      BY DEF OutsideEdit, IInv, Typed
    <2>4. ~(HupLoad \/ HupApply \/ HupRebind \/ Crash \/ Boot)
      BY DEF HupLoad, HupApply, HupRebind, Crash, Boot, disk_vars
    <2>5. \A a \in Admins : ~Read(a)
      BY DEF Read, disk_vars
    <2>6. ASSUME NEW a \in Admins, NEW sub, NEW mode, NEW claimed PROVE ~Put(a, sub, mode, claimed)
      BY DEF Put
    <2> QED
      BY <2>1, <2>2, <2>3, <2>4, <2>5, <2>6 DEF Next
  <1> QED
    BY <1>1, Invariance, PTL DEF Spec, SecretsStayInPlace
=============================================================================
