--------------------------- MODULE ConfigDocument ---------------------------
(***************************************************************************)
(* The configuration document and what internal/config/store.go does to    *)
(* it: redaction for the admin API, the checks of a submission, the        *)
(* restoration of the secrets it keeps, the candidate that comes of it and *)
(* the bootstrap fields a running process keeps.                           *)
(*                                                                         *)
(* A document holds secrets of two sorts of place.  An item of an identity *)
(* list (providers by name) is found again by its name wherever it stands; *)
(* an item of any other list (api_keys, and the n-th search backend of a   *)
(* kind) only by its position.  `listen' is the public listen address,     *)
(* `boot' the other addresses a process opens when it starts (admin_listen *)
(* and usage_db), and all other content is one value `hot'.  admin_key is  *)
(* kept by a save as these are, needs nothing to be opened, and is left    *)
(* out.                                                                    *)
(***************************************************************************)
EXTENDS Naturals, SequencesExt

CONSTANTS
    Names,      \* provider names
    Literals,   \* secrets written out
    Refs,       \* references to environment variables, $NAME or ${NAME}
    Keep,       \* SecretKeep, the sentinel that stands for a literal secret
    Hot,        \* values of everything that is applied hot
    Loadable,   \* those that config.Decode accepts
    Buildable,  \* those that buildState accepts as well
    Listens,    \* addresses to listen on
    Boots,      \* values of admin_listen and usage_db
    Notes       \* comments

ASSUME SecretsAssumption ==
    /\ Literals \cap Refs = {} /\ Keep \notin Literals \cup Refs
    /\ Buildable \subseteq Loadable /\ Loadable \subseteq Hot

DocumentOver(S) ==
    [named : UNION {[N -> S] : N \in SUBSET Names}, pool : Seq(S),
     hot : Hot, listen : Listens, boot : Boots, note : Notes]

Document == DocumentOver(Literals \cup Refs)

\* What clients see and send: no literal, or at least none accepted.
Submission == DocumentOver(Literals \cup Refs \cup {Keep})

Hidden(s) == IF s \in Literals THEN Keep ELSE s

Redact(d) ==
    [d EXCEPT !.named = [n \in DOMAIN d.named |-> Hidden(d.named[n])],
              !.pool = [i \in DOMAIN d.pool |-> Hidden(d.pool[i])]]

SecretsOf(d) == {d.named[n] : n \in DOMAIN d.named} \cup {d.pool[i] : i \in DOMAIN d.pool}

\* A replacement must be a reference.
NoLiterals(sub) == SecretsOf(sub) \cap Literals = {}

\* A sentinel stands where the current document has a literal, and only there.
KeepsOnly(old, new) ==
    \A x \in DOMAIN new : new[x] = Keep => x \in DOMAIN old /\ old[x] \in Literals

Restorable(current, sub) ==
    KeepsOnly(current.named, sub.named) /\ KeepsOnly(current.pool, sub.pool)

\* A variant in which a sentinel stands for any literal at hand.
RestoreIn_AnyLiteral(old, new) ==
    [x \in DOMAIN new |->
        IF new[x] = Keep THEN CHOOSE s \in Literals : \E y \in DOMAIN old : old[y] = s ELSE new[x]]

RestoreIn(old, new) == [x \in DOMAIN new |-> IF new[x] = Keep THEN old[x] ELSE new[x]]

Restore(current, sub) ==
    [sub EXCEPT !.named = RestoreIn(current.named, @), !.pool = RestoreIn(current.pool, @)]

Acceptable(current, sub) ==
    /\ NoLiterals(sub) /\ Restorable(current, sub)
    /\ sub.hot \in Loadable

\* A structured edit is merged into the current document and keeps its
\* comments; raw text brings its own.
Merge(current, mode, sub) ==
    IF mode = "structured" THEN [sub EXCEPT !.note = current.note] ELSE sub

\* The comparison is of the redacted documents, without comments.
SameContent(d, e) == [Redact(d) EXCEPT !.note = e.note] = Redact(e)

\* An edit that changes no content leaves every byte as it is.
Candidate(current, mode, sub) ==
    LET restored == Restore(current, Merge(current, mode, sub))
    IN  IF SameContent(restored, current) THEN current ELSE restored

\* A variant that applies everything at once.
Overlay_Nothing(d, active) == d

\* overlayRestartFields: what an admin's save makes of the running document.
Overlay(d, active) == [d EXCEPT !.listen = active.listen, !.boot = active.boot]

\* One edit of a document a client looks at: an item less, or an item set.
Without(named, n) == [m \in DOMAIN named \ {n} |-> named[m]]

With(named, n, s) == [m \in DOMAIN named \cup {n} |-> IF m = n THEN s ELSE named[m]]

EditNamed(named) ==
    {Without(named, n) : n \in DOMAIN named}
    \cup UNION {{With(named, n, s) : s \in Literals \cup Refs \cup {Keep}} : n \in Names}

Edits(view) ==
    {[view EXCEPT !.named = m] : m \in EditNamed(view.named)}
    \cup {[view EXCEPT !.pool = RemoveAt(@, i)] : i \in DOMAIN view.pool}
    \cup {[view EXCEPT !.hot = h] : h \in Hot}
    \cup {[view EXCEPT !.listen = l] : l \in Listens}
    \cup {[view EXCEPT !.boot = b] : b \in Boots}
    \cup {[view EXCEPT !.note = c] : c \in Notes}

\* A literal of e stands where d has it.
PlacesKept(d, e) ==
    /\ \A n \in DOMAIN e.named : e.named[n] \in Literals =>
          n \in DOMAIN d.named /\ d.named[n] = e.named[n]
    /\ \A i \in DOMAIN e.pool : e.pool[i] \in Literals =>
          i \in DOMAIN d.pool /\ d.pool[i] = e.pool[i]
=============================================================================
