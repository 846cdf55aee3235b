-------------------------------- MODULE Seam --------------------------------
(***************************************************************************)
(* The registry a capability package owns (seam.py): validate, commit,     *)
(* announce, and hand back the undo.  All of it is synchronous; a listener *)
(* may register, undo, observe and stop while it is being told, so         *)
(* announcements nest.  The innermost is the last frame of `telling`.      *)
(***************************************************************************)
EXTENDS Naturals, Sequences, SequencesExt

CONSTANTS
    Items,      \* each registered once at most
    Key,        \* key_of
    Listeners,  \* each observing once at most
    Vacant

\* Nothing is registered that stands for an empty key.
ASSUME SeamAssumption == Vacant \notin Items

VARIABLES
    entries,    \* Registry._entries
    owner,      \* what became of the registration of an item
    listeners,  \* Registry._listeners
    telling,    \* the announcements in progress
    view,       \* the items a listener knows of, if it goes by what it is told
    missed      \* listeners an announcement never reached

seamVars == <<entries, owner, listeners, telling, view, missed>>

Filed == {i \in Items : entries[Key[i]] = i}
AllOf(s) == {s[n] : n \in DOMAIN s}
Top == telling[Len(telling)]
Below == SubSeq(telling, 1, Len(telling) - 1)

\* Other code runs while nothing is announced, or inside a listener.
MayCall == telling # <<>> => Top.inside

SeamInit ==
    /\ entries = [k \in {Key[i] : i \in Items} |-> Vacant]
    /\ owner = [i \in Items |-> "nobody"]
    /\ listeners = <<>> /\ telling = <<>>
    /\ view = [l \in Listeners |-> {}] /\ missed = {}

\* _validate: a key that is taken is refused, before anything is written; so is
\* what key_of or check raise on.
KeyFree(i) == entries[Key[i]] = Vacant

Announcement(kind, i) == [kind |-> kind, item |-> i, queue |-> listeners, inside |-> FALSE]

Register(i) ==
    /\ MayCall /\ owner[i] = "nobody" /\ KeyFree(i)
    /\ entries' = [entries EXCEPT ![Key[i]] = i]
    /\ owner' = [owner EXCEPT ![i] = "starting"]
    /\ telling' = Append(telling, Announcement("added", i))
    /\ UNCHANGED <<listeners, view, missed>>

\* The disposer of the effect, at the hands of whoever owns it (_release).
Undo(i) ==
    /\ MayCall /\ owner[i] = "effect"
    /\ owner' = [owner EXCEPT ![i] = "undone"]
    /\ IF entries[Key[i]] = i
       THEN /\ entries' = [entries EXCEPT ![Key[i]] = Vacant]
            /\ telling' = Append(telling, Announcement("removed", i))
       ELSE UNCHANGED <<entries, telling>>
    /\ UNCHANGED <<listeners, view, missed>>

\* A listener that observes reads the entries there are.
Observe(l) ==
    /\ MayCall /\ l \notin AllOf(listeners) /\ view[l] = {} /\ l \notin missed
    /\ \A f \in AllOf(telling) : l \notin AllOf(f.queue)
    /\ listeners' = Append(listeners, l)
    /\ view' = [view EXCEPT ![l] = Filed]
    /\ UNCHANGED <<entries, owner, telling, missed>>

Place(l) == CHOOSE n \in DOMAIN listeners : listeners[n] = l

\* The undo of observe.
StopObserving(l) ==
    /\ MayCall /\ l \in AllOf(listeners)
    /\ listeners' = RemoveAt(listeners, Place(l))
    /\ view' = [view EXCEPT ![l] = {}]
    /\ missed' = missed \cup {l}
    /\ UNCHANGED <<entries, owner, telling>>

\* The next listener of the snapshot is told.
Tell ==
    /\ telling # <<>> /\ ~Top.inside /\ Top.queue # <<>>
    /\ telling' = Append(Below, [Top EXCEPT !.inside = TRUE])
    /\ view' = [view EXCEPT ![Head(Top.queue)] =
                  IF Top.kind = "added" THEN @ \cup {Top.item} ELSE @ \ {Top.item}]
    /\ UNCHANGED <<entries, owner, listeners, missed>>

\* Mutant: a failure ends the announcement.
NobodyNext == <<>>

TheNext == Tail(Top.queue)

\* The listener returns.
Told ==
    /\ telling # <<>> /\ Top.inside
    /\ telling' = Append(Below, [Top EXCEPT !.inside = FALSE, !.queue = Tail(@)])
    /\ UNCHANGED <<entries, owner, listeners, view, missed>>

\* The listener raises; the error handlers are told and the others go on.
Contained ==
    /\ telling # <<>> /\ Top.inside
    /\ telling' = Append(Below, [Top EXCEPT !.inside = FALSE, !.queue = TheNext])
    /\ UNCHANGED <<entries, owner, listeners, view, missed>>

\* An error handler raises: the announcement ends.  A registration fails so after
\* its commit: the entry stays, and no effect owns it.
HandlerFails ==
    /\ telling # <<>> /\ Top.inside
    /\ telling' = Below
    /\ missed' = missed \cup AllOf(Tail(Top.queue))
    /\ owner' = [owner EXCEPT ![Top.item] = IF Top.kind = "added" THEN "lost" ELSE @]
    /\ UNCHANGED <<entries, listeners, view>>

Announced ==
    /\ telling # <<>> /\ Top.queue = <<>>
    /\ telling' = Below
    /\ owner' = [owner EXCEPT ![Top.item] = IF Top.kind = "added" THEN "effect" ELSE @]
    /\ UNCHANGED <<entries, listeners, view, missed>>

SeamNext ==
    \/ \E i \in Items : Register(i) \/ Undo(i)
    \/ \E l \in Listeners : Observe(l) \/ StopObserving(l)
    \/ Tell \/ Told \/ Contained \/ HandlerFails \/ Announced

SeamSpec == SeamInit /\ [][SeamNext]_seamVars

-----------------------------------------------------------------------------
\* Properties

Untold(l, kind) ==
    {f.item : f \in {g \in AllOf(telling) :
        /\ g.kind = kind
        /\ l \in AllOf(IF g.inside THEN Tail(g.queue) ELSE g.queue)}}

\* Whatever listeners raise, and whatever they register, undo and observe while
\* they are told, each knows the entries there are, but for the announcements
\* still on their way to it; only an error handler that raises breaks that
\* (_announce, SEM-006).
InStep ==
    \A l \in AllOf(listeners) \ missed :
        view[l] = (Filed \ Untold(l, "added")) \cup Untold(l, "removed")

\* An entry is in the registry for as long as its effect is owed, and no other
\* takes its key meanwhile; what is there and owned by nobody is what an error
\* handler left behind (register, _release).
OwnedEntries ==
    \A i \in Items : i \in Filed <=> owner[i] \in {"starting", "effect", "lost"}

\* Listeners can follow the registry, and the registry follows the effects that own
\* its entries (Registry.register, _announce).
Followed == InStep /\ OwnedEntries
=============================================================================
