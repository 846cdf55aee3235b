-------------------------------- MODULE Hmr --------------------------------
(***************************************************************************)
(* Hot reload (hmr.py): the service that turns a burst of reload() calls,  *)
(* and the polls of its watches, into few runs.  What a run finds out      *)
(* about the program is ImportGraph, and what it does to the mounted tree  *)
(* is Loader's remount and reconcile.                                      *)
(***************************************************************************)
EXTENDS Naturals, Sequences, SequencesExt

CONSTANTS
    Changes,      \* what a caller of reload() names: modules and followed files
    Askers,       \* callers of reload(), each calling once (bound) unless it polls
    Watchers,     \* those of them that are a watch()
    Watched,      \* the files of each watcher
    MaxVersion,   \* bound: the versions saved of each file
    RunsRaise,    \* whether a run may raise
    Nobody        \* the stamp of a file that is not watched

HmrConstants ==
    /\ Watchers \subseteq Askers /\ Watched \in [Watchers -> SUBSET Changes]
    /\ MaxVersion \in [Changes -> Nat] /\ Nobody \notin Nat

VARIABLES
    pending,   \* HmrService._pending
    queue,     \* who has called and not returned, in the order of arrival at
               \* the lock; the first holds it
    batch,     \* the changes of the run in progress
    last,      \* HmrService._last: the changes the last report speaks of
    asker,     \* what each caller waits for
    disk,      \* the version saved of each file
    loaded,    \* the version that runs
    dropped,   \* the version a refusing or a raising run was to load
    stamps     \* HmrService._stamps

hmrVars == <<pending, queue, batch, last, asker, disk, loaded, dropped, stamps>>

-----------------------------------------------------------------------------

Stamps(files, w) == [c \in Changes |-> IF c \in Watched[w] THEN files[c] ELSE Nobody]

Free == [at |-> "idle", mine |-> {}, saw |-> [c \in Changes |-> 0], report |-> {}]

HmrInit ==
    /\ pending = {} /\ queue = <<>> /\ batch = {} /\ last = {}
    /\ asker = [a \in Askers |-> Free]
    /\ disk = [c \in Changes |-> 0]
    /\ loaded = disk /\ dropped = disk
    /\ stamps \in {Stamps(disk, w) : w \in Watchers}

service == <<pending, queue, batch, last, asker>>

Save(c) ==
    /\ disk[c] < MaxVersion[c]
    /\ disk' = [disk EXCEPT ![c] = @ + 1]
    /\ UNCHANGED <<service, loaded, dropped, stamps>>

\* Mutant: what a run is just carrying is not asked for again.
JoinedUnlessRunning(mine) == pending \cup (mine \ batch)

Joined(mine) == pending \cup mine

\* reload() up to the lock: the changes join the union before the caller waits.
Reload(a, mine) ==
    /\ pending' = Joined(mine)
    /\ queue' = Append(queue, a)
    /\ asker' = [asker EXCEPT ![a] = [at |-> "waiting", mine |-> mine, saw |-> disk,
                                      report |-> {}]]
    /\ UNCHANGED <<batch, last>>

Ask(a, mine) ==
    /\ a \notin Watchers /\ asker[a].at = "idle"
    /\ Reload(a, mine)
    /\ UNCHANGED <<disk, loaded, dropped, stamps>>

\* One turn of the poll of watch(): all watches share one table of stamps, and a
\* fresh table replaces it.
Poll(w) ==
    LET changed == {c \in Watched[w] : stamps[c] # disk[c]}
    IN /\ asker[w].at \in {"idle", "returned", "raised"}
       /\ stamps' = Stamps(disk, w)
       /\ IF changed = {} THEN UNCHANGED service ELSE Reload(w, changed)
       /\ UNCHANGED <<disk, loaded, dropped>>

Returns(a, how, report) == [asker EXCEPT ![a].at = how, ![a].report = report]

\* The head of the queue has the lock and finds its changes gone: another run
\* carried them, and the last report is taken for that of this run.
Carried(a) ==
    /\ queue # <<>> /\ Head(queue) = a /\ asker[a].at = "waiting"
    /\ asker[a].mine \cap pending = {}
    /\ asker' = Returns(a, "returned", last)
    /\ queue' = Tail(queue)
    /\ UNCHANGED <<pending, batch, last, disk, loaded, dropped, stamps>>

\* A caller is cancelled while it waits for the lock; its changes stay pending.
GiveUp(a) ==
    /\ asker[a].at = "waiting"
    /\ asker' = Returns(a, "raised", {})
    /\ queue' = RemoveAt(queue, CHOOSE i \in DOMAIN queue : queue[i] = a)
    /\ UNCHANGED <<pending, batch, last, disk, loaded, dropped, stamps>>

\* Otherwise it takes everything that is pending into a run of its own.
RunStarts(a) ==
    /\ queue # <<>> /\ Head(queue) = a /\ asker[a].at = "waiting"
    /\ asker[a].mine \cap pending # {}
    /\ batch' = pending
    /\ pending' = {}
    /\ asker' = [asker EXCEPT ![a].at = "running"]
    /\ UNCHANGED <<queue, last, disk, loaded, dropped, stamps>>

\* _run: the files are read when they are reimported, somewhere in the run.
Reimport(a) ==
    /\ asker[a].at = "running"
    /\ loaded' = [c \in Changes |-> IF c \in batch THEN disk[c] ELSE loaded[c]]
    /\ asker' = [asker EXCEPT ![a].at = "reimported"]
    /\ UNCHANGED <<pending, queue, batch, last, disk, dropped, stamps>>

Lost == [c \in Changes |-> IF c \in batch THEN disk[c] ELSE dropped[c]]

\* A declining module makes the run return having done nothing.
Refuse(a) ==
    /\ asker[a].at = "running"
    /\ dropped' = Lost
    /\ asker' = [asker EXCEPT ![a].at = "reimported"]
    /\ UNCHANGED <<pending, queue, batch, last, disk, loaded, stamps>>

RunEnds(a) ==
    /\ asker[a].at = "reimported"
    /\ last' = batch /\ batch' = {}
    /\ asker' = Returns(a, "returned", batch)
    /\ queue' = Tail(queue)
    /\ UNCHANGED <<pending, disk, loaded, dropped, stamps>>

\* The loader, or a source that is read, raises: the lock is released, the last
\* report stays and the changes of the batch are gone, those it had not come to
\* with them.
RunRaises(a) ==
    /\ RunsRaise /\ asker[a].at \in {"running", "reimported"}
    /\ dropped' = IF asker[a].at = "running" THEN Lost ELSE dropped
    /\ batch' = {}
    /\ asker' = Returns(a, "raised", {})
    /\ queue' = Tail(queue)
    /\ UNCHANGED <<pending, last, disk, loaded, stamps>>

HmrNext ==
    \/ \E c \in Changes : Save(c)
    \/ \E a \in Askers, mine \in (SUBSET Changes) \ {{}} : Ask(a, mine)
    \/ \E w \in Watchers : Poll(w)
    \/ \E a \in Askers :
         \/ Carried(a) \/ GiveUp(a) \/ RunStarts(a)
         \/ Reimport(a) \/ Refuse(a) \/ RunEnds(a) \/ RunRaises(a)

HmrSpec == HmrInit /\ [][HmrNext]_hmrVars

-----------------------------------------------------------------------------
\* Properties

\* A reload() that returned has seen to its changes: of each the version its
\* caller had saved, or a later one, runs, or a run that was to load it refused
\* or raised - also when the change arrived in the middle of a run for the same
\* file, and whichever of the callers ran it (reload).
NothingForgotten ==
    \A a \in Askers : asker[a].at = "returned" =>
        \A c \in asker[a].mine :
            loaded[c] >= asker[a].saw[c] \/ dropped[c] >= asker[a].saw[c]

\* A watched file whose saved version neither runs nor was given up is one the
\* next poll will see, or one a run is going to carry (watch, reload).
Noticed ==
    \A w \in Watchers : \A c \in Watched[w] :
        \/ loaded[c] = disk[c] \/ dropped[c] = disk[c]
        \/ stamps[c] # disk[c]
        \/ c \in pending
        \/ c \in batch /\ \E a \in Askers : asker[a].at = "running"

\* No change that was saved, watched or asked for gets lost (reload, watch).
ChangesCarried == NothingForgotten /\ Noticed
=============================================================================
