------------------------------- MODULE Loader -------------------------------
(***************************************************************************)
(* The declarative loader (loader.py): a document of entries, each at a    *)
(* dotted path, is compared with what the loader remembers of the mounted  *)
(* tree; the removals, the updates and the mounts this takes are decided   *)
(* at once and carried out one after the other, with awaits in between.    *)
(*                                                                         *)
(* A document is a function from paths to rows.  The lock lets one job in  *)
(* at a time, so one job is followed at a time; instances that others      *)
(* dispose of come between any two of its steps.  The order of the rows,   *)
(* which the code keeps, is left open where it is not free of effect.      *)
(***************************************************************************)
EXTENDS Naturals, FiniteSets

CONSTANTS
    Paths,      \* the dotted paths
    Parent,     \* the group a path belongs to, Top for a first level entry
    Documents,  \* what the file may say
    Invalid,    \* the literal configs no schema accepts
    Reads,      \* the sibling an expression at a path reads the config of
    Top, None,
    MaxJobs,    \* bound: reconciles and remounts
    MaxLost,    \* bound: instances disposed of by others
    MayCancel   \* whether callers are cancelled and disposers raise

Group == "group"            \* the target name of a group (GROUP)
Computed == "$expr"         \* a config, or a disabled flag, that is an expression

\* What a file may hold: rows at some of the paths.
Rows == UNION {{doc[p] : p \in DOMAIN doc} : doc \in Documents}
KnownDocs == UNION {[S -> Rows] : S \in SUBSET Paths}
Configs == {r.config : r \in Rows} \cup {None}
Instance == [name : {r.name : r \in Rows}, prepares : BOOLEAN, view : Configs,
             by : Nat, holds : Configs, up : BOOLEAN]

\* Groups nest and end, an entry is written within its group, and a group has no
\* config but its rows.
ASSUME LoaderAssumption ==
    /\ Parent \in [Paths -> Paths \cup {Top}] /\ Top \notin Paths
    /\ \A S \in SUBSET Paths : S # {} => \E p \in S : Parent[p] \notin S
    /\ Documents \subseteq KnownDocs
    /\ \A doc \in Documents : \A p \in DOMAIN doc : Parent[p] \in DOMAIN doc \cup {Top}
    /\ \A r \in Rows : r.name = Group => r.config = None
    /\ None \notin KnownDocs \cup Instance

VARIABLES
    live,   \* LoaderService._live: the entry remembered for a path, with the rows
            \* of its group, or None
    inst,   \* the instance that runs for a path, or None
    job,    \* the reconcile or remount in progress, or the last one
    jobs,   \* how many there were
    lost    \* how many instances others disposed of

loaderVars == <<live, inst, job, jobs, lost>>

Chain[p \in Paths] == {p} \cup (IF Parent[p] = Top THEN {} ELSE Chain[Parent[p]])
Under(p) == {q \in Paths : p \in Chain[q]}
Within(doc, S) == [p \in DOMAIN doc \cap S |-> doc[p]]

Live == {p \in Paths : live[p] # None}
Running == {p \in Paths : inst[p] # None}
Row(p) == live[p][p]        \* the entry remembered, without its children

NoDoc == Within([p \in {} |-> None], {})
NoJob == [kind |-> "none", stage |-> "over", outcome |-> "none", doc |-> NoDoc,
          named |-> {}, shown |-> {}, kill |-> {}, doomed |-> {}, mount |-> {},
          update |-> {}, unchanged |-> {}, failed |-> {}, touched |-> {}, torn |-> {},
          before |-> [p \in Paths |-> None], was |-> [p \in Paths |-> None]]

LoaderInit ==
    /\ live = [p \in Paths |-> None]
    /\ inst = [p \in Paths |-> None]
    /\ job = NoJob /\ jobs = 0 /\ lost = 0

-----------------------------------------------------------------------------
\* Deciding

\* A disabled flag that is an expression is decided anew by every plan.
Decisions(doc) ==
    [{p \in DOMAIN doc : doc[p].disabled = Computed} -> {"no", "yes", "undecided"}]

Flag(doc, decided, p) ==
    IF p \in DOMAIN decided THEN decided[p] ELSE doc[p].disabled

Shown(doc, decided) ==
    {p \in DOMAIN doc : \A q \in Chain[p] : Flag(doc, decided, q) = "no"}

Undecided(doc, decided) ==
    {p \in DOMAIN doc : /\ Flag(doc, decided, p) = "undecided"
                        /\ \A q \in Chain[p] \ {p} : Flag(doc, decided, q) = "no"}

Resolves(row, broken) ==
    row.name = Group \/ (row.name \notin broken /\ row.config \notin Invalid)

\* Mutant: a plugin in place of another is taken for an edit.
SameSort(row, other) == row.name = Group <=> other.name = Group

\* _shape: what can be changed by a remount only; the target stands for all of it.
SameShape(row, other) == row.name = other.name

\* Mutant: a row takes the group it is in along.
DoomedBothWays(tops) == {p \in Live : (Chain[p] \cup Under(p)) \cap tops # {}}

\* _doom: a path and every live one beneath it.
Doomed(tops) == {p \in Live : Chain[p] \cap tops # {}}

\* _plan, or the walk of a remount, which dooms the named entries and no unwanted
\* one.  `broken` are the targets that do not resolve or are no plugins.
Plan(kind, doc, named, decided, broken) ==
    LET shown == Shown(doc, decided)
        reshaped == {p \in shown \cap Live : ~SameShape(Row(p), doc[p])}
        unwanted == IF kind = "reconcile" THEN Live \ shown ELSE {}
        tops == named \cup reshaped \cup unwanted
        doomed == Doomed(tops)
        fresh == shown \ (Live \ doomed)
        mount == {p \in fresh : Resolves(doc[p], broken)}
        update == {p \in shown \ fresh :
                     doc[p].name # Group /\ Row(p).config # doc[p].config}
    IN [kind |-> kind, stage |-> "kill", outcome |-> "none", doc |-> doc, named |-> named,
        shown |-> shown,
        kill |-> {p \in tops : Chain[p] \cap tops = {p}}, doomed |-> doomed,
        mount |-> mount, update |-> update, unchanged |-> shown \ (fresh \cup update),
        failed |-> (fresh \ mount) \cup Undecided(doc, decided),
        touched |-> {}, torn |-> job.torn, before |-> inst, was |-> live]

Free == job.stage = "over" /\ jobs < MaxJobs

Reconcile(doc) ==
    /\ Free
    /\ \E decided \in Decisions(doc), broken \in SUBSET {doc[p].name : p \in DOMAIN doc} :
         job' = Plan("reconcile", doc, {}, decided, broken \ {Group})
    /\ jobs' = jobs + 1
    /\ UNCHANGED <<live, inst, lost>>

\* What the loader remembers, as a document: the first level entries with the
\* rows they were stored with.
Remembered ==
    LET rowed == {p \in Paths : \E q \in Chain[p] \cap Live : Parent[q] = Top /\ p \in DOMAIN live[q]}
    IN [p \in rowed |-> live[CHOOSE q \in Chain[p] : Parent[q] = Top][p]]

\* A remount resolves its targets when it plans; those that fail then are left
\* out, like those that fail after `between`.
Remount(named) ==
    /\ Free /\ named # {} /\ named \subseteq Live
    /\ \E decided \in Decisions(Remembered),
          broken \in SUBSET {Remembered[p].name : p \in DOMAIN Remembered} :
         job' = Plan("remount", Remembered, named, decided, broken \ {Group})
    /\ jobs' = jobs + 1
    /\ UNCHANGED <<live, inst, lost>>

-----------------------------------------------------------------------------
\* Applying

At(stage) == job.stage = stage
Gone(S) == [p \in Paths |-> IF p \in S THEN None ELSE inst[p]]

\* An exception leaves the job, and the lock, where it stands.
Raised(why) == [job EXCEPT !.stage = "over", !.outcome = why]

\* dispose() of a doomed instance takes down what is below it.
Kill(p) ==
    /\ At("kill") /\ p \in job.kill
    /\ inst' = Gone(Under(p))
    /\ \/ job' = [job EXCEPT !.kill = @ \ {p}]
       \/ MayCancel /\ job' = Raised("interrupted")   \* a disposer raises, or the caller is cancelled
    /\ UNCHANGED <<live, jobs, lost>>

\* Mutant: the removals are started and not waited for.
KillStarted == TRUE

KillEnds == job.kill = {}

\* The doomed are forgotten; then, in a remount, `between` reimports - or raises -
\* and the mounts are resolved again (_refresh).
Forget ==
    /\ At("kill") /\ KillEnds
    /\ live' = [p \in Paths |-> IF p \in job.doomed THEN None ELSE live[p]]
    /\ IF job.kind = "reconcile"
       THEN job' = [job EXCEPT !.stage = "update"]
       ELSE \/ job' = Raised("interrupted")
            \/ \E broken \in SUBSET {job.doc[p].name : p \in job.mount} :
                 LET fails == {p \in job.mount : ~Resolves(job.doc[p], broken \ {Group})}
                 IN job' = [job EXCEPT !.stage = "update", !.mount = @ \ fails,
                                       !.failed = @ \cup fails]
    /\ UNCHANGED <<inst, jobs, lost>>

\* What an expression reads of a sibling: its literal config, or nothing.
Seen(doc, p) ==
    LET s == Reads[p] IN
    IF s \in DOMAIN doc /\ doc[s].config # Computed THEN doc[s].config ELSE None

\* What the body gets: an instance that was mounted with an expression computes
\* its config, from the siblings of that time; any other takes it as it is.
Value(i, config) == IF config = Computed /\ i.prepares THEN i.view ELSE config

Adopts(i, config, healthy) ==
    LET v == Value(i, config)
    IN [i EXCEPT !.holds = v, !.up = healthy /\ v \notin Invalid \cup {None}]

\* update(): the entry is remembered first.  A start that fails is raised to the
\* reconcile, and so is a config that does not validate; a cancelled update may
\* or may not have adopted the config.
Update(p) ==
    /\ At("update") /\ p \in job.update
    /\ live' = [live EXCEPT ![p] = Within(job.doc, Under(p))]
    /\ \E healthy \in BOOLEAN :
         LET new == IF inst[p] = None THEN None ELSE Adopts(inst[p], job.doc[p].config, healthy)
         IN \/ /\ inst' = [inst EXCEPT ![p] = new]
               /\ job' = IF new = None \/ new.up
                         THEN [job EXCEPT !.update = @ \ {p}, !.touched = @ \cup {p},
                                          !.torn = @ \ {p}]
                         ELSE Raised("start failed")
            \/ /\ MayCancel
               /\ inst' \in {inst, [inst EXCEPT ![p] = new]}
               /\ job' = [Raised("interrupted") EXCEPT !.torn = @ \cup {p}]
    /\ UNCHANGED <<jobs, lost>>

NewInst(p, healthy) ==
    LET row == job.doc[p]
        view == IF row.config = Computed THEN Seen(job.doc, p) ELSE None
    IN Adopts([name |-> row.name, prepares |-> row.config = Computed, view |-> view,
               by |-> jobs, holds |-> None, up |-> TRUE], row.config, healthy)

\* The groups left as they are that have something changed below them.
Passed == {q \in job.unchanged : (Under(q) \ {q}) \cap (job.mount \cup job.touched) # {}}

\* The mounts are carried out in one go, and the groups they pass are remembered
\* anew.  A group whose own instance has been disposed of refuses: what comes
\* after it in the document is not mounted, and the reconcile raises.
Mount ==
    LET refused == {p \in job.mount : Parent[p] \notin job.mount \cup Running \cup {Top}}
        dead == {q \in Passed : \E p \in refused : Parent[p] = q}
    IN /\ At("update") /\ job.update = {}
       /\ \E done \in SUBSET job.mount, renewed \in SUBSET Passed, sick \in SUBSET job.mount :
            /\ \A p \in done : Parent[p] \in done \cup renewed \cup {Top}
            /\ sick \subseteq {p \in done : job.doc[p].name # Group}
            /\ IF refused = {} THEN done = job.mount /\ renewed = Passed
               ELSE done \cap refused = {} /\ renewed \cap dead # {}
            /\ live' = [p \in Paths |-> IF p \in done \cup renewed
                                        THEN Within(job.doc, Under(p)) ELSE live[p]]
            /\ inst' = [p \in Paths |-> IF p \in done THEN NewInst(p, p \notin sick) ELSE inst[p]]
            /\ job' = IF refused = {}
                      THEN [job EXCEPT !.stage = "settle", !.touched = @ \cup done,
                                       !.torn = @ \ done]
                      ELSE [Raised("interrupted") EXCEPT !.torn = @ \ done]
       /\ UNCHANGED <<jobs, lost>>

\* Everything touched is awaited; what did not start is named in the report.
Settle ==
    /\ At("settle")
    /\ job' = [job EXCEPT !.stage = "over", !.outcome = "returned",
                 !.failed = @ \cup {p \in job.touched \cap Running : ~inst[p].up}]
    /\ UNCHANGED <<live, inst, jobs, lost>>

SettleCut == At("settle") /\ MayCancel /\ job' = Raised("interrupted")
             /\ UNCHANGED <<live, inst, jobs, lost>>

\* Somebody else disposes of an instance, or restarts a group, which takes the
\* children with it.  The loader is not told.
Lose(p) ==
    /\ lost < MaxLost /\ inst[p] # None
    /\ \/ inst' = Gone(Under(p))
       \/ inst[p].name = Group /\ inst' = Gone(Under(p) \ {p})
    /\ lost' = lost + 1
    /\ UNCHANGED <<live, job, jobs>>

LoaderNext ==
    \/ \E doc \in Documents : Reconcile(doc)
    \/ \E named \in SUBSET Paths : Remount(named)
    \/ \E p \in Paths : Kill(p) \/ Update(p) \/ Lose(p)
    \/ Forget \/ Mount \/ Settle \/ SettleCut

LoaderSpec == LoaderInit /\ [][LoaderNext]_loaderVars

-----------------------------------------------------------------------------
\* Properties

Returned(kind) == job.kind = kind /\ job.outcome = "returned"

\* After a reconcile that returned the tree is the one the document describes,
\* whatever interrupted jobs left behind before it: what is shown is remembered
\* under its row or named as failed, what is not shown is gone, and what runs
\* has the target and the literal config of its row.  (An update that was cut
\* short may have left an instance on its old config, though not its row.)
Matches ==
    Returned("reconcile") =>
      /\ Live \subseteq job.shown /\ job.shown \ Live \subseteq job.failed
      /\ \A p \in Live :
           /\ Row(p).name = job.doc[p].name /\ Row(p).config = job.doc[p].config
           /\ inst[p] # None =>
                /\ inst[p].name = job.doc[p].name
                /\ p \notin job.torn /\ job.doc[p].config # Computed =>
                     inst[p].holds = job.doc[p].config
                /\ p \in job.touched /\ ~inst[p].up => p \in job.failed

\* Whatever raises or is cancelled, every instance that runs is remembered, and
\* runs below the group its path names: a later job can find it and remove it.
NothingLost ==
    \A p \in Running : p \in Live /\ Parent[p] \in Running \cup {Top}

\* The entries that cannot stay: those the document has no longer, those named,
\* those that are another plugin now, and everything below them.
Leaving ==
    {p \in Paths : job.was[p] # None /\
        \/ job.kind = "reconcile" /\ p \notin job.shown
        \/ \E q \in Chain[p] : \/ q \in job.named
                               \/ q \in job.shown /\ job.was[q][q].name # job.doc[q].name}

\* No instance of a removed or replaced entry is left when the first update or
\* mount of the same job is made, or when `between` reimports (SEM-008 of the
\* loader, SEM-002 of hot reload).
RemovalsFirst ==
    job.stage \in {"update", "settle"} =>
      \A p \in Leaving : inst[p] # None => inst[p] # job.before[p]

\* SEM-002: no step of a job touches the instance of an entry that stays where it
\* was, with the target and the config it had.
Untouched ==
    [][lost' = lost =>
        \A p \in job.shown \ Leaving :
            job.was[p] # None /\ job.was[p][p].config = job.doc[p].config
                => inst'[p] = inst[p]]_loaderVars

=============================================================================
