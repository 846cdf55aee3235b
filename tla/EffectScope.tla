---------------------------- MODULE EffectScope ----------------------------
(***************************************************************************)
(* src/cordis/effect.py: disposal scopes.  A scope keeps the effects and   *)
(* the child scopes registered in it, in order, and disposing it runs      *)
(* every recorded disposer in reverse, even when setup or teardown raises. *)
(*                                                                         *)
(* The code is asyncio: a task runs alone until it awaits.  `loop` names   *)
(* the task that is between two awaits, and while it does nothing else     *)
(* steps.  What a setup or a disposer does is the environment's choice: it *)
(* may raise, an asynchronous one may take any time.                       *)
(*                                                                         *)
(* A disposer stands for the resource it gives back: `held` is the set of  *)
(* resources acquired and not yet released.                                *)
(***************************************************************************)
EXTENDS Naturals, Sequences, SequencesExt, FiniteSets

CONSTANTS
  Scopes,      \* scopes that may exist
  Effects,     \* registrations, each made at most once
  Disposers,   \* disposer callables, compared by identity
  Callers,     \* tasks that call dispose() once each
  None,        \* no scope, no task
  ParentOf,    \* the scope whose child() creates a scope, None for a root
  Owner,       \* the scope an effect is registered in
  Shape,       \* how the setup hands over its disposers
  Yields,      \* the disposers a setup that does not fail hands over, in order
  Kind,        \* whether a disposer is a coroutine function
  Handled      \* the effects whose handle somebody calls

ASSUME ShapeAssumption ==
  /\ None \notin Scopes \cup Effects \cup Disposers
  /\ Scopes \cap Effects = {}
  /\ ParentOf \in [Scopes -> Scopes \cup {None}]
  /\ Owner \in [Effects -> Scopes]
  /\ Shape \in [Effects -> {"sync", "awaitable", "iterator"}]
  /\ Yields \in [Effects -> Seq(Disposers \cup {None})]
  /\ \A e \in Effects : \A i, j \in 1..Len(Yields[e]) :
       i # j => Yields[e][i] # Yields[e][j]
  /\ Kind \in [Disposers -> {"plain", "async", "mixed"}]
  /\ Handled \subseteq Effects

(***************************************************************************)
(* A runner works through disposers one batch at a time: the unwind task   *)
(* of a scope, or the job a call of an effect's handle starts.             *)
(***************************************************************************)
Runners == Scopes \cup Effects

VARIABLES
  loop,       \* the runner between two awaits, or None
  entries,    \* scope -> its effects and child scopes, in registration order
  ids,        \* scope -> _disposer_ids
  setup,      \* effect -> progress of its setup
  yielded,    \* effect -> how many disposers its setup has handed over
  disposers,  \* effect -> the disposers its record holds
  disposed,   \* effect -> _Record.disposed
  unwind,     \* scope -> progress of its one unwind task
  job,        \* runner -> disposers still to call, and those being awaited
  errors,     \* runner -> the disposers that raised in it
  caller,     \* caller of dispose() -> where it stands
  held,       \* the resources acquired and not released
  order       \* registrations in the order they were made, for the properties

vars == <<loop, entries, ids, setup, yielded, disposers, disposed, unwind,
          job, errors, caller, held, order>>

NoJob == [queue |-> <<>>, inflight |-> {}]

Init ==
  /\ loop = None
  /\ entries = [s \in Scopes |-> <<>>]
  /\ ids = [s \in Scopes |-> {}]
  /\ setup = [e \in Effects |-> "none"]
  /\ yielded = [e \in Effects |-> 0]
  /\ disposers = [e \in Effects |-> <<>>]
  /\ disposed = [e \in Effects |-> FALSE]
  /\ unwind = [s \in Scopes |->
       [pc |-> IF ParentOf[s] = None THEN "open" ELSE "absent", todo |-> <<>>]]
  /\ job = [r \in Runners |-> NoJob]
  /\ errors = [r \in Runners |-> {}]
  /\ caller = [c \in Callers |-> 
       [at |-> None, cancelled |-> FALSE, out |-> "idle"]]
  /\ held = {}
  /\ order = <<>>

\* list.remove: an entry is in its scope's list once.
Without(seq, x) ==
  IF x \in ToSet(seq) THEN RemoveAt(seq, CHOOSE i \in DOMAIN seq : seq[i] = x) ELSE seq

\* Mutant: the scope turns inactive only when its unwind finishes.
ActiveUntilDone(s) == unwind[s].pc \notin {"absent", "done"}

\* Registration is refused from the moment disposal starts.
Active(s) == unwind[s].pc = "open"

----------------------------------------------------------------------------
(* Registration *)

\* EffectScope.child
Child(s) ==
  /\ loop = None
  /\ unwind[s].pc = "absent"
  /\ Active(ParentOf[s])
  /\ unwind' = [unwind EXCEPT ![s].pc = "open"]
  /\ entries' = [entries EXCEPT ![ParentOf[s]] = Append(@, s)]
  /\ order' = Append(order, s)
  /\ UNCHANGED <<loop, ids, setup, yielded, disposers, disposed, job, errors, caller, held>>

\* Mutant: a re-yielded disposer is recorded twice.
RecordedAgain(e, i, j) ==
  SelectSeq(SubSeq(Yields[e], i, j), LAMBDA d : d # None)

\* The positions K of a sequence, from the first to the last.
InOrder(K) ==
  CHOOSE f \in [1..Cardinality(K) -> K] : \A m, n \in 1..Cardinality(K) : m < n => f[m] < f[n]

\* The items i..j of a setup that _record_disposer keeps: None is nothing to
\* undo, and a disposer already recorded in the scope is not recorded again.
Recorded(e, i, j) ==
  LET kept == InOrder({k \in i..j : Yields[e][k] \notin {None} \cup ids[Owner[e]]})
  IN  [n \in DOMAIN kept |-> Yields[e][kept[n]]]

\* _absorb, or one turn of the asynchronous iteration.  The scope is not asked
\* whether it is still active.
Record(e, j) ==
  LET new == Recorded(e, yielded[e] + 1, j)
  IN  /\ disposers' = [disposers EXCEPT ![e] = @ \o new]
      /\ ids' = [ids EXCEPT ![Owner[e]] = @ \cup ToSet(new)]
      /\ held' = held \cup ToSet(new)
      /\ yielded' = [yielded EXCEPT ![e] = j]

\* Mutant: the rollback runs everything the scope has recorded.
RollbackScope(e, own) ==
  /\ disposers' = [x \in Effects |-> IF Owner[x] = Owner[e] THEN <<>> ELSE disposers[x]]
  /\ ids' = [ids EXCEPT ![Owner[e]] = {}]
  /\ held' = held \ ids[Owner[e]]

\* _rollback of the disposers `own`: each is called, and an awaitable one of
\* them returns is closed instead of awaited, so what it would release stays.
Rollback(e, own) ==
  /\ disposers' = [disposers EXCEPT ![e] = <<>>]
  /\ ids' = [ids EXCEPT ![Owner[e]] = @ \ ToSet(own)]
  /\ held' = (held \cup ToSet(own)) \ {d \in ToSet(own) : Kind[d] = "plain"}

Register(e) ==
  /\ loop = None
  /\ Active(Owner[e])
  /\ setup[e] = "none"

\* effect() with a synchronous shape.
RegisterSync(e) ==
  /\ Register(e)
  /\ Shape[e] = "sync"
  /\ Record(e, Len(Yields[e]))
  /\ setup' = [setup EXCEPT ![e] = "done"]
  /\ entries' = [entries EXCEPT ![Owner[e]] = Append(@, e)]
  /\ order' = Append(order, e)
  /\ UNCHANGED <<loop, disposed, unwind, job, errors, caller>>

\* effect() whose setup raises after handing over n disposers.
RegisterRaises(e) ==
  /\ Register(e)
  /\ Shape[e] = "sync"
  /\ \E n \in 0..Len(Yields[e]) :
       /\ Rollback(e, Recorded(e, 1, n))
       /\ yielded' = [yielded EXCEPT ![e] = n]
  /\ setup' = [setup EXCEPT ![e] = "failed"]
  /\ UNCHANGED <<loop, entries, disposed, unwind, job, errors, caller, order>>

\* effect() with an asynchronous shape: recorded at once, finished by a task.
RegisterAsync(e) ==
  /\ Register(e)
  /\ Shape[e] # "sync"
  /\ setup' = [setup EXCEPT ![e] = "running"]
  /\ entries' = [entries EXCEPT ![Owner[e]] = Append(@, e)]
  /\ order' = Append(order, e)
  /\ UNCHANGED <<loop, ids, yielded, disposers, disposed, unwind, job, errors, caller, held>>

\* _finish_async: an iterator hands over one disposer per turn, an awaitable
\* all of them.
SetupYields(e) ==
  /\ loop = None
  /\ setup[e] = "running"
  /\ yielded[e] < Len(Yields[e])
  /\ Record(e, IF Shape[e] = "iterator" THEN yielded[e] + 1 ELSE Len(Yields[e]))
  /\ UNCHANGED <<loop, entries, setup, disposed, unwind, job, errors, caller, order>>

SetupDone(e) ==
  /\ loop = None
  /\ setup[e] = "running"
  /\ yielded[e] = Len(Yields[e])
  /\ setup' = [setup EXCEPT ![e] = "done"]
  /\ UNCHANGED <<loop, entries, ids, yielded, disposers, disposed, unwind, job,
                 errors, caller, held, order>>

\* The setup raises, or its task is cancelled through an awaited handle.
SetupRaises(e) ==
  /\ loop = None
  /\ setup[e] = "running"
  /\ Rollback(e, disposers[e])
  /\ setup' = [setup EXCEPT ![e] = "failed"]
  /\ entries' = [entries EXCEPT ![Owner[e]] = Without(@, e)]
  /\ UNCHANGED <<loop, yielded, disposed, unwind, job, errors, caller, order>>

----------------------------------------------------------------------------
(* Running disposers *)

\* Mutant: teardown in the order of registration.
Forward(seq) == seq

\* Both walks, over entries and over disposers, go backwards.
InReverse(seq) == Reverse(seq)

\* Mutant: a synchronous disposer is no barrier.
WholeQueue(queue) == Len(queue)

\* _iter_batches: consecutive coroutine functions together, any other alone.
BatchLength(queue) ==
  CHOOSE n \in 1..Len(queue) :
    /\ Kind[queue[1]] # "async" => n = 1
    /\ Kind[queue[1]] = "async" =>
         /\ \A i \in 1..n : Kind[queue[i]] = "async"
         /\ n < Len(queue) => Kind[queue[n + 1]] # "async"

Ready(r) == loop \in {None, r} /\ job[r].inflight = {}

\* _run_disposers_collecting (and _run_sync_disposers, _finish_mixed): call the
\* next batch.  A plain disposer is done at once and the runner goes on; the
\* others are awaited together.
CallBatch(r) ==
  /\ Ready(r)
  /\ job[r].queue # <<>>
  /\ LET queue == job[r].queue
         n     == BatchLength(queue)
         rest  == SubSeq(queue, n + 1, Len(queue))
         d     == queue[1]
     IN  IF Kind[d] = "plain"
         THEN /\ job' = [job EXCEPT ![r].queue = rest]
              /\ held' = held \ {d}
              /\ \E raised \in {{}, {d}} :
                   errors' = [errors EXCEPT ![r] = @ \cup raised]
              /\ loop' = r
         ELSE /\ job' = [job EXCEPT ![r] =
                   [queue |-> rest, inflight |-> ToSet(SubSeq(queue, 1, n))]]
              /\ loop' = None
              /\ UNCHANGED <<held, errors>>
  /\ UNCHANGED <<entries, ids, setup, yielded, disposers, disposed, unwind, caller, order>>

\* An awaited disposer returns or raises.
DisposerDone(r, d) ==
  /\ loop = None
  /\ d \in job[r].inflight
  /\ job' = [job EXCEPT ![r].inflight = @ \ {d}]
  /\ held' = held \ {d}
  /\ \E raised \in {{}, {d}} : errors' = [errors EXCEPT ![r] = @ \cup raised]
  /\ UNCHANGED <<loop, entries, ids, setup, yielded, disposers, disposed, unwind, caller, order>>

\* Runner r takes the disposers of a record, which then holds none and is
\* disposed before the first of them runs.
Take(r, e) ==
  /\ job' = [job EXCEPT ![r].queue = InReverse(disposers[e])]
  /\ disposed' = [disposed EXCEPT ![e] = TRUE]
  /\ disposers' = [disposers EXCEPT ![e] = <<>>]

\* dispose_record: EffectHandle.__call__.  With a coroutine function among the
\* disposers nothing runs before the returned awaitable is awaited.
CallHandle(e) ==
  /\ loop = None
  /\ e \in Handled
  /\ setup[e] \in {"running", "done"}
  /\ ~disposed[e]
  /\ Take(e, e)
  /\ entries' = [entries EXCEPT ![Owner[e]] = Without(@, e)]
  /\ ids' = [ids EXCEPT ![Owner[e]] = @ \ ToSet(disposers[e])]
  /\ loop' = IF disposers[e] = <<>> \/ \E d \in ToSet(disposers[e]) : Kind[d] = "async"
             THEN None ELSE e
  /\ UNCHANGED <<setup, yielded, unwind, errors, caller, held, order>>

\* The call returns: nothing is left to call and nothing is awaited.
HandleReturns(e) ==
  /\ loop = e
  /\ job[e] = NoJob
  /\ loop' = None
  /\ UNCHANGED <<entries, ids, setup, yielded, disposers, disposed, unwind, job,
                 errors, caller, held, order>>

----------------------------------------------------------------------------
(* Disposing a scope *)

\* Mutant: a scope with nothing in it is not unwound.
StartUnwindIfUsed(s) ==
  unwind' = [unwind EXCEPT ![s].pc =
               IF @ = "open" /\ entries[s] # <<>> THEN "spawned" ELSE @]

\* dispose(): the first caller closes the scope and starts the unwind task,
\* every caller waits for it.
StartUnwind(s) ==
  unwind' = [unwind EXCEPT ![s].pc = IF @ = "open" THEN "spawned" ELSE @]

Dispose(c, s) ==
  /\ loop = None
  /\ caller[c].out = "idle"
  /\ unwind[s].pc # "absent"
  /\ caller' = [caller EXCEPT ![c] =
       [at |-> s, cancelled |-> FALSE, out |-> "waiting"]]
  /\ StartUnwind(s)
  /\ UNCHANGED <<loop, entries, ids, setup, yielded, disposers, disposed, job, errors, held, order>>

\* Mutant: a cancelled caller does not wait for the end of the unwind.
CancelAtOnce(c) ==
  /\ loop = None
  /\ caller[c].out = "waiting"
  /\ caller' = [caller EXCEPT ![c].cancelled = TRUE, ![c].out = "cancelled"]
  /\ UNCHANGED <<loop, entries, ids, setup, yielded, disposers, disposed, unwind,
                 job, errors, held, order>>

\* A cancellation reaches the caller inside `await asyncio.shield(task)`.
Cancel(c) ==
  /\ loop = None
  /\ caller[c].out = "waiting"
  /\ caller' = [caller EXCEPT ![c].cancelled = TRUE,
       ![c].out = IF unwind[caller[c].at].pc = "done" THEN "cancelled" ELSE @]
  /\ UNCHANGED <<loop, entries, ids, setup, yielded, disposers, disposed, unwind,
                 job, errors, held, order>>

\* The shielded task ended: its ExceptionGroup leaves the loop first, then a
\* cancellation seen on the way is raised.
DisposeReturns(c) ==
  /\ loop = None
  /\ caller[c].out = "waiting"
  /\ unwind[caller[c].at].pc = "done"
  /\ caller' = [caller EXCEPT ![c].out =
       IF errors[caller[c].at] # {} THEN "raised"
       ELSE IF caller[c].cancelled THEN "cancelled" ELSE "returned"]
  /\ UNCHANGED <<loop, entries, ids, setup, yielded, disposers, disposed, unwind,
                 job, errors, held, order>>

\* _unwind takes the entries when its task starts.
BeginUnwind(s) ==
  /\ loop = None
  /\ unwind[s].pc = "spawned"
  /\ unwind' = [unwind EXCEPT ![s] = [pc |-> "walk", todo |-> InReverse(entries[s])]]
  /\ entries' = [entries EXCEPT ![s] = <<>>]
  /\ loop' = s
  /\ UNCHANGED <<ids, setup, yielded, disposers, disposed, job, errors, caller, held, order>>

\* Mutant: the walk does not wait for the disposers it called.
AtEntryTooSoon(s) ==
  /\ unwind[s].pc = "walk"
  /\ loop \in {None, s}

\* The walk may look at its next entry.
AtEntry(s) ==
  /\ unwind[s].pc = "walk"
  /\ job[s] = NoJob
  /\ loop \in {None, s}

\* An effect: skipped if its handle was called meanwhile.
UnwindEffect(s) ==
  /\ AtEntry(s)
  /\ unwind[s].todo # <<>>
  /\ LET e == Head(unwind[s].todo)
     IN  /\ e \in Effects
         /\ IF disposed[e]
            THEN UNCHANGED <<disposed, job, disposers>>
            ELSE Take(s, e)
  /\ unwind' = [unwind EXCEPT ![s].todo = Tail(@)]
  /\ loop' = s
  /\ UNCHANGED <<entries, ids, setup, yielded, errors, caller, held, order>>

\* A child scope: the walk calls its dispose() like any other caller.
UnwindChild(s) ==
  /\ AtEntry(s)
  /\ unwind[s].todo # <<>>
  /\ LET c == Head(unwind[s].todo)
     IN  /\ c \in Scopes
         /\ unwind' = [unwind EXCEPT ![s].pc = "child",
                                     ![c].pc = IF @ = "open" THEN "spawned" ELSE @]
         /\ loop' = IF unwind[c].pc = "done" THEN s ELSE None
  /\ UNCHANGED <<entries, ids, setup, yielded, disposers, disposed, job, errors, caller, held, order>>

\* Mutant: what the child's disposers raised is dropped.
ChildFailureDropped(s) ==
  /\ unwind[s].pc = "child"
  /\ loop \in {None, s}
  /\ unwind[Head(unwind[s].todo)].pc = "done"
  /\ unwind' = [unwind EXCEPT ![s] = [pc |-> "walk", todo |-> Tail(@.todo)]]
  /\ loop' = s
  /\ UNCHANGED <<entries, ids, setup, yielded, disposers, disposed, job, errors, caller, held, order>>

\* _dispose_child: the walk goes on with the child's errors.
ChildUnwound(s) ==
  /\ unwind[s].pc = "child"
  /\ loop \in {None, s}
  /\ LET c == Head(unwind[s].todo)
     IN  /\ unwind[c].pc = "done"
         /\ errors' = [errors EXCEPT ![s] = @ \cup errors[c]]
  /\ unwind' = [unwind EXCEPT ![s] = [pc |-> "walk", todo |-> Tail(@.todo)]]
  /\ loop' = s
  /\ UNCHANGED <<entries, ids, setup, yielded, disposers, disposed, job, caller, held, order>>

EndUnwind(s) ==
  /\ AtEntry(s)
  /\ unwind[s].todo = <<>>
  /\ unwind' = [unwind EXCEPT ![s].pc = "done"]
  /\ ids' = [ids EXCEPT ![s] = {}]
  /\ loop' = None
  /\ UNCHANGED <<entries, setup, yielded, disposers, disposed, job, errors, caller, held, order>>

----------------------------------------------------------------------------

Unwinding(s) ==
  BeginUnwind(s) \/ UnwindEffect(s) \/ UnwindChild(s) \/ ChildUnwound(s) \/ EndUnwind(s)

Running(r) == CallBatch(r) \/ \E d \in Disposers : DisposerDone(r, d)

Registering(e) ==
  RegisterSync(e) \/ RegisterRaises(e) \/ RegisterAsync(e)

Setting(e) == SetupYields(e) \/ SetupDone(e) \/ SetupRaises(e)

Next ==
  \/ \E s \in Scopes : Child(s) \/ Unwinding(s)
  \/ \E e \in Effects : Registering(e) \/ Setting(e) \/ CallHandle(e) \/ HandleReturns(e)
  \/ \E r \in Runners : Running(r)
  \/ \E c \in Callers : Cancel(c) \/ DisposeReturns(c) \/ \E s \in Scopes : Dispose(c, s)

Spec == Init /\ [][Next]_vars

(***************************************************************************)
(* The event loop runs every ready task, and a disposer that is awaited    *)
(* ends.  Nothing obliges a setup to end or a caller to cancel.            *)
(***************************************************************************)
Fairness ==
  /\ \A s \in Scopes : WF_vars(Unwinding(s))
  /\ \A r \in Runners : WF_vars(Running(r))
  /\ \A e \in Effects : WF_vars(HandleReturns(e))
  /\ \A c \in Callers : WF_vars(DisposeReturns(c))

FairSpec == Spec /\ Fairness

----------------------------------------------------------------------------
(* Properties *)

TypeOK ==
  /\ loop \in Runners \cup {None}
  /\ entries \in [Scopes -> Seq(Effects \cup Scopes)]
  /\ ids \in [Scopes -> SUBSET Disposers]
  /\ setup \in [Effects -> {"none", "running", "done", "failed"}]
  /\ yielded \in [Effects -> Nat]
  /\ disposers \in [Effects -> Seq(Disposers)]
  /\ disposed \in [Effects -> BOOLEAN]
  /\ unwind \in [Scopes -> [pc : {"absent", "open", "spawned", "walk", "child", "done"},
                            todo : Seq(Effects \cup Scopes)]]
  /\ job \in [Runners -> [queue : Seq(Disposers), inflight : SUBSET Disposers]]
  /\ errors \in [Runners -> SUBSET Disposers]
  /\ caller \in [Callers -> [at : Scopes \cup {None}, cancelled : BOOLEAN,
                             out : {"idle", "waiting", "returned", "raised", "cancelled"}]]
  /\ held \in SUBSET Disposers
  /\ order \in Seq(Effects \cup Scopes)

\* The disposers a runner has taken and not finished with.
InJob(r) == ToSet(job[r].queue) \cup job[r].inflight

\* Where a disposer waits to be run for scope s: in a record not yet disposed,
\* in the unwind of s, or in the call of a handle.
Places(s, d) ==
  {e \in Effects : Owner[e] = s /\ ~disposed[e] /\ d \in ToSet(disposers[e])}
    \cup {r \in {s} \cup {e \in Effects : Owner[e] = s} : d \in InJob(r)}

\* A disposer runs at most once for each time it was recorded (SEM-003): in a
\* scope it waits in one place only, handle calls and unwind racing for it, and
\* what waits has not been released already.
OwedOnce ==
  \A s \in Scopes, d \in Disposers :
    /\ Cardinality(Places(s, d)) <= 1
    /\ Places(s, d) # {} => d \in held

Before(x, y) ==
  \E i, j \in DOMAIN order : i < j /\ order[i] = x /\ order[j] = y

\* What a later entry of the scope still has to give back when the unwind gets
\* to an earlier one.
StillOwed(x) ==
  IF x \in Scopes THEN unwind[x].pc # "done"
  ELSE ~disposed[x] /\ disposers[x] # <<>>

\* The disposers a step of runner r calls.
Called(r) ==
  LET n == Len(job[r].queue) - Len(job'[r].queue)
  IN  {job[r].queue[i] : i \in 1..n}

\* Disposer d of effect e may start only after the later disposers of e, unless
\* nothing but coroutine functions lies between them (SEM-006).
LaterDone(s, e, d) ==
  \A i, j \in 1..Len(Yields[e]) :
    /\ i < j
    /\ Yields[e][i] = d
    /\ \E k \in i..j : Yields[e][k] # None /\ Kind[Yields[e][k]] # "async"
    => Yields[e][j] \notin InJob(s)

\* SEM-002, SEM-006: the unwind of a scope calls a disposer only when every
\* effect and child scope registered after its effect has been unwound, and
\* every disposer behind a synchronous one has finished.
UnwindOrder ==
  [][\A s \in Scopes, e \in Effects :
       Owner[e] = s => \A d \in Called(s) \cap ToSet(Yields[e]) :
         /\ LaterDone(s, e, d)
         /\ \A x \in {y \in Effects : Owner[y] = s} \cup {c \in Scopes : ParentOf[c] = s} :
              Before(e, x) => ~StillOwed(x)]_vars

\* The resources of scope s that no failed setup had a hand in.
Sound(s) ==
  (UNION {ToSet(Yields[e]) : e \in {x \in Effects : Owner[x] = s}})
    \ (UNION {ToSet(Yields[e]) : e \in {x \in Effects : setup[x] = "failed"}})

\* SEM-005: however many disposers raise, an unwind that is done left nothing
\* behind except what a handle is still releasing, what a rollback could not
\* await, and what a setup recorded after its record had been disposed.
NothingStranded ==
  \A s \in Scopes :
    unwind[s].pc = "done" =>
      \A d \in held \cap Sound(s) : \E e \in Effects :
        /\ Owner[e] = s
        /\ d \in InJob(e) \/ (disposed[e] /\ d \in ToSet(disposers[e]))

\* A parent that is done has unwound every scope nested in it, so nothing can
\* be registered below it any more.
DoneReachesDescendants ==
  \A c \in Scopes :
    ParentOf[c] # None /\ unwind[ParentOf[c]].pc = "done" => unwind[c].pc \in {"absent", "done"}

\* No caller of dispose() returns, raises or is cancelled while the teardown is
\* in flight, cancellations notwithstanding.
NoEarlyReturn ==
  \A c \in Callers :
    caller[c].out \notin {"idle", "waiting"} => unwind[caller[c].at].pc = "done"

\* A dispose() that returns normally had no failing disposer in its scope nor in
\* a scope below it.
NoSilentFailure ==
  \A c \in Callers, s \in Scopes :
    caller[c].out = "returned" /\ (s = caller[c].at \/ ParentOf[s] = caller[c].at)
      => errors[s] = {}

\* SEM-004: a setup that raises takes back its own registration only: no other
\* record, no other resource, and nothing of it stays in the scope.
RollbackIsLocal ==
  [][\A e \in Effects :
       setup[e] # "failed" /\ setup'[e] = "failed" =>
         /\ \A x \in Effects \ {e} : disposers'[x] = disposers[x]
         /\ disposers'[e] = <<>>
         /\ entries' = [s \in Scopes |-> Without(entries[s], e)]
         /\ \A d \in held \ held' : d \in ToSet(disposers[e])]_vars

\* Every dispose() is answered, whatever races it.
DisposeAnswered ==
  \A c \in Callers : caller[c].out = "waiting" ~> caller[c].out # "waiting"

(***************************************************************************)
(* Claims of the documentation that the code does not keep.                *)
(***************************************************************************)

\* PROP-EFFECT-001: after disposing a scope, the number of live resources
\* acquired through it is zero (effects that raise excluded).
NoLiveResource ==
  \A s \in Scopes : unwind[s].pc = "done" => held \cap Sound(s) = {}
=============================================================================
