------------------------------- MODULE Fiber -------------------------------
(***************************************************************************)
(* src/cordis/fiber.py and the mounting half of src/cordis/plugin.py: the  *)
(* tree of mounted instances, each a state machine of six states, and the  *)
(* tasks that move it: the task an evaluation starts, the evaluations a    *)
(* binding change schedules, the one disposal, and the callers of          *)
(* restart(), update(), dispose() and of `await fiber`.                    *)
(*                                                                         *)
(* A task runs alone until it awaits.  What it still has to do before the  *)
(* next await is on `stack`; nothing else steps while the stack holds      *)
(* anything.  Any ready task may run next: the model does not follow the   *)
(* event loop's queue.                                                     *)
(*                                                                         *)
(* A plugin's body is a script: it binds names, mounts plugins and awaits, *)
(* and what it registered is given back when the scope of its load is      *)
(* disposed (EffectScope models how).  One realm is modelled: a name has   *)
(* one binding.                                                            *)
(***************************************************************************)
EXTENDS Naturals, Sequences, SequencesExt, FiniteSets

CONSTANTS
  MaxFibers,   \* bound: instances mounted below the root
  Plugins,     \* what can be mounted
  Names,       \* service names
  Ops,         \* calls of restart(), update(), dispose() and `await fiber`
  None,
  TopLevel,    \* plugins the application mounts under the root, once each
  LateMounts,  \* <<p, q>>: somebody holding a context of p mounts q there, once
  Requires,    \* plugin -> the names it needs
  Body,        \* plugin -> its script
  MayFail,     \* plugins whose body may raise anywhere
  Kinds,       \* the operations callers perform
  Configs,     \* config values
  Invalid,     \* those that do not validate
  FirstConfig, \* the config of every mount
  MayRaise,    \* whether a disposer may raise
  MayCancel,   \* whether a caller may be cancelled
  Bootstrap    \* whether the application starts before the event loop

Root == 0
FiberIds == 0..MaxFibers

Step(do, what) == [do |-> do, what |-> what]

ASSUME FiberAssumption ==
  /\ MaxFibers \in Nat
  /\ TopLevel \cup MayFail \subseteq Plugins
  /\ LateMounts \subseteq Plugins \X Plugins
  /\ None \notin Plugins
  /\ Requires \in [Plugins -> SUBSET Names]
  /\ \A q \in Plugins : Body[q] \in
       Seq({Step("provide", n) : n \in Names} \cup {Step("mount", p) : p \in Plugins}
             \cup {Step("await", None), Step("raise", None)})
  /\ Invalid \subseteq Configs
  /\ FirstConfig \in Configs
  /\ {MayRaise, MayCancel, Bootstrap} \subseteq BOOLEAN

Task(f)     == <<"task", f>>      \* Fiber._task
Disposal(f) == <<"disposal", f>>  \* Fiber._disposal
Caller(o)   == <<"op", o>>        \* the caller of an operation
Procs == {Task(f) : f \in FiberIds} \cup {Disposal(f) : f \in FiberIds}
           \cup {Caller(o) : o \in Ops}

ASSUME ProcessAssumption ==
  /\ None \notin Procs
  /\ Kinds \subseteq {"await", "restart", "update", "dispose"}

States  == {"PENDING", "LOADING", "ACTIVE", "FAILED", "UNLOADING", "DISPOSED"}
Settled == {"PENDING", "ACTIVE", "FAILED", "DISPOSED"}
Live    == {"PENDING", "LOADING", "ACTIVE"}

VARIABLES
  looping,     \* whether the event loop runs
  stack,       \* what the running task does before its next await, top first
  plugin,      \* instance -> what it was mounted from, None before its mount
  parent,      \* instance -> the instance that mounted it
  children,    \* instance -> _children
  state,       \* instance -> _state
  error,       \* instance -> whether _error is set
  epoch,       \* instance -> _epoch, the implementations its body was given
  config,      \* instance -> _config
  held,        \* instance -> whether _held keeps a validation error
  loads,       \* instance -> how many times it has been loaded
  script,      \* instance -> what is left of its body
  scope,       \* instance -> the scope of its current load
  work,        \* instance -> what _task is for
  evaluation,  \* instance -> an _evaluate_soon is spawned and has not started
  evals,       \* instance -> how many _evaluate_soon wait in _quiet
  watch,       \* instance -> whether it observes the registry
  dirty,       \* instance -> _dirty
  gate,        \* instance -> who holds _gate
  pc,          \* process -> where it is
  kids,        \* process -> the children its unwind has still to dispose
  op,          \* operation -> its kind, its instance and its config
  bound        \* name -> the binding: by which load of which instance

treeVars  == <<plugin, parent, children>>
lifeVars  == <<state, error, epoch, config, held, loads, script, scope>>
waitVars  == <<evaluation, evals, watch, dirty>>
procVars  == <<gate, pc, kids, op, work>>
vars == <<looping, stack, treeVars, lifeVars, waitVars, procVars, bound>>

Init ==
  /\ looping = ~Bootstrap
  /\ stack = <<>>
  /\ plugin = [f \in FiberIds |-> None]
  /\ parent = [f \in FiberIds |-> Root]
  /\ children = [f \in FiberIds |-> <<>>]
  /\ state = [f \in FiberIds |-> IF f = Root THEN "ACTIVE" ELSE "PENDING"]
  /\ error = [f \in FiberIds |-> FALSE]
  /\ epoch = [f \in FiberIds |-> <<>>]
  /\ config = [f \in FiberIds |-> FirstConfig]
  /\ held = [f \in FiberIds |-> f # Root /\ FirstConfig \in Invalid]
  /\ loads = [f \in FiberIds |-> 0]
  /\ script = [f \in FiberIds |-> <<>>]
  /\ scope = [f \in FiberIds |-> IF f = Root THEN "open" ELSE "none"]
  /\ work = [f \in FiberIds |-> "none"]
  /\ evaluation = [f \in FiberIds |-> FALSE]
  /\ evals = [f \in FiberIds |-> 0]
  /\ watch = [f \in FiberIds |-> FALSE]
  /\ dirty = [f \in FiberIds |-> FALSE]
  /\ gate = [f \in FiberIds |-> None]
  /\ pc = [p \in Procs |-> "idle"]
  /\ kids = [p \in Procs |-> <<>>]
  /\ op = [o \in Ops |-> [kind |-> "none", fiber |-> Root, config |-> FirstConfig]]
  /\ bound = [n \in Names |-> None]

----------------------------------------------------------------------------
(* What the handlers read *)

\* list.remove: an instance is among its parent's children once.
Without(seq, x) ==
  IF x \in ToSet(seq) THEN RemoveAt(seq, CHOOSE i \in DOMAIN seq : seq[i] = x) ELSE seq

Mounted(f) == f = Root \/ plugin[f] # None

\* The instance a process works on.
Of(p) == IF p[1] = "op" THEN op[p[2]].fiber ELSE p[2]

\* Fiber._requires, Fiber.missing, Fiber._sample.  The root is no plugin.
Needs(f)   == IF plugin[f] = None THEN {} ELSE Requires[plugin[f]]
Missing(f) == {n \in Needs(f) : bound[n] = None}
Sample(f)  == [n \in Needs(f) |-> bound[n]]

\* Code can be mounted, or a scope opened, below f: its nursery is the first
\* entry of its scope, so it is the last thing the scope closes.
Nursery(f) == scope[f] \in {"open", "closing"}
CanOpen(f) == f = Root \/ Nursery(parent[f])

\* The running task has come to an await.  There is none between the last child
\* of an unwind and the scope, and none where a free gate is taken, _quiet has
\* nothing to wait for or the scope has been disposed before.
Closes(p) == pc[p] = "unwind" /\ kids[p] = <<>>
AtAwait   == stack = <<>> /\ \A p \in Procs : ~Closes(p) /\ pc[p] \notin {"enter", "through", "emptied"}

\* Mutant: a task that has not finished does not count.
RestsIfSettled(f) == state[f] \in Settled

\* No task of the instance is in flight and its state is one that lasts.
Rests(f) ==
  /\ pc[Task(f)] \in {"idle", "raised"}
  /\ state[f] \in Settled

\* Every condition _quiet waits for.
Quiet(f) == ~dirty[f] /\ ~evaluation[f] /\ Rests(f)

\* Somebody is in _quiet of the instance.
Waited(f) ==
  \/ evals[f] > 0
  \/ \E p \in Procs : Of(p) = f /\ pc[p] \in {"quiet", "settle"}

\* Fiber._schedule: spawned, or held until there is a loop.
Scheduled == IF looping THEN "spawned" ELSE "held"

Push(do, f) == stack' = <<[do |-> do, fiber |-> f]>> \o Tail(stack)
Return      == stack' = Tail(stack)
Call(do, f) == stack' = <<[do |-> do, fiber |-> f]>> \o stack

\* Mutant: a change that arrives while the instance loads or unloads is missed.
HearsSettled(f, names) ==
  /\ watch[f]
  /\ Needs(f) \cap names # {}
  /\ state[f] \in Settled \ {"DISPOSED"}
  /\ ~evaluation[f]

\* _on_binding_change of every instance that hears that the bindings of `names`
\* changed: one evaluation is spawned at a time, and without a loop the change
\* is remembered instead.
Hears(f, names) ==
  /\ watch[f]
  /\ Needs(f) \cap names # {}
  /\ state[f] # "DISPOSED"
  /\ ~evaluation[f]

Announce(names) ==
  /\ evaluation' = [f \in FiberIds |-> evaluation[f] \/ (looping /\ Hears(f, names))]
  /\ dirty' = [f \in FiberIds |-> dirty[f] \/ (~looping /\ Hears(f, names))]

----------------------------------------------------------------------------
(* Mounting *)

Fresh == {g \in FiberIds \ {Root} : ~Mounted(g) /\ \A h \in 1..(g - 1) : Mounted(h)}

\* PluginHandle.plugin, once _require_live let it through: a child is built,
\* enrolled and armed, which takes a first look at its dependencies at once.
Mount(f, q, rest) ==
  \E g \in Fresh :
    /\ plugin' = [plugin EXCEPT ![g] = q]
    /\ parent' = [parent EXCEPT ![g] = f]
    /\ children' = [children EXCEPT ![f] = Append(@, g)]
    /\ scope' = [scope EXCEPT ![g] = "open"]
    /\ watch' = [watch EXCEPT ![g] = Requires[q] # {}]
    /\ stack' = <<[do |-> "evaluate", fiber |-> g]>> \o rest

\* The application mounts a top-level plugin, before or inside the loop.
HostMount(q) ==
  /\ state[Root] \in Live /\ Nursery(Root)
  /\ \A g \in FiberIds : parent[g] = Root => plugin[g] # q
  /\ Mount(Root, q, <<>>)
  /\ UNCHANGED <<looping, state, error, epoch, config, held, loads, script,
                 evaluation, evals, dirty, procVars, bound>>

\* Code that holds the context of instance f mounts under it.
LateMount(f, q) ==
  /\ <<plugin[f], q>> \in LateMounts
  /\ state[f] \in Live /\ Nursery(f)
  /\ \A g \in FiberIds : parent[g] = f => plugin[g] # q
  /\ Mount(f, q, <<>>)
  /\ UNCHANGED <<looping, state, error, epoch, config, held, loads, script,
                 evaluation, evals, dirty, procVars, bound>>

\* The loop starts.
StartLoop ==
  /\ ~looping
  /\ stack = <<>>
  /\ looping' = TRUE
  /\ UNCHANGED <<stack, treeVars, lifeVars, waitVars, procVars, bound>>

----------------------------------------------------------------------------
(* Evaluating: Fiber._evaluate *)

Top(do) == stack # <<>> /\ Head(stack).do = do
This == Head(stack).fiber

\* PENDING with everything bound: _load, up to the call of the body.  A config
\* that did not validate makes the body raise before it runs.
LoadsNow(f) ==
  state[f] = "PENDING" /\ Missing(f) = {} /\ (scope[f] = "open" \/ CanOpen(f))

EvaluateLoads ==
  /\ Top("evaluate")
  /\ LET f == This
     IN  /\ LoadsNow(f)
         /\ scope' = [scope EXCEPT ![f] = "open"]
         /\ error' = [error EXCEPT ![f] = FALSE]
         /\ epoch' = [epoch EXCEPT ![f] = Sample(f)]
         /\ state' = [state EXCEPT ![f] = "LOADING"]
         /\ loads' = [loads EXCEPT ![f] = @ + 1]
         /\ script' = [script EXCEPT ![f] =
              IF held[f] THEN <<Step("raise", None)>>
              ELSE IF f = Root THEN <<>> ELSE Body[plugin[f]]]
         /\ Push("body", f)
  /\ UNCHANGED <<looping, treeVars, config, held, waitVars, procVars, bound>>

\* Mutant: a dependency that was replaced is not noticed.
UnloadsIfMissing(f) == state[f] = "ACTIVE" /\ Missing(f) # {}

\* ACTIVE without a dependency, or with another implementation behind one.
UnloadsNow(f) ==
  state[f] = "ACTIVE" /\ (Missing(f) # {} \/ epoch[f] # Sample(f))

EvaluateUnloads ==
  /\ Top("evaluate")
  /\ LET f == This
     IN  /\ UnloadsNow(f)
         /\ work' = [work EXCEPT ![f] = IF Missing(f) # {} THEN "unload" ELSE "reload"]
         /\ pc' = [pc EXCEPT ![Task(f)] = Scheduled]
  /\ Return
  /\ UNCHANGED <<looping, treeVars, lifeVars, waitVars, gate, kids, op, bound>>

\* Nothing to do.  (A load whose environment cannot be opened under a disposed
\* parent raises InactiveScopeError and leaves the state alone, too.)
EvaluateNothing ==
  /\ Top("evaluate")
  /\ ~LoadsNow(This)
  /\ ~UnloadsNow(This)
  /\ Return
  /\ UNCHANGED <<looping, treeVars, lifeVars, waitVars, procVars, bound>>

----------------------------------------------------------------------------
(* Running a body: PluginHandle._run_body, Fiber._load, Fiber._finish *)

\* The body runs inside _finish, after its first await.
InFinish(f) == pc[Task(f)] = "running"

NextStep(f) == Head(script[f])

BodyAt(do) ==
  /\ Top("body")
  /\ script[This] # <<>>
  /\ NextStep(This).do = do

Advance(f) == script' = [script EXCEPT ![f] = Tail(@)]

\* registry.provide of a free name: bound, and announced at once.
BodyProvides ==
  /\ BodyAt("provide")
  /\ LET f == This
         n == NextStep(f).what
     IN  /\ bound[n] = None /\ scope[f] = "open"
         /\ bound' = [bound EXCEPT ![n] = <<f, loads[f]>>]
         /\ Announce({n})
         /\ Advance(f)
  /\ UNCHANGED <<looping, stack, treeVars, state, error, epoch, config, held, loads,
                 scope, evals, watch, procVars>>

\* ctx.plugin from the body.
BodyMounts ==
  /\ BodyAt("mount")
  /\ state[This] \in Live /\ Nursery(This)
  /\ Mount(This, NextStep(This).what, stack)
  /\ Advance(This)
  /\ UNCHANGED <<looping, state, error, epoch, config, held, loads,
                 evaluation, evals, dirty, procVars, bound>>

\* The body awaits: the first time its awaitable is handed to a _finish task.
BodyAwaits ==
  /\ BodyAt("await")
  /\ LET f == This
     IN  /\ IF InFinish(f)
            THEN /\ pc' = [pc EXCEPT ![Task(f)] = "body"]
                 /\ UNCHANGED work
            ELSE /\ pc' = [pc EXCEPT ![Task(f)] = Scheduled]
                 /\ work' = [work EXCEPT ![f] = "finish"]
         /\ Advance(f)
  /\ Return
  /\ UNCHANGED <<looping, treeVars, state, error, epoch, config, held, loads, scope,
                 waitVars, gate, kids, op, bound>>

\* What the body awaited is there.
BodyResumes(f) ==
  /\ pc[Task(f)] = "body"
  /\ pc' = [pc EXCEPT ![Task(f)] = "running"]
  /\ Call("body", f)
  /\ UNCHANGED <<looping, treeVars, lifeVars, waitVars, gate, kids, op, work, bound>>

BodyReturns ==
  /\ Top("body")
  /\ script[This] = <<>>
  /\ state' = [state EXCEPT ![This] = "ACTIVE"]
  /\ pc' = [pc EXCEPT ![Task(This)] = IF InFinish(This) THEN "idle" ELSE @]
  /\ Return
  /\ UNCHANGED <<looping, treeVars, error, epoch, config, held, loads, script, scope,
                 waitVars, gate, kids, op, work, bound>>

\* The body may raise here, or does: its config is invalid, the name it binds
\* is taken, or its scope is closed.
BodyFails(f) ==
  \/ plugin[f] \in MayFail
  \/ BodyAt("raise")
  \/ BodyAt("provide") /\ (bound[NextStep(f).what] # None \/ scope[f] # "open")
  \/ BodyAt("mount") /\ ~(state[f] \in Live /\ Nursery(f))

\* Fiber._fail: FAILED at once, and the release of what the body took follows
\* in a task.  In _finish the order is the other one: the release comes first,
\* with the instance still LOADING.
BodyRaises ==
  /\ Top("body")
  /\ BodyFails(This)
  /\ LET f == This
     IN  /\ error' = [error EXCEPT ![f] = TRUE]
         /\ script' = [script EXCEPT ![f] = <<>>]
         /\ IF InFinish(f)
            THEN /\ pc' = [pc EXCEPT ![Task(f)] = "unwind"]
                 /\ kids' = [kids EXCEPT ![Task(f)] = Reverse(children[f])]
                 /\ UNCHANGED <<state, work>>
            ELSE /\ state' = [state EXCEPT ![f] = "FAILED"]
                 /\ work' = [work EXCEPT ![f] = "release"]
                 /\ pc' = [pc EXCEPT ![Task(f)] = Scheduled]
                 /\ UNCHANGED kids
  /\ Return
  /\ UNCHANGED <<looping, treeVars, epoch, config, held, loads, scope, waitVars,
                 gate, op, bound>>

----------------------------------------------------------------------------
(* Unloading: Fiber._unload_to and Fiber._unwind, run by process p *)

\* A process that raises lets go of the gate.  An exception of _task reaches
\* whoever waits for it in _quiet.
Hit(p) ==
  {p} \cup IF p = Task(Of(p))
           THEN {x \in Procs : Of(x) = Of(p) /\ pc[x] \in {"quiet", "settle"}}
           ELSE {}

Raise(p) ==
  /\ pc' = [x \in Procs |-> IF x \in Hit(p) THEN "raised" ELSE pc[x]]
  /\ gate' = [gate EXCEPT ![Of(p)] = IF @ \in Hit(p) THEN None ELSE @]
  /\ evals' = [evals EXCEPT ![Of(p)] = IF p = Task(Of(p)) THEN 0 ELSE @]

BeginUnload(p) ==
  LET f == Of(p)
  IN  /\ state' = [state EXCEPT ![f] = "UNLOADING"]
      /\ epoch' = [epoch EXCEPT ![f] = <<>>]
      /\ kids' = [kids EXCEPT ![p] = Reverse(children[f])]
      /\ pc' = [pc EXCEPT ![p] = "unwind"]

\* _task gets its first turn.
StartTask(f) ==
  /\ pc[Task(f)] = "spawned"
  /\ CASE work[f] \in {"unload", "reload"} ->
            BeginUnload(Task(f)) /\ UNCHANGED stack
       [] work[f] = "release" ->
            /\ kids' = [kids EXCEPT ![Task(f)] = Reverse(children[f])]
            /\ pc' = [pc EXCEPT ![Task(f)] = "unwind"]
            /\ UNCHANGED <<stack, state, epoch>>
       [] work[f] = "finish" ->
            /\ pc' = [pc EXCEPT ![Task(f)] = "running"]
            /\ Call("body", f)
            /\ UNCHANGED <<kids, state, epoch>>
  /\ UNCHANGED <<looping, treeVars, error, config, held, loads, script, scope,
                 waitVars, gate, op, work, bound>>

\* The unwind reaches its next child, whose disposal it starts unless somebody
\* has.
DisposeChild(p) ==
  /\ pc[p] = "unwind" /\ kids[p] # <<>>
  /\ LET c == Head(kids[p])
     IN  /\ state[c] # "DISPOSED"
         /\ pc[Disposal(c)] = "idle"
         /\ pc' = [pc EXCEPT ![Disposal(c)] = "spawned"]
  /\ UNCHANGED <<looping, stack, treeVars, lifeVars, waitVars, gate, kids, op, work, bound>>

\* Mutant: the unwind does not wait for the disposal it started.
ChildLeft(p) ==
  /\ pc[p] = "unwind" /\ kids[p] # <<>>
  /\ pc[Disposal(Head(kids[p]))] # "idle"
  /\ kids' = [kids EXCEPT ![p] = Tail(@)]
  /\ UNCHANGED <<looping, stack, treeVars, lifeVars, waitVars, gate, pc, op, work, bound>>

ChildDisposed(p) ==
  /\ pc[p] = "unwind" /\ kids[p] # <<>>
  /\ state[Head(kids[p])] = "DISPOSED"
  /\ kids' = [kids EXCEPT ![p] = Tail(@)]
  /\ UNCHANGED <<looping, stack, treeVars, lifeVars, waitVars, gate, pc, op, work, bound>>

\* Mutant: the unwind goes on without a child whose disposal raised.
ChildSkipped(p) ==
  /\ pc[p] = "unwind" /\ kids[p] # <<>>
  /\ pc[Disposal(Head(kids[p]))] = "raised"
  /\ kids' = [kids EXCEPT ![p] = Tail(@)]
  /\ UNCHANGED <<looping, stack, treeVars, lifeVars, waitVars, gate, pc, op, work, bound>>

\* A child's disposal raised, and _unwind has no handler for it.
ChildRaised(p) ==
  /\ pc[p] = "unwind" /\ kids[p] # <<>>
  /\ pc[Disposal(Head(kids[p]))] = "raised"
  /\ Raise(p)
  /\ UNCHANGED <<looping, stack, treeVars, lifeVars, evaluation, watch, dirty,
                 kids, op, work, bound>>

\* Mutant: restart() keeps the scope, to use it again.
CloseUnlessRestart(p) ==
  /\ Closes(p)
  /\ LET f == Of(p)
     IN  /\ children' = [children EXCEPT ![f] = <<>>]
         /\ IF scope[f] = "open" /\ p # Caller(p[2])
            THEN scope' = [scope EXCEPT ![f] = "closing"] /\ pc' = [pc EXCEPT ![p] = "scope"]
            ELSE pc' = [pc EXCEPT ![p] = "emptied"] /\ UNCHANGED scope
  /\ UNCHANGED <<looping, stack, plugin, parent, state, error, epoch, config, held,
                 loads, script, waitVars, gate, kids, op, work, bound>>

\* The children are gone: the scope of the load is closed.  One that has been
\* disposed already returns at once, or raises again what it raised.
CloseScope(p) ==
  /\ Closes(p)
  /\ LET f == Of(p)
     IN  /\ children' = [children EXCEPT ![f] = <<>>]
         /\ CASE scope[f] = "open" ->
                   /\ scope' = [scope EXCEPT ![f] = "closing"]
                   /\ pc' = [pc EXCEPT ![p] = "scope"]
                   /\ UNCHANGED <<gate, evals>>
              [] scope[f] = "closed" ->
                   /\ pc' = [pc EXCEPT ![p] = "emptied"]
                   /\ UNCHANGED <<scope, gate, evals>>
              [] scope[f] = "broken" -> Raise(p) /\ UNCHANGED scope
  /\ UNCHANGED <<looping, stack, plugin, parent, state, error, epoch, config, held,
                 loads, script, evaluation, watch, dirty, kids, op, work, bound>>

\* The instances below f, by who mounted them.
Below(f) ==
  LET under[g \in FiberIds] ==
        g # Root /\ Mounted(g) /\ (parent[g] = f \/ under[parent[g]])
  IN  {g \in FiberIds : under[g]}

\* EffectScope.dispose of the load: every binding in the scope, and in the
\* scopes nested in it, is withdrawn.  When a disposer raised the rest still
\* ran, and the process gets the ExceptionGroup.
ReleaseScope(p) ==
  /\ pc[p] = "scope"
  /\ LET f      == Of(p)
         nested == {g \in Below(f) : scope[g] = "open"}
         names  == {n \in Names : bound[n] # None /\ bound[n][1] \in {f} \cup nested}
     IN  /\ \A g \in Below(f) : scope[g] # "closing"
         /\ bound' = [n \in Names |-> IF n \in names THEN None ELSE bound[n]]
         /\ Announce(names)
         /\ \E raises \in {FALSE, MayRaise} :
              /\ scope' = [g \in FiberIds |->
                   IF g = f /\ raises THEN "broken"
                   ELSE IF g \in {f} \cup nested THEN "closed" ELSE scope[g]]
              /\ IF raises THEN Raise(p)
                 ELSE /\ pc' = [pc EXCEPT ![p] = "released"]
                      /\ UNCHANGED <<gate, evals>>
  /\ UNCHANGED <<looping, stack, treeVars, state, error, epoch, config, held, loads,
                 script, watch, kids, op, work>>

\* PENDING again, in a fresh environment: _open_environment makes a new scope
\* inside the parent's nursery, or raises when that is closed.
LandPending(f) ==
  /\ state' = [state EXCEPT ![f] = "PENDING"]
  /\ scope' = [scope EXCEPT ![f] = IF CanOpen(f) THEN "open" ELSE @]

\* The end of the unload or release _task was for.  _reload evaluates again.
TaskLands(f) ==
  /\ pc[Task(f)] \in {"released", "emptied"}
  /\ CASE work[f] \in {"unload", "reload"} -> LandPending(f)
       [] work[f] = "finish" ->
            state' = [state EXCEPT ![f] = "FAILED"] /\ UNCHANGED scope
       [] work[f] = "release" -> UNCHANGED <<state, scope>>
  /\ IF work[f] \in {"unload", "reload"} /\ ~CanOpen(f)
     THEN Raise(Task(f)) /\ UNCHANGED stack
     ELSE /\ pc' = [pc EXCEPT ![Task(f)] = "idle"]
          /\ IF work[f] = "reload" THEN Call("evaluate", f) ELSE UNCHANGED stack
          /\ UNCHANGED <<gate, evals>>
  /\ UNCHANGED <<looping, treeVars, error, epoch, config, held, loads, script,
                 evaluation, watch, dirty, kids, op, work, bound>>

----------------------------------------------------------------------------
(* Waiting: Fiber._quiet and Fiber._evaluate_soon *)

\* The spawned evaluation starts: it evaluates at once if nothing is in flight,
\* or waits in _quiet.
EvaluationStarts(f) ==
  /\ evaluation[f]
  /\ evaluation' = [evaluation EXCEPT ![f] = FALSE]
  /\ IF ~dirty[f] /\ Rests(f)
     THEN Call("evaluate", f) /\ UNCHANGED evals
     ELSE evals' = [evals EXCEPT ![f] = @ + 1] /\ UNCHANGED stack
  /\ UNCHANGED <<looping, treeVars, lifeVars, watch, dirty, procVars, bound>>

EvaluationProceeds(f) ==
  /\ evals[f] > 0
  /\ Quiet(f)
  /\ evals' = [evals EXCEPT ![f] = @ - 1]
  /\ Call("evaluate", f)
  /\ UNCHANGED <<looping, treeVars, lifeVars, evaluation, watch, dirty, procVars, bound>>

\* _quiet first acts on the change that came before the loop, then starts the
\* work that was held for it.
Reconcile(f) ==
  /\ Waited(f)
  /\ dirty[f]
  /\ dirty' = [dirty EXCEPT ![f] = FALSE]
  /\ Call("evaluate", f)
  /\ UNCHANGED <<looping, treeVars, lifeVars, evaluation, evals, watch, procVars, bound>>

StartHeld(f) ==
  /\ Waited(f)
  /\ ~dirty[f]
  /\ pc[Task(f)] = "held"
  /\ pc' = [pc EXCEPT ![Task(f)] = "spawned"]
  /\ UNCHANGED <<looping, stack, treeVars, lifeVars, waitVars, gate, kids, op, work, bound>>

----------------------------------------------------------------------------
(* The operations a caller performs *)

\* asyncio.Lock: whoever finds it free and nobody queued has it at once.
AtGate(f) ==
  IF gate[f] = None /\ \A o \in Ops : ~(Of(Caller(o)) = f /\ pc[Caller(o)] = "gate")
  THEN "enter" ELSE "gate"

\* A call is made.  update() resolves the config and keeps what that gave before
\* it compares, and an equal config is the end of it.
Issue(o, kind, f, c) ==
  /\ pc[Caller(o)] = "idle"
  /\ Mounted(f)
  /\ op' = [op EXCEPT ![o] = [kind |-> kind, fiber |-> f, config |-> c]]
  /\ held' = [held EXCEPT ![f] = IF kind = "update" THEN f # Root /\ c \in Invalid ELSE @]
  /\ pc' = [pc EXCEPT
       ![Caller(o)] =
          CASE kind = "await" -> "settle"
            [] kind = "restart" -> AtGate(f)
            [] kind = "update" -> IF c = config[f] THEN "done" ELSE AtGate(f)
            [] kind = "dispose" -> IF state[f] = "DISPOSED" THEN "done" ELSE "disposal",
       ![Disposal(f)] =
          IF kind = "dispose" /\ state[f] # "DISPOSED" /\ @ = "idle" THEN "spawned" ELSE @]
  /\ UNCHANGED <<looping, stack, treeVars, state, error, epoch, config, loads, script,
                 scope, waitVars, gate, kids, work, bound>>

\* Mutant: the gate is enough, nobody waits for what is in flight.
EnterAtOnce(p) ==
  /\ pc[p] \in {"enter", "gate"} \/ (p = Disposal(Of(p)) /\ pc[p] = "spawned")
  /\ gate[Of(p)] = None
  /\ state[Of(p)] # "DISPOSED"
  /\ gate' = [gate EXCEPT ![Of(p)] = p]
  /\ pc' = [pc EXCEPT ![p] = "through"]
  /\ UNCHANGED <<looping, stack, treeVars, lifeVars, waitVars, kids, op, work, bound>>

\* restart(), update() and the disposal take the gate.  A disposed instance is
\* left alone; update() and the disposal look before they wait.
Enter(p) ==
  /\ pc[p] \in {"enter", "gate"} \/ (p = Disposal(Of(p)) /\ pc[p] = "spawned")
  /\ gate[Of(p)] = None
  /\ LET f    == Of(p)
         late == p = Caller(p[2]) /\ op[p[2]].kind = "restart"
     IN  IF state[f] = "DISPOSED" /\ ~late
         THEN /\ pc' = [pc EXCEPT ![p] = "done"]
              /\ UNCHANGED <<gate, watch, dirty>>
         ELSE /\ gate' = [gate EXCEPT ![f] = p]
              /\ IF p = Disposal(f)
                 THEN /\ watch' = [watch EXCEPT ![f] = FALSE]
                      /\ dirty' = [dirty EXCEPT ![f] = FALSE]
                 ELSE UNCHANGED <<watch, dirty>>
              /\ pc' = [pc EXCEPT ![p] =
                   IF ~dirty'[f] /\ ~evaluation[f] /\ Rests(f) THEN "through" ELSE "quiet"]
  /\ UNCHANGED <<looping, stack, treeVars, lifeVars, evaluation, evals, kids, op, work, bound>>

\* Past _quiet, with the gate held: the unload begins.
Proceed(p) ==
  /\ pc[p] = "through" \/ (pc[p] = "quiet" /\ Quiet(Of(p)))
  /\ LET f == Of(p)
     IN  IF state[f] = "DISPOSED"
         THEN /\ pc' = [pc EXCEPT ![p] = "done"]
              /\ gate' = [gate EXCEPT ![f] = None]
              /\ UNCHANGED <<state, epoch, config, kids>>
         ELSE /\ BeginUnload(p)
              /\ config' = [config EXCEPT ![f] =
                   IF p = Caller(p[2]) /\ op[p[2]].kind = "update" THEN op[p[2]].config ELSE @]
              /\ UNCHANGED gate
  /\ UNCHANGED <<looping, stack, treeVars, error, held, loads, script, scope, waitVars,
                 op, work, bound>>

\* restart() and update() load again, let the gate go and settle.
CallerLands(o) ==
  /\ pc[Caller(o)] \in {"released", "emptied"}
  /\ LET f == Of(Caller(o))
     IN  /\ LandPending(f)
         /\ IF CanOpen(f)
            THEN /\ pc' = [pc EXCEPT ![Caller(o)] = "settle"]
                 /\ gate' = [gate EXCEPT ![f] = None]
                 /\ Call("evaluate", f)
                 /\ UNCHANGED evals
            ELSE Raise(Caller(o)) /\ UNCHANGED stack
  /\ UNCHANGED <<looping, treeVars, error, epoch, config, held, loads, script,
                 evaluation, watch, dirty, kids, op, work, bound>>

\* Mutant: the disposal keeps the gate.
DisposalKeepsGate(f) ==
  /\ pc[Disposal(f)] \in {"released", "emptied"}
  /\ state' = [state EXCEPT ![f] = "DISPOSED"]
  /\ pc' = [pc EXCEPT ![Disposal(f)] = "done"]
  /\ UNCHANGED <<looping, stack, treeVars, error, epoch, config, held, loads,
                 script, scope, waitVars, gate, kids, op, work, bound>>

\* The disposal is over, and the parent forgets the instance.
DisposalLands(f) ==
  /\ pc[Disposal(f)] \in {"released", "emptied"}
  /\ state' = [state EXCEPT ![f] = "DISPOSED"]
  /\ children' = [children EXCEPT ![parent[f]] =
       IF f = Root THEN @ ELSE Without(@, f)]
  /\ pc' = [pc EXCEPT ![Disposal(f)] = "done"]
  /\ gate' = [gate EXCEPT ![f] = None]
  /\ UNCHANGED <<looping, stack, plugin, parent, error, epoch, config, held, loads,
                 script, scope, waitVars, kids, op, work, bound>>

\* `await fiber`, and the end of restart() and update().
Settles(o) ==
  /\ pc[Caller(o)] = "settle"
  /\ Quiet(Of(Caller(o)))
  /\ pc' = [pc EXCEPT ![Caller(o)] = "done"]
  /\ UNCHANGED <<looping, stack, treeVars, lifeVars, waitVars, gate, kids, op, work, bound>>

DisposeReturns(o) ==
  /\ pc[Caller(o)] = "disposal"
  /\ pc[Disposal(Of(Caller(o)))] \in {"done", "raised"}
  /\ pc' = [pc EXCEPT ![Caller(o)] = pc[Disposal(Of(Caller(o)))]]
  /\ UNCHANGED <<looping, stack, treeVars, lifeVars, waitVars, gate, kids, op, work, bound>>

\* A caller is cancelled where it waits.  dispose() shields its task; restart()
\* and update() unload in the caller's own task and go no further.
Cancel(o) ==
  /\ MayCancel
  /\ LET p == Caller(o)
         f == Of(p)
     IN  /\ pc[p] \in {"gate", "quiet", "unwind", "released", "settle", "disposal"}
         /\ pc' = [pc EXCEPT ![p] = "cancelled"]
         /\ gate' = [gate EXCEPT ![f] = IF @ = p THEN None ELSE @]
  /\ UNCHANGED <<looping, stack, treeVars, lifeVars, waitVars, kids, op, work, bound>>

----------------------------------------------------------------------------

Synchronous ==
  EvaluateLoads \/ EvaluateUnloads \/ EvaluateNothing \/ BodyProvides \/ BodyMounts
    \/ BodyAwaits \/ BodyReturns \/ BodyRaises

Unwinding(p) ==
  DisposeChild(p) \/ ChildDisposed(p) \/ ChildRaised(p) \/ ReleaseScope(p)

Tasks(f) ==
  \/ StartTask(f) \/ BodyResumes(f)
  \/ EvaluationStarts(f) \/ EvaluationProceeds(f) \/ Reconcile(f) \/ StartHeld(f)

Calls(o) == Settles(o) \/ DisposeReturns(o)

Lands(p) == (\E f \in FiberIds : (p = Task(f) /\ TaskLands(f)) \/ (p = Disposal(f) /\ DisposalLands(f)))
              \/ \E o \in Ops : p = Caller(o) /\ CallerLands(o)

\* The running task up to its next await.
Running ==
  \/ Synchronous
  \/ stack = <<>> /\ \E p \in Procs :
       \/ CloseScope(p)
       \/ pc[p] = "enter" /\ Enter(p)
       \/ pc[p] = "through" /\ Proceed(p)
       \/ pc[p] = "emptied" /\ Lands(p)

\* A task the event loop takes next.
Ready ==
  \/ \E f \in FiberIds : Tasks(f)
  \/ \E p \in Procs : Unwinding(p) \/ Enter(p) \/ Proceed(p) \/ Lands(p)
  \/ \E o \in Ops : Calls(o)

Loop == Running \/ (AtAwait /\ (StartLoop \/ (looping /\ Ready)))

\* What the application does, from tasks of its own or before the loop.
Outside ==
  \/ \E f \in FiberIds, q \in Plugins : LateMount(f, q)
  \/ \E o \in Ops : Cancel(o)
  \/ \E o \in Ops, kind \in Kinds, f \in FiberIds, c \in Configs :
       (kind # "update" => c = FirstConfig) /\ Issue(o, kind, f, c)

Environment == AtAwait /\ ((\E q \in TopLevel : HostMount(q)) \/ (looping /\ Outside))

Next == Loop \/ Environment

Spec == Init /\ [][Next]_vars

\* The loop does not stop while a task is ready, and what a body awaits comes.
FairSpec == Spec /\ WF_vars(Loop)

----------------------------------------------------------------------------
(* Properties *)

TypeOK ==
  /\ looping \in BOOLEAN
  /\ stack \in Seq([do : {"evaluate", "body"}, fiber : FiberIds])
  /\ plugin \in [FiberIds -> Plugins \cup {None}]
  /\ parent \in [FiberIds -> FiberIds]
  /\ children \in [FiberIds -> Seq(FiberIds)]
  /\ state \in [FiberIds -> States]
  /\ error \in [FiberIds -> BOOLEAN]
  /\ \A f \in FiberIds :
       epoch[f] = <<>> \/ epoch[f] \in [Needs(f) -> FiberIds \X Nat]
  /\ config \in [FiberIds -> Configs]
  /\ held \in [FiberIds -> BOOLEAN]
  /\ loads \in [FiberIds -> Nat]
  /\ scope \in [FiberIds -> {"none", "open", "closing", "closed", "broken"}]
  /\ work \in [FiberIds -> {"none", "unload", "reload", "release", "finish"}]
  /\ evaluation \in [FiberIds -> BOOLEAN]
  /\ evals \in [FiberIds -> Nat]
  /\ watch \in [FiberIds -> BOOLEAN]
  /\ dirty \in [FiberIds -> BOOLEAN]
  /\ gate \in [FiberIds -> Procs \cup {None}]
  /\ pc \in [Procs -> {"idle", "held", "spawned", "running", "body", "enter", "gate",
                       "quiet", "through", "unwind", "scope", "released", "emptied",
                       "settle", "disposal", "done", "raised", "cancelled"}]
  /\ kids \in [Procs -> Seq(FiberIds)]
  /\ op \in [Ops -> [kind : Kinds \cup {"none"}, fiber : FiberIds, config : Configs]]
  /\ \A n \in Names : bound[n] = None \/ bound[n] \in FiberIds \X Nat

\* 04 SEM-002, "Any other transition is a defect", and more: whatever ran since
\* a handler looked at the state, the edge it asks for is in TRANSITIONS, a mount
\* is under a live instance, and an unload ends when all below it is disposed.
Promise == INSTANCE Lifecycle WITH
  Instances <- FiberIds,
  life <- [f \in FiberIds |-> IF Mounted(f) THEN state[f] ELSE "ABSENT"],
  above <- parent

ImplementsLifecycle == Promise!Spec

\* A body runs from the call of it to its end, awaits included.
BodyRuns(f) ==
  \/ \E i \in DOMAIN stack : stack[i] = [do |-> "body", fiber |-> f]
  \/ pc[Task(f)] \in {"body", "running"}
  \/ pc[Task(f)] \in {"spawned", "held"} /\ work[f] = "finish"

Unwinds(p) == pc[p] \in {"unwind", "scope", "released", "emptied"}

\* Nothing tears an instance down while its body runs, and no two of the unload
\* of a lost dependency, restart(), update(), a disposal and the release of a
\* failed body tear down at once.
OneAtATime ==
  \A f \in FiberIds :
    LET unwinding == {p \in Procs : Of(p) = f /\ Unwinds(p)}
    IN  /\ Cardinality(unwinding) <= 1
        /\ BodyRuns(f) => unwinding = {}

\* FiberRuntime._work is not empty: what quiesce() waits for.
Busy ==
  \E f \in FiberIds :
    \/ pc[Task(f)] \notin {"idle", "held", "raised"}
    \/ evaluation[f] \/ evals[f] > 0
    \/ pc[Disposal(f)] \notin {"idle", "done", "raised"}

Quiescent == looping /\ stack = <<>> /\ ~Busy

\* No disposer raised and no caller was cancelled in the middle of a teardown:
\* either leaves an instance in UNLOADING for good.
Undisturbed ==
  /\ \A f \in FiberIds : scope[f] # "broken"
  /\ \A o \in Ops : pc[Caller(o)] # "cancelled"

\* PROP-FIBER-002 with what quiesce() does not see spelled out: once no work is
\* left, no restart() or update() holds the gate and nothing from before the loop
\* waits for somebody to await the instance, an instance waits only for a name that
\* is not bound, and runs only on the implementations its names have now.
ActiveIffBound ==
  Quiescent /\ Undisturbed =>
    \A f \in FiberIds \ {Root} :
      Mounted(f) /\ gate[f] = None /\ ~dirty[f] /\ pc[Task(f)] # "held" =>
        /\ state[f] = "PENDING" => Missing(f) # {} \/ ~CanOpen(f)
        /\ state[f] = "ACTIVE" => Missing(f) = {} /\ epoch[f] = Sample(f)
        /\ state[f] \in Settled

\* dispose(): "Unload this instance and everything it mounted".
DisposedWithDescendants ==
  \A f \in FiberIds : state[f] = "DISPOSED" => \A g \in Below(f) : state[g] = "DISPOSED"

\* SEM-007: when an unload ends, nothing of the load before is left: every
\* instance it mounted is disposed and every name it bound is free.
NothingSurvives ==
  [][\A f \in FiberIds :
       state[f] = "UNLOADING" /\ state'[f] # "UNLOADING" =>
         /\ \A g \in Below(f) : state[g] = "DISPOSED"
         /\ \A n \in Names : bound[n] # None => bound[n][1] # f]_vars

\* A binding belongs to the running load of an instance that is being loaded,
\* runs or is being torn down: never to one that waits, is gone or has failed
\* and given back what it took.
BindingsHaveOwners ==
  \A n \in Names :
    bound[n] # None =>
      LET f == bound[n][1]
      IN  /\ bound[n][2] = loads[f]
          /\ state[f] \in {"LOADING", "ACTIVE", "UNLOADING"}
               \/ (state[f] = "FAILED" /\ pc[Task(f)] # "idle")

\* Everybody who called restart(), update(), dispose() or awaited an instance
\* is answered.
Answered ==
  \A o \in Ops :
    pc[Caller(o)] # "idle" ~> pc[Caller(o)] \in {"done", "raised", "cancelled"}

\* 04 SEM-004: an instance does not sit in PENDING when its names are bound.
NeverSits ==
  \A f \in FiberIds \ {Root} :
    looping /\ Mounted(f) /\ state[f] = "PENDING" /\ Missing(f) = {}
      ~> state[f] # "PENDING" \/ Missing(f) # {}

----------------------------------------------------------------------------
(* What the documentation says and the code does not do *)

\* PROP-FIBER-005: whoever awaits an instance is answered.
AwaitAnswered ==
  \A o \in Ops :
    pc[Caller(o)] = "settle" ~> pc[Caller(o)] \in {"done", "raised"}

\* plugin.py:489: "the body never runs on a config that did not validate".
BodyOnValidConfig ==
  \A f \in FiberIds \ {Root} :
    Top("body") /\ This = f /\ script[f] = Body[plugin[f]] /\ script[f] # <<>> =>
      config[f] \notin Invalid
=============================================================================
