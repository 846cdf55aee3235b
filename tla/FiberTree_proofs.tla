-------------------------- MODULE FiberTree_proofs --------------------------
(***************************************************************************)
(* On top of the invariant of Fiber_proofs: to whom a binding belongs, and *)
(* that the tree of instances keeps the promise of Lifecycle, for every    *)
(* tree, every set of plugins and any number of callers.  Every step of    *)
(* Fiber has one of eleven shapes as far as the tree, the scopes and the   *)
(* bindings go, and the invariants are kept by each.                       *)
(***************************************************************************)
EXTENDS Fiber_proofs, WellFoundedInduction

\* An instance that may hold bindings.
Holder(f) ==
  /\ scope[f] \in {"open", "closing"}
  /\ \/ state[f] \in {"LOADING", "ACTIVE", "UNLOADING"}
     \/ state[f] = "FAILED" /\ pc[Task(f)] # "idle"

\* A binding is of the current load of an instance that may hold one.
Owned ==
  \A n \in Names : bound[n] # None =>
    bound[n][2] = loads[bound[n][1]] /\ Holder(bound[n][1])

\* Whoever has unwound a scope left it closed.
Emptied == \A p \in Procs : pc[p] \in {"released", "emptied"} => scope[Of(p)] = "closed"

\* The root is no plugin: it has no body that awaits or fails.
RootSound ==
  /\ plugin[Root] = None /\ ~held[Root] /\ script[Root] = <<>>
  /\ work[Root] \notin {"finish", "release"}

\* What is mounted under an instance and not disposed yet.
Remaining(f) ==
  {g \in FiberIds \ {Root} : Mounted(g) /\ parent[g] = f /\ state[g] # "DISPOSED"}

\* An instance knows all of those, an unwind has still to dispose all of those,
\* and past the unwind there are none.
Known == \A f \in FiberIds : Remaining(f) \subseteq ToSet(children[f])
TakenBy(p) ==
  /\ pc[p] = "unwind" => Remaining(Of(p)) \subseteq ToSet(kids[p])
  /\ pc[p] \in {"scope", "released", "emptied"} => Remaining(Of(p)) = {}
Taken == \A p \in Procs : TakenBy(p)

\* Instances are mounted in the order of their numbers, each under an earlier one.
Grown ==
  /\ \A g \in FiberIds : Mounted(g) => \A h \in 1..(g - 1) : Mounted(h)
  /\ \A g \in FiberIds \ {Root} : Mounted(g) => parent[g] < g

\* Nothing directly under a disposed instance remains.
Gone == \A f \in FiberIds : state[f] = "DISPOSED" => Remaining(f) = {}

----------------------------------------------------------------------------
(* The shapes of a step *)

Same(p)   == pc'[p] = pc[p] /\ kids'[p] = kids[p] /\ Of(p)' = Of(p)
Passes(p) == Same(p) \/ pc'[p] \notin {"idle"} \cup Teardown

\* Nothing of the tree, the scopes and the bindings moves.
Aside ==
  /\ UNCHANGED <<plugin, parent, children, state, scope, loads, bound>>
  /\ \A q \in Procs : Passes(q)

\* g is mounted under f.
Grows(f, g) ==
  /\ g \in Fresh /\ Mounted(f) /\ state[f] \in Live /\ Nursery(f)
  /\ \E q \in Plugins : plugin' = [plugin EXCEPT ![g] = q]
  /\ parent' = [parent EXCEPT ![g] = f]
  /\ children' = [children EXCEPT ![f] = Append(@, g)]
  /\ scope' = [scope EXCEPT ![g] = "open"]
  /\ UNCHANGED <<state, loads, bound>>
  /\ \A q \in Procs : Same(q)

\* A load begins.
LoadsAt(f) ==
  /\ Mounted(f) /\ state[f] = "PENDING"
  /\ state' = [state EXCEPT ![f] = "LOADING"]
  /\ scope' = [scope EXCEPT ![f] = "open"]
  /\ loads' = [loads EXCEPT ![f] = @ + 1]
  /\ UNCHANGED <<plugin, parent, children, bound>>
  /\ \A q \in Procs : Same(q)

\* A body binds a name.
BindsAt(f) ==
  /\ state[f] = "LOADING" /\ scope[f] = "open"
  /\ \E n \in Names : bound' = [bound EXCEPT ![n] = <<f, loads[f]>>]
  /\ UNCHANGED <<plugin, parent, children, state, scope, loads>>
  /\ \A q \in Procs : Same(q)

\* A load succeeds.
Returns(f) ==
  /\ Mounted(f) /\ state[f] = "LOADING"
  /\ state' = [state EXCEPT ![f] = "ACTIVE"]
  /\ UNCHANGED <<plugin, parent, children, scope, loads, bound>>
  /\ \A q \in Procs \ {Task(f)} : Same(q)
  /\ pc'[Task(f)] \in {"idle", "raised"}

\* A load fails, and a task that gives back what it took is due.
Fails(f) ==
  /\ Mounted(f) /\ state[f] = "LOADING"
  /\ state' = [state EXCEPT ![f] = "FAILED"]
  /\ UNCHANGED <<plugin, parent, children, scope, loads, bound>>
  /\ \A q \in Procs \ {Task(f)} : Same(q)
  /\ pc'[Task(f)] \in {"spawned", "held"}

\* An unwind begins, in an unload or after a failure.
Begins(p) ==
  /\ Mounted(Of(p)) /\ Of(p)' = Of(p)
  /\ \/ state' = state
     \/ /\ state[Of(p)] \in {"PENDING", "ACTIVE", "FAILED"}
        /\ state' = [state EXCEPT ![Of(p)] = "UNLOADING"]
  /\ pc'[p] = "unwind" /\ kids'[p] = Reverse(children[Of(p)])
  /\ UNCHANGED <<plugin, parent, children, scope, loads, bound>>
  /\ \A q \in Procs \ {p} : Same(q)

\* An unwind is through with a child.
Buries(p) ==
  /\ pc[p] = "unwind" /\ kids[p] # <<>> /\ state[Head(kids[p])] = "DISPOSED"
  /\ pc'[p] = pc[p] /\ kids'[p] = Tail(kids[p]) /\ Of(p)' = Of(p)
  /\ UNCHANGED <<plugin, parent, children, state, scope, loads, bound>>
  /\ \A q \in Procs \ {p} : Same(q)

\* An unwind is through with its last child.
Empties(p) ==
  /\ pc[p] = "unwind" /\ kids[p] = <<>> /\ Of(p)' = Of(p)
  /\ children' = [children EXCEPT ![Of(p)] = <<>>]
  /\ \/ scope[Of(p)] = "open" /\ scope' = [scope EXCEPT ![Of(p)] = "closing"] /\ pc'[p] = "scope"
     \/ scope[Of(p)] = "closed" /\ scope' = scope /\ pc'[p] = "emptied"
     \/ scope' = scope /\ pc'[p] = "raised"
  /\ UNCHANGED <<plugin, parent, state, loads, bound>>
  /\ \A q \in Procs \ {p} : Passes(q)

\* The scope of a load is unwound, and the scopes in it.
Releases(p) ==
  /\ pc[p] = "scope" /\ Of(p)' = Of(p)
  /\ \E closed \in SUBSET FiberIds :
       /\ Of(p) \in closed /\ closed \subseteq {Of(p)} \cup Below(Of(p))
       /\ \A g \in closed \ {Of(p)} : scope[g] = "open"
       /\ bound' = [n \in Names |->
            IF bound[n] # None /\ bound[n][1] \in closed THEN None ELSE bound[n]]
       /\ \A g \in FiberIds \ closed : scope'[g] = scope[g]
       /\ \A g \in closed \ {Of(p)} : scope'[g] = "closed"
  /\ \/ pc'[p] = "released" /\ scope'[Of(p)] = "closed"
     \/ pc'[p] = "raised"
  /\ UNCHANGED <<plugin, parent, children, state, loads>>
  /\ \A q \in Procs \ {p} : Passes(q)

\* An unwind is over.
Ends(p) ==
  /\ pc[p] \in {"released", "emptied"} /\ pc'[p] \notin Teardown
  /\ Mounted(Of(p))
  /\ \/ state' = state /\ children' = children
     \/ /\ state[Of(p)] = "LOADING" /\ state' = [state EXCEPT ![Of(p)] = "FAILED"]
        /\ children' = children
     \/ /\ state[Of(p)] = "UNLOADING" /\ state' = [state EXCEPT ![Of(p)] = "PENDING"]
        /\ children' = children
     \/ /\ state[Of(p)] = "UNLOADING" /\ state' = [state EXCEPT ![Of(p)] = "DISPOSED"]
        /\ children' = [children EXCEPT ![parent[Of(p)]] =
             IF Of(p) = Root THEN @ ELSE Without(@, Of(p))]
  /\ scope' = scope \/ scope' = [scope EXCEPT ![Of(p)] = "open"]
  /\ UNCHANGED <<plugin, parent, loads, bound>>
  /\ \A q \in Procs \ {p} : Passes(q)

\* A mount is refused by an instance that is being unwound, but for one from
\* outside under an instance whose body failed in _finish: it is still LOADING.
LateInUnwind(f) == pc[Task(f)] \in Teardown /\ \E q \in Plugins : LateMount(f, q)

Shape ==
  \/ Aside
  \/ \E f, g \in FiberIds :
       Grows(f, g) /\ (pc[Task(f)] \notin Teardown \/ LateInUnwind(f))
  \/ \E f \in FiberIds : LoadsAt(f) \/ BindsAt(f) \/ Returns(f) \/ Fails(f)
  \/ \E p \in Procs : Begins(p) \/ Buries(p) \/ Empties(p) \/ Releases(p) \/ Ends(p)

----------------------------------------------------------------------------
(* The root *)

\* The root stays what it is: whatever a body does, it is not the root's.
LEMMA RootStep == IInv /\ RootSound /\ [Next]_vars => RootSound'
<1> SUFFICES ASSUME IInv, RootSound, [Next]_vars PROVE RootSound'
  OBVIOUS
<1>1. /\ script \in [FiberIds -> Seq(Steps)] /\ held \in [FiberIds -> BOOLEAN]
      /\ work \in [FiberIds -> {"none", "unload", "reload", "release", "finish"}]
      /\ plugin \in [FiberIds -> Plugins \cup {None}] /\ Root \in FiberIds
  <2>1. Root \in FiberIds
    BY FiberAssumption DEF Root, FiberIds
  <2> QED
    BY <2>1, Facts DEF LifeTypes, TreeTypes, ProcTypes
<1>2. ASSUME UNCHANGED <<plugin, held, script, work>> PROVE RootSound'
  BY <1>2 DEF RootSound
<1>3. ASSUME NEW f \in FiberIds, NEW q \in Plugins, NEW rest, Mount(f, q, rest)
      PROVE  plugin'[Root] = plugin[Root]
  <2>1. PICK g \in Fresh : plugin' = [plugin EXCEPT ![g] = q]
    BY <1>3 DEF Mount
  <2>2. g # Root
    BY <2>1 DEF Fresh
  <2> QED
    BY <1>1, <2>1, <2>2
<1>4. ASSUME Top("body"), script[This] # <<>> PROVE This # Root /\ This \in FiberIds
  BY <1>4, BodyFacts DEF RootSound
<1>5. CASE EvaluateLoads
  <2>1. This \in FiberIds
    BY <1>5, TopFacts DEF EvaluateLoads
  <2>2. /\ script' = [script EXCEPT ![This] =
              IF held[This] THEN <<Step("raise", None)>>
              ELSE IF This = Root THEN <<>> ELSE Body[plugin[This]]]
        /\ UNCHANGED <<plugin, held, work>>
    BY <1>5 DEF EvaluateLoads, treeVars, procVars
  <2>3. script'[Root] = <<>>
    BY <1>1, <2>1, <2>2 DEF RootSound
  <2> QED
    BY <2>2, <2>3 DEF RootSound
<1>6. CASE EvaluateUnloads
  <2>1. This \in FiberIds
    BY <1>6, TopFacts DEF EvaluateUnloads
  <2>2. /\ work' = [work EXCEPT ![This] = IF Missing(This) # {} THEN "unload" ELSE "reload"]
        /\ UNCHANGED <<plugin, held, script>>
    BY <1>6 DEF EvaluateUnloads, treeVars, lifeVars
  <2>3. work'[Root] \notin {"finish", "release"}
    BY <1>1, <2>1, <2>2 DEF RootSound
  <2> QED
    BY <2>2, <2>3 DEF RootSound
<1>7. CASE BodyProvides \/ BodyMounts \/ BodyAwaits
  <2>1. This # Root /\ This \in FiberIds
    BY <1>4, <1>7 DEF BodyProvides, BodyMounts, BodyAwaits, BodyAt
  <2>2. script' = [script EXCEPT ![This] = Tail(@)] /\ held' = held
    BY <1>7 DEF BodyProvides, BodyMounts, BodyAwaits, Advance
  <2>3. plugin'[Root] = plugin[Root]
    <3>1. CASE BodyMounts
      <4>1. NextStep(This).what \in Plugins
        BY <2>1, <3>1, ScriptTyped DEF BodyMounts, BodyAt
      <4> QED
        BY <1>3, <2>1, <3>1, <4>1 DEF BodyMounts
    <3>2. CASE BodyProvides \/ BodyAwaits
      BY <3>2 DEF BodyProvides, BodyAwaits, treeVars
    <3> QED
      BY <1>7, <3>1, <3>2
  <2>4. work'[Root] = work[Root]
    BY <1>1, <1>7, <2>1 DEF BodyProvides, BodyMounts, BodyAwaits, procVars
  <2>5. script'[Root] = script[Root]
    BY <1>1, <2>1, <2>2
  <2> QED
    BY <2>2, <2>3, <2>4, <2>5 DEF RootSound
<1>8. CASE BodyRaises
  <2>1. This \in FiberIds /\ This # Root
    <3>1. This \in FiberIds
      BY <1>8, BodyFacts DEF BodyRaises
    <3>2. plugin[This] \in MayFail \/ script[This] # <<>>
      BY <1>8 DEF BodyRaises, BodyFails, BodyAt
    <3> QED
      BY <3>1, <3>2, FiberAssumption DEF RootSound
  <2>2. /\ script' = [script EXCEPT ![This] = <<>>] /\ UNCHANGED <<plugin, held>>
        /\ work' = work \/ work' = [work EXCEPT ![This] = "release"]
    BY <1>8 DEF BodyRaises, treeVars
  <2> QED
    BY <1>1, <2>1, <2>2 DEF RootSound
<1>9. ASSUME NEW f \in FiberIds, NEW q \in Plugins, HostMount(q) \/ LateMount(f, q)
      PROVE  RootSound'
  <2>1. plugin'[Root] = plugin[Root]
    BY <1>1, <1>3, <1>9 DEF HostMount, LateMount
  <2>2. UNCHANGED <<held, script, work>>
    BY <1>9 DEF HostMount, LateMount, procVars
  <2> QED
    BY <2>1, <2>2 DEF RootSound
<1>10. ASSUME NEW o, NEW kind, NEW f \in FiberIds, NEW c, Issue(o, kind, f, c) PROVE RootSound'
  BY <1>1, <1>10 DEF Issue, treeVars, RootSound
<1>11. CASE Synchronous
  <2>1. CASE EvaluateNothing \/ BodyReturns
    BY <1>2, <2>1 DEF EvaluateNothing, BodyReturns, treeVars, lifeVars, procVars
  <2> QED
    BY <1>5, <1>6, <1>7, <1>8, <1>11, <2>1 DEF Synchronous
<1>12. ASSUME NEW p, CloseScope(p) \/ Enter(p) \/ Proceed(p) PROVE RootSound'
  BY <1>2, <1>12 DEF CloseScope, Enter, Proceed, treeVars, lifeVars
<1>13. ASSUME NEW p, Lands(p) PROVE RootSound'
  BY <1>2, <1>13 DEF Lands, TaskLands, DisposalLands, CallerLands, treeVars
<1>14. ASSUME NEW p, Unwinding(p) PROVE RootSound'
  BY <1>2, <1>14 DEF Unwinding, DisposeChild, ChildDisposed, ChildRaised, ReleaseScope,
                     treeVars, lifeVars
<1>15. ASSUME NEW f, Tasks(f) PROVE RootSound'
  BY <1>2, <1>15 DEF Tasks, StartTask, BodyResumes, EvaluationStarts, EvaluationProceeds,
                     Reconcile, StartHeld, treeVars, lifeVars, procVars
<1>16. ASSUME NEW o, Calls(o) \/ Cancel(o) PROVE RootSound'
  BY <1>2, <1>16 DEF Calls, Settles, DisposeReturns, Cancel, treeVars, lifeVars
<1>17. CASE StartLoop \/ UNCHANGED vars
  BY <1>2, <1>17 DEF StartLoop, vars, treeVars, lifeVars, procVars
<1>18. CASE Running
  BY <1>11, <1>12, <1>13, <1>18 DEF Running
<1>19. CASE Ready
  BY <1>12, <1>13, <1>14, <1>15, <1>16, <1>19 DEF Ready
<1>20. CASE Environment
  <2>1. ASSUME NEW q \in TopLevel, HostMount(q) PROVE RootSound'
    BY <1>1, <1>9, <2>1, FiberAssumption
  <2> QED
    BY <1>9, <1>10, <1>16, <1>20, <2>1 DEF Environment, Outside
<1> QED
  BY <1>17, <1>18, <1>19, <1>20 DEF Next, Loop

----------------------------------------------------------------------------
(* To whom a binding belongs *)

\* What the shapes are about, typed.
LEMMA Sorts ==
  ASSUME IInv
  PROVE  /\ state \in [FiberIds -> States] /\ loads \in [FiberIds -> Nat]
         /\ scope \in [FiberIds -> {"none", "open", "closing", "closed", "broken"}]
         /\ plugin \in [FiberIds -> Plugins \cup {None}] /\ None \notin Plugins
         /\ parent \in [FiberIds -> FiberIds] /\ children \in [FiberIds -> Seq(FiberIds)]
         /\ pc \in [Procs -> Places] /\ kids \in [Procs -> Seq(FiberIds)]
         /\ DOMAIN bound = Names
         /\ \A n \in Names : bound[n] # None => bound[n][1] \in FiberIds
         /\ \A p \in Procs : Of(p) \in FiberIds
         /\ \A f \in FiberIds : Task(f) \in Procs /\ Of(Task(f)) = f
<1>1. \A n \in Names : bound[n] # None => bound[n][1] \in FiberIds
  BY Facts DEF BoundTypes
<1> QED
  BY <1>1, Facts, FiberAssumption, OfTyped, Processes
     DEF LifeTypes, TreeTypes, ProcTypes, BoundTypes

\* Nothing is bound anew, and whoever holds a binding goes on holding it.
LEMMA OwnedKept ==
  ASSUME IInv, Owned, bound' = bound,
         \A f \in FiberIds : Holder(f) => Holder(f)' /\ loads'[f] = loads[f]
  PROVE  Owned'
<1> SUFFICES ASSUME NEW n \in Names, bound'[n] # None
             PROVE  /\ bound'[n][2] = loads'[bound'[n][1]]
                    /\ Holder(bound[n][1])'
  BY DEF Owned
<1>1. PICK f \in FiberIds : f = bound[n][1] /\ bound'[n][1] = f
  BY Sorts
<1>2. Holder(f) /\ bound[n][2] = loads[f]
  BY <1>1 DEF Owned
<1>3. Holder(f)' /\ loads'[f] = loads[f]
  BY <1>2
<1> QED
  BY <1>1, <1>2, <1>3 DEF Holder

\* The scopes of those who have unwound one are left closed.
LEMMA EmptiedKept ==
  ASSUME IInv, Emptied,
         \A p \in Procs : pc'[p] \in {"released", "emptied"} =>
           /\ Of(p)' = Of(p)
           /\ \/ scope'[Of(p)] = "closed"
              \/ pc[p] = pc'[p] /\ scope'[Of(p)] = scope[Of(p)]
  PROVE  Emptied'
<1> SUFFICES ASSUME NEW p \in Procs, pc'[p] \in {"released", "emptied"}
             PROVE  (scope[Of(p)] = "closed")'
  BY DEF Emptied
<1>1. Of(p)' = Of(p) /\ scope'[Of(p)] = "closed"
  BY DEF Emptied
<1> QED
  BY <1>1

\* Whoever is past a scope goes on being so only where it was.
LEMMA Passing ==
  ASSUME NEW p, Passes(p), pc'[p] \in {"idle"} \cup Teardown
  PROVE  pc'[p] = pc[p] /\ kids'[p] = kids[p] /\ Of(p)' = Of(p)
  BY DEF Passes, Same

\* Every shape of a step keeps the owners of the bindings.
LEMMA OwnedStep ==
  ASSUME IInv, Owned, Emptied, Shape
  PROVE  Owned' /\ Emptied'
<1> USE DEF Teardown
<1>1. CASE Aside
  <2>1. Owned'
    <3>1. ASSUME NEW f \in FiberIds, Holder(f) PROVE Holder(f)'
      <4>1. pc'[Task(f)] = "idle" => pc[Task(f)] = "idle"
        BY <1>1, Sorts, Passing DEF Aside
      <4> QED
        BY <1>1, <3>1, <4>1 DEF Aside, Holder
    <3> QED
      BY <1>1, <3>1, OwnedKept DEF Aside
  <2>2. Emptied'
    BY <1>1, Passing, EmptiedKept DEF Aside
  <2> QED
    BY <2>1, <2>2
<1>2. ASSUME NEW f \in FiberIds, NEW g \in FiberIds, Grows(f, g) PROVE Owned' /\ Emptied'
  <2>1. /\ bound' = bound /\ state' = state /\ loads' = loads
        /\ \A p \in Procs : pc'[p] = pc[p] /\ Of(p)' = Of(p)
        /\ scope'[g] = "open" /\ \A h \in FiberIds \ {g} : scope'[h] = scope[h]
    BY <1>2, Sorts DEF Grows, Same, Fresh
  <2>2. \A h \in FiberIds : Holder(h) => Holder(h)'
    BY <2>1, Sorts DEF Holder
  <2>3. ASSUME NEW p \in Procs, pc[p] \in {"released", "emptied"} PROVE Of(p) # g
    BY <1>2, <2>3, TornDown DEF Grows, Fresh
  <2> QED
    BY <2>1, <2>2, <2>3, Sorts, OwnedKept, EmptiedKept
<1>3. ASSUME NEW f \in FiberIds, LoadsAt(f) PROVE Owned' /\ Emptied'
  <2>1. /\ bound' = bound /\ state[f] = "PENDING"
        /\ \A p \in Procs : pc'[p] = pc[p] /\ Of(p)' = Of(p)
        /\ \A h \in FiberIds \ {f} :
             scope'[h] = scope[h] /\ state'[h] = state[h] /\ loads'[h] = loads[h]
    BY <1>3, Sorts DEF LoadsAt, Same
  <2>2. ~Holder(f)
    BY <2>1 DEF Holder
  <2>3. \A h \in FiberIds \ {f} : Holder(h) => Holder(h)'
    BY <2>1, Sorts DEF Holder
  <2>4. ASSUME NEW p \in Procs, pc[p] \in {"released", "emptied"} PROVE Of(p) # f
    BY <2>1, <2>4, TornDown
  <2> QED
    BY <2>1, <2>2, <2>3, <2>4, Sorts, OwnedKept, EmptiedKept
<1>4. ASSUME NEW f \in FiberIds, BindsAt(f) PROVE Owned' /\ Emptied'
  <2>1. /\ state' = state /\ loads' = loads /\ scope' = scope
        /\ \A p \in Procs : pc'[p] = pc[p] /\ Of(p)' = Of(p)
    BY <1>4 DEF BindsAt, Same
  <2>2. Holder(f)
    BY <1>4 DEF BindsAt, Holder
  <2>3. \A h \in FiberIds : Holder(h) => Holder(h)'
    BY <2>1, Sorts DEF Holder
  <2>4. PICK n \in Names : bound' = [bound EXCEPT ![n] = <<f, loads[f]>>]
    BY <1>4 DEF BindsAt
  <2>5. ASSUME NEW m \in Names, bound'[m] # None
        PROVE  /\ bound'[m][2] = loads'[bound'[m][1]]
               /\ Holder(bound[m][1])'
    <3>1. CASE m = n
      <4>1. bound'[m] = <<f, loads[f]>>
        BY <2>4, <3>1, Sorts
      <4>2. Holder(f)'
        BY <2>2, <2>3
      <4> QED
        BY <2>1, <4>1, <4>2 DEF Holder
    <3>2. CASE m # n
      <4>1. bound'[m] = bound[m] /\ bound[m][1] \in FiberIds
        BY <2>4, <2>5, <3>2, Sorts
      <4>2. PICK h \in FiberIds : h = bound[m][1] /\ h = bound'[m][1]
        BY <4>1
      <4>3. Holder(h) /\ bound[m][2] = loads[h]
        BY <2>5, <4>1, <4>2 DEF Owned
      <4>4. Holder(h)'
        BY <2>3, <4>3
      <4> QED
        BY <2>1, <4>1, <4>2, <4>3, <4>4 DEF Holder
    <3> QED
      BY <3>1, <3>2
  <2>6. Owned'
    BY <2>5 DEF Owned
  <2>7. Emptied'
    BY <2>1, EmptiedKept
  <2> QED
    BY <2>6, <2>7
<1>5. ASSUME NEW f \in FiberIds, Returns(f) PROVE Owned' /\ Emptied'
  <2>1. /\ bound' = bound /\ loads' = loads /\ scope' = scope
        /\ \A p \in Procs \ {Task(f)} : pc'[p] = pc[p] /\ Of(p)' = Of(p)
        /\ state'[f] = "ACTIVE" /\ \A h \in FiberIds \ {f} : state'[h] = state[h]
        /\ pc'[Task(f)] \notin {"released", "emptied"}
    BY <1>5, Sorts DEF Returns, Same
  <2>2. \A h \in FiberIds \ {f} : Task(h) \in Procs \ {Task(f)}
    BY Sorts
  <2>3. \A h \in FiberIds : Holder(h) => Holder(h)'
    BY <2>1, <2>2 DEF Holder
  <2> QED
    BY <2>1, <2>3, OwnedKept, EmptiedKept
<1>6. ASSUME NEW f \in FiberIds, Fails(f) PROVE Owned' /\ Emptied'
  <2>1. /\ bound' = bound /\ loads' = loads /\ scope' = scope
        /\ \A p \in Procs \ {Task(f)} : pc'[p] = pc[p] /\ Of(p)' = Of(p)
        /\ state'[f] = "FAILED" /\ \A h \in FiberIds \ {f} : state'[h] = state[h]
        /\ pc'[Task(f)] \notin {"idle", "released", "emptied"}
    BY <1>6, Sorts DEF Fails, Same
  <2>2. \A h \in FiberIds \ {f} : Task(h) \in Procs \ {Task(f)}
    BY Sorts
  <2>3. \A h \in FiberIds : Holder(h) => Holder(h)'
    BY <2>1, <2>2 DEF Holder
  <2> QED
    BY <2>1, <2>3, OwnedKept, EmptiedKept
<1>7. ASSUME NEW p \in Procs, Begins(p) PROVE Owned' /\ Emptied'
  <2>1. /\ bound' = bound /\ loads' = loads /\ scope' = scope
        /\ \A q \in Procs \ {p} : pc'[q] = pc[q] /\ Of(q)' = Of(q)
        /\ pc'[p] = "unwind" /\ Of(p) \in FiberIds
    BY <1>7, Sorts DEF Begins, Same
  <2>2. \A h \in FiberIds : state'[h] = state[h] \/ state'[h] = "UNLOADING"
    BY <1>7, <2>1, Sorts DEF Begins
  <2>3. \A h \in FiberIds : pc'[Task(h)] = "idle" => pc[Task(h)] = "idle"
    BY <2>1, Sorts
  <2>4. \A h \in FiberIds : Holder(h) => Holder(h)'
    BY <2>1, <2>2, <2>3 DEF Holder
  <2> QED
    BY <2>1, <2>4, OwnedKept, EmptiedKept
<1>8. ASSUME NEW p \in Procs, Buries(p) PROVE Owned' /\ Emptied'
  <2>1. /\ bound' = bound /\ loads' = loads /\ scope' = scope /\ state' = state
        /\ \A q \in Procs : pc'[q] = pc[q] /\ Of(q)' = Of(q)
    BY <1>8 DEF Buries, Same
  <2>2. \A h \in FiberIds : Holder(h) => Holder(h)'
    BY <2>1, Sorts DEF Holder
  <2> QED
    BY <2>1, <2>2, OwnedKept, EmptiedKept
<1>9. ASSUME NEW p \in Procs, Empties(p) PROVE Owned' /\ Emptied'
  <2>1. /\ bound' = bound /\ loads' = loads /\ state' = state
        /\ pc[p] \in Teardown /\ pc'[p] \in {"scope", "emptied", "raised"}
        /\ Of(p) \in FiberIds /\ Of(p)' = Of(p)
        /\ \A q \in Procs \ {p} : Passes(q)
        /\ pc'[p] = "emptied" => scope'[Of(p)] = "closed"
    BY <1>9, Sorts DEF Empties
  <2>2. /\ \A h \in FiberIds \ {Of(p)} : scope'[h] = scope[h]
        /\ scope[Of(p)] \in {"open", "closing"} => scope'[Of(p)] \in {"open", "closing"}
    BY <1>9, Sorts DEF Empties
  <2>3. \A q \in Procs : pc'[q] = "idle" => pc[q] = "idle"
    BY <2>1, Passing
  <2>4. \A h \in FiberIds : Holder(h) => Holder(h)'
    BY <2>1, <2>2, <2>3, Sorts DEF Holder
  <2>5. ASSUME NEW q \in Procs \ {p}, pc'[q] \in {"released", "emptied"}
        PROVE  Of(q)' = Of(q) /\ pc[q] = pc'[q] /\ scope'[Of(q)] = scope[Of(q)]
    <3>1. Of(q)' = Of(q) /\ pc[q] = pc'[q]
      BY <2>1, <2>5, Passing
    <3>2. Of(q) # Of(p)
      BY <2>1, <2>5, <3>1, OnlyOne
    <3> QED
      BY <2>2, <3>1, <3>2, Sorts
  <2> QED
    BY <2>1, <2>4, <2>5, OwnedKept, EmptiedKept
<1>10. ASSUME NEW p \in Procs, Releases(p) PROVE Owned' /\ Emptied'
  <2>1. PICK closed \in SUBSET FiberIds :
          /\ Of(p) \in closed
          /\ bound' = [n \in Names |->
               IF bound[n] # None /\ bound[n][1] \in closed THEN None ELSE bound[n]]
          /\ \A g \in FiberIds \ closed : scope'[g] = scope[g]
          /\ \A g \in closed \ {Of(p)} : scope'[g] = "closed"
    BY <1>10 DEF Releases
  <2>2. /\ loads' = loads /\ state' = state /\ pc[p] = "scope" /\ Of(p)' = Of(p)
        /\ pc'[p] \in {"released", "raised"} /\ Of(p) \in FiberIds
        /\ pc'[p] = "released" => scope'[Of(p)] = "closed"
        /\ \A q \in Procs \ {p} : Passes(q)
    BY <1>10, Sorts DEF Releases
  <2>3. \A q \in Procs : pc'[q] = "idle" => pc[q] = "idle"
    BY <2>2, Passing
  <2>4. \A h \in FiberIds \ closed : Holder(h) => Holder(h)'
    BY <2>1, <2>2, <2>3, Sorts DEF Holder
  <2>5. ASSUME NEW n \in Names, bound'[n] # None
        PROVE  /\ bound'[n][2] = loads'[bound'[n][1]]
               /\ Holder(bound[n][1])'
    <3>1. bound'[n] = bound[n] /\ bound[n] # None /\ bound[n][1] \in FiberIds \ closed
      BY <2>1, <2>5, Sorts
    <3>2. PICK h \in FiberIds \ closed : h = bound[n][1] /\ h = bound'[n][1]
      BY <3>1
    <3>3. Holder(h) /\ bound[n][2] = loads[h]
      BY <3>1, <3>2 DEF Owned
    <3>4. Holder(h)'
      BY <2>4, <3>3
    <3> QED
      BY <2>2, <3>1, <3>2, <3>3, <3>4 DEF Holder
  <2>6. Owned'
    BY <2>5 DEF Owned
  <2>7. ASSUME NEW q \in Procs \ {p}, pc'[q] \in {"released", "emptied"}
        PROVE  /\ Of(q)' = Of(q) /\ pc[q] = pc'[q]
               /\ scope'[Of(q)] = "closed" \/ scope'[Of(q)] = scope[Of(q)]
    <3>1. Of(q)' = Of(q) /\ pc[q] = pc'[q]
      BY <2>2, <2>7, Passing
    <3>2. Of(q) # Of(p)
      BY <2>2, <2>7, <3>1, OnlyOne
    <3> QED
      BY <2>1, <3>1, <3>2, Sorts
  <2>8. Emptied'
    BY <2>2, <2>7, EmptiedKept
  <2> QED
    BY <2>6, <2>8
<1>11. ASSUME NEW p \in Procs, Ends(p) PROVE Owned' /\ Emptied'
  <2>1. /\ bound' = bound /\ loads' = loads /\ Of(p) \in FiberIds
        /\ pc[p] \in {"released", "emptied"} /\ pc'[p] \notin {"released", "emptied"}
        /\ \A q \in Procs \ {p} : Passes(q)
        /\ \A h \in FiberIds \ {Of(p)} : state'[h] = state[h] /\ scope'[h] = scope[h]
    BY <1>11, Sorts DEF Ends
  <2>2. ~Holder(Of(p))
    BY <2>1 DEF Emptied, Holder
  <2>3. \A q \in Procs \ {p} : pc'[q] = "idle" => pc[q] = "idle"
    BY <2>1, Passing
  <2>4. \A h \in FiberIds \ {Of(p)} : Task(h) \in Procs \ {p}
    BY Sorts
  <2>5. \A h \in FiberIds \ {Of(p)} : Holder(h) => Holder(h)'
    BY <2>1, <2>3, <2>4 DEF Holder
  <2>6. ASSUME NEW q \in Procs, pc'[q] \in {"released", "emptied"}
        PROVE  Of(q)' = Of(q) /\ pc[q] = pc'[q] /\ scope'[Of(q)] = scope[Of(q)]
    <3>1. q # p /\ Of(q)' = Of(q) /\ pc[q] = pc'[q]
      BY <2>1, <2>6, Passing
    <3>2. Of(q) # Of(p)
      BY <2>1, <2>6, <3>1, OnlyOne
    <3> QED
      BY <2>1, <3>1, <3>2, Sorts
  <2>7. Owned'
    BY <2>1, <2>2, <2>5, OwnedKept
  <2>8. Emptied'
    BY <2>6, EmptiedKept
  <2> QED
    BY <2>7, <2>8
<1> QED
  BY <1>1, <1>2, <1>3, <1>4, <1>5, <1>6, <1>7, <1>8, <1>9, <1>10, <1>11 DEF Shape

----------------------------------------------------------------------------
(* What is left below an instance *)

\* list.append, reversed() and pop(0), of the members.
LEMMA Appended ==
  ASSUME NEW s \in Seq(FiberIds), NEW x \in FiberIds
  PROVE  Append(s, x) \in Seq(FiberIds) /\ ToSet(s) \cup {x} \subseteq ToSet(Append(s, x))
<1>1. /\ Append(s, x) \in Seq(FiberIds) /\ Len(Append(s, x)) = Len(s) + 1 /\ Len(s) \in Nat
      /\ \A i \in 1..Len(s) : Append(s, x)[i] = s[i]
      /\ Append(s, x)[Len(s) + 1] = x
  OBVIOUS
<1>2. DOMAIN Append(s, x) = 1..(Len(s) + 1) /\ DOMAIN s = 1..Len(s)
  BY <1>1
<1>3. ASSUME NEW i \in DOMAIN s PROVE s[i] \in ToSet(Append(s, x))
  BY <1>1, <1>2, <1>3 DEF ToSet
<1>4. x \in ToSet(Append(s, x))
  <2>1. Len(s) + 1 \in DOMAIN Append(s, x)
    BY <1>1, <1>2
  <2> QED
    BY <1>1, <2>1 DEF ToSet
<1> QED
  BY <1>1, <1>3, <1>4 DEF ToSet

LEMMA ReversedSet ==
  ASSUME NEW s \in Seq(FiberIds) PROVE ToSet(s) \subseteq ToSet(Reverse(s))
<1>1. /\ DOMAIN Reverse(s) = 1..Len(s) /\ Len(s) \in Nat /\ DOMAIN s = 1..Len(s)
      /\ \A i \in 1..Len(s) : Reverse(s)[i] = s[(Len(s) - i) + 1]
  BY DEF Reverse
<1>2. ASSUME NEW i \in DOMAIN s PROVE s[i] \in ToSet(Reverse(s))
  <2>1. (Len(s) - i) + 1 \in 1..Len(s) /\ (Len(s) - ((Len(s) - i) + 1)) + 1 = i
    BY <1>1
  <2>2. Reverse(s)[(Len(s) - i) + 1] = s[i]
    BY <1>1, <2>1
  <2> QED
    BY <1>1, <2>1, <2>2 DEF ToSet
<1> QED
  BY <1>2 DEF ToSet

LEMMA TailSet ==
  ASSUME NEW s \in Seq(FiberIds), s # <<>>
  PROVE  ToSet(s) \subseteq {Head(s)} \cup ToSet(Tail(s))
<1>1. /\ Head(s) = s[1] /\ Len(s) \in Nat /\ Len(Tail(s)) = Len(s) - 1
      /\ DOMAIN s = 1..Len(s) /\ Tail(s) \in Seq(FiberIds)
      /\ \A i \in 1..(Len(s) - 1) : Tail(s)[i] = s[i + 1]
  OBVIOUS
<1>2. DOMAIN Tail(s) = 1..(Len(s) - 1)
  BY <1>1
<1>3. ASSUME NEW i \in DOMAIN s, i # 1 PROVE s[i] \in ToSet(Tail(s))
  <2>1. i - 1 \in 1..(Len(s) - 1) /\ (i - 1) + 1 = i
    BY <1>1, <1>3
  <2>2. Tail(s)[i - 1] = s[i]
    BY <1>1, <2>1
  <2> QED
    BY <1>2, <2>1, <2>2 DEF ToSet
<1> QED
  BY <1>1, <1>3 DEF ToSet

\* list.remove, of the members: it takes nobody else.
LEMMA WithoutSet ==
  ASSUME NEW s \in Seq(FiberIds), NEW x
  PROVE  ToSet(s) \ {x} \subseteq ToSet(Without(s, x))
<1>1. CASE x \notin ToSet(s)
  <2>1. Without(s, x) = s
    BY <1>1 DEF Without
  <2> QED
    BY <2>1
<1>2. CASE x \in ToSet(s)
  <2> DEFINE k == CHOOSE i \in DOMAIN s : s[i] = x
  <2>1. Without(s, x) = RemoveAt(s, k) /\ k \in DOMAIN s /\ s[k] = x
    BY <1>2 DEF Without, ToSet
  <2> HIDE DEF k
  <2>2. /\ DOMAIN RemoveAt(s, k) = 1..(Len(s) - 1)
        /\ \A i \in 1..(Len(s) - 1) : RemoveAt(s, k)[i] = IF i < k THEN s[i] ELSE s[i + 1]
    BY <2>1, RemovedAt
  <2>3. k \in 1..Len(s) /\ Len(s) \in Nat /\ DOMAIN s = 1..Len(s)
    BY <2>1
  <2>7. ASSUME NEW i \in DOMAIN s, i # k PROVE s[i] \in ToSet(RemoveAt(s, k))
    <3>1. CASE i < k
      <4>1. i \in 1..(Len(s) - 1)
        BY <2>3, <3>1
      <4> QED
        BY <2>2, <3>1, <4>1 DEF ToSet
    <3>2. CASE i > k
      <4>1. i - 1 \in 1..(Len(s) - 1) /\ ~(i - 1 < k) /\ (i - 1) + 1 = i
        BY <2>3, <3>2
      <4>2. RemoveAt(s, k)[i - 1] = s[i]
        BY <2>2, <4>1
      <4> QED
        BY <2>2, <4>1, <4>2 DEF ToSet
    <3> QED
      BY <2>3, <2>7, <3>1, <3>2
  <2>8. ASSUME NEW y \in ToSet(s) \ {x} PROVE y \in ToSet(Without(s, x))
    <3>1. PICK i \in DOMAIN s : s[i] = y
      BY DEF ToSet
    <3> QED
      BY <2>1, <2>7, <3>1
  <2> QED
    BY <2>8
<1> QED
  BY <1>1, <1>2

\* Where nothing is mounted and DISPOSED is terminal nothing is added below.
LEMMA RemainingKept ==
  ASSUME plugin' = plugin, parent' = parent,
         \A g \in FiberIds : state[g] = "DISPOSED" => state'[g] = "DISPOSED"
  PROVE  \A f \in FiberIds : Remaining(f)' \subseteq Remaining(f)
  BY DEF Remaining, Mounted

LEMMA KnownKept ==
  ASSUME Known, children' = children, \A f \in FiberIds : Remaining(f)' \subseteq Remaining(f)
  PROVE  Known'
  BY DEF Known

LEMMA TakenKept ==
  ASSUME IInv, Taken, NEW p \in Procs, Passes(p),
         \A f \in FiberIds : Remaining(f)' \subseteq Remaining(f)
  PROVE  TakenBy(p)'
<1> SUFFICES ASSUME pc'[p] \in Teardown PROVE TakenBy(p)'
  BY DEF TakenBy, Teardown
<1>1. pc'[p] = pc[p] /\ kids'[p] = kids[p] /\ Of(p)' = Of(p) /\ Of(p) \in FiberIds
  BY Passing, Sorts
<1>2. PICK f \in FiberIds : f = Of(p) /\ f = Of(p)'
  BY <1>1
<1>3. Remaining(f)' \subseteq Remaining(f) /\ TakenBy(p)
  BY DEF Taken
<1>4. Remaining(Of(p)) = Remaining(f) /\ Remaining(Of(p))' = Remaining(f)'
  BY <1>2 DEF Remaining
<1> QED
  BY <1>1, <1>3, <1>4 DEF TakenBy

\* Every shape of a step keeps what is below an instance known to it, and known
\* to whoever unwinds it, unless somebody mounts where a body is being unwound.
LEMMA TreeStep ==
  ASSUME IInv, Known, Taken, Shape, \A f \in FiberIds : ~LateInUnwind(f)
  PROVE  Known' /\ Taken'
<1>1. CASE Aside
  <2>1. \A f \in FiberIds : Remaining(f)' \subseteq Remaining(f)
    BY <1>1, RemainingKept DEF Aside
  <2>2. \A p \in Procs : TakenBy(p)'
    BY <1>1, <2>1, TakenKept DEF Aside
  <2> QED
    BY <1>1, <2>1, <2>2, KnownKept DEF Aside, Taken
<1>2. ASSUME NEW f \in FiberIds, NEW g \in FiberIds, Grows(f, g), pc[Task(f)] \notin Teardown
      PROVE  Known' /\ Taken'
  <2>1. /\ g # Root /\ ~Mounted(g) /\ state' = state /\ state[f] \in Live
        /\ \A h \in FiberIds \ {g} : plugin'[h] = plugin[h] /\ parent'[h] = parent[h]
        /\ parent'[g] = f
        /\ \A p \in Procs : pc'[p] = pc[p] /\ kids'[p] = kids[p] /\ Of(p)' = Of(p)
        /\ children'[f] = Append(children[f], g)
        /\ \A h \in FiberIds \ {f} : children'[h] = children[h]
    BY <1>2, Sorts DEF Grows, Same, Fresh
  <2>2. \A h \in FiberIds \ {f} : Remaining(h)' \subseteq Remaining(h)
    BY <2>1 DEF Remaining, Mounted
  <2>3. Remaining(f)' \subseteq Remaining(f) \cup {g}
    BY <2>1 DEF Remaining, Mounted
  <2>4. Known'
    <3>1. ToSet(children[f]) \cup {g} \subseteq ToSet(children'[f])
      BY <2>1, Sorts, Appended
    <3> QED
      BY <2>1, <2>2, <2>3, <3>1 DEF Known
  <2>5. ASSUME NEW p \in Procs, pc[p] \in Teardown PROVE Of(p) # f
    BY <1>2, <2>1, <2>5, TornDown DEF Live
  <2>6. ASSUME NEW p \in Procs PROVE TakenBy(p)'
    <3> SUFFICES ASSUME pc[p] \in Teardown PROVE TakenBy(p)'
      BY <2>1 DEF TakenBy, Teardown
    <3>1. PICK h \in FiberIds \ {f} : h = Of(p) /\ h = Of(p)'
      BY <2>1, <2>5, Sorts
    <3>2. Remaining(h)' \subseteq Remaining(h) /\ TakenBy(p)
      BY <2>2 DEF Taken
    <3>3. Remaining(Of(p)) = Remaining(h) /\ Remaining(Of(p))' = Remaining(h)'
      BY <3>1 DEF Remaining
    <3> QED
      BY <2>1, <3>2, <3>3 DEF TakenBy
  <2> QED
    BY <2>4, <2>6 DEF Taken
<1>3. ASSUME NEW f \in FiberIds, LoadsAt(f) \/ BindsAt(f) \/ Returns(f) \/ Fails(f)
      PROVE  Known' /\ Taken'
  <2>1. /\ plugin' = plugin /\ parent' = parent /\ children' = children
        /\ \A q \in Procs : Passes(q) \/ pc'[q] \notin Teardown
    BY <1>3 DEF LoadsAt, BindsAt, Returns, Fails, Passes, Teardown
  <2>2. \A g \in FiberIds : state[g] = "DISPOSED" => state'[g] = "DISPOSED"
    BY <1>3, Sorts DEF LoadsAt, BindsAt, Returns, Fails
  <2>3. \A h \in FiberIds : Remaining(h)' \subseteq Remaining(h)
    BY <2>1, <2>2, RemainingKept
  <2>4. ASSUME NEW p \in Procs PROVE TakenBy(p)'
    <3>1. CASE Passes(p)
      BY <2>3, <3>1, TakenKept
    <3>2. CASE pc'[p] \notin Teardown
      BY <3>2 DEF TakenBy, Teardown
    <3> QED
      BY <2>1, <3>1, <3>2
  <2> QED
    BY <2>1, <2>3, <2>4, KnownKept DEF Taken
<1>4. ASSUME NEW p \in Procs, Begins(p) PROVE Known' /\ Taken'
  <2>1. PICK f \in FiberIds : f = Of(p) /\ f = Of(p)'
    BY <1>4, Sorts DEF Begins
  <2>2. /\ plugin' = plugin /\ parent' = parent /\ children' = children
        /\ pc'[p] = "unwind" /\ kids'[p] = Reverse(children[f])
        /\ \A q \in Procs \ {p} : Passes(q)
        /\ \A g \in FiberIds : state[g] = "DISPOSED" => state'[g] = "DISPOSED"
    BY <1>4, <2>1, Sorts DEF Begins, Passes
  <2>3. \A h \in FiberIds : Remaining(h)' \subseteq Remaining(h)
    BY <2>2, RemainingKept
  <2>4. TakenBy(p)'
    <3>1. Remaining(f)' \subseteq ToSet(children[f]) /\ Remaining(Of(p))' = Remaining(f)'
      BY <2>1, <2>3 DEF Known, Remaining
    <3>2. ToSet(children[f]) \subseteq ToSet(kids'[p])
      BY <2>2, Sorts, ReversedSet
    <3> QED
      BY <2>2, <3>1, <3>2 DEF TakenBy
  <2>5. \A q \in Procs : TakenBy(q)'
    BY <2>2, <2>3, <2>4, TakenKept
  <2> QED
    BY <2>2, <2>3, <2>5, KnownKept DEF Taken
<1>5. ASSUME NEW p \in Procs, Buries(p) PROVE Known' /\ Taken'
  <2>1. PICK f \in FiberIds : f = Of(p) /\ f = Of(p)'
    BY <1>5, Sorts DEF Buries
  <2>2. /\ plugin' = plugin /\ parent' = parent /\ children' = children /\ state' = state
        /\ pc[p] = "unwind" /\ pc'[p] = pc[p] /\ kids[p] # <<>> /\ kids'[p] = Tail(kids[p])
        /\ state[Head(kids[p])] = "DISPOSED"
        /\ \A q \in Procs \ {p} : Passes(q)
    BY <1>5 DEF Buries, Passes
  <2>3. \A h \in FiberIds : Remaining(h)' \subseteq Remaining(h)
    BY <2>2, RemainingKept
  <2>4. TakenBy(p)'
    <3>1. Remaining(f) \subseteq ToSet(kids[p]) /\ Head(kids[p]) \notin Remaining(f)
      BY <2>1, <2>2 DEF Taken, TakenBy, Remaining
    <3>2. ToSet(kids[p]) \subseteq {Head(kids[p])} \cup ToSet(Tail(kids[p]))
      BY <2>2, Sorts, TailSet
    <3>3. Remaining(Of(p))' = Remaining(f)'
      BY <2>1 DEF Remaining
    <3> QED
      BY <2>2, <2>3, <3>1, <3>2, <3>3 DEF TakenBy
  <2>5. \A q \in Procs : TakenBy(q)'
    BY <2>2, <2>3, <2>4, TakenKept
  <2> QED
    BY <2>2, <2>3, <2>5, KnownKept DEF Taken
<1>6. ASSUME NEW p \in Procs, Empties(p) PROVE Known' /\ Taken'
  <2>1. PICK f \in FiberIds : f = Of(p) /\ f = Of(p)'
    BY <1>6, Sorts DEF Empties
  <2>2. /\ plugin' = plugin /\ parent' = parent /\ state' = state
        /\ pc[p] = "unwind" /\ pc'[p] # "unwind" /\ kids[p] = <<>>
        /\ \A h \in FiberIds \ {f} : children'[h] = children[h]
        /\ \A q \in Procs \ {p} : Passes(q)
    BY <1>6, <2>1, Sorts DEF Empties
  <2>3. \A h \in FiberIds : Remaining(h)' \subseteq Remaining(h)
    BY <2>2, RemainingKept
  <2>4. Remaining(f) = {} /\ Remaining(f)' = {}
    <3>1. Remaining(f) \subseteq ToSet(<<>>)
      BY <2>1, <2>2 DEF Taken, TakenBy
    <3>2. ToSet(<<>>) = {}
      BY DEF ToSet
    <3> QED
      BY <2>3, <3>1, <3>2
  <2>5. TakenBy(p)'
    <3>1. Remaining(Of(p))' = Remaining(f)'
      BY <2>1 DEF Remaining
    <3> QED
      BY <2>2, <2>4, <3>1 DEF TakenBy
  <2>6. \A q \in Procs : TakenBy(q)'
    BY <2>2, <2>3, <2>5, TakenKept
  <2>7. Known'
    BY <2>2, <2>3, <2>4 DEF Known
  <2> QED
    BY <2>6, <2>7 DEF Taken
<1>7. ASSUME NEW p \in Procs, Releases(p) PROVE Known' /\ Taken'
  <2>1. PICK f \in FiberIds : f = Of(p) /\ f = Of(p)'
    BY <1>7, Sorts DEF Releases
  <2>2. /\ plugin' = plugin /\ parent' = parent /\ state' = state /\ children' = children
        /\ pc[p] = "scope" /\ pc'[p] # "unwind"
        /\ \A q \in Procs \ {p} : Passes(q)
    BY <1>7 DEF Releases
  <2>3. \A h \in FiberIds : Remaining(h)' \subseteq Remaining(h)
    BY <2>2, RemainingKept
  <2>4. TakenBy(p)'
    <3>1. Remaining(f) = {}
      BY <2>1, <2>2 DEF Taken, TakenBy
    <3>2. Remaining(Of(p))' = Remaining(f)' /\ Remaining(f)' = {}
      BY <2>1, <2>3, <3>1 DEF Remaining
    <3> QED
      BY <2>2, <3>2 DEF TakenBy
  <2>5. \A q \in Procs : TakenBy(q)'
    BY <2>2, <2>3, <2>4, TakenKept
  <2> QED
    BY <2>2, <2>3, <2>5, KnownKept DEF Taken
<1>8. ASSUME NEW p \in Procs, Ends(p) PROVE Known' /\ Taken'
  <2>1. PICK f \in FiberIds : f = Of(p)
    BY Sorts
  <2>2. /\ plugin' = plugin /\ parent' = parent /\ pc'[p] \notin Teardown
        /\ \A q \in Procs \ {p} : Passes(q)
    BY <1>8 DEF Ends
  <2>3. \A g \in FiberIds : state[g] = "DISPOSED" => state'[g] = "DISPOSED"
    BY <1>8, <2>1, Sorts DEF Ends
  <2>4. \A h \in FiberIds : Remaining(h)' \subseteq Remaining(h)
    BY <2>2, <2>3, RemainingKept
  <2>5. TakenBy(p)'
    BY <2>2 DEF TakenBy, Teardown
  <2>6. \A q \in Procs : TakenBy(q)'
    BY <2>2, <2>4, <2>5, TakenKept
  <2>7. Known'
    <3>1. CASE children' = children
      BY <2>4, <3>1, KnownKept
    <3>2. CASE children' # children
      <4>1. /\ children' = [children EXCEPT ![parent[f]] =
                 IF f = Root THEN children[parent[f]] ELSE Without(children[parent[f]], f)]
            /\ state'[f] = "DISPOSED" /\ parent[f] \in FiberIds
        BY <1>8, <2>1, <3>2, Sorts DEF Ends
      <4>2. /\ children'[parent[f]] \in {children[parent[f]], Without(children[parent[f]], f)}
            /\ \A h \in FiberIds \ {parent[f]} : children'[h] = children[h]
        BY <4>1, Sorts
      <4>3. \A h \in FiberIds : ToSet(children[h]) \ {f} \subseteq ToSet(children'[h])
        BY <4>2, Sorts, WithoutSet
      <4>4. \A h \in FiberIds : f \notin Remaining(h)'
        BY <4>1 DEF Remaining
      <4> QED
        BY <2>4, <4>3, <4>4 DEF Known
    <3> QED
      BY <3>1, <3>2
  <2> QED
    BY <2>6, <2>7 DEF Taken
<1> QED
  BY <1>1, <1>2, <1>3, <1>4, <1>5, <1>6, <1>7, <1>8 DEF Shape

----------------------------------------------------------------------------
(* The promise of Lifecycle *)

Life == [f \in FiberIds |-> IF Mounted(f) THEN state[f] ELSE "ABSENT"]

\* One instance moves from one state to another, and the tree stays.
LEMMA Moving ==
  ASSUME IInv, NEW f \in FiberIds, NEW to, Mounted(f),
         plugin' = plugin, parent' = parent, state' = [state EXCEPT ![f] = to]
  PROVE  Life[f] = state[f] /\ Life' = [Life EXCEPT ![f] = to] /\ parent' = parent
<1>1. \A g \in FiberIds : Mounted(g)' <=> Mounted(g)
  BY DEF Mounted
<1>2. state'[f] = to /\ \A g \in FiberIds \ {f} : state'[g] = state[g]
  BY Sorts
<1>3. Life' = [g \in FiberIds |-> IF Mounted(g)' THEN state'[g] ELSE "ABSENT"]
  BY DEF Life
<1>4. Life'[f] = to /\ \A g \in FiberIds \ {f} : Life'[g] = Life[g]
  BY <1>1, <1>2, <1>3 DEF Life
<1> QED
  BY <1>3, <1>4 DEF Life

\* Nobody moves.
LEMMA Resting ==
  ASSUME plugin' = plugin, parent' = parent, state' = state
  PROVE  UNCHANGED Promise!vars
  BY DEF Promise!vars, Mounted

\* Every shape of a step is a step of Lifecycle, or none.
LEMMA PromiseStep ==
  ASSUME IInv, Taken, Shape
  PROVE  [Promise!Next]_(Promise!vars)
<1>1. ASSUME NEW f \in FiberIds, NEW g \in FiberIds, Grows(f, g) PROVE Promise!Next
  <2>1. /\ g # Root /\ ~Mounted(g) /\ Mounted(f) /\ state' = state /\ state[f] \in Live
        /\ plugin'[g] # None /\ \A h \in FiberIds \ {g} : plugin'[h] = plugin[h]
        /\ parent' = [parent EXCEPT ![g] = f]
    BY <1>1, Sorts DEF Grows, Fresh
  <2>2. state[g] = "PENDING"
    BY <2>1, Facts DEF Enrolled
  <2>3. /\ Mounted(g)'
        /\ \A h \in FiberIds \ {g} : Mounted(h)' <=> Mounted(h)
    BY <2>1 DEF Mounted
  <2>4. Life' = [h \in FiberIds |-> IF Mounted(h)' THEN state[h] ELSE "ABSENT"]
    BY <2>1 DEF Life
  <2>5. Life' = [Life EXCEPT ![g] = "PENDING"]
    <3>1. Life'[g] = "PENDING" /\ \A h \in FiberIds \ {g} : Life'[h] = Life[h]
      BY <2>2, <2>3, <2>4 DEF Life
    <3> QED
      BY <2>4, <3>1 DEF Life
  <2>6. Life[f] \in Live /\ Life[g] = "ABSENT"
    BY <2>1 DEF Life
  <2>7. Promise!Mount(f, g)
    BY <2>1, <2>5, <2>6 DEF Promise!Mount, Promise!Live, Live, Life
  <2> QED
    BY <2>7 DEF Promise!Next
<1>2. ASSUME NEW f \in FiberIds, LoadsAt(f) \/ Returns(f) \/ Fails(f) PROVE Promise!Next
  <2>1. PICK to : /\ state' = [state EXCEPT ![f] = to] /\ Mounted(f)
                  /\ plugin' = plugin /\ parent' = parent
                  /\ \/ state[f] = "PENDING" /\ to = "LOADING"
                     \/ state[f] = "LOADING" /\ to \in {"ACTIVE", "FAILED"}
    BY <1>2 DEF LoadsAt, Returns, Fails
  <2>2. Life[f] = state[f] /\ Life' = [Life EXCEPT ![f] = to] /\ parent' = parent
    BY <2>1, Moving
  <2>3. Promise!Load(f) \/ Promise!Succeed(f) \/ Promise!Fail(f)
    BY <2>1, <2>2 DEF Promise!Load, Promise!Succeed, Promise!Fail, Promise!Moves, Life
  <2> QED
    BY <2>3 DEF Promise!Next
<1>3. ASSUME NEW p \in Procs, Begins(p), state' # state PROVE Promise!Next
  <2>1. PICK f \in FiberIds : f = Of(p)
    BY Sorts
  <2>2. /\ state' = [state EXCEPT ![f] = "UNLOADING"] /\ Mounted(f)
        /\ plugin' = plugin /\ parent' = parent
        /\ state[f] \in {"PENDING", "ACTIVE", "FAILED"}
    BY <1>3, <2>1 DEF Begins
  <2>3. Life[f] = state[f] /\ Life' = [Life EXCEPT ![f] = "UNLOADING"] /\ parent' = parent
    BY <2>2, Moving
  <2>4. Promise!Unload(f)
    BY <2>2, <2>3 DEF Promise!Unload, Promise!Moves, Life
  <2> QED
    BY <2>4 DEF Promise!Next
<1>4. ASSUME NEW p \in Procs, Ends(p), state' # state PROVE Promise!Next
  <2>1. PICK f \in FiberIds : f = Of(p)
    BY Sorts
  <2>2. PICK to : /\ state' = [state EXCEPT ![f] = to] /\ Mounted(f)
                  /\ plugin' = plugin /\ parent' = parent
                  /\ \/ state[f] = "LOADING" /\ to = "FAILED"
                     \/ state[f] = "UNLOADING" /\ to \in {"PENDING", "DISPOSED"}
    BY <1>4, <2>1 DEF Ends
  <2>3. Life[f] = state[f] /\ Life' = [Life EXCEPT ![f] = to] /\ parent' = parent
    BY <2>2, Moving
  <2>4. Remaining(f) = {}
    BY <1>4, <2>1 DEF Taken, TakenBy, Ends
  <2>5. \A g \in Promise!MountedUnder(f) : Life[g] = "DISPOSED"
    BY <2>4 DEF Promise!MountedUnder, Remaining, Life
  <2>6. Promise!Fail(f) \/ Promise!Land(f)
    BY <2>2, <2>3, <2>5 DEF Promise!Fail, Promise!Land, Promise!Moves, Life
  <2> QED
    BY <2>6 DEF Promise!Next
<1>5. ASSUME NEW f \in FiberIds, Aside \/ BindsAt(f) PROVE UNCHANGED Promise!vars
  BY <1>5, Resting DEF Aside, BindsAt
<1>6. ASSUME NEW p \in Procs,
             \/ Buries(p) \/ Empties(p) \/ Releases(p)
             \/ (Begins(p) \/ Ends(p)) /\ state' = state
      PROVE  UNCHANGED Promise!vars
  BY <1>6, Resting DEF Buries, Empties, Releases, Begins, Ends
<1>7. CASE Aside
  BY <1>7, Resting DEF Aside
<1> QED
  BY <1>1, <1>2, <1>3, <1>4, <1>5, <1>6, <1>7 DEF Shape

----------------------------------------------------------------------------
(* The steps and their shapes *)

\* A process that stays where it is, and one that moves on.
LEMMA Moved ==
  ASSUME IInv, op' = op, kids' = kids, NEW p \in Procs, NEW at,
         pc' = [pc EXCEPT ![p] = at]
  PROVE  /\ \A q \in Procs \ {p} : Same(q)
         /\ pc'[p] = at /\ Of(p)' = Of(p)
         /\ at \notin {"idle"} \cup Teardown => \A q \in Procs : Passes(q)
<1>1. pc'[p] = at /\ \A q \in Procs \ {p} : pc'[q] = pc[q]
  BY Sorts
<1>2. \A q \in Procs : Of(q)' = Of(q)
  BY OfKept
<1>3. \A q \in Procs \ {p} : Same(q)
  BY <1>1, <1>2 DEF Same
<1> QED
  BY <1>1, <1>2, <1>3 DEF Passes

LEMMA Unmoved ==
  ASSUME op' = op, kids' = kids, pc' = pc
  PROVE  \A q \in Procs : Same(q) /\ Passes(q)
  BY OfKept DEF Same, Passes

\* What a raise leaves of the others.
LEMMA Raised ==
  ASSUME IInv, op' = op, kids' = kids, NEW p \in Procs, Raise(p)
  PROVE  pc'[p] = "raised" /\ Of(p)' = Of(p) /\ \A q \in Procs : Passes(q)
<1>1. /\ pc'[p] = "raised"
      /\ \A q \in Procs \ {p} : pc'[q] = pc[q] \/ pc'[q] = "raised"
  BY Raising
<1>2. \A q \in Procs : Of(q)' = Of(q)
  BY OfKept
<1> QED
  BY <1>1, <1>2 DEF Passes, Same, Teardown

LEMMA EvaluateShapes ==
  ASSUME IInv, EvaluateLoads \/ EvaluateUnloads \/ EvaluateNothing
  PROVE  Shape
<1>1. CASE EvaluateLoads
  <2>1. This \in FiberIds /\ Mounted(This)
    BY <1>1, TopFacts DEF EvaluateLoads
  <2>2. /\ state[This] = "PENDING" /\ state' = [state EXCEPT ![This] = "LOADING"]
        /\ scope' = [scope EXCEPT ![This] = "open"]
        /\ loads' = [loads EXCEPT ![This] = loads[This] + 1]
        /\ UNCHANGED <<plugin, parent, children, bound>>
        /\ pc' = pc /\ kids' = kids /\ op' = op
    BY <1>1 DEF EvaluateLoads, LoadsNow, treeVars, procVars
  <2>3. LoadsAt(This)
    BY <2>1, <2>2, Unmoved DEF LoadsAt
  <2> QED
    BY <2>1, <2>3 DEF Shape
<1>2. CASE EvaluateUnloads
  <2>1. This \in FiberIds
    BY <1>2, TopFacts DEF EvaluateUnloads
  <2>2. /\ pc' = [pc EXCEPT ![Task(This)] = Scheduled]
        /\ UNCHANGED <<plugin, parent, children, state, scope, loads, bound>>
        /\ kids' = kids /\ op' = op
    BY <1>2 DEF EvaluateUnloads, treeVars, lifeVars
  <2>3. \A q \in Procs : Passes(q)
    BY <2>1, <2>2, Sorts, Moved DEF Scheduled, Teardown
  <2> QED
    BY <2>2, <2>3 DEF Aside, Shape
<1>3. CASE EvaluateNothing
  <2>1. UNCHANGED <<plugin, parent, children, state, scope, loads, bound, pc, kids, op>>
    BY <1>3 DEF EvaluateNothing, treeVars, lifeVars, procVars
  <2> QED
    BY <2>1, Unmoved DEF Aside, Shape
<1> QED
  BY <1>1, <1>2, <1>3

\* A mount, wherever it is made.
LEMMA MountShapes ==
  ASSUME IInv, NEW f \in FiberIds, NEW q \in Plugins, NEW rest, Mount(f, q, rest),
         Mounted(f), state[f] \in Live, Nursery(f), UNCHANGED <<state, loads, bound, pc, kids, op>>,
         pc[Task(f)] \notin Teardown \/ LateMount(f, q)
  PROVE  Shape
<1>1. PICK g \in Fresh :
        /\ plugin' = [plugin EXCEPT ![g] = q]
        /\ parent' = [parent EXCEPT ![g] = f]
        /\ children' = [children EXCEPT ![f] = Append(children[f], g)]
        /\ scope' = [scope EXCEPT ![g] = "open"]
  BY DEF Mount
<1>2. g \in FiberIds /\ g # Root /\ ~Mounted(g)
  BY DEF Fresh
<1>3. Grows(f, g)
  BY <1>1, <1>2, Unmoved DEF Grows
<1>4. pc[Task(f)] \notin Teardown \/ LateInUnwind(f)
  BY DEF LateInUnwind
<1> QED
  BY <1>2, <1>3, <1>4 DEF Shape

\* An unwind begins, with the state left alone or for an unload.
LEMMA Beginning ==
  ASSUME IInv, NEW p \in Procs, op' = op, Mounted(Of(p)),
         pc' = [pc EXCEPT ![p] = "unwind"],
         kids' = [kids EXCEPT ![p] = Reverse(children[Of(p)])],
         UNCHANGED <<plugin, parent, children, scope, loads, bound>>,
         \/ state' = state
         \/ /\ state[Of(p)] \in {"PENDING", "ACTIVE", "FAILED"}
            /\ state' = [state EXCEPT ![Of(p)] = "UNLOADING"]
  PROVE  Begins(p)
<1>1. pc'[p] = "unwind" /\ \A q \in Procs \ {p} : pc'[q] = pc[q]
  BY Sorts
<1>2. kids'[p] = Reverse(children[Of(p)]) /\ \A q \in Procs \ {p} : kids'[q] = kids[q]
  BY Sorts
<1>3. \A q \in Procs : Of(q)' = Of(q)
  BY OfKept
<1>4. \A q \in Procs \ {p} : Same(q)
  BY <1>1, <1>2, <1>3 DEF Same
<1>5. Of(p)' = Of(p)
  BY <1>3
<1> QED
  BY <1>1, <1>2, <1>4, <1>5 DEF Begins

LEMMA BodyShapes ==
  ASSUME IInv, BodyProvides \/ BodyMounts \/ BodyAwaits \/ BodyReturns \/ BodyRaises
  PROVE  Shape
<1>1. /\ This \in FiberIds /\ Mounted(This) /\ state[This] = "LOADING"
      /\ Still(This) \/ pc[Task(This)] = "running"
      /\ Task(This) \in Procs /\ Of(Task(This)) = This
  <2>1. Top("body")
    BY DEF BodyProvides, BodyMounts, BodyAwaits, BodyReturns, BodyRaises, BodyAt
  <2> QED
    BY <2>1, BodyFacts, Sorts
<1>2. CASE BodyProvides
  <2>1. /\ scope[This] = "open" /\ bound' = [bound EXCEPT ![NextStep(This).what] = <<This, loads[This]>>]
        /\ UNCHANGED <<plugin, parent, children, state, scope, loads, pc, kids, op>>
    BY <1>2 DEF BodyProvides, treeVars, procVars
  <2>2. NextStep(This).what \in Names
    BY <1>1, <1>2, ScriptTyped DEF BodyProvides, BodyAt
  <2>3. BindsAt(This)
    BY <1>1, <2>1, <2>2, Unmoved DEF BindsAt
  <2> QED
    BY <1>1, <2>3 DEF Shape
<1>3. CASE BodyMounts
  <2>1. NextStep(This).what \in Plugins
    BY <1>1, <1>3, ScriptTyped DEF BodyMounts, BodyAt
  <2>2. /\ Mount(This, NextStep(This).what, stack) /\ state[This] \in Live /\ Nursery(This)
        /\ UNCHANGED <<state, loads, bound, pc, kids, op>>
    BY <1>3 DEF BodyMounts, procVars
  <2>3. pc[Task(This)] \notin Teardown
    BY <1>1 DEF Still, Teardown
  <2> QED
    BY <1>1, <2>1, <2>2, <2>3, MountShapes
<1>4. CASE BodyAwaits
  <2>1. /\ \/ pc' = [pc EXCEPT ![Task(This)] = "body"]
           \/ pc' = [pc EXCEPT ![Task(This)] = Scheduled]
        /\ UNCHANGED <<plugin, parent, children, state, scope, loads, bound, kids, op>>
    BY <1>4 DEF BodyAwaits, treeVars
  <2>2. \A q \in Procs : Passes(q)
    BY <1>1, <2>1, Moved DEF Scheduled, Teardown
  <2> QED
    BY <2>1, <2>2 DEF Aside, Shape
<1>5. CASE BodyReturns
  <2>1. /\ state' = [state EXCEPT ![This] = "ACTIVE"]
        /\ pc' = [pc EXCEPT ![Task(This)] =
                    IF InFinish(This) THEN "idle" ELSE pc[Task(This)]]
        /\ UNCHANGED <<plugin, parent, children, scope, loads, bound, kids, op>>
    BY <1>5 DEF BodyReturns, treeVars
  <2>2. /\ \A q \in Procs \ {Task(This)} : Same(q)
        /\ pc'[Task(This)] = IF InFinish(This) THEN "idle" ELSE pc[Task(This)]
    BY <1>1, <2>1, Moved
  <2>3. pc'[Task(This)] \in {"idle", "raised"}
    BY <1>1, <2>2 DEF InFinish, Still
  <2>4. Returns(This)
    BY <1>1, <2>1, <2>2, <2>3 DEF Returns
  <2> QED
    BY <1>1, <2>4 DEF Shape
<1>6. CASE BodyRaises /\ InFinish(This)
  <2>1. PICK t \in Procs : t = Task(This) /\ Of(t) = This
    BY <1>1
  <2>2. /\ pc' = [pc EXCEPT ![t] = "unwind"]
        /\ kids' = [kids EXCEPT ![t] = Reverse(children[Of(t)])]
        /\ UNCHANGED <<plugin, parent, children, state, scope, loads, bound, op>>
    BY <1>6, <2>1 DEF BodyRaises, treeVars
  <2>3. Begins(t)
    BY <1>1, <2>1, <2>2, Beginning
  <2> QED
    BY <2>3 DEF Shape
<1>7. CASE BodyRaises /\ ~InFinish(This)
  <2>1. /\ state' = [state EXCEPT ![This] = "FAILED"]
        /\ pc' = [pc EXCEPT ![Task(This)] = Scheduled]
        /\ UNCHANGED <<plugin, parent, children, scope, loads, bound, kids, op>>
    BY <1>7 DEF BodyRaises, treeVars
  <2>2. /\ \A q \in Procs \ {Task(This)} : Same(q)
        /\ pc'[Task(This)] \in {"spawned", "held"}
    BY <1>1, <2>1, Moved DEF Scheduled
  <2>3. Fails(This)
    BY <1>1, <2>1, <2>2 DEF Fails
  <2> QED
    BY <1>1, <2>3 DEF Shape
<1> QED
  BY <1>2, <1>3, <1>4, <1>5, <1>6, <1>7

\* The end of an unwind: the scope closes next, has been closed before, or
\* raises again what it raised.
LEMMA CloseShape ==
  ASSUME IInv, NEW p \in Procs, CloseScope(p) PROVE Shape
<1>1. PICK f \in FiberIds : f = Of(p)
  BY Sorts
<1>2. /\ pc[p] = "unwind" /\ kids[p] = <<>> /\ op' = op /\ kids' = kids
      /\ children' = [children EXCEPT ![f] = <<>>]
      /\ UNCHANGED <<plugin, parent, state, loads, bound>>
  BY <1>1 DEF CloseScope, Closes
<1>3. scope[f] \in {"open", "closed", "broken"}
  <2>1. scope[f] # "none"
    BY <1>1, <1>2, TornDown, Facts DEF Teardown, Scoped
  <2>2. ASSUME scope[f] = "closing" PROVE FALSE
    <3>1. PICK q \in Procs : Of(q) = f /\ pc[q] = "scope"
      BY <2>2, Facts DEF Scoped
    <3> QED
      BY <1>1, <1>2, <3>1, OnlyOne DEF Teardown
  <2> QED
    BY <2>1, <2>2, Sorts
<1>4. Of(p)' = Of(p)
  BY <1>2, OfKept
<1>5. ASSUME scope[f] = "broken" PROVE Empties(p)
  <2>1. Raise(p) /\ scope' = scope
    BY <1>1, <1>5 DEF CloseScope
  <2>2. pc'[p] = "raised" /\ \A q \in Procs : Passes(q)
    BY <1>2, <2>1, Raised
  <2> QED
    BY <1>1, <1>2, <1>4, <2>1, <2>2 DEF Empties
<1>6. ASSUME scope[f] # "broken" PROVE Empties(p)
  <2>1. \/ /\ scope[f] = "open" /\ scope' = [scope EXCEPT ![f] = "closing"]
           /\ pc' = [pc EXCEPT ![p] = "scope"]
        \/ scope[f] = "closed" /\ scope' = scope /\ pc' = [pc EXCEPT ![p] = "emptied"]
    BY <1>1, <1>3, <1>6 DEF CloseScope
  <2>2. /\ \A q \in Procs \ {p} : Passes(q)
        /\ scope[f] = "open" => pc'[p] = "scope"
        /\ scope[f] = "closed" => pc'[p] = "emptied"
    BY <1>2, <2>1, Moved DEF Passes
  <2> QED
    BY <1>1, <1>2, <1>4, <2>1, <2>2 DEF Empties
<1> QED
  BY <1>5, <1>6 DEF Shape

\* The children and the scope of an unwind.
LEMMA UnwindShapes ==
  ASSUME IInv, NEW p \in Procs, Unwinding(p) PROVE Shape
<1>1. PICK f \in FiberIds : f = Of(p)
  BY Sorts
<1>2. CASE DisposeChild(p)
  <2>1. PICK d : d = Disposal(Head(kids[p]))
    OBVIOUS
  <2>2. /\ pc' = [pc EXCEPT ![d] = "spawned"] /\ kids' = kids /\ op' = op
        /\ UNCHANGED <<plugin, parent, children, state, scope, loads, bound>>
    BY <1>2, <2>1 DEF DisposeChild, treeVars, lifeVars
  <2>3. d \in Procs
    <3>1. Head(kids[p]) \in FiberIds
      BY <1>2, Sorts DEF DisposeChild
    <3> QED
      BY <2>1, <3>1, Processes
  <2>4. \A q \in Procs : Passes(q)
    <3>1. "spawned" \notin {"idle"} \cup Teardown
      BY DEF Teardown
    <3> QED
      BY <2>2, <2>3, <3>1, Moved
  <2> QED
    BY <2>2, <2>4 DEF Aside, Shape
<1>3. CASE ChildDisposed(p)
  <2>1. /\ pc[p] = "unwind" /\ kids[p] # <<>> /\ state[Head(kids[p])] = "DISPOSED"
        /\ kids' = [kids EXCEPT ![p] = Tail(kids[p])] /\ pc' = pc /\ op' = op
        /\ UNCHANGED <<plugin, parent, children, state, scope, loads, bound>>
    BY <1>3 DEF ChildDisposed, treeVars, lifeVars
  <2>2. kids'[p] = Tail(kids[p]) /\ \A q \in Procs \ {p} : kids'[q] = kids[q]
    BY <2>1, Sorts
  <2>3. Of(p)' = Of(p) /\ \A q \in Procs \ {p} : Same(q)
    BY <2>1, <2>2, OfKept DEF Same
  <2>4. Buries(p)
    BY <2>1, <2>2, <2>3 DEF Buries
  <2> QED
    BY <2>4 DEF Shape
<1>4. CASE ChildRaised(p)
  <2>1. /\ Raise(p) /\ kids' = kids /\ op' = op
        /\ UNCHANGED <<plugin, parent, children, state, scope, loads, bound>>
    BY <1>4 DEF ChildRaised, treeVars, lifeVars
  <2>2. \A q \in Procs : Passes(q)
    BY <2>1, Raised
  <2> QED
    BY <2>1, <2>2 DEF Aside, Shape
<1>5. CASE ReleaseScope(p)
  <2> DEFINE nested == {g \in Below(f) : scope[g] = "open"}
             names  == {n \in Names : bound[n] # None /\ bound[n][1] \in {f} \cup nested}
             closed == {f} \cup nested
  <2>1. /\ pc[p] = "scope" /\ kids' = kids /\ op' = op
        /\ bound' = [n \in Names |-> IF n \in names THEN None ELSE bound[n]]
        /\ UNCHANGED <<plugin, parent, children, state, loads>>
    BY <1>1, <1>5 DEF ReleaseScope, treeVars
  <2>2. PICK raises \in {FALSE, MayRaise} :
          /\ scope' = [g \in FiberIds |->
                        IF g = f /\ raises THEN "broken"
                        ELSE IF g \in {f} \cup nested THEN "closed" ELSE scope[g]]
          /\ IF raises THEN Raise(p)
             ELSE /\ pc' = [pc EXCEPT ![p] = "released"]
                  /\ UNCHANGED <<gate, evals>>
    BY <1>1, <1>5 DEF ReleaseScope
  <2>3. /\ closed \in SUBSET FiberIds /\ f \in closed /\ closed \subseteq {f} \cup Below(f)
        /\ \A g \in closed \ {f} : scope[g] = "open"
    BY DEF Below
  <2>4. bound' = [n \in Names |->
           IF bound[n] # None /\ bound[n][1] \in closed THEN None ELSE bound[n]]
    BY <2>1
  <2>5. /\ \A g \in FiberIds \ closed : scope'[g] = scope[g]
        /\ \A g \in closed \ {f} : scope'[g] = "closed"
        /\ ~raises => scope'[f] = "closed"
    BY <2>2, <2>3
  <2> HIDE DEF closed, names, nested
  <2>6. /\ raises => pc'[p] = "raised"
        /\ ~raises => pc'[p] = "released"
        /\ \A q \in Procs \ {p} : Passes(q)
    <3>1. CASE raises
      BY <2>1, <2>2, <3>1, Raised
    <3>2. CASE ~raises
      BY <2>1, <2>2, <3>2, Moved DEF Passes
    <3> QED
      BY <3>1, <3>2
  <2>7. Of(p)' = Of(p)
    BY <2>1, OfKept
  <2>8. \E shut \in SUBSET FiberIds :
          /\ Of(p) \in shut /\ shut \subseteq {Of(p)} \cup Below(Of(p))
          /\ \A g \in shut \ {Of(p)} : scope[g] = "open"
          /\ bound' = [n \in Names |->
               IF bound[n] # None /\ bound[n][1] \in shut THEN None ELSE bound[n]]
          /\ \A g \in FiberIds \ shut : scope'[g] = scope[g]
          /\ \A g \in shut \ {Of(p)} : scope'[g] = "closed"
    BY <1>1, <2>3, <2>4, <2>5
  <2>9. \/ pc'[p] = "released" /\ scope'[Of(p)] = "closed"
        \/ pc'[p] = "raised"
    BY <1>1, <2>5, <2>6
  <2>10. Releases(p)
    BY <2>1, <2>6, <2>7, <2>8, <2>9 DEF Releases
  <2> QED
    BY <2>10 DEF Shape
<1> QED
  BY <1>2, <1>3, <1>4, <1>5 DEF Unwinding

\* Whoever works on an instance works on one that has been mounted.
LEMMA WorksOnMounted ==
  ASSUME IInv, NEW p \in Procs, pc[p] # "idle" PROVE Mounted(Of(p))
<1>1. \A f \in FiberIds : ~Mounted(f) => pc[Task(f)] = "idle" /\ pc[Disposal(f)] = "idle"
  BY Facts DEF Enrolled, Lineage
<1>2. \A o \in Ops : Mounted(op[o].fiber)
  BY Facts DEF Enrolled
<1> QED
  BY <1>1, <1>2, Processes

\* A caller, or a disposal, at the gate and past it.
LEMMA GateShapes ==
  ASSUME IInv, NEW p \in Procs, Enter(p) \/ Proceed(p) PROVE Shape
<1>1. PICK f \in FiberIds : f = Of(p)
  BY Sorts
<1>2. CASE Enter(p)
  <2>1. PICK at \in {"done", "through", "quiet"} : pc' = [pc EXCEPT ![p] = at]
    BY <1>2 DEF Enter
  <2>2. UNCHANGED <<plugin, parent, children, state, scope, loads, bound, kids, op>>
    BY <1>2 DEF Enter, treeVars, lifeVars
  <2>3. at \notin {"idle"} \cup Teardown
    BY DEF Teardown
  <2>4. \A q \in Procs : Passes(q)
    BY <2>1, <2>2, <2>3, Moved
  <2> QED
    BY <2>2, <2>4 DEF Aside, Shape
<1>3. CASE Proceed(p) /\ state[f] = "DISPOSED"
  <2>1. /\ pc' = [pc EXCEPT ![p] = "done"]
        /\ UNCHANGED <<plugin, parent, children, state, scope, loads, bound, kids, op>>
    BY <1>1, <1>3 DEF Proceed, treeVars
  <2>2. "done" \notin {"idle"} \cup Teardown
    BY DEF Teardown
  <2>3. \A q \in Procs : Passes(q)
    BY <2>1, <2>2, Moved
  <2> QED
    BY <2>1, <2>3 DEF Aside, Shape
<1>4. CASE Proceed(p) /\ state[f] # "DISPOSED"
  <2>1. /\ pc[p] \in {"through", "quiet"}
        /\ pc[p] = "quiet" => Quiet(f)
        /\ pc' = [pc EXCEPT ![p] = "unwind"]
        /\ kids' = [kids EXCEPT ![p] = Reverse(children[f])]
        /\ state' = [state EXCEPT ![f] = "UNLOADING"]
        /\ UNCHANGED <<plugin, parent, children, scope, loads, bound, op>>
    BY <1>1, <1>4 DEF Proceed, BeginUnload, treeVars
  <2>2. Rests(f)
    <3>1. CASE pc[p] = "quiet"
      BY <2>1, <3>1 DEF Quiet
    <3>2. CASE pc[p] = "through"
      BY <1>1, <3>2, NotTask, Facts DEF Gated, PastGate
    <3> QED
      BY <2>1, <3>1, <3>2
  <2>3. state[f] \in {"PENDING", "ACTIVE", "FAILED"}
    BY <1>4, <2>2 DEF Rests, Settled
  <2>4. Mounted(f)
    BY <1>1, <2>1, WorksOnMounted
  <2>5. Begins(p)
    BY <1>1, <2>1, <2>3, <2>4, Beginning
  <2> QED
    BY <2>5 DEF Shape
<1> QED
  BY <1>2, <1>3, <1>4

\* PENDING again, after an unload.
LEMMA LandedPending ==
  ASSUME IInv, NEW p \in Procs, pc[p] \in {"released", "emptied"}, NEW f \in FiberIds,
         f = Of(p), state[f] = "UNLOADING", LandPending(f), pc'[p] \notin Teardown,
         UNCHANGED <<plugin, parent, children, loads, bound>>,
         \A q \in Procs \ {p} : Passes(q)
  PROVE  Ends(p)
<1>1. Mounted(f)
  BY WorksOnMounted
<1>2. /\ state' = [state EXCEPT ![f] = "PENDING"]
      /\ scope' = scope \/ scope' = [scope EXCEPT ![f] = "open"]
  <2>1. CASE CanOpen(f)
    BY <2>1 DEF LandPending
  <2>2. CASE ~CanOpen(f)
    BY <2>2, Sorts DEF LandPending
  <2> QED
    BY <2>1, <2>2 DEF LandPending
<1> QED
  BY <1>1, <1>2 DEF Ends

\* The end of an unload, of a release and of a disposal.
LEMMA LandShapes ==
  ASSUME IInv, NEW p \in Procs, Lands(p) PROVE Shape
<1>1. PICK f \in FiberIds : f = Of(p)
  BY Sorts
<1>2. {"idle", "raised", "settle", "done"} \cap Teardown = {} /\ {"released", "emptied"} \subseteq Teardown
  BY DEF Teardown
<1>3. CASE p = Task(f) /\ TaskLands(f)
  <2>1. /\ pc[p] \in {"released", "emptied"} /\ Row(f)
        /\ UNCHANGED <<plugin, parent, children, loads, bound, kids, op>>
    BY <1>3, Facts DEF TaskLands, TaskTable, treeVars
  <2>2. \/ work[f] \in {"unload", "reload"} /\ state[f] = "UNLOADING"
        \/ work[f] = "release" /\ state[f] = "FAILED"
        \/ work[f] = "finish" /\ state[f] = "LOADING"
    BY <1>3, <2>1 DEF Row, Still, Teardown
  <2>3. pc'[p] \notin Teardown /\ \A q \in Procs \ {p} : Passes(q)
    <3>1. \/ Raise(p)
          \/ pc' = [pc EXCEPT ![p] = "idle"]
      BY <1>3 DEF TaskLands
    <3>2. CASE Raise(p)
      BY <1>2, <2>1, <3>2, Raised
    <3>3. CASE pc' = [pc EXCEPT ![p] = "idle"]
      BY <1>2, <2>1, <3>3, Moved DEF Passes
    <3> QED
      BY <3>1, <3>2, <3>3
  <2>4. CASE work[f] \in {"unload", "reload"}
    <3>1. state[f] = "UNLOADING" /\ LandPending(f)
      BY <1>3, <2>2, <2>4 DEF TaskLands
    <3>2. Ends(p)
      BY <1>1, <2>1, <2>3, <3>1, LandedPending
    <3> QED
      BY <3>2 DEF Shape
  <2>5. CASE work[f] \in {"finish", "release"}
    <3>1. /\ \/ state' = state
             \/ state[f] = "LOADING" /\ state' = [state EXCEPT ![f] = "FAILED"]
          /\ scope' = scope
      BY <1>3, <2>2, <2>5 DEF TaskLands
    <3>2. Mounted(f)
      BY <1>1, <2>1, WorksOnMounted
    <3>3. Ends(p)
      BY <1>1, <2>1, <2>3, <3>1, <3>2 DEF Ends
    <3> QED
      BY <3>3 DEF Shape
  <2> QED
    BY <2>2, <2>4, <2>5
<1>4. CASE p = Disposal(f) /\ DisposalLands(f)
  <2>1. /\ pc[p] \in {"released", "emptied"} /\ pc' = [pc EXCEPT ![p] = "done"]
        /\ state' = [state EXCEPT ![f] = "DISPOSED"]
        /\ children' = [children EXCEPT ![parent[f]] =
             IF f = Root THEN @ ELSE Without(@, f)]
        /\ UNCHANGED <<plugin, parent, scope, loads, bound, kids, op>>
    BY <1>4 DEF DisposalLands
  <2>2. pc'[p] \notin Teardown /\ \A q \in Procs \ {p} : Passes(q)
    BY <1>2, <2>1, Moved DEF Passes
  <2>3. state[f] = "UNLOADING" /\ Mounted(f)
    BY <1>1, <1>2, <1>4, <2>1, TornDown, Processes
  <2>4. Ends(p)
    BY <1>1, <2>1, <2>2, <2>3 DEF Ends
  <2> QED
    BY <2>4 DEF Shape
<1>5. CASE \E o \in Ops : p = Caller(o) /\ CallerLands(o)
  <2>1. PICK o \in Ops : p = Caller(o) /\ CallerLands(o)
    BY <1>5
  <2>2. /\ pc[p] \in {"released", "emptied"} /\ LandPending(f)
        /\ Raise(p) \/ pc' = [pc EXCEPT ![p] = "settle"]
        /\ UNCHANGED <<plugin, parent, children, loads, bound, kids, op>>
    BY <1>1, <2>1 DEF CallerLands, treeVars
  <2>3. pc'[p] \notin Teardown /\ \A q \in Procs \ {p} : Passes(q)
    <3>1. CASE Raise(p)
      BY <1>2, <2>2, <3>1, Raised
    <3>2. CASE pc' = [pc EXCEPT ![p] = "settle"]
      BY <1>2, <2>2, <3>2, Moved DEF Passes
    <3> QED
      BY <2>2, <3>1, <3>2
  <2>4. state[f] = "UNLOADING"
    BY <1>1, <1>2, <2>1, <2>2, TornDown, Processes
  <2>5. Ends(p)
    BY <1>1, <2>2, <2>3, <2>4, LandedPending
  <2> QED
    BY <2>5 DEF Shape
<1>6. \/ p = Task(f) /\ TaskLands(f)
      \/ p = Disposal(f) /\ DisposalLands(f)
      \/ \E o \in Ops : p = Caller(o) /\ CallerLands(o)
  <2>1. ASSUME NEW g \in FiberIds, (p = Task(g) /\ TaskLands(g)) \/ (p = Disposal(g) /\ DisposalLands(g))
        PROVE  g = f
    BY <1>1, <2>1, Processes
  <2> QED
    BY <2>1 DEF Lands
<1> QED
  BY <1>3, <1>4, <1>5, <1>6

\* A task that the event loop takes, and the evaluations that wait.
LEMMA TaskShapes ==
  ASSUME IInv, NEW f \in FiberIds, Tasks(f) PROVE Shape
<1>1. PICK t \in Procs : t = Task(f) /\ Of(t) = f
  BY Processes
<1>2. {"running", "spawned"} \cap ({"idle"} \cup Teardown) = {}
  BY DEF Teardown
<1>3. CASE StartTask(f)
  <2>1. /\ pc[t] = "spawned" /\ UNCHANGED <<plugin, parent, children, scope, loads, bound, op>>
        /\ Mounted(f) /\ Row(f)
    <3>1. pc[t] = "spawned" /\ UNCHANGED <<plugin, parent, children, scope, loads, bound, op>>
      BY <1>1, <1>3 DEF StartTask, treeVars
    <3> QED
      BY <1>1, <3>1, WorksOnMounted, Facts DEF TaskTable
  <2>2. \/ work[f] \in {"unload", "reload"} /\ state[f] = "ACTIVE"
        \/ work[f] = "release" /\ state[f] = "FAILED"
        \/ work[f] = "finish" /\ state[f] = "LOADING"
    BY <1>1, <2>1 DEF Row, Still, Teardown
  <2>3. CASE work[f] \in {"unload", "reload"}
    <3>1. /\ state' = [state EXCEPT ![f] = "UNLOADING"]
          /\ kids' = [kids EXCEPT ![t] = Reverse(children[f])]
          /\ pc' = [pc EXCEPT ![t] = "unwind"]
      BY <1>1, <1>3, <2>3 DEF StartTask, BeginUnload
    <3>2. Begins(t)
      BY <1>1, <2>1, <2>2, <2>3, <3>1, Beginning
    <3> QED
      BY <3>2 DEF Shape
  <2>4. CASE work[f] = "release"
    <3>1. /\ state' = state /\ pc' = [pc EXCEPT ![t] = "unwind"]
          /\ kids' = [kids EXCEPT ![t] = Reverse(children[f])]
      BY <1>1, <1>3, <2>4 DEF StartTask
    <3>2. Begins(t)
      BY <1>1, <2>1, <3>1, Beginning
    <3> QED
      BY <3>2 DEF Shape
  <2>5. CASE work[f] = "finish"
    <3>1. state' = state /\ kids' = kids /\ pc' = [pc EXCEPT ![t] = "running"]
      BY <1>1, <1>3, <2>5 DEF StartTask
    <3>2. \A q \in Procs : Passes(q)
      BY <1>2, <2>1, <3>1, Moved
    <3> QED
      BY <2>1, <3>1, <3>2 DEF Aside, Shape
  <2> QED
    BY <2>2, <2>3, <2>4, <2>5
<1>4. CASE BodyResumes(f) \/ StartHeld(f)
  <2>1. /\ \E at \in {"running", "spawned"} : pc' = [pc EXCEPT ![t] = at]
        /\ UNCHANGED <<plugin, parent, children, state, scope, loads, bound, kids, op>>
    BY <1>1, <1>4 DEF BodyResumes, StartHeld, treeVars, lifeVars
  <2>2. \A q \in Procs : Passes(q)
    BY <1>2, <2>1, Moved
  <2> QED
    BY <2>1, <2>2 DEF Aside, Shape
<1>5. CASE EvaluationStarts(f) \/ EvaluationProceeds(f) \/ Reconcile(f)
  <2>1. UNCHANGED <<plugin, parent, children, state, scope, loads, bound, pc, kids, op>>
    BY <1>5 DEF EvaluationStarts, EvaluationProceeds, Reconcile, treeVars, lifeVars, procVars
  <2> QED
    BY <2>1, Unmoved DEF Aside, Shape
<1> QED
  BY <1>3, <1>4, <1>5 DEF Tasks

\* What callers do but for the gate.
LEMMA CallerShapes ==
  ASSUME IInv, NEW o \in Ops, Calls(o) \/ Cancel(o) PROVE Shape
<1>1. PICK p \in Procs : p = Caller(o)
  BY Processes
<1>2. {"done", "raised", "cancelled"} \cap ({"idle"} \cup Teardown) = {}
  BY DEF Teardown
<1>3. /\ \E at \in {"done", "raised", "cancelled"} : pc' = [pc EXCEPT ![p] = at]
      /\ UNCHANGED <<plugin, parent, children, state, scope, loads, bound, kids, op>>
  <2>1. CASE Settles(o)
    BY <1>1, <2>1 DEF Settles, treeVars, lifeVars
  <2>2. CASE DisposeReturns(o)
    BY <1>1, <2>2 DEF DisposeReturns, treeVars, lifeVars
  <2>3. CASE Cancel(o)
    BY <1>1, <2>3 DEF Cancel, treeVars, lifeVars
  <2> QED
    BY <2>1, <2>2, <2>3 DEF Calls
<1>4. \A q \in Procs : Passes(q)
  BY <1>2, <1>3, Moved
<1> QED
  BY <1>3, <1>4 DEF Aside, Shape

\* A call is made: its process may get another instance to work on, and is past
\* idle from then on.
LEMMA IssueShape ==
  ASSUME IInv, NEW o \in Ops, NEW kind \in Kinds, NEW f \in FiberIds,
         NEW c \in Configs, Issue(o, kind, f, c)
  PROVE  Shape
<1>1. PICK p \in Procs : p = Caller(o)
  BY Processes
<1>2. PICK d \in Procs : d = Disposal(f)
  BY Processes
<1>3. {"settle", "enter", "gate", "done", "disposal", "spawned"} \cap ({"idle"} \cup Teardown) = {}
  BY DEF Teardown
<1>4. /\ pc'[p] \in {"settle", "enter", "gate", "done", "disposal"}
      /\ pc'[d] = pc[d] \/ pc'[d] = "spawned"
      /\ \A q \in Procs \ {p, d} : pc'[q] = pc[q]
  BY <1>1, <1>2, Issued
<1>5. UNCHANGED <<plugin, parent, children, state, scope, loads, bound, kids>>
  BY DEF Issue, treeVars
<1>6. \A q \in Procs \ {p} : Of(q)' = Of(q)
  <2>1. \A r \in Ops \ {o} : op'[r] = op[r]
    BY Facts DEF Issue, ProcTypes
  <2>2. \A g \in FiberIds : Of(Task(g))' = Of(Task(g)) /\ Of(Disposal(g))' = Of(Disposal(g))
    BY DEF Of, Task, Disposal
  <2>3. \A r \in Ops \ {o} : Of(Caller(r))' = Of(Caller(r))
    BY <2>1 DEF Of, Caller
  <2> QED
    BY <1>1, <2>2, <2>3, Processes
<1>7. \A q \in Procs \ {p} : Passes(q)
  BY <1>3, <1>4, <1>5, <1>6 DEF Passes, Same
<1>8. Passes(p)
  BY <1>3, <1>4 DEF Passes
<1> QED
  BY <1>5, <1>7, <1>8 DEF Aside, Shape

\* The root has nobody to unwind it in a task while it is live.
LEMMA HostShape ==
  ASSUME IInv, RootSound, NEW q \in TopLevel, HostMount(q) PROVE Shape
<1>1. /\ Root \in FiberIds /\ Mounted(Root) /\ q \in Plugins
      /\ Mount(Root, q, <<>>) /\ state[Root] \in Live /\ Nursery(Root)
      /\ UNCHANGED <<state, loads, bound, pc, kids, op>>
  <2>1. Root \in FiberIds
    BY FiberAssumption DEF Root, FiberIds
  <2> QED
    BY <2>1, FiberAssumption DEF HostMount, procVars, Mounted
<1>2. pc[Task(Root)] \notin Teardown
  <2>1. Row(Root)
    BY <1>1, Facts DEF TaskTable
  <2> QED
    BY <1>1, <2>1 DEF Row, RootSound, Live, Still, Teardown
<1> QED
  BY <1>1, <1>2, MountShapes

\* Every step of Fiber has a shape.
LEMMA Shapes == IInv /\ RootSound /\ [Next]_vars => Shape
<1> SUFFICES ASSUME IInv, RootSound, [Next]_vars PROVE Shape
  OBVIOUS
<1>1. CASE Synchronous
  BY <1>1, EvaluateShapes, BodyShapes DEF Synchronous
<1>2. CASE StartLoop \/ UNCHANGED vars
  <2>1. UNCHANGED <<plugin, parent, children, state, scope, loads, bound, pc, kids, op>>
    BY <1>2 DEF StartLoop, vars, treeVars, lifeVars, procVars
  <2> QED
    BY <2>1, Unmoved DEF Aside, Shape
<1>3. CASE Running
  BY <1>1, <1>3, CloseShape, GateShapes, LandShapes DEF Running
<1>4. CASE Ready
  BY <1>4, TaskShapes, UnwindShapes, GateShapes, LandShapes, CallerShapes DEF Ready
<1>5. ASSUME NEW f \in FiberIds, NEW q \in Plugins, LateMount(f, q) PROVE Shape
  <2>1. /\ Mounted(f) /\ Mount(f, q, <<>>) /\ state[f] \in Live /\ Nursery(f)
        /\ UNCHANGED <<state, loads, bound, pc, kids, op>>
    <3>1. plugin[f] # None
      BY <1>5, FiberAssumption DEF LateMount
    <3> QED
      BY <1>5, <3>1 DEF LateMount, procVars, Mounted
  <2> QED
    BY <1>5, <2>1, MountShapes
<1>6. CASE Environment
  BY <1>5, <1>6, HostShape, CallerShapes, IssueShape DEF Environment, Outside
<1> QED
  BY <1>2, <1>3, <1>4, <1>6 DEF Next, Loop

----------------------------------------------------------------------------
(* What is below an instance *)

\* Instances are numbered as they are mounted.
LEMMA GrownStep == ASSUME IInv, Grown, Shape PROVE Grown'
<1>1. ASSUME NEW f \in FiberIds, NEW g \in FiberIds, Grows(f, g) PROVE Grown'
  <2>1. /\ g \in Fresh /\ g # Root /\ ~Mounted(g) /\ Mounted(f)
        /\ \A h \in FiberIds \ {g} : plugin'[h] = plugin[h] /\ parent'[h] = parent[h]
        /\ parent'[g] = f
    BY <1>1, Sorts DEF Grows, Fresh
  <2>2. f \in Nat /\ g \in Nat /\ FiberIds \subseteq Nat /\ 1..(g - 1) \subseteq FiberIds
    BY FiberAssumption DEF FiberIds
  <2>3. f < g
    <3>1. g \notin 1..(f - 1)
      BY <2>1 DEF Grown
    <3>2. g > 0
      BY <2>1, <2>2 DEF Root
    <3>3. f # g
      BY <2>1
    <3> QED
      BY <2>2, <3>1, <3>2, <3>3
  <2>4. \A h \in FiberIds \ {g} : Mounted(h) <=> Mounted(h)'
    BY <2>1 DEF Mounted
  <2>5. \A h \in 1..(g - 1) : Mounted(h)'
    BY <2>1, <2>2, <2>4 DEF Fresh
  <2>6. ASSUME NEW k \in FiberIds, Mounted(k)', NEW h \in 1..(k - 1) PROVE Mounted(h)'
    <3>1. CASE k = g
      BY <2>5, <3>1
    <3>2. CASE k # g
      <4>1. Mounted(h) /\ h # g
        BY <2>1, <2>4, <2>6, <3>2 DEF Grown
      <4>2. h \in FiberIds
        BY <2>6, FiberAssumption DEF FiberIds
      <4> QED
        BY <2>4, <4>1, <4>2
    <3> QED
      BY <3>1, <3>2
  <2>7. ASSUME NEW k \in FiberIds \ {Root}, Mounted(k)' PROVE parent'[k] < k
    BY <2>1, <2>3, <2>4, <2>7 DEF Grown
  <2> QED
    BY <2>6, <2>7 DEF Grown
<1>2. CASE plugin' = plugin /\ parent' = parent
  BY <1>2 DEF Grown, Mounted
<1>3. (\E f, g \in FiberIds : Grows(f, g)) \/ (plugin' = plugin /\ parent' = parent)
  BY DEF Shape, Aside, LoadsAt, BindsAt, Returns, Fails, Begins, Buries, Empties, Releases, Ends
<1> QED
  BY <1>1, <1>2, <1>3

\* DISPOSED is terminal.
LEMMA Terminal ==
  ASSUME IInv, Shape
  PROVE  \A g \in FiberIds : state[g] = "DISPOSED" => state'[g] = "DISPOSED"
<1>1. ASSUME NEW f \in FiberIds, LoadsAt(f) \/ BindsAt(f) \/ Returns(f) \/ Fails(f)
      PROVE  \A g \in FiberIds : state[g] = "DISPOSED" => state'[g] = "DISPOSED"
  BY <1>1, Sorts DEF LoadsAt, BindsAt, Returns, Fails
<1>2. ASSUME NEW p \in Procs, Begins(p) \/ Ends(p)
      PROVE  \A g \in FiberIds : state[g] = "DISPOSED" => state'[g] = "DISPOSED"
  <2>1. PICK f \in FiberIds : f = Of(p)
    BY Sorts
  <2> QED
    BY <1>2, <2>1, Sorts DEF Begins, Ends
<1>3. CASE state' = state
  BY <1>3
<1>4. \/ state' = state
      \/ \E f \in FiberIds : LoadsAt(f) \/ BindsAt(f) \/ Returns(f) \/ Fails(f)
      \/ \E p \in Procs : Begins(p) \/ Ends(p)
  BY DEF Shape, Aside, Grows, Buries, Empties, Releases
<1> QED
  BY <1>1, <1>2, <1>3, <1>4

\* An unload is over, and an instance is disposed, when its unwind has come to
\* its end.
LEMMA Disposing ==
  ASSUME IInv, Shape, NEW f \in FiberIds, state'[f] # state[f],
         state[f] = "UNLOADING" \/ state'[f] = "DISPOSED"
  PROVE  \E p \in Procs : Ends(p) /\ Of(p) = f
<1>1. ASSUME NEW g \in FiberIds, LoadsAt(g) \/ BindsAt(g) \/ Returns(g) \/ Fails(g) PROVE FALSE
  BY <1>1, Sorts DEF LoadsAt, BindsAt, Returns, Fails
<1>2. ASSUME NEW p \in Procs, Begins(p) PROVE FALSE
  <2>1. PICK g \in FiberIds : g = Of(p)
    BY Sorts
  <2> QED
    BY <1>2, <2>1, Sorts DEF Begins
<1>3. PICK p \in Procs : Ends(p)
  BY <1>1, <1>2 DEF Shape, Aside, Grows, Buries, Empties, Releases
<1>4. PICK g \in FiberIds : g = Of(p)
  BY Sorts
<1>5. \A h \in FiberIds \ {g} : state'[h] = state[h]
  BY <1>3, <1>4, Sorts DEF Ends
<1> QED
  BY <1>3, <1>4, <1>5

\* An instance is disposed once nothing is left below it, and nothing is mounted
\* under it then.
LEMMA GoneStep == ASSUME IInv, Taken, Gone, Shape PROVE Gone'
<1>1. ASSUME NEW h \in FiberIds, state[h] = "DISPOSED", NEW f \in FiberIds, NEW g \in FiberIds,
             Grows(f, g)
      PROVE  Remaining(h)' \subseteq Remaining(h)
  <2>1. /\ ~Mounted(g) /\ state' = state /\ h # f /\ parent'[g] = f
        /\ \A k \in FiberIds \ {g} : plugin'[k] = plugin[k] /\ parent'[k] = parent[k]
    BY <1>1, Sorts DEF Grows, Fresh, Live
  <2> QED
    BY <2>1 DEF Remaining, Mounted
<1>2. ASSUME NEW h \in FiberIds, state[h] = "DISPOSED",
             \A f, g \in FiberIds : ~Grows(f, g)
      PROVE  Remaining(h)' \subseteq Remaining(h)
  <2>1. plugin' = plugin /\ parent' = parent
    BY <1>2 DEF Shape, Aside, LoadsAt, BindsAt, Returns, Fails, Begins, Buries, Empties,
                Releases, Ends
  <2>2. \A g \in FiberIds : state[g] = "DISPOSED" => state'[g] = "DISPOSED"
    BY <1>2, Terminal
  <2> QED
    BY <2>1, <2>2, RemainingKept
<1>3. ASSUME NEW h \in FiberIds, state[h] # "DISPOSED", state'[h] = "DISPOSED"
      PROVE  Remaining(h)' = {}
  <2>1. PICK p \in Procs : Ends(p) /\ Of(p) = h
    BY <1>3, Disposing
  <2>2. Remaining(h) = {}
    BY <2>1 DEF Ends, Taken, TakenBy
  <2>3. plugin' = plugin /\ parent' = parent
    BY <2>1 DEF Ends
  <2>4. \A g \in FiberIds : state[g] = "DISPOSED" => state'[g] = "DISPOSED"
    BY Terminal
  <2> QED
    BY <2>2, <2>3, <2>4, RemainingKept
<1>4. \A g \in FiberIds : state[g] = "DISPOSED" => state'[g] = "DISPOSED"
  BY Terminal
<1> QED
  BY <1>1, <1>2, <1>3 DEF Gone

\* The order the instances are numbered in.
Less == {ss \in Nat \X Nat : ss[1] < ss[2]}

\* The least-number principle, for a set.
LEMMA Least ==
  ASSUME NEW S \in SUBSET Nat, S # {} PROVE \E n \in S : \A m \in S : n <= m
<1>1. IsWellFoundedOn(Less, Nat)
  BY NatLessThanWellFounded DEF OpToRel, Less
<1>2. PICK n \in S : \A m \in S : ~(<<m, n>> \in Less)
  BY <1>1, WFMin
<1>3. \A m \in S : n \in Nat /\ m \in Nat /\ ~(m < n)
  BY <1>2 DEF Less
<1> QED
  BY <1>3

\* The recursion of Below has a solution: the least set that is closed under it.
LEMMA Solvable ==
  ASSUME NEW f \in FiberIds, parent \in [FiberIds -> FiberIds]
  PROVE  \E under : under = [g \in FiberIds |->
           g # Root /\ Mounted(g) /\ (parent[g] = f \/ under[parent[g]])]
<1> DEFINE Holds(S, g) == g # Root /\ Mounted(g) /\ (parent[g] = f \/ parent[g] \in S)
           Closed == {S \in SUBSET FiberIds : \A g \in FiberIds : Holds(S, g) => g \in S}
           T == {g \in FiberIds : \A S \in Closed : g \in S}
           h == [g \in FiberIds |-> g \in T]
<1>1. T \in Closed
  OBVIOUS
<1>2. \A g \in FiberIds : Holds(T, g) => g \in T
  BY <1>1
<1> DEFINE R == {g \in FiberIds : Holds(T, g)}
<1>3. R \in Closed
  BY <1>2
<1>4. \A g \in FiberIds : g \in T <=> Holds(T, g)
  BY <1>2, <1>3
<1>5. \A g \in FiberIds : h[g] <=> g \in T
  OBVIOUS
<1>6. h \in [FiberIds -> BOOLEAN]
  OBVIOUS
<1>7. \A g \in FiberIds : h[parent[g]] <=> parent[g] \in T
  BY <1>5
<1> HIDE DEF T, h
<1>8. ASSUME NEW g \in FiberIds
      PROVE  h[g] <=> g # Root /\ Mounted(g) /\ (parent[g] = f \/ h[parent[g]])
  BY <1>4, <1>5, <1>7
<1>9. h = [g \in FiberIds |-> g # Root /\ Mounted(g) /\ (parent[g] = f \/ h[parent[g]])]
  <2>1. \A g \in FiberIds :
           h[g] = (g # Root /\ Mounted(g) /\ (parent[g] = f \/ h[parent[g]]))
    BY <1>6, <1>8
  <2> QED
    BY <1>6, <2>1
<1> QED
  BY <1>9

\* So Below is what it says.
LEMMA BelowUnfolds ==
  ASSUME NEW f \in FiberIds, parent \in [FiberIds -> FiberIds]
  PROVE  /\ Below(f) \subseteq FiberIds
         /\ \A g \in FiberIds :
              g \in Below(f) <=>
                g # Root /\ Mounted(g) /\ (parent[g] = f \/ parent[g] \in Below(f))
<1> DEFINE under == CHOOSE under : under = [g \in FiberIds |->
             g # Root /\ Mounted(g) /\ (parent[g] = f \/ under[parent[g]])]
<1>1. under = [g \in FiberIds |->
                g # Root /\ Mounted(g) /\ (parent[g] = f \/ under[parent[g]])]
  BY Solvable, Zenon
<1>2. Below(f) = {g \in FiberIds : under[g]}
  BY DEF Below
<1> QED
  BY <1>1, <1>2

\* Where nothing is left directly under an instance, nothing is left below it.
LEMMA BelowGone ==
  ASSUME IInv, Grown, Gone, NEW f \in FiberIds, Remaining(f) = {}
  PROVE  \A g \in Below(f) : state[g] = "DISPOSED"
<1> DEFINE T == {g \in Below(f) : state[g] # "DISPOSED"}
<1>1. parent \in [FiberIds -> FiberIds]
  BY Sorts
<1>2. T \in SUBSET Nat /\ FiberIds \subseteq Nat
  BY <1>1, BelowUnfolds DEF FiberIds
<1>3. ASSUME T # {} PROVE FALSE
  <2>1. PICK n \in T : \A m \in T : n <= m
    BY <1>2, <1>3, Least
  <2>2. /\ n \in FiberIds \ {Root} /\ Mounted(n) /\ state[n] # "DISPOSED"
        /\ parent[n] = f \/ parent[n] \in Below(f)
    BY <1>1, <2>1, BelowUnfolds
  <2>3. n \in Remaining(parent[n])
    BY <2>2 DEF Remaining
  <2>4. parent[n] \in FiberIds /\ parent[n] < n
    BY <1>1, <2>2 DEF Grown
  <2>5. parent[n] \notin T
    BY <1>2, <2>1, <2>4
  <2>6. parent[n] \in Below(f) => state[parent[n]] = "DISPOSED"
    BY <2>5
  <2>7. state[parent[n]] # "DISPOSED"
    BY <2>3, <2>4 DEF Gone
  <2> QED
    BY <2>2, <2>3, <2>6, <2>7
<1> QED
  BY <1>3

----------------------------------------------------------------------------
(* The theorems *)

\* What holds of every tree, and what holds as long as nobody mounts from outside
\* under an instance whose failed body is being unwound.
Sound    == IInv /\ RootSound /\ Owned /\ Emptied /\ Grown
Together == Known /\ Taken /\ Gone

\* Nobody mounts from outside where a failed body is being unwound.
Punctual == \A f \in FiberIds : ~LateInUnwind(f)

LEMMA InitSound == Init => Sound
<1> SUFFICES ASSUME Init PROVE Sound
  OBVIOUS
<1>1. IInv
  BY InitIInv
<1>2. Root \in FiberIds /\ FiberIds \subseteq Nat
  BY FiberAssumption DEF Root, FiberIds
<1>3. RootSound
  BY <1>2 DEF Init, RootSound
<1>4. Owned /\ Emptied
  BY DEF Init, Owned, Emptied
<1>5. Grown
  <2>1. \A g \in FiberIds : Mounted(g) => g = Root
    BY DEF Init, Mounted
  <2> QED
    BY <2>1 DEF Grown, Root
<1> QED
  BY <1>1, <1>3, <1>4, <1>5 DEF Sound

LEMMA SoundStep == Sound /\ [Next]_vars => Sound' /\ Shape
<1> SUFFICES ASSUME Sound, [Next]_vars PROVE Sound' /\ Shape
  OBVIOUS
<1>1. Shape
  BY Shapes DEF Sound
<1>2. IInv' /\ RootSound'
  BY StepIInv, RootStep DEF Sound
<1>3. Owned' /\ Emptied' /\ Grown'
  BY <1>1, OwnedStep, GrownStep DEF Sound
<1> QED
  BY <1>1, <1>2, <1>3 DEF Sound

LEMMA InitTogether == Init => Together
<1> SUFFICES ASSUME Init PROVE Together
  OBVIOUS
<1>1. \A f \in FiberIds : Remaining(f) = {}
  BY DEF Init, Remaining, Mounted
<1>2. \A p \in Procs : pc[p] = "idle"
  BY DEF Init
<1> QED
  BY <1>1, <1>2 DEF Together, Known, Taken, TakenBy, Gone

LEMMA TogetherStep == Sound /\ Together /\ [Next]_vars /\ [Punctual]_vars => Together'
<1> SUFFICES ASSUME Sound, Together, [Next]_vars, [Punctual]_vars PROVE Together'
  OBVIOUS
<1>1. Shape
  BY SoundStep
<1>2. Punctual
  <2>1. ASSUME UNCHANGED vars, NEW f \in FiberIds, NEW q \in Plugins, LateMount(f, q) PROVE FALSE
    <3>1. PICK g \in Fresh : plugin' = [plugin EXCEPT ![g] = q]
      BY <2>1 DEF LateMount, Mount
    <3>2. plugin' = plugin /\ g \in FiberIds /\ plugin[g] = None
      BY <2>1, <3>1 DEF Fresh, Mounted, vars, treeVars
    <3> QED
      BY <3>1, <3>2, Sorts DEF Sound
  <2> QED
    BY <2>1 DEF Punctual, LateInUnwind
<1>3. Known' /\ Taken'
  BY <1>1, <1>2, TreeStep DEF Sound, Together, Punctual
<1>4. Gone'
  BY <1>1, GoneStep DEF Sound, Together
<1> QED
  BY <1>3, <1>4 DEF Together

LEMMA AlwaysSound == Spec => []Sound
<1>1. Sound /\ [Next]_vars => Sound'
  BY SoundStep
<1> QED
  BY <1>1, InitSound, PTL DEF Spec

LEMMA AlwaysTogether == Spec /\ [][Punctual]_vars => []Together
  BY AlwaysSound, InitTogether, TogetherStep, PTL DEF Spec

\* provide() and the scopes of a load: whatever is bound is bound by the current
\* load of an instance that loads, runs, is torn down, or has failed and has still
\* to give back what it took.
THEOREM BindingsHaveOwnersHolds == Spec => []BindingsHaveOwners
<1>1. Sound => BindingsHaveOwners
  BY DEF Sound, Owned, Holder, BindingsHaveOwners
<1> QED
  BY <1>1, AlwaysSound, PTL

\* _unload_to: when an instance leaves UNLOADING no name is bound by it, whatever
\* was mounted under it and whoever unloaded it.
THEOREM BindingsGivenBack ==
  Spec => [][\A f \in FiberIds :
               state[f] = "UNLOADING" /\ state'[f] # "UNLOADING" =>
                 \A n \in Names : bound[n] # None => bound[n][1] # f]_vars
<1>1. ASSUME Sound, [Next]_vars, NEW f \in FiberIds,
             state[f] = "UNLOADING", state'[f] # "UNLOADING"
      PROVE  \A n \in Names : bound[n] # None => bound[n][1] # f
  <2>1. Shape
    BY <1>1, SoundStep
  <2>2. \E p \in Procs : Ends(p) /\ Of(p) = f
    BY <1>1, <2>1, Disposing DEF Sound
  <2>3. scope[f] = "closed"
    BY <1>1, <2>2 DEF Sound, Emptied, Ends
  <2> QED
    BY <1>1, <2>3 DEF Sound, Owned, Holder
<1>2. Sound /\ [Next]_vars =>
        [\A f \in FiberIds :
           state[f] = "UNLOADING" /\ state'[f] # "UNLOADING" =>
             \A n \in Names : bound[n] # None => bound[n][1] # f]_vars
  BY <1>1
<1> QED
  BY <1>2, AlwaysSound, PTL DEF Spec

\* 04 SEM-003: DISPOSED is terminal, whatever is mounted, called or raises.
THEOREM DisposedForGood ==
  Spec => [][\A f \in FiberIds : state[f] = "DISPOSED" => state'[f] = "DISPOSED"]_vars
<1>1. Sound /\ [Next]_vars =>
        [\A f \in FiberIds : state[f] = "DISPOSED" => state'[f] = "DISPOSED"]_vars
  BY SoundStep, Terminal DEF Sound
<1> QED
  BY <1>1, AlwaysSound, PTL DEF Spec

\* The six states, the table of transitions, the mounts and the ends of unloads of
\* Lifecycle: Fiber implements it, as long as nobody mounts from outside under an
\* instance whose failed body _finish is unwinding.
THEOREM LifecycleImplemented == Spec /\ [][Punctual]_vars => ImplementsLifecycle
<1>1. Init => Promise!Init
  <2> SUFFICES ASSUME Init PROVE Promise!Init
    OBVIOUS
  <2>1. Life = [f \in FiberIds |-> IF f = Root THEN "ACTIVE" ELSE "ABSENT"]
    BY DEF Init, Life, Mounted
  <2>2. parent = [f \in FiberIds |-> Root]
    BY DEF Init
  <2> QED
    BY <2>1, <2>2 DEF Promise!Init, Life
<1>2. Sound /\ Together /\ [Next]_vars => [Promise!Next]_(Promise!vars)
  BY SoundStep, PromiseStep DEF Sound, Together
<1> QED
  BY <1>1, <1>2, AlwaysSound, AlwaysTogether, PTL DEF Spec, ImplementsLifecycle, Promise!Spec

\* dispose() unloads everything the instance mounted, to any depth, as long as
\* nobody mounts from outside under an instance whose failed body is being unwound.
THEOREM DisposedWithDescendantsHolds ==
  Spec /\ [][Punctual]_vars => []DisposedWithDescendants
<1>1. Sound /\ Together => DisposedWithDescendants
  BY BelowGone DEF Sound, Together, Gone, DisposedWithDescendants
<1> QED
  BY <1>1, AlwaysSound, AlwaysTogether, PTL

\* 04 SEM-007: when an unload ends every instance below is disposed and every name
\* the instance bound is free, under the same condition.
THEOREM NothingSurvivesHolds == Spec /\ [][Punctual]_vars => NothingSurvives
<1>1. ASSUME Sound, Together, [Next]_vars, NEW f \in FiberIds,
             state[f] = "UNLOADING", state'[f] # "UNLOADING"
      PROVE  \A g \in Below(f) : state[g] = "DISPOSED"
  <2>1. \E p \in Procs : Ends(p) /\ Of(p) = f
    BY <1>1, SoundStep, Disposing DEF Sound
  <2>2. Remaining(f) = {}
    BY <1>1, <2>1 DEF Together, Taken, TakenBy, Ends
  <2> QED
    BY <1>1, <2>2, BelowGone DEF Sound, Together
<1>2. Sound /\ Together /\ [Next]_vars =>
        [\A f \in FiberIds :
           state[f] = "UNLOADING" /\ state'[f] # "UNLOADING" =>
             \A g \in Below(f) : state[g] = "DISPOSED"]_vars
  BY <1>1
<1>3. Spec /\ [][Punctual]_vars =>
        [][\A f \in FiberIds :
             state[f] = "UNLOADING" /\ state'[f] # "UNLOADING" =>
               \A g \in Below(f) : state[g] = "DISPOSED"]_vars
  BY <1>2, AlwaysSound, AlwaysTogether, PTL DEF Spec
<1>4. (\A f \in FiberIds :
         state[f] = "UNLOADING" /\ state'[f] # "UNLOADING" =>
           \A g \in Below(f) : state[g] = "DISPOSED")
      /\ (\A f \in FiberIds :
            state[f] = "UNLOADING" /\ state'[f] # "UNLOADING" =>
              \A n \in Names : bound[n] # None => bound[n][1] # f)
      => \A f \in FiberIds :
           state[f] = "UNLOADING" /\ state'[f] # "UNLOADING" =>
             /\ \A g \in Below(f) : state[g] = "DISPOSED"
             /\ \A n \in Names : bound[n] # None => bound[n][1] # f
  OBVIOUS
<1> QED
  BY <1>3, <1>4, BindingsGivenBack, PTL DEF NothingSurvives

\* Where nobody mounts from outside into an instance at all, all three hold as they
\* stand.
COROLLARY NoLateMounts ==
  ASSUME LateMounts = {}
  PROVE  Spec => ImplementsLifecycle /\ []DisposedWithDescendants /\ NothingSurvives
<1>1. [Next]_vars => [Punctual]_vars
  BY DEF Punctual, LateInUnwind, LateMount
<1> QED
  BY <1>1, LifecycleImplemented, DisposedWithDescendantsHolds, NothingSurvivesHolds, PTL DEF Spec

-----------------------------------------------------------------------------
\* Wakes.  That no wake-up is lost: ActiveIffBound for every tree of instances,
\* every set of plugins and any number of callers.  The invariant says, of an
\* instance that is not what its bindings ask for, who still has to look at it
\* again.

\* It is being evaluated; its body is on the stack; somebody tears it down.
Evaluated(f) == stack # <<>> /\ stack[1] = [do |-> "evaluate", fiber |-> f]
InBody(f)    == \E i \in DOMAIN stack : stack[i] = [do |-> "body", fiber |-> f]
Torn(f)      == \E p \in Procs : Of(p) = f /\ pc[p] \in Teardown

\* An evaluation is still to come, or a disposal that makes it pointless.
Due(f)     == evaluation[f] \/ evals[f] > 0 \/ dirty[f] \/ Evaluated(f)
Leaving(f) == gate[f] = Disposal(f)
Alert(f)   == Due(f) \/ Leaving(f)

\* It does not run on what its names are bound to.
Stale(f) == Missing(f) # {} \/ epoch[f] # Sample(f)

\* It hears of every change of what it needs.
Listens(f) == Needs(f) # {} /\ state[f] # "DISPOSED" => watch[f] \/ Leaving(f)

\* Whoever is not what the bindings ask for, or will not be when its unload is
\* over, is looked at again.
Looks(f) ==
  /\ state[f] = "PENDING" /\ Missing(f) = {} => Alert(f)
  /\ state[f] \in {"LOADING", "ACTIVE"} /\ Stale(f) =>
       Alert(f) \/ (state[f] = "ACTIVE" /\ ~Still(f))
  /\ work[f] = "unload" /\ ~Still(f) /\ Missing(f) = {} => Alert(f)

\* A load and an unload are somebody's work.
Worked(f) ==
  /\ state[f] = "LOADING" /\ Still(f) => InBody(f)
  /\ state[f] = "UNLOADING" => Torn(f)

\* An evaluation finds a state that lasts, and what is remembered from before the
\* loop is looked at before anything else happens.
InOrder(f) ==
  /\ Evaluated(f) => state[f] \in Settled
  /\ dirty[f] =>
       /\ state[f] \in {"PENDING", "FAILED"} /\ ~Evaluated(f)
       /\ \A p \in Procs : Of(p) = f => pc[p] # "through"

Minds(f) == Listens(f) /\ Looks(f) /\ Worked(f) /\ InOrder(f)
Minded   == \A f \in FiberIds \ {Root} : Mounted(f) => Minds(f)

Unraised == \A p \in Procs : pc[p] # "raised"
Unbroken == \A f \in FiberIds : scope[f] # "broken"

\* Before the loop nothing but loads has happened.
Before ==
  ~looping =>
    /\ \A p \in Procs : pc[p] \in {"idle", "held"}
    /\ \A f \in FiberIds \ {Root} :
         /\ state[f] # "UNLOADING"
         /\ state[f] \in {"LOADING", "ACTIVE"} => ~Stale(f)

\* Under an instance that is not disposed a scope can be opened; who closes a
\* scope finds it closing, and one that waits to be loaded has none that failed to.
Nursed ==
  /\ \A g \in FiberIds \ {Root} :
       Mounted(g) /\ state[g] # "DISPOSED" => Nursery(parent[g])
  /\ \A p \in Procs : pc[p] = "scope" => scope[Of(p)] = "closing"
  /\ \A f \in FiberIds : state[f] = "PENDING" => scope[f] # "broken"

Awake == Before /\ Nursed /\ (Undisturbed => Unraised /\ Minded)

----------------------------------------------------------------------------
(* Scopes *)

\* What a step may do to the scopes.
ScopesMove ==
  /\ \A f \in FiberIds : Nursery(f) => Nursery(f)' \/ Remaining(f) = {}
  /\ \A p \in Procs : pc'[p] = "scope" => scope'[Of(p)'] = "closing"
  /\ \A f \in FiberIds : state'[f] = "PENDING" => scope'[f] # "broken"
  /\ \A f \in FiberIds : scope[f] = "broken" => scope'[f] = "broken"

\* The shapes that leave the scopes alone.
LEMMA ScopesKept ==
  ASSUME IInv, Nursed, scope' = scope,
         \A p \in Procs : pc'[p] = "scope" => pc[p] = "scope" /\ Of(p)' = Of(p),
         \A f \in FiberIds : state'[f] = "PENDING" => state[f] = "PENDING"
  PROVE  ScopesMove
  BY DEF Nursed, Nursery, ScopesMove

LEMMA ScopesStep ==
  ASSUME Sound, Together, Nursed, Shape
  PROVE  ScopesMove
<1>1. IInv /\ Emptied /\ Grown /\ Taken /\ Gone
  BY DEF Sound, Together
<1>2. \A q \in Procs : Passes(q) /\ pc'[q] = "scope" => pc[q] = "scope" /\ Of(q)' = Of(q)
  BY Passing DEF Teardown
<1>3. \A q \in Procs : Same(q) => Passes(q)
  BY DEF Passes
<1>4. CASE Aside
  BY <1>1, <1>2, <1>4, ScopesKept DEF Aside
<1>5. ASSUME NEW f \in FiberIds, BindsAt(f) \/ Returns(f) \/ Fails(f) PROVE ScopesMove
  <2>1. scope' = scope /\ \A g \in FiberIds : state'[g] = "PENDING" => state[g] = "PENDING"
    BY <1>1, <1>5, Sorts DEF BindsAt, Returns, Fails
  <2>2. \A q \in Procs : pc'[q] = "scope" => Same(q)
    BY <1>5 DEF BindsAt, Returns, Fails
  <2> QED
    BY <1>1, <1>2, <1>3, <2>1, <2>2, ScopesKept
<1>6. ASSUME NEW p \in Procs, Begins(p) \/ Buries(p) PROVE ScopesMove
  <2>1. scope' = scope /\ \A g \in FiberIds : state'[g] = "PENDING" => state[g] = "PENDING"
    BY <1>1, <1>6, Sorts DEF Begins, Buries
  <2>2. \A q \in Procs : pc'[q] = "scope" => Same(q)
    BY <1>6 DEF Begins, Buries
  <2> QED
    BY <1>1, <1>2, <1>3, <2>1, <2>2, ScopesKept
<1>7. ASSUME NEW f \in FiberIds, NEW g \in FiberIds, Grows(f, g) PROVE ScopesMove
  <2>1. ~Mounted(g) /\ state[g] = "PENDING" /\ scope[g] # "broken"
    BY <1>1, <1>7, Facts DEF Grows, Fresh, Enrolled, Nursed
  <2>2. /\ scope'[g] = "open" /\ \A h \in FiberIds \ {g} : scope'[h] = scope[h]
        /\ state' = state /\ \A q \in Procs : Same(q)
    BY <1>1, <1>7, Sorts DEF Grows
  <2>3. \A q \in Procs : pc[q] = "scope" => Of(q) \in FiberIds \ {g}
    BY <1>1, <2>1, WorksOnMounted, Sorts
  <2> QED
    BY <1>2, <1>3, <2>1, <2>2, <2>3 DEF ScopesMove, Nursed, Nursery
<1>8. ASSUME NEW f \in FiberIds, LoadsAt(f) PROVE ScopesMove
  <2>1. /\ scope'[f] = "open" /\ \A h \in FiberIds \ {f} : scope'[h] = scope[h] /\ state'[h] = state[h]
        /\ state[f] = "PENDING" /\ scope[f] # "broken" /\ state'[f] = "LOADING"
        /\ \A q \in Procs : Same(q)
    BY <1>1, <1>8, Sorts DEF LoadsAt, Nursed
  <2>2. \A q \in Procs : pc[q] = "scope" => Of(q) \in FiberIds \ {f}
    BY <1>1, <2>1, TornDown DEF Teardown
  <2> QED
    BY <1>2, <1>3, <2>1, <2>2 DEF ScopesMove, Nursed, Nursery
<1>9. ASSUME NEW p \in Procs, Empties(p) PROVE ScopesMove
  <2>1. PICK f \in FiberIds : f = Of(p) /\ Of(p)' = f
    BY <1>1, <1>9, Sorts DEF Empties
  <2>2. /\ \A h \in FiberIds \ {f} : scope'[h] = scope[h]
        /\ scope'[f] = scope[f] \/ (scope[f] = "open" /\ scope'[f] = "closing")
        /\ pc'[p] = "scope" => scope'[f] = "closing"
        /\ state' = state /\ \A q \in Procs \ {p} : Passes(q)
    BY <1>1, <1>9, <2>1, Sorts DEF Empties
  <2>3. \A q \in Procs \ {p} : pc'[q] = "scope" => scope[Of(q)] = "closing" /\ Of(q)' = Of(q) /\ Of(q) \in FiberIds
    BY <1>1, <1>2, <2>2, Sorts DEF Nursed
  <2>4. \A q \in Procs : pc'[q] = "scope" => scope'[Of(q)'] = "closing"
    BY <2>1, <2>2, <2>3
  <2> QED
    BY <2>2, <2>4 DEF ScopesMove, Nursed, Nursery
<1>10. ASSUME NEW p \in Procs, Releases(p) PROVE ScopesMove
  <2>1. PICK f \in FiberIds : f = Of(p) /\ Of(p)' = f
    BY <1>1, <1>10, Sorts DEF Releases
  <2>2. PICK closed \in SUBSET FiberIds :
          /\ f \in closed /\ closed \subseteq {f} \cup Below(f)
          /\ \A g \in closed \ {f} : scope[g] = "open"
          /\ \A g \in FiberIds \ closed : scope'[g] = scope[g]
          /\ \A g \in closed \ {f} : scope'[g] = "closed"
    BY <1>10, <2>1 DEF Releases
  <2>3. pc[p] = "scope" /\ pc'[p] # "scope" /\ state' = state /\ \A q \in Procs \ {p} : Passes(q)
    BY <1>10 DEF Releases
  <2>4. scope[f] = "closing" /\ state[f] # "PENDING"
    BY <1>1, <2>1, <2>3, TornDown DEF Nursed, Teardown
  <2>5. Remaining(f) = {} /\ \A g \in Below(f) : g \in FiberIds => Remaining(g) = {}
    <3>1. Remaining(f) = {}
      BY <1>1, <2>1, <2>3 DEF Taken, TakenBy
    <3> QED
      BY <1>1, <3>1, BelowGone DEF Gone
  <2>6. \A g \in FiberIds : Nursery(g) => Nursery(g)' \/ Remaining(g) = {}
    BY <2>2, <2>5 DEF Nursery
  <2>7. \A q \in Procs : pc'[q] = "scope" => scope'[Of(q)'] = "closing"
    <3> SUFFICES ASSUME NEW q \in Procs, pc'[q] = "scope" PROVE scope'[Of(q)'] = "closing"
      OBVIOUS
    <3>1. q # p /\ pc[q] = "scope" /\ Of(q)' = Of(q) /\ Of(q) \in FiberIds
      BY <1>1, <1>2, <2>3, Sorts
    <3>2. Of(q) # f
      BY <1>1, <2>1, <2>3, <3>1, OnlyOne DEF Teardown
    <3>3. scope[Of(q)] = "closing"
      BY <3>1 DEF Nursed
    <3> QED
      BY <2>2, <3>1, <3>2, <3>3
  <2>8. \A g \in FiberIds : scope[g] = "broken" => scope'[g] = "broken"
    BY <2>2, <2>4
  <2>9. \A g \in FiberIds : state'[g] = "PENDING" => scope'[g] # "broken"
    BY <2>2, <2>3, <2>4 DEF Nursed
  <2> QED
    BY <2>6, <2>7, <2>8, <2>9 DEF ScopesMove
<1>11. ASSUME NEW p \in Procs, Ends(p) PROVE ScopesMove
  <2>1. PICK f \in FiberIds : f = Of(p)
    BY <1>1, Sorts
  <2>2. scope[f] = "closed" /\ pc'[p] # "scope" /\ \A q \in Procs \ {p} : Passes(q)
    BY <1>1, <1>11, <2>1 DEF Ends, Emptied, Teardown
  <2>3. /\ scope'[f] \in {"closed", "open"}
        /\ \A h \in FiberIds \ {f} : scope'[h] = scope[h] /\ state'[h] = state[h]
    BY <1>1, <1>11, <2>1, <2>2, Sorts DEF Ends
  <2>4. \A q \in Procs : pc'[q] = "scope" => scope[Of(q)] = "closing" /\ Of(q)' = Of(q) /\ Of(q) \in FiberIds
    BY <1>1, <1>2, <2>2, Sorts DEF Nursed
  <2> QED
    BY <2>2, <2>3, <2>4 DEF ScopesMove, Nursed, Nursery
<1> QED
  BY <1>4, <1>5, <1>6, <1>7, <1>8, <1>9, <1>10, <1>11 DEF Shape

\* Nobody who remains is left without a nursery above.
LEMMA NursedStep == ASSUME Sound, Together, Nursed, Shape PROVE Nursed'
<1>1. ScopesMove
  BY ScopesStep
<1>2. IInv
  BY DEF Sound
<1>3. \A g \in FiberIds : state[g] = "DISPOSED" => state'[g] = "DISPOSED"
  BY <1>2, Terminal
<1>4. ASSUME NEW g \in FiberIds \ {Root}, Mounted(g)', state'[g] # "DISPOSED"
      PROVE  Nursery(parent[g])'
  <2>1. CASE plugin' = plugin /\ parent' = parent
    <3>1. Mounted(g) /\ state[g] # "DISPOSED" /\ parent[g] \in FiberIds
      BY <1>2, <1>3, <1>4, <2>1, Sorts DEF Mounted
    <3>2. Nursery(parent[g]) /\ g \in Remaining(parent[g])
      BY <3>1 DEF Nursed, Remaining
    <3>3. PICK h \in FiberIds : h = parent[g] /\ parent'[g] = h
      BY <2>1, <3>1
    <3>4. Nursery(h)'
      BY <1>1, <3>2, <3>3 DEF ScopesMove
    <3> QED
      BY <3>3, <3>4 DEF Nursery
  <2>2. ASSUME NEW f \in FiberIds, NEW h \in FiberIds, Grows(f, h) PROVE Nursery(parent[g])'
    <3>1. /\ Nursery(f) /\ \A x \in FiberIds : Nursery(x) => Nursery(x)'
      BY <1>2, <2>2, Sorts DEF Grows, Nursery
    <3>2. PICK q \in Plugins : plugin' = [plugin EXCEPT ![h] = q]
      BY <2>2 DEF Grows
    <3>3. parent' = [parent EXCEPT ![h] = f] /\ state' = state
      BY <2>2 DEF Grows
    <3>4. Nursery(parent'[g]) /\ parent'[g] \in FiberIds
      <4>1. CASE g = h
        BY <1>2, <3>1, <3>3, <4>1, Sorts
      <4>2. CASE g # h
        <5>1. Mounted(g) /\ parent'[g] = parent[g]
          BY <1>2, <1>4, <3>2, <3>3, <4>2, Sorts DEF Mounted
        <5> QED
          BY <1>2, <1>4, <3>3, <5>1, Sorts DEF Nursed
      <4> QED
        BY <4>1, <4>2
    <3>5. PICK x \in FiberIds : x = parent'[g] /\ Nursery(x)
      BY <3>4
    <3>6. Nursery(x)'
      BY <3>1, <3>5
    <3> QED
      BY <3>5, <3>6 DEF Nursery
  <2>3. \/ plugin' = plugin /\ parent' = parent
        \/ \E f, h \in FiberIds : Grows(f, h)
    BY DEF Shape, Aside, LoadsAt, BindsAt, Returns, Fails, Begins, Buries, Empties, Releases, Ends
  <2> QED
    BY <2>1, <2>2, <2>3
<1> QED
  BY <1>1, <1>4 DEF ScopesMove, Nursed

----------------------------------------------------------------------------
(* Who raises *)

\* What is evaluated is mounted, and has no task in flight if it waits or runs.
LEMMA EvaluateFacts ==
  ASSUME IInv, Top("evaluate")
  PROVE  /\ This \in FiberIds /\ Mounted(This) /\ Evaluated(This)
         /\ state[This] \in {"PENDING", "ACTIVE"} => Still(This)
         /\ stack \in Seq(Frames) /\ stack # <<>> /\ stack[1].fiber = This
         /\ \A p \in Procs : ~Hot(p)
<1>1. /\ stack \in Seq(Frames) /\ stack # <<>> /\ 1 \in DOMAIN stack
      /\ stack[1] = [do |-> "evaluate", fiber |-> This]
      /\ This \in FiberIds /\ Mounted(This) /\ \A p \in Procs : ~Hot(p)
  BY TopFacts
<1>2. Evaluated(This) /\ stack[1].fiber = This
  BY <1>1 DEF Evaluated
<1>3. state[This] = "ACTIVE" => Still(This)
  BY <1>1, Facts DEF Stacked, Evaluating
<1>4. state[This] = "PENDING" => Still(This)
  BY <1>1, Facts DEF TaskTable, Row
<1> QED
  BY <1>1, <1>2, <1>3, <1>4

\* A caller that was cancelled stays so, and nobody raises unless somebody has or
\* a scope fails to close.
Patient ==
  /\ \A p \in Procs : pc[p] = "cancelled" => pc'[p] = "cancelled"
  /\ Unraised /\ Unbroken /\ Unbroken' => Unraised'

LEMMA PatientMove ==
  ASSUME IInv, NEW p \in Procs, NEW at, pc' = [pc EXCEPT ![p] = at],
         pc[p] # "cancelled", at # "raised"
  PROVE  Patient
  BY Sorts DEF Patient, Unraised

LEMMA PatientRest == ASSUME pc' = pc PROVE Patient
  BY DEF Patient, Unraised

\* Somebody raises: a scope is broken, or somebody raised before.
LEMMA PatientRaise ==
  ASSUME IInv, NEW p \in Procs, Raise(p), pc[p] # "cancelled",
         ~Unraised \/ ~Unbroken \/ ~Unbroken'
  PROVE  Patient
<1>1. pc' = [x \in Procs |-> IF x \in Hit(p) THEN "raised" ELSE pc[x]]
  BY DEF Raise
<1>2. \A x \in Procs : pc[x] = "cancelled" => x \notin Hit(p)
  BY DEF Hit
<1> QED
  BY <1>1, <1>2 DEF Patient

\* Nobody finds that no environment can be opened for an instance that is there.
LEMMA Openable ==
  ASSUME Nursed, NEW f \in FiberIds, Mounted(f), state[f] # "DISPOSED" PROVE CanOpen(f)
  BY DEF Nursed, CanOpen

\* Whoever closes a scope finds it open, or disposed of before.
LEMMA Closeable ==
  ASSUME IInv, NEW p \in Procs, CloseScope(p)
  PROVE  pc[p] = "unwind" /\ Of(p) \in FiberIds /\ scope[Of(p)] \in {"open", "closed", "broken"}
<1>1. pc[p] = "unwind" /\ Of(p) \in FiberIds
  BY Sorts DEF CloseScope, Closes
<1>2. scope[Of(p)] \in {"none", "open", "closing", "closed", "broken"}
  BY <1>1, Sorts
<1>3. scope[Of(p)] # "none"
  BY <1>1, Facts, WorksOnMounted DEF Scoped
<1>4. scope[Of(p)] # "closing"
  <2>1. SUFFICES ASSUME scope[Of(p)] = "closing" PROVE FALSE
    OBVIOUS
  <2>2. PICK q \in Procs : Of(q) = Of(p) /\ pc[q] = "scope"
    BY <1>1, <2>1, Facts DEF Scoped
  <2> QED
    BY <1>1, <2>2, OnlyOne DEF Teardown
<1> QED
  BY <1>1, <1>2, <1>3, <1>4

LEMMA PatientStep == ASSUME IInv, Nursed, [Next]_vars PROVE Patient
<1>1. /\ pc \in [Procs -> Places] /\ \A f \in FiberIds : Task(f) \in Procs /\ Of(Task(f)) = f
      /\ \A f \in FiberIds : Disposal(f) \in Procs /\ \A o \in Ops : Caller(o) \in Procs
      /\ \A o \in Ops : Of(Caller(o)) \in FiberIds
      /\ Scheduled \in {"spawned", "held"}
  BY Sorts, Processes DEF Scheduled
<1>2. CASE Synchronous
  <2>1. CASE EvaluateLoads \/ EvaluateNothing \/ BodyProvides \/ BodyMounts
    BY <2>1, PatientRest DEF EvaluateLoads, EvaluateNothing, BodyProvides, BodyMounts, procVars
  <2>2. CASE EvaluateUnloads
    <3>1. This \in FiberIds /\ UnloadsNow(This)
      BY <2>2, TopFacts DEF EvaluateUnloads
    <3>2. Still(This)
      BY <2>2, <3>1, EvaluateFacts DEF UnloadsNow, EvaluateUnloads
    <3>3. pc' = [pc EXCEPT ![Task(This)] = Scheduled]
      BY <2>2 DEF EvaluateUnloads
    <3>4. Task(This) \in Procs /\ pc[Task(This)] # "cancelled"
      BY <1>1, <3>1, <3>2 DEF Still
    <3> QED
      BY <1>1, <3>3, <3>4, PatientMove
  <2>3. CASE BodyAwaits \/ BodyReturns \/ BodyRaises
    <3>1. This \in FiberIds /\ Task(This) \in Procs /\ pc[Task(This)] # "cancelled"
      BY <1>1, <2>3, BodyFacts DEF BodyAwaits, BodyReturns, BodyRaises, BodyAt, Still
    <3>2. \/ pc' = pc
          \/ \E at \in {"body", "spawned", "held", "idle", "unwind"} :
               pc' = [pc EXCEPT ![Task(This)] = at]
      BY <1>1, <2>3 DEF BodyAwaits, BodyReturns, BodyRaises
    <3> QED
      BY <3>1, <3>2, PatientMove, PatientRest
  <2> QED
    BY <1>2, <2>1, <2>2, <2>3 DEF Synchronous
<1>3. ASSUME NEW p \in Procs, CloseScope(p) PROVE Patient
  <2>1. pc[p] = "unwind" /\ Of(p) \in FiberIds /\ scope[Of(p)] \in {"open", "closed", "broken"}
    BY <1>3, Closeable
  <2>2. CASE \E at \in {"scope", "emptied"} : pc' = [pc EXCEPT ![p] = at]
    BY <2>1, <2>2, PatientMove
  <2>3. CASE Raise(p) /\ scope[Of(p)] = "broken"
    BY <2>1, <2>3, PatientRaise DEF Unbroken
  <2> QED
    BY <1>3, <2>1, <2>2, <2>3 DEF CloseScope
<1>4. ASSUME NEW p \in Procs, Enter(p) PROVE Patient
  <2>1. pc[p] # "cancelled" /\ \E at \in {"done", "through", "quiet"} : pc' = [pc EXCEPT ![p] = at]
    BY <1>4 DEF Enter
  <2> QED
    BY <2>1, PatientMove
<1>5. ASSUME NEW p \in Procs, Proceed(p) PROVE Patient
  <2>1. pc[p] # "cancelled" /\ \E at \in {"done", "unwind"} : pc' = [pc EXCEPT ![p] = at]
    BY <1>5 DEF Proceed, BeginUnload
  <2> QED
    BY <2>1, PatientMove
<1>6. ASSUME NEW p \in Procs, Lands(p) PROVE Patient
  <2>1. ASSUME NEW f \in FiberIds, p = Task(f), TaskLands(f) PROVE Patient
    <3>1. pc[p] \in {"released", "emptied"} /\ Of(p) = f
      BY <1>1, <2>1 DEF TaskLands
    <3>2. work[f] \in {"unload", "reload"} => CanOpen(f)
      <4>1. ASSUME work[f] \in {"unload", "reload"} PROVE state[f] = "UNLOADING" /\ Mounted(f)
        BY <2>1, <3>1, <4>1, Facts, TornDown DEF TaskTable, Row, Teardown, Still
      <4> QED
        BY <4>1, Openable
    <3>3. pc' = [pc EXCEPT ![p] = "idle"]
      BY <2>1, <3>2 DEF TaskLands
    <3> QED
      BY <3>1, <3>3, PatientMove
  <2>2. ASSUME NEW f \in FiberIds, p = Disposal(f), DisposalLands(f) PROVE Patient
    BY <2>2, PatientMove DEF DisposalLands
  <2>3. ASSUME NEW o \in Ops, p = Caller(o), CallerLands(o) PROVE Patient
    <3>1. pc[p] \in {"released", "emptied"}
      BY <2>3 DEF CallerLands
    <3>2. CanOpen(Of(p))
      <4>1. Mounted(Of(p)) /\ Of(p) \in FiberIds /\ state[Of(p)] # "DISPOSED"
        BY <3>1, TornDown DEF Teardown
      <4> QED
        BY <4>1, Openable
    <3>3. pc' = [pc EXCEPT ![p] = "settle"]
      BY <2>3, <3>2 DEF CallerLands
    <3> QED
      BY <3>1, <3>3, PatientMove
  <2> QED
    BY <1>6, <2>1, <2>2, <2>3 DEF Lands
<1>7. ASSUME NEW p \in Procs, Unwinding(p) PROVE Patient
  <2>1. CASE DisposeChild(p)
    <3>1. PICK d \in Procs : pc[d] = "idle" /\ pc' = [pc EXCEPT ![d] = "spawned"]
      <4>1. Head(kids[p]) \in FiberIds
        BY <2>1, Sorts DEF DisposeChild
      <4> QED
        BY <1>1, <2>1, <4>1 DEF DisposeChild
    <3> QED
      BY <3>1, PatientMove
  <2>2. CASE ChildDisposed(p)
    BY <2>2, PatientRest DEF ChildDisposed
  <2>3. CASE ChildRaised(p)
    <3>1. Head(kids[p]) \in FiberIds
      BY <2>3, Sorts DEF ChildRaised
    <3>2. ~Unraised /\ Raise(p) /\ pc[p] # "cancelled"
      BY <1>1, <2>3, <3>1 DEF ChildRaised, Unraised
    <3> QED
      BY <3>2, PatientRaise
  <2>4. CASE ReleaseScope(p)
    <3>1. pc[p] = "scope" /\ Of(p) \in FiberIds
      BY <2>4, Sorts DEF ReleaseScope
    <3>2. \/ pc' = [pc EXCEPT ![p] = "released"]
          \/ Raise(p) /\ scope'[Of(p)] = "broken"
      BY <2>4, <3>1 DEF ReleaseScope
    <3> QED
      BY <3>1, <3>2, PatientMove, PatientRaise DEF Unbroken
  <2> QED
    BY <1>7, <2>1, <2>2, <2>3, <2>4 DEF Unwinding
<1>8. ASSUME NEW f \in FiberIds, Tasks(f) PROVE Patient
  <2>1. CASE StartTask(f)
    <3>1. pc[Task(f)] = "spawned"
      BY <2>1 DEF StartTask
    <3>2. work[f] \in {"unload", "reload", "release", "finish"}
      BY <3>1, Facts DEF TaskTable, Row, Still, Teardown
    <3>3. \E at \in {"unwind", "running"} : pc' = [pc EXCEPT ![Task(f)] = at]
      BY <2>1, <3>2 DEF StartTask, BeginUnload
    <3> QED
      BY <1>1, <3>1, <3>3, PatientMove
  <2>2. CASE BodyResumes(f) \/ StartHeld(f)
    BY <1>1, <2>2, PatientMove DEF BodyResumes, StartHeld
  <2>3. CASE EvaluationStarts(f) \/ EvaluationProceeds(f) \/ Reconcile(f)
    BY <2>3, PatientRest DEF EvaluationStarts, EvaluationProceeds, Reconcile, procVars
  <2> QED
    BY <1>8, <2>1, <2>2, <2>3 DEF Tasks
<1>9. ASSUME NEW o \in Ops, Calls(o) PROVE Patient
  <2>1. CASE Settles(o)
    BY <1>1, <2>1, PatientMove DEF Settles
  <2>2. CASE DisposeReturns(o)
    <3>1. PICK d \in Procs : /\ pc[d] \in {"done", "raised"} /\ pc[Caller(o)] = "disposal"
                             /\ pc' = [pc EXCEPT ![Caller(o)] = pc[d]]
      BY <1>1, <2>2 DEF DisposeReturns
    <3>2. CASE pc[d] = "done"
      BY <1>1, <3>1, <3>2, PatientMove
    <3>3. CASE pc[d] = "raised"
      BY <1>1, <3>1, <3>3 DEF Patient, Unraised
    <3> QED
      BY <3>1, <3>2, <3>3
  <2> QED
    BY <1>9, <2>1, <2>2 DEF Calls
<1>10. ASSUME NEW o \in Ops, Cancel(o) PROVE Patient
  BY <1>1, <1>10, PatientMove DEF Cancel
<1>11. ASSUME NEW o \in Ops, NEW kind \in Kinds, NEW f \in FiberIds, NEW c \in Configs,
              Issue(o, kind, f, c)
       PROVE  Patient
  <2>1. /\ pc'[Caller(o)] # "raised" /\ pc[Caller(o)] = "idle"
        /\ pc'[Disposal(f)] = pc[Disposal(f)] \/ (pc[Disposal(f)] = "idle" /\ pc'[Disposal(f)] = "spawned")
        /\ \A q \in Procs \ {Caller(o), Disposal(f)} : pc'[q] = pc[q]
    <3>1. pc[Caller(o)] = "idle"
      BY <1>11 DEF Issue
    <3> QED
      BY <1>11, <3>1, Issued
  <2>2. \A q \in Procs : pc[q] = "cancelled" => pc'[q] = "cancelled"
    BY <1>1, <2>1
  <2>3. \A q \in Procs : pc'[q] = "raised" => pc[q] = "raised"
    BY <1>1, <2>1
  <2> QED
    BY <2>2, <2>3 DEF Patient, Unraised
<1>12. CASE StartLoop \/ UNCHANGED vars
  BY <1>12, PatientRest DEF StartLoop, vars, procVars
<1>13. ASSUME NEW q \in Plugins, NEW f \in FiberIds, HostMount(q) \/ LateMount(f, q) PROVE Patient
  BY <1>13, PatientRest DEF HostMount, LateMount, procVars
<1>14. CASE Running
  BY <1>2, <1>3, <1>4, <1>5, <1>6, <1>14 DEF Running
<1>15. CASE Ready
  BY <1>4, <1>5, <1>6, <1>7, <1>8, <1>9, <1>15 DEF Ready
<1>16. CASE Environment
  <2>1. \A q \in TopLevel : q \in Plugins
    BY FiberAssumption
  <2>2. Root \in FiberIds
    BY FiberAssumption DEF Root, FiberIds
  <2> QED
    BY <1>10, <1>11, <1>13, <1>16, <2>1, <2>2 DEF Environment, Outside
<1> QED
  BY <1>12, <1>14, <1>15, <1>16 DEF Next, Loop

----------------------------------------------------------------------------
(* Before the loop *)

\* An instance goes by its bindings as long as neither it nor they change.
LEMMA StaleKept ==
  ASSUME NEW f, plugin'[f] = plugin[f], bound' = bound
  PROVE  /\ Needs(f)' = Needs(f) /\ Missing(f)' = Missing(f) /\ Sample(f)' = Sample(f)
         /\ epoch'[f] = epoch[f] => (Stale(f)' <=> Stale(f))
<1>1. Needs(f)' = Needs(f)
  BY DEF Needs
<1>2. Missing(f)' = Missing(f) /\ Sample(f)' = Sample(f)
  BY <1>1 DEF Missing, Sample
<1> QED
  BY <1>1, <1>2 DEF Stale

\* What a mount changes: one instance that was not there.
Appears(g, q, rest) ==
  /\ ~Mounted(g) /\ plugin'[g] = q
  /\ \A h \in FiberIds \ {g} : plugin'[h] = plugin[h] /\ watch'[h] = watch[h]
  /\ Requires[q] # {} => watch'[g]
  /\ stack' = <<[do |-> "evaluate", fiber |-> g]>> \o rest

LEMMA MountFacts ==
  ASSUME IInv, NEW f \in FiberIds, NEW q \in Plugins, NEW rest, Mount(f, q, rest)
  PROVE  \E g \in FiberIds \ {Root} : Appears(g, q, rest)
<1>1. PICK g \in Fresh :
        /\ plugin' = [plugin EXCEPT ![g] = q] /\ watch' = [watch EXCEPT ![g] = Requires[q] # {}]
        /\ stack' = <<[do |-> "evaluate", fiber |-> g]>> \o rest
  BY DEF Mount
<1>2. g \in FiberIds \ {Root} /\ ~Mounted(g)
  BY <1>1 DEF Fresh
<1>3. watch \in [FiberIds -> BOOLEAN]
  BY Facts DEF WaitTypes
<1>4. Appears(g, q, rest)
  BY <1>1, <1>2, <1>3, Sorts DEF Appears
<1> QED
  BY <1>2, <1>4

\* The loop does not stop.
LEMMA LoopRuns == [Next]_vars /\ looping => looping'
<1> SUFFICES ASSUME [Next]_vars, looping PROVE looping'
  OBVIOUS
<1>1. CASE Synchronous
  BY <1>1 DEF Synchronous, EvaluateLoads, EvaluateUnloads, EvaluateNothing, BodyProvides,
              BodyMounts, BodyAwaits, BodyReturns, BodyRaises
<1>2. ASSUME NEW p, CloseScope(p) \/ Enter(p) \/ Proceed(p) PROVE looping'
  BY <1>2 DEF CloseScope, Enter, Proceed
<1>3. ASSUME NEW p, Lands(p) PROVE looping'
  BY <1>3 DEF Lands, TaskLands, DisposalLands, CallerLands
<1>4. ASSUME NEW p, Unwinding(p) PROVE looping'
  BY <1>4 DEF Unwinding, DisposeChild, ChildDisposed, ChildRaised, ReleaseScope
<1>5. ASSUME NEW f, Tasks(f) PROVE looping'
  BY <1>5 DEF Tasks, StartTask, BodyResumes, EvaluationStarts, EvaluationProceeds, Reconcile,
              StartHeld
<1>6. ASSUME NEW o, Calls(o) \/ Cancel(o) PROVE looping'
  BY <1>6 DEF Calls, Settles, DisposeReturns, Cancel
<1>7. ASSUME NEW f, NEW q, HostMount(q) \/ LateMount(f, q) PROVE looping'
  BY <1>7 DEF HostMount, LateMount
<1>8. ASSUME NEW o, NEW kind, NEW f, NEW c, Issue(o, kind, f, c) PROVE looping'
  BY <1>8 DEF Issue
<1>9. CASE StartLoop \/ UNCHANGED vars
  BY <1>9 DEF StartLoop, vars
<1>10. CASE Running
  BY <1>1, <1>2, <1>3, <1>10 DEF Running
<1>11. CASE Ready
  BY <1>2, <1>3, <1>4, <1>5, <1>6, <1>11 DEF Ready
<1>12. CASE Environment
  BY <1>6, <1>7, <1>8, <1>12 DEF Environment, Outside
<1> QED
  BY <1>9, <1>10, <1>11, <1>12 DEF Next, Loop

\* Until it starts, only loads go on, and what they bind nobody was loaded without.
LEMMA BeforeStep == ASSUME IInv, Before, [Next]_vars PROVE Before'
<1> SUFFICES ASSUME ~looping' PROVE Before'
  BY DEF Before
<1>1. ~looping
  BY LoopRuns
<1>2. /\ \A p \in Procs : pc[p] \in {"idle", "held"}
      /\ \A f \in FiberIds \ {Root} :
           /\ state[f] # "UNLOADING"
           /\ state[f] \in {"LOADING", "ACTIVE"} => ~Stale(f)
  BY <1>1 DEF Before
<1>3. /\ \A f \in FiberIds : Task(f) \in Procs /\ ~InFinish(f)
      /\ Scheduled = "held"
  BY <1>1, <1>2, Processes DEF InFinish, Scheduled
<1>4. /\ pc \in [Procs -> Places] /\ state \in [FiberIds -> States] /\ DOMAIN epoch = FiberIds
      /\ DOMAIN bound = Names
  BY Sorts, Facts DEF EpochTypes
<1>5. ASSUME UNCHANGED <<state, epoch, plugin, bound>>,
             \A p \in Procs : pc'[p] \in {"idle", "held"}
      PROVE  Before'
  BY <1>2, <1>5, StaleKept DEF Before
<1>6. ASSUME NEW f \in FiberIds, NEW to \in {"LOADING", "ACTIVE", "FAILED"},
             state' = [state EXCEPT ![f] = to], UNCHANGED <<plugin, bound>>,
             \A p \in Procs : pc'[p] \in {"idle", "held"},
             \A g \in FiberIds \ {f} : epoch'[g] = epoch[g],
             f # Root /\ to # "FAILED" => ~Stale(f)'
      PROVE  Before'
  <2>1. \A g \in FiberIds \ {f} : state'[g] = state[g] /\ (Stale(g)' <=> Stale(g))
    BY <1>4, <1>6, StaleKept
  <2>2. state'[f] = to
    BY <1>4, <1>6
  <2> QED
    BY <1>2, <1>6, <2>1, <2>2 DEF Before
<1>7. ASSUME NEW f \in FiberIds, NEW q \in Plugins, NEW rest, Mount(f, q, rest),
             UNCHANGED <<state, epoch, bound, pc>>
      PROVE  Before'
  <2>1. PICK g \in FiberIds : ~Mounted(g) /\ \A h \in FiberIds \ {g} : plugin'[h] = plugin[h]
    BY <1>7, MountFacts DEF Appears
  <2>2. state[g] = "PENDING"
    BY <2>1, Facts DEF Enrolled
  <2>3. \A h \in FiberIds \ {g} : Stale(h)' <=> Stale(h)
    BY <1>7, <2>1, StaleKept
  <2> QED
    BY <1>2, <1>7, <2>2, <2>3 DEF Before
<1>8. CASE EvaluateLoads
  <2>1. PICK f \in FiberIds : f = This
    BY <1>8, EvaluateFacts DEF EvaluateLoads
  <2>2. /\ Missing(f) = {} /\ epoch' = [epoch EXCEPT ![f] = Sample(f)] /\ pc' = pc
        /\ state' = [state EXCEPT ![f] = "LOADING"] /\ UNCHANGED <<plugin, bound>>
    BY <1>8, <2>1 DEF EvaluateLoads, LoadsNow, treeVars, procVars
  <2>3. ~Stale(f)' /\ \A g \in FiberIds \ {f} : epoch'[g] = epoch[g]
    <3>1. epoch'[f] = Sample(f) /\ \A g \in FiberIds \ {f} : epoch'[g] = epoch[g]
      BY <1>4, <2>2
    <3>2. Missing(f)' = {} /\ Sample(f)' = Sample(f)
      BY <2>2, StaleKept
    <3> QED
      BY <3>1, <3>2 DEF Stale
  <2> QED
    BY <1>2, <1>6, <2>2, <2>3
<1>9. CASE EvaluateUnloads
  <2>1. This \in FiberIds
    BY <1>9, EvaluateFacts DEF EvaluateUnloads
  <2>2. pc' = [pc EXCEPT ![Task(This)] = "held"] /\ UNCHANGED <<state, epoch, plugin, bound>>
    BY <1>3, <1>9 DEF EvaluateUnloads, treeVars, lifeVars
  <2> QED
    BY <1>2, <1>4, <1>5, <2>2
<1>10. CASE EvaluateNothing
  BY <1>2, <1>5, <1>10 DEF EvaluateNothing, treeVars, lifeVars, procVars
<1>11. CASE BodyProvides
  <2>1. PICK n : /\ bound[n] = None /\ UNCHANGED <<state, epoch, plugin, pc>>
                 /\ \A m \in Names \ {n} : bound'[m] = bound[m]
    BY <1>4, <1>11 DEF BodyProvides, treeVars, procVars
  <2>2. ASSUME NEW g \in FiberIds \ {Root}, state[g] \in {"LOADING", "ACTIVE"} PROVE ~Stale(g)'
    <3>1. Missing(g) = {} /\ epoch[g] = Sample(g)
      BY <1>2, <2>2 DEF Stale
    <3>2. Needs(g)' = Needs(g) /\ Needs(g) \subseteq Names
      BY <2>1, Sorts, FiberAssumption DEF Needs
    <3>3. \A m \in Needs(g) : bound'[m] = bound[m] /\ bound[m] # None
      BY <2>1, <3>1, <3>2 DEF Missing
    <3>4. Missing(g)' = {} /\ Sample(g)' = Sample(g)
      BY <3>2, <3>3 DEF Missing, Sample
    <3> QED
      BY <2>1, <3>1, <3>4 DEF Stale
  <2> QED
    BY <1>2, <2>1, <2>2 DEF Before
<1>12. CASE BodyMounts
  <2>1. This \in FiberIds /\ NextStep(This).what \in Plugins
    BY <1>12, BodyFacts, ScriptTyped DEF BodyMounts, BodyAt
  <2> QED
    BY <1>7, <1>12, <2>1 DEF BodyMounts, procVars
<1>13. CASE BodyAwaits
  <2>1. This \in FiberIds
    BY <1>13, BodyFacts DEF BodyAwaits, BodyAt
  <2>2. pc' = [pc EXCEPT ![Task(This)] = "held"] /\ UNCHANGED <<state, epoch, plugin, bound>>
    BY <1>3, <1>13, <2>1 DEF BodyAwaits, treeVars
  <2> QED
    BY <1>2, <1>4, <1>5, <2>2
<1>14. CASE BodyReturns
  <2>1. PICK f \in FiberIds : f = This /\ state[f] = "LOADING"
    BY <1>14, BodyFacts DEF BodyReturns
  <2>2. /\ state' = [state EXCEPT ![f] = "ACTIVE"] /\ UNCHANGED <<epoch, plugin, bound>>
        /\ pc' = [pc EXCEPT ![Task(f)] = pc[Task(f)]]
    BY <1>3, <1>14, <2>1 DEF BodyReturns, treeVars
  <2>3. f # Root => ~Stale(f)'
    BY <1>2, <2>1, <2>2, StaleKept
  <2> QED
    BY <1>2, <1>4, <1>6, <2>2, <2>3
<1>15. CASE BodyRaises
  <2>1. PICK f \in FiberIds : f = This
    BY <1>15, BodyFacts DEF BodyRaises
  <2>2. /\ state' = [state EXCEPT ![f] = "FAILED"] /\ UNCHANGED <<epoch, plugin, bound>>
        /\ pc' = [pc EXCEPT ![Task(f)] = "held"]
    BY <1>3, <1>15, <2>1 DEF BodyRaises, treeVars
  <2> QED
    BY <1>2, <1>4, <1>6, <2>2
<1>16. ASSUME NEW q \in TopLevel, HostMount(q) PROVE Before'
  <2>1. q \in Plugins /\ Root \in FiberIds
    BY FiberAssumption DEF Root, FiberIds
  <2> QED
    BY <1>7, <1>16, <2>1 DEF HostMount, procVars
<1>17. ASSUME NEW p \in Procs, \/ CloseScope(p)
                               \/ pc[p] = "enter" /\ Enter(p)
                               \/ pc[p] = "through" /\ Proceed(p)
                               \/ pc[p] = "emptied" /\ Lands(p)
       PROVE  FALSE
  BY <1>2, <1>17 DEF CloseScope, Closes
<1>18. CASE UNCHANGED vars
  BY <1>2, <1>5, <1>18 DEF vars, treeVars, lifeVars, procVars
<1>19. CASE Loop
  <2>1. ~StartLoop
    BY DEF StartLoop
  <2>2. CASE Synchronous
    BY <1>8, <1>9, <1>10, <1>11, <1>12, <1>13, <1>14, <1>15, <2>2 DEF Synchronous
  <2>3. CASE Running
    BY <1>17, <2>2, <2>3 DEF Running
  <2> QED
    BY <1>1, <1>19, <2>1, <2>3 DEF Loop
<1> QED
  BY <1>1, <1>16, <1>18, <1>19 DEF Next, Environment

----------------------------------------------------------------------------
(* What a step leaves as it was, or has looked at again *)

\* Nothing moves that an instance minds, or it will look again.
Calm(f) ==
  /\ plugin'[f] = plugin[f] /\ state'[f] = state[f]
  /\ epoch'[f] = epoch[f] /\ work'[f] = work[f]
  /\ Still(f)' <=> Still(f)
  /\ watch[f] \/ Leaving(f) => watch'[f] \/ Leaving(f)'
  /\ Alert(f) => Alert(f)'
  /\ \/ Missing(f)' = Missing(f) /\ Sample(f)' = Sample(f)
     \/ Alert(f)' \/ state[f] = "DISPOSED"
  /\ InBody(f) => InBody(f)'
  /\ Torn(f) => Torn(f)'
  /\ InOrder(f) => InOrder(f)'

LEMMA CalmMinds ==
  ASSUME IInv, NEW f \in FiberIds, Minds(f), Calm(f) PROVE Minds(f)'
<1>1. Needs(f)' = Needs(f)
  BY DEF Calm, Needs
<1>2. Listens(f)'
  BY <1>1 DEF Minds, Listens, Calm
<1>3. Worked(f)' /\ InOrder(f)'
  BY DEF Minds, Worked, Calm
<1>4. Looks(f)'
  <2>1. CASE Missing(f)' = Missing(f) /\ Sample(f)' = Sample(f)
    BY <2>1 DEF Minds, Looks, Calm, Stale
  <2>2. CASE Alert(f)'
    BY <2>2 DEF Looks
  <2>3. CASE state[f] = "DISPOSED"
    <3>1. Still(f) \/ state[f] # "DISPOSED"
      BY Facts DEF TaskTable, Row
    <3> QED
      BY <2>3, <3>1 DEF Looks, Calm
  <2> QED
    BY <2>1, <2>2, <2>3 DEF Calm
<1> QED
  BY <1>2, <1>3, <1>4 DEF Minds

\* What runs now returns to, calls or goes on with instances of S, or a body.
Turn(S) ==
  \/ stack' = stack
  \/ /\ stack # <<>> /\ stack[1].fiber \in S
     /\ \/ stack' = Tail(stack)
        \/ \E x \in Frames : x.fiber \in S /\ stack' = <<x>> \o Tail(stack)
  \/ /\ stack # <<>> => stack[1].do = "body"
     /\ \E x \in Frames : (x.fiber \in S \/ x.do = "body") /\ stack' = <<x>> \o stack

\* The step is about the instances of S.
At(S) ==
  /\ Turn(S) /\ bound' = bound
  /\ \A f \in FiberIds \ S :
       /\ plugin'[f] = plugin[f] /\ state'[f] = state[f]
       /\ epoch'[f] = epoch[f] /\ work'[f] = work[f] /\ (Still(f)' <=> Still(f))
       /\ watch'[f] = watch[f] /\ gate'[f] = gate[f] /\ evaluation'[f] = evaluation[f]
       /\ evals'[f] = evals[f] /\ dirty'[f] = dirty[f]
  /\ \A p \in Procs : pc[p] \in Teardown /\ Of(p) \notin S =>
       pc'[p] \in Teardown /\ Of(p)' = Of(p)
  /\ \A p \in Procs : pc'[p] = "through" /\ Of(p)' \notin S =>
       pc[p] = "through" /\ Of(p)' = Of(p)

\* The frames of the others stay where they are, and none of them is evaluated.
LEMMA TurnKeeps ==
  ASSUME IInv, NEW S, Turn(S), NEW f \in FiberIds, f \notin S
  PROVE  /\ Evaluated(f)' <=> Evaluated(f)
         /\ InBody(f) => InBody(f)'
<1>1. stack \in Seq(Frames) /\ DOMAIN stack = 1..Len(stack) /\ Len(stack) \in Nat
  BY Facts, Stacks
<1>2. CASE stack' = stack
  BY <1>2 DEF Evaluated, InBody
<1>3. CASE stack # <<>> /\ stack[1].fiber \in S /\ stack' = Tail(stack)
  <2>1. /\ stack' \in Seq(Frames) /\ DOMAIN stack' = 1..(Len(stack) - 1)
        /\ \A i \in 1..(Len(stack) - 1) : stack'[i] = stack[i + 1]
    BY <1>1, <1>3, Stacks
  <2>2. ~Evaluated(f)
    BY <1>3 DEF Evaluated
  <2>3. ~Evaluated(f)'
    <3>1. SUFFICES ASSUME stack' # <<>>, stack'[1].do = "evaluate" PROVE FALSE
      BY DEF Evaluated
    <3>2. 1 \in 1..(Len(stack) - 1) /\ 1 + 1 \in DOMAIN stack
      BY <1>1, <2>1, <3>1
    <3>3. stack[1 + 1].do = "evaluate"
      BY <2>1, <3>1, <3>2
    <3> QED
      BY <3>2, <3>3, Facts DEF Stacked, Evaluating
  <2>4. ASSUME InBody(f) PROVE InBody(f)'
    <3>1. PICK i \in 1..Len(stack) : stack[i] = [do |-> "body", fiber |-> f]
      BY <1>1, <2>4 DEF InBody
    <3>2. i # 1
      BY <1>3, <3>1
    <3>3. i - 1 \in 1..(Len(stack) - 1) /\ (i - 1) + 1 = i
      BY <1>1, <3>1, <3>2
    <3>4. stack'[i - 1] = stack[(i - 1) + 1]
      BY <2>1, <3>3
    <3> QED
      BY <2>1, <3>1, <3>3, <3>4 DEF InBody
  <2> QED
    BY <2>2, <2>3, <2>4
<1>4. ASSUME stack # <<>>, stack[1].fiber \in S,
             NEW x \in Frames, x.fiber \in S, stack' = <<x>> \o Tail(stack)
      PROVE  (Evaluated(f)' <=> Evaluated(f)) /\ (InBody(f) => InBody(f)')
  <2>1. /\ DOMAIN stack' = 1..Len(stack) /\ stack'[1] = x /\ stack' # <<>>
        /\ \A i \in 2..Len(stack) : stack'[i] = stack[i]
    BY <1>1, <1>4, Replaced
  <2>2. ~Evaluated(f) /\ ~Evaluated(f)'
    BY <1>4, <2>1 DEF Evaluated
  <2>3. ASSUME InBody(f) PROVE InBody(f)'
    <3>1. PICK i \in 1..Len(stack) : stack[i] = [do |-> "body", fiber |-> f]
      BY <1>1, <2>3 DEF InBody
    <3>2. i # 1
      BY <1>4, <3>1
    <3>3. i \in 2..Len(stack) /\ i \in DOMAIN stack'
      BY <1>1, <2>1, <3>1, <3>2
    <3>4. stack'[i] = [do |-> "body", fiber |-> f]
      BY <2>1, <3>1, <3>3
    <3> QED
      BY <3>3, <3>4 DEF InBody
  <2> QED
    BY <2>2, <2>3
<1>5. ASSUME stack # <<>> => stack[1].do = "body", NEW x \in Frames,
             x.fiber \in S \/ x.do = "body", stack' = <<x>> \o stack
      PROVE  (Evaluated(f)' <=> Evaluated(f)) /\ (InBody(f) => InBody(f)')
  <2>1. /\ stack' \in Seq(Frames) /\ DOMAIN stack' = 1..(Len(stack) + 1) /\ stack'[1] = x
        /\ \A i \in 1..Len(stack) : stack'[i + 1] = stack[i]
    BY <1>1, <1>5, Stacks
  <2>2. ~Evaluated(f) /\ ~Evaluated(f)'
    BY <1>5, <2>1 DEF Evaluated
  <2>3. ASSUME InBody(f) PROVE InBody(f)'
    <3>1. PICK i \in 1..Len(stack) : stack[i] = [do |-> "body", fiber |-> f]
      BY <1>1, <2>3 DEF InBody
    <3>2. i + 1 \in DOMAIN stack' /\ stack'[i + 1] = stack[i]
      BY <1>1, <2>1, <3>1
    <3> QED
      BY <3>1, <3>2 DEF InBody
  <2> QED
    BY <2>2, <2>3
<1> QED
  BY <1>2, <1>3, <1>4, <1>5 DEF Turn

LEMMA Apart ==
  ASSUME IInv, NEW S, At(S), NEW f \in FiberIds, f \notin S PROVE Calm(f)
<1>1. (Evaluated(f)' <=> Evaluated(f)) /\ (InBody(f) => InBody(f)')
  BY TurnKeeps DEF At
<1>2. /\ plugin'[f] = plugin[f] /\ state'[f] = state[f]
      /\ epoch'[f] = epoch[f] /\ work'[f] = work[f] /\ (Still(f)' <=> Still(f))
      /\ watch'[f] = watch[f] /\ gate'[f] = gate[f] /\ evaluation'[f] = evaluation[f]
      /\ evals'[f] = evals[f] /\ dirty'[f] = dirty[f] /\ bound' = bound
  BY DEF At
<1>3. (Leaving(f)' <=> Leaving(f)) /\ (Alert(f)' <=> Alert(f))
  BY <1>1, <1>2 DEF Leaving, Alert, Due, Disposal
<1>4. Missing(f)' = Missing(f) /\ Sample(f)' = Sample(f)
  BY <1>2, StaleKept
<1>5. Torn(f) => Torn(f)'
  BY DEF Torn, At
<1>6. \A p \in Procs : pc'[p] = "through" /\ Of(p)' = f => pc[p] = "through" /\ Of(p) = f
  BY DEF At
<1>7. InOrder(f) => InOrder(f)'
  BY <1>1, <1>2, <1>6 DEF InOrder
<1> QED
  BY <1>1, <1>2, <1>3, <1>4, <1>5, <1>7 DEF Calm

\* A step that concerns one instance, and minds it.
LEMMA MindedAt ==
  ASSUME IInv, Minded, NEW f \in FiberIds, At({f}), plugin' = plugin,
         f # Root /\ Mounted(f) => Minds(f)'
  PROVE  Minded'
<1>1. ASSUME NEW g \in FiberIds \ {Root}, g # f, Mounted(g) PROVE Minds(g)'
  BY <1>1, Apart, CalmMinds DEF Minded
<1>2. \A g \in FiberIds : Mounted(g)' <=> Mounted(g)
  BY DEF Mounted
<1> QED
  BY <1>1, <1>2 DEF Minded

\* A step that concerns none.
LEMMA MindedAside ==
  ASSUME IInv, Minded, At({}), plugin' = plugin PROVE Minded'
<1>1. ASSUME NEW g \in FiberIds \ {Root}, Mounted(g) PROVE Minds(g)'
  BY <1>1, Apart, CalmMinds DEF Minded
<1>2. \A g \in FiberIds : Mounted(g)' <=> Mounted(g)
  BY DEF Mounted
<1> QED
  BY <1>1, <1>2 DEF Minded

\* What has to be shown of a step of one instance.
LEMMA AtOne ==
  ASSUME IInv, NEW f \in FiberIds, Turn({f}), op' = op, bound' = bound,
         \A p \in Procs : Of(p) # f => pc'[p] = pc[p],
         \A g \in FiberIds \ {f} :
           /\ plugin'[g] = plugin[g] /\ state'[g] = state[g]
           /\ epoch'[g] = epoch[g] /\ work'[g] = work[g]
           /\ watch'[g] = watch[g] /\ gate'[g] = gate[g] /\ evaluation'[g] = evaluation[g]
           /\ evals'[g] = evals[g] /\ dirty'[g] = dirty[g]
  PROVE  At({f})
<1>1. \A p \in Procs : Of(p)' = Of(p)
  BY OfKept
<1>2. \A g \in FiberIds \ {f} : Still(g)' <=> Still(g)
  BY Processes DEF Still, Task
<1> QED
  BY <1>1, <1>2 DEF At

LEMMA Returning ==
  ASSUME IInv, stack # <<>>, NEW f, stack[1].fiber = f, stack' = Tail(stack)
  PROVE  Turn({f}) /\ ~Evaluated(f)'
<1>1. Turn({f})
  BY DEF Turn
<1>2. ASSUME Evaluated(f)' PROVE FALSE
  <2>1. /\ stack \in Seq(Frames) /\ DOMAIN stack = 1..Len(stack) /\ Len(stack) \in Nat
        /\ stack' \in Seq(Frames) /\ DOMAIN stack' = 1..(Len(stack) - 1)
        /\ \A i \in 1..(Len(stack) - 1) : stack'[i] = stack[i + 1]
    BY Facts, Stacks
  <2>2. stack' # <<>> /\ stack'[1].do = "evaluate"
    BY <1>2 DEF Evaluated
  <2>3. 1 \in 1..(Len(stack) - 1) /\ 1 + 1 \in DOMAIN stack
    BY <2>1, <2>2
  <2>4. stack[1 + 1].do = "evaluate"
    BY <2>1, <2>2, <2>3
  <2> QED
    BY <2>3, <2>4, Facts DEF Stacked, Evaluating
<1> QED
  BY <1>1, <1>2

LEMMA Calling ==
  ASSUME NEW f \in FiberIds, stack = <<>>, NEW do \in {"evaluate", "body"},
         stack' = <<[do |-> do, fiber |-> f]>> \o stack
  PROVE  /\ Turn({f}) /\ (do = "body" => Turn({}))
         /\ Evaluated(f)' <=> do = "evaluate"
<1> DEFINE x == [do |-> do, fiber |-> f]
<1>1. x \in Frames /\ x.fiber = f /\ x.do = do
  BY DEF Frames
<1>2. stack' = <<x>> \o stack
  OBVIOUS
<1>3. stack' # <<>> /\ stack'[1] = x
  OBVIOUS
<1> HIDE DEF x
<1>4. Turn({f}) /\ (do = "body" => Turn({}))
  BY <1>1, <1>2 DEF Turn
<1>5. Evaluated(f)' <=> x = [do |-> "evaluate", fiber |-> f]
  BY <1>3 DEF Evaluated
<1>6. x = [do |-> "evaluate", fiber |-> f] <=> do = "evaluate"
  BY DEF x
<1> QED
  BY <1>4, <1>5, <1>6

\* An announcement: who is told looks again, and who is not does not mind.
LEMMA Noticed ==
  ASSUME IInv, NEW names, Announce(names), NEW f \in FiberIds, Listens(f),
         UNCHANGED <<stack, plugin, state, epoch, work, watch, gate, evals, op>>,
         \A n \in Names \ names : bound'[n] = bound[n],
         \A p \in Procs :
           /\ pc'[p] = pc[p] \/ (pc[p] \in Teardown /\ pc'[p] \in Teardown)
           /\ pc'[p] = "through" => pc[p] = "through",
         ~looping =>
           /\ Hears(f, names) => state[f] \in {"PENDING", "FAILED"}
           /\ ~Evaluated(f) /\ \A p \in Procs : pc[p] # "through"
  PROVE  Calm(f)
<1>1. /\ evaluation' = [g \in FiberIds |-> evaluation[g] \/ (looping /\ Hears(g, names))]
      /\ dirty' = [g \in FiberIds |-> dirty[g] \/ (~looping /\ Hears(g, names))]
  BY DEF Announce
<1>2. /\ evaluation'[f] = (evaluation[f] \/ (looping /\ Hears(f, names)))
      /\ dirty'[f] = (dirty[f] \/ (~looping /\ Hears(f, names)))
  BY <1>1
<1>3. (Evaluated(f)' <=> Evaluated(f)) /\ (InBody(f)' <=> InBody(f)) /\ (Leaving(f)' <=> Leaving(f))
  BY DEF Evaluated, InBody, Leaving, Disposal
<1>4. Alert(f) => Alert(f)'
  BY <1>2, <1>3 DEF Alert, Due
<1>5. Still(f)' <=> Still(f)
  <2>1. Task(f) \in Procs /\ Task(f)' = Task(f)
    BY Processes DEF Task
  <2> QED
    BY <2>1 DEF Still, Teardown
<1>6. \A p \in Procs : Of(p)' = Of(p)
  BY OfKept
<1>7. Torn(f) => Torn(f)'
  BY <1>6 DEF Torn
<1>8. \/ Missing(f)' = Missing(f) /\ Sample(f)' = Sample(f)
      \/ Alert(f)' \/ state[f] = "DISPOSED"
  <2>1. Needs(f)' = Needs(f) /\ Needs(f) \subseteq Names
    BY Sorts, FiberAssumption DEF Needs
  <2>2. CASE Needs(f) \cap names = {}
    <3>1. \A n \in Needs(f) : bound'[n] = bound[n]
      BY <2>1, <2>2
    <3> QED
      BY <2>1, <3>1 DEF Missing, Sample
  <2>3. CASE Needs(f) \cap names # {} /\ state[f] # "DISPOSED"
    <3>1. watch[f] \/ Leaving(f)
      BY <2>3 DEF Listens
    <3>2. CASE Leaving(f)
      BY <1>3, <3>2 DEF Alert
    <3>3. CASE watch[f]
      <4>1. Hears(f, names) \/ evaluation[f]
        BY <2>3, <3>3 DEF Hears
      <4> QED
        BY <1>2, <4>1 DEF Alert, Due
    <3> QED
      BY <3>1, <3>2, <3>3
  <2> QED
    BY <2>2, <2>3
<1>9. InOrder(f) => InOrder(f)'
  BY <1>2, <1>3, <1>6 DEF InOrder
<1> QED
  BY <1>3, <1>4, <1>5, <1>7, <1>8, <1>9 DEF Calm

----------------------------------------------------------------------------
(* The running task *)

LEMMA EvaluateLoadsMinds ==
  ASSUME IInv, Minded, EvaluateLoads PROVE Minded'
<1>1. PICK f \in FiberIds :
        /\ f = This /\ Mounted(f) /\ Evaluated(f) /\ stack # <<>> /\ stack[1].fiber = f
        /\ state[f] \in {"PENDING", "ACTIVE"} => Still(f)
        /\ stack \in Seq(Frames)
  BY EvaluateFacts DEF EvaluateLoads
<1>2. /\ state[f] = "PENDING" /\ Missing(f) = {}
      /\ epoch' = [epoch EXCEPT ![f] = Sample(f)]
      /\ state' = [state EXCEPT ![f] = "LOADING"]
      /\ stack' = <<[do |-> "body", fiber |-> f]>> \o Tail(stack)
      /\ UNCHANGED <<plugin, work, watch, gate, evaluation, evals, dirty, op, pc, bound>>
  BY <1>1 DEF EvaluateLoads, LoadsNow, Push, treeVars, waitVars, procVars
<1>3. [do |-> "body", fiber |-> f] \in Frames
  BY DEF Frames
<1>4. stack' # <<>> /\ stack'[1] = [do |-> "body", fiber |-> f] /\ 1 \in DOMAIN stack'
  <2>1. Len(stack) \in Nat \ {0}
    BY <1>1
  <2> QED
    BY <1>1, <1>2, <1>3, <2>1, Replaced
<1>5. /\ state'[f] = "LOADING" /\ epoch'[f] = Sample(f)
      /\ \A g \in FiberIds \ {f} : state'[g] = state[g] /\ epoch'[g] = epoch[g]
  BY <1>2, Sorts, Facts DEF EpochTypes
<1>6. At({f})
  <2>1. Turn({f})
    BY <1>1, <1>2, <1>3 DEF Turn
  <2> QED
    BY <1>2, <1>5, <2>1, AtOne
<1>7. ASSUME f # Root PROVE Minds(f)'
  <2>1. Minds(f) /\ Still(f) /\ Still(f)'
    BY <1>1, <1>2, <1>7 DEF Minded, Still, Task
  <2>2. Needs(f)' = Needs(f) /\ ~Stale(f)'
    BY <1>2, <1>5, StaleKept DEF Stale
  <2>3. Listens(f)'
    BY <1>2, <2>1, <2>2 DEF Minds, Listens, Leaving, Disposal
  <2>4. Looks(f)' /\ Worked(f)'
    BY <1>4, <1>5, <2>1, <2>2 DEF Looks, Worked, InBody
  <2>5. InOrder(f)'
    BY <1>1, <1>2, <1>4, <2>1 DEF Minds, InOrder, Evaluated
  <2> QED
    BY <2>3, <2>4, <2>5 DEF Minds
<1> QED
  BY <1>1, <1>2, <1>6, <1>7, MindedAt

LEMMA EvaluateUnloadsMinds ==
  ASSUME IInv, Minded, EvaluateUnloads PROVE Minded'
<1>1. PICK f \in FiberIds :
        /\ f = This /\ Mounted(f) /\ Evaluated(f) /\ stack # <<>> /\ stack[1].fiber = f
        /\ stack \in Seq(Frames)
  BY EvaluateFacts DEF EvaluateUnloads
<1>2. /\ state[f] = "ACTIVE"
      /\ work' = [work EXCEPT ![f] = IF Missing(f) # {} THEN "unload" ELSE "reload"]
      /\ pc' = [pc EXCEPT ![Task(f)] = Scheduled]
      /\ stack' = Tail(stack)
      /\ UNCHANGED <<plugin, state, epoch, watch, gate, evaluation, evals, dirty, op, bound>>
  BY <1>1 DEF EvaluateUnloads, UnloadsNow, Return, treeVars, waitVars, lifeVars
<1>3. Turn({f}) /\ ~Evaluated(f)'
  BY <1>1, <1>2, Returning
<1>4. /\ work'[f] = "unload" => Missing(f) # {}
      /\ \A g \in FiberIds \ {f} : work'[g] = work[g]
      /\ pc'[Task(f)] \in {"spawned", "held"}
      /\ \A p \in Procs : Of(p) # f => pc'[p] = pc[p]
      /\ \A p \in Procs : pc'[p] = "through" => pc[p] = "through"
  BY <1>2, Sorts, Facts DEF ProcTypes, Scheduled
<1>5. At({f})
  BY <1>2, <1>3, <1>4, AtOne
<1>6. ASSUME f # Root PROVE Minds(f)'
  <2>1. Minds(f) /\ ~Still(f)'
    BY <1>1, <1>4, <1>6 DEF Minded, Still, Task
  <2>2. Needs(f)' = Needs(f) /\ Missing(f)' = Missing(f)
    BY <1>2, StaleKept
  <2>3. Listens(f)'
    BY <1>2, <2>1, <2>2 DEF Minds, Listens, Leaving, Disposal
  <2>4. Looks(f)' /\ Worked(f)'
    BY <1>2, <1>4, <2>1, <2>2 DEF Looks, Worked
  <2>5. InOrder(f)'
    BY <1>1, <1>2, <1>3, <2>1 DEF Minds, InOrder
  <2> QED
    BY <2>3, <2>4, <2>5 DEF Minds
<1> QED
  BY <1>1, <1>2, <1>5, <1>6, MindedAt

\* Nothing to do: the bindings are what the instance has.
LEMMA EvaluateNothingMinds ==
  ASSUME IInv, Nursed, Minded, EvaluateNothing PROVE Minded'
<1>1. PICK f \in FiberIds :
        /\ f = This /\ Mounted(f) /\ Evaluated(f) /\ stack # <<>> /\ stack[1].fiber = f
        /\ state[f] \in {"PENDING", "ACTIVE"} => Still(f)
        /\ stack \in Seq(Frames)
  BY EvaluateFacts DEF EvaluateNothing
<1>2. /\ stack' = Tail(stack) /\ ~LoadsNow(f) /\ ~UnloadsNow(f)
      /\ UNCHANGED <<plugin, state, epoch, work, watch, gate, evaluation, evals, dirty, op, pc, bound>>
  BY <1>1 DEF EvaluateNothing, Return, treeVars, waitVars, lifeVars, procVars
<1>3. Turn({f}) /\ ~Evaluated(f)'
  BY <1>1, <1>2, Returning
<1>4. At({f})
  BY <1>2, <1>3, AtOne
<1>5. ASSUME f # Root PROVE Minds(f)'
  <2>1. Minds(f) /\ (Still(f)' <=> Still(f)) /\ (Leaving(f)' <=> Leaving(f))
    BY <1>1, <1>2, <1>5 DEF Minded, Still, Task, Leaving, Disposal
  <2>2. Needs(f)' = Needs(f) /\ Missing(f)' = Missing(f) /\ (Stale(f)' <=> Stale(f))
    BY <1>2, StaleKept
  <2>3. state[f] \in Settled
    BY <1>1, <2>1 DEF Minds, InOrder
  <2>4. state[f] = "PENDING" => Missing(f) # {}
    <3>1. state[f] = "PENDING" => CanOpen(f)
      BY <1>1, Openable
    <3> QED
      BY <1>2, <3>1 DEF LoadsNow
  <2>5. state[f] = "ACTIVE" => ~Stale(f)
    BY <1>2 DEF UnloadsNow, Stale
  <2>6. work[f] = "unload" => Still(f)
    BY <1>1, <2>3, Facts DEF TaskTable, Row, Settled
  <2>7. Listens(f)'
    BY <1>2, <2>1, <2>2 DEF Minds, Listens
  <2>8. Looks(f)' /\ Worked(f)'
    BY <1>2, <2>1, <2>2, <2>3, <2>4, <2>5, <2>6 DEF Looks, Worked, Settled
  <2>9. InOrder(f)'
    BY <1>1, <1>2, <1>3, <2>1 DEF Minds, InOrder
  <2> QED
    BY <2>7, <2>8, <2>9 DEF Minds
<1> QED
  BY <1>1, <1>2, <1>4, <1>5, MindedAt

\* A name is bound: whoever needs it hears of it, or is being disposed.
LEMMA BodyProvidesMinds ==
  ASSUME IInv, Before, Minded, BodyProvides PROVE Minded'
<1>1. PICK n : /\ bound[n] = None /\ Announce({n})
               /\ UNCHANGED <<stack, plugin, state, epoch, work, watch, gate, evals, op, pc>>
               /\ \A m \in Names \ {n} : bound'[m] = bound[m]
  BY Sorts DEF BodyProvides, treeVars, procVars
<1>2. stack[1].do = "body"
  <2>1. Top("body")
    BY DEF BodyProvides, BodyAt
  <2>2. stack[1] = [do |-> "body", fiber |-> This]
    BY <2>1, TopFacts
  <2> QED
    BY <2>2
<1>3. ASSUME NEW f \in FiberIds \ {Root}, Mounted(f) PROVE Calm(f)
  <2>1. Listens(f)
    BY <1>3 DEF Minded, Minds
  <2>2. ASSUME ~looping
        PROVE  /\ Hears(f, {n}) => state[f] \in {"PENDING", "FAILED"}
               /\ ~Evaluated(f) /\ \A p \in Procs : pc[p] # "through"
    <3>1. /\ \A p \in Procs : pc[p] # "through"
          /\ state[f] # "UNLOADING"
          /\ state[f] \in {"LOADING", "ACTIVE"} => ~Stale(f)
      BY <1>3, <2>2 DEF Before
    <3>2. Hears(f, {n}) => state[f] # "DISPOSED" /\ n \in Missing(f)
      BY <1>1 DEF Hears, Missing
    <3>3. state[f] \in States
      BY <1>3, Sorts
    <3> QED
      BY <1>2, <3>1, <3>2, <3>3 DEF Stale, States, Evaluated
  <2> QED
    BY <1>1, <1>3, <2>1, <2>2, Noticed
<1>4. ASSUME NEW f \in FiberIds \ {Root}, Mounted(f) PROVE Minds(f)'
  BY <1>3, <1>4, CalmMinds DEF Minded
<1>5. \A f \in FiberIds : Mounted(f)' <=> Mounted(f)
  BY <1>1 DEF Mounted
<1> QED
  BY <1>4, <1>5 DEF Minded

\* A mount: the instance is looked at at once, and hears of what it needs.
LEMMA MountMinds ==
  ASSUME IInv, Minded, NEW f \in FiberIds, NEW q \in Plugins, Mount(f, q, stack),
         stack # <<>> => stack[1].do = "body",
         UNCHANGED <<state, epoch, evaluation, evals, dirty, gate, pc, op, work, bound>>
  PROVE  Minded'
<1>1. PICK g \in FiberIds \ {Root} : Appears(g, q, stack)
  BY MountFacts
<1> USE DEF Appears
<1>2. [do |-> "evaluate", fiber |-> g] \in Frames
  BY DEF Frames
<1>3. stack' # <<>> /\ stack'[1] = [do |-> "evaluate", fiber |-> g]
  BY <1>1, <1>2, Facts, Stacks
<1>4. At({g})
  <2>1. Turn({g})
    BY <1>1, <1>2 DEF Turn
  <2> QED
    BY <1>1, <2>1, AtOne
<1>5. Minds(g)'
  <2>1. /\ state[g] = "PENDING" /\ pc[Task(g)] = "idle" /\ ~dirty[g]
    BY <1>1, Facts DEF Enrolled
  <2>2. Alert(g)' /\ Still(g)'
    BY <1>3, <2>1 DEF Alert, Due, Evaluated, Still, Task
  <2>3. Listens(g)'
    BY <1>1 DEF Listens, Needs
  <2>4. Looks(g)' /\ Worked(g)'
    BY <2>1, <2>2 DEF Looks, Worked
  <2>5. InOrder(g)'
    BY <2>1 DEF InOrder, Settled
  <2> QED
    BY <2>3, <2>4, <2>5 DEF Minds
<1>6. ASSUME NEW h \in FiberIds \ {Root}, Mounted(h)' PROVE Minds(h)'
  <2>1. CASE h = g
    BY <1>5, <2>1
  <2>2. CASE h # g
    <3>1. Mounted(h)
      BY <1>1, <1>6, <2>2 DEF Mounted
    <3> QED
      BY <1>4, <2>2, <3>1, Apart, CalmMinds DEF Minded
  <2> QED
    BY <2>1, <2>2
<1> QED
  BY <1>6 DEF Minded

LEMMA BodyMountsMinds ==
  ASSUME IInv, Minded, BodyMounts PROVE Minded'
<1>1. /\ This \in FiberIds /\ NextStep(This).what \in Plugins
      /\ stack[1].do = "body"
  BY BodyFacts, ScriptTyped DEF BodyMounts, BodyAt
<1>2. /\ Mount(This, NextStep(This).what, stack)
      /\ UNCHANGED <<state, epoch, evaluation, evals, dirty, gate, pc, op, work, bound>>
  BY DEF BodyMounts, procVars
<1> QED
  BY <1>1, <1>2, MountMinds

LEMMA OutsideMountMinds ==
  ASSUME IInv, AtAwait, Minded, NEW f \in FiberIds, NEW q \in Plugins,
         HostMount(q) \/ LateMount(f, q)
  PROVE  Minded'
<1>1. stack = <<>> /\ Root \in FiberIds
  BY FiberAssumption DEF AtAwait, Root, FiberIds
<1>2. /\ \E g \in {f, Root} : Mount(g, q, stack)
      /\ UNCHANGED <<state, epoch, evaluation, evals, dirty, gate, pc, op, work, bound>>
  BY <1>1 DEF HostMount, LateMount, procVars
<1> QED
  BY <1>1, <1>2, MountMinds

\* The body awaits, in a task: its load is that task's work from now on.
LEMMA BodyAwaitsMinds ==
  ASSUME IInv, Minded, BodyAwaits PROVE Minded'
<1>1. PICK f \in FiberIds :
        /\ f = This /\ Mounted(f) /\ stack # <<>> /\ stack[1] = [do |-> "body", fiber |-> f]
        /\ Still(f) \/ pc[Task(f)] = "running"
  BY BodyFacts DEF BodyAwaits, BodyAt
<1>2. state[f] = "LOADING" /\ ~Evaluated(f) /\ stack[1].fiber = f
  BY <1>1, BodyFacts DEF Evaluated, BodyAwaits, BodyAt
<1>3. /\ stack' = Tail(stack)
      /\ UNCHANGED <<plugin, state, epoch, watch, gate, evaluation, evals, dirty, op, bound>>
      /\ \/ InFinish(f) /\ pc' = [pc EXCEPT ![Task(f)] = "body"] /\ work' = work
         \/ /\ pc' = [pc EXCEPT ![Task(f)] = Scheduled]
            /\ work' = [work EXCEPT ![f] = "finish"]
  BY <1>1 DEF BodyAwaits, Return, treeVars, waitVars
<1>4. Turn({f}) /\ ~Evaluated(f)'
  BY <1>1, <1>2, <1>3, Returning
<1>5. /\ work'[f] = "finish" /\ \A g \in FiberIds \ {f} : work'[g] = work[g]
      /\ pc'[Task(f)] \in {"body", "spawned", "held"}
      /\ \A p \in Procs : Of(p) # f => pc'[p] = pc[p]
  <2>1. pc[Task(f)] = "running" => work[f] = "finish"
    BY Facts DEF TaskTable, Row, Still, Teardown
  <2>2. work'[f] = "finish" /\ \A g \in FiberIds \ {f} : work'[g] = work[g]
    BY <1>3, <2>1, Facts DEF ProcTypes, InFinish
  <2> QED
    BY <1>3, <2>2, Sorts DEF Scheduled
<1>6. At({f})
  BY <1>3, <1>4, <1>5, AtOne
<1>7. ASSUME f # Root PROVE Minds(f)'
  <2>1. Minds(f) /\ ~Still(f)'
    BY <1>1, <1>5, <1>7 DEF Minded, Still, Task
  <2>2. Needs(f)' = Needs(f) /\ (Stale(f)' <=> Stale(f))
    BY <1>3, StaleKept
  <2>3. Listens(f)'
    BY <1>3, <2>1, <2>2 DEF Minds, Listens, Leaving, Disposal
  <2>4. Looks(f)' /\ Worked(f)'
    BY <1>2, <1>3, <1>5, <2>1, <2>2 DEF Minds, Looks, Worked, Alert, Due, Leaving, Disposal
  <2>5. InOrder(f)'
    BY <1>2, <1>3, <1>4, <2>1 DEF Minds, InOrder
  <2> QED
    BY <2>3, <2>4, <2>5 DEF Minds
<1> QED
  BY <1>1, <1>3, <1>6, <1>7, MindedAt

\* The load is over: what changed while the body ran is looked at next.
LEMMA BodyReturnsMinds ==
  ASSUME IInv, Minded, BodyReturns PROVE Minded'
<1>1. PICK f \in FiberIds :
        /\ f = This /\ Mounted(f) /\ stack # <<>> /\ stack[1] = [do |-> "body", fiber |-> f]
        /\ Still(f) \/ pc[Task(f)] = "running"
  BY BodyFacts DEF BodyReturns
<1>2. state[f] = "LOADING" /\ ~Evaluated(f) /\ stack[1].fiber = f
  BY <1>1, BodyFacts DEF Evaluated, BodyReturns
<1>3. /\ stack' = Tail(stack) /\ state' = [state EXCEPT ![f] = "ACTIVE"]
      /\ pc' = [pc EXCEPT ![Task(f)] = IF InFinish(f) THEN "idle" ELSE @]
      /\ UNCHANGED <<plugin, epoch, work, watch, gate, evaluation, evals, dirty, op, bound>>
  BY <1>1 DEF BodyReturns, Return, treeVars, waitVars
<1>4. Turn({f}) /\ ~Evaluated(f)'
  BY <1>1, <1>2, <1>3, Returning
<1>5. /\ state'[f] = "ACTIVE" /\ \A g \in FiberIds \ {f} : state'[g] = state[g]
      /\ pc'[Task(f)] \in {"idle", "raised"}
      /\ \A p \in Procs : Of(p) # f => pc'[p] = pc[p]
  BY <1>1, <1>3, Sorts DEF InFinish, Still
<1>6. At({f})
  BY <1>3, <1>4, <1>5, AtOne
<1>7. ASSUME f # Root PROVE Minds(f)'
  <2>1. Minds(f) /\ Still(f)'
    BY <1>1, <1>5, <1>7 DEF Minded, Still, Task
  <2>2. Needs(f)' = Needs(f) /\ (Stale(f)' <=> Stale(f))
    BY <1>3, StaleKept
  <2>3. Listens(f)'
    BY <1>2, <1>3, <2>1, <2>2 DEF Minds, Listens, Leaving, Disposal
  <2>4. Looks(f)' /\ Worked(f)'
    BY <1>2, <1>3, <1>5, <2>1, <2>2 DEF Minds, Looks, Worked, Alert, Due, Leaving, Disposal
  <2>5. InOrder(f)'
    BY <1>2, <1>3, <1>4, <2>1 DEF Minds, InOrder
  <2> QED
    BY <2>3, <2>4, <2>5 DEF Minds
<1> QED
  BY <1>1, <1>3, <1>6, <1>7, MindedAt

LEMMA BodyRaisesMinds ==
  ASSUME IInv, Minded, BodyRaises PROVE Minded'
<1>1. PICK f \in FiberIds :
        /\ f = This /\ Mounted(f) /\ stack # <<>> /\ stack[1] = [do |-> "body", fiber |-> f]
        /\ Still(f) \/ pc[Task(f)] = "running"
  BY BodyFacts DEF BodyRaises
<1>2. state[f] = "LOADING" /\ ~Evaluated(f) /\ stack[1].fiber = f
  BY <1>1, BodyFacts DEF Evaluated, BodyRaises
<1>3. /\ stack' = Tail(stack)
      /\ UNCHANGED <<plugin, epoch, watch, gate, evaluation, evals, dirty, op, bound>>
      /\ \/ /\ InFinish(f) /\ pc' = [pc EXCEPT ![Task(f)] = "unwind"]
            /\ state' = state /\ work' = work
         \/ /\ state' = [state EXCEPT ![f] = "FAILED"]
            /\ work' = [work EXCEPT ![f] = "release"]
            /\ pc' = [pc EXCEPT ![Task(f)] = Scheduled]
  BY <1>1 DEF BodyRaises, Return, treeVars, waitVars
<1>4. Turn({f}) /\ ~Evaluated(f)'
  BY <1>1, <1>2, <1>3, Returning
<1>5. /\ state'[f] \in {"LOADING", "FAILED"} /\ \A g \in FiberIds \ {f} : state'[g] = state[g]
      /\ work'[f] \in {"finish", "release"} /\ \A g \in FiberIds \ {f} : work'[g] = work[g]
      /\ pc'[Task(f)] \in {"unwind", "spawned", "held"}
      /\ \A p \in Procs : Of(p) # f => pc'[p] = pc[p]
  <2>1. pc[Task(f)] = "running" => work[f] = "finish"
    BY Facts DEF TaskTable, Row, Still, Teardown
  <2>2. work'[f] \in {"finish", "release"} /\ \A g \in FiberIds \ {f} : work'[g] = work[g]
    BY <1>3, <2>1, Facts DEF ProcTypes, InFinish
  <2>3. state'[f] \in {"LOADING", "FAILED"} /\ \A g \in FiberIds \ {f} : state'[g] = state[g]
    BY <1>2, <1>3, Sorts
  <2> QED
    BY <1>3, <2>2, <2>3, Sorts DEF Scheduled
<1>6. At({f})
  BY <1>3, <1>4, <1>5, AtOne
<1>7. ASSUME f # Root PROVE Minds(f)'
  <2>1. Minds(f) /\ ~Still(f)'
    BY <1>1, <1>5, <1>7 DEF Minded, Still, Task
  <2>2. Needs(f)' = Needs(f) /\ (Stale(f)' <=> Stale(f))
    BY <1>3, StaleKept
  <2>3. Listens(f)'
    BY <1>2, <1>3, <2>1, <2>2 DEF Minds, Listens, Leaving, Disposal
  <2>4. Looks(f)' /\ Worked(f)'
    BY <1>2, <1>3, <1>5, <2>1, <2>2 DEF Minds, Looks, Worked, Alert, Due, Leaving, Disposal
  <2>5. InOrder(f)'
    BY <1>2, <1>3, <1>4, <2>1 DEF Minds, InOrder
  <2> QED
    BY <2>3, <2>4, <2>5 DEF Minds
<1> QED
  BY <1>1, <1>3, <1>6, <1>7, MindedAt
----------------------------------------------------------------------------
(* The tasks the loop takes *)

\* A process goes on, and none of what an instance minds moves.
LEMMA MindedMove ==
  ASSUME IInv, Minded, NEW p \in Procs, NEW at, pc' = [pc EXCEPT ![p] = at], Turn({}),
         UNCHANGED <<plugin, state, epoch, work, watch, gate, evaluation, evals, dirty, op, bound>>,
         pc[p] \in Teardown => at \in Teardown, at # "through",
         \/ \A f \in FiberIds : p # Task(f)
         \/ pc[p] \notin {"idle", "raised"} /\ at \notin {"idle", "raised"}
  PROVE  Minded'
<1>1. \A q \in Procs : Of(q)' = Of(q)
  BY OfKept
<1>2. pc'[p] = at /\ \A q \in Procs \ {p} : pc'[q] = pc[q]
  BY Sorts
<1>3. \A f \in FiberIds : Still(f)' <=> Still(f)
  <2> SUFFICES ASSUME NEW f \in FiberIds PROVE Still(f)' <=> Still(f)
    OBVIOUS
  <2>1. PICK t \in Procs : t = Task(f) /\ Task(f)' = t
    BY Processes DEF Task
  <2>2. pc'[t] \in {"idle", "raised"} <=> pc[t] \in {"idle", "raised"}
    BY <1>2, <2>1
  <2> QED
    BY <2>1, <2>2 DEF Still
<1>4. At({})
  BY <1>1, <1>2, <1>3 DEF At
<1> QED
  BY <1>4, MindedAside

LEMMA MindedRest ==
  ASSUME IInv, Minded,
         UNCHANGED <<stack, plugin, state, epoch, work, watch, gate, evaluation, evals, dirty,
                     pc, op, bound>>
  PROVE  Minded'
<1>1. \A q \in Procs : Of(q)' = Of(q)
  BY OfKept
<1>2. \A f \in FiberIds : Still(f)' <=> Still(f)
  BY DEF Still, Task
<1>3. At({})
  BY <1>1, <1>2 DEF At, Turn
<1> QED
  BY <1>3, MindedAside

LEMMA CloseScopeMinds ==
  ASSUME IInv, Minded, Unbroken, NEW p \in Procs, CloseScope(p) PROVE Minded'
<1>1. pc[p] = "unwind" /\ scope[Of(p)] \in {"open", "closed"}
  BY Closeable DEF Unbroken
<1>2. \E at \in {"scope", "emptied"} : pc' = [pc EXCEPT ![p] = at]
  BY <1>1 DEF CloseScope
<1>3. UNCHANGED <<stack, plugin, state, epoch, work, watch, gate, evaluation, evals, dirty, op, bound>>
  BY <1>1 DEF CloseScope
<1> QED
  BY <1>1, <1>2, <1>3, MindedMove DEF Teardown, Turn

\* The names a scope held are free: whoever needs one hears of it.
LEMMA ReleaseScopeMinds ==
  ASSUME IInv, Minded, Unbroken', looping, NEW p \in Procs, ReleaseScope(p) PROVE Minded'
<1>1. Of(p) \in FiberIds /\ pc[p] = "scope"
  BY Sorts DEF ReleaseScope
<1>2. pc' = [pc EXCEPT ![p] = "released"] /\ UNCHANGED <<gate, evals>>
  <2>1. ASSUME scope'[Of(p)] = "broken" PROVE FALSE
    BY <1>1, <2>1 DEF Unbroken
  <2> QED
    BY <1>1, <2>1 DEF ReleaseScope
<1>3. PICK names :
        /\ Announce(names)
        /\ bound' = [n \in Names |-> IF n \in names THEN None ELSE bound[n]]
        /\ UNCHANGED <<stack, plugin, state, epoch, work, watch, op>>
  BY DEF ReleaseScope, treeVars
<1>4. \A n \in Names \ names : bound'[n] = bound[n]
  BY <1>3
<1>5. \A q \in Procs : /\ pc'[q] = pc[q] \/ (pc[q] \in Teardown /\ pc'[q] \in Teardown)
                       /\ pc'[q] = "through" => pc[q] = "through"
  BY <1>1, <1>2, Sorts DEF Teardown
<1>6. ASSUME NEW f \in FiberIds \ {Root}, Mounted(f) PROVE Minds(f)'
  <2>1. Minds(f)
    BY <1>6 DEF Minded
  <2>2. Calm(f)
    BY <1>2, <1>3, <1>4, <1>5, <1>6, <2>1, Noticed DEF Minds
  <2> QED
    BY <1>6, <2>1, <2>2, CalmMinds
<1>7. \A f \in FiberIds : Mounted(f)' <=> Mounted(f)
  BY <1>3 DEF Mounted
<1> QED
  BY <1>6, <1>7 DEF Minded

LEMMA UnwindingMinds ==
  ASSUME IInv, Minded, Unraised, Unbroken', looping, NEW p \in Procs, Unwinding(p) PROVE Minded'
<1>1. CASE DisposeChild(p)
  <2>1. PICK c \in FiberIds : c = Head(kids[p])
    BY <1>1, Sorts DEF DisposeChild
  <2>2. /\ Disposal(c) \in Procs /\ pc[Disposal(c)] = "idle"
        /\ pc' = [pc EXCEPT ![Disposal(c)] = "spawned"]
        /\ \A f \in FiberIds : Disposal(c) # Task(f)
        /\ UNCHANGED <<stack, plugin, state, epoch, work, watch, gate, evaluation, evals, dirty, op, bound>>
    BY <1>1, <2>1, Processes DEF DisposeChild, treeVars, lifeVars, waitVars
  <2> QED
    BY <2>2, MindedMove DEF Teardown, Turn
<1>2. CASE ChildDisposed(p)
  BY <1>2, MindedRest DEF ChildDisposed, treeVars, lifeVars, waitVars
<1>3. CASE ChildRaised(p)
  <2>1. PICK c \in FiberIds : c = Head(kids[p])
    BY <1>3, Sorts DEF ChildRaised
  <2> QED
    BY <1>3, <2>1, Processes DEF ChildRaised, Unraised
<1>4. CASE ReleaseScope(p)
  BY <1>4, ReleaseScopeMinds
<1> QED
  BY <1>1, <1>2, <1>3, <1>4 DEF Unwinding

\* What callers do but for the gate.
LEMMA CallsMinds ==
  ASSUME IInv, Minded, Unraised, NEW o \in Ops, Calls(o) PROVE Minded'
<1>1. PICK p \in Procs : p = Caller(o) /\ \A f \in FiberIds : p # Task(f)
  BY Processes
<1>2. UNCHANGED <<stack, plugin, state, epoch, work, watch, gate, evaluation, evals, dirty, op, bound>>
  BY DEF Calls, Settles, DisposeReturns, treeVars, lifeVars, waitVars
<1>3. pc[p] \in {"settle", "disposal"} /\ pc' = [pc EXCEPT ![p] = "done"]
  <2>1. CASE Settles(o)
    BY <1>1, <2>1 DEF Settles
  <2>2. CASE DisposeReturns(o)
    <3>1. Disposal(Of(Caller(o))) \in Procs
      BY <1>1, Processes, Sorts
    <3> QED
      BY <1>1, <2>2, <3>1 DEF DisposeReturns, Unraised
  <2> QED
    BY <2>1, <2>2 DEF Calls
<1> QED
  BY <1>1, <1>2, <1>3, MindedMove DEF Teardown, Turn

\* A call is made: nobody tears down what it is about yet.
LEMMA IssueMinds ==
  ASSUME IInv, Minded, NEW o \in Ops, NEW kind \in Kinds, NEW f \in FiberIds, NEW c \in Configs,
         Issue(o, kind, f, c)
  PROVE  Minded'
<1>1. PICK p \in Procs : p = Caller(o)
  BY Processes
<1>2. PICK d \in Procs : d = Disposal(f) /\ d # p
  BY <1>1, Processes
<1>3. /\ pc'[p] \in {"settle", "enter", "gate", "done", "disposal"} /\ pc[p] = "idle"
      /\ pc'[d] = pc[d] \/ (pc[d] = "idle" /\ pc'[d] = "spawned")
      /\ \A q \in Procs \ {p, d} : pc'[q] = pc[q]
  <2>1. pc[p] = "idle"
    BY <1>1 DEF Issue
  <2> QED
    BY <1>1, <1>2, <2>1, Issued
<1>4. UNCHANGED <<stack, plugin, state, epoch, work, watch, gate, evaluation, evals, dirty, bound>>
  BY DEF Issue, treeVars, waitVars
<1>5. \A q \in Procs \ {p} : Of(q)' = Of(q)
  <2>1. \A r \in Ops \ {o} : op'[r] = op[r]
    BY Facts DEF Issue, ProcTypes
  <2>2. \A g \in FiberIds : Of(Task(g))' = Of(Task(g)) /\ Of(Disposal(g))' = Of(Disposal(g))
    BY DEF Of, Task, Disposal
  <2>3. \A r \in Ops \ {o} : Of(Caller(r))' = Of(Caller(r))
    BY <2>1 DEF Of, Caller
  <2> QED
    BY <1>1, <2>2, <2>3, Processes
<1>6. \A g \in FiberIds : Still(g)' <=> Still(g)
  <2> SUFFICES ASSUME NEW g \in FiberIds PROVE Still(g)' <=> Still(g)
    OBVIOUS
  <2>1. PICK t \in Procs \ {p, d} : t = Task(g) /\ Task(g)' = t
    BY <1>1, <1>2, Processes DEF Task
  <2> QED
    BY <1>3, <2>1 DEF Still
<1>7. \A q \in Procs : pc[q] \in Teardown => pc'[q] \in Teardown /\ Of(q)' = Of(q)
  BY <1>3, <1>5 DEF Teardown
<1>8. \A q \in Procs : pc'[q] = "through" => pc[q] = "through" /\ Of(q)' = Of(q)
  BY <1>3, <1>5
<1>9. At({})
  BY <1>4, <1>6, <1>7, <1>8 DEF At, Turn
<1> QED
  BY <1>4, <1>9, MindedAside
\* An instance is looked at, or will be.
LEMMA LookedAt ==
  ASSUME IInv, Minded, stack = <<>>, NEW f \in FiberIds,
         UNCHANGED <<plugin, state, epoch, work, watch, gate, pc, op, bound>>,
         \A g \in FiberIds \ {f} :
           evaluation'[g] = evaluation[g] /\ evals'[g] = evals[g] /\ dirty'[g] = dirty[g],
         stack' = stack \/ stack' = <<[do |-> "evaluate", fiber |-> f]>> \o stack,
         Alert(f)', dirty'[f] => dirty[f],
         f # Root /\ Mounted(f) /\ Evaluated(f)' => state[f] \in Settled /\ ~dirty'[f]
  PROVE  Minded'
<1>1. Turn({f})
  <2>1. CASE stack' = stack
    BY <2>1 DEF Turn
  <2>2. CASE stack' = <<[do |-> "evaluate", fiber |-> f]>> \o stack
    BY <2>2, Calling
  <2> QED
    BY <2>1, <2>2
<1>2. At({f})
  BY <1>1, AtOne
<1>3. ASSUME f # Root, Mounted(f) PROVE Minds(f)'
  <2>1. Minds(f) /\ (Still(f)' <=> Still(f)) /\ (Leaving(f)' <=> Leaving(f)) /\ ~InBody(f)
    BY <1>3 DEF Minded, Still, Task, Leaving, Disposal, InBody
  <2>2. Needs(f)' = Needs(f)
    BY StaleKept
  <2>3. Listens(f)' /\ Looks(f)'
    BY <2>1, <2>2 DEF Minds, Listens, Looks
  <2>4. \A p \in Procs : Of(p)' = Of(p)
    BY OfKept
  <2>5. Worked(f)'
    BY <2>1, <2>4 DEF Minds, Worked, Torn
  <2>6. InOrder(f)'
    BY <1>3, <2>1, <2>4 DEF Minds, InOrder
  <2> QED
    BY <2>3, <2>5, <2>6 DEF Minds
<1> QED
  BY <1>2, <1>3, MindedAt

LEMMA EvaluationMinds ==
  ASSUME IInv, Minded, AtAwait, NEW f \in FiberIds,
         EvaluationStarts(f) \/ EvaluationProceeds(f) \/ Reconcile(f)
  PROVE  Minded'
<1>1. stack = <<>>
  BY DEF AtAwait
<1>2. /\ evaluation \in [FiberIds -> BOOLEAN] /\ evals \in [FiberIds -> Nat]
      /\ dirty \in [FiberIds -> BOOLEAN]
  BY Facts DEF WaitTypes
<1>3. /\ UNCHANGED <<plugin, state, epoch, work, watch, gate, pc, op, bound>>
      /\ \A g \in FiberIds \ {f} :
           evaluation'[g] = evaluation[g] /\ evals'[g] = evals[g] /\ dirty'[g] = dirty[g]
      /\ dirty'[f] => dirty[f]
  <2>1. UNCHANGED <<plugin, state, epoch, work, watch, gate, pc, op, bound>>
    BY DEF EvaluationStarts, EvaluationProceeds, Reconcile, treeVars, lifeVars, procVars
  <2>2. /\ evaluation' = evaluation \/ evaluation' = [evaluation EXCEPT ![f] = FALSE]
        /\ \/ evals' = evals
           \/ evals' = [evals EXCEPT ![f] = evals[f] + 1]
           \/ evals' = [evals EXCEPT ![f] = evals[f] - 1]
        /\ dirty' = dirty \/ dirty' = [dirty EXCEPT ![f] = FALSE]
    BY DEF EvaluationStarts, EvaluationProceeds, Reconcile
  <2> QED
    BY <1>2, <2>1, <2>2
<1>4. CASE stack' = <<[do |-> "evaluate", fiber |-> f]>> \o stack
  <2>1. Evaluated(f)' /\ Alert(f)'
    BY <1>1, <1>4, Calling DEF Alert, Due
  <2>2. f # Root /\ Mounted(f) => state[f] \in Settled /\ ~dirty'[f]
    <3>1. CASE EvaluationStarts(f)
      <4>1. ~dirty[f] /\ Rests(f)
        BY <1>1, <1>4, <3>1 DEF EvaluationStarts
      <4> QED
        BY <1>3, <4>1 DEF Rests
    <3>2. CASE EvaluationProceeds(f)
      BY <1>3, <3>2 DEF EvaluationProceeds, Quiet, Rests
    <3>3. CASE Reconcile(f)
      <4>1. dirty[f] /\ ~dirty'[f]
        BY <1>2, <3>3 DEF Reconcile
      <4> QED
        BY <4>1 DEF Minded, Minds, InOrder, Settled
    <3> QED
      BY <3>1, <3>2, <3>3
  <2> QED
    BY <1>1, <1>3, <1>4, <2>1, <2>2, LookedAt
<1>5. CASE stack' # <<[do |-> "evaluate", fiber |-> f]>> \o stack
  <2>1. EvaluationStarts(f) /\ stack' = stack /\ evals' = [evals EXCEPT ![f] = @ + 1]
    BY <1>1, <1>5 DEF EvaluationStarts, EvaluationProceeds, Reconcile, Call
  <2>2. evals'[f] > 0
    BY <1>2, <2>1
  <2>3. Alert(f)' /\ ~Evaluated(f)'
    BY <1>1, <2>1, <2>2 DEF Alert, Due, Evaluated
  <2> QED
    BY <1>1, <1>3, <2>1, <2>3, LookedAt
<1> QED
  BY <1>4, <1>5

\* The unload of a lost dependency begins, or the release of a failed body, or the
\* rest of one that awaits.
LEMMA StartTaskMinds ==
  ASSUME IInv, Minded, AtAwait, NEW f \in FiberIds, StartTask(f) PROVE Minded'
<1>1. PICK t \in Procs : t = Task(f) /\ Of(t) = f /\ pc[t] = "spawned"
  BY Processes DEF StartTask
<1>2. /\ UNCHANGED <<plugin, work, watch, gate, evaluation, evals, dirty, op, bound>>
      /\ stack = <<>>
  BY DEF StartTask, treeVars, waitVars, AtAwait
<1>3. \/ work[f] \in {"unload", "reload"} /\ state[f] = "ACTIVE"
      \/ work[f] = "release" \/ work[f] = "finish"
  BY <1>1, Facts DEF TaskTable, Row, Still, Teardown
<1>4. CASE work[f] = "release"
  <2>1. pc' = [pc EXCEPT ![t] = "unwind"] /\ UNCHANGED <<stack, state, epoch>>
    BY <1>1, <1>4 DEF StartTask
  <2> QED
    BY <1>1, <1>2, <2>1, MindedMove DEF Turn, Teardown
<1>5. CASE work[f] = "finish"
  <2>1. /\ pc' = [pc EXCEPT ![t] = "running"] /\ UNCHANGED <<state, epoch>>
        /\ stack' = <<[do |-> "body", fiber |-> f]>> \o stack
    BY <1>1, <1>5 DEF StartTask, Call
  <2>2. Turn({})
    BY <1>2, <2>1, Calling
  <2> QED
    BY <1>1, <1>2, <2>1, <2>2, MindedMove DEF Teardown
<1>6. CASE work[f] \in {"unload", "reload"} /\ state[f] = "ACTIVE"
  <2>1. /\ state' = [state EXCEPT ![f] = "UNLOADING"] /\ epoch' = [epoch EXCEPT ![f] = <<>>]
        /\ pc' = [pc EXCEPT ![t] = "unwind"] /\ stack' = stack
    BY <1>1, <1>6 DEF StartTask, BeginUnload
  <2>2. /\ state'[f] = "UNLOADING" /\ pc'[t] = "unwind"
        /\ \A g \in FiberIds \ {f} : state'[g] = state[g] /\ epoch'[g] = epoch[g]
        /\ \A q \in Procs \ {t} : pc'[q] = pc[q]
    BY <1>1, <2>1, Sorts, Facts DEF EpochTypes
  <2>3. At({f})
    <3>1. Turn({f}) /\ \A q \in Procs : Of(q) # f => pc'[q] = pc[q]
      BY <1>1, <2>1, <2>2 DEF Turn
    <3> QED
      BY <1>2, <2>2, <3>1, AtOne
  <2>4. ASSUME f # Root, Mounted(f) PROVE Minds(f)'
    <3>1. Minds(f) /\ ~Still(f) /\ ~Evaluated(f)' /\ (Alert(f) => Alert(f)')
      BY <1>1, <1>2, <2>1, <2>4
         DEF Minded, Still, Evaluated, Alert, Due, Leaving, Disposal
    <3>2. Needs(f)' = Needs(f) /\ Missing(f)' = Missing(f)
      BY <1>2, StaleKept
    <3>3. Listens(f)'
      BY <1>2, <1>6, <3>1, <3>2 DEF Minds, Listens, Leaving, Disposal
    <3>4. Looks(f)'
      BY <1>2, <2>2, <3>1, <3>2 DEF Minds, Looks
    <3>5. Worked(f)'
      <4>1. Of(t)' = f
        BY <1>1, <1>2, OfKept
      <4> QED
        BY <2>2, <4>1 DEF Worked, Torn, Teardown
    <3>6. InOrder(f)'
      BY <1>2, <1>6, <3>1 DEF Minds, InOrder
    <3> QED
      BY <3>3, <3>4, <3>5, <3>6 DEF Minds
  <2> QED
    BY <1>2, <2>3, <2>4, MindedAt
<1> QED
  BY <1>3, <1>4, <1>5, <1>6

LEMMA TasksMinds ==
  ASSUME IInv, Minded, AtAwait, NEW f \in FiberIds, Tasks(f) PROVE Minded'
<1>1. PICK t \in Procs : t = Task(f)
  BY Processes
<1>2. CASE BodyResumes(f)
  <2>1. /\ pc[t] = "body" /\ pc' = [pc EXCEPT ![t] = "running"] /\ stack = <<>>
        /\ stack' = <<[do |-> "body", fiber |-> f]>> \o stack
        /\ UNCHANGED <<plugin, state, epoch, work, watch, gate, evaluation, evals, dirty, op, bound>>
    BY <1>1, <1>2 DEF BodyResumes, Call, treeVars, lifeVars, waitVars, AtAwait
  <2>2. Turn({})
    BY <2>1, Calling
  <2> QED
    BY <2>1, <2>2, MindedMove DEF Teardown
<1>3. CASE StartHeld(f)
  <2>1. /\ pc[t] = "held" /\ pc' = [pc EXCEPT ![t] = "spawned"] /\ stack' = stack
        /\ UNCHANGED <<plugin, state, epoch, work, watch, gate, evaluation, evals, dirty, op, bound>>
    BY <1>1, <1>3 DEF StartHeld, treeVars, lifeVars, waitVars
  <2> QED
    BY <2>1, MindedMove DEF Teardown, Turn
<1> QED
  BY <1>2, <1>3, EvaluationMinds, StartTaskMinds DEF Tasks
----------------------------------------------------------------------------
(* At the gate and past it *)

\* A step of one process about its instance, from an empty stack.
LEMMA AtTurn ==
  ASSUME IInv, NEW p \in Procs, NEW f \in FiberIds, Of(p) = f, stack = <<>>,
         \/ stack' = stack
         \/ stack' = <<[do |-> "evaluate", fiber |-> f]>> \o stack,
         \A q \in Procs \ {p} : pc'[q] = pc[q],
         UNCHANGED <<plugin, work, evaluation, evals, op, bound>>,
         \A g \in FiberIds \ {f} :
           /\ state'[g] = state[g] /\ epoch'[g] = epoch[g]
           /\ watch'[g] = watch[g] /\ gate'[g] = gate[g] /\ dirty'[g] = dirty[g]
  PROVE  /\ At({f}) /\ Of(p)' = f /\ \A q \in Procs : Of(q)' = Of(q)
         /\ Evaluated(f)' <=> stack' # stack
         /\ p # Task(f) => (Still(f)' <=> Still(f))
<1>1. Turn({f}) /\ (Evaluated(f)' <=> stack' # stack)
  <2>1. CASE stack' = stack
    BY <2>1 DEF Turn, Evaluated
  <2>2. CASE stack' = <<[do |-> "evaluate", fiber |-> f]>> \o stack
    <3>1. Turn({f}) /\ Evaluated(f)'
      BY <2>2, Calling
    <3>2. stack' # <<>>
      BY <3>1 DEF Evaluated
    <3> QED
      BY <3>1, <3>2
  <2> QED
    BY <2>1, <2>2
<1>2. \A q \in Procs : Of(q)' = Of(q)
  BY OfKept
<1>3. At({f})
  <2>1. \A q \in Procs : Of(q) # f => pc'[q] = pc[q]
    OBVIOUS
  <2> QED
    BY <1>1, <2>1, AtOne
<1>4. p # Task(f) => (Still(f)' <=> Still(f))
  BY Processes DEF Still, Task
<1> QED
  BY <1>1, <1>2, <1>3, <1>4

\* The gate is taken: by the disposal, for which nobody need look any more, or by
\* a caller, for whom whoever has to look still does.
LEMMA EnterMinds ==
  ASSUME IInv, Minded, NEW p \in Procs, Sole(p), Enter(p) PROVE Minded'
<1>1. PICK f \in FiberIds : f = Of(p)
  BY Sorts
<1>2. /\ stack = <<>> /\ gate[f] = None /\ None \notin Procs
      /\ UNCHANGED <<stack, plugin, state, epoch, work, evaluation, evals, op, bound>>
  BY <1>1, ProcessAssumption DEF Enter, Sole, treeVars, lifeVars
<1>3. pc[p] \notin Teardown /\ p # Task(f)
  <2>1. CASE pc[p] \in {"enter", "gate"}
    BY <1>1, <2>1, NotTask DEF Teardown
  <2>2. CASE p = Disposal(f) /\ pc[p] = "spawned"
    BY <2>2, Processes DEF Teardown
  <2> QED
    BY <1>1, <2>1, <2>2 DEF Enter
<1>4. \A g \in FiberIds : p # Task(g)
  BY <1>1, <1>3, Processes
<1>5. CASE pc' = [pc EXCEPT ![p] = "done"] /\ UNCHANGED <<gate, watch, dirty>>
  BY <1>2, <1>3, <1>4, <1>5, MindedMove DEF Turn
<1>6. CASE /\ gate' = [gate EXCEPT ![f] = p]
           /\ IF p = Disposal(f)
              THEN watch' = [watch EXCEPT ![f] = FALSE] /\ dirty' = [dirty EXCEPT ![f] = FALSE]
              ELSE UNCHANGED <<watch, dirty>>
           /\ pc' = [pc EXCEPT ![p] =
                IF ~dirty'[f] /\ ~evaluation[f] /\ Rests(f) THEN "through" ELSE "quiet"]
  <2>1. /\ gate'[f] = p /\ \A g \in FiberIds \ {f} : gate'[g] = gate[g]
        /\ \A q \in Procs \ {p} : pc'[q] = pc[q]
        /\ pc'[p] = "through" => ~dirty'[f]
    BY <1>6, Facts DEF ProcTypes
  <2>2. /\ \A g \in FiberIds \ {f} : watch'[g] = watch[g] /\ dirty'[g] = dirty[g]
        /\ p = Disposal(f) => ~dirty'[f]
        /\ p # Disposal(f) => watch'[f] = watch[f] /\ dirty'[f] = dirty[f]
    BY <1>6, Facts DEF WaitTypes
  <2>3. /\ At({f}) /\ (Still(f)' <=> Still(f)) /\ ~Evaluated(f)'
        /\ \A q \in Procs : Of(q)' = Of(q)
    BY <1>1, <1>2, <1>3, <2>1, <2>2, AtTurn
  <2>4. ASSUME f # Root, Mounted(f) PROVE Minds(f)'
    <3>1. Minds(f) /\ ~Leaving(f)
      <4>1. Disposal(f) # None
        BY <1>2, Processes
      <4> QED
        BY <1>2, <2>4, <4>1 DEF Minded, Leaving
    <3>2. Leaving(f)' <=> p = Disposal(f)
      BY <2>1 DEF Leaving, Disposal
    <3>3. p # Disposal(f) => (Alert(f) => Alert(f)')
      BY <1>2, <2>2, <3>1 DEF Alert, Due, Evaluated
    <3>4. Needs(f)' = Needs(f) /\ Missing(f)' = Missing(f) /\ (Stale(f)' <=> Stale(f))
      BY <1>2, StaleKept
    <3>5. Listens(f)'
      BY <1>2, <2>2, <3>1, <3>2, <3>4 DEF Minds, Listens
    <3>6. Looks(f)'
      <4>1. CASE p = Disposal(f)
        BY <3>2, <4>1 DEF Looks, Alert
      <4>2. CASE p # Disposal(f)
        BY <1>2, <2>3, <3>1, <3>3, <3>4, <4>2 DEF Minds, Looks
      <4> QED
        BY <4>1, <4>2
    <3>7. Worked(f)'
      <4>1. Torn(f) => Torn(f)'
        BY <1>3, <2>1, <2>3 DEF Torn
      <4>2. InBody(f) => InBody(f)'
        BY <1>2 DEF InBody
      <4> QED
        BY <1>2, <2>3, <3>1, <4>1, <4>2 DEF Minds, Worked
    <3>8. InOrder(f)'
      BY <1>2, <2>1, <2>2, <2>3, <3>1 DEF Minds, InOrder
    <3> QED
      BY <3>5, <3>6, <3>7, <3>8 DEF Minds
  <2> QED
    BY <1>2, <2>3, <2>4, MindedAt
<1> QED
  BY <1>1, <1>5, <1>6 DEF Enter

\* The unload begins, with nothing left to look at: or it is too late for one.
LEMMA ProceedMinds ==
  ASSUME IInv, Minded, NEW p \in Procs, Sole(p), Proceed(p) PROVE Minded'
<1>1. PICK f \in FiberIds : f = Of(p)
  BY Sorts
<1>2. /\ stack = <<>> /\ pc[p] \in {"through", "quiet"}
      /\ UNCHANGED <<stack, plugin, work, watch, evaluation, evals, dirty, op, bound>>
  BY DEF Proceed, Sole, treeVars, waitVars
<1>3. pc[p] \notin Teardown /\ p # Task(f)
  BY <1>1, <1>2, NotTask DEF Teardown
<1>4. Rests(f)
  <2>1. pc[p] = "through" => Rests(f)
    BY <1>1, <1>3, Facts DEF Gated, PastGate
  <2> QED
    BY <1>1, <1>2, <2>1 DEF Proceed, Quiet
<1>5. Still(f) /\ state[f] \in Settled
  BY <1>4 DEF Rests, Still
<1>6. ASSUME f # Root, Mounted(f) PROVE ~dirty[f]
  BY <1>1, <1>2, <1>6 DEF Proceed, Quiet, Minded, Minds, InOrder
<1>7. CASE /\ state[f] = "DISPOSED"
           /\ pc' = [pc EXCEPT ![p] = "done"] /\ gate' = [gate EXCEPT ![f] = None]
           /\ UNCHANGED <<state, epoch>>
  <2>1. /\ \A q \in Procs \ {p} : pc'[q] = pc[q]
        /\ \A g \in FiberIds \ {f} : gate'[g] = gate[g]
    BY <1>7
  <2>2. At({f}) /\ (Still(f)' <=> Still(f)) /\ ~Evaluated(f)'
    BY <1>1, <1>2, <1>3, <1>7, <2>1, AtTurn
  <2>3. ASSUME f # Root, Mounted(f) PROVE Minds(f)'
    <3>1. Listens(f)' /\ Looks(f)' /\ Worked(f)'
      BY <1>5, <1>7, <2>2 DEF Listens, Looks, Worked
    <3>2. InOrder(f)'
      BY <1>2, <1>6, <2>2, <2>3 DEF InOrder
    <3> QED
      BY <3>1, <3>2 DEF Minds
  <2> QED
    BY <1>2, <2>2, <2>3, MindedAt
<1>8. CASE state[f] # "DISPOSED" /\ BeginUnload(p) /\ UNCHANGED gate
  <2>1. /\ state' = [state EXCEPT ![f] = "UNLOADING"] /\ epoch' = [epoch EXCEPT ![f] = <<>>]
        /\ pc' = [pc EXCEPT ![p] = "unwind"]
    BY <1>1, <1>8 DEF BeginUnload
  <2>2. /\ state'[f] = "UNLOADING" /\ pc'[p] = "unwind"
        /\ \A g \in FiberIds \ {f} : state'[g] = state[g] /\ epoch'[g] = epoch[g]
        /\ \A q \in Procs \ {p} : pc'[q] = pc[q]
    BY <2>1, Sorts, Facts DEF EpochTypes
  <2>3. At({f}) /\ (Still(f)' <=> Still(f)) /\ ~Evaluated(f)' /\ Of(p)' = f
    BY <1>1, <1>2, <1>3, <1>8, <2>2, AtTurn
  <2>4. ASSUME f # Root, Mounted(f) PROVE Minds(f)'
    <3>1. Minds(f) /\ Needs(f)' = Needs(f)
      BY <1>2, <2>4, StaleKept DEF Minded
    <3>2. Listens(f)'
      BY <1>2, <1>8, <3>1 DEF Minds, Listens, Leaving, Disposal
    <3>3. Looks(f)' /\ Worked(f)'
      BY <1>5, <2>2, <2>3 DEF Looks, Worked, Torn, Teardown
    <3>4. InOrder(f)'
      BY <1>2, <1>6, <2>3, <2>4 DEF InOrder
    <3> QED
      BY <3>2, <3>3, <3>4 DEF Minds
  <2> QED
    BY <1>2, <2>3, <2>4, MindedAt
<1> QED
  BY <1>1, <1>7, <1>8 DEF Proceed
\* The end of a teardown: an instance that waits again is evaluated at once, or was
\* to be looked at already.
LEMMA LandedMinds ==
  ASSUME IInv, Minded, NEW p \in Procs, NEW f \in FiberIds, Of(p) = f, stack = <<>>,
         pc[p] \in {"released", "emptied"}, NEW at, pc' = [pc EXCEPT ![p] = at],
         at \in {"idle", "settle", "done"}, p = Task(f) => at = "idle",
         \/ stack' = stack
         \/ stack' = <<[do |-> "evaluate", fiber |-> f]>> \o stack /\ state[f] = "UNLOADING",
         state'[f] \in {"PENDING", "FAILED", "DISPOSED"},
         state[f] = "FAILED" => state'[f] = "FAILED",
         \A g \in FiberIds \ {f} : state'[g] = state[g] /\ gate'[g] = gate[g],
         \/ gate'[f] = gate[f]
         \/ gate[f] = p /\ (p = Disposal(f) => state'[f] = "DISPOSED"),
         state'[f] = "PENDING" =>
           stack' # stack \/ (p = Task(f) /\ work[f] = "unload" /\ gate'[f] = gate[f]),
         UNCHANGED <<plugin, epoch, work, watch, evaluation, evals, dirty, op, bound>>
  PROVE  Minded'
<1>1. pc'[p] = at /\ \A q \in Procs \ {p} : pc'[q] = pc[q]
  BY Sorts
<1>2. /\ At({f}) /\ (Evaluated(f)' <=> stack' # stack)
      /\ p # Task(f) => (Still(f)' <=> Still(f))
      /\ \A q \in Procs : Of(q)' = Of(q)
  BY <1>1, AtTurn
<1>3. /\ state[f] \in {"UNLOADING", "FAILED", "LOADING"}
      /\ p = Task(f) \/ Still(f)
  BY TornDown DEF Teardown
<1>4. Still(f)'
  <2>1. CASE p = Task(f)
    BY <1>1, <2>1 DEF Still, Task
  <2> QED
    BY <1>2, <1>3, <2>1
<1>5. ASSUME f # Root, Mounted(f) PROVE Minds(f)'
  <2>1. Minds(f)
    BY <1>5 DEF Minded
  <2>2. Needs(f)' = Needs(f) /\ Missing(f)' = Missing(f)
    BY StaleKept
  <2>3. Listens(f)'
    <3>1. SUFFICES ASSUME Needs(f) # {}, state'[f] # "DISPOSED" PROVE watch'[f] \/ Leaving(f)'
      BY <2>2 DEF Listens
    <3>2. watch[f] \/ gate[f] = Disposal(f)
      BY <1>3, <2>1, <3>1 DEF Minds, Listens, Leaving
    <3> QED
      BY <3>1, <3>2 DEF Leaving, Disposal
  <2>4. Looks(f)'
    <3>1. SUFFICES ASSUME state'[f] = "PENDING", Missing(f) = {} PROVE Alert(f)'
      BY <1>4, <2>2 DEF Looks
    <3>2. CASE stack' # stack
      BY <1>2, <3>2 DEF Alert, Due
    <3>3. CASE stack' = stack
      <4>1. ~Still(f) /\ work[f] = "unload" /\ gate'[f] = gate[f]
        BY <3>1, <3>3 DEF Still
      <4>2. Alert(f)
        BY <2>1, <3>1, <4>1 DEF Minds, Looks
      <4> QED
        BY <3>3, <4>1, <4>2 DEF Alert, Due, Leaving, Disposal, Evaluated
    <3> QED
      BY <3>2, <3>3
  <2>5. Worked(f)'
    BY DEF Worked
  <2>6. InOrder(f)'
    <3>1. dirty[f] => state[f] = "FAILED"
      BY <1>3, <2>1 DEF Minds, InOrder
    <3>2. stack' # stack => state[f] = "UNLOADING"
      OBVIOUS
    <3>3. \A q \in Procs : Of(q)' = f /\ pc'[q] = "through" => Of(q) = f /\ pc[q] = "through"
      BY <1>1, <1>2
    <3> QED
      BY <1>2, <2>1, <3>1, <3>2, <3>3 DEF Minds, InOrder, Settled
  <2> QED
    BY <2>3, <2>4, <2>5, <2>6 DEF Minds
<1> QED
  BY <1>2, <1>5, MindedAt

LEMMA LandsMinds ==
  ASSUME IInv, Nursed, Minded, NEW p \in Procs, Sole(p), Lands(p) PROVE Minded'
<1>1. PICK f \in FiberIds : f = Of(p)
  BY Sorts
<1>2. stack = <<>>
  BY DEF Sole
<1>3. CASE p = Task(f) /\ TaskLands(f)
  <2>1. /\ pc[p] \in {"released", "emptied"} /\ Row(f) /\ Mounted(f)
        /\ UNCHANGED <<plugin, epoch, work, watch, evaluation, dirty, op, bound>>
    BY <1>1, <1>3, WorksOnMounted, Facts DEF TaskLands, TaskTable, treeVars
  <2>2. \/ work[f] \in {"unload", "reload"} /\ state[f] = "UNLOADING"
        \/ work[f] = "release" /\ state[f] = "FAILED"
        \/ work[f] = "finish" /\ state[f] = "LOADING"
    BY <1>3, <2>1 DEF Row, Still, Teardown
  <2>3. work[f] \in {"unload", "reload"} => CanOpen(f)
    BY <2>1, <2>2, Openable
  <2>4. /\ pc' = [pc EXCEPT ![p] = "idle"] /\ UNCHANGED <<gate, evals>>
        /\ IF work[f] = "reload"
           THEN stack' = <<[do |-> "evaluate", fiber |-> f]>> \o stack
           ELSE stack' = stack
    BY <1>3, <2>3 DEF TaskLands, Call
  <2>5. /\ work[f] \in {"unload", "reload"} => state' = [state EXCEPT ![f] = "PENDING"]
        /\ work[f] = "finish" => state' = [state EXCEPT ![f] = "FAILED"]
        /\ work[f] = "release" => state' = state
    BY <1>3 DEF TaskLands, LandPending
  <2>6. /\ state'[f] \in {"PENDING", "FAILED", "DISPOSED"}
        /\ state[f] = "FAILED" => state'[f] = "FAILED"
        /\ \A g \in FiberIds \ {f} : state'[g] = state[g]
        /\ state'[f] = "PENDING" => work[f] \in {"unload", "reload"}
    BY <2>2, <2>5, Sorts
  <2>7. work[f] = "reload" => stack' # stack
    BY <1>2, <2>4, Calling DEF Evaluated
  <2> QED
    BY <1>1, <1>2, <1>3, <2>1, <2>2, <2>4, <2>6, <2>7, LandedMinds
<1>4. CASE p = Disposal(f) /\ DisposalLands(f)
  <2>1. /\ pc[p] \in {"released", "emptied"} /\ pc' = [pc EXCEPT ![p] = "done"]
        /\ state' = [state EXCEPT ![f] = "DISPOSED"] /\ gate' = [gate EXCEPT ![f] = None]
        /\ UNCHANGED <<stack, plugin, epoch, work, watch, evaluation, evals, dirty, op, bound>>
    BY <1>4 DEF DisposalLands, waitVars
  <2>2. p # Task(f)
    BY <1>4, Processes
  <2>3. state[f] = "UNLOADING" /\ gate[f] = p
    BY <1>1, <2>1, <2>2, TornDown DEF Teardown
  <2>4. state'[f] = "DISPOSED" /\ \A g \in FiberIds \ {f} : state'[g] = state[g] /\ gate'[g] = gate[g]
    BY <2>1, Sorts
  <2> QED
    BY <1>1, <1>2, <2>1, <2>2, <2>3, <2>4, LandedMinds
<1>5. CASE \E o \in Ops : p = Caller(o) /\ CallerLands(o)
  <2>1. PICK o \in Ops : p = Caller(o) /\ CallerLands(o)
    BY <1>5
  <2>2. p # Task(f) /\ p # Disposal(f) /\ pc[p] \in {"released", "emptied"}
    BY <2>1, Processes DEF CallerLands
  <2>3. state[f] = "UNLOADING" /\ gate[f] = p /\ Mounted(f)
    BY <1>1, <2>2, TornDown DEF Teardown
  <2>4. CanOpen(f)
    BY <2>3, Openable
  <2>5. /\ pc' = [pc EXCEPT ![p] = "settle"] /\ gate' = [gate EXCEPT ![f] = None]
        /\ state' = [state EXCEPT ![f] = "PENDING"]
        /\ stack' = <<[do |-> "evaluate", fiber |-> f]>> \o stack
        /\ UNCHANGED <<plugin, epoch, work, watch, evaluation, evals, dirty, op, bound>>
    BY <1>1, <2>1, <2>4 DEF CallerLands, LandPending, Call, treeVars
  <2>6. state'[f] = "PENDING" /\ \A g \in FiberIds \ {f} : state'[g] = state[g] /\ gate'[g] = gate[g]
    BY <2>5, Sorts
  <2>7. stack' # stack
    BY <1>2, <2>5, Calling DEF Evaluated
  <2> QED
    BY <1>1, <1>2, <2>2, <2>3, <2>5, <2>6, <2>7, LandedMinds
<1>6. \/ p = Task(f) /\ TaskLands(f)
      \/ p = Disposal(f) /\ DisposalLands(f)
      \/ \E o \in Ops : p = Caller(o) /\ CallerLands(o)
  <2>1. ASSUME NEW g \in FiberIds, (p = Task(g) /\ TaskLands(g)) \/ (p = Disposal(g) /\ DisposalLands(g))
        PROVE  g = f
    BY <1>1, <2>1, Processes
  <2> QED
    BY <2>1 DEF Lands
<1> QED
  BY <1>3, <1>4, <1>5, <1>6
----------------------------------------------------------------------------
(* The specification *)

\* Every step that breaks no scope and cancels nobody keeps it.
LEMMA MindedStep ==
  ASSUME IInv, Before, Nursed, Minded, Unraised, Undisturbed, Undisturbed', [Next]_vars
  PROVE  Minded'
<1>1. Unbroken /\ Unbroken'
  BY DEF Undisturbed, Unbroken
<1>2. CASE Synchronous
  BY <1>2, EvaluateLoadsMinds, EvaluateUnloadsMinds, EvaluateNothingMinds, BodyProvidesMinds,
     BodyMountsMinds, BodyAwaitsMinds, BodyReturnsMinds, BodyRaisesMinds DEF Synchronous
<1>3. ASSUME stack = <<>>, NEW p \in Procs,
             \/ CloseScope(p)
             \/ pc[p] = "enter" /\ Enter(p)
             \/ pc[p] = "through" /\ Proceed(p)
             \/ pc[p] = "emptied" /\ Lands(p)
      PROVE  Minded'
  <2>1. Hot(p)
    BY <1>3 DEF Hot, CloseScope
  <2>2. Sole(p)
    BY <1>3, <2>1, Facts DEF Sole, Alone
  <2> QED
    BY <1>1, <1>3, <2>2, CloseScopeMinds, EnterMinds, ProceedMinds, LandsMinds
<1>4. CASE StartLoop \/ UNCHANGED vars
  BY <1>4, MindedRest DEF StartLoop, vars, treeVars, lifeVars, waitVars, procVars
<1>5. ASSUME AtAwait, looping, NEW p \in Procs, Unwinding(p) \/ Enter(p) \/ Proceed(p) \/ Lands(p)
      PROVE  Minded'
  <2>1. Sole(p)
    BY <1>5, Awaiting DEF Sole
  <2> QED
    BY <1>1, <1>5, <2>1, UnwindingMinds, EnterMinds, ProceedMinds, LandsMinds
<1>6. CASE AtAwait /\ looping /\ Ready
  BY <1>5, <1>6, TasksMinds, CallsMinds DEF Ready
<1>7. ASSUME NEW o \in Ops, Cancel(o) PROVE FALSE
  <2>1. Caller(o) \in Procs
    BY Processes
  <2>2. pc'[Caller(o)] = "cancelled"
    BY <1>7, <2>1, Sorts DEF Cancel
  <2> QED
    BY <2>2 DEF Undisturbed, Caller
<1>8. CASE Environment
  <2>1. AtAwait
    BY <1>8 DEF Environment
  <2>2. ASSUME NEW q \in TopLevel, HostMount(q) PROVE Minded'
    <3>1. q \in Plugins /\ Root \in FiberIds
      BY FiberAssumption DEF Root, FiberIds
    <3> QED
      BY <2>1, <2>2, <3>1, OutsideMountMinds
  <2>3. CASE Outside
    BY <1>7, <2>1, <2>3, OutsideMountMinds, IssueMinds DEF Outside
  <2> QED
    BY <1>8, <2>2, <2>3 DEF Environment
<1>9. CASE Running
  BY <1>2, <1>3, <1>9 DEF Running
<1> QED
  BY <1>4, <1>6, <1>8, <1>9 DEF Next, Loop

LEMMA AwakeStep == Sound /\ Together /\ Awake /\ [Next]_vars => Awake'
<1> SUFFICES ASSUME Sound, Together, Awake, [Next]_vars PROVE Awake'
  OBVIOUS
<1>1. IInv /\ Shape /\ Before /\ Nursed
  BY SoundStep DEF Sound, Awake
<1>2. Before' /\ Nursed'
  BY <1>1, BeforeStep, NursedStep
<1>3. ASSUME Undisturbed' PROVE Unraised' /\ Minded'
  <2>1. Patient /\ ScopesMove
    BY <1>1, PatientStep, ScopesStep
  <2>2. \A f \in FiberIds : scope[f] # "broken"
    BY <1>3, <2>1 DEF Undisturbed, ScopesMove
  <2>3. ASSUME NEW o \in Ops, pc[Caller(o)] = "cancelled" PROVE FALSE
    <3>1. PICK p \in Procs : p = Caller(o) /\ Caller(o)' = p
      BY Processes DEF Caller
    <3>2. pc'[p] = "cancelled"
      BY <2>1, <2>3, <3>1 DEF Patient
    <3> QED
      BY <1>3, <3>1, <3>2 DEF Undisturbed
  <2>4. Undisturbed
    BY <2>2, <2>3 DEF Undisturbed
  <2>5. Unraised /\ Minded
    BY <2>4 DEF Awake
  <2>6. Unraised'
    BY <1>3, <2>1, <2>2, <2>5 DEF Patient, Undisturbed, Unbroken
  <2>7. Minded'
    BY <1>1, <1>3, <2>4, <2>5, MindedStep
  <2> QED
    BY <2>6, <2>7
<1> QED
  BY <1>2, <1>3 DEF Awake

LEMMA InitAwake == Init => Awake
<1> SUFFICES ASSUME Init PROVE Awake
  OBVIOUS
<1>1. \A f \in FiberIds \ {Root} : ~Mounted(f) /\ state[f] = "PENDING"
  BY DEF Init, Mounted
<1>2. \A p \in Procs : pc[p] = "idle"
  BY DEF Init
<1>3. \A f \in FiberIds : scope[f] \in {"open", "none"}
  BY DEF Init
<1>4. Before
  BY <1>1, <1>2 DEF Before
<1>5. Nursed
  BY <1>1, <1>2, <1>3 DEF Nursed
<1>6. Unraised /\ Minded
  BY <1>1, <1>2 DEF Unraised, Minded
<1> QED
  BY <1>4, <1>5, <1>6 DEF Awake

LEMMA AlwaysAwake == Spec /\ [][Punctual]_vars => []Awake
  BY AlwaysSound, AlwaysTogether, InitAwake, AwakeStep, PTL DEF Spec

\* When nothing is left to run, nobody is left to look at an instance again.
LEMMA AwakeSuffices == Sound /\ Awake => ActiveIffBound
<1> SUFFICES ASSUME Sound, Awake, Quiescent, Undisturbed, NEW f \in FiberIds \ {Root},
                    Mounted(f), gate[f] = None, ~dirty[f], pc[Task(f)] # "held"
             PROVE  /\ state[f] = "PENDING" => Missing(f) # {} \/ ~CanOpen(f)
                    /\ state[f] = "ACTIVE" => Missing(f) = {} /\ epoch[f] = Sample(f)
                    /\ state[f] \in Settled
  BY DEF ActiveIffBound
<1>1. IInv /\ Minds(f)
  BY DEF Sound, Awake, Minded
<1>2. stack = <<>> /\ ~evaluation[f] /\ ~(evals[f] > 0) /\ Still(f)
  BY DEF Quiescent, Busy, Still
<1>3. ~Alert(f)
  <2>1. Disposal(f) # None
    BY Processes, ProcessAssumption
  <2> QED
    BY <1>2, <2>1 DEF Alert, Due, Leaving, Evaluated
<1>4. state[f] = "PENDING" => Missing(f) # {}
  BY <1>1, <1>3 DEF Minds, Looks
<1>5. state[f] = "ACTIVE" => Missing(f) = {} /\ epoch[f] = Sample(f)
  BY <1>1, <1>2, <1>3 DEF Minds, Looks, Stale
<1>6. state[f] # "LOADING"
  BY <1>1, <1>2 DEF Minds, Worked, InBody
<1>7. state[f] # "UNLOADING"
  <2>1. SUFFICES ASSUME state[f] = "UNLOADING" PROVE FALSE
    OBVIOUS
  <2>2. PICK p \in Procs : Of(p) = f /\ pc[p] \in Teardown
    BY <1>1, <2>1 DEF Minds, Worked, Torn
  <2>3. p # Task(f)
    BY <1>2, <2>2 DEF Still, Teardown
  <2> QED
    BY <1>1, <2>2, <2>3, TornDown, ProcessAssumption
<1>8. state[f] \in States
  BY <1>1, Sorts
<1> QED
  BY <1>4, <1>5, <1>6, <1>7, <1>8 DEF States, Settled

\* PROP-FIBER-002 and 04 SEM-004: once nothing is left to run, an instance waits
\* only for a name that is not bound, and runs only on the implementations its names
\* have now: no change of a binding is lost to a load, an unload, a restart or the
\* start of the loop that it met, as long as nobody mounts from outside under an
\* instance whose failed body _finish is unwinding.
THEOREM ActiveIffBoundHolds == Spec /\ [][Punctual]_vars => []ActiveIffBound
  BY AlwaysSound, AlwaysAwake, AwakeSuffices, PTL

\* Where nobody mounts from outside into an instance at all, it holds as it stands.
COROLLARY ActiveIffBoundAlone ==
  ASSUME LateMounts = {} PROVE Spec => []ActiveIffBound
<1>1. [Next]_vars => [Punctual]_vars
  BY DEF Punctual, LateInUnwind, LateMount
<1> QED
  BY <1>1, ActiveIffBoundHolds, PTL DEF Spec
=============================================================================
