---------------------------- MODULE Fiber_proofs ----------------------------
(***************************************************************************)
(* OneAtATime for every tree of instances, every set of plugins and any    *)
(* number of callers.                                                      *)
(***************************************************************************)
EXTENDS Fiber, SequenceTheorems, FiniteSetTheorems, TLAPS

Teardown == {"unwind", "scope", "released", "emptied"}

\* No task of the instance is in flight.
Still(f) == pc[Task(f)] \in {"idle", "raised"}

Hot(p) == Closes(p) \/ pc[p] \in {"enter", "through", "emptied"}

\* What has not been mounted has not begun, and only what has been mounted is
\* worked on.
Enrolled ==
  /\ \A f \in FiberIds : ~Mounted(f) =>
       /\ state[f] = "PENDING" /\ epoch[f] = <<>> /\ pc[Task(f)] = "idle"
       /\ ~watch[f] /\ ~evaluation[f] /\ evals[f] = 0 /\ ~dirty[f]
  /\ \A i \in DOMAIN stack : Mounted(stack[i].fiber)
  /\ \A o \in Ops : Mounted(op[o].fiber)

\* An unwind, and the parent it takes its children from, know mounted instances
\* only, and nobody disposes of another.
Lineage ==
  /\ \A f \in FiberIds : \A i \in DOMAIN children[f] : Mounted(children[f][i])
  /\ \A p \in Procs : \A i \in DOMAIN kids[p] : Mounted(kids[p][i])
  /\ \A f \in FiberIds : ~Mounted(f) => pc[Disposal(f)] = "idle"

\* A scope is being closed by somebody.
Scoped ==
  \A f \in FiberIds :
    /\ Mounted(f) => scope[f] # "none"
    /\ scope[f] = "closing" => \E p \in Procs : Of(p) = f /\ pc[p] = "scope"

\* Each frame of the stack is of an instance of its own.
Distinct == \A i, j \in DOMAIN stack : stack[i].fiber = stack[j].fiber => i = j

\* Only the top evaluates; an instance that runs is evaluated when no task of it
\* is in flight.
Evaluating ==
  \A i \in DOMAIN stack : stack[i].do = "evaluate" =>
    /\ i = 1
    /\ LET f == stack[i].fiber IN
       state[f] = "PENDING" \/ (looping /\ ~dirty[f] /\ (state[f] = "ACTIVE" => Still(f)))

\* The bodies below wait for the mounts they made; the lowest may be in _finish.
BodyOf(f, i) ==
  state[f] = "LOADING" /\ (Still(f) \/ (pc[Task(f)] = "running" /\ i = Len(stack)))

Bodies ==
  \A i \in DOMAIN stack : stack[i].do = "body" => BodyOf(stack[i].fiber, i)

Finishing ==
  \A f \in FiberIds : pc[Task(f)] = "running" =>
    \E i \in DOMAIN stack : stack[i] = [do |-> "body", fiber |-> f]

Stacked == Distinct /\ Evaluating /\ Bodies /\ Finishing

\* What _task is for fixes the state its instance is in meanwhile.
Row(f) ==
  \/ Still(f)
  \/ /\ pc[Task(f)] \in {"spawned", "held"}
     /\ \/ work[f] \in {"unload", "reload"} /\ state[f] = "ACTIVE"
        \/ work[f] = "release" /\ state[f] = "FAILED"
        \/ work[f] = "finish" /\ state[f] = "LOADING"
  \/ pc[Task(f)] \in {"body", "running"} /\ work[f] = "finish" /\ state[f] = "LOADING"
  \/ /\ pc[Task(f)] \in Teardown
     /\ \/ work[f] \in {"unload", "reload"} /\ state[f] = "UNLOADING"
        \/ work[f] = "release" /\ state[f] = "FAILED"
        \/ work[f] = "finish" /\ state[f] = "LOADING"

TaskTable == \A f \in FiberIds : Row(f)

\* Whoever is past the gate and is not _task holds it, and has waited for _task.
PastGate(p) ==
  /\ pc[p] \in {"quiet", "through"} \cup Teardown => gate[Of(p)] = p
  /\ pc[p] = "through" => Rests(Of(p))
  /\ pc[p] \in Teardown => state[Of(p)] = "UNLOADING" /\ Still(Of(p))

Gated == \A p \in Procs : p # Task(Of(p)) => PastGate(p)

\* The task that runs up to its next await is alone.
Alone ==
  /\ \A p \in Procs : Hot(p) => stack = <<>>
  /\ \A p, q \in Procs : Hot(p) /\ Hot(q) => p = q

\* Before the loop nothing but the body of a load is in flight, and what that
\* missed is looked at before anything else is done to the instance.
Unstarted ==
  \A f \in FiberIds :
    (~looping \/ dirty[f]) /\ state[f] \in {"PENDING", "ACTIVE"} => Still(f)

Steps ==
  {Step("provide", n) : n \in Names} \cup {Step("mount", p) : p \in Plugins}
    \cup {Step("await", None), Step("raise", None)}

Frames == [do : {"evaluate", "body"}, fiber : FiberIds]

Places == {"idle", "held", "spawned", "running", "body", "enter", "gate", "quiet",
           "through", "unwind", "scope", "released", "emptied", "settle", "disposal",
           "done", "raised", "cancelled"}

\* TypeOK by groups of variables, and the scripts.
TreeTypes ==
  /\ plugin \in [FiberIds -> Plugins \cup {None}]
  /\ parent \in [FiberIds -> FiberIds]
  /\ children \in [FiberIds -> Seq(FiberIds)]

LifeTypes ==
  /\ state \in [FiberIds -> States]
  /\ error \in [FiberIds -> BOOLEAN]
  /\ config \in [FiberIds -> Configs]
  /\ held \in [FiberIds -> BOOLEAN]
  /\ loads \in [FiberIds -> Nat]
  /\ scope \in [FiberIds -> {"none", "open", "closing", "closed", "broken"}]

EpochTypes ==
  /\ DOMAIN epoch = FiberIds
  /\ \A f \in FiberIds : epoch[f] = <<>> \/ epoch[f] \in [Needs(f) -> FiberIds \X Nat]

WaitTypes ==
  /\ evaluation \in [FiberIds -> BOOLEAN]
  /\ evals \in [FiberIds -> Nat]
  /\ watch \in [FiberIds -> BOOLEAN]
  /\ dirty \in [FiberIds -> BOOLEAN]

ProcTypes ==
  /\ work \in [FiberIds -> {"none", "unload", "reload", "release", "finish"}]
  /\ gate \in [FiberIds -> Procs \cup {None}]
  /\ pc \in [Procs -> Places]
  /\ kids \in [Procs -> Seq(FiberIds)]
  /\ op \in [Ops -> [kind : Kinds \cup {"none"}, fiber : FiberIds, config : Configs]]

BoundTypes ==
  /\ DOMAIN bound = Names
  /\ \A n \in Names : bound[n] = None \/ bound[n] \in FiberIds \X Nat

Types ==
  /\ looping \in BOOLEAN
  /\ stack \in Seq(Frames)
  /\ script \in [FiberIds -> Seq(Steps)]
  /\ EpochTypes /\ TreeTypes /\ LifeTypes /\ WaitTypes /\ ProcTypes /\ BoundTypes

IInv ==
  /\ Types /\ Enrolled /\ Lineage /\ Scoped /\ Stacked /\ TaskTable /\ Gated /\ Alone /\ Unstarted

----------------------------------------------------------------------------

\* A process is a task of one instance, a disposal of one or a caller, and these differ.
LEMMA Processes ==
  /\ \A f \in FiberIds : Task(f) \in Procs /\ Disposal(f) \in Procs
  /\ \A o \in Ops : Caller(o) \in Procs
  /\ \A f \in FiberIds : Of(Task(f)) = f /\ Of(Disposal(f)) = f
  /\ \A o \in Ops : Of(Caller(o)) = op[o].fiber
  /\ \A f, g \in FiberIds :
       /\ Task(f) # Disposal(g)
       /\ Task(f) = Task(g) => f = g
       /\ Disposal(f) = Disposal(g) => f = g
  /\ \A f \in FiberIds, o \in Ops : Task(f) # Caller(o) /\ Disposal(f) # Caller(o)
  /\ \A o, r \in Ops : Caller(o) = Caller(r) => o = r
  /\ \A p \in Procs :
       \/ \E f \in FiberIds : p = Task(f)
       \/ \E f \in FiberIds : p = Disposal(f)
       \/ \E o \in Ops : p = Caller(o)
<1>1. \A f \in FiberIds : Task(f) \in Procs /\ Disposal(f) \in Procs
  BY DEF Procs
<1>2. \A o \in Ops : Caller(o) \in Procs
  BY DEF Procs
<1>3. \A f \in FiberIds : Of(Task(f)) = f /\ Of(Disposal(f)) = f
  BY DEF Of, Task, Disposal
<1>4. \A o \in Ops : Of(Caller(o)) = op[o].fiber
  BY DEF Of, Caller
<1>5. /\ \A f, g \in FiberIds :
           /\ Task(f) # Disposal(g)
           /\ Task(f) = Task(g) => f = g
           /\ Disposal(f) = Disposal(g) => f = g
      /\ \A f \in FiberIds, o \in Ops : Task(f) # Caller(o) /\ Disposal(f) # Caller(o)
      /\ \A o, r \in Ops : Caller(o) = Caller(r) => o = r
  BY DEF Task, Disposal, Caller
<1>6. \A p \in Procs :
       \/ \E f \in FiberIds : p = Task(f)
       \/ \E f \in FiberIds : p = Disposal(f)
       \/ \E o \in Ops : p = Caller(o)
  BY DEF Procs
<1> QED
  BY <1>1, <1>2, <1>3, <1>4, <1>5, <1>6

\* The instance a process works on is one of the tree.
LEMMA OfTyped == ProcTypes => \A p \in Procs : Of(p) \in FiberIds
<1> SUFFICES ASSUME ProcTypes, NEW p \in Procs PROVE Of(p) \in FiberIds
  OBVIOUS
<1>1. \A o \in Ops : op[o].fiber \in FiberIds
  BY DEF ProcTypes
<1> QED
  BY <1>1, Processes

\* The parts the proofs cite, and the type invariant they add up to.
LEMMA Typed == Types => TypeOK
  BY DEF Types, TypeOK, TreeTypes, LifeTypes, EpochTypes, WaitTypes, ProcTypes, BoundTypes,
         Frames, Places

\* Frames in sequences.
LEMMA Stacks ==
  ASSUME NEW s \in Seq(Frames)
  PROVE  /\ DOMAIN s = 1..Len(s)
         /\ s # <<>> =>
              /\ 1 \in 1..Len(s) /\ Head(s) = s[1] /\ s[1] \in Frames
              /\ Tail(s) \in Seq(Frames) /\ Len(Tail(s)) = Len(s) - 1
              /\ \A i \in 1..(Len(s) - 1) : Tail(s)[i] = s[i + 1]
         /\ \A x \in Frames :
              /\ <<x>> \o s \in Seq(Frames) /\ Len(<<x>> \o s) = Len(s) + 1
              /\ (<<x>> \o s)[1] = x
              /\ \A i \in 1..Len(s) : (<<x>> \o s)[i + 1] = s[i]
  OBVIOUS

\* One entry of a function is replaced, or none is.
LEMMA Updated ==
  ASSUME NEW D, NEW R, NEW g \in [D -> R], NEW d \in D, NEW r \in R, NEW h,
         h = g \/ h = [g EXCEPT ![d] = r]
  PROVE  /\ h \in [D -> R] /\ h[d] \in {g[d], r}
         /\ \A x \in D \ {d} : h[x] = g[x]
<1>1. CASE h = g
  BY <1>1
<1>2. CASE h = [g EXCEPT ![d] = r]
  BY <1>2
<1> QED
  BY <1>1, <1>2

\* What is on the stack are frames.
LEMMA FrameTyped ==
  ASSUME stack \in Seq(Frames), NEW i \in DOMAIN stack
  PROVE  stack[i].do \in {"evaluate", "body"} /\ stack[i].fiber \in FiberIds
<1>1. stack[i] \in Frames
  OBVIOUS
<1> QED
  BY <1>1 DEF Frames

\* Push.
LEMMA Replaced ==
  ASSUME NEW s \in Seq(Frames), s # <<>>, NEW x \in Frames
  PROVE  LET t == <<x>> \o Tail(s) IN
         /\ t \in Seq(Frames) /\ t # <<>> /\ DOMAIN t = 1..Len(t) /\ Len(t) = Len(s) /\ t[1] = x
         /\ \A i \in 2..Len(s) : t[i] = s[i]
<1>1. Tail(s) \in Seq(Frames) /\ Len(Tail(s)) = Len(s) - 1 /\ Len(s) \in Nat \ {0}
      /\ \A i \in 1..(Len(s) - 1) : Tail(s)[i] = s[i + 1]
  BY Stacks
<1> DEFINE r == Tail(s)
           t == <<x>> \o r
<1>2. t \in Seq(Frames) /\ Len(t) = Len(r) + 1 /\ t[1] = x /\ DOMAIN t = 1..Len(t)
      /\ \A i \in 1..Len(r) : t[i + 1] = r[i]
  BY <1>1, Stacks
<1> HIDE DEF r, t
<1>3. ASSUME NEW i \in 2..Len(s) PROVE t[i] = s[i]
  <2>1. i - 1 \in 1..(Len(s) - 1) /\ (i - 1) + 1 = i
    BY <1>1
  <2>2. t[(i - 1) + 1] = r[i - 1] /\ r[i - 1] = s[(i - 1) + 1]
    BY <1>1, <1>2, <2>1 DEF r
  <2> QED
    BY <2>1, <2>2
<1>4. Len(t) = Len(s) /\ t # <<>>
  BY <1>1, <1>2 DEF r
<1> QED
  BY <1>2, <1>3, <1>4 DEF r, t

\* children, latest first.
LEMMA ReversedTyped ==
  ASSUME NEW S, NEW s \in Seq(S) PROVE Reverse(s) \in Seq(S)
  BY DEF Reverse

\* A body is a sequence of steps.
LEMMA BodiesTyped ==
  <<>> \in Seq(Steps) /\ <<Step("raise", None)>> \in Seq(Steps)
    /\ \A q \in Plugins : Body[q] \in Seq(Steps)
  BY FiberAssumption DEF Steps

\* Root alone is mounted, and nothing runs.
LEMMA InitIInv == Init => IInv
<1> SUFFICES ASSUME Init PROVE IInv
  OBVIOUS
<1>1. Types
  BY FiberAssumption
     DEF Init, Types, TreeTypes, LifeTypes, EpochTypes, WaitTypes, ProcTypes, BoundTypes,
         FiberIds, Root, States, Places
<1>2. Enrolled
  BY DEF Init, Enrolled, Mounted, Task, Procs
<1>3. Stacked /\ TaskTable /\ Gated /\ Alone /\ Unstarted
  BY Processes DEF Init, Stacked, Distinct, Evaluating, Bodies, BodyOf, Finishing, TaskTable, Row, PastGate, Gated, Alone, Unstarted, Still, Hot, Closes, Teardown
<1>4. Lineage /\ Scoped
  <2>1. \A f \in FiberIds : f = Root \/ ~Mounted(f)
    BY DEF Init, Mounted
  <2>2. \A f \in FiberIds : scope[f] # "closing" /\ (f = Root => scope[f] # "none")
    BY DEF Init
  <2>3. Scoped
    BY <2>1, <2>2 DEF Scoped
  <2>4. Lineage
    BY Processes DEF Init, Lineage
  <2> QED
    BY <2>3, <2>4
<1> QED
  BY <1>1, <1>2, <1>3, <1>4 DEF IInv

----------------------------------------------------------------------------
(* What a step leaves alone *)

\* The parts of the state a step leaves alone keep their types.
LEMMA Kept ==
  /\ TreeTypes /\ UNCHANGED treeVars => TreeTypes'
  /\ LifeTypes /\ UNCHANGED <<state, error, config, held, loads, scope>> => LifeTypes'
  /\ EpochTypes /\ UNCHANGED <<epoch, plugin>> => EpochTypes'
  /\ WaitTypes /\ UNCHANGED waitVars => WaitTypes'
  /\ ProcTypes /\ UNCHANGED procVars => ProcTypes'
  /\ BoundTypes /\ UNCHANGED bound => BoundTypes'
<1>1. TreeTypes /\ UNCHANGED treeVars => TreeTypes'
  BY DEF TreeTypes, treeVars
<1>2. LifeTypes /\ UNCHANGED <<state, error, config, held, loads, scope>> => LifeTypes'
  BY DEF LifeTypes
<1>3. EpochTypes /\ UNCHANGED <<epoch, plugin>> => EpochTypes'
  BY DEF EpochTypes, Needs
<1>4. WaitTypes /\ UNCHANGED waitVars => WaitTypes'
  BY DEF WaitTypes, waitVars
<1>5. ProcTypes /\ UNCHANGED procVars => ProcTypes'
  BY DEF ProcTypes, procVars
<1>6. BoundTypes /\ UNCHANGED bound => BoundTypes'
  BY DEF BoundTypes
<1> QED
  BY <1>1, <1>2, <1>3, <1>4, <1>5, <1>6

\* A process works on one instance until it is issued anew.
LEMMA OfKept == UNCHANGED op => \A p \in Procs : Of(p)' = Of(p)
  BY DEF Of

\* What is not mounted is left alone.
LEMMA EnrolledKept ==
  ASSUME Enrolled, plugin' = plugin,
         \A f \in FiberIds : ~Mounted(f) =>
           /\ state'[f] = state[f] /\ epoch'[f] = epoch[f] /\ pc'[Task(f)] = pc[Task(f)]
           /\ watch'[f] = watch[f] /\ ~evaluation'[f] /\ evals'[f] = 0 /\ ~dirty'[f],
         \A i \in DOMAIN stack' : Mounted(stack'[i].fiber),
         \A o \in Ops : Mounted(op'[o].fiber)
  PROVE  Enrolled'
<1>1. \A f \in FiberIds : ~Mounted(f) =>
        /\ state'[f] = "PENDING" /\ epoch'[f] = <<>> /\ pc'[Task(f)] = "idle"
        /\ ~watch'[f] /\ ~evaluation'[f] /\ evals'[f] = 0 /\ ~dirty'[f]
  BY DEF Enrolled
<1> QED
  BY <1>1 DEF Enrolled, Mounted

\* A step that mounts nothing and forgets nobody.
LEMMA LineageKept ==
  ASSUME Lineage, UNCHANGED <<plugin, children, kids>>,
         \A f \in FiberIds : ~Mounted(f) => pc'[Disposal(f)] = pc[Disposal(f)]
  PROVE  Lineage'
  BY DEF Lineage, Mounted

\* A step that leaves the scopes and those who close them.
LEMMA ScopedKept ==
  ASSUME Scoped, UNCHANGED <<plugin, scope, op>>,
         \A p \in Procs : pc[p] = "scope" => pc'[p] = "scope"
  PROVE  Scoped'
  BY OfKept DEF Scoped, Mounted

\* The invariant, part by part.
LEMMA Facts ==
  IInv => /\ stack \in Seq(Frames) /\ script \in [FiberIds -> Seq(Steps)] /\ looping \in BOOLEAN
          /\ EpochTypes /\ TreeTypes /\ LifeTypes /\ WaitTypes /\ ProcTypes /\ BoundTypes
          /\ Enrolled /\ Lineage /\ Scoped /\ Stacked /\ TaskTable /\ Gated /\ Alone /\ Unstarted
  BY DEF IInv, Types

----------------------------------------------------------------------------
(* The stack *)

\* Return.
LEMMA Popped ==
  ASSUME IInv, stack # <<>>, stack' = Tail(stack), NEW f \in FiberIds, f = stack[1].fiber,
         pc'[Task(f)] # "running",
         \A g \in FiberIds \ {f} : state'[g] = state[g] /\ pc'[Task(g)] = pc[Task(g)]
  PROVE  /\ stack' \in Seq(Frames) /\ Stacked'
         /\ \A i \in DOMAIN stack' : stack'[i] = stack[i + 1] /\ i + 1 \in DOMAIN stack
         /\ pc[Task(f)] = "running" /\ stack[1].do = "body" => stack' = <<>>
<1>1. /\ stack \in Seq(Frames) /\ DOMAIN stack = 1..Len(stack) /\ Len(stack) \in Nat \ {0}
      /\ Distinct /\ Evaluating /\ Bodies /\ Finishing
  BY Facts, Stacks DEF Stacked
<1>2. /\ stack' \in Seq(Frames) /\ Len(stack') = Len(stack) - 1
      /\ DOMAIN stack' = 1..(Len(stack) - 1)
      /\ \A i \in 1..(Len(stack) - 1) : stack'[i] = stack[i + 1]
  BY <1>1, Stacks
<1>3. \A i \in DOMAIN stack' : stack'[i] = stack[i + 1] /\ i + 1 \in DOMAIN stack /\ i + 1 # 1
  <2> SUFFICES ASSUME NEW i \in 1..(Len(stack) - 1)
               PROVE  stack'[i] = stack[i + 1] /\ i + 1 \in 1..Len(stack) /\ i + 1 # 1
    BY <1>1, <1>2
  <2>1. i + 1 \in 1..Len(stack) /\ i + 1 # 1
    BY <1>1
  <2> QED
    BY <1>2, <2>1
<1>4. ASSUME NEW i \in DOMAIN stack'
      PROVE  /\ stack'[i].do = "body" /\ stack'[i].fiber # f /\ stack'[i].fiber \in FiberIds
  <2>1. stack'[i] = stack[i + 1] /\ i + 1 \in DOMAIN stack /\ i + 1 # 1
    BY <1>3
  <2>2. stack[i + 1].do # "evaluate"
    BY <1>1, <2>1 DEF Evaluating
  <2>3. stack[i + 1].fiber # f
    BY <1>1, <2>1 DEF Distinct
  <2> QED
    BY <1>1, <2>1, <2>2, <2>3, FrameTyped
<1>5. Distinct'
  BY <1>1, <1>2, <1>3 DEF Distinct
<1>6. Evaluating'
  BY <1>4 DEF Evaluating
<1>7. Bodies'
  <2> SUFFICES ASSUME NEW i \in DOMAIN stack' PROVE BodyOf(stack[i].fiber, i)'
    BY DEF Bodies
  <2>1. stack'[i] = stack[i + 1] /\ i + 1 \in DOMAIN stack /\ BodyOf(stack[i + 1].fiber, i + 1)
    BY <1>1, <1>3, <1>4 DEF Bodies
  <2>2. stack'[i].fiber # f /\ stack'[i].fiber \in FiberIds
    BY <1>4
  <2>3. i + 1 = Len(stack) => i = Len(stack')
    BY <1>1, <1>2
  <2> QED
    BY <2>1, <2>2, <2>3 DEF BodyOf, Still
<1>8. Finishing'
  <2> SUFFICES ASSUME NEW g \in FiberIds, pc'[Task(g)] = "running"
               PROVE  \E i \in DOMAIN stack' : stack'[i] = [do |-> "body", fiber |-> g]
    BY DEF Finishing
  <2>1. g # f
    OBVIOUS
  <2>2. PICK i \in DOMAIN stack : stack[i] = [do |-> "body", fiber |-> g]
    BY <1>1, <2>1 DEF Finishing
  <2>3. i # 1
    BY <2>1, <2>2
  <2>4. i - 1 \in DOMAIN stack' /\ stack'[i - 1] = stack[i]
    BY <1>1, <1>2, <2>2, <2>3
  <2> QED
    BY <2>2, <2>4
<1>9. ASSUME pc[Task(f)] = "running", stack[1].do = "body" PROVE stack' = <<>>
  <2>1. Len(stack) = 1
    BY <1>1, <1>9 DEF Bodies, BodyOf, Still
  <2> QED
    BY <1>2, <2>1
<1> QED
  BY <1>2, <1>3, <1>5, <1>6, <1>7, <1>8, <1>9 DEF Stacked

\* What runs is an instance that was mounted, and its frame is the first.
LEMMA TopFacts ==
  ASSUME IInv, NEW do, Top(do)
  PROVE  /\ stack \in Seq(Frames) /\ stack # <<>> /\ 1 \in DOMAIN stack
         /\ stack[1] = [do |-> do, fiber |-> This] /\ do \in {"evaluate", "body"}
         /\ This \in FiberIds /\ Mounted(This)
         /\ \A p \in Procs : ~Hot(p)
<1>1. stack \in Seq(Frames)
  BY DEF IInv, Types
<1>2. stack # <<>> /\ Head(stack) = stack[1] /\ stack[1] \in Frames /\ 1 \in DOMAIN stack
  BY <1>1, Stacks DEF Top
<1> QED
  BY <1>1, <1>2 DEF Frames, Top, This, IInv, Enrolled, Alone

\* Push("body", f).
LEMMA Pushed ==
  ASSUME IInv, stack # <<>>, NEW f \in FiberIds, f = stack[1].fiber,
         stack' = <<[do |-> "body", fiber |-> f]>> \o Tail(stack),
         state'[f] = "LOADING", Still(f), pc' = pc,
         \A g \in FiberIds \ {f} : state'[g] = state[g]
  PROVE  stack' \in Seq(Frames) /\ Stacked' /\ \A i \in DOMAIN stack' : i \in DOMAIN stack /\ stack'[i].fiber = stack[i].fiber
<1>1. /\ stack \in Seq(Frames) /\ DOMAIN stack = 1..Len(stack) /\ Len(stack) \in Nat \ {0}
      /\ Distinct /\ Evaluating /\ Bodies /\ Finishing
  BY Facts, Stacks DEF Stacked
<1>2. [do |-> "body", fiber |-> f] \in Frames
  BY DEF Frames
<1>3. /\ stack' \in Seq(Frames) /\ stack'[1] = [do |-> "body", fiber |-> f]
      /\ DOMAIN stack' = 1..Len(stack) /\ Len(stack') = Len(stack)
      /\ \A i \in 2..Len(stack) : stack'[i] = stack[i]
  BY <1>1, <1>2, Replaced
<1>4. \A i \in DOMAIN stack : i # 1 => i \in 2..Len(stack)
  BY <1>1
<1>5. ASSUME NEW i \in DOMAIN stack, i # 1
      PROVE  stack[i].do = "body" /\ stack[i].fiber # f /\ stack[i].fiber \in FiberIds
  <2>1. stack[i].do # "evaluate"
    BY <1>1, <1>5 DEF Evaluating
  <2>2. stack[i].fiber # f
    BY <1>1, <1>5 DEF Distinct
  <2> QED
    BY <1>1, <2>1, <2>2, FrameTyped
<1>6. \A i \in DOMAIN stack' : i \in DOMAIN stack /\ stack'[i].fiber = stack[i].fiber /\ stack'[i].do = "body"
  BY <1>1, <1>3, <1>4, <1>5
<1>7. Distinct' /\ Evaluating'
  <2>1. Distinct'
    BY <1>1, <1>6 DEF Distinct
  <2>2. Evaluating'
    BY <1>6 DEF Evaluating
  <2> QED
    BY <2>1, <2>2
<1>8. Bodies'
  <2> SUFFICES ASSUME NEW i \in DOMAIN stack' PROVE BodyOf(stack[i].fiber, i)'
    BY DEF Bodies
  <2>1. CASE i = 1
    BY <1>3, <2>1 DEF BodyOf, Still
  <2>2. CASE i # 1
    <3>1. BodyOf(stack[i].fiber, i) /\ stack'[i].fiber = stack[i].fiber
      BY <1>1, <1>5, <1>6, <2>2 DEF Bodies
    <3>2. stack[i].fiber # f /\ stack[i].fiber \in FiberIds
      BY <1>5, <1>6, <2>2
    <3> QED
      BY <1>3, <3>1, <3>2 DEF BodyOf, Still
  <2> QED
    BY <2>1, <2>2
<1>9. Finishing'
  <2> SUFFICES ASSUME NEW g \in FiberIds, pc[Task(g)] = "running"
               PROVE  \E i \in DOMAIN stack' : stack'[i] = [do |-> "body", fiber |-> g]
    BY DEF Finishing
  <2>1. PICK i \in DOMAIN stack : stack[i] = [do |-> "body", fiber |-> g]
    BY <1>1 DEF Finishing
  <2>2. i # 1
    BY <2>1 DEF Still
  <2> QED
    BY <1>1, <1>3, <1>4, <2>1, <2>2
<1> QED
  BY <1>3, <1>6, <1>7, <1>8, <1>9 DEF Stacked

\* Nothing runs.
LEMMA NothingRuns ==
  ASSUME stack' = <<>>, \A f \in FiberIds : pc'[Task(f)] # "running"
  PROVE  stack' \in Seq(Frames) /\ Stacked'
  BY DEF Stacked, Distinct, Evaluating, Bodies, Finishing

\* Call, by a task the event loop takes.
LEMMA Called ==
  ASSUME NEW f \in FiberIds, NEW do \in {"evaluate", "body"},
         stack' = <<[do |-> do, fiber |-> f]>> \o <<>>,
         do = "evaluate" =>
           state'[f] = "PENDING" \/ (looping' /\ ~dirty'[f] /\ (state'[f] = "ACTIVE" => Still(f)')),
         do = "body" => state'[f] = "LOADING" /\ pc'[Task(f)] = "running",
         \A g \in FiberIds : pc'[Task(g)] = "running" => g = f /\ do = "body"
  PROVE  stack' \in Seq(Frames) /\ Stacked' /\ Len(stack') = 1 /\ DOMAIN stack' = {1} /\ stack'[1].fiber = f
<1> DEFINE x == [do |-> do, fiber |-> f]
<1>1. x \in Frames /\ x.fiber = f /\ x.do = do
  BY DEF Frames
<1>2. stack' = <<x>> /\ stack' \in Seq(Frames) /\ Len(stack') = 1 /\ DOMAIN stack' = {1} /\ stack'[1] = x
  BY <1>1
<1> HIDE DEF x
<1>3. Distinct' /\ Evaluating'
  BY <1>1, <1>2 DEF Distinct, Evaluating
<1>4. Bodies'
  BY <1>1, <1>2 DEF Bodies, BodyOf
<1>5. Finishing'
  BY <1>2 DEF Finishing, x
<1> QED
  BY <1>1, <1>2, <1>3, <1>4, <1>5 DEF Stacked

\* _evaluate of an instance, called from an await.
LEMMA EvaluateCalled ==
  ASSUME NEW f \in FiberIds, stack' = <<[do |-> "evaluate", fiber |-> f]>> \o <<>>,
         state'[f] = "PENDING" \/ (looping' /\ ~dirty'[f] /\ (state'[f] = "ACTIVE" => Still(f)')),
         \A g \in FiberIds : pc'[Task(g)] # "running"
  PROVE  stack' \in Seq(Frames) /\ Stacked' /\ \A i \in DOMAIN stack' : stack'[i].fiber = f
<1> DEFINE do == "evaluate"
<1>1. do \in {"evaluate", "body"} /\ do # "body" /\ stack' = <<[do |-> do, fiber |-> f]>> \o <<>>
  OBVIOUS
<1> HIDE DEF do
<1>2. stack' \in Seq(Frames) /\ Stacked' /\ DOMAIN stack' = {1} /\ stack'[1].fiber = f
  BY <1>1, Called
<1> QED
  BY <1>2

\* A mount, by the running body or by nobody.
LEMMA Mounting ==
  ASSUME IInv, NEW g \in FiberIds, ~Mounted(g),
         stack' = <<[do |-> "evaluate", fiber |-> g]>> \o stack,
         state' = state, pc' = pc, stack # <<>> => stack[1].do = "body"
  PROVE  /\ stack' \in Seq(Frames) /\ Stacked'
         /\ \A i \in DOMAIN stack' :
              \/ i = 1 /\ stack'[i].fiber = g
              \/ i - 1 \in DOMAIN stack /\ stack'[i] = stack[i - 1]
<1>1. /\ stack \in Seq(Frames) /\ DOMAIN stack = 1..Len(stack) /\ Len(stack) \in Nat
      /\ Distinct /\ Evaluating /\ Bodies /\ Finishing
  BY Facts, Stacks DEF Stacked
<1>2. state[g] = "PENDING" /\ pc[Task(g)] = "idle" /\ \A i \in DOMAIN stack : stack[i].fiber # g
  BY Facts DEF Enrolled
<1>3. /\ stack' \in Seq(Frames) /\ Len(stack') = Len(stack) + 1
      /\ stack'[1] = [do |-> "evaluate", fiber |-> g]
      /\ \A i \in 1..Len(stack) : stack'[i + 1] = stack[i]
  <2>1. [do |-> "evaluate", fiber |-> g] \in Frames
    BY DEF Frames
  <2> QED
    BY <1>1, <2>1, Stacks
<1>4. DOMAIN stack' = 1..(Len(stack) + 1)
  BY <1>3
<1>5. ASSUME NEW i \in DOMAIN stack', i # 1
      PROVE  i - 1 \in DOMAIN stack /\ stack'[i] = stack[i - 1]
  <2>1. i - 1 \in 1..Len(stack) /\ (i - 1) + 1 = i
    BY <1>1, <1>4, <1>5
  <2>2. stack'[(i - 1) + 1] = stack[i - 1]
    BY <1>3, <2>1
  <2> QED
    BY <1>1, <2>1, <2>2
<1>6. \A i \in DOMAIN stack : stack[i].do = "body" /\ stack[i].fiber \in FiberIds
  BY <1>1, FrameTyped DEF Evaluating
<1>7. Distinct'
  <2> SUFFICES ASSUME NEW i \in DOMAIN stack', NEW j \in DOMAIN stack',
                      stack'[i].fiber = stack'[j].fiber
               PROVE  i = j
    BY DEF Distinct
  <2>1. CASE i = 1
    BY <1>2, <1>3, <1>5, <2>1
  <2>2. CASE j = 1
    BY <1>2, <1>3, <1>5, <2>2
  <2>3. CASE i # 1 /\ j # 1
    <3>1. i - 1 = j - 1
      BY <1>1, <1>5, <2>3 DEF Distinct
    <3> QED
      BY <1>1, <1>4, <3>1
  <2> QED
    BY <2>1, <2>2, <2>3
<1>8. Evaluating'
  <2> SUFFICES ASSUME NEW i \in DOMAIN stack', stack'[i].do = "evaluate"
               PROVE  i = 1 /\ state'[stack'[i].fiber] = "PENDING"
    BY DEF Evaluating
  <2> QED
    BY <1>2, <1>3, <1>5, <1>6
<1>9. Bodies'
  <2> SUFFICES ASSUME NEW i \in DOMAIN stack', stack'[i].do = "body" PROVE BodyOf(stack[i].fiber, i)'
    BY DEF Bodies
  <2>1. i # 1
    BY <1>3
  <2>2. BodyOf(stack[i - 1].fiber, i - 1) /\ stack'[i] = stack[i - 1]
    BY <1>1, <1>5, <1>6, <2>1 DEF Bodies
  <2>3. i - 1 = Len(stack) => i = Len(stack')
    BY <1>1, <1>3, <1>4
  <2> QED
    BY <2>2, <2>3 DEF BodyOf, Still
<1>10. Finishing'
  <2> SUFFICES ASSUME NEW h \in FiberIds, pc[Task(h)] = "running"
               PROVE  \E i \in DOMAIN stack' : stack'[i] = [do |-> "body", fiber |-> h]
    BY DEF Finishing
  <2>1. PICK i \in DOMAIN stack : stack[i] = [do |-> "body", fiber |-> h]
    BY <1>1 DEF Finishing
  <2>2. i + 1 \in DOMAIN stack'
    BY <1>1, <1>4, <2>1
  <2>3. stack'[i + 1] = stack[i]
    BY <1>1, <1>3
  <2> QED
    BY <2>1, <2>2, <2>3
<1>11. stack'[1].fiber = g
  BY <1>3
<1>12. Stacked'
  BY <1>7, <1>8, <1>9, <1>10 DEF Stacked
<1>13. \A i \in DOMAIN stack' :
         \/ i = 1 /\ stack'[i].fiber = g
         \/ i - 1 \in DOMAIN stack /\ stack'[i] = stack[i - 1]
  BY <1>5, <1>11
<1> QED
  BY <1>3, <1>12, <1>13

\* _evaluate of a waiting instance whose names are bound: _load.
LEMMA EvaluateLoadsStep == ASSUME IInv, EvaluateLoads PROVE IInv'
<1> DEFINE f == This
<1>1. /\ stack \in Seq(Frames) /\ stack # <<>> /\ 1 \in DOMAIN stack
      /\ stack[1] = [do |-> "evaluate", fiber |-> f]
      /\ f \in FiberIds /\ Mounted(f)
      /\ \A p \in Procs : ~Hot(p)
  BY TopFacts DEF EvaluateLoads
<1>2. /\ state[f] = "PENDING" /\ Missing(f) = {}
      /\ scope' = [scope EXCEPT ![f] = "open"]
      /\ error' = [error EXCEPT ![f] = FALSE]
      /\ epoch' = [epoch EXCEPT ![f] = Sample(f)]
      /\ state' = [state EXCEPT ![f] = "LOADING"]
      /\ loads' = [loads EXCEPT ![f] = @ + 1]
      /\ script' = [script EXCEPT ![f] =
              IF held[f] THEN <<Step("raise", None)>>
              ELSE IF f = Root THEN <<>> ELSE Body[plugin[f]]]
      /\ stack' = <<[do |-> "body", fiber |-> f]>> \o Tail(stack)
      /\ UNCHANGED <<looping, treeVars, config, held, waitVars, procVars, bound>>
  BY DEF EvaluateLoads, LoadsNow, Push
<1> HIDE DEF f
<1>0. /\ stack \in Seq(Frames) /\ script \in [FiberIds -> Seq(Steps)] /\ looping \in BOOLEAN
      /\ EpochTypes /\ TreeTypes /\ LifeTypes /\ WaitTypes /\ ProcTypes /\ BoundTypes
      /\ Enrolled /\ Lineage /\ Scoped /\ Stacked /\ TaskTable /\ Gated /\ Alone /\ Unstarted
  BY Facts
<1>3. Still(f) /\ state'[f] = "LOADING" /\ pc' = pc /\ \A g \in FiberIds \ {f} : state'[g] = state[g]
  <2>1. pc' = pc
    BY <1>2 DEF procVars
  <2>2. Still(f)
    BY <1>0, <1>1, <1>2 DEF TaskTable, Row
  <2>3. state \in [FiberIds -> States]
    BY <1>0 DEF LifeTypes
  <2>4. state'[f] = "LOADING" /\ \A g \in FiberIds \ {f} : state'[g] = state[g]
    BY <1>1, <1>2, <2>3
  <2> QED
    BY <2>1, <2>2, <2>4
<1>4. script' \in [FiberIds -> Seq(Steps)]
  <2>1. f # Root => plugin[f] \in Plugins
    BY <1>0, <1>1 DEF Mounted, TreeTypes
  <2>2. script'[f] \in Seq(Steps)
    BY <1>0, <1>1, <1>2, <2>1, BodiesTyped
  <2> QED
    BY <1>0, <1>1, <1>2, <2>2
<1>5. EpochTypes'
  <2>1. Needs(f) \subseteq Names
    BY <1>0, <1>1, FiberAssumption DEF Needs, TreeTypes
  <2>2. Sample(f) \in [Needs(f) -> FiberIds \X Nat]
    BY <1>0, <1>2, <2>1 DEF Sample, Missing, BoundTypes
  <2>3. \A g \in FiberIds : Needs(g)' = Needs(g)
    BY <1>0, <1>2 DEF Needs, treeVars
  <2> QED
    BY <1>0, <1>1, <1>2, <2>2, <2>3 DEF EpochTypes
<1>6. LifeTypes'
  BY <1>0, <1>1, <1>2 DEF LifeTypes, States
<1>7. TreeTypes' /\ WaitTypes' /\ ProcTypes' /\ BoundTypes' /\ looping' \in BOOLEAN
  BY <1>0, <1>2, Kept
<1>8. /\ stack' \in Seq(Frames) /\ Stacked'
      /\ \A i \in DOMAIN stack' : i \in DOMAIN stack /\ stack'[i].fiber = stack[i].fiber
  BY <1>1, <1>2, <1>3, Pushed
<1>9. Enrolled'
  BY <1>0, <1>1, <1>2, <1>3, <1>8 DEF Enrolled, Mounted, treeVars, waitVars, procVars, EpochTypes
<1>10. TaskTable' /\ Unstarted'
  BY <1>0, <1>1, <1>2, <1>3 DEF TaskTable, Row, Unstarted, Still, waitVars, procVars
<1>11. Gated'
  BY <1>0, <1>1, <1>2, <1>3, OfTyped, OfKept DEF Gated, PastGate, Hot, Still, procVars
<1>12. Alone'
  BY <1>0, <1>1, <1>2 DEF Alone, Hot, Closes, procVars
<1>13. Lineage'
  BY <1>0, <1>2, LineageKept DEF treeVars, procVars
<1>14. Scoped'
  <2>1. scope'[f] = "open" /\ \A g \in FiberIds \ {f} : scope'[g] = scope[g]
    BY <1>0, <1>1, <1>2 DEF LifeTypes
  <2>2. pc' = pc /\ op' = op /\ plugin' = plugin
    BY <1>2 DEF procVars, treeVars
  <2> QED
    BY <1>0, <2>1, <2>2, OfKept DEF Scoped, Mounted
<1> QED
  BY <1>4, <1>5, <1>6, <1>7, <1>8, <1>9, <1>10, <1>11, <1>12, <1>13, <1>14 DEF IInv, Types

\* _evaluate of a running instance that must go: _start.
LEMMA EvaluateUnloadsStep == ASSUME IInv, EvaluateUnloads PROVE IInv'
<1> DEFINE f == This
<1>1. /\ stack # <<>> /\ 1 \in DOMAIN stack /\ stack[1] = [do |-> "evaluate", fiber |-> f]
      /\ f \in FiberIds /\ Mounted(f)
      /\ \A p \in Procs : ~Hot(p)
  BY TopFacts DEF EvaluateUnloads
<1>2. /\ state[f] = "ACTIVE"
      /\ work' = [work EXCEPT ![f] = IF Missing(f) # {} THEN "unload" ELSE "reload"]
      /\ pc' = [pc EXCEPT ![Task(f)] = Scheduled]
      /\ stack' = Tail(stack)
      /\ UNCHANGED <<looping, treeVars, lifeVars, waitVars, bound>>
      /\ gate' = gate /\ kids' = kids /\ op' = op
  BY DEF EvaluateUnloads, UnloadsNow, Return
<1> HIDE DEF f
<1>3. looping /\ ~dirty[f] /\ Still(f)
  BY <1>1, <1>2, Facts DEF Stacked, Evaluating
<1>4. /\ pc \in [Procs -> Places] /\ Task(f) \in Procs
      /\ pc'[Task(f)] = "spawned" /\ \A p \in Procs \ {Task(f)} : pc'[p] = pc[p]
      /\ \A g \in FiberIds \ {f} : pc'[Task(g)] = pc[Task(g)] /\ work'[g] = work[g]
      /\ work'[f] \in {"unload", "reload"}
  BY <1>1, <1>2, <1>3, Facts, Processes DEF ProcTypes, Scheduled
<1>5. ProcTypes'
  <2>1. pc' \in [Procs -> Places]
    BY <1>2, <1>3, <1>4 DEF Places, Scheduled
  <2>2. work' \in [FiberIds -> {"none", "unload", "reload", "release", "finish"}]
    BY <1>1, <1>2, Facts DEF ProcTypes
  <2> QED
    BY <1>2, <2>1, <2>2, Facts DEF ProcTypes
<1>6. /\ state' = state /\ dirty' = dirty
      /\ TreeTypes' /\ LifeTypes' /\ EpochTypes' /\ WaitTypes' /\ BoundTypes'
      /\ looping' \in BOOLEAN /\ script' \in [FiberIds -> Seq(Steps)]
  BY <1>2, Facts, Kept DEF lifeVars, treeVars, waitVars
<1>7. /\ stack' \in Seq(Frames) /\ Stacked'
      /\ \A i \in DOMAIN stack' : stack'[i] = stack[i + 1] /\ i + 1 \in DOMAIN stack
  BY <1>1, <1>2, <1>4, <1>6, Popped
<1>8. Enrolled'
  BY <1>1, <1>2, <1>4, <1>7, Facts DEF Enrolled, Mounted, treeVars, lifeVars, waitVars
<1>9. TaskTable' /\ Unstarted'
  <2>1. ASSUME NEW g \in FiberIds, g = f PROVE Row(g)'
    BY <1>2, <1>4, <1>6, <2>1 DEF Row
  <2>2. ASSUME NEW g \in FiberIds, g # f PROVE Row(g)'
    <3>1. Row(g) /\ state'[g] = state[g] /\ pc'[Task(g)] = pc[Task(g)] /\ work'[g] = work[g]
      BY <1>4, <1>6, <2>2, Facts DEF TaskTable
    <3> QED
      BY <3>1 DEF Row, Still
  <2>3. Unstarted'
    BY <1>2, <1>3, <1>4, <1>6, Facts DEF Unstarted, Still
  <2> QED
    BY <2>1, <2>2, <2>3 DEF TaskTable
<1>10. Gated'
  BY <1>1, <1>2, <1>4, <1>6, Facts, Processes, OfTyped, OfKept DEF Gated, PastGate, Hot, Still
<1>11. Alone'
  BY <1>1, <1>2, <1>4 DEF Alone, Hot, Closes
<1>12. Lineage'
  BY <1>1, <1>2, <1>4, Facts, Processes, LineageKept DEF treeVars
<1>13. Scoped'
  BY <1>2, <1>3, <1>4, Facts, ScopedKept DEF treeVars, lifeVars, Still
<1> QED
  BY <1>5, <1>6, <1>7, <1>8, <1>9, <1>10, <1>11, <1>12, <1>13 DEF IInv, Types

\* _evaluate that changes nothing.
LEMMA EvaluateNothingStep == ASSUME IInv, EvaluateNothing PROVE IInv'
<1> DEFINE f == This
<1>1. /\ stack # <<>> /\ 1 \in DOMAIN stack /\ stack[1] = [do |-> "evaluate", fiber |-> f]
      /\ f \in FiberIds /\ Mounted(f)
      /\ \A p \in Procs : ~Hot(p)
  BY TopFacts DEF EvaluateNothing
<1>2. /\ stack' = Tail(stack)
      /\ UNCHANGED <<looping, treeVars, lifeVars, waitVars, procVars, bound>>
  BY DEF EvaluateNothing, Return
<1> HIDE DEF f
<1>3. pc[Task(f)] # "running"
  <2>1. SUFFICES ASSUME pc[Task(f)] = "running" PROVE FALSE
    OBVIOUS
  <2>2. PICK i \in DOMAIN stack : stack[i] = [do |-> "body", fiber |-> f]
    BY <1>1, <2>1, Facts DEF Stacked, Finishing
  <2> QED
    BY <1>1, <2>2, Facts DEF Stacked, Distinct
<1>4. /\ state' = state /\ dirty' = dirty /\ pc' = pc /\ op' = op /\ gate' = gate /\ work' = work
      /\ TreeTypes' /\ LifeTypes' /\ EpochTypes' /\ WaitTypes' /\ ProcTypes' /\ BoundTypes'
      /\ looping' \in BOOLEAN /\ script' \in [FiberIds -> Seq(Steps)]
  BY <1>2, Facts, Kept DEF lifeVars, treeVars, waitVars, procVars
<1>5. /\ stack' \in Seq(Frames) /\ Stacked'
      /\ \A i \in DOMAIN stack' : stack'[i] = stack[i + 1] /\ i + 1 \in DOMAIN stack
  BY <1>1, <1>2, <1>3, <1>4, Popped
<1>6. Enrolled'
  BY <1>2, <1>4, <1>5, Facts DEF Enrolled, Mounted, treeVars, lifeVars, waitVars
<1>7. TaskTable' /\ Unstarted'
  BY <1>2, <1>4, Facts DEF TaskTable, Row, Unstarted, Still
<1>8. Gated'
  BY <1>1, <1>2, <1>4, Facts, OfKept DEF Gated, PastGate, Hot, Still
<1>9. Alone'
  BY <1>1, <1>2, <1>4 DEF Alone, Hot, Closes, procVars
<1>10. Lineage' /\ Scoped'
  BY <1>2, Facts, LineageKept, ScopedKept DEF treeVars, lifeVars, procVars
<1> QED
  BY <1>4, <1>5, <1>6, <1>7, <1>8, <1>9, <1>10 DEF IInv, Types

----------------------------------------------------------------------------
(* A body runs *)

\* What is known of the body at the top.
LEMMA BodyFacts ==
  ASSUME IInv, Top("body")
  PROVE  /\ stack \in Seq(Frames) /\ stack # <<>> /\ 1 \in DOMAIN stack
         /\ stack[1] = [do |-> "body", fiber |-> This] /\ This \in FiberIds /\ Mounted(This)
         /\ state[This] = "LOADING" /\ \A p \in Procs : ~Hot(p)
         /\ Still(This) \/ pc[Task(This)] = "running"
         /\ \A i \in DOMAIN stack : stack[i].do = "body"
<1>1. /\ stack \in Seq(Frames) /\ stack # <<>> /\ 1 \in DOMAIN stack
      /\ stack[1] = [do |-> "body", fiber |-> This] /\ This \in FiberIds /\ Mounted(This)
      /\ \A p \in Procs : ~Hot(p)
  BY TopFacts
<1>2. BodyOf(This, 1)
  BY <1>1, Facts DEF Stacked, Bodies
<1>3. \A i \in DOMAIN stack : stack[i].do = "body"
  <2>1. \A i \in DOMAIN stack : stack[i].do = "evaluate" => i = 1
    BY Facts DEF Stacked, Evaluating
  <2> QED
    BY <1>1, <2>1, FrameTyped
<1> QED
  BY <1>1, <1>2, <1>3 DEF BodyOf

\* A step of a body that waits: some name, some plugin.
LEMMA ScriptTyped ==
  ASSUME IInv, NEW f \in FiberIds, script[f] # <<>>
  PROVE  /\ NextStep(f) \in Steps
         /\ NextStep(f).do = "provide" => NextStep(f).what \in Names
         /\ NextStep(f).do = "mount" => NextStep(f).what \in Plugins
         /\ (script' = [script EXCEPT ![f] = Tail(@)]) => script' \in [FiberIds -> Seq(Steps)]
<1>1. script[f] \in Seq(Steps) /\ script \in [FiberIds -> Seq(Steps)]
  BY Facts
<1>2. Head(script[f]) \in Steps /\ Tail(script[f]) \in Seq(Steps)
  BY <1>1
<1>3. \A x \in Steps :
        (x.do = "provide" => x.what \in Names) /\ (x.do = "mount" => x.what \in Plugins)
  BY DEF Steps, Step
<1>4. (script' = [script EXCEPT ![f] = Tail(@)]) => script' \in [FiberIds -> Seq(Steps)]
  BY <1>1, <1>2
<1> QED
  BY <1>2, <1>3, <1>4 DEF NextStep

\* Whoever hears of a change has been mounted, and only before the loop is it
\* remembered.
LEMMA Announced ==
  ASSUME IInv, NEW names, Announce(names)
  PROVE  /\ evaluation' \in [FiberIds -> BOOLEAN] /\ dirty' \in [FiberIds -> BOOLEAN]
         /\ \A f \in FiberIds : ~Mounted(f) => ~evaluation'[f] /\ ~dirty'[f]
         /\ \A f \in FiberIds : dirty'[f] => dirty[f] \/ ~looping
<1>1. \A f \in FiberIds : Hears(f, names) => watch[f]
  BY DEF Hears
<1>2. evaluation \in [FiberIds -> BOOLEAN] /\ dirty \in [FiberIds -> BOOLEAN]
  BY Facts DEF WaitTypes
<1>3. \A f \in FiberIds : ~Mounted(f) => ~watch[f] /\ ~evaluation[f] /\ ~dirty[f]
  BY Facts DEF Enrolled
<1> QED
  BY <1>1, <1>2, <1>3 DEF Announce

\* provide: whoever waits for the name is evaluated next.
LEMMA BodyProvidesStep == ASSUME IInv, BodyProvides PROVE IInv'
<1> DEFINE f == This
           n == NextStep(f).what
<1>1. /\ stack # <<>> /\ f \in FiberIds /\ Mounted(f) /\ state[f] = "LOADING"
      /\ \A p \in Procs : ~Hot(p)
      /\ \A i \in DOMAIN stack : stack[i].do = "body"
  BY BodyFacts DEF BodyProvides, BodyAt
<1>2. /\ script[f] # <<>> /\ NextStep(f).do = "provide"
      /\ bound' = [bound EXCEPT ![n] = <<f, loads[f]>>]
      /\ Announce({n})
      /\ script' = [script EXCEPT ![f] = Tail(@)]
      /\ UNCHANGED <<looping, stack, treeVars, state, error, epoch, config, held, loads,
                     scope, evals, watch, procVars>>
  BY DEF BodyProvides, BodyAt, Advance
<1>3. n \in Names /\ script' \in [FiberIds -> Seq(Steps)]
  BY <1>1, <1>2, ScriptTyped
<1> HIDE DEF f, n
<1>4. /\ evaluation' \in [FiberIds -> BOOLEAN] /\ dirty' \in [FiberIds -> BOOLEAN]
      /\ \A g \in FiberIds : ~Mounted(g) => ~evaluation'[g] /\ ~dirty'[g]
      /\ \A g \in FiberIds : dirty'[g] => dirty[g] \/ ~looping
  BY <1>2, Announced
<1>5. /\ stack' = stack /\ state' = state /\ looping' = looping
      /\ evals' = evals /\ watch' = watch /\ epoch' = epoch
      /\ pc' = pc /\ op' = op /\ gate' = gate /\ work' = work /\ kids' = kids
      /\ plugin' = plugin /\ children' = children /\ scope' = scope
  BY <1>2 DEF procVars, treeVars
<1>6. TreeTypes' /\ LifeTypes' /\ EpochTypes' /\ ProcTypes' /\ looping' \in BOOLEAN
  BY <1>2, <1>5, Facts, Kept
<1>7. WaitTypes'
  BY <1>4, <1>5, Facts DEF WaitTypes
<1>8. BoundTypes'
  <2>1. <<f, loads[f]>> \in FiberIds \X Nat
    BY <1>1, Facts DEF LifeTypes
  <2> QED
    BY <1>2, <1>3, <2>1, Facts DEF BoundTypes
<1>9. Stacked' /\ stack' \in Seq(Frames)
  BY <1>1, <1>5, Facts DEF Stacked, Distinct, Evaluating, Bodies, BodyOf, Finishing, Still
<1>10. Enrolled'
  BY <1>4, <1>5, Facts DEF Enrolled, Mounted
<1>11. Lineage' /\ Scoped'
  BY <1>5, Facts, LineageKept, ScopedKept
<1>12. TaskTable' /\ Unstarted'
  BY <1>4, <1>5, Facts DEF TaskTable, Row, Unstarted, Still
<1>13. Gated'
  BY <1>1, <1>5, Facts, OfKept DEF Gated, PastGate, Hot, Still
<1>14. Alone'
  BY <1>1, <1>5 DEF Alone, Hot, Closes
<1> QED
  BY <1>3, <1>6, <1>7, <1>8, <1>9, <1>10, <1>11, <1>12, <1>13, <1>14 DEF IInv, Types

\* Mounting, by a body, by the host or from outside.
LEMMA MountStep ==
  ASSUME IInv, NEW f \in FiberIds, NEW q \in Plugins, Mount(f, q, stack),
         stack # <<>> => stack[1].do = "body", \A p \in Procs : ~Hot(p),
         script' \in [FiberIds -> Seq(Steps)],
         UNCHANGED <<looping, state, error, epoch, config, held, loads,
                     evaluation, evals, dirty, procVars, bound>>
  PROVE  IInv'
<1>1. PICK g \in Fresh :
        /\ plugin' = [plugin EXCEPT ![g] = q]
        /\ parent' = [parent EXCEPT ![g] = f]
        /\ children' = [children EXCEPT ![f] = Append(@, g)]
        /\ scope' = [scope EXCEPT ![g] = "open"]
        /\ watch' = [watch EXCEPT ![g] = Requires[q] # {}]
        /\ stack' = <<[do |-> "evaluate", fiber |-> g]>> \o stack
  BY DEF Mount
<1>2. g \in FiberIds /\ g # Root /\ ~Mounted(g)
  BY DEF Fresh
<1>3. /\ looping' = looping /\ state' = state /\ epoch' = epoch
      /\ evaluation' = evaluation /\ evals' = evals /\ dirty' = dirty
      /\ pc' = pc /\ op' = op /\ gate' = gate /\ work' = work /\ kids' = kids
  BY DEF procVars
<1>4. /\ plugin'[g] = q /\ q # None
      /\ \A h \in FiberIds \ {g} : plugin'[h] = plugin[h] /\ scope'[h] = scope[h] /\ watch'[h] = watch[h]
      /\ scope'[g] = "open"
  BY <1>1, <1>2, FiberAssumption, Facts DEF TreeTypes, LifeTypes, WaitTypes
<1> DEFINE Now(h) == h = Root \/ plugin'[h] # None
<1>5. \A h \in FiberIds : Now(h) <=> Mounted(h) \/ h = g
  BY <1>2, <1>4 DEF Mounted
<1> HIDE DEF Now
<1>6. TreeTypes'
  BY <1>1, <1>2, Facts DEF TreeTypes
<1>7. LifeTypes' /\ WaitTypes'
  BY <1>1, <1>2, Facts DEF LifeTypes, WaitTypes
<1>8. EpochTypes'
  <2>1. epoch[g] = <<>>
    BY <1>2, Facts DEF Enrolled
  <2>2. \A h \in FiberIds \ {g} : Needs(h)' = Needs(h)
    BY <1>4 DEF Needs
  <2> QED
    BY <1>3, <2>1, <2>2, Facts DEF EpochTypes
<1>9. ProcTypes' /\ BoundTypes' /\ looping' \in BOOLEAN
  BY <1>3, Facts, Kept
<1>10. /\ stack' \in Seq(Frames) /\ Stacked'
       /\ \A i \in DOMAIN stack' :
            \/ i = 1 /\ stack'[i].fiber = g
            \/ i - 1 \in DOMAIN stack /\ stack'[i] = stack[i - 1]
  BY <1>1, <1>2, <1>3, Mounting
<1>11. Enrolled'
  <2>1. \A i \in DOMAIN stack' : Now(stack'[i].fiber)
    <3> SUFFICES ASSUME NEW i \in DOMAIN stack' PROVE Now(stack'[i].fiber)
      OBVIOUS
    <3>1. CASE stack'[i].fiber = g
      BY <1>2, <1>5, <3>1
    <3>2. CASE i - 1 \in DOMAIN stack /\ stack'[i] = stack[i - 1]
      <4>1. Mounted(stack[i - 1].fiber) /\ stack[i - 1].fiber \in FiberIds
        BY <3>2, Facts, FrameTyped DEF Enrolled
      <4> QED
        BY <1>5, <3>2, <4>1
    <3> QED
      BY <1>10, <3>1, <3>2
  <2>2. \A o \in Ops : Now(op'[o].fiber)
    <3>1. \A o \in Ops : op[o].fiber \in FiberIds /\ Mounted(op[o].fiber)
      BY Facts DEF Enrolled, ProcTypes
    <3> QED
      BY <1>3, <1>5, <3>1
  <2>3. \A h \in FiberIds : ~Now(h) => ~Mounted(h) /\ h # g
    BY <1>5
  <2>4. ASSUME NEW h \in FiberIds, ~Now(h)
        PROVE  /\ state'[h] = "PENDING" /\ epoch'[h] = <<>> /\ pc'[Task(h)] = "idle"
               /\ ~watch'[h] /\ ~evaluation'[h] /\ evals'[h] = 0 /\ ~dirty'[h]
    <3>1. ~Mounted(h) /\ watch'[h] = watch[h]
      BY <1>4, <2>3, <2>4
    <3> QED
      BY <1>3, <3>1, Facts DEF Enrolled
  <2> QED
    BY <2>1, <2>2, <2>4 DEF Enrolled, Mounted, Now
<1>12. Lineage'
  <2>1. ASSUME NEW h \in FiberIds, NEW i \in DOMAIN children'[h] PROVE Now(children'[h][i])
    <3>1. children[h] \in Seq(FiberIds) /\ \A j \in DOMAIN children[h] : Mounted(children[h][j])
      BY Facts DEF TreeTypes, Lineage
    <3>2. CASE h # f
      <4>1. children'[h] = children[h]
        BY <1>1, <3>2, Facts DEF TreeTypes
      <4> QED
        BY <1>5, <2>1, <3>1, <4>1
    <3>3. CASE h = f
      <4>1. children'[h] = Append(children[h], g)
        BY <1>1, <3>3, Facts DEF TreeTypes
      <4>2. children'[h][i] = g \/ (i \in DOMAIN children[h] /\ children'[h][i] = children[h][i])
        BY <1>2, <2>1, <3>1, <4>1
      <4> QED
        BY <1>2, <1>5, <3>1, <4>2
    <3> QED
      BY <3>2, <3>3
  <2>2. ASSUME NEW p \in Procs, NEW i \in DOMAIN kids[p] PROVE Now(kids[p][i])
    <3>1. Mounted(kids[p][i]) /\ kids[p][i] \in FiberIds
      BY <2>2, Facts DEF Lineage, ProcTypes
    <3> QED
      BY <1>5, <3>1
  <2>3. \A h \in FiberIds : ~Now(h) => pc[Disposal(h)] = "idle"
    BY <1>5, Facts DEF Lineage
  <2>4. \A h \in FiberIds : \A i \in DOMAIN children'[h] : Now(children'[h][i])
    BY <2>1
  <2>5. kids' = kids /\ pc' = pc /\ \A p \in Procs : \A i \in DOMAIN kids'[p] : Now(kids'[p][i])
    BY <1>3, <2>2
  <2> QED
    BY <2>3, <2>4, <2>5 DEF Lineage, Mounted, Now
<1>13. Scoped'
  <2>1. ASSUME NEW h \in FiberIds
        PROVE  /\ Now(h) => scope'[h] # "none"
               /\ scope'[h] = "closing" => \E p \in Procs : Of(p) = h /\ pc[p] = "scope"
    <3>1. CASE h = g
      BY <1>4, <3>1
    <3>2. CASE h # g
      BY <1>4, <1>5, <3>2, Facts DEF Scoped
    <3> QED
      BY <3>1, <3>2
  <2>2. \A p \in Procs : Of(p)' = Of(p) /\ pc'[p] = pc[p]
    BY <1>3, OfKept
  <2> QED
    BY <2>1, <2>2 DEF Scoped, Mounted, Now
<1>14. TaskTable' /\ Unstarted'
  BY <1>3, Facts DEF TaskTable, Row, Unstarted, Still
<1>15. Gated'
  BY <1>3, Facts, OfKept DEF Gated, PastGate, Still, Rests
<1>16. Alone'
  BY <1>3 DEF Alone, Hot, Closes
<1> QED
  BY <1>6, <1>7, <1>8, <1>9, <1>10, <1>11, <1>12, <1>13, <1>14, <1>15, <1>16 DEF IInv, Types

\* ctx.plugin in a body.
LEMMA BodyMountsStep == ASSUME IInv, BodyMounts PROVE IInv'
<1>1. /\ stack # <<>> /\ This \in FiberIds /\ stack[1].do = "body"
      /\ \A p \in Procs : ~Hot(p)
  BY BodyFacts DEF BodyMounts, BodyAt
<1>2. NextStep(This).what \in Plugins /\ script' \in [FiberIds -> Seq(Steps)]
  BY <1>1, ScriptTyped DEF BodyMounts, BodyAt, Advance
<1>3. /\ Mount(This, NextStep(This).what, stack)
      /\ UNCHANGED <<looping, state, error, epoch, config, held, loads,
                     evaluation, evals, dirty, procVars, bound>>
  BY DEF BodyMounts
<1> QED
  BY <1>1, <1>2, <1>3, MountStep

\* The tasks the loop takes begin with an empty stack.
LEMMA Awaiting ==
  ASSUME IInv, AtAwait
  PROVE  stack = <<>> /\ (\A p \in Procs : ~Hot(p)) /\ \A f \in FiberIds : pc[Task(f)] # "running"
<1>1. stack = <<>> /\ \A p \in Procs : ~Hot(p)
  BY DEF AtAwait, Hot
<1>2. \A f \in FiberIds : pc[Task(f)] # "running"
  BY <1>1, Facts DEF Stacked, Finishing
<1> QED
  BY <1>1, <1>2

\* ctx.plugin of the application.
LEMMA HostMountStep == ASSUME IInv, AtAwait, NEW q \in TopLevel, HostMount(q) PROVE IInv'
<1>1. stack = <<>> /\ \A p \in Procs : ~Hot(p)
  BY Awaiting
<1>2. Root \in FiberIds /\ q \in Plugins
  BY FiberAssumption DEF Root, FiberIds
<1>3. /\ Mount(Root, q, stack)
      /\ UNCHANGED <<looping, state, error, epoch, config, held, loads, script,
                     evaluation, evals, dirty, procVars, bound>>
  BY <1>1 DEF HostMount
<1>4. script' \in [FiberIds -> Seq(Steps)]
  BY <1>3, Facts
<1> QED
  BY <1>1, <1>2, <1>3, <1>4, MountStep

\* ctx.plugin on the context of an instance, by somebody else.
LEMMA LateMountStep ==
  ASSUME IInv, AtAwait, NEW f \in FiberIds, NEW q \in Plugins, LateMount(f, q) PROVE IInv'
<1>1. stack = <<>> /\ \A p \in Procs : ~Hot(p)
  BY Awaiting
<1>2. /\ Mount(f, q, stack)
      /\ UNCHANGED <<looping, state, error, epoch, config, held, loads, script,
                     evaluation, evals, dirty, procVars, bound>>
  BY <1>1 DEF LateMount
<1>3. script' \in [FiberIds -> Seq(Steps)]
  BY <1>2, Facts
<1> QED
  BY <1>1, <1>2, <1>3, MountStep

\* The body reaches an await, and the rest of it is _finish.
LEMMA BodyAwaitsStep == ASSUME IInv, BodyAwaits PROVE IInv'
<1> SUFFICES ASSUME NEW f, f = This PROVE IInv'
  OBVIOUS
<1>1. /\ stack # <<>> /\ f \in FiberIds /\ f = stack[1].fiber /\ state[f] = "LOADING"
      /\ Mounted(f) /\ \A p \in Procs : ~Hot(p)
  BY BodyFacts DEF BodyAwaits, BodyAt
<1>2. /\ script[f] # <<>>
      /\ script' = [script EXCEPT ![f] = Tail(@)]
      /\ \/ /\ pc' = [pc EXCEPT ![Task(f)] = "body"] /\ work' = work
            /\ pc[Task(f)] = "running"
         \/ /\ pc' = [pc EXCEPT ![Task(f)] = Scheduled]
            /\ work' = [work EXCEPT ![f] = "finish"]
            /\ pc[Task(f)] # "running"
      /\ stack' = Tail(stack)
      /\ UNCHANGED <<looping, treeVars, state, error, epoch, config, held, loads, scope,
                     waitVars, gate, kids, op, bound>>
  BY DEF BodyAwaits, BodyAt, Return, InFinish, Advance
<1>3. script' \in [FiberIds -> Seq(Steps)]
  BY <1>1, <1>2, ScriptTyped
<1>4. pc[Task(f)] = "running" \/ Still(f)
  BY BodyFacts DEF BodyAwaits, BodyAt
<1>5. /\ state' = state /\ dirty' = dirty /\ looping' = looping /\ op' = op /\ gate' = gate
      /\ kids' = kids /\ plugin' = plugin /\ children' = children /\ scope' = scope
      /\ TreeTypes' /\ LifeTypes' /\ EpochTypes' /\ WaitTypes' /\ BoundTypes'
  BY <1>2, Facts, Kept DEF treeVars, waitVars
<1>6. Scheduled \in {"spawned", "held"}
  BY DEF Scheduled
<1>7. /\ pc \in [Procs -> Places] /\ Task(f) \in Procs
      /\ pc'[Task(f)] \in {"body", "spawned", "held"}
      /\ \A p \in Procs \ {Task(f)} : pc'[p] = pc[p]
      /\ \A g \in FiberIds \ {f} : pc'[Task(g)] = pc[Task(g)] /\ work'[g] = work[g]
  BY <1>1, <1>2, <1>6, Facts, Processes DEF ProcTypes
<1>8. work'[f] = "finish"
  <2>1. CASE pc[Task(f)] = "running"
    BY <1>1, <1>2, <2>1, Facts DEF TaskTable, Row, Still, Teardown
  <2>2. CASE pc[Task(f)] # "running"
    BY <1>1, <1>2, <2>2, Facts DEF ProcTypes
  <2> QED
    BY <2>1, <2>2
<1>9. ProcTypes'
  <2>1. pc' \in [Procs -> Places]
    BY <1>2, <1>6, <1>7 DEF Places
  <2>2. work' \in [FiberIds -> {"none", "unload", "reload", "release", "finish"}]
    BY <1>1, <1>2, Facts DEF ProcTypes
  <2> QED
    BY <1>5, <2>1, <2>2, Facts DEF ProcTypes
<1>10. /\ stack' \in Seq(Frames) /\ Stacked'
       /\ \A i \in DOMAIN stack' : stack'[i] = stack[i + 1] /\ i + 1 \in DOMAIN stack
  BY <1>1, <1>2, <1>5, <1>7, Popped
<1>11. Enrolled'
  <2>1. UNCHANGED <<plugin, state, epoch, watch, evaluation, evals, dirty, op>>
    BY <1>2, <1>5 DEF waitVars
  <2>2. \A g \in FiberIds : ~Mounted(g) =>
          /\ state'[g] = state[g] /\ pc'[Task(g)] = pc[Task(g)]
          /\ ~evaluation[g] /\ evals[g] = 0 /\ ~dirty[g]
    BY <1>1, <1>5, <1>7, Facts DEF Enrolled
  <2>3. \A i \in DOMAIN stack' : Mounted(stack'[i].fiber)
    BY <1>10, Facts DEF Enrolled
  <2> QED
    BY <2>1, <2>2, <2>3, Facts, EnrolledKept DEF Enrolled
<1>12. Lineage'
  BY <1>1, <1>5, <1>7, Facts, Processes, LineageKept
<1>13. Scoped'
  BY <1>4, <1>5, <1>7, Facts, ScopedKept DEF Still
<1>14. TaskTable' /\ Unstarted'
  <2>1. Row(f)'
    BY <1>1, <1>5, <1>7, <1>8 DEF Row
  <2>2. \A g \in FiberIds \ {f} : Row(g)'
    BY <1>5, <1>7, Facts DEF TaskTable, Row, Still
  <2>3. Unstarted'
    BY <1>1, <1>5, <1>7, Facts DEF Unstarted, Still
  <2> QED
    BY <2>1, <2>2, <2>3 DEF TaskTable
<1>15. Gated'
  <2> SUFFICES ASSUME NEW p \in Procs, p # Task(Of(p)) PROVE PastGate(p)'
    BY <1>5, OfKept DEF Gated
  <2>1. PastGate(p) /\ Of(p) \in FiberIds /\ Of(p)' = Of(p)
    BY <1>5, Facts, OfTyped, OfKept DEF Gated
  <2>2. CASE Of(p) = f
    BY <1>1, <1>5, <1>7, <2>1, <2>2 DEF PastGate, Hot, Teardown
  <2>3. CASE Of(p) # f
    <3>1. p # Task(f)
      BY <1>1, <2>3, Processes
    <3> QED
      BY <1>5, <1>7, <2>1, <2>3, <3>1 DEF PastGate, Rests, Still
  <2> QED
    BY <2>2, <2>3
<1>16. Alone'
  BY <1>1, <1>5, <1>7 DEF Alone, Hot, Closes
<1> QED
  BY <1>3, <1>5, <1>9, <1>10, <1>11, <1>12, <1>13, <1>14, <1>15, <1>16, Facts DEF IInv, Types

\* The body returns: the instance runs.
LEMMA BodyReturnsStep == ASSUME IInv, BodyReturns PROVE IInv'
<1> SUFFICES ASSUME NEW f, f = This PROVE IInv'
  OBVIOUS
<1>1. /\ stack # <<>> /\ f \in FiberIds /\ f = stack[1].fiber /\ state[f] = "LOADING"
      /\ Mounted(f) /\ \A p \in Procs : ~Hot(p)
  BY BodyFacts DEF BodyReturns
<1>2. /\ state' = [state EXCEPT ![f] = "ACTIVE"]
      /\ pc' = [pc EXCEPT ![Task(f)] = IF pc[Task(f)] = "running" THEN "idle" ELSE @]
      /\ stack' = Tail(stack)
      /\ UNCHANGED <<looping, treeVars, error, epoch, config, held, loads, script, scope,
                     waitVars, gate, kids, op, work, bound>>
  BY DEF BodyReturns, InFinish, Return
<1>3. pc[Task(f)] = "running" \/ Still(f)
  BY BodyFacts DEF BodyReturns
<1>4. /\ dirty' = dirty /\ looping' = looping /\ op' = op /\ gate' = gate /\ work' = work
      /\ kids' = kids /\ plugin' = plugin /\ children' = children /\ scope' = scope
      /\ TreeTypes' /\ EpochTypes' /\ WaitTypes' /\ BoundTypes'
      /\ script' \in [FiberIds -> Seq(Steps)]
  BY <1>2, Facts, Kept DEF treeVars, waitVars
<1>5. /\ pc \in [Procs -> Places] /\ Task(f) \in Procs /\ state \in [FiberIds -> States]
      /\ \A p \in Procs \ {Task(f)} : pc'[p] = pc[p]
      /\ \A g \in FiberIds \ {f} : pc'[Task(g)] = pc[Task(g)] /\ state'[g] = state[g]
      /\ state'[f] = "ACTIVE"
  BY <1>1, <1>2, Facts, Processes DEF ProcTypes, LifeTypes
<1>6. pc'[Task(f)] \in {"idle", "raised"}
  BY <1>2, <1>3, <1>5 DEF Still
<1>7. ProcTypes' /\ LifeTypes'
  <2>1. pc' \in [Procs -> Places]
    BY <1>2, <1>5 DEF Places
  <2>2. state' \in [FiberIds -> States]
    BY <1>2, <1>5 DEF States
  <2> QED
    BY <1>2, <1>4, <2>1, <2>2, Facts DEF ProcTypes, LifeTypes
<1>8. /\ stack' \in Seq(Frames) /\ Stacked'
      /\ \A i \in DOMAIN stack' : stack'[i] = stack[i + 1] /\ i + 1 \in DOMAIN stack
  BY <1>1, <1>2, <1>5, <1>6, Popped
<1>9. Enrolled'
  <2>1. UNCHANGED <<plugin, epoch, watch, evaluation, evals, dirty, op>>
    BY <1>2, <1>4 DEF waitVars
  <2>2. \A g \in FiberIds : ~Mounted(g) =>
          /\ state'[g] = state[g] /\ pc'[Task(g)] = pc[Task(g)]
          /\ ~evaluation[g] /\ evals[g] = 0 /\ ~dirty[g]
    BY <1>1, <1>5, Facts DEF Enrolled
  <2>3. \A i \in DOMAIN stack' : Mounted(stack'[i].fiber)
    BY <1>8, Facts DEF Enrolled
  <2> QED
    BY <2>1, <2>2, <2>3, Facts, EnrolledKept DEF Enrolled
<1>10. Lineage'
  BY <1>1, <1>4, <1>5, Facts, Processes, LineageKept
<1>11. Scoped'
  BY <1>3, <1>4, <1>5, Facts, ScopedKept DEF Still
<1>12. TaskTable' /\ Unstarted'
  <2>1. \A g \in FiberIds \ {f} : Row(g)'
    BY <1>4, <1>5, Facts DEF TaskTable, Row, Still
  <2>2. Row(f)'
    BY <1>6 DEF Row, Still
  <2>3. Unstarted'
    BY <1>1, <1>4, <1>5, <1>6, Facts DEF Unstarted, Still
  <2> QED
    BY <2>1, <2>2, <2>3 DEF TaskTable
<1>13. Gated'
  <2> SUFFICES ASSUME NEW p \in Procs, p # Task(Of(p)) PROVE PastGate(p)'
    BY <1>4, OfKept DEF Gated
  <2>1. PastGate(p) /\ Of(p) \in FiberIds /\ Of(p)' = Of(p)
    BY <1>4, Facts, OfTyped, OfKept DEF Gated
  <2>2. CASE Of(p) = f
    BY <1>1, <1>4, <1>5, <2>1, <2>2 DEF PastGate, Hot, Teardown
  <2>3. CASE Of(p) # f
    <3>1. p # Task(f)
      BY <1>1, <2>3, Processes
    <3> QED
      BY <1>4, <1>5, <2>1, <2>3, <3>1 DEF PastGate, Rests, Still
  <2> QED
    BY <2>2, <2>3
<1>14. Alone'
  BY <1>1, <1>4, <1>5, <1>6 DEF Alone, Hot, Closes
<1> QED
  BY <1>4, <1>7, <1>8, <1>9, <1>10, <1>11, <1>12, <1>13, <1>14, Facts DEF IInv, Types

\* What an unwind takes are mounted instances.
LEMMA ReversedMounted ==
  ASSUME IInv, NEW f \in FiberIds
  PROVE  /\ Reverse(children[f]) \in Seq(FiberIds)
         /\ \A i \in DOMAIN Reverse(children[f]) : Mounted(Reverse(children[f])[i])
<1>1. children[f] \in Seq(FiberIds) /\ \A i \in DOMAIN children[f] : Mounted(children[f][i])
  BY Facts DEF TreeTypes, Lineage
<1>2. \A i \in DOMAIN Reverse(children[f]) :
        \E j \in DOMAIN children[f] : Reverse(children[f])[i] = children[f][j]
  BY <1>1 DEF Reverse
<1> QED
  BY <1>1, <1>2, ReversedTyped

\* The body raises: what it took is released, by a task or by _finish itself.
LEMMA BodyRaisesStep == ASSUME IInv, BodyRaises PROVE IInv'
<1> SUFFICES ASSUME NEW f, f = This PROVE IInv'
  OBVIOUS
<1>1. /\ stack # <<>> /\ f \in FiberIds /\ f = stack[1].fiber /\ state[f] = "LOADING"
      /\ Mounted(f) /\ stack[1].do = "body" /\ \A p \in Procs : ~Hot(p)
  BY BodyFacts DEF BodyRaises
<1>2. /\ error' = [error EXCEPT ![f] = TRUE]
      /\ script' = [script EXCEPT ![f] = <<>>]
      /\ \/ /\ pc[Task(f)] = "running"
            /\ pc' = [pc EXCEPT ![Task(f)] = "unwind"]
            /\ kids' = [kids EXCEPT ![Task(f)] = Reverse(children[f])]
            /\ state' = state /\ work' = work
         \/ /\ pc[Task(f)] # "running"
            /\ state' = [state EXCEPT ![f] = "FAILED"]
            /\ work' = [work EXCEPT ![f] = "release"]
            /\ pc' = [pc EXCEPT ![Task(f)] = Scheduled]
            /\ kids' = kids
      /\ stack' = Tail(stack)
      /\ UNCHANGED <<looping, treeVars, epoch, config, held, loads, scope, waitVars,
                     gate, op, bound>>
  BY DEF BodyRaises, InFinish, Return
<1>3. pc[Task(f)] = "running" \/ Still(f)
  BY BodyFacts DEF BodyRaises
<1>4. /\ dirty' = dirty /\ looping' = looping /\ op' = op /\ gate' = gate
      /\ plugin' = plugin /\ children' = children /\ scope' = scope
      /\ TreeTypes' /\ EpochTypes' /\ WaitTypes' /\ BoundTypes'
  BY <1>2, Facts, Kept DEF treeVars, waitVars
<1>5. script' \in [FiberIds -> Seq(Steps)]
  BY <1>1, <1>2, Facts
<1>6. Scheduled \in {"spawned", "held"}
  BY DEF Scheduled
<1>7. /\ pc \in [Procs -> Places] /\ Task(f) \in Procs /\ state \in [FiberIds -> States]
      /\ pc'[Task(f)] \in {"unwind", "spawned", "held"}
      /\ \A p \in Procs \ {Task(f)} : pc'[p] = pc[p] /\ kids'[p] = kids[p]
      /\ \A g \in FiberIds \ {f} :
           pc'[Task(g)] = pc[Task(g)] /\ work'[g] = work[g] /\ state'[g] = state[g]
      /\ state'[f] \in {"LOADING", "FAILED"} /\ {"LOADING", "FAILED"} \subseteq States
  BY <1>1, <1>2, <1>6, Facts, Processes DEF ProcTypes, LifeTypes, States
<1>8. Row(f)'
  <2>1. CASE pc[Task(f)] = "running"
    <3>1. work[f] = "finish"
      BY <1>1, <2>1, Facts DEF TaskTable, Row, Still, Teardown
    <3> QED
      BY <1>1, <1>2, <1>7, <2>1, <3>1 DEF Row, Teardown
  <2>2. CASE pc[Task(f)] # "running"
    <3>1. work'[f] = "release" /\ state'[f] = "FAILED" /\ pc'[Task(f)] \in {"spawned", "held"}
      BY <1>1, <1>2, <1>6, <1>7, <2>2, Facts DEF ProcTypes
    <3> QED
      BY <3>1 DEF Row
  <2> QED
    BY <2>1, <2>2
<1>9. ProcTypes' /\ LifeTypes'
  <2>1. pc' \in [Procs -> Places]
    BY <1>2, <1>6, <1>7 DEF Places
  <2>2. work' \in [FiberIds -> {"none", "unload", "reload", "release", "finish"}]
    BY <1>1, <1>2, Facts DEF ProcTypes
  <2>3. kids' \in [Procs -> Seq(FiberIds)]
    <3>1. Reverse(children[f]) \in Seq(FiberIds) /\ kids \in [Procs -> Seq(FiberIds)]
      BY <1>1, Facts, ReversedMounted DEF ProcTypes
    <3> QED
      BY <1>2, <1>7, <3>1
  <2>4. state' \in [FiberIds -> States]
    BY <1>1, <1>2, <1>7
  <2>5. error' \in [FiberIds -> BOOLEAN]
    BY <1>1, <1>2, Facts DEF LifeTypes
  <2> QED
    BY <1>2, <1>4, <2>1, <2>2, <2>3, <2>4, <2>5, Facts DEF ProcTypes, LifeTypes
<1>10. /\ stack' \in Seq(Frames) /\ Stacked'
       /\ \A i \in DOMAIN stack' : stack'[i] = stack[i + 1] /\ i + 1 \in DOMAIN stack
       /\ pc[Task(f)] = "running" => stack' = <<>>
  BY <1>1, <1>2, <1>7, Popped
<1>11. Enrolled'
  <2>1. UNCHANGED <<plugin, epoch, watch, evaluation, evals, dirty, op>>
    BY <1>2, <1>4 DEF waitVars
  <2>2. \A g \in FiberIds : ~Mounted(g) =>
          /\ state'[g] = state[g] /\ pc'[Task(g)] = pc[Task(g)]
          /\ ~evaluation[g] /\ evals[g] = 0 /\ ~dirty[g]
    BY <1>1, <1>7, Facts DEF Enrolled
  <2>3. \A i \in DOMAIN stack' : Mounted(stack'[i].fiber)
    BY <1>10, Facts DEF Enrolled
  <2> QED
    BY <2>1, <2>2, <2>3, Facts, EnrolledKept DEF Enrolled
<1>12. Lineage'
  <2>1. \A p \in Procs : \A i \in DOMAIN kids'[p] : Mounted(kids'[p][i])
    <3> SUFFICES ASSUME NEW p \in Procs PROVE \A i \in DOMAIN kids'[p] : Mounted(kids'[p][i])
      OBVIOUS
    <3>1. kids'[p] = kids[p] \/ kids'[p] = Reverse(children[f])
      BY <1>1, <1>2, <1>7, Facts DEF ProcTypes
    <3> QED
      BY <1>1, <3>1, Facts, ReversedMounted DEF Lineage
  <2>2. \A g \in FiberIds : pc'[Disposal(g)] = pc[Disposal(g)]
    BY <1>1, <1>7, Processes
  <2> QED
    BY <1>4, <2>1, <2>2, Facts DEF Lineage, Mounted
<1>13. Scoped'
  BY <1>3, <1>4, <1>7, Facts, ScopedKept DEF Still
<1>14. TaskTable' /\ Unstarted'
  <2>1. \A g \in FiberIds \ {f} : Row(g)'
    BY <1>4, <1>7, Facts DEF TaskTable, Row, Still
  <2>2. Unstarted'
    BY <1>1, <1>4, <1>7, Facts DEF Unstarted, Still
  <2> QED
    BY <1>8, <2>1, <2>2 DEF TaskTable
<1>15. Gated'
  <2> SUFFICES ASSUME NEW p \in Procs, p # Task(Of(p)) PROVE PastGate(p)'
    BY <1>4, OfKept DEF Gated
  <2>1. PastGate(p) /\ Of(p) \in FiberIds /\ Of(p)' = Of(p)
    BY <1>4, Facts, OfTyped, OfKept DEF Gated
  <2>2. CASE Of(p) = f
    BY <1>1, <1>4, <1>7, <2>1, <2>2 DEF PastGate, Hot, Teardown
  <2>3. CASE Of(p) # f
    <3>1. p # Task(f)
      BY <1>1, <2>3, Processes
    <3> QED
      BY <1>4, <1>7, <2>1, <2>3, <3>1 DEF PastGate, Rests, Still
  <2> QED
    BY <2>2, <2>3
<1>16. Alone'
  <2>1. \A p \in Procs \ {Task(f)} : ~Hot(p)'
    BY <1>1, <1>7 DEF Hot, Closes
  <2>2. Hot(Task(f))' => pc[Task(f)] = "running"
    BY <1>2, <1>6, <1>7 DEF Hot, Closes
  <2> QED
    BY <1>10, <2>1, <2>2 DEF Alone
<1> QED
  BY <1>4, <1>5, <1>9, <1>10, <1>11, <1>12, <1>13, <1>14, <1>15, <1>16, Facts DEF IInv, Types

----------------------------------------------------------------------------
(* A process tears down *)

\* Nobody else is in the middle of its turn.
Sole(p) == stack = <<>> /\ \A q \in Procs : Hot(q) => q = p

\* One process at a time tears an instance down.
LEMMA OnlyOne ==
  ASSUME IInv, NEW p \in Procs, NEW q \in Procs, Of(p) = Of(q),
         pc[p] \in Teardown, pc[q] \in Teardown
  PROVE  p = q
<1>1. p # Task(Of(p)) => gate[Of(p)] = p /\ Still(Of(p))
  BY Facts DEF Gated, PastGate
<1>2. q # Task(Of(q)) => gate[Of(q)] = q /\ Still(Of(q))
  BY Facts DEF Gated, PastGate
<1> QED
  BY <1>1, <1>2 DEF Still, Teardown

\* The state of an instance that is being torn down.
LEMMA TornDown ==
  ASSUME IInv, NEW p \in Procs, pc[p] \in Teardown
  PROVE  /\ Of(p) \in FiberIds /\ Mounted(Of(p))
         /\ state[Of(p)] \in {"UNLOADING", "FAILED", "LOADING"}
         /\ p = Task(Of(p)) \/ (Still(Of(p)) /\ state[Of(p)] = "UNLOADING" /\ gate[Of(p)] = p)
<1>1. Of(p) \in FiberIds
  BY Facts, OfTyped
<1>2. CASE p = Task(Of(p))
  BY <1>1, <1>2, Facts DEF TaskTable, Row, Still, Teardown, Enrolled
<1>3. CASE p # Task(Of(p))
  BY <1>1, <1>3, Facts DEF Gated, PastGate, Enrolled
<1> QED
  BY <1>1, <1>2, <1>3

\* What a step of the process that tears f down keeps, whether it goes on, raises
\* or comes to its end.
LEMMA Tearing ==
  ASSUME IInv, NEW p \in Procs, NEW f, f = Of(p), pc[p] \in Teardown, Sole(p),
         op' = op, work' = work, looping' = looping,
         \A q \in Procs \ {p} :
           /\ \/ pc'[q] = pc[q]
              \/ Of(q) = f /\ pc'[q] = "raised" /\ pc[q] \in {"quiet", "settle"}
           /\ pc'[q] = pc[q] /\ pc[q] # "raised" /\ gate[Of(q)] = q => gate'[Of(q)] = q
           /\ kids'[q] = kids[q],
         \A g \in FiberIds \ {f} : state'[g] = state[g],
         \A g \in FiberIds : dirty'[g] => dirty[g] \/ ~looping,
         \/ /\ pc'[p] \in Teardown /\ state'[f] = state[f]
            /\ gate'[f] = gate[f] /\ stack' = <<>>
         \/ /\ pc'[p] \in {"idle", "raised", "settle", "done"}
            /\ p = Task(f) => pc'[p] \in {"idle", "raised"}
  PROVE  /\ f \in FiberIds /\ Mounted(f)
         /\ TaskTable' /\ Gated' /\ Unstarted'
         /\ (pc'[p] \notin Teardown => Alone')
         /\ (stack' = <<>> => Alone')
         /\ \A g \in FiberIds : pc'[Task(g)] # "running"
         /\ pc'[p] \in Teardown \/ Still(f)'
         /\ \A g \in FiberIds : ~Mounted(g) =>
              /\ state'[g] = state[g] /\ pc'[Task(g)] = pc[Task(g)]
              /\ pc'[Disposal(g)] = pc[Disposal(g)]
<1>1. /\ f \in FiberIds /\ Mounted(f) /\ state[f] \in {"UNLOADING", "FAILED", "LOADING"}
      /\ p = Task(f) \/ (Still(f) /\ state[f] = "UNLOADING" /\ gate[f] = p)
  BY TornDown
<1>2. \A q \in Procs \ {p} : Of(q) = f => pc[q] \notin Teardown \cup {"through"}
  BY OnlyOne DEF Sole, Hot
<1>3. /\ stack = <<>> /\ \A q \in Procs \ {p} : ~Hot(q)
      /\ \A g \in FiberIds : pc[Task(g)] # "running"
  BY Facts DEF Sole, Stacked, Finishing
<1>4. \A q \in Procs : Of(q)' = Of(q) /\ Of(q) \in FiberIds
  BY Facts, OfKept, OfTyped
<1>5. \A g \in FiberIds \ {f} : pc'[Task(g)] = pc[Task(g)] /\ pc'[Disposal(g)] = pc[Disposal(g)]
  BY <1>1, Processes
<1>6. p = Task(f) \/ (p # Task(f) /\ Still(f)')
  <2>1. CASE p # Task(f)
    <3>1. Task(f) \in Procs \ {p} /\ pc[Task(f)] \in {"idle", "raised"}
      BY <1>1, <2>1, Processes DEF Still
    <3> QED
      BY <2>1, <3>1 DEF Still
  <2> QED
    BY <2>1
<1>7. pc'[p] \in Teardown \/ Still(f)'
  BY <1>6 DEF Still, Teardown
<1>8. TaskTable'
  <2>1. \A g \in FiberIds \ {f} : Row(g)'
    BY <1>5, Facts DEF TaskTable, Row, Still
  <2>2. Row(f)'
    <3>1. CASE p = Task(f) /\ pc'[p] \in Teardown /\ state'[f] = state[f]
      BY <1>1, <3>1, Facts DEF TaskTable, Row, Still, Teardown
    <3>2. CASE Still(f)'
      BY <3>2 DEF Row
    <3> QED
      BY <1>6, <3>1, <3>2 DEF Still
  <2> QED
    BY <2>1, <2>2 DEF TaskTable
<1>9. Gated'
  <2> SUFFICES ASSUME NEW q \in Procs, q # Task(Of(q)) PROVE PastGate(q)'
    BY <1>4 DEF Gated
  <2>1. PastGate(q)
    BY Facts DEF Gated
  <2>2. CASE q = p
    <3>1. Still(f)'
      BY <1>6, <2>2
    <3> QED
      BY <1>1, <1>4, <2>1, <2>2, <3>1 DEF PastGate, Teardown
  <2>3. CASE q # p /\ Of(q) = f
    BY <1>2, <1>4, <2>1, <2>3 DEF PastGate, Teardown
  <2>4. CASE q # p /\ Of(q) # f
    <3>1. /\ pc'[q] = pc[q] /\ state'[Of(q)] = state[Of(q)] /\ (gate[Of(q)] = q => gate'[Of(q)] = q \/ pc[q] = "raised")
          /\ pc'[Task(Of(q))] = pc[Task(Of(q))]
      BY <1>4, <1>5, <2>4
    <3> QED
      BY <1>4, <2>1, <3>1 DEF PastGate, Rests, Still, Teardown
  <2> QED
    BY <2>2, <2>3, <2>4
<1>10. Unstarted'
  <2> SUFFICES ASSUME NEW g \in FiberIds, ~looping \/ dirty'[g], state'[g] \in {"PENDING", "ACTIVE"}
               PROVE  Still(g)'
    BY DEF Unstarted
  <2>1. CASE g = f
    BY <1>1, <1>7, <2>1 DEF Teardown
  <2>2. CASE g # f
    BY <1>5, <2>2, Facts DEF Unstarted, Still
  <2> QED
    BY <2>1, <2>2
<1>11. \A q \in Procs \ {p} : ~Hot(q)'
  BY <1>3 DEF Hot, Closes
<1>12. /\ (pc'[p] \notin Teardown => Alone')
       /\ (stack' = <<>> => Alone')
  BY <1>11 DEF Alone, Hot, Closes, Teardown
<1>13. \A g \in FiberIds : pc'[Task(g)] # "running"
  <2>1. \A g \in FiberIds : pc'[Task(g)] = pc[Task(g)] \/ pc'[Task(g)] = "raised" \/ Task(g) = p
    BY Processes
  <2> QED
    BY <1>3, <2>1 DEF Teardown
<1>14. \A g \in FiberIds : ~Mounted(g) =>
         /\ state'[g] = state[g] /\ pc'[Task(g)] = pc[Task(g)]
         /\ pc'[Disposal(g)] = pc[Disposal(g)]
  BY <1>1, <1>5
<1> QED
  BY <1>1, <1>7, <1>8, <1>9, <1>10, <1>12, <1>13, <1>14

\* A disposer raises, or whoever unwinds is cancelled.
LEMMA Raising ==
  ASSUME IInv, NEW p \in Procs, NEW f, f = Of(p), Raise(p)
  PROVE  /\ pc' \in [Procs -> Places] /\ gate' \in [FiberIds -> Procs \cup {None}]
         /\ evals' \in [FiberIds -> Nat]
         /\ pc'[p] = "raised"
         /\ \A q \in Procs \ {p} :
              /\ \/ pc'[q] = pc[q]
                 \/ Of(q) = f /\ pc'[q] = "raised" /\ pc[q] \in {"quiet", "settle"}
              /\ pc'[q] = pc[q] /\ pc[q] # "raised" /\ gate[Of(q)] = q => gate'[Of(q)] = q
         /\ \A g \in FiberIds : ~Mounted(g) => evals'[g] = 0
<1>1. f \in FiberIds /\ \A q \in Procs : Of(q) \in FiberIds
  BY Facts, OfTyped
<1>2. Hit(p) \subseteq {p} \cup {q \in Procs : Of(q) = f /\ pc[q] \in {"quiet", "settle"}} /\ p \in Hit(p)
  BY DEF Hit
<1>3. /\ pc' = [x \in Procs |-> IF x \in Hit(p) THEN "raised" ELSE pc[x]]
      /\ gate' = [gate EXCEPT ![f] = IF gate[f] \in Hit(p) THEN None ELSE gate[f]]
      /\ evals' = [evals EXCEPT ![f] = IF p = Task(f) THEN 0 ELSE evals[f]]
  BY DEF Raise
<1> HIDE DEF Hit
<1>4. /\ pc \in [Procs -> Places] /\ gate \in [FiberIds -> Procs \cup {None}]
      /\ evals \in [FiberIds -> Nat] /\ "raised" \in Places
  BY Facts DEF ProcTypes, WaitTypes, Places
<1>5. pc' \in [Procs -> Places] /\ pc'[p] = "raised"
  BY <1>2, <1>3, <1>4
<1>6. gate' \in [FiberIds -> Procs \cup {None}] /\ evals' \in [FiberIds -> Nat]
  BY <1>1, <1>3, <1>4
<1>7. ASSUME NEW q \in Procs \ {p}
      PROVE  /\ \/ pc'[q] = pc[q]
                \/ Of(q) = f /\ pc'[q] = "raised" /\ pc[q] \in {"quiet", "settle"}
             /\ pc'[q] = pc[q] /\ pc[q] # "raised" /\ gate[Of(q)] = q => gate'[Of(q)] = q
  <2>1. CASE q \in Hit(p)
    BY <1>2, <1>3, <2>1
  <2>2. CASE q \notin Hit(p)
    <3>1. gate[Of(q)] = q => gate'[Of(q)] = q
      BY <1>1, <1>3, <1>4, <2>2
    <3> QED
      BY <1>3, <2>2, <3>1
  <2> QED
    BY <2>1, <2>2
<1>8. \A g \in FiberIds : ~Mounted(g) => evals'[g] = 0
  <2>1. \A g \in FiberIds : evals'[g] = evals[g] \/ evals'[g] = 0
    BY <1>1, <1>3, <1>4
  <2> QED
    BY <2>1, Facts DEF Enrolled
<1> QED
  BY <1>5, <1>6, <1>7, <1>8

\* Nothing runs.
LEMMA StackEmpty ==
  ASSUME stack = <<>>, stack' = stack, \A f \in FiberIds : pc'[Task(f)] # "running"
  PROVE  stack' = <<>> /\ stack' \in Seq(Frames) /\ Stacked' /\ \A i \in DOMAIN stack' : FALSE
<1>1. stack' = <<>>
  OBVIOUS
<1> QED
  BY <1>1, NothingRuns

\* The scope of the load is closed.
LEMMA CloseScopeStep == ASSUME IInv, NEW p \in Procs, Sole(p), CloseScope(p) PROVE IInv'
<1> SUFFICES ASSUME NEW f, f = Of(p) PROVE IInv'
  OBVIOUS
<1>1. pc[p] = "unwind" /\ pc[p] \in Teardown /\ stack = <<>>
  BY DEF CloseScope, Closes, Teardown, Sole
<1>2. /\ children' = [children EXCEPT ![f] = <<>>]
      /\ CASE scope[f] = "open" ->
                   /\ scope' = [scope EXCEPT ![f] = "closing"]
                   /\ pc' = [pc EXCEPT ![p] = "scope"]
                   /\ UNCHANGED <<gate, evals>>
              [] scope[f] = "closed" ->
                   /\ pc' = [pc EXCEPT ![p] = "emptied"]
                   /\ UNCHANGED <<scope, gate, evals>>
              [] scope[f] = "broken" -> Raise(p) /\ UNCHANGED scope
      /\ UNCHANGED <<looping, stack, plugin, parent, state, error, epoch, config, held,
                     loads, script, evaluation, watch, dirty, kids, op, work, bound>>
  BY DEF CloseScope
<1>3. f \in FiberIds /\ Mounted(f)
  BY <1>1, TornDown
<1>4. scope[f] \in {"open", "closed", "broken"}
  <2>1. scope[f] \in {"none", "open", "closing", "closed", "broken"} /\ scope[f] # "none"
    BY <1>3, Facts DEF LifeTypes, Scoped
  <2>2. scope[f] # "closing"
    <3> SUFFICES ASSUME scope[f] = "closing" PROVE FALSE
      OBVIOUS
    <3>1. PICK q \in Procs : Of(q) = f /\ pc[q] = "scope"
      BY <1>3, Facts DEF Scoped
    <3>2. q = p
      BY <1>1, <3>1, OnlyOne DEF Teardown
    <3> QED
      BY <1>1, <3>1, <3>2
  <2> QED
    BY <2>1, <2>2
<1>5. \/ /\ pc' = [pc EXCEPT ![p] = "scope"] /\ gate' = gate /\ evals' = evals
         /\ scope' = [scope EXCEPT ![f] = "closing"]
      \/ /\ pc' = [pc EXCEPT ![p] = "emptied"] /\ gate' = gate /\ evals' = evals
         /\ scope' = scope
      \/ Raise(p) /\ scope' = scope
  BY <1>2, <1>4
<1>6. /\ pc' \in [Procs -> Places] /\ gate' \in [FiberIds -> Procs \cup {None}]
      /\ evals' \in [FiberIds -> Nat]
      /\ (pc'[p] \in {"scope", "emptied"} /\ gate' = gate) \/ pc'[p] = "raised"
      /\ \A q \in Procs \ {p} :
           /\ \/ pc'[q] = pc[q]
              \/ Of(q) = f /\ pc'[q] = "raised" /\ pc[q] \in {"quiet", "settle"}
           /\ pc'[q] = pc[q] /\ pc[q] # "raised" /\ gate[Of(q)] = q => gate'[Of(q)] = q
      /\ \A g \in FiberIds : ~Mounted(g) => evals'[g] = 0
  <2>1. CASE Raise(p)
    BY <2>1, Raising
  <2>2. CASE ~Raise(p)
    <3>1. /\ \/ pc' = [pc EXCEPT ![p] = "scope"]
             \/ pc' = [pc EXCEPT ![p] = "emptied"]
          /\ gate' = gate /\ evals' = evals
      BY <1>5, <2>2
    <3>2. pc \in [Procs -> Places] /\ "scope" \in Places /\ "emptied" \in Places
      BY Facts DEF ProcTypes, Places
    <3>3. /\ pc' \in [Procs -> Places] /\ pc'[p] \in {"scope", "emptied"}
          /\ \A q \in Procs \ {p} : pc'[q] = pc[q]
      BY <3>1, <3>2
    <3>4. /\ gate' \in [FiberIds -> Procs \cup {None}] /\ evals' \in [FiberIds -> Nat]
          /\ \A g \in FiberIds : ~Mounted(g) => evals'[g] = 0
      BY <3>1, Facts DEF ProcTypes, WaitTypes, Enrolled
    <3> QED
      BY <3>1, <3>3, <3>4
  <2> QED
    BY <2>1, <2>2
<1>7. /\ op' = op /\ work' = work /\ looping' = looping /\ kids' = kids /\ state' = state
      /\ dirty' = dirty /\ stack' = <<>> /\ plugin' = plugin /\ epoch' = epoch
      /\ evaluation' = evaluation /\ watch' = watch
  BY <1>1, <1>2
<1>8. /\ TaskTable' /\ Gated' /\ Unstarted' /\ Alone'
      /\ \A g \in FiberIds : pc'[Task(g)] # "running"
      /\ \A g \in FiberIds : ~Mounted(g) =>
           /\ state'[g] = state[g] /\ pc'[Task(g)] = pc[Task(g)]
           /\ pc'[Disposal(g)] = pc[Disposal(g)]
  BY <1>1, <1>6, <1>7, Tearing DEF Teardown
<1>9. stack' \in Seq(Frames) /\ Stacked' /\ \A i \in DOMAIN stack' : FALSE
  BY <1>1, <1>7, <1>8, StackEmpty
<1>10. TreeTypes' /\ \A g \in FiberIds : children'[g] = children[g] \/ children'[g] = <<>>
  BY <1>2, <1>3, Facts DEF TreeTypes
<1>11. LifeTypes'
  <2>1. scope' \in [FiberIds -> {"none", "open", "closing", "closed", "broken"}]
    BY <1>5, Facts DEF LifeTypes
  <2> QED
    BY <1>2, <2>1, Facts DEF LifeTypes
<1>12. EpochTypes' /\ BoundTypes' /\ script' \in [FiberIds -> Seq(Steps)] /\ looping' \in BOOLEAN
  BY <1>2, Facts, Kept
<1>13. WaitTypes' /\ ProcTypes'
  BY <1>6, <1>7, Facts DEF WaitTypes, ProcTypes
<1>14. Enrolled'
  <2>1. \A g \in FiberIds : ~Mounted(g) => ~evaluation[g] /\ ~dirty[g]
    BY Facts DEF Enrolled
  <2>2. \A o \in Ops : Mounted(op[o].fiber)
    BY Facts DEF Enrolled
  <2> QED
    BY <1>6, <1>7, <1>8, <1>9, <2>1, <2>2, Facts, EnrolledKept
<1>15. Lineage'
  BY <1>7, <1>8, <1>10, Facts DEF Lineage, Mounted
<1>16. Scoped'
  <2>1. \A q \in Procs \ {p} : Of(q)' = Of(q) /\ (pc[q] = "scope" => pc'[q] = "scope")
    BY <1>6, <1>7, OfKept
  <2>2. \A g \in FiberIds : Mounted(g)' <=> Mounted(g)
    BY <1>7 DEF Mounted
  <2>3. CASE scope' = scope
    BY <1>1, <1>7, <2>1, <2>3, Facts DEF Scoped, Mounted
  <2>4. CASE scope' = [scope EXCEPT ![f] = "closing"] /\ pc' = [pc EXCEPT ![p] = "scope"]
    <3>1. scope'[f] = "closing" /\ \A g \in FiberIds \ {f} : scope'[g] = scope[g]
      BY <1>3, <2>4, Facts DEF LifeTypes
    <3>2. Of(p)' = f /\ pc'[p] = "scope"
      BY <1>7, <2>4, Facts, OfKept DEF ProcTypes
    <3> QED
      BY <1>1, <1>7, <2>1, <3>1, <3>2, Facts DEF Scoped, Mounted
  <2> QED
    BY <1>5, <2>3, <2>4
<1> QED
  BY <1>8, <1>9, <1>10, <1>11, <1>12, <1>13, <1>14, <1>15, <1>16 DEF IInv, Types

\* The disposal of a child raises, and so does the unwind.
LEMMA ChildRaisedStep == ASSUME IInv, NEW p \in Procs, Sole(p), ChildRaised(p) PROVE IInv'
<1> SUFFICES ASSUME NEW f, f = Of(p) PROVE IInv'
  OBVIOUS
<1>1. pc[p] = "unwind" /\ pc[p] \in Teardown /\ stack = <<>>
  BY DEF ChildRaised, Teardown, Sole
<1>2. /\ Raise(p)
      /\ UNCHANGED <<looping, stack, treeVars, lifeVars, evaluation, watch, dirty,
                     kids, op, work, bound>>
  BY DEF ChildRaised
<1>3. /\ pc' \in [Procs -> Places] /\ gate' \in [FiberIds -> Procs \cup {None}]
      /\ evals' \in [FiberIds -> Nat] /\ pc'[p] = "raised"
      /\ \A q \in Procs \ {p} :
           /\ \/ pc'[q] = pc[q]
              \/ Of(q) = f /\ pc'[q] = "raised" /\ pc[q] \in {"quiet", "settle"}
           /\ pc'[q] = pc[q] /\ pc[q] # "raised" /\ gate[Of(q)] = q => gate'[Of(q)] = q
      /\ \A g \in FiberIds : ~Mounted(g) => evals'[g] = 0
  BY <1>2, Raising
<1>4. /\ op' = op /\ work' = work /\ looping' = looping /\ kids' = kids /\ state' = state
      /\ dirty' = dirty /\ stack' = <<>> /\ plugin' = plugin /\ epoch' = epoch
      /\ evaluation' = evaluation /\ watch' = watch /\ children' = children /\ scope' = scope
  BY <1>1, <1>2 DEF treeVars, lifeVars
<1>5. /\ TaskTable' /\ Gated' /\ Unstarted' /\ Alone'
      /\ \A g \in FiberIds : pc'[Task(g)] # "running"
      /\ \A g \in FiberIds : ~Mounted(g) =>
           /\ state'[g] = state[g] /\ pc'[Task(g)] = pc[Task(g)]
           /\ pc'[Disposal(g)] = pc[Disposal(g)]
  BY <1>1, <1>3, <1>4, Tearing DEF Teardown
<1>6. stack' \in Seq(Frames) /\ Stacked' /\ \A i \in DOMAIN stack' : FALSE
  BY <1>1, <1>4, <1>5, StackEmpty
<1>7. TreeTypes' /\ LifeTypes' /\ EpochTypes' /\ BoundTypes'
      /\ script' \in [FiberIds -> Seq(Steps)] /\ looping' \in BOOLEAN
  BY <1>2, Facts, Kept DEF treeVars, lifeVars
<1>8. WaitTypes' /\ ProcTypes'
  BY <1>3, <1>4, Facts DEF WaitTypes, ProcTypes
<1>9. Enrolled'
  <2>1. \A g \in FiberIds : ~Mounted(g) => ~evaluation[g] /\ ~dirty[g]
    BY Facts DEF Enrolled
  <2>2. \A o \in Ops : Mounted(op[o].fiber)
    BY Facts DEF Enrolled
  <2> QED
    BY <1>3, <1>4, <1>5, <1>6, <2>1, <2>2, Facts, EnrolledKept
<1>10. Lineage'
  BY <1>4, <1>5, Facts, LineageKept
<1>11. Scoped'
  BY <1>1, <1>3, <1>4, Facts, ScopedKept
<1> QED
  BY <1>5, <1>6, <1>7, <1>8, <1>9, <1>10, <1>11 DEF IInv, Types

\* A child is gone: the next.
LEMMA ChildDisposedStep == ASSUME IInv, NEW p \in Procs, Sole(p), ChildDisposed(p) PROVE IInv'
<1> SUFFICES ASSUME NEW f, f = Of(p) PROVE IInv'
  OBVIOUS
<1>1. pc[p] = "unwind" /\ pc[p] \in Teardown /\ stack = <<>> /\ kids[p] # <<>>
  BY DEF ChildDisposed, Teardown, Sole
<1>2. /\ kids' = [kids EXCEPT ![p] = Tail(kids[p])]
      /\ UNCHANGED <<looping, stack, treeVars, lifeVars, waitVars, gate, pc, op, work, bound>>
  BY DEF ChildDisposed
<1>3. kids \in [Procs -> Seq(FiberIds)]
  BY Facts DEF ProcTypes
<1>4. /\ op' = op /\ work' = work /\ looping' = looping /\ state' = state
      /\ dirty' = dirty /\ stack' = <<>> /\ plugin' = plugin /\ epoch' = epoch
      /\ evaluation' = evaluation /\ watch' = watch /\ evals' = evals
      /\ children' = children /\ scope' = scope /\ pc' = pc /\ gate' = gate
      /\ \A q \in Procs \ {p} : kids'[q] = kids[q]
  BY <1>1, <1>2, <1>3 DEF treeVars, lifeVars, waitVars
<1>5. /\ TaskTable' /\ Gated' /\ Unstarted' /\ Alone'
      /\ \A g \in FiberIds : pc'[Task(g)] # "running"
  BY <1>1, <1>4, Tearing
<1>6. stack' \in Seq(Frames) /\ Stacked' /\ \A i \in DOMAIN stack' : FALSE
  BY <1>1, <1>4, <1>5, StackEmpty
<1>7. TreeTypes' /\ LifeTypes' /\ EpochTypes' /\ WaitTypes' /\ BoundTypes'
      /\ script' \in [FiberIds -> Seq(Steps)] /\ looping' \in BOOLEAN
  BY <1>2, Facts, Kept DEF treeVars, lifeVars
<1>8. ProcTypes'
  <2>1. Tail(kids[p]) \in Seq(FiberIds)
    BY <1>1, <1>3
  <2>2. kids' \in [Procs -> Seq(FiberIds)]
    BY <1>2, <1>3, <2>1
  <2> QED
    BY <1>4, <2>2, Facts DEF ProcTypes
<1>9. Enrolled'
  BY <1>4, <1>6, Facts DEF Enrolled, Mounted
<1>10. Lineage'
  <2>1. \A q \in Procs : \A i \in DOMAIN kids'[q] : Mounted(kids'[q][i])
    <3>1. ASSUME NEW i \in DOMAIN kids'[p] PROVE Mounted(kids'[p][i])
      <4>1. kids'[p] = Tail(kids[p]) /\ kids[p] \in Seq(FiberIds)
        BY <1>2, <1>3
      <4>2. i + 1 \in DOMAIN kids[p] /\ kids'[p][i] = kids[p][i + 1]
        BY <1>1, <3>1, <4>1
      <4> QED
        BY <4>2, Facts DEF Lineage
    <3> QED
      BY <1>4, <3>1, Facts DEF Lineage
  <2> QED
    BY <1>4, <2>1, Facts DEF Lineage, Mounted
<1>11. Scoped'
  BY <1>4, Facts, ScopedKept
<1> QED
  BY <1>5, <1>6, <1>7, <1>8, <1>9, <1>10, <1>11 DEF IInv, Types

\* The scope is unwound: the bindings of the instance are withdrawn.
LEMMA ReleaseScopeStep == ASSUME IInv, NEW p \in Procs, Sole(p), ReleaseScope(p) PROVE IInv'
<1> SUFFICES ASSUME NEW f, f = Of(p) PROVE IInv'
  OBVIOUS
<1>1. pc[p] = "scope" /\ pc[p] \in Teardown /\ stack = <<>>
  BY DEF ReleaseScope, Teardown, Sole
<1> DEFINE nested == {g \in Below(f) : scope[g] = "open"}
           names  == {n \in Names : bound[n] # None /\ bound[n][1] \in {f} \cup nested}
<1>17. /\ bound' = [n \in Names |-> IF n \in names THEN None ELSE bound[n]]
       /\ Announce(names)
       /\ \E raises \in {FALSE, MayRaise} :
            /\ scope' = [g \in FiberIds |->
                           IF g = f /\ raises THEN "broken"
                           ELSE IF g \in {f} \cup nested THEN "closed" ELSE scope[g]]
            /\ IF raises THEN Raise(p)
               ELSE /\ pc' = [pc EXCEPT ![p] = "released"]
                    /\ UNCHANGED <<gate, evals>>
  BY DEF ReleaseScope
<1> HIDE DEF nested, names
<1>2. PICK raises \in {FALSE, MayRaise} :
        /\ bound' = [n \in Names |-> IF n \in names THEN None ELSE bound[n]]
        /\ Announce(names)
        /\ scope' = [g \in FiberIds |->
                       IF g = f /\ raises THEN "broken"
                       ELSE IF g \in {f} \cup nested THEN "closed" ELSE scope[g]]
        /\ IF raises THEN Raise(p)
           ELSE /\ pc' = [pc EXCEPT ![p] = "released"]
                /\ UNCHANGED <<gate, evals>>
  BY <1>17
<1>3. UNCHANGED <<looping, stack, treeVars, state, error, epoch, config, held, loads,
                  script, watch, kids, op, work>>
  BY DEF ReleaseScope
<1>4. f \in FiberIds /\ Mounted(f)
  BY <1>1, TornDown
<1>5. /\ op' = op /\ work' = work /\ looping' = looping /\ kids' = kids /\ state' = state
      /\ stack' = <<>> /\ plugin' = plugin /\ epoch' = epoch
      /\ watch' = watch /\ children' = children
  BY <1>1, <1>3 DEF treeVars
<1>6. /\ evaluation' \in [FiberIds -> BOOLEAN] /\ dirty' \in [FiberIds -> BOOLEAN]
      /\ \A g \in FiberIds : ~Mounted(g) => ~evaluation'[g] /\ ~dirty'[g]
      /\ \A g \in FiberIds : dirty'[g] => dirty[g] \/ ~looping
  BY <1>2, Announced
<1>7. /\ pc' \in [Procs -> Places] /\ gate' \in [FiberIds -> Procs \cup {None}]
      /\ evals' \in [FiberIds -> Nat]
      /\ (pc'[p] = "released" /\ gate' = gate) \/ pc'[p] = "raised"
      /\ \A q \in Procs \ {p} :
           /\ \/ pc'[q] = pc[q]
              \/ Of(q) = f /\ pc'[q] = "raised" /\ pc[q] \in {"quiet", "settle"}
           /\ pc'[q] = pc[q] /\ pc[q] # "raised" /\ gate[Of(q)] = q => gate'[Of(q)] = q
      /\ \A g \in FiberIds : ~Mounted(g) => evals'[g] = 0
  <2>1. CASE raises
    BY <1>2, <2>1, Raising
  <2>2. CASE ~raises
    <3>1. pc' = [pc EXCEPT ![p] = "released"] /\ gate' = gate /\ evals' = evals
      BY <1>2, <2>2
    <3>2. pc \in [Procs -> Places] /\ "released" \in Places
      BY Facts DEF ProcTypes, Places
    <3>3. /\ pc' \in [Procs -> Places] /\ pc'[p] = "released"
          /\ \A q \in Procs \ {p} : pc'[q] = pc[q]
      BY <3>1, <3>2
    <3>4. /\ gate' \in [FiberIds -> Procs \cup {None}] /\ evals' \in [FiberIds -> Nat]
          /\ \A g \in FiberIds : ~Mounted(g) => evals'[g] = 0
      BY <3>1, Facts DEF ProcTypes, WaitTypes, Enrolled
    <3> QED
      BY <3>1, <3>3, <3>4
  <2> QED
    BY <2>1, <2>2
<1>8. /\ TaskTable' /\ Gated' /\ Unstarted' /\ Alone'
      /\ \A g \in FiberIds : pc'[Task(g)] # "running"
      /\ \A g \in FiberIds : ~Mounted(g) =>
           /\ state'[g] = state[g] /\ pc'[Task(g)] = pc[Task(g)]
           /\ pc'[Disposal(g)] = pc[Disposal(g)]
  BY <1>1, <1>5, <1>6, <1>7, Tearing DEF Teardown
<1>9. stack' \in Seq(Frames) /\ Stacked' /\ \A i \in DOMAIN stack' : FALSE
  BY <1>1, <1>5, <1>8, StackEmpty
<1>10. LifeTypes'
  <2>1. scope' \in [FiberIds -> {"none", "open", "closing", "closed", "broken"}]
    BY <1>2, Facts DEF LifeTypes
  <2> QED
    BY <1>3, <2>1, Facts DEF LifeTypes
<1>11. TreeTypes' /\ EpochTypes' /\ script' \in [FiberIds -> Seq(Steps)] /\ looping' \in BOOLEAN
  BY <1>3, <1>5, Facts, Kept
<1>12. BoundTypes'
  BY <1>2, Facts DEF BoundTypes
<1>13. WaitTypes' /\ ProcTypes'
  BY <1>5, <1>6, <1>7, Facts DEF WaitTypes, ProcTypes
<1>14. Enrolled'
  <2>1. \A o \in Ops : Mounted(op[o].fiber)
    BY Facts DEF Enrolled
  <2> QED
    BY <1>5, <1>6, <1>7, <1>8, <1>9, <2>1, Facts, EnrolledKept
<1>15. Lineage'
  BY <1>5, <1>8, Facts, LineageKept
<1>16. Scoped'
  <2>1. \A q \in Procs \ {p} : Of(q)' = Of(q) /\ (pc[q] = "scope" => pc'[q] = "scope")
    BY <1>5, <1>7, OfKept
  <2>2. scope'[f] # "closing" /\ scope'[f] # "none"
    BY <1>2, <1>4
  <2>3. ASSUME NEW g \in FiberIds \ {f}
        PROVE  scope'[g] # scope[g] => scope'[g] = "closed"
    BY <1>2, <1>4
  <2>4. \A g \in FiberIds : scope'[g] = "closing" => \E q \in Procs : Of(q)' = g /\ pc'[q] = "scope"
    <3> SUFFICES ASSUME NEW g \in FiberIds, scope'[g] = "closing"
                 PROVE  \E q \in Procs : Of(q)' = g /\ pc'[q] = "scope"
      OBVIOUS
    <3>1. g # f /\ scope[g] = "closing"
      BY <2>2, <2>3
    <3>2. PICK q \in Procs : Of(q) = g /\ pc[q] = "scope"
      BY <3>1, Facts DEF Scoped
    <3> QED
      BY <2>1, <3>1, <3>2
  <2>5. \A g \in FiberIds : Mounted(g) => scope'[g] # "none"
    BY <2>2, <2>3, Facts DEF Scoped
  <2> QED
    BY <1>5, <2>4, <2>5 DEF Scoped, Mounted
<1> QED
  BY <1>8, <1>9, <1>10, <1>11, <1>12, <1>13, <1>14, <1>15, <1>16 DEF IInv, Types

\* The end of an unload, of a release or of a failed body: what the three tasks
\* that may come to it have in common.
LEMMA Landing ==
  ASSUME IInv, NEW p \in Procs, NEW f, f = Of(p), Sole(p), pc[p] \in {"released", "emptied"},
         pc' \in [Procs -> Places], gate' \in [FiberIds -> Procs \cup {None}],
         evals' \in [FiberIds -> Nat],
         \A q \in Procs \ {p} :
           /\ \/ pc'[q] = pc[q]
              \/ Of(q) = f /\ pc'[q] = "raised" /\ pc[q] \in {"quiet", "settle"}
           /\ pc'[q] = pc[q] /\ pc[q] # "raised" /\ gate[Of(q)] = q => gate'[Of(q)] = q,
         \A g \in FiberIds : ~Mounted(g) => evals'[g] = 0,
         pc'[p] \in {"idle", "raised", "settle", "done"},
         p = Task(f) => pc'[p] \in {"idle", "raised"},
         state' \in [FiberIds -> States], \A g \in FiberIds \ {f} : state'[g] = state[g],
         scope' = scope \/ scope' = [scope EXCEPT ![f] = "open"],
         \/ stack' = <<>>
         \/ stack' = <<[do |-> "evaluate", fiber |-> f]>> \o <<>> /\ state'[f] = "PENDING",
         children' \in [FiberIds -> Seq(FiberIds)],
         \A g \in FiberIds : \A i \in DOMAIN children'[g] : Mounted(children'[g][i]),
         UNCHANGED <<looping, plugin, parent, error, epoch, config, held, loads,
                     script, evaluation, watch, dirty, kids, op, work, bound>>
  PROVE  IInv'
<1>1. pc[p] \in Teardown /\ pc[p] # "scope" /\ stack = <<>>
  BY DEF Teardown, Sole
<1>11. /\ op' = op /\ work' = work /\ looping' = looping /\ dirty' = dirty
       /\ \A q \in Procs \ {p} : kids'[q] = kids[q]
  OBVIOUS
<1>2. /\ TaskTable' /\ Gated' /\ Unstarted' /\ Alone'
      /\ f \in FiberIds /\ Mounted(f)
      /\ \A g \in FiberIds : pc'[Task(g)] # "running"
      /\ \A g \in FiberIds : ~Mounted(g) =>
           /\ state'[g] = state[g] /\ pc'[Task(g)] = pc[Task(g)]
           /\ pc'[Disposal(g)] = pc[Disposal(g)]
  <2>1. pc'[p] \notin Teardown
    BY DEF Teardown
  <2> QED
    BY <1>1, <1>11, <2>1, Tearing
<1>3. /\ stack' \in Seq(Frames) /\ Stacked'
      /\ \A i \in DOMAIN stack' : stack'[i].fiber = f
  <2>1. CASE stack' = <<>>
    BY <1>1, <1>2, <2>1, StackEmpty
  <2>2. CASE stack' = <<[do |-> "evaluate", fiber |-> f]>> \o <<>> /\ state'[f] = "PENDING"
    BY <1>2, <2>2, EvaluateCalled
  <2> QED
    BY <2>1, <2>2
<1>4. /\ plugin' = plugin /\ parent' = parent /\ epoch' = epoch /\ kids' = kids /\ op' = op
      /\ evaluation' = evaluation /\ watch' = watch /\ dirty' = dirty /\ work' = work
  OBVIOUS
<1>5. /\ scope' \in [FiberIds -> {"none", "open", "closing", "closed", "broken"}]
      /\ \A g \in FiberIds : scope'[g] = scope[g] \/ scope'[g] = "open"
  <2>1. scope \in [FiberIds -> {"none", "open", "closing", "closed", "broken"}]
    BY Facts DEF LifeTypes
  <2>2. CASE scope' = scope
    BY <2>1, <2>2
  <2>3. CASE scope' = [scope EXCEPT ![f] = "open"]
    BY <2>1, <2>3
  <2> QED
    BY <2>2, <2>3
<1>6. TreeTypes' /\ LifeTypes' /\ WaitTypes' /\ ProcTypes'
  BY <1>4, <1>5, Facts DEF TreeTypes, LifeTypes, WaitTypes, ProcTypes
<1>7. EpochTypes' /\ BoundTypes' /\ script' \in [FiberIds -> Seq(Steps)] /\ looping' \in BOOLEAN
  BY Facts, Kept
<1>8. Enrolled'
  <2>1. \A g \in FiberIds : ~Mounted(g) => ~evaluation[g] /\ ~dirty[g]
    BY Facts DEF Enrolled
  <2>2. \A o \in Ops : Mounted(op[o].fiber)
    BY Facts DEF Enrolled
  <2>3. \A i \in DOMAIN stack' : Mounted(stack'[i].fiber)
    BY <1>2, <1>3
  <2> QED
    BY <1>2, <1>4, <2>1, <2>2, <2>3, Facts, EnrolledKept
<1>9. Lineage'
  <2>1. /\ \A q \in Procs : \A i \in DOMAIN kids'[q] : Mounted(kids'[q][i])
        /\ \A g \in FiberIds : Mounted(g)' <=> Mounted(g)
    BY <1>4, Facts DEF Lineage, Mounted
  <2>2. \A g \in FiberIds : ~Mounted(g) => pc'[Disposal(g)] = "idle"
    BY <1>2, Facts DEF Lineage
  <2>3. \A g \in FiberIds : \A i \in DOMAIN children'[g] : Mounted(children'[g][i])
    OBVIOUS
  <2> QED
    BY <1>4, <2>1, <2>2, <2>3 DEF Lineage, Mounted
<1>10. Scoped'
  <2>1. \A q \in Procs : Of(q)' = Of(q) /\ (pc[q] = "scope" => pc'[q] = "scope")
    BY <1>1, OfKept
  <2> QED
    BY <1>4, <1>5, <2>1, Facts DEF Scoped, Mounted
<1> QED
  BY <1>2, <1>3, <1>6, <1>7, <1>8, <1>9, <1>10 DEF IInv, Types

\* The end of _unload or _reload, of _release and of _finish.
LEMMA TaskLandsStep ==
  ASSUME IInv, NEW f \in FiberIds, Sole(Task(f)), TaskLands(f) PROVE IInv'
<1> SUFFICES ASSUME NEW p, p = Task(f) PROVE IInv'
  OBVIOUS
<1>1. p \in Procs /\ f = Of(p) /\ pc[p] \in {"released", "emptied"} /\ stack = <<>> /\ Sole(p)
  BY Processes DEF TaskLands, Sole
<1>2. work[f] \in {"unload", "reload", "release", "finish"}
  BY <1>1, Facts DEF TaskTable, Row, Still, Teardown
<1>3. \/ /\ work[f] \in {"unload", "reload"}
         /\ state' = [state EXCEPT ![f] = "PENDING"]
         /\ scope' = [scope EXCEPT ![f] = IF CanOpen(f) THEN "open" ELSE scope[f]]
      \/ /\ work[f] = "finish"
         /\ state' = [state EXCEPT ![f] = "FAILED"] /\ scope' = scope
      \/ /\ work[f] = "release" /\ state' = state /\ scope' = scope
  BY <1>2 DEF TaskLands, LandPending
<1>4. \/ Raise(p) /\ stack' = <<>>
      \/ /\ pc' = [pc EXCEPT ![p] = "idle"]
         /\ \/ work[f] = "reload" /\ stack' = <<[do |-> "evaluate", fiber |-> f]>> \o <<>>
            \/ stack' = <<>>
         /\ gate' = gate /\ evals' = evals
  BY <1>1 DEF TaskLands, Call
<1>5. UNCHANGED <<looping, treeVars, error, epoch, config, held, loads, script,
                  evaluation, watch, dirty, kids, op, work, bound>>
  BY DEF TaskLands
<1>6. /\ pc' \in [Procs -> Places] /\ gate' \in [FiberIds -> Procs \cup {None}]
      /\ evals' \in [FiberIds -> Nat]
      /\ pc'[p] \in {"idle", "raised"}
      /\ \A q \in Procs \ {p} :
           /\ \/ pc'[q] = pc[q]
              \/ Of(q) = f /\ pc'[q] = "raised" /\ pc[q] \in {"quiet", "settle"}
           /\ pc'[q] = pc[q] /\ pc[q] # "raised" /\ gate[Of(q)] = q => gate'[Of(q)] = q
      /\ \A g \in FiberIds : ~Mounted(g) => evals'[g] = 0
  <2>1. CASE Raise(p)
    BY <1>1, <2>1, Raising
  <2>2. CASE ~Raise(p)
    <3>1. pc' = [pc EXCEPT ![p] = "idle"] /\ gate' = gate /\ evals' = evals
      BY <1>4, <2>2
    <3>2. pc \in [Procs -> Places] /\ "idle" \in Places
      BY Facts DEF ProcTypes, Places
    <3>3. /\ pc' \in [Procs -> Places] /\ pc'[p] = "idle"
          /\ \A q \in Procs \ {p} : pc'[q] = pc[q]
      BY <1>1, <3>1, <3>2
    <3>4. /\ gate' \in [FiberIds -> Procs \cup {None}] /\ evals' \in [FiberIds -> Nat]
          /\ \A g \in FiberIds : ~Mounted(g) => evals'[g] = 0
      BY <3>1, Facts DEF ProcTypes, WaitTypes, Enrolled
    <3> QED
      BY <3>1, <3>3, <3>4
  <2> QED
    BY <2>1, <2>2
<1>7. /\ state' \in [FiberIds -> States] /\ \A g \in FiberIds \ {f} : state'[g] = state[g]
      /\ work[f] \in {"unload", "reload"} => state'[f] = "PENDING"
  <2>1. state \in [FiberIds -> States] /\ "PENDING" \in States /\ "FAILED" \in States
    BY Facts DEF LifeTypes, States
  <2> QED
    BY <1>3, <2>1
<1>8. scope' = scope \/ scope' = [scope EXCEPT ![f] = "open"]
  <2>1. scope = [scope EXCEPT ![f] = scope[f]]
    BY Facts DEF LifeTypes
  <2> QED
    BY <1>3, <2>1
<1>9. \/ stack' = <<>>
      \/ stack' = <<[do |-> "evaluate", fiber |-> f]>> \o <<>> /\ state'[f] = "PENDING"
  BY <1>4, <1>7
<1>10. /\ children' \in [FiberIds -> Seq(FiberIds)]
       /\ \A g \in FiberIds : \A i \in DOMAIN children'[g] : Mounted(children'[g][i])
  BY <1>5, Facts DEF TreeTypes, Lineage, treeVars
<1>11. UNCHANGED <<looping, plugin, parent, error, epoch, config, held, loads,
                   script, evaluation, watch, dirty, kids, op, work, bound>>
  BY <1>5 DEF treeVars
<1> QED
  BY <1>1, <1>6, <1>7, <1>8, <1>9, <1>10, <1>11, Landing

\* The end of the unload of a restart or an update.
LEMMA CallerLandsStep ==
  ASSUME IInv, NEW o \in Ops, Sole(Caller(o)), CallerLands(o) PROVE IInv'
<1> SUFFICES ASSUME NEW p, p = Caller(o), NEW f, f = Of(p) PROVE IInv'
  OBVIOUS
<1>1. p \in Procs /\ pc[p] \in {"released", "emptied"} /\ stack = <<>> /\ f \in FiberIds /\ p # Task(f)
  BY Facts, Processes, OfTyped DEF CallerLands, Sole
<1>2. gate[f] = p
  BY <1>1, TornDown DEF Teardown
<1>3. /\ state' = [state EXCEPT ![f] = "PENDING"]
      /\ scope' = [scope EXCEPT ![f] = IF CanOpen(f) THEN "open" ELSE scope[f]]
      /\ \/ /\ pc' = [pc EXCEPT ![p] = "settle"]
            /\ gate' = [gate EXCEPT ![f] = None] /\ evals' = evals
            /\ stack' = <<[do |-> "evaluate", fiber |-> f]>> \o <<>>
         \/ Raise(p) /\ stack' = <<>>
      /\ UNCHANGED <<looping, treeVars, error, epoch, config, held, loads, script,
                     evaluation, watch, dirty, kids, op, work, bound>>
  BY <1>1 DEF CallerLands, LandPending, Call
<1>4. /\ pc' \in [Procs -> Places] /\ gate' \in [FiberIds -> Procs \cup {None}]
      /\ evals' \in [FiberIds -> Nat]
      /\ pc'[p] \in {"settle", "raised"}
      /\ \A q \in Procs \ {p} :
           /\ \/ pc'[q] = pc[q]
              \/ Of(q) = f /\ pc'[q] = "raised" /\ pc[q] \in {"quiet", "settle"}
           /\ pc'[q] = pc[q] /\ pc[q] # "raised" /\ gate[Of(q)] = q => gate'[Of(q)] = q
      /\ \A g \in FiberIds : ~Mounted(g) => evals'[g] = 0
  <2>1. CASE Raise(p)
    BY <1>1, <2>1, Raising
  <2>2. CASE ~Raise(p)
    <3>1. /\ pc' = [pc EXCEPT ![p] = "settle"] /\ evals' = evals
          /\ gate' = [gate EXCEPT ![f] = None]
      BY <1>3, <2>2
    <3>2. /\ pc \in [Procs -> Places] /\ "settle" \in Places
          /\ gate \in [FiberIds -> Procs \cup {None}]
      BY Facts DEF ProcTypes, Places
    <3>3. /\ pc' \in [Procs -> Places] /\ pc'[p] = "settle"
          /\ \A q \in Procs \ {p} : pc'[q] = pc[q]
      BY <1>1, <3>1, <3>2
    <3>4. /\ gate' \in [FiberIds -> Procs \cup {None}]
          /\ \A q \in Procs \ {p} : gate[Of(q)] = q => gate'[Of(q)] = q
      <4>1. gate' \in [FiberIds -> Procs \cup {None}]
        BY <1>1, <3>1, <3>2
      <4>2. \A q \in Procs \ {p} : gate[Of(q)] = q => Of(q) \in FiberIds \ {f}
        BY <1>2, Facts, OfTyped
      <4> QED
        BY <3>1, <3>2, <4>1, <4>2
    <3>5. /\ evals' \in [FiberIds -> Nat]
          /\ \A g \in FiberIds : ~Mounted(g) => evals'[g] = 0
      BY <3>1, Facts DEF WaitTypes, Enrolled
    <3> QED
      BY <3>3, <3>4, <3>5
  <2> QED
    BY <2>1, <2>2
<1>5. /\ state' \in [FiberIds -> States] /\ \A g \in FiberIds \ {f} : state'[g] = state[g]
      /\ state'[f] = "PENDING"
  <2>1. state \in [FiberIds -> States] /\ "PENDING" \in States
    BY Facts DEF LifeTypes, States
  <2> QED
    BY <1>1, <1>3, <2>1
<1>6. scope' = scope \/ scope' = [scope EXCEPT ![f] = "open"]
  <2>1. scope = [scope EXCEPT ![f] = scope[f]]
    BY Facts DEF LifeTypes
  <2> QED
    BY <1>3, <2>1
<1>7. /\ children' \in [FiberIds -> Seq(FiberIds)]
      /\ \A g \in FiberIds : \A i \in DOMAIN children'[g] : Mounted(children'[g][i])
  BY <1>3, Facts DEF TreeTypes, Lineage, treeVars
<1>8. UNCHANGED <<looping, plugin, parent, error, epoch, config, held, loads,
                   script, evaluation, watch, dirty, kids, op, work, bound>>
  BY <1>3 DEF treeVars
<1>9. \/ stack' = <<>>
      \/ stack' = <<[do |-> "evaluate", fiber |-> f]>> \o <<>> /\ state'[f] = "PENDING"
  BY <1>3, <1>5
<1>10. Sole(p) /\ f = Of(p)
  OBVIOUS
<1>11. pc'[p] \in {"idle", "raised", "settle", "done"}
  BY <1>4
<1> QED
  BY <1>1, <1>4, <1>5, <1>6, <1>7, <1>8, <1>9, <1>10, <1>11, Landing

\* list.remove, by position.
LEMMA RemovedAt ==
  ASSUME NEW S, NEW s \in Seq(S), NEW k \in DOMAIN s
  PROVE  /\ RemoveAt(s, k) \in Seq(S) /\ DOMAIN RemoveAt(s, k) = 1..(Len(s) - 1)
         /\ \A i \in 1..(Len(s) - 1) : RemoveAt(s, k)[i] = IF i < k THEN s[i] ELSE s[i + 1]
<1>1. k \in 1..Len(s) /\ k \in Int /\ Len(s) \in Nat
  OBVIOUS
<1> DEFINE a == SubSeq(s, 1, k - 1)
           b == SubSeq(s, k + 1, Len(s))
<1>2. /\ a \in Seq(S) /\ Len(a) = k - 1
      /\ \A i \in 1..(k - 1) : a[i] = s[i]
  BY <1>1
<1>3. /\ b \in Seq(S) /\ Len(b) = Len(s) - k
      /\ \A i \in 1..(Len(s) - k) : b[i] = s[k + i]
  BY <1>1
<1>4. RemoveAt(s, k) = a \o b
  BY DEF RemoveAt
<1> HIDE DEF a, b
<1>5. /\ a \o b \in Seq(S) /\ Len(a \o b) = Len(a) + Len(b)
      /\ \A i \in 1..(Len(a) + Len(b)) :
           (a \o b)[i] = IF i <= Len(a) THEN a[i] ELSE b[i - Len(a)]
  BY <1>2, <1>3, ConcatProperties
<1>6. Len(a) + Len(b) = Len(s) - 1
  BY <1>1, <1>2, <1>3
<1>7. DOMAIN (a \o b) = 1..(Len(s) - 1)
  BY <1>5, <1>6
<1>8. ASSUME NEW i \in 1..(Len(s) - 1)
      PROVE  (a \o b)[i] = IF i < k THEN s[i] ELSE s[i + 1]
  <2>1. (a \o b)[i] = IF i <= Len(a) THEN a[i] ELSE b[i - Len(a)]
    BY <1>5, <1>6
  <2>2. CASE i < k
    <3>1. i <= Len(a) /\ i \in 1..(k - 1)
      BY <1>1, <1>2, <2>2
    <3>2. a[i] = s[i]
      BY <1>2, <3>1
    <3> QED
      BY <2>1, <2>2, <3>1, <3>2
  <2>3. CASE ~(i < k)
    <3>1. ~(i <= Len(a)) /\ i - Len(a) \in 1..(Len(s) - k) /\ k + (i - Len(a)) = i + 1
      BY <1>1, <1>2, <2>3
    <3>2. b[i - Len(a)] = s[i + 1]
      BY <1>3, <3>1
    <3> QED
      BY <2>1, <2>3, <3>1, <3>2
  <2> QED
    BY <2>2, <2>3
<1> QED
  BY <1>4, <1>5, <1>7, <1>8

\* list.remove: what is left was there.
LEMMA WithoutOne ==
  ASSUME NEW S, NEW s \in Seq(S), NEW x
  PROVE  /\ Without(s, x) \in Seq(S)
         /\ \A i \in DOMAIN Without(s, x) : \E j \in DOMAIN s : Without(s, x)[i] = s[j]
<1>1. CASE x \notin ToSet(s)
  <2>1. Without(s, x) = s
    BY <1>1 DEF Without
  <2> QED
    BY <2>1
<1>2. CASE x \in ToSet(s)
  <2>1. PICK k \in DOMAIN s : Without(s, x) = RemoveAt(s, k)
    BY <1>2 DEF Without, ToSet
  <2>2. /\ RemoveAt(s, k) \in Seq(S) /\ DOMAIN RemoveAt(s, k) = 1..(Len(s) - 1)
        /\ \A i \in 1..(Len(s) - 1) : RemoveAt(s, k)[i] = IF i < k THEN s[i] ELSE s[i + 1]
    BY RemovedAt
  <2>3. \A i \in 1..(Len(s) - 1) : i \in DOMAIN s /\ i + 1 \in DOMAIN s
    OBVIOUS
  <2> QED
    BY <2>1, <2>2, <2>3
<1> QED
  BY <1>1, <1>2

\* The end of a disposal: the instance is forgotten by its parent.
LEMMA DisposalLandsStep ==
  ASSUME IInv, NEW f \in FiberIds, Sole(Disposal(f)), DisposalLands(f) PROVE IInv'
<1> SUFFICES ASSUME NEW p, p = Disposal(f) PROVE IInv'
  OBVIOUS
<1>1. /\ p \in Procs /\ f = Of(p) /\ pc[p] \in {"released", "emptied"} /\ stack = <<>> /\ Sole(p)
      /\ p # Task(f)
  BY Processes DEF DisposalLands, Sole
<1>2. gate[f] = p
  BY <1>1, TornDown DEF Teardown
<1>3. /\ state' = [state EXCEPT ![f] = "DISPOSED"]
      /\ children' = [children EXCEPT ![parent[f]] =
                        IF f = Root THEN children[parent[f]] ELSE Without(children[parent[f]], f)]
      /\ pc' = [pc EXCEPT ![p] = "done"]
      /\ gate' = [gate EXCEPT ![f] = None]
      /\ UNCHANGED <<looping, stack, plugin, parent, error, epoch, config, held, loads,
                     script, scope, waitVars, kids, op, work, bound>>
  BY DEF DisposalLands
<1>4. /\ pc \in [Procs -> Places] /\ "done" \in Places
      /\ gate \in [FiberIds -> Procs \cup {None}]
  BY Facts DEF ProcTypes, Places
<1>5. /\ pc' \in [Procs -> Places] /\ pc'[p] = "done"
      /\ \A q \in Procs \ {p} : pc'[q] = pc[q]
  BY <1>1, <1>3, <1>4
<1>6. /\ gate' \in [FiberIds -> Procs \cup {None}]
      /\ \A q \in Procs \ {p} : gate[Of(q)] = q => gate'[Of(q)] = q
  <2>1. gate' \in [FiberIds -> Procs \cup {None}]
    BY <1>3, <1>4
  <2>2. \A q \in Procs \ {p} : gate[Of(q)] = q => Of(q) \in FiberIds \ {f}
    BY <1>2, Facts, OfTyped
  <2> QED
    BY <1>3, <1>4, <2>1, <2>2
<1>7. /\ evals' \in [FiberIds -> Nat] /\ \A g \in FiberIds : ~Mounted(g) => evals'[g] = 0
  BY <1>3, Facts DEF WaitTypes, Enrolled, waitVars
<1>8. state' \in [FiberIds -> States] /\ \A g \in FiberIds \ {f} : state'[g] = state[g]
  <2>1. state \in [FiberIds -> States] /\ "DISPOSED" \in States
    BY Facts DEF LifeTypes, States
  <2> QED
    BY <1>3, <2>1
<1>9. /\ children' \in [FiberIds -> Seq(FiberIds)]
      /\ \A g \in FiberIds : \A i \in DOMAIN children'[g] : Mounted(children'[g][i])
  <2> DEFINE old == children[parent[f]]
             new == IF f = Root THEN old ELSE Without(old, f)
  <2>1. /\ children \in [FiberIds -> Seq(FiberIds)] /\ parent[f] \in FiberIds
        /\ \A g \in FiberIds : \A i \in DOMAIN children[g] : Mounted(children[g][i])
    BY Facts DEF TreeTypes, Lineage
  <2>2. new \in Seq(FiberIds) /\ \A i \in DOMAIN new : Mounted(new[i])
    <3>1. CASE f = Root
      BY <2>1, <3>1
    <3>2. CASE f # Root
      BY <2>1, <3>2, WithoutOne
    <3> QED
      BY <3>1, <3>2
  <2>3. children' = [children EXCEPT ![parent[f]] = new]
    BY <1>3
  <2> HIDE DEF new
  <2> QED
    BY <2>1, <2>2, <2>3
<1>10. UNCHANGED <<looping, plugin, parent, error, epoch, config, held, loads,
                   script, evaluation, watch, dirty, kids, op, work, bound>>
  BY <1>3 DEF waitVars
<1>11. stack' = <<>> /\ scope' = scope
  BY <1>1, <1>3
<1> QED
  BY <1>1, <1>5, <1>6, <1>7, <1>8, <1>9, <1>10, <1>11, Landing

----------------------------------------------------------------------------
(* The gate, and the start of a teardown *)

\* A step that touches the processes, the state and the gate of f alone.
LEMMA Local ==
  ASSUME IInv, NEW f \in FiberIds, op' = op, looping' = looping,
         \A q \in Procs : Of(q) # f => pc'[q] = pc[q],
         \A g \in FiberIds \ {f} :
           /\ state'[g] = state[g] /\ work'[g] = work[g] /\ gate'[g] = gate[g]
           /\ dirty'[g] = dirty[g],
         Row(f)',
         (~looping \/ dirty'[f]) /\ state'[f] \in {"PENDING", "ACTIVE"} => Still(f)',
         \A q \in Procs : Of(q) = f /\ q # Task(f) => PastGate(q)'
  PROVE  TaskTable' /\ Gated' /\ Unstarted'
<1>1. \A q \in Procs : Of(q)' = Of(q) /\ Of(q) \in FiberIds
  BY Facts, OfKept, OfTyped
<1>2. \A g \in FiberIds \ {f} : pc'[Task(g)] = pc[Task(g)]
  BY Processes
<1>3. TaskTable'
  <2>1. \A g \in FiberIds \ {f} : Row(g)'
    BY <1>2, Facts DEF TaskTable, Row, Still
  <2> QED
    BY <2>1 DEF TaskTable
<1>4. Gated'
  <2> SUFFICES ASSUME NEW q \in Procs, q # Task(Of(q)) PROVE PastGate(q)'
    BY <1>1 DEF Gated
  <2>1. CASE Of(q) = f
    BY <2>1
  <2>2. CASE Of(q) # f
    <3>1. PastGate(q)
      BY Facts DEF Gated
    <3>2. /\ pc'[q] = pc[q] /\ state'[Of(q)] = state[Of(q)] /\ gate'[Of(q)] = gate[Of(q)]
          /\ pc'[Task(Of(q))] = pc[Task(Of(q))] /\ Of(q)' = Of(q)
      BY <1>1, <1>2, <2>2
    <3> QED
      BY <3>1, <3>2 DEF PastGate, Rests, Still
  <2> QED
    BY <2>1, <2>2
<1>5. Unstarted'
  <2> SUFFICES ASSUME NEW g \in FiberIds, ~looping \/ dirty'[g], state'[g] \in {"PENDING", "ACTIVE"}
               PROVE  Still(g)'
    BY DEF Unstarted
  <2>1. CASE g = f
    BY <2>1
  <2>2. CASE g # f
    BY <1>2, <2>2, Facts DEF Unstarted, Still
  <2> QED
    BY <2>1, <2>2
<1> QED
  BY <1>3, <1>4, <1>5

\* restart(), update() and the disposal go through the gate, _task never.
LEMMA NotTask ==
  ASSUME IInv, NEW p \in Procs, pc[p] \in {"enter", "gate", "through", "quiet"}
  PROVE  p # Task(Of(p))
<1>1. \A f \in FiberIds : Row(f)
  BY Facts DEF TaskTable
<1>2. \A f \in FiberIds : pc[Task(f)] \notin {"enter", "gate", "through", "quiet"}
  BY <1>1 DEF Row, Still, Teardown
<1> QED
  BY <1>2, Facts, OfTyped

\* A caller asks for the gate.
LEMMA EnterStep == ASSUME IInv, NEW p \in Procs, Sole(p), Enter(p) PROVE IInv'
<1> SUFFICES ASSUME NEW f, f = Of(p) PROVE IInv'
  OBVIOUS
<1>1. /\ pc[p] \in {"enter", "gate"} \/ (p = Disposal(f) /\ pc[p] = "spawned")
      /\ gate[f] = None
      /\ UNCHANGED <<looping, stack, treeVars, lifeVars, evaluation, evals, kids, op, work, bound>>
  BY DEF Enter
<1>2. /\ f \in FiberIds /\ p # Task(f) /\ stack = <<>> /\ \A q \in Procs \ {p} : ~Hot(q)
      /\ \A g \in FiberIds : pc[Task(g)] # "running"
  <2>1. f \in FiberIds
    BY Facts, OfTyped
  <2>2. p # Task(f)
    BY <1>1, <2>1, NotTask, Processes
  <2> QED
    BY <2>1, <2>2, Facts DEF Sole, Stacked, Finishing
<1>3. \/ /\ pc' = [pc EXCEPT ![p] = "done"]
         /\ gate' = gate /\ watch' = watch /\ dirty' = dirty
      \/ /\ gate' = [gate EXCEPT ![f] = p]
         /\ \/ /\ watch' = [watch EXCEPT ![f] = FALSE]
               /\ dirty' = [dirty EXCEPT ![f] = FALSE]
            \/ watch' = watch /\ dirty' = dirty
         /\ \/ Rests(f) /\ pc' = [pc EXCEPT ![p] = "through"]
            \/ pc' = [pc EXCEPT ![p] = "quiet"]
  <2> DEFINE late == p = Caller(p[2]) /\ op[p[2]].kind = "restart"
             calm == ~dirty'[f] /\ ~evaluation[f] /\ Rests(f)
  <2>1. IF state[f] = "DISPOSED" /\ ~late
        THEN /\ pc' = [pc EXCEPT ![p] = "done"]
             /\ UNCHANGED <<gate, watch, dirty>>
        ELSE /\ gate' = [gate EXCEPT ![f] = p]
             /\ IF p = Disposal(f)
                THEN /\ watch' = [watch EXCEPT ![f] = FALSE]
                     /\ dirty' = [dirty EXCEPT ![f] = FALSE]
                ELSE UNCHANGED <<watch, dirty>>
             /\ pc' = [pc EXCEPT ![p] = IF calm THEN "through" ELSE "quiet"]
    BY DEF Enter
  <2>2. calm => Rests(f)
    OBVIOUS
  <2> HIDE DEF late, calm
  <2> QED
    BY <2>1, <2>2
<1>4. /\ pc \in [Procs -> Places] /\ gate \in [FiberIds -> Procs \cup {None}]
      /\ watch \in [FiberIds -> BOOLEAN] /\ dirty \in [FiberIds -> BOOLEAN]
      /\ {"done", "through", "quiet"} \subseteq Places
  BY Facts DEF ProcTypes, WaitTypes, Places
<1>5. /\ pc' \in [Procs -> Places] /\ pc'[p] \in {"done", "through", "quiet"}
      /\ \A q \in Procs \ {p} : pc'[q] = pc[q]
      /\ pc'[p] = "through" => Rests(f)
      /\ pc'[p] # "done" => gate'[f] = p
  <2>1. pc' \in [Procs -> Places] /\ pc'[p] \in {"done", "through", "quiet"}
        /\ \A q \in Procs \ {p} : pc'[q] = pc[q]
    BY <1>3, <1>4
  <2>2. pc'[p] = "through" => Rests(f)
    BY <1>3, <1>4
  <2>3. pc'[p] # "done" => gate'[f] = p
    BY <1>2, <1>3, <1>4
  <2> QED
    BY <2>1, <2>2, <2>3
<1>6. /\ gate' \in [FiberIds -> Procs \cup {None}]
      /\ \A g \in FiberIds \ {f} : gate'[g] = gate[g]
  BY <1>2, <1>3, <1>4
<1>7. /\ watch' \in [FiberIds -> BOOLEAN] /\ dirty' \in [FiberIds -> BOOLEAN]
      /\ \A g \in FiberIds \ {f} : dirty'[g] = dirty[g]
      /\ \A g \in FiberIds : (watch'[g] => watch[g]) /\ (dirty'[g] => dirty[g])
  BY <1>2, <1>3, <1>4
<1>8. /\ looping' = looping /\ stack' = stack /\ plugin' = plugin /\ children' = children
      /\ state' = state /\ epoch' = epoch /\ scope' = scope /\ work' = work /\ kids' = kids
      /\ evaluation' = evaluation /\ evals' = evals /\ op' = op
  BY <1>1 DEF treeVars, lifeVars
<1>9. pc'[Task(f)] = pc[Task(f)] /\ \A q \in Procs : Of(q)' = Of(q)
  BY <1>2, <1>5, <1>8, Processes, OfKept
<1>10. TaskTable' /\ Gated' /\ Unstarted'
  <2>1. Row(f)'
    <3>1. Row(f)
      BY <1>2, Facts DEF TaskTable
    <3> QED
      BY <1>8, <1>9, <3>1 DEF Row, Still
  <2>2. (~looping \/ dirty'[f]) /\ state'[f] \in {"PENDING", "ACTIVE"} => Still(f)'
    BY <1>2, <1>7, <1>8, <1>9, Facts DEF Unstarted, Still
  <2>3. \A q \in Procs : Of(q) = f /\ q # Task(f) => PastGate(q)'
    <3> SUFFICES ASSUME NEW q \in Procs, Of(q) = f, q # Task(f) PROVE PastGate(q)'
      OBVIOUS
    <3>1. CASE q = p
      BY <1>5, <1>8, <1>9, <3>1 DEF PastGate, Rests, Teardown
    <3>2. CASE q # p
      <4>1. pc[q] \notin {"quiet", "through"} \cup Teardown
        BY <1>1, Facts, ProcessAssumption DEF Gated, PastGate
      <4> QED
        BY <1>5, <1>9, <3>2, <4>1 DEF PastGate
    <3> QED
      BY <3>1, <3>2
  <2>4. \A q \in Procs : Of(q) # f => pc'[q] = pc[q]
    BY <1>5
  <2> QED
    BY <1>2, <1>6, <1>7, <1>8, <2>1, <2>2, <2>3, <2>4, Local
<1>11. Alone'
  <2>1. \A q \in Procs \ {p} : ~Hot(q)'
    BY <1>2, <1>5, <1>8 DEF Hot, Closes
  <2> QED
    BY <1>2, <1>8, <2>1 DEF Alone
<1>12. stack' \in Seq(Frames) /\ Stacked' /\ \A i \in DOMAIN stack' : FALSE
  <2>1. \A g \in FiberIds : pc'[Task(g)] # "running"
    BY <1>2, <1>5, Processes
  <2> QED
    BY <1>2, <1>8, <2>1, StackEmpty
<1>13. TreeTypes' /\ LifeTypes' /\ EpochTypes' /\ BoundTypes'
       /\ script' \in [FiberIds -> Seq(Steps)] /\ looping' \in BOOLEAN
  BY <1>1, Facts, Kept DEF treeVars, lifeVars
<1>14. WaitTypes' /\ ProcTypes'
  BY <1>5, <1>6, <1>7, <1>8, Facts DEF WaitTypes, ProcTypes
<1>15. Mounted(f) /\ \A g \in FiberIds : ~Mounted(g) =>
         pc'[Task(g)] = pc[Task(g)] /\ pc'[Disposal(g)] = pc[Disposal(g)]
  <2>1. Mounted(f)
    <3>1. CASE \E o \in Ops : p = Caller(o)
      BY <3>1, Facts, Processes DEF Enrolled
    <3>2. CASE p = Disposal(f)
      BY <1>1, <1>2, <3>2, Facts DEF Lineage
    <3> QED
      BY <1>2, <3>1, <3>2, Processes
  <2> QED
    BY <1>2, <1>5, <2>1, Processes
<1>16. Enrolled'
  <2>1. \A g \in FiberIds : ~Mounted(g) =>
          ~watch[g] /\ ~watch'[g] /\ ~evaluation[g] /\ evals[g] = 0 /\ ~dirty'[g]
    BY <1>7, Facts DEF Enrolled
  <2>2. \A g \in FiberIds : ~Mounted(g) => watch'[g] = watch[g]
    BY <1>4, <1>7, <2>1
  <2>3. \A o \in Ops : Mounted(op[o].fiber)
    BY Facts DEF Enrolled
  <2> QED
    BY <1>8, <1>12, <1>15, <2>1, <2>2, <2>3, Facts, EnrolledKept
<1>17. Lineage'
  BY <1>8, <1>15, Facts, LineageKept
<1>18. Scoped'
  BY <1>1, <1>5, <1>8, Facts, ScopedKept
<1> QED
  BY <1>10, <1>11, <1>12, <1>13, <1>14, <1>16, <1>17, <1>18 DEF IInv, Types

\* A caller has the gate, and _task is at rest.
LEMMA ProceedStep == ASSUME IInv, NEW p \in Procs, Sole(p), Proceed(p) PROVE IInv'
<1> SUFFICES ASSUME NEW f, f = Of(p) PROVE IInv'
  OBVIOUS
<1>1. /\ pc[p] \in {"through", "quiet"}
      /\ pc[p] = "through" \/ Rests(f)
      /\ UNCHANGED <<looping, stack, treeVars, error, held, loads, script, scope, waitVars,
                     op, work, bound>>
  BY DEF Proceed, Quiet
<1>2. /\ f \in FiberIds /\ p # Task(f) /\ stack = <<>> /\ \A q \in Procs \ {p} : ~Hot(q)
      /\ \A g \in FiberIds : pc[Task(g)] # "running"
  <2>1. f \in FiberIds /\ p # Task(f)
    BY <1>1, NotTask, Facts, OfTyped
  <2> QED
    BY <2>1, Facts DEF Sole, Stacked, Finishing
<1>3. gate[f] = p /\ Still(f)
  BY <1>1, <1>2, Facts DEF Gated, PastGate, Rests, Still
<1>4. Mounted(f)
  <2>1. CASE \E o \in Ops : p = Caller(o)
    BY <2>1, Facts, Processes DEF Enrolled
  <2>2. CASE p = Disposal(f)
    BY <1>1, <1>2, <2>2, Facts DEF Lineage
  <2> QED
    BY <1>2, <2>1, <2>2, Processes
<1>5. \/ /\ pc' = [pc EXCEPT ![p] = "done"] /\ gate' = [gate EXCEPT ![f] = None]
         /\ state' = state /\ epoch' = epoch /\ config' = config /\ kids' = kids
      \/ /\ pc' = [pc EXCEPT ![p] = "unwind"] /\ gate' = gate
         /\ state' = [state EXCEPT ![f] = "UNLOADING"]
         /\ epoch' = [epoch EXCEPT ![f] = <<>>]
         /\ kids' = [kids EXCEPT ![p] = Reverse(children[f])]
         /\ \/ config' = [config EXCEPT ![f] = config[f]]
            \/ /\ p = Caller(p[2])
               /\ config' = [config EXCEPT ![f] = op[p[2]].config]
  <2> DEFINE updates == p = Caller(p[2]) /\ op[p[2]].kind = "update"
  <2>1. IF state[f] = "DISPOSED"
        THEN /\ pc' = [pc EXCEPT ![p] = "done"]
             /\ gate' = [gate EXCEPT ![f] = None]
             /\ UNCHANGED <<state, epoch, config, kids>>
        ELSE /\ BeginUnload(p)
             /\ config' = [config EXCEPT ![f] = IF updates THEN op[p[2]].config ELSE config[f]]
             /\ UNCHANGED gate
    BY DEF Proceed
  <2>2. updates => p = Caller(p[2])
    OBVIOUS
  <2> HIDE DEF updates
  <2> QED
    BY <2>1, <2>2 DEF BeginUnload
<1>6. /\ pc \in [Procs -> Places] /\ gate \in [FiberIds -> Procs \cup {None}]
      /\ kids \in [Procs -> Seq(FiberIds)] /\ state \in [FiberIds -> States]
      /\ config \in [FiberIds -> Configs]
      /\ {"done", "unwind"} \subseteq Places /\ "UNLOADING" \in States
  BY Facts DEF ProcTypes, LifeTypes, Places, States
<1>7. /\ pc' \in [Procs -> Places] /\ pc'[p] \in {"done", "unwind"}
      /\ \A q \in Procs \ {p} : pc'[q] = pc[q]
  <2>1. PICK w \in {"done", "unwind"} : pc' = [pc EXCEPT ![p] = w]
    BY <1>5
  <2> QED
    BY <1>6, <2>1
<1>8. pc'[p] = "unwind" => state'[f] = "UNLOADING" /\ gate'[f] = p
  <2>1. CASE pc' = [pc EXCEPT ![p] = "done"]
    BY <1>6, <2>1
  <2>2. CASE gate' = gate /\ state' = [state EXCEPT ![f] = "UNLOADING"]
    BY <1>2, <1>3, <1>6, <2>2
  <2> QED
    BY <1>5, <2>1, <2>2
<1>9. /\ state' \in [FiberIds -> States] /\ \A g \in FiberIds \ {f} : state'[g] = state[g]
  BY <1>5, <1>6
<1>10. /\ gate' \in [FiberIds -> Procs \cup {None}]
       /\ \A g \in FiberIds \ {f} : gate'[g] = gate[g]
  BY <1>5, <1>6
<1>11. /\ kids' \in [Procs -> Seq(FiberIds)]
       /\ \A q \in Procs \ {p} : kids'[q] = kids[q]
       /\ \A q \in Procs : \A i \in DOMAIN kids'[q] : Mounted(kids'[q][i])
  <2> DEFINE r == Reverse(children[f])
  <2>1. r \in Seq(FiberIds) /\ \A i \in DOMAIN r : Mounted(r[i])
    BY <1>2, ReversedMounted
  <2>2. kids' = kids \/ kids' = [kids EXCEPT ![p] = r]
    BY <1>5
  <2> HIDE DEF r
  <2>3. /\ kids' \in [Procs -> Seq(FiberIds)] /\ \A q \in Procs \ {p} : kids'[q] = kids[q]
        /\ kids'[p] \in {kids[p], r}
    BY <1>6, <2>1, <2>2, Updated
  <2> QED
    BY <2>1, <2>3, Facts DEF Lineage
<1>12. config' \in [FiberIds -> Configs]
  <2>1. \A o \in Ops : op[o].config \in Configs
    BY Facts DEF ProcTypes
  <2>2. p = Caller(p[2]) => p[2] \in Ops
    <3>1. ASSUME p = Caller(p[2]) PROVE p[2] \in Ops
      <4>1. ASSUME NEW o \in Ops, p = Caller(o) PROVE p[2] \in Ops
        BY <4>1 DEF Caller
      <4>2. \A g \in FiberIds : p # Task(g) /\ p # Disposal(g)
        BY <3>1 DEF Caller, Task, Disposal
      <4> QED
        BY <4>1, <4>2, Processes
    <3> QED
      BY <3>1
  <2> QED
    BY <1>2, <1>5, <1>6, <2>1, <2>2
<1>13. /\ looping' = looping /\ stack' = stack /\ plugin' = plugin /\ children' = children
       /\ scope' = scope /\ work' = work /\ watch' = watch /\ dirty' = dirty
       /\ evaluation' = evaluation /\ evals' = evals /\ op' = op
  BY <1>1 DEF treeVars, waitVars
<1>14. pc'[Task(f)] = pc[Task(f)] /\ \A q \in Procs : Of(q)' = Of(q)
  BY <1>2, <1>7, <1>13, Processes, OfKept
<1>15. TaskTable' /\ Gated' /\ Unstarted'
  <2>1. Row(f)' /\ Still(f)'
    BY <1>3, <1>14 DEF Row, Still
  <2>2. \A q \in Procs : Of(q) = f /\ q # Task(f) => PastGate(q)'
    <3> SUFFICES ASSUME NEW q \in Procs, Of(q) = f, q # Task(f) PROVE PastGate(q)'
      OBVIOUS
    <3>1. CASE q = p
      BY <1>3, <1>7, <1>8, <1>14, <2>1, <3>1 DEF PastGate, Teardown
    <3>2. CASE q # p
      <4>1. pc[q] \notin {"quiet", "through"} \cup Teardown
        BY <1>3, <3>2, Facts DEF Gated, PastGate
      <4> QED
        BY <1>7, <1>14, <3>2, <4>1 DEF PastGate
    <3> QED
      BY <3>1, <3>2
  <2>3. \A q \in Procs : Of(q) # f => pc'[q] = pc[q]
    BY <1>7
  <2> QED
    BY <1>2, <1>9, <1>10, <1>13, <2>1, <2>2, <2>3, Local
<1>16. Alone'
  <2>1. \A q \in Procs \ {p} : ~Hot(q)'
    BY <1>2, <1>7, <1>11 DEF Hot, Closes
  <2> QED
    BY <1>2, <1>13, <2>1 DEF Alone
<1>17. stack' \in Seq(Frames) /\ Stacked' /\ \A i \in DOMAIN stack' : FALSE
  <2>1. \A g \in FiberIds : pc'[Task(g)] # "running"
    BY <1>2, <1>7, Processes
  <2> QED
    BY <1>2, <1>13, <2>1, StackEmpty
<1>18. TreeTypes' /\ BoundTypes' /\ WaitTypes'
       /\ script' \in [FiberIds -> Seq(Steps)] /\ looping' \in BOOLEAN
  BY <1>1, Facts, Kept DEF treeVars
<1>19. LifeTypes' /\ ProcTypes'
  <2>1. error' = error /\ held' = held /\ loads' = loads
    BY <1>1
  <2> QED
    BY <1>7, <1>9, <1>10, <1>11, <1>12, <1>13, <2>1, Facts DEF LifeTypes, ProcTypes
<1>20. EpochTypes'
  <2>1. \A g \in FiberIds : epoch'[g] = epoch[g] \/ epoch'[g] = <<>>
    BY <1>5, Facts DEF EpochTypes
  <2>2. DOMAIN epoch' = FiberIds /\ \A g \in FiberIds : Needs(g)' = Needs(g)
    BY <1>5, <1>13, Facts DEF EpochTypes, Needs
  <2> QED
    BY <2>1, <2>2, Facts DEF EpochTypes
<1>21. \A g \in FiberIds : ~Mounted(g) =>
         /\ state'[g] = state[g] /\ epoch'[g] = epoch[g]
         /\ pc'[Task(g)] = pc[Task(g)] /\ pc'[Disposal(g)] = pc[Disposal(g)]
  <2>1. \A g \in FiberIds \ {f} : epoch'[g] = epoch[g]
    BY <1>5, Facts DEF EpochTypes
  <2> QED
    BY <1>2, <1>4, <1>7, <1>9, <2>1, Processes
<1>22. Enrolled'
  <2>1. \A g \in FiberIds : ~Mounted(g) => ~evaluation[g] /\ evals[g] = 0 /\ ~dirty[g]
    BY Facts DEF Enrolled
  <2>2. \A o \in Ops : Mounted(op[o].fiber)
    BY Facts DEF Enrolled
  <2> QED
    BY <1>13, <1>17, <1>21, <2>1, <2>2, Facts, EnrolledKept
<1>23. Lineage'
  BY <1>11, <1>13, <1>21, Facts DEF Lineage, Mounted
<1>24. Scoped'
  BY <1>1, <1>7, <1>13, Facts, ScopedKept
<1> QED
  BY <1>15, <1>16, <1>17, <1>18, <1>19, <1>20, <1>22, <1>23, <1>24 DEF IInv, Types

\* _finish resumes the body.
LEMMA BodyCalled ==
  ASSUME NEW f \in FiberIds, stack' = <<[do |-> "body", fiber |-> f]>> \o <<>>,
         state'[f] = "LOADING", pc'[Task(f)] = "running",
         \A g \in FiberIds : pc'[Task(g)] = "running" => g = f
  PROVE  stack' \in Seq(Frames) /\ Stacked' /\ \A i \in DOMAIN stack' : stack'[i].fiber = f
<1> DEFINE do == "body"
<1>1. do \in {"evaluate", "body"} /\ do # "evaluate" /\ do = "body"
      /\ stack' = <<[do |-> do, fiber |-> f]>> \o <<>>
  OBVIOUS
<1> HIDE DEF do
<1>2. stack' \in Seq(Frames) /\ Stacked' /\ DOMAIN stack' = {1} /\ stack'[1].fiber = f
  BY <1>1, Called
<1> QED
  BY <1>2

\* _task gets a turn: it was spawned, or what its body awaited is there.
LEMMA TaskTurns ==
  ASSUME IInv, AtAwait, NEW f \in FiberIds, NEW p, p = Task(f), pc[p] \in {"spawned", "body"},
         \/ /\ pc' = [pc EXCEPT ![p] = "unwind"] /\ stack' = <<>>
            /\ kids' = [kids EXCEPT ![p] = Reverse(children[f])]
            /\ \/ /\ work[f] \in {"unload", "reload"}
                  /\ state' = [state EXCEPT ![f] = "UNLOADING"]
                  /\ epoch' = [epoch EXCEPT ![f] = <<>>]
               \/ work[f] = "release" /\ state[f] = "FAILED" /\ state' = state /\ epoch' = epoch
         \/ /\ pc' = [pc EXCEPT ![p] = "running"]
            /\ stack' = <<[do |-> "body", fiber |-> f]>> \o <<>>
            /\ kids' = kids /\ state' = state /\ epoch' = epoch
            /\ work[f] = "finish" /\ state[f] = "LOADING",
         UNCHANGED <<looping, treeVars, error, config, held, loads, script, scope,
                     waitVars, gate, op, work, bound>>
  PROVE  IInv'
<1>1. /\ stack = <<>> /\ p \in Procs /\ Of(p) = f /\ ~Still(f) /\ pc[p] # "scope"
      /\ \A q \in Procs : ~Hot(q)
      /\ \A g \in FiberIds : pc[Task(g)] # "running"
  BY Awaiting, Processes DEF Still
<1>2. /\ looping' = looping /\ plugin' = plugin /\ children' = children
      /\ scope' = scope /\ work' = work /\ watch' = watch /\ dirty' = dirty
      /\ evaluation' = evaluation /\ evals' = evals /\ op' = op /\ gate' = gate
      /\ error' = error /\ config' = config /\ held' = held /\ loads' = loads
      /\ treeVars' = treeVars /\ waitVars' = waitVars /\ script' = script /\ bound' = bound
  BY DEF treeVars, waitVars
<1>3. /\ pc \in [Procs -> Places] /\ kids \in [Procs -> Seq(FiberIds)]
      /\ state \in [FiberIds -> States]
      /\ {"running", "unwind"} \subseteq Places /\ "UNLOADING" \in States
  BY Facts DEF ProcTypes, LifeTypes, Places, States
<1>4. /\ pc' \in [Procs -> Places] /\ pc'[p] \in {"running", "unwind"}
      /\ \A q \in Procs \ {p} : pc'[q] = pc[q]
  BY <1>1, <1>3
<1>5. state' \in [FiberIds -> States] /\ \A g \in FiberIds \ {f} : state'[g] = state[g]
  BY <1>3
<1>6. /\ kids' \in [Procs -> Seq(FiberIds)]
      /\ \A q \in Procs \ {p} : kids'[q] = kids[q]
      /\ \A q \in Procs : \A i \in DOMAIN kids'[q] : Mounted(kids'[q][i])
  <2> DEFINE r == Reverse(children[f])
  <2>1. r \in Seq(FiberIds) /\ \A i \in DOMAIN r : Mounted(r[i])
    BY ReversedMounted
  <2>2. kids' = kids \/ kids' = [kids EXCEPT ![p] = r]
    OBVIOUS
  <2> HIDE DEF r
  <2>3. /\ kids' \in [Procs -> Seq(FiberIds)] /\ \A q \in Procs \ {p} : kids'[q] = kids[q]
        /\ kids'[p] \in {kids[p], r}
    BY <1>1, <1>3, <2>1, <2>2, Updated
  <2>4. \A q \in Procs \ {p} : \A i \in DOMAIN kids'[q] : Mounted(kids'[q][i])
    BY <2>3, Facts DEF Lineage
  <2>5. \A i \in DOMAIN kids[p] : Mounted(kids[p][i])
    BY <1>1, Facts DEF Lineage
  <2>6. \A i \in DOMAIN kids'[p] : Mounted(kids'[p][i])
    BY <2>1, <2>3, <2>5
  <2> QED
    BY <2>3, <2>4, <2>6
<1>7. /\ Row(f)' /\ state'[f] \notin {"PENDING", "ACTIVE"}
      /\ pc'[p] = "running" => state'[f] = "LOADING"
  <2>1. CASE pc' = [pc EXCEPT ![p] = "unwind"]
    <3>1. pc'[Task(f)] = "unwind"
      BY <1>1, <1>3, <2>1
    <3>2. \/ work[f] \in {"unload", "reload"} /\ state'[f] = "UNLOADING"
          \/ work[f] = "release" /\ state'[f] = "FAILED"
          \/ pc'[p] = "running"
      BY <1>1, <1>3
    <3> QED
      BY <1>2, <3>1, <3>2 DEF Row, Teardown
  <2>2. CASE pc' = [pc EXCEPT ![p] = "running"]
    <3>1. pc'[Task(f)] = "running"
      BY <1>1, <1>3, <2>2
    <3>2. (work[f] = "finish" /\ state'[f] = "LOADING") \/ pc'[p] = "unwind"
      BY <1>1, <1>3
    <3> QED
      BY <1>2, <3>1, <3>2 DEF Row
  <2> QED
    BY <2>1, <2>2
<1>8. TaskTable' /\ Gated' /\ Unstarted'
  <2>1. \A q \in Procs : Of(q) = f /\ q # Task(f) => PastGate(q)'
    <3> SUFFICES ASSUME NEW q \in Procs, Of(q) = f, q # Task(f) PROVE PastGate(q)'
      OBVIOUS
    <3>1. PastGate(q) /\ pc[q] \notin Teardown \cup {"through"}
      BY <1>1, Facts DEF Gated, PastGate, Hot
    <3>2. Of(q)' = Of(q) /\ pc'[q] = pc[q]
      BY <1>2, <1>4, OfKept
    <3> QED
      BY <1>2, <3>1, <3>2 DEF PastGate, Teardown
  <2>2. \A q \in Procs : Of(q) # f => pc'[q] = pc[q]
    BY <1>1, <1>4
  <2> QED
    BY <1>2, <1>5, <1>7, <2>1, <2>2, Local
<1>9. Alone'
  <2>1. \A q \in Procs \ {p} : ~Hot(q)'
    BY <1>1, <1>4, <1>6 DEF Hot, Closes
  <2>2. Hot(p)' => pc'[p] # "running"
    BY DEF Hot, Closes
  <2>3. pc'[p] # "running" => stack' = <<>>
    BY <1>1, <1>3
  <2> QED
    BY <2>1, <2>2, <2>3 DEF Alone
<1>10. stack' \in Seq(Frames) /\ Stacked' /\ \A i \in DOMAIN stack' : stack'[i].fiber = f
  <2>1. \A g \in FiberIds \ {f} : pc'[Task(g)] # "running"
    BY <1>1, <1>4, Processes
  <2>2. CASE pc'[p] # "running"
    <3>1. stack' = stack /\ \A g \in FiberIds : pc'[Task(g)] # "running"
      BY <1>1, <1>3, <2>1, <2>2
    <3> QED
      BY <1>1, <3>1, StackEmpty
  <2>3. CASE pc'[p] = "running"
    <3>1. stack' = <<[do |-> "body", fiber |-> f]>> \o <<>>
      BY <1>1, <1>3, <2>3
    <3> QED
      BY <1>7, <2>1, <2>3, <3>1, BodyCalled
  <2> QED
    BY <2>2, <2>3
<1>11. TreeTypes' /\ BoundTypes' /\ WaitTypes'
       /\ script' \in [FiberIds -> Seq(Steps)] /\ looping' \in BOOLEAN
  BY <1>2, Facts, Kept
<1>12. LifeTypes' /\ ProcTypes'
  BY <1>2, <1>4, <1>5, <1>6, Facts DEF LifeTypes, ProcTypes
<1>13. EpochTypes'
  <2>1. \A g \in FiberIds : epoch'[g] = epoch[g] \/ epoch'[g] = <<>>
    BY Facts DEF EpochTypes
  <2>2. DOMAIN epoch' = FiberIds /\ \A g \in FiberIds : Needs(g)' = Needs(g)
    BY <1>2, Facts DEF EpochTypes, Needs
  <2> QED
    BY <2>1, <2>2, Facts DEF EpochTypes
<1>14. Mounted(f)
  BY <1>1, Facts DEF Enrolled, Still
<1>15. \A g \in FiberIds : ~Mounted(g) =>
         /\ state'[g] = state[g] /\ epoch'[g] = epoch[g]
         /\ pc'[Task(g)] = pc[Task(g)] /\ pc'[Disposal(g)] = pc[Disposal(g)]
  <2>1. \A g \in FiberIds \ {f} : epoch'[g] = epoch[g]
    BY Facts DEF EpochTypes
  <2> QED
    BY <1>1, <1>14, <1>4, <1>5, <2>1, Processes
<1>16. Enrolled'
  <2>1. \A g \in FiberIds : ~Mounted(g) => ~evaluation[g] /\ evals[g] = 0 /\ ~dirty[g]
    BY Facts DEF Enrolled
  <2>2. \A o \in Ops : Mounted(op[o].fiber)
    BY Facts DEF Enrolled
  <2> QED
    BY <1>2, <1>10, <1>14, <1>15, <2>1, <2>2, Facts, EnrolledKept
<1>17. Lineage'
  BY <1>2, <1>6, <1>15, Facts DEF Lineage, Mounted
<1>18. Scoped'
  BY <1>1, <1>2, <1>4, Facts, ScopedKept
<1> QED
  BY <1>8, <1>9, <1>10, <1>11, <1>12, <1>13, <1>16, <1>17, <1>18 DEF IInv, Types

\* _task starts.
LEMMA StartTaskStep == ASSUME IInv, AtAwait, NEW f \in FiberIds, StartTask(f) PROVE IInv'
<1> SUFFICES ASSUME NEW p, p = Task(f) PROVE IInv'
  OBVIOUS
<1>1. pc[p] = "spawned" /\ stack = <<>> /\ Of(p) = f
  BY Processes DEF StartTask, AtAwait
<1>2. \/ work[f] \in {"unload", "reload"} /\ state[f] = "ACTIVE"
      \/ work[f] = "release" /\ state[f] = "FAILED"
      \/ work[f] = "finish" /\ state[f] = "LOADING"
  BY <1>1, Facts DEF TaskTable, Row, Still, Teardown
<1>3. \/ /\ pc' = [pc EXCEPT ![p] = "unwind"] /\ stack' = <<>>
         /\ kids' = [kids EXCEPT ![p] = Reverse(children[f])]
         /\ \/ /\ work[f] \in {"unload", "reload"}
               /\ state' = [state EXCEPT ![f] = "UNLOADING"]
               /\ epoch' = [epoch EXCEPT ![f] = <<>>]
            \/ work[f] = "release" /\ state[f] = "FAILED" /\ state' = state /\ epoch' = epoch
      \/ /\ pc' = [pc EXCEPT ![p] = "running"]
         /\ stack' = <<[do |-> "body", fiber |-> f]>> \o <<>>
         /\ kids' = kids /\ state' = state /\ epoch' = epoch
         /\ work[f] = "finish" /\ state[f] = "LOADING"
  <2>1. CASE work[f] \in {"unload", "reload"}
    <3>1. BeginUnload(p) /\ stack' = stack
      BY <2>1 DEF StartTask
    <3> QED
      BY <1>1, <2>1, <3>1 DEF BeginUnload
  <2>2. CASE work[f] = "release"
    BY <1>1, <1>2, <2>2 DEF StartTask
  <2>3. CASE work[f] = "finish"
    BY <1>1, <1>2, <2>3 DEF StartTask, Call
  <2> QED
    BY <1>2, <2>1, <2>2, <2>3
<1>4. UNCHANGED <<looping, treeVars, error, config, held, loads, script, scope,
                  waitVars, gate, op, work, bound>>
  BY DEF StartTask
<1> QED
  BY <1>1, <1>3, <1>4, TaskTurns

\* What a body awaited is there.
LEMMA BodyResumesStep == ASSUME IInv, AtAwait, NEW f \in FiberIds, BodyResumes(f) PROVE IInv'
<1> SUFFICES ASSUME NEW p, p = Task(f) PROVE IInv'
  OBVIOUS
<1>1. pc[p] = "body" /\ stack = <<>> /\ Of(p) = f
  BY Processes DEF BodyResumes, AtAwait
<1>2. work[f] = "finish" /\ state[f] = "LOADING"
  BY <1>1, Facts DEF TaskTable, Row, Still, Teardown
<1>3. /\ pc' = [pc EXCEPT ![p] = "running"]
      /\ stack' = <<[do |-> "body", fiber |-> f]>> \o <<>>
      /\ kids' = kids /\ state' = state /\ epoch' = epoch
      /\ UNCHANGED <<looping, treeVars, error, config, held, loads, script, scope,
                     waitVars, gate, op, work, bound>>
  BY <1>1 DEF BodyResumes, Call, lifeVars
<1> QED
  BY <1>1, <1>2, <1>3, TaskTurns

\* DisposeChild: the disposal of a child is spawned.
LEMMA DisposeChildStep ==
  ASSUME IInv, AtAwait, NEW p \in Procs, DisposeChild(p) PROVE IInv'
<1> SUFFICES ASSUME NEW c, c = Head(kids[p]), NEW d, d = Disposal(c) PROVE IInv'
  OBVIOUS
<1>1. /\ kids[p] # <<>> /\ pc[d] = "idle"
      /\ pc' = [pc EXCEPT ![d] = "spawned"]
      /\ UNCHANGED <<looping, stack, treeVars, lifeVars, waitVars, gate, kids, op, work, bound>>
  BY DEF DisposeChild
<1>2. c \in FiberIds /\ Mounted(c)
  <2>1. kids[p] \in Seq(FiberIds)
    BY Facts DEF ProcTypes
  <2>2. 1 \in DOMAIN kids[p] /\ c = kids[p][1] /\ c \in FiberIds
    BY <1>1, <2>1
  <2> QED
    BY <2>2, Facts DEF Lineage
<1>3. /\ stack = <<>> /\ d \in Procs /\ Of(d) = c /\ \A g \in FiberIds : d # Task(g)
      /\ \A q \in Procs : ~Hot(q)
      /\ \A g \in FiberIds : pc[Task(g)] # "running"
  BY <1>2, Awaiting, Processes
<1>4. /\ looping' = looping /\ stack' = stack /\ plugin' = plugin /\ children' = children
      /\ scope' = scope /\ work' = work /\ watch' = watch /\ dirty' = dirty /\ epoch' = epoch
      /\ evaluation' = evaluation /\ evals' = evals /\ op' = op /\ gate' = gate
      /\ state' = state /\ kids' = kids
  BY <1>1 DEF treeVars, lifeVars, waitVars
<1>5. /\ pc' \in [Procs -> Places] /\ pc'[d] = "spawned"
      /\ \A q \in Procs \ {d} : pc'[q] = pc[q]
  <2>1. pc \in [Procs -> Places] /\ "spawned" \in Places
    BY Facts DEF ProcTypes, Places
  <2> QED
    BY <1>1, <1>3, <2>1
<1>6. TaskTable' /\ Gated' /\ Unstarted'
  <2>1. pc'[Task(c)] = pc[Task(c)] /\ \A q \in Procs : Of(q)' = Of(q)
    BY <1>2, <1>3, <1>4, <1>5, Processes, OfKept
  <2>2. Row(c)'
    <3>1. Row(c)
      BY <1>2, Facts DEF TaskTable
    <3> QED
      BY <1>4, <2>1, <3>1 DEF Row, Still
  <2>3. (~looping \/ dirty'[c]) /\ state'[c] \in {"PENDING", "ACTIVE"} => Still(c)'
    BY <1>2, <1>4, <2>1, Facts DEF Unstarted, Still
  <2>4. ASSUME NEW q \in Procs, Of(q) = c, q # Task(c) PROVE PastGate(q)'
    <3>1. PastGate(q)
      BY <2>4, Facts DEF Gated
    <3>2. CASE q = d
      BY <1>5, <3>2 DEF PastGate, Teardown
    <3>3. CASE q # d
      BY <1>4, <1>5, <2>1, <2>4, <3>1, <3>3 DEF PastGate, Rests, Still
    <3> QED
      BY <3>2, <3>3
  <2>5. \A q \in Procs : Of(q) # c => pc'[q] = pc[q]
    BY <1>3, <1>5
  <2> QED
    BY <1>2, <1>4, <2>2, <2>3, <2>4, <2>5, Local
<1>7. Alone'
  <2>1. \A q \in Procs : ~Hot(q)'
    BY <1>3, <1>4, <1>5 DEF Hot, Closes
  <2> QED
    BY <2>1 DEF Alone
<1>8. stack' \in Seq(Frames) /\ Stacked' /\ \A i \in DOMAIN stack' : FALSE
  <2>1. \A g \in FiberIds : pc'[Task(g)] # "running"
    BY <1>3, <1>5, Processes
  <2> QED
    BY <1>3, <1>4, <2>1, StackEmpty
<1>9. /\ TreeTypes' /\ LifeTypes' /\ EpochTypes' /\ WaitTypes' /\ BoundTypes'
      /\ script' \in [FiberIds -> Seq(Steps)] /\ looping' \in BOOLEAN
  BY <1>1, Facts, Kept DEF treeVars, lifeVars
<1>10. ProcTypes'
  BY <1>4, <1>5, Facts DEF ProcTypes
<1>11. \A g \in FiberIds : ~Mounted(g) =>
         pc'[Task(g)] = pc[Task(g)] /\ pc'[Disposal(g)] = pc[Disposal(g)]
  BY <1>2, <1>5, Processes
<1>12. Enrolled'
  <2>1. \A g \in FiberIds : ~Mounted(g) => ~evaluation[g] /\ evals[g] = 0 /\ ~dirty[g]
    BY Facts DEF Enrolled
  <2>2. \A o \in Ops : Mounted(op[o].fiber)
    BY Facts DEF Enrolled
  <2> QED
    BY <1>4, <1>8, <1>11, <2>1, <2>2, Facts, EnrolledKept
<1>13. Lineage'
  BY <1>4, <1>11, Facts, LineageKept
<1>14. Scoped'
  BY <1>1, <1>4, <1>5, Facts, ScopedKept
<1> QED
  BY <1>6, <1>7, <1>8, <1>9, <1>10, <1>12, <1>13, <1>14 DEF IInv, Types

\* The end of a call, an answer or a cancellation.
LEMMA CallerEnds ==
  ASSUME IInv, AtAwait, NEW o \in Ops, NEW p, p = Caller(o), pc[p] # "scope",
         NEW w \in {"done", "raised", "cancelled"}, pc' = [pc EXCEPT ![p] = w],
         NEW f, f = Of(p),
         gate' = [gate EXCEPT ![f] = IF gate[f] = p THEN None ELSE gate[f]] \/ gate' = gate,
         UNCHANGED <<looping, stack, treeVars, lifeVars, waitVars, kids, op, work, bound>>
  PROVE  IInv'
<1>1. /\ stack = <<>> /\ p \in Procs /\ f \in FiberIds
      /\ \A g \in FiberIds : p # Task(g) /\ p # Disposal(g)
      /\ \A q \in Procs : ~Hot(q)
      /\ \A g \in FiberIds : pc[Task(g)] # "running"
  BY Awaiting, Processes, Facts, OfTyped
<1>2. /\ looping' = looping /\ stack' = stack /\ plugin' = plugin /\ children' = children
      /\ scope' = scope /\ work' = work /\ watch' = watch /\ dirty' = dirty /\ epoch' = epoch
      /\ evaluation' = evaluation /\ evals' = evals /\ op' = op
      /\ state' = state /\ kids' = kids
  BY DEF treeVars, lifeVars, waitVars
<1>3. /\ pc' \in [Procs -> Places] /\ pc'[p] = w
      /\ \A q \in Procs \ {p} : pc'[q] = pc[q]
  <2>1. pc \in [Procs -> Places] /\ w \in Places
    BY Facts DEF ProcTypes, Places
  <2> QED
    BY <1>1, <2>1
<1>4. /\ gate' \in [FiberIds -> Procs \cup {None}]
      /\ \A g \in FiberIds \ {f} : gate'[g] = gate[g]
      /\ \A q \in Procs \ {p} : gate[f] = q => gate'[f] = q
  <2>1. gate \in [FiberIds -> Procs \cup {None}]
    BY Facts DEF ProcTypes
  <2>2. CASE gate[f] = p
    <3>1. gate' = gate \/ gate' = [gate EXCEPT ![f] = None]
      BY <2>2
    <3> QED
      BY <1>1, <2>1, <2>2, <3>1, Updated
  <2>3. CASE gate[f] # p
    <3>1. gate' = gate
      BY <2>1, <2>3
    <3> QED
      BY <2>1, <3>1
  <2> QED
    BY <2>2, <2>3
<1>5. TaskTable' /\ Gated' /\ Unstarted'
  <2>1. pc'[Task(f)] = pc[Task(f)] /\ \A q \in Procs : Of(q)' = Of(q)
    BY <1>1, <1>2, <1>3, Processes, OfKept
  <2>2. Row(f)'
    <3>1. Row(f)
      BY <1>1, Facts DEF TaskTable
    <3> QED
      BY <1>2, <2>1, <3>1 DEF Row, Still
  <2>3. (~looping \/ dirty'[f]) /\ state'[f] \in {"PENDING", "ACTIVE"} => Still(f)'
    BY <1>1, <1>2, <2>1, Facts DEF Unstarted, Still
  <2>4. ASSUME NEW q \in Procs, Of(q) = f, q # Task(f) PROVE PastGate(q)'
    <3>1. PastGate(q)
      BY <2>4, Facts DEF Gated
    <3>2. CASE q = p
      BY <1>3, <3>2 DEF PastGate, Teardown
    <3>3. CASE q # p
      BY <1>2, <1>3, <1>4, <2>1, <2>4, <3>1, <3>3 DEF PastGate, Rests, Still
    <3> QED
      BY <3>2, <3>3
  <2>5. \A q \in Procs : Of(q) # f => pc'[q] = pc[q]
    BY <1>3
  <2> QED
    BY <1>1, <1>2, <1>4, <2>2, <2>3, <2>4, <2>5, Local
<1>6. Alone'
  <2>1. \A q \in Procs : ~Hot(q)'
    BY <1>1, <1>2, <1>3 DEF Hot, Closes
  <2> QED
    BY <2>1 DEF Alone
<1>7. stack' \in Seq(Frames) /\ Stacked' /\ \A i \in DOMAIN stack' : FALSE
  <2>1. \A g \in FiberIds : pc'[Task(g)] # "running"
    BY <1>1, <1>3, Processes
  <2> QED
    BY <1>1, <1>2, <2>1, StackEmpty
<1>8. /\ TreeTypes' /\ LifeTypes' /\ EpochTypes' /\ WaitTypes' /\ BoundTypes'
      /\ script' \in [FiberIds -> Seq(Steps)] /\ looping' \in BOOLEAN
  BY Facts, Kept DEF treeVars, lifeVars
<1>9. ProcTypes'
  BY <1>2, <1>3, <1>4, Facts DEF ProcTypes
<1>10. \A g \in FiberIds :
         pc'[Task(g)] = pc[Task(g)] /\ pc'[Disposal(g)] = pc[Disposal(g)]
  BY <1>1, <1>3, Processes
<1>11. Enrolled'
  <2>1. \A g \in FiberIds : ~Mounted(g) => ~evaluation[g] /\ evals[g] = 0 /\ ~dirty[g]
    BY Facts DEF Enrolled
  <2>2. \A r \in Ops : Mounted(op[r].fiber)
    BY Facts DEF Enrolled
  <2> QED
    BY <1>2, <1>7, <1>10, <2>1, <2>2, Facts, EnrolledKept
<1>12. Lineage'
  BY <1>2, <1>10, Facts, LineageKept
<1>13. Scoped'
  BY <1>2, <1>3, Facts, ScopedKept
<1> QED
  BY <1>5, <1>6, <1>7, <1>8, <1>9, <1>11, <1>12, <1>13 DEF IInv, Types

\* An await of a caller is answered.
LEMMA CallsStep == ASSUME IInv, AtAwait, NEW o \in Ops, Calls(o) PROVE IInv'
<1>1. CASE Settles(o)
  BY <1>1, CallerEnds DEF Settles
<1>2. CASE DisposeReturns(o)
  <2> DEFINE w == pc[Disposal(Of(Caller(o)))]
  <2>1. w \in {"done", "raised", "cancelled"} /\ pc[Caller(o)] # "scope"
        /\ pc' = [pc EXCEPT ![Caller(o)] = w]
        /\ UNCHANGED <<looping, stack, treeVars, lifeVars, waitVars, gate, kids, op, work, bound>>
    BY <1>2 DEF DisposeReturns
  <2> HIDE DEF w
  <2> QED
    BY <2>1, CallerEnds
<1> QED
  BY <1>1, <1>2 DEF Calls

\* A caller is cancelled.
LEMMA CancelStep == ASSUME IInv, AtAwait, NEW o \in Ops, Cancel(o) PROVE IInv'
  BY CallerEnds DEF Cancel

\* A task of the loop that evaluates an instance or only moves what waits for it.
LEMMA Waits ==
  ASSUME IInv, AtAwait, looping, NEW f \in FiberIds, Mounted(f),
         evaluation' \in [FiberIds -> BOOLEAN], evals' \in [FiberIds -> Nat],
         dirty' \in [FiberIds -> BOOLEAN],
         \A g \in FiberIds \ {f} :
           evaluation'[g] = evaluation[g] /\ evals'[g] = evals[g] /\ dirty'[g] = dirty[g],
         dirty'[f] => dirty[f],
         \/ stack' = stack
         \/ /\ stack' = <<[do |-> "evaluate", fiber |-> f]>> \o stack
            /\ ~dirty'[f] /\ (state[f] = "ACTIVE" => Still(f)),
         UNCHANGED <<looping, treeVars, lifeVars, watch, procVars, bound>>
  PROVE  IInv'
<1>1. /\ stack = <<>> /\ \A q \in Procs : ~Hot(q)
      /\ \A g \in FiberIds : pc[Task(g)] # "running"
  BY Awaiting
<1>2. /\ looping' = looping /\ plugin' = plugin /\ children' = children
      /\ scope' = scope /\ work' = work /\ watch' = watch /\ epoch' = epoch
      /\ op' = op /\ gate' = gate /\ state' = state /\ kids' = kids /\ pc' = pc
  BY DEF treeVars, lifeVars, procVars
<1>3. stack' \in Seq(Frames) /\ Stacked' /\ \A i \in DOMAIN stack' : stack'[i].fiber = f
  <2>1. CASE stack' = stack
    BY <1>1, <1>2, <2>1, StackEmpty
  <2>2. CASE /\ stack' = <<[do |-> "evaluate", fiber |-> f]>> \o stack
             /\ ~dirty'[f] /\ (state[f] = "ACTIVE" => Still(f))
    <3>1. stack' = <<[do |-> "evaluate", fiber |-> f]>> \o <<>>
      BY <1>1, <2>2
    <3>2. looping' /\ ~dirty'[f] /\ (state'[f] = "ACTIVE" => Still(f)')
      BY <1>2, <2>2 DEF Still
    <3> QED
      BY <1>1, <1>2, <3>1, <3>2, EvaluateCalled
  <2> QED
    BY <2>1, <2>2
<1>4. TaskTable' /\ Gated'
  BY <1>2, Facts, OfKept DEF TaskTable, Row, Gated, PastGate, Rests, Still
<1>5. Unstarted'
  <2>1. \A g \in FiberIds : dirty'[g] => dirty[g]
    OBVIOUS
  <2> QED
    BY <1>2, <2>1, Facts DEF Unstarted, Still
<1>6. Alone'
  BY <1>1, <1>2 DEF Alone, Hot, Closes
<1>7. /\ TreeTypes' /\ LifeTypes' /\ EpochTypes' /\ ProcTypes' /\ BoundTypes'
      /\ script' \in [FiberIds -> Seq(Steps)] /\ looping' \in BOOLEAN
  BY Facts, Kept DEF treeVars, lifeVars
<1>8. WaitTypes'
  BY <1>2, Facts DEF WaitTypes
<1>9. Enrolled'
  <2>1. \A g \in FiberIds : ~Mounted(g) => ~evaluation'[g] /\ evals'[g] = 0 /\ ~dirty'[g]
    BY Facts DEF Enrolled
  <2>2. \A o \in Ops : Mounted(op[o].fiber)
    BY Facts DEF Enrolled
  <2>3. \A i \in DOMAIN stack' : Mounted(stack'[i].fiber)
    BY <1>3
  <2> QED
    BY <1>2, <2>1, <2>2, <2>3, Facts, EnrolledKept
<1>10. Lineage' /\ Scoped'
  BY <1>2, Facts, LineageKept, ScopedKept
<1> QED
  BY <1>3, <1>4, <1>5, <1>6, <1>7, <1>8, <1>9, <1>10 DEF IInv, Types

\* _later wakes up.
LEMMA EvaluationStartsStep ==
  ASSUME IInv, AtAwait, looping, NEW f \in FiberIds, EvaluationStarts(f) PROVE IInv'
<1>1. /\ evaluation[f] /\ Mounted(f)
      /\ evaluation \in [FiberIds -> BOOLEAN] /\ evals \in [FiberIds -> Nat]
      /\ dirty \in [FiberIds -> BOOLEAN]
  BY Facts DEF EvaluationStarts, Enrolled, WaitTypes
<1>2. /\ evaluation' = [evaluation EXCEPT ![f] = FALSE]
      /\ \/ /\ ~dirty[f] /\ Rests(f) /\ evals' = evals
            /\ stack' = <<[do |-> "evaluate", fiber |-> f]>> \o stack
         \/ evals' = [evals EXCEPT ![f] = evals[f] + 1] /\ stack' = stack
      /\ UNCHANGED <<looping, treeVars, lifeVars, watch, dirty, procVars, bound>>
  BY DEF EvaluationStarts, Call
<1>3. /\ evaluation' \in [FiberIds -> BOOLEAN]
      /\ \A g \in FiberIds \ {f} : evaluation'[g] = evaluation[g]
  BY <1>1, <1>2
<1>4. evals' \in [FiberIds -> Nat] /\ \A g \in FiberIds \ {f} : evals'[g] = evals[g]
  <2>1. evals[f] + 1 \in Nat
    BY <1>1
  <2> QED
    BY <1>1, <1>2, <2>1, Updated
<1>5. \/ stack' = stack
      \/ /\ stack' = <<[do |-> "evaluate", fiber |-> f]>> \o stack
         /\ ~dirty'[f] /\ (state[f] = "ACTIVE" => Still(f))
  BY <1>2 DEF Rests, Still
<1>6. dirty' = dirty /\ UNCHANGED <<looping, treeVars, lifeVars, watch, procVars, bound>>
  BY <1>2
<1> QED
  BY <1>1, <1>3, <1>4, <1>5, <1>6, Waits

\* _later has waited for _task.
LEMMA EvaluationProceedsStep ==
  ASSUME IInv, AtAwait, looping, NEW f \in FiberIds, EvaluationProceeds(f) PROVE IInv'
<1>1. /\ evals[f] > 0 /\ Mounted(f)
      /\ evaluation \in [FiberIds -> BOOLEAN] /\ evals \in [FiberIds -> Nat]
      /\ dirty \in [FiberIds -> BOOLEAN]
  BY Facts DEF EvaluationProceeds, Enrolled, WaitTypes
<1>2. /\ evals' = [evals EXCEPT ![f] = evals[f] - 1]
      /\ ~dirty[f] /\ Rests(f)
      /\ stack' = <<[do |-> "evaluate", fiber |-> f]>> \o stack
      /\ UNCHANGED <<looping, treeVars, lifeVars, evaluation, watch, dirty, procVars, bound>>
  BY DEF EvaluationProceeds, Call, Quiet
<1>3. evals' \in [FiberIds -> Nat] /\ \A g \in FiberIds \ {f} : evals'[g] = evals[g]
  <2>1. evals[f] - 1 \in Nat
    BY <1>1
  <2> QED
    BY <1>1, <1>2, <2>1, Updated
<1>4. ~dirty'[f] /\ (state[f] = "ACTIVE" => Still(f))
  BY <1>2 DEF Rests, Still
<1>5. /\ dirty' = dirty /\ evaluation' = evaluation
      /\ UNCHANGED <<looping, treeVars, lifeVars, watch, procVars, bound>>
  BY <1>2
<1> QED
  BY <1>1, <1>2, <1>3, <1>4, <1>5, Waits

\* What was missed is looked at again.
LEMMA ReconcileStep ==
  ASSUME IInv, AtAwait, looping, NEW f \in FiberIds, Reconcile(f) PROVE IInv'
<1>1. /\ dirty[f] /\ Mounted(f)
      /\ evaluation \in [FiberIds -> BOOLEAN] /\ evals \in [FiberIds -> Nat]
      /\ dirty \in [FiberIds -> BOOLEAN]
  BY Facts DEF Reconcile, Enrolled, WaitTypes
<1>2. /\ dirty' = [dirty EXCEPT ![f] = FALSE]
      /\ stack' = <<[do |-> "evaluate", fiber |-> f]>> \o stack
      /\ UNCHANGED <<looping, treeVars, lifeVars, evaluation, evals, watch, procVars, bound>>
  BY DEF Reconcile, Call
<1>3. /\ dirty' \in [FiberIds -> BOOLEAN] /\ ~dirty'[f]
      /\ \A g \in FiberIds \ {f} : dirty'[g] = dirty[g]
  BY <1>1, <1>2
<1>4. state[f] = "ACTIVE" => Still(f)
  BY <1>1, Facts DEF Unstarted
<1>5. /\ evals' = evals /\ evaluation' = evaluation
      /\ UNCHANGED <<looping, treeVars, lifeVars, watch, procVars, bound>>
  BY <1>2
<1> QED
  BY <1>1, <1>2, <1>3, <1>4, <1>5, Waits

\* Whoever awaits an instance from before the loop starts its work.
LEMMA StartHeldStep == ASSUME IInv, AtAwait, NEW f \in FiberIds, StartHeld(f) PROVE IInv'
<1> SUFFICES ASSUME NEW p, p = Task(f) PROVE IInv'
  OBVIOUS
<1>1. /\ pc[p] = "held"
      /\ pc' = [pc EXCEPT ![p] = "spawned"]
      /\ UNCHANGED <<looping, stack, treeVars, lifeVars, waitVars, gate, kids, op, work, bound>>
  BY DEF StartHeld
<1>2. /\ stack = <<>> /\ p \in Procs /\ Of(p) = f /\ ~Still(f) /\ Mounted(f)
      /\ \A q \in Procs : ~Hot(q)
      /\ \A g \in FiberIds : pc[Task(g)] # "running"
  BY <1>1, Awaiting, Processes, Facts DEF Still, Enrolled
<1>3. /\ looping' = looping /\ stack' = stack /\ plugin' = plugin /\ children' = children
      /\ scope' = scope /\ work' = work /\ watch' = watch /\ dirty' = dirty /\ epoch' = epoch
      /\ evaluation' = evaluation /\ evals' = evals /\ op' = op /\ gate' = gate
      /\ state' = state /\ kids' = kids
  BY <1>1 DEF treeVars, lifeVars, waitVars
<1>4. /\ pc' \in [Procs -> Places] /\ pc'[p] = "spawned"
      /\ \A q \in Procs \ {p} : pc'[q] = pc[q]
  <2>1. pc \in [Procs -> Places] /\ "spawned" \in Places
    BY Facts DEF ProcTypes, Places
  <2> QED
    BY <1>1, <1>2, <2>1
<1>5. TaskTable' /\ Gated' /\ Unstarted'
  <2>1. \A q \in Procs : Of(q)' = Of(q)
    BY <1>3, OfKept
  <2>2. Row(f)'
    <3>1. \/ work[f] \in {"unload", "reload"} /\ state[f] = "ACTIVE"
          \/ work[f] = "release" /\ state[f] = "FAILED"
          \/ work[f] = "finish" /\ state[f] = "LOADING"
      BY <1>1, Facts DEF TaskTable, Row, Still, Teardown
    <3> QED
      BY <1>3, <1>4, <3>1 DEF Row
  <2>3. (~looping \/ dirty'[f]) /\ state'[f] \in {"PENDING", "ACTIVE"} => Still(f)'
    BY <1>2, <1>3, Facts DEF Unstarted
  <2>4. ASSUME NEW q \in Procs, Of(q) = f, q # Task(f) PROVE PastGate(q)'
    <3>1. PastGate(q) /\ pc[q] \notin Teardown \cup {"through"}
      BY <1>2, <2>4, Facts DEF Gated, PastGate, Hot
    <3> QED
      BY <1>3, <1>4, <2>1, <2>4, <3>1 DEF PastGate, Teardown
  <2>5. \A q \in Procs : Of(q) # f => pc'[q] = pc[q]
    BY <1>2, <1>4
  <2> QED
    BY <1>3, <2>2, <2>3, <2>4, <2>5, Local
<1>6. Alone'
  <2>1. \A q \in Procs : ~Hot(q)'
    BY <1>2, <1>3, <1>4 DEF Hot, Closes
  <2> QED
    BY <2>1 DEF Alone
<1>7. stack' \in Seq(Frames) /\ Stacked' /\ \A i \in DOMAIN stack' : FALSE
  <2>1. \A g \in FiberIds : pc'[Task(g)] # "running"
    BY <1>2, <1>4, Processes
  <2> QED
    BY <1>2, <1>3, <2>1, StackEmpty
<1>8. /\ TreeTypes' /\ LifeTypes' /\ EpochTypes' /\ WaitTypes' /\ BoundTypes'
      /\ script' \in [FiberIds -> Seq(Steps)] /\ looping' \in BOOLEAN
  BY <1>1, Facts, Kept DEF treeVars, lifeVars
<1>9. ProcTypes'
  BY <1>3, <1>4, Facts DEF ProcTypes
<1>10. \A g \in FiberIds : ~Mounted(g) =>
         pc'[Task(g)] = pc[Task(g)] /\ pc'[Disposal(g)] = pc[Disposal(g)]
  BY <1>2, <1>4, Processes
<1>11. Enrolled'
  <2>1. \A g \in FiberIds : ~Mounted(g) => ~evaluation[g] /\ evals[g] = 0 /\ ~dirty[g]
    BY Facts DEF Enrolled
  <2>2. \A o \in Ops : Mounted(op[o].fiber)
    BY Facts DEF Enrolled
  <2> QED
    BY <1>3, <1>7, <1>10, <2>1, <2>2, Facts, EnrolledKept
<1>12. Lineage'
  BY <1>3, <1>10, Facts, LineageKept
<1>13. Scoped'
  BY <1>1, <1>3, <1>4, Facts, ScopedKept
<1> QED
  BY <1>5, <1>6, <1>7, <1>8, <1>9, <1>11, <1>12, <1>13 DEF IInv, Types

\* Where a call leaves its caller, and the disposal it may start.
LEMMA Issued ==
  ASSUME IInv, NEW o \in Ops, NEW kind \in Kinds, NEW f \in FiberIds,
         NEW c \in Configs, Issue(o, kind, f, c), NEW p, p = Caller(o), NEW d, d = Disposal(f)
  PROVE  /\ pc' \in [Procs -> Places]
         /\ pc'[p] \in {"settle", "enter", "gate", "done", "disposal"}
         /\ pc'[d] = pc[d] \/ (pc[d] = "idle" /\ pc'[d] = "spawned")
         /\ \A q \in Procs \ {p, d} : pc'[q] = pc[q]
<1>2. p \in Procs /\ d \in Procs /\ p # d
  BY Processes
<1>3. \E w \in {"settle", "enter", "gate", "done", "disposal"}, v \in {pc[d], "spawned"} :
        /\ pc' = [pc EXCEPT ![p] = w, ![d] = v]
        /\ v = "spawned" => v = pc[d] \/ pc[d] = "idle"
  <2> DEFINE W == CASE kind = "await" -> "settle"
                    [] kind = "restart" -> AtGate(f)
                    [] kind = "update" -> IF c = config[f] THEN "done" ELSE AtGate(f)
                    [] kind = "dispose" -> IF state[f] = "DISPOSED" THEN "done" ELSE "disposal"
             V(x) == IF kind = "dispose" /\ state[f] # "DISPOSED" /\ x = "idle" THEN "spawned" ELSE x
  <2>1. pc' = [pc EXCEPT ![p] = W, ![d] = V(@)]
    BY DEF Issue
  <2>2. W \in {"settle", "enter", "gate", "done", "disposal"}
    <3>1. AtGate(f) \in {"enter", "gate"}
      BY DEF AtGate
    <3>2. kind \in {"await", "restart", "update", "dispose"}
      BY ProcessAssumption
    <3> QED
      BY <3>1, <3>2
  <2>3. V(pc[d]) \in {pc[d], "spawned"}
        /\ (V(pc[d]) = "spawned" => V(pc[d]) = pc[d] \/ pc[d] = "idle")
    OBVIOUS
  <2> HIDE DEF W, V
  <2>4. pc' = [pc EXCEPT ![p] = W, ![d] = V(pc[d])]
    BY <1>2, <2>1
  <2> QED
    BY <2>2, <2>3, <2>4
<1> QED
  <2>1. PICK w \in {"settle", "enter", "gate", "done", "disposal"}, v \in {pc[d], "spawned"} :
          /\ pc' = [pc EXCEPT ![p] = w, ![d] = v]
          /\ v = "spawned" => v = pc[d] \/ pc[d] = "idle"
    BY <1>3
  <2>2. pc \in [Procs -> Places] /\ w \in Places /\ v \in Places
    BY <1>2, Facts DEF ProcTypes, Places
  <2>3. pc' \in [Procs -> Places] /\ pc'[p] = w /\ pc'[d] = v
        /\ \A q \in Procs \ {p, d} : pc'[q] = pc[q]
    BY <1>2, <2>1, <2>2
  <2> QED
    BY <2>1, <2>3

\* restart(), update(), dispose() or an await.
LEMMA IssueStep ==
  ASSUME IInv, AtAwait, NEW o \in Ops, NEW kind \in Kinds, NEW f \in FiberIds,
         NEW c \in Configs, Issue(o, kind, f, c)
  PROVE  IInv'
<1> SUFFICES ASSUME NEW p, p = Caller(o), NEW d, d = Disposal(f) PROVE IInv'
  OBVIOUS
<1>1. /\ pc[p] = "idle" /\ Mounted(f)
      /\ op' = [op EXCEPT ![o] = [kind |-> kind, fiber |-> f, config |-> c]]
      /\ UNCHANGED <<looping, stack, treeVars, state, error, epoch, config, loads, script,
                     scope, waitVars, gate, kids, work, bound>>
  BY DEF Issue
<1>2. /\ stack = <<>> /\ p \in Procs /\ d \in Procs /\ p # d
      /\ \A g \in FiberIds : p # Task(g) /\ p # Disposal(g) /\ d # Task(g)
      /\ \A q \in Procs : ~Hot(q)
      /\ \A g \in FiberIds : pc[Task(g)] # "running"
  BY Awaiting, Processes
<1>4. /\ pc' \in [Procs -> Places]
      /\ pc'[p] \in {"settle", "enter", "gate", "done", "disposal"}
      /\ pc'[d] = pc[d] \/ (pc[d] = "idle" /\ pc'[d] = "spawned")
      /\ \A q \in Procs \ {p, d} : pc'[q] = pc[q]
  BY Issued
<1>5. /\ looping' = looping /\ stack' = stack /\ plugin' = plugin /\ children' = children
      /\ scope' = scope /\ work' = work /\ watch' = watch /\ dirty' = dirty /\ epoch' = epoch
      /\ evaluation' = evaluation /\ evals' = evals /\ gate' = gate
      /\ state' = state /\ kids' = kids
  BY <1>1 DEF treeVars, waitVars
<1>6. held' \in [FiberIds -> BOOLEAN]
  <2> DEFINE h == IF kind = "update" THEN f # Root /\ c \in Invalid ELSE held[f]
  <2>1. held' = [held EXCEPT ![f] = h]
    BY DEF Issue
  <2>2. held \in [FiberIds -> BOOLEAN] /\ h \in BOOLEAN
    BY Facts DEF LifeTypes
  <2> HIDE DEF h
  <2> QED
    BY <2>1, <2>2
<1>7. /\ op' \in [Ops -> [kind : Kinds \cup {"none"}, fiber : FiberIds, config : Configs]]
      /\ op'[o].fiber = f /\ \A r \in Ops \ {o} : op'[r] = op[r]
  <2>1. op \in [Ops -> [kind : Kinds \cup {"none"}, fiber : FiberIds, config : Configs]]
    BY Facts DEF ProcTypes
  <2> QED
    BY <1>1, <2>1
<1>8. \A q \in Procs \ {p} : Of(q)' = Of(q)
  <2> SUFFICES ASSUME NEW q \in Procs \ {p} PROVE Of(q)' = Of(q)
    OBVIOUS
  <2>1. CASE \E r \in Ops : q = Caller(r)
    BY <1>7, <2>1 DEF Of, Caller
  <2>2. CASE \E g \in FiberIds : q = Task(g) \/ q = Disposal(g)
    BY <2>2 DEF Of, Task, Disposal
  <2> QED
    BY <2>1, <2>2, Processes
<1>9. TaskTable' /\ Unstarted'
  <2>1. \A g \in FiberIds : pc'[Task(g)] = pc[Task(g)]
    BY <1>2, <1>4, Processes
  <2> QED
    BY <1>5, <2>1, Facts DEF TaskTable, Row, Still, Unstarted
<1>10. Gated'
  <2>1. ASSUME NEW q \in Procs, Of(q)' # Of(q) \/ q # Task(Of(q)) PROVE PastGate(q)'
    <3>1. CASE q \in {p, d} /\ pc'[q] # pc[q]
      BY <1>4, <3>1 DEF PastGate, Teardown
    <3>2. CASE q = p /\ pc'[q] = pc[q]
      BY <1>4, <3>2 DEF PastGate, Teardown
    <3>3. CASE q # p /\ pc'[q] = pc[q]
      <4>1. Of(q)' = Of(q) /\ Of(q) \in FiberIds /\ PastGate(q)
        BY <1>8, <2>1, <3>3, Facts, OfTyped DEF Gated
      <4>2. pc'[Task(Of(q))] = pc[Task(Of(q))]
        BY <1>2, <1>4, <4>1, Processes
      <4> QED
        BY <1>5, <3>3, <4>1, <4>2 DEF PastGate, Rests, Still
    <3> QED
      BY <1>4, <3>1, <3>2, <3>3
  <2> QED
    BY <2>1 DEF Gated
<1>11. Alone'
  <2>1. \A q \in Procs \ {p} : ~Hot(q)'
    BY <1>2, <1>4, <1>5 DEF Hot, Closes
  <2> QED
    BY <1>2, <1>5, <2>1 DEF Alone
<1>12. stack' \in Seq(Frames) /\ Stacked' /\ \A i \in DOMAIN stack' : FALSE
  <2>1. \A g \in FiberIds : pc'[Task(g)] # "running"
    BY <1>2, <1>4, Processes
  <2> QED
    BY <1>2, <1>5, <2>1, StackEmpty
<1>13. /\ TreeTypes' /\ EpochTypes' /\ WaitTypes' /\ BoundTypes'
       /\ script' \in [FiberIds -> Seq(Steps)] /\ looping' \in BOOLEAN
  BY <1>1, <1>5, Facts, Kept
<1>14. LifeTypes'
  BY <1>1, <1>6, Facts DEF LifeTypes
<1>15. ProcTypes'
  BY <1>4, <1>5, <1>7, Facts DEF ProcTypes
<1>16. \A g \in FiberIds : ~Mounted(g) =>
         pc'[Task(g)] = pc[Task(g)] /\ pc'[Disposal(g)] = pc[Disposal(g)]
  BY <1>1, <1>2, <1>4, Processes
<1>17. Enrolled'
  <2>1. \A g \in FiberIds : ~Mounted(g) => ~evaluation[g] /\ evals[g] = 0 /\ ~dirty[g]
    BY Facts DEF Enrolled
  <2>2. \A r \in Ops : Mounted(op'[r].fiber)
    BY <1>1, <1>7, Facts DEF Enrolled
  <2> QED
    BY <1>5, <1>12, <1>16, <2>1, <2>2, Facts, EnrolledKept
<1>18. Lineage'
  BY <1>5, <1>16, Facts, LineageKept
<1>19. Scoped'
  <2>1. \A q \in Procs : pc[q] = "scope" => pc'[q] = "scope" /\ Of(q)' = Of(q)
    BY <1>1, <1>4, <1>8
  <2> QED
    BY <1>5, <2>1, Facts DEF Scoped, Mounted
<1> QED
  BY <1>9, <1>10, <1>11, <1>12, <1>13, <1>14, <1>15, <1>17, <1>18, <1>19 DEF IInv, Types

\* The loop runs.
LEMMA StartLoopStep == ASSUME IInv, AtAwait, StartLoop PROVE IInv'
<1>1. /\ looping' = TRUE
      /\ UNCHANGED <<stack, treeVars, lifeVars, waitVars, procVars, bound>>
  BY DEF StartLoop
<1>2. /\ stack = <<>> /\ \A q \in Procs : ~Hot(q)
      /\ \A g \in FiberIds : pc[Task(g)] # "running"
  BY Awaiting
<1>3. /\ stack' = stack /\ plugin' = plugin /\ children' = children
      /\ scope' = scope /\ work' = work /\ watch' = watch /\ dirty' = dirty /\ epoch' = epoch
      /\ evaluation' = evaluation /\ evals' = evals /\ op' = op /\ gate' = gate
      /\ state' = state /\ kids' = kids /\ pc' = pc
  BY <1>1 DEF treeVars, lifeVars, waitVars, procVars
<1>4. stack' \in Seq(Frames) /\ Stacked' /\ \A i \in DOMAIN stack' : FALSE
  BY <1>2, <1>3, StackEmpty
<1>5. TaskTable' /\ Gated'
  BY <1>3, Facts, OfKept DEF TaskTable, Row, Gated, PastGate, Rests, Still
<1>6. Unstarted'
  BY <1>1, <1>3, Facts DEF Unstarted, Still
<1>7. Alone'
  BY <1>2, <1>3 DEF Alone, Hot, Closes
<1>8. /\ TreeTypes' /\ LifeTypes' /\ EpochTypes' /\ WaitTypes' /\ ProcTypes' /\ BoundTypes'
      /\ script' \in [FiberIds -> Seq(Steps)] /\ looping' \in BOOLEAN
  BY <1>1, Facts, Kept DEF lifeVars, treeVars
<1>9. Enrolled'
  BY <1>3, <1>4, Facts DEF Enrolled, Mounted
<1>10. Lineage' /\ Scoped'
  BY <1>3, Facts, LineageKept, ScopedKept
<1> QED
  BY <1>4, <1>5, <1>6, <1>7, <1>8, <1>9, <1>10 DEF IInv, Types

\* Nothing changes.
LEMMA StutterIInv == IInv /\ UNCHANGED vars => IInv'
<1> SUFFICES ASSUME IInv, UNCHANGED vars PROVE IInv'
  OBVIOUS
<1>1. /\ stack' = stack /\ plugin' = plugin /\ children' = children /\ looping' = looping
      /\ scope' = scope /\ work' = work /\ watch' = watch /\ dirty' = dirty /\ epoch' = epoch
      /\ evaluation' = evaluation /\ evals' = evals /\ op' = op /\ gate' = gate
      /\ state' = state /\ kids' = kids /\ pc' = pc /\ script' = script
      /\ UNCHANGED <<treeVars, lifeVars, waitVars, procVars, bound>>
  BY DEF vars, treeVars, lifeVars, waitVars, procVars
<1>2. /\ TreeTypes' /\ LifeTypes' /\ EpochTypes' /\ WaitTypes' /\ ProcTypes' /\ BoundTypes'
  BY <1>1, Facts, Kept DEF lifeVars, treeVars
<1>3. Stacked'
  BY <1>1, Facts DEF Stacked, Distinct, Evaluating, Bodies, BodyOf, Finishing, Still
<1>4. TaskTable' /\ Gated' /\ Unstarted'
  BY <1>1, Facts, OfKept DEF TaskTable, Row, Gated, PastGate, Rests, Still, Unstarted
<1>5. Alone'
  BY <1>1, Facts DEF Alone, Hot, Closes
<1>6. Enrolled'
  BY <1>1, Facts DEF Enrolled, Mounted
<1>7. Lineage' /\ Scoped'
  BY <1>1, Facts, LineageKept, ScopedKept
<1>8. looping' \in BOOLEAN /\ stack' \in Seq(Frames) /\ script' \in [FiberIds -> Seq(Steps)]
  BY <1>1, Facts
<1> QED
  BY <1>2, <1>3, <1>4, <1>5, <1>6, <1>7, <1>8 DEF IInv, Types

----------------------------------------------------------------------------
(* The specification *)

\* A step of an unwind.
LEMMA UnwindingStep ==
  ASSUME IInv, NEW p \in Procs, AtAwait, Unwinding(p) PROVE IInv'
<1>1. Sole(p)
  BY Awaiting DEF Sole
<1>2. CASE DisposeChild(p)
  BY <1>2, DisposeChildStep
<1>3. CASE ChildDisposed(p)
  BY <1>1, <1>3, ChildDisposedStep
<1>4. CASE ChildRaised(p)
  BY <1>1, <1>4, ChildRaisedStep
<1>5. CASE ReleaseScope(p)
  BY <1>1, <1>5, ReleaseScopeStep
<1> QED
  BY <1>2, <1>3, <1>4, <1>5 DEF Unwinding

\* The end of an unwind.
LEMMA LandsStep ==
  ASSUME IInv, NEW p \in Procs, Sole(p), Lands(p) PROVE IInv'
<1>1. ASSUME NEW f \in FiberIds, p = Task(f), TaskLands(f) PROVE IInv'
  BY <1>1, TaskLandsStep
<1>2. ASSUME NEW f \in FiberIds, p = Disposal(f), DisposalLands(f) PROVE IInv'
  BY <1>2, DisposalLandsStep
<1>3. ASSUME NEW o \in Ops, p = Caller(o), CallerLands(o) PROVE IInv'
  BY <1>3, CallerLandsStep
<1> QED
  BY <1>1, <1>2, <1>3 DEF Lands

\* Every step keeps the invariant.
LEMMA StepIInv == IInv /\ [Next]_vars => IInv'
<1> SUFFICES ASSUME IInv, [Next]_vars PROVE IInv'
  OBVIOUS
<1>1. CASE Synchronous
  BY <1>1, EvaluateLoadsStep, EvaluateUnloadsStep, EvaluateNothingStep, BodyProvidesStep,
     BodyMountsStep, BodyAwaitsStep, BodyReturnsStep, BodyRaisesStep DEF Synchronous
<1>2. ASSUME stack = <<>>, NEW p \in Procs,
             \/ CloseScope(p)
             \/ pc[p] = "enter" /\ Enter(p)
             \/ pc[p] = "through" /\ Proceed(p)
             \/ pc[p] = "emptied" /\ Lands(p)
      PROVE  IInv'
  <2>1. Hot(p)
    BY <1>2 DEF Hot, CloseScope
  <2>2. Sole(p)
    BY <1>2, <2>1, Facts DEF Sole, Alone
  <2> QED
    BY <1>2, <2>2, CloseScopeStep, EnterStep, ProceedStep, LandsStep
<1>3. CASE AtAwait /\ StartLoop
  BY <1>3, StartLoopStep
<1>4. ASSUME AtAwait, looping, NEW f \in FiberIds, Tasks(f) PROVE IInv'
  BY <1>4, StartTaskStep, BodyResumesStep, EvaluationStartsStep, EvaluationProceedsStep,
     ReconcileStep, StartHeldStep DEF Tasks
<1>5. ASSUME AtAwait, NEW p \in Procs, Unwinding(p) \/ Enter(p) \/ Proceed(p) \/ Lands(p)
      PROVE  IInv'
  <2>1. Sole(p)
    BY <1>5, Awaiting DEF Sole
  <2> QED
    BY <1>5, <2>1, UnwindingStep, EnterStep, ProceedStep, LandsStep
<1>6. ASSUME AtAwait, NEW o \in Ops, Calls(o) PROVE IInv'
  BY <1>6, CallsStep
<1>7. CASE Environment
  <2>1. AtAwait
    BY <1>7 DEF Environment
  <2>2. ASSUME NEW q \in TopLevel, HostMount(q) PROVE IInv'
    BY <2>1, <2>2, HostMountStep
  <2>3. ASSUME Outside PROVE IInv'
    BY <2>1, <2>3, LateMountStep, CancelStep, IssueStep DEF Outside
  <2> QED
    BY <1>7, <2>2, <2>3 DEF Environment
<1>8. CASE UNCHANGED vars
  BY <1>8, StutterIInv
<1>9. CASE Running
  BY <1>1, <1>2, <1>9 DEF Running
<1>10. CASE AtAwait /\ looping /\ Ready
  BY <1>4, <1>5, <1>6, <1>10 DEF Ready
<1> QED
  BY <1>3, <1>7, <1>8, <1>9, <1>10 DEF Next, Loop

\* The invariant holds in every state of every tree of instances, whatever the
\* plugins, their bodies, the callers and the faults: it is what the theorems below
\* are read off from.
THEOREM Invariance == Spec => []IInv
<1>1. Init => IInv
  BY InitIInv
<1>2. IInv /\ [Next]_vars => IInv'
  BY StepIInv
<1> QED
  BY <1>1, <1>2, PTL DEF Spec

\* The types of the state, of every tree of instances.
THEOREM TypeCorrect == Spec => []TypeOK
<1>1. IInv => TypeOK
  BY Typed DEF IInv
<1> QED
  BY <1>1, Invariance, PTL

\* A set whose members are all equal.
LEMMA AtMostOne ==
  ASSUME NEW S, \A x, y \in S : x = y PROVE Cardinality(S) <= 1
<1>1. CASE S = {}
  BY <1>1, FS_EmptySet
<1>2. CASE S # {}
  <2>1. PICK x \in S : TRUE
    BY <1>2
  <2>2. S = {x}
    BY <2>1
  <2> QED
    BY <2>2, FS_Singleton
<1> QED
  BY <1>1, <1>2

\* Nobody unwinds an instance whose body runs.
LEMMA BodyBlocks ==
  ASSUME IInv, NEW f \in FiberIds, BodyRuns(f), NEW p \in Procs, Of(p) = f
  PROVE  pc[p] \notin Teardown
<1>1. state[f] = "LOADING" /\ pc[Task(f)] \notin Teardown
  <2>1. ASSUME NEW i \in DOMAIN stack, stack[i] = [do |-> "body", fiber |-> f]
        PROVE  state[f] = "LOADING" /\ pc[Task(f)] \notin Teardown
    BY <2>1, Facts DEF Stacked, Bodies, BodyOf, Still, Teardown
  <2>2. ASSUME pc[Task(f)] \in {"body", "running"}
               \/ (pc[Task(f)] \in {"spawned", "held"} /\ work[f] = "finish")
        PROVE  state[f] = "LOADING" /\ pc[Task(f)] \notin Teardown
    BY <2>2, Facts DEF TaskTable, Row, Still, Teardown
  <2> QED
    BY <2>1, <2>2 DEF BodyRuns
<1>2. CASE p = Task(f)
  BY <1>1, <1>2
<1>3. CASE p # Task(f)
  BY <1>1, <1>3, Facts DEF Gated, PastGate
<1> QED
  BY <1>2, <1>3

\* Whatever unloads an instance does so alone, and never while its body runs.
THEOREM OneTeardownAtATime == Spec => []OneAtATime
<1>1. IInv => OneAtATime
  <2> SUFFICES ASSUME IInv, NEW f \in FiberIds
               PROVE  LET unwinding == {p \in Procs : Of(p) = f /\ Unwinds(p)}
                      IN  /\ Cardinality(unwinding) <= 1
                          /\ BodyRuns(f) => unwinding = {}
    BY DEF OneAtATime
  <2> DEFINE unwinding == {p \in Procs : Of(p) = f /\ Unwinds(p)}
  <2>1. \A p \in unwinding : p \in Procs /\ Of(p) = f /\ pc[p] \in Teardown
    BY DEF Unwinds, Teardown
  <2>2. \A p, q \in unwinding : p = q
    BY <2>1, OnlyOne
  <2>3. BodyRuns(f) => unwinding = {}
    BY <2>1, BodyBlocks
  <2> HIDE DEF unwinding
  <2>4. Cardinality(unwinding) <= 1
    BY <2>2, AtMostOne
  <2> QED
    BY <2>3, <2>4 DEF unwinding
<1> QED
  BY <1>1, Invariance, PTL

=============================================================================
