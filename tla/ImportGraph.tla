----------------------------- MODULE ImportGraph -----------------------------
(***************************************************************************)
(* What one run of hot reload reads out of the program (hmr.py): which     *)
(* modules a change reaches in the import graph, what a module that        *)
(* declines does to that, and the order in which the others are            *)
(* reimported.  A loop and a recursion of the code are steps here; the     *)
(* program does not change while the run looks at it.                      *)
(***************************************************************************)
EXTENDS Naturals, Sequences, FiniteSets

CONSTANTS
    Modules,   \* the names import_graph maps
    Rank       \* their places in the order of sorted()

VARIABLES
    program,   \* the graph, the changed modules and those that decline
    hit,       \* affected's `out`
    progress,  \* how far the run has come
    calls,     \* the visits in progress, the innermost last; the loop over all
               \* is the first
    seen,      \* reload_order's `seen`
    order      \* reload_order's `order`

graphVars == <<program, hit, progress, calls, seen, order>>

ImportConstants == IsFiniteSet(Modules) /\ Rank \in [Modules -> Nat]

-----------------------------------------------------------------------------

Graphs == [Modules -> SUBSET Modules]
Programs ==
    {p \in [graph : Graphs, names : SUBSET Modules, stubborn : SUBSET Modules] :
        \A m \in Modules : m \notin p.graph[m]}

Imports(m) == program.graph[m]
Importers(m) == {n \in Modules : m \in Imports(n)}

\* escalated: what refuses, and what is reloaded.
Refused == {m \in hit : m \in program.stubborn /\ Importers(m) = {}}
Reloadable == hit \ program.stubborn

GraphInit ==
    /\ program \in Programs
    /\ hit = program.names /\ progress = "growing"
    /\ calls = <<>> /\ seen = {} /\ order = <<>>

\* affected: the sweeps over the graph, in the order of its keys, until one adds
\* nothing.
Reached(m) == m \notin hit /\ Imports(m) \cap hit # {}

Grow(m) ==
    /\ progress = "growing" /\ Reached(m)
    /\ hit' = hit \cup {m}
    /\ UNCHANGED <<program, progress, calls, seen, order>>

\* What a module, or the loop over all of them, has still to visit.
Visiting(m, left) == [module |-> {m}, left |-> left]
Loop == [module |-> {}, left |-> Reloadable]

Escalate ==
    /\ progress = "growing" /\ \A m \in Modules : ~Reached(m)
    /\ IF Refused # {}
       THEN progress' = "refused" /\ UNCHANGED calls
       ELSE progress' = "ordering" /\ calls' = <<Loop>>
    /\ UNCHANGED <<program, hit, seen, order>>

Depth == Len(calls)
Innermost == calls[Depth]
Beneath == SubSeq(calls, 1, Depth - 1)

\* Mutant: no module visits what it imports.
VisitsNothing(m) == {}

\* What visit(m) loops over.
Visits(m) == Imports(m) \cap Reloadable

\* visit(m), called by the innermost loop, which is in the order of the names.
Visit(m) ==
    /\ progress = "ordering" /\ m \in Innermost.left
    /\ \A n \in Innermost.left : Rank[m] <= Rank[n]
    /\ LET caller == Append(Beneath, [Innermost EXCEPT !.left = @ \ {m}])
       IN calls' = IF m \in seen THEN caller ELSE Append(caller, Visiting(m, Visits(m)))
    /\ seen' = seen \cup {m}
    /\ UNCHANGED <<program, hit, progress, order>>

\* A loop is over: its module has its place, or the order is complete.
Visited ==
    /\ progress = "ordering" /\ Innermost.left = {}
    /\ calls' = Beneath
    /\ IF Depth = 1
       THEN progress' = "ordered" /\ UNCHANGED order
       ELSE UNCHANGED progress /\ \E m \in Innermost.module : order' = Append(order, m)
    /\ UNCHANGED <<program, hit, seen>>

GraphNext == (\E m \in Modules : Grow(m) \/ Visit(m)) \/ Escalate \/ Visited

GraphSpec == GraphInit /\ [][GraphNext]_graphVars

-----------------------------------------------------------------------------
\* Properties

Reaches(m, names) ==   \* m is in every set that has names and its own importers
    \A closed \in SUBSET Modules :
        names \subseteq closed
          /\ (\A n \in Modules : Imports(n) \cap closed # {} => n \in closed)
        => m \in closed

Acyclic == \A S \in SUBSET Modules : S # {} => \E m \in S : Imports(m) \cap S = {}

\* After a reload no module holds an old version of another: what imports a
\* reloaded module is reloaded after it, unless it declines, and nothing is
\* reloaded that the change does not reach (affected, escalated, reload_order).
OneVersion ==
    progress = "ordered" =>
      LET done == {order[i] : i \in DOMAIN order}
      IN /\ done = {m \in Modules : Reaches(m, program.names)} \ program.stubborn
         /\ \A i, j \in DOMAIN order :
              /\ order[i] = order[j] => i = j
              /\ Acyclic /\ order[j] \in Imports(order[i]) => j < i
         /\ \A m \in Modules : Imports(m) \cap done # {} /\ m \notin program.stubborn => m \in done

\* A module that declines never hides a change: the run is refused, or something
\* above the module is reloaded in its stead (escalated).
Escalates ==
    progress # "growing" /\ Acyclic =>
      \A m \in hit \cap program.stubborn :
        \/ progress = "refused"
        \/ \E n \in Reloadable : m # n /\ Reaches(n, {m})

\* A reload leaves no module behind and hides no refusal (affected, reload_order).
ReloadComplete == OneVersion /\ Escalates
=============================================================================
