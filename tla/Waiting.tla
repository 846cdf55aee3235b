------------------------------- MODULE Waiting -------------------------------
(***************************************************************************)
(* Who waits for whom: the dependency cycles the runtime reports when it   *)
(* has come to rest (fiber.py: audit), and the instance pending() blames   *)
(* for a name nobody has bound (diagnostics.py).  Both read the same tree  *)
(* of instances, none of them loaded.                                      *)
(***************************************************************************)
EXTENDS Naturals, Sequences, FiniteSets

CONSTANTS
    Mounted,    \* the instances in mount order
    Tokens,     \* the names in the order they are declared
    Isolatable  \* the names an instance may be isolated in

VARIABLES
    tree,       \* what each instance requires and provides, and where
    remaining,  \* the graph without the members that were cut out of it
    found       \* the cycles found, as sets of members

waitingVars == <<tree, remaining, found>>

Fibers == {Mounted[i] : i \in DOMAIN Mounted}
Services == {Tokens[i] : i \in DOMAIN Tokens}
Trees == [Fibers -> [missing : SUBSET Services, provides : SUBSET Services,
                     isolated : SUBSET Isolatable]]

WaitingConstants == Mounted \in Seq(Fibers) /\ Tokens \in Seq(Services)

\* The first of a sequence that satisfies P is at this place.
First(s, P(_)) == CHOOSE i \in DOMAIN s : P(s[i]) /\ \A j \in 1..i - 1 : ~P(s[j])

-----------------------------------------------------------------------------
\* Cycles

\* Mutant: one supplier is kept per name, the last.
LastSupplier(f) ==
    {g \in Fibers \ {f} : \E n \in tree[f].missing \cap tree[g].provides :
        \A i, j \in DOMAIN Mounted :
            Mounted[i] = g /\ j > i => n \notin tree[Mounted[j]].provides}

\* _blocked_graph: by name, in whatever realm.
Blockers(f) == {g \in Fibers \ {f} : tree[f].missing \cap tree[g].provides # {}}

\* A cycle as TopologicalSorter reports it: a path that comes back, among those who
\* are blocked.
Paths(nodes) ==
    UNION {{p \in [1..n -> nodes] : \A i, j \in 1..n : p[i] = p[j] => i = j}
             : n \in 1..Cardinality(nodes)}
CyclesIn(nodes, edges(_)) ==
    {p \in Paths({f \in nodes : edges(f) # {}}) :
        \A i \in DOMAIN p : p[IF i = Len(p) THEN 1 ELSE i + 1] \in edges(p[i])}

WaitingInit == tree \in Trees /\ remaining = Fibers /\ found = {}

\* _cycles: one that is found is cut by its first member, and the sort runs again.
CutCycle ==
    \E p \in CyclesIn(remaining, Blockers) :
        /\ found' = found \cup {{p[i] : i \in DOMAIN p}}
        /\ remaining' = remaining \ {p[1]}
        /\ UNCHANGED tree

WaitingNext == CutCycle
WaitingSpec == WaitingInit /\ [][WaitingNext]_waitingVars
Sorted == CyclesIn(remaining, Blockers) = {}

-----------------------------------------------------------------------------
\* Blame

OneRealm(f, g, n) == n \in tree[f].isolated <=> n \in tree[g].isolated

\* _provider: the first instance that would bind the name where f looks for it.
Provides(f, g, n) == g # f /\ n \in tree[g].provides /\ OneRealm(f, g, n)
HasProvider(f, n) == \E g \in Fibers : Provides(f, g, n)
Provider(f, n) == Mounted[First(Mounted, LAMBDA g : Provides(f, g, n))]

\* _next: the first of the names f misses with a provider not yet seen.
Leads(f, n, seen) == n \in tree[f].missing /\ HasProvider(f, n) /\ Provider(f, n) \notin seen

\* _trace: from the provider of a name along such links to the end.
Onward(s) ==
    IF \E m \in Services : Leads(s.end, m, s.seen)
    THEN LET m == Tokens[First(Tokens, LAMBDA x : Leads(s.end, x, s.seen))]
         IN [end |-> Provider(s.end, m), seen |-> s.seen \cup {Provider(s.end, m)}]
    ELSE s

Trace(f, n) ==
    LET step[k \in 0..Len(Mounted)] ==
          IF k = 0 THEN [end |-> Provider(f, n), seen |-> {f, Provider(f, n)}]
          ELSE Onward(step[k - 1])
    IN step[Len(Mounted)]

-----------------------------------------------------------------------------
\* Properties

Owes(f) == {g \in Fibers \ {f} : \E n \in Services : n \in tree[f].missing /\ n \in tree[g].provides}

\* 05 SEM-006: whichever cycles the sort comes upon first, every cycle of
\* declarations shares a member with one that is reported, and what is reported
\* is a cycle (_cycles, _blocked_graph).
CyclesNamed ==
    Sorted =>
      /\ \A p \in CyclesIn(Fibers, Owes) : \E c \in found : \E i \in DOMAIN p : p[i] \in c
      /\ \A c \in found : \E p \in CyclesIn(Fibers, Owes) : c = {p[i] : i \in DOMAIN p}

\* 11 SEM-006: the instance blamed for a missing name is one the waiting instance
\* waits for, through providers in the right realms; and either nobody mounted
\* will bind what it misses, or it misses a name of one of those who wait for it.
BlameEnds ==
    found = {} => \A f \in Fibers : \A n \in tree[f].missing : HasProvider(f, n) =>
      LET t == Trace(f, n)
          waits(g, m) == {h \in Fibers \ {g} : m \in tree[h].provides
                             /\ (m \in tree[g].isolated) = (m \in tree[h].isolated)}
      IN /\ t.end # f
         /\ \A g \in t.seen \ {f} : \E h \in t.seen, m \in Services :
                m \in tree[h].missing /\ g \in waits(h, m)
         /\ \A m \in tree[t.end].missing : waits(t.end, m) = {} \/ waits(t.end, m) \cap t.seen # {}

\* What the reports on a tree at rest say of cycles and of who is to blame holds.
Diagnosed == CyclesNamed /\ BlameEnds
=============================================================================
