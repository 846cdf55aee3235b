------------------------------- MODULE Scoped -------------------------------
(***************************************************************************)
(* Scoped registration (scope.py): subjects that come and go, each with an *)
(* instance that owns what it contributes.  Two trees: the scopes, by the  *)
(* subject of the context a scope was created in, and their instances, by  *)
(* the instance that context mounts under.  A contribution is at once an   *)
(* entry of a ScopedRegistry and a listener of the event bus.              *)
(***************************************************************************)
EXTENDS Naturals, FiniteSets

CONSTANTS
    Scopes,    \* each created once at most
    Things,    \* contributions, each registered once at most
    Base,      \* the instance above all of them
    NoScope

\* The instance above all is no scope, and nor is the absence of one.
ASSUME ScopedAssumption == IsFiniteSet(Scopes) /\ Base \notin Scopes /\ NoScope \notin Scopes

VARIABLES
    scope,     \* the scopes
    thing      \* the contributions

scopedVars == <<scope, thing>>

Owners == Scopes \cup {Base}

ScopedInit ==
    /\ scope = [s \in Scopes |-> [state |-> "unborn", parent |-> NoScope, home |-> Base,
                                  filter |-> {}, straight |-> TRUE]]
    /\ thing = [e \in Things |-> [state |-> "unborn", scope |-> NoScope, owner |-> Base,
                                  filter |-> {}, straight |-> TRUE]]

\* Scope.lineage: it and its ancestors.
Lineage(s) ==
    LET up[n \in 0..Cardinality(Scopes)] ==
          IF n = 0 THEN {s} \ {NoScope}
          ELSE up[n - 1] \cup ({scope[t].parent : t \in up[n - 1]} \ {NoScope})
    IN up[Cardinality(Scopes)]

Covers(s, t) == s \in Lineage(t)

\* admits: a registration outside every scope answers for all.
Admits(listener, carrier) == listener = NoScope \/ Covers(listener, carrier)

\* A context, as far as scopes go: who owns what is registered through it, its
\* subject, the scopes its filter asks about, and whether it was reached through
\* scope_target.
RootContext == [owner |-> Base, subject |-> NoScope, filter |-> {}, straight |-> TRUE]

FilterOf(s) == {s} \cup scope[s].filter

Context(s) ==
    [owner |-> s, subject |-> s, filter |-> FilterOf(s), straight |-> scope[s].straight]

Born == {s \in Scopes : scope[s].state # "unborn"}
Plain == {RootContext} \cup {Context(s) : s \in Born}

\* scope_target: another subject, and the same owner.
Targeted(base, s) ==
    [base EXCEPT !.subject = s, !.filter = IF s = NoScope THEN @ ELSE @ \cup {s},
                 !.straight = FALSE]

Contexts ==
    Plain \cup {Targeted(base, s) : base \in Plain, s \in Born \cup {NoScope}}

Alive(o) == o # Base => scope[o].state = "alive"

\* Mutant: the instance is mounted beside the one it is created in.
HomeBeside(c) == IF c.owner = Base THEN Base ELSE scope[c.owner].home

\* ctx.plugin mounts under the instance of the context.
HomeIn(c) == c.owner

\* create_scope.
CreateScope(s, c) ==
    /\ scope[s].state = "unborn" /\ Alive(c.owner)
    /\ scope' = [scope EXCEPT ![s] =
          [state |-> "alive", parent |-> c.subject, home |-> HomeIn(c),
           filter |-> c.filter, straight |-> c.straight]]
    /\ UNCHANGED thing

\* ScopedRegistry.register, and bus.on through the same context.
Contribute(e, c) ==
    /\ thing[e].state = "unborn" /\ Alive(c.owner)
    /\ thing' = [thing EXCEPT ![e] =
          [state |-> "live", scope |-> c.subject, owner |-> c.owner,
           filter |-> c.filter, straight |-> c.straight]]
    /\ UNCHANGED scope

\* The handle of a contribution (_forget).
Withdrawn(e) ==
    /\ thing[e].state = "live"
    /\ thing' = [thing EXCEPT ![e].state = "gone"]
    /\ UNCHANGED scope

\* Scope.dispose, or the unload of the instance above: the instance stops taking
\* anything on, and so do those below it, each when its turn comes.
Ends(s) ==
    /\ scope[s].state = "alive"
    /\ scope' = [scope EXCEPT ![s].state = "ending"]
    /\ UNCHANGED thing

\* What is below has ended: the effects are unwound and the instance is disposed.
Ended(s) ==
    /\ scope[s].state = "ending"
    /\ \A t \in Born : scope[t].home = s => scope[t].state = "over"
    /\ scope' = [scope EXCEPT ![s].state = "over"]
    /\ thing' = [e \in Things |-> IF thing[e].owner = s /\ thing[e].state = "live"
                                  THEN [thing[e] EXCEPT !.state = "gone"] ELSE thing[e]]

ScopedNext ==
    \/ \E s \in Scopes : (\E c \in Contexts : CreateScope(s, c)) \/ Ends(s) \/ Ended(s)
    \/ \E e \in Things : (\E c \in Contexts : Contribute(e, c)) \/ Withdrawn(e)

ScopedSpec == ScopedInit /\ [][ScopedNext]_scopedVars

-----------------------------------------------------------------------------
\* Properties

Existing == {e \in Things : thing[e].state = "live"}

\* ScopedRegistry.visible, and what the bus admits.
Visible(e, carrier) == Admits(thing[e].scope, carrier)
Hears(e, carrier) == \A s \in thing[e].filter : Admits(s, carrier)

\* SEM-001, SEM-006: a scope that has ended leaves nothing of its own, nor of a
\* scope created from it, unless that was contributed through a context that
\* scope_target made (create_scope, register).
GoneWithScope ==
    \A s \in Scopes : scope[s].state = "over" =>
        /\ \A t \in Born : Covers(s, t) /\ scope[t].straight => scope[t].state = "over"
        /\ \A e \in Existing : thing[e].straight => ~Covers(s, thing[e].scope)

Homes(s) ==   \* the instances s is mounted under, and its own
    {o \in Scopes : \A S \in SUBSET Scopes :
        s \in S /\ (\A t \in S : scope[t].home # Base => scope[t].home \in S) => o \in S}

\* SEM-002, SEM-003: one subject sees the contributions, and hears the events, of
\* another exactly if one's instance is mounted below the other's: what is
\* contributed above is seen below, what happens below is heard above, and
\* siblings neither see nor hear each other.
OneRelation ==
    \A e \in Existing, s \in Born : thing[e].straight /\ scope[s].straight =>
        /\ Visible(e, s) <=> thing[e].scope \in Homes(s) \cup {NoScope}
        /\ Hears(e, s) <=> Visible(e, s)

\* Scopes end with what they contributed and divide what is seen (scope.py).
ScopesHold == GoneWithScope /\ OneRelation
=============================================================================
