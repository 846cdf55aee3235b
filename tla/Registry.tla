----------------------------- MODULE Registry ------------------------------
(***************************************************************************)
(* The service registry of cordis/registry.py: providers that bind a name  *)
(* in the realm of their context, at once or behind a readiness gate, as   *)
(* an effect of their scope, and the listeners that hear of every change.  *)
(* Each provider provides once, in a scope of its own; the loads of an     *)
(* instance that is reloaded are several providers of one name.            *)
(***************************************************************************)
EXTENDS Naturals, FiniteSets, Sequences, SequencesExt

CONSTANTS
  Providers,     \* bindings there may be, each also the value it binds
  Consumers,     \* instances that observe the registry for one name each
  Names,
  Realms,
  Contexts,
  None,          \* no provider, no realm, no context, no listener
  Outer,         \* realm -> the realm that encloses it
  DefaultRealm,
  Above,         \* context -> the context it extends
  Isolates,      \* context -> name -> the realm its own frame gives the name
  Enters,        \* context -> the realm its own frame gives to all names
  NameOf,        \* provider -> the name it binds
  From,          \* provider -> its context
  Gate,          \* provider -> whether it has a readiness gate
  Needs,         \* consumer -> the name it resolves
  At,            \* consumer -> its context
  Faulty,        \* the consumers whose listener may raise
  Insiders       \* the consumers mounted by a listener while it is called

ASSUME RegistryAssumption ==
  /\ None \notin Providers \cup Consumers \cup Realms \cup Contexts
  /\ Outer \in [Realms -> Realms \cup {None}]
  /\ DefaultRealm \in Realms
  /\ Above \in [Contexts -> Contexts \cup {None}]
  /\ Isolates \in [Contexts -> [Names -> Realms \cup {None}]]
  /\ Enters \in [Contexts -> Realms \cup {None}]
  /\ NameOf \in [Providers -> Names]
  /\ From \in [Providers -> Contexts]
  /\ Gate \in [Providers -> {"none", "await", "generator"}]
  /\ Needs \in [Consumers -> Names]
  /\ At \in [Consumers -> Contexts]

\* A context extends an earlier one and a realm is made inside another, so that
\* every walk along them ends.
ASSUME TreeAssumption ==
  /\ \A X \in SUBSET Contexts : X # {} => \E x \in X : Above[x] \notin X
  /\ \A R \in SUBSET Realms : R # {} => \E r \in R : Outer[r] \notin R

VARIABLES
  held,       \* name, realm -> the provider whose binding claims it, or None
  published,  \* the bindings that have been made visible
  phase,      \* provider -> how far its registration is
  disposed,   \* the providers whose effect record has been disposed
  scope,      \* provider -> its scope: open, closing, taken
  stack,      \* announcements in progress, the innermost first
  listeners,  \* the consumers that listen, in order
  told,       \* the consumers that heard of a change and did not look yet
  view        \* consumer -> what its name resolved to when it last looked

bindingVars == <<held, published, phase>>
viewVars    == <<listeners, told, view>>
vars == <<bindingVars, disposed, scope, stack, viewVars>>

Init ==
  /\ held = [k \in Names \X Realms |-> None]
  /\ published = {}
  /\ phase = [p \in Providers |-> "new"]
  /\ disposed = {}
  /\ scope = [p \in Providers |-> "open"]
  /\ stack = <<>>
  /\ listeners = <<>>
  /\ told = {}
  /\ view = [c \in Consumers |-> None]

----------------------------------------------------------------------------
(* Realms and resolution *)

\* Mutant: a name isolated for a context is looked for in the context's realm.
RealmOf(x, n) ==
  LET of[y \in Contexts] ==
        IF Enters[y] # None THEN Enters[y]
        ELSE IF Above[y] = None THEN DefaultRealm
        ELSE of[Above[y]]
  IN  of[x]

\* realm_for: the nearest frame that says where the name is, or where all are.
RealmFor(x, n) ==
  LET of[y \in Contexts] ==
        IF Isolates[y][n] # None THEN Isolates[y][n]
        ELSE IF Enters[y] # None THEN Enters[y]
        ELSE IF Above[y] = None THEN DefaultRealm
        ELSE of[Above[y]]
  IN  of[x]

\* lookup: the nearest published binding, outwards.
Lookup(n, x) ==
  LET at[r \in Realms] ==
        IF held[n, r] \in published THEN held[n, r]
        ELSE IF Outer[r] = None THEN None
        ELSE at[Outer[r]]
  IN  at[RealmFor(x, n)]

Resolved(c) == Lookup(Needs[c], At[c])

\* The key a provider binds.
Key(p) == <<NameOf[p], RealmFor(From[p], NameOf[p])>>

----------------------------------------------------------------------------
(* Announcing.  Nothing is awaited until every listener has been called. *)

AtAwait == stack = <<>>

\* A task may call, or the listener that is being called.
MayCall == stack # <<>> => Head(stack).at # None

Announce(kind, p) ==
  stack' = <<[kind |-> kind, of |-> p, todo |-> listeners, at |-> None, raised |-> FALSE]>>
             \o stack

Top == Head(stack)

\* Mutant: a listener that raises ends the announcement.
ListenerEndsAll(raises) ==
  /\ stack # <<>> /\ Top.at # None
  /\ raises => Top.at \in Faulty
  /\ stack' = <<[Top EXCEPT !.at = None, !.raised = @ \/ raises,
                           !.todo = IF raises THEN <<>> ELSE @]>> \o Tail(stack)
  /\ UNCHANGED <<bindingVars, disposed, scope, viewVars>>

\* Fiber._on_binding_change: an instance that needs the name will look again.
Hear ==
  /\ stack # <<>> /\ Top.at = None /\ Top.todo # <<>>
  /\ LET c == Head(Top.todo)
     IN  /\ stack' = <<[Top EXCEPT !.at = c, !.todo = Tail(@)]>> \o Tail(stack)
         /\ told' = IF Needs[c] = NameOf[Top.of] /\ c \in ToSet(listeners)
                    THEN told \cup {c} ELSE told
  /\ UNCHANGED <<bindingVars, disposed, scope, listeners, view>>

\* The listener returns or raises; the next one is called in either case.
ListenerEnds(raises) ==
  /\ stack # <<>> /\ Top.at # None
  /\ raises => Top.at \in Faulty
  /\ stack' = <<[Top EXCEPT !.at = None, !.raised = @ \/ raises]>> \o Tail(stack)
  /\ UNCHANGED <<bindingVars, disposed, scope, viewVars>>

AllTold(kind) == stack # <<>> /\ Top.kind = kind /\ Top.at = None /\ Top.todo = <<>>

----------------------------------------------------------------------------
(* Providing *)

\* Mutant: a claim is written before it is checked.
ClaimAnyway(p) ==
  /\ held' = [held EXCEPT ![Key(p)] = p]
  /\ phase' = [phase EXCEPT ![p] = IF held[Key(p)] # None THEN "failed" ELSE
                                   IF Gate[p] = "none" THEN "announcing" ELSE "opening"]

\* _reserve: a name that is taken, be it by a reservation, is refused and the
\* claim writes nothing.
Claim(p) ==
  IF held[Key(p)] # None
  THEN phase' = [phase EXCEPT ![p] = "failed"] /\ UNCHANGED held
  ELSE /\ held' = [held EXCEPT ![Key(p)] = p]
       /\ phase' = [phase EXCEPT ![p] = IF Gate[p] = "none" THEN "announcing" ELSE "opening"]

\* Mutant: a reservation is visible like a binding.
PublishReserved(p) ==
  IF held[Key(p)] = None
  THEN published' = published \cup {p} /\ IF Gate[p] = "none" THEN Announce("added", p)
                                          ELSE UNCHANGED stack
  ELSE UNCHANGED <<published, stack>>

\* Without a gate the binding is published on the spot.
PublishUngated(p) ==
  IF held[Key(p)] = None /\ Gate[p] = "none"
  THEN published' = published \cup {p} /\ Announce("added", p)
  ELSE UNCHANGED <<published, stack>>

\* provide()
Provide(p) ==
  /\ MayCall
  /\ phase[p] = "new" /\ scope[p] = "open"
  /\ Claim(p)
  /\ PublishUngated(p)
  /\ UNCHANGED <<disposed, scope, viewVars>>

\* _drop: the claim is withdrawn and nobody is told.
Drop(p) == held' = [held EXCEPT ![Key(p)] = IF @ = p THEN None ELSE @]

\* The gate completes, or its iterator yields.
GateOpens(p) ==
  /\ AtAwait
  /\ phase[p] = "opening"
  /\ published' = published \cup {p}
  /\ phase' = [phase EXCEPT ![p] = "announcing"]
  /\ Announce("added", p)
  /\ UNCHANGED <<held, disposed, scope, viewVars>>

\* The gate raises, is cancelled, or its iterator ends without a yield.
GateRaises(p) ==
  /\ AtAwait
  /\ phase[p] = "opening"
  /\ Drop(p)
  /\ phase' = [phase EXCEPT ![p] = "failed"]
  /\ UNCHANGED <<published, disposed, scope, stack, viewVars>>

\* _publish goes on when all listeners were called.  If one raised the binding
\* is withdrawn; else its disposer is recorded, and nobody will run it if the
\* record was disposed while the gate was opening.
Added ==
  /\ AllTold("added")
  /\ LET p == Top.of
     IN  IF Top.raised
         THEN /\ published' = published \ {p}
              /\ Drop(p)
              /\ phase' = [phase EXCEPT ![p] = "failed"]
         ELSE /\ phase' = [phase EXCEPT ![p] = IF p \in disposed THEN "stranded" ELSE "bound"]
              /\ UNCHANGED <<held, published>>
  /\ stack' = Tail(stack)
  /\ UNCHANGED <<disposed, scope, viewVars>>

----------------------------------------------------------------------------
(* Unbinding *)

\* What the iterator of a gate has to tear down is torn down after _unbind.
AfterUnbind(p) == IF Gate[p] = "generator" THEN "closing" ELSE "gone"

\* _unbind, the disposer of a published binding: it takes the key away only if
\* the binding is still its own.
Unbind(p) ==
  /\ Drop(p)
  /\ IF held[Key(p)] = p
     THEN phase' = [phase EXCEPT ![p] = "unbinding"] /\ Announce("removed", p)
     ELSE phase' = [phase EXCEPT ![p] = AfterUnbind(p)] /\ UNCHANGED stack
  /\ UNCHANGED published

\* The record is taken with the disposers it has by now.
TakeRecord(p) ==
  /\ disposed' = disposed \cup {p}
  /\ IF phase[p] = "bound" THEN Unbind(p) ELSE UNCHANGED <<bindingVars, stack>>

\* The handle of the effect is called.  The disposer of a generator gate is a
\* coroutine function: only a task calls and awaits it.
CallHandle(p) ==
  /\ MayCall
  /\ p \notin disposed
  /\ phase[p] = "bound" \/ (phase[p] \in {"opening", "announcing"} /\ Gate[p] # "none")
  /\ Gate[p] = "generator" => AtAwait
  /\ TakeRecord(p)
  /\ UNCHANGED <<scope, viewVars>>

\* EffectScope.dispose of the provider's scope: closed at once, unwound in a task.
DisposeScope(p) ==
  /\ AtAwait
  /\ scope[p] = "open"
  /\ scope' = [scope EXCEPT ![p] = "closing"]
  /\ UNCHANGED <<bindingVars, disposed, stack, viewVars>>

\* Mutant: the unwind leaves a gate's binding to the gate.
UnwindUngated(p) ==
  /\ AtAwait
  /\ scope[p] = "closing"
  /\ scope' = [scope EXCEPT ![p] = "taken"]
  /\ IF phase[p] = "bound" /\ p \notin disposed /\ Gate[p] = "none"
     THEN TakeRecord(p)
     ELSE UNCHANGED <<bindingVars, disposed, stack>>
  /\ UNCHANGED viewVars

Unwind(p) ==
  /\ AtAwait
  /\ scope[p] = "closing"
  /\ scope' = [scope EXCEPT ![p] = "taken"]
  /\ IF phase[p] \in {"opening", "bound"} /\ p \notin disposed
     THEN TakeRecord(p)
     ELSE UNCHANGED <<bindingVars, disposed, stack>>
  /\ UNCHANGED viewVars

\* _unbind returns; if a listener raised it raises, and a gate's iterator is not
\* closed.
Removed ==
  /\ AllTold("removed")
  /\ LET p == Top.of
     IN  phase' = [phase EXCEPT ![p] = IF Top.raised THEN "gone" ELSE AfterUnbind(p)]
  /\ stack' = Tail(stack)
  /\ UNCHANGED <<held, published, disposed, scope, viewVars>>

\* aclose() of the gate's iterator ends.
GateCloses(p) ==
  /\ AtAwait
  /\ phase[p] = "closing"
  /\ phase' = [phase EXCEPT ![p] = "gone"]
  /\ UNCHANGED <<held, published, disposed, scope, stack, viewVars>>

----------------------------------------------------------------------------
(* Consumers *)

\* Fiber._arm: subscribe, then take a first look.
Observe(c) ==
  /\ MayCall
  /\ c \notin Insiders => AtAwait
  /\ c \notin ToSet(listeners)
  /\ listeners' = Append(listeners, c)
  /\ view' = [view EXCEPT ![c] = Resolved(c)]
  /\ UNCHANGED <<bindingVars, disposed, scope, stack, told>>

\* The undo of observe().  An announcement in progress has its own copy.
Stop(c) ==
  /\ MayCall
  /\ \E i \in DOMAIN listeners : listeners[i] = c /\ listeners' = RemoveAt(listeners, i)
  /\ told' = told \ {c}
  /\ view' = [view EXCEPT ![c] = None]
  /\ UNCHANGED <<bindingVars, disposed, scope, stack>>

\* Fiber._evaluate, in a task of its own.
Look(c) ==
  /\ AtAwait
  /\ c \in told
  /\ told' = told \ {c}
  /\ view' = [view EXCEPT ![c] = Resolved(c)]
  /\ UNCHANGED <<bindingVars, disposed, scope, stack, listeners>>

----------------------------------------------------------------------------
Providing(p) == Provide(p) \/ GateOpens(p) \/ GateRaises(p)

Disposing(p) == CallHandle(p) \/ DisposeScope(p) \/ Unwind(p) \/ GateCloses(p)

Announcing == Hear \/ (\E raises \in BOOLEAN : ListenerEnds(raises)) \/ Added \/ Removed

Consuming(c) == Observe(c) \/ Stop(c) \/ Look(c)

Next ==
  \/ Announcing
  \/ \E p \in Providers : Providing(p) \/ Disposing(p)
  \/ \E c \in Consumers : Consuming(c)

Spec == Init /\ [][Next]_vars

----------------------------------------------------------------------------
(* Properties *)

TypeOK ==
  /\ held \in [Names \X Realms -> Providers \cup {None}]
  /\ published \subseteq Providers
  /\ phase \in [Providers -> {"new", "opening", "announcing", "bound", "stranded",
                              "unbinding", "closing", "gone", "failed"}]
  /\ disposed \subseteq Providers
  /\ scope \in [Providers -> {"open", "closing", "taken"}]
  /\ stack \in Seq([kind : {"added", "removed"}, of : Providers, todo : Seq(Consumers),
                     at : Consumers \cup {None}, raised : BOOLEAN])
  /\ listeners \in Seq(Consumers)
  /\ told \subseteq Consumers
  /\ view \in [Consumers -> Providers \cup {None}]

\* A provider that reserves or binds its name.
Claims(p) == phase[p] \in {"opening", "announcing", "bound", "stranded"}

\* SEM-003: two providers never claim one name in one realm, reservations behind
\* a gate included, and the claim a provider believes to have is in the registry.
OneClaim ==
  /\ \A p, q \in Providers : Claims(p) /\ Claims(q) /\ p # q => Key(p) # Key(q)
  /\ \A p \in Providers : Claims(p) => held[Key(p)] = p

\* SEM-005, SEM-006: what a key resolves to is neither behind its gate still, nor
\* failed, nor being torn down.
NeverHalfBuilt ==
  \A k \in Names \X Realms :
    held[k] \in published => phase[held[k]] \in {"announcing", "bound", "stranded"}

\* SEM-001: when the unwind of a provider's scope has passed, its name is free,
\* unless its gate was opening then.
Withdrawn ==
  \A p \in Providers :
    scope[p] = "taken" /\ held[Key(p)] = p => phase[p] \in {"opening", "announcing", "stranded"}

\* SEM-004: at every await, a consumer whose name resolves to something else than
\* when it looked has been told to look again, in whatever realm the change was,
\* whoever raised, and whatever the listeners did while they were called.
Informed ==
  AtAwait =>
    \A c \in ToSet(listeners) : view[c] # Resolved(c) => c \in told

\* A context and those it extends.
Chain(x) ==
  LET up[y \in Contexts] == {y} \cup IF Above[y] = None THEN {} ELSE up[Above[y]]
  IN  up[x]

\* The realms a lookup in realm r searches.
Lineage(r) ==
  LET out[s \in Realms] == {s} \cup IF Outer[s] = None THEN {} ELSE out[Outer[s]]
  IN  out[r]

\* The frames that decide a name for context x: the nearest of those above it.
Deciding(x, n) ==
  LET says == {y \in Chain(x) : Isolates[y][n] # None \/ Enters[y] # None}
  IN  {y \in says : says \subseteq Chain(y)}

Place(x, n) ==
  IF Deciding(x, n) = {} THEN {DefaultRealm}
  ELSE {IF Isolates[y][n] # None THEN Isolates[y][n] ELSE Enters[y] : y \in Deciding(x, n)}

\* PROP-ISO-001, SEM-004 of service isolation: what a consumer sees was bound in
\* a realm its own context looks in for that name; what is bound in an isolated
\* context stays there.
BoundWhereResolved ==
  \A c \in Consumers :
    view[c] # None =>
      LET p == view[c]
      IN  /\ NameOf[p] = Needs[c]
          /\ Place(From[p], NameOf[p]) \subseteq UNION {Lineage(r) : r \in Place(At[c], Needs[c])}
=============================================================================
