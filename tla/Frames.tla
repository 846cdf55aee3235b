------------------------------- MODULE Frames -------------------------------
(***************************************************************************)
(* Contexts (context.py) and the two things the code keeps in their        *)
(* frames: interceptions (intercept.py) and isolations (realm.py).  A      *)
(* context stores only what it was given; everything else is found by      *)
(* walking to the root each time it is asked for.  The properties compare  *)
(* the walks with tables copied eagerly when the context was made.         *)
(***************************************************************************)
EXTENDS Naturals, Sequences, FiniteSets, Functions

CONSTANTS
    Keys,         \* service names, which are scoped keys too
    Metas,        \* what extend may be given: functions on subsets of Keys
    Entries,      \* what one name may be intercepted with: functions on fields
    Labels,       \* labels of isolations
    Default,      \* the defaults a service declares
    Values,       \* what a service may be bound to
    MaxContexts,  \* bound: contexts made
    MaxBindings   \* bound: services bound at once

VARIABLES
    frames,   \* the contexts made, in order: parent, own_meta by kind, released or not
    minted,   \* the realms minted so far
    interned, \* (name, label) -> the realm interned for it
    bound,    \* (name, realm) -> the value bound
    copied,   \* per context, what an eager copy would hold
    owners    \* for the properties: per binding, the isolation it was made under

framesVars == <<frames, minted, interned, bound, copied, owners>>

Nothing == [n \in {} |-> {}]
Unisolated == 0
Absent == "absent"    \* _MISSING, which nobody passes
Null == "null"        \* a scoped None
FramesConstants ==
    \A meta \in Metas : DOMAIN meta \subseteq Keys /\ \A n \in DOMAIN meta : meta[n] # Absent

Own(meta, ints, iso, parent) ==
    [parent |-> parent, meta |-> meta, ints |-> ints, iso |-> iso, kept |-> TRUE]

FramesInit ==
    /\ frames = <<Own(Nothing, Nothing, Nothing, 0)>>
    /\ minted = 0
    /\ interned = Nothing /\ bound = Nothing
    /\ copied = <<[meta |-> [n \in Keys |-> Absent], conf |-> [n \in Keys |-> Default],
                   home |-> [n \in Keys |-> <<>>]]>>
    /\ owners = Nothing

\* The contexts somebody holds; a context holds its parent.
Extant == {c \in DOMAIN frames : frames[c].kept}

\* lineage: the context, its parent, up to the root.  A context is made after its
\* parent, so that the later of two is the nearer.
LineageOf[c \in DOMAIN frames] ==
    {c} \cup IF frames[c].parent = 0 THEN {} ELSE LineageOf[frames[c].parent]

\* The nearest of the lineage that is one of these, as a singleton, or none.
Nearest(c, these) ==
    {d \in LineageOf[c] \cap these : \A e \in LineageOf[c] \cap these : e <= d}

\* Mutant: a scoped None says nothing.
Truthy(n) == {d \in DOMAIN frames : n \in DOMAIN frames[d].meta /\ frames[d].meta[n] # Null}

\* The frames that say something of a key, and those of an isolation of it.
Scoping(n) == {d \in DOMAIN frames : n \in DOMAIN frames[d].meta}
Isolating(n) == {d \in DOMAIN frames : n \in DOMAIN frames[d].iso}

\* realm_for, without membership: the isolation nearest to the context.
RealmUnder(c, n) ==
    LET near == Nearest(c, Isolating(n)) IN
    IF near = {} THEN Unisolated ELSE frames[CHOOSE d \in near : TRUE].iso[n]

\* _resolve: the frames by presence, then the services.
Resolve(c, n) ==
    LET near == Nearest(c, Scoping(n))
        key == <<n, RealmUnder(c, n)>>
    IN IF near # {} THEN frames[CHOOSE d \in near : TRUE].meta[n]
       ELSE IF key \in DOMAIN bound THEN bound[key] ELSE Absent

Merge(below, entry) ==
    [f \in DOMAIN below \cup DOMAIN entry |->
        IF f \in DOMAIN entry THEN entry[f] ELSE below[f]]

\* interceptions: the frames of the lineage with an entry for the name.
Interceptions(c, n) == {d \in LineageOf[c] : n \in DOMAIN frames[d].ints}

\* effective_config of a service that does not fold them itself: merged over its
\* defaults, the outermost first.
Effective(c, n) ==
    LET merged[d \in 0..c] ==
          IF d = 0 THEN Default
          ELSE IF d \in Interceptions(c, n) THEN Merge(merged[d - 1], frames[d].ints[n])
          ELSE merged[d - 1]
    IN merged[c]

Made(frame, copy) ==
    /\ frames' = Append(frames, frame)
    /\ copied' = Append(copied, copy)

May(c) == c \in Extant /\ Len(frames) < MaxContexts

Extend(c, meta) ==
    /\ May(c)
    /\ Made(Own(meta, Nothing, Nothing, c), [copied[c] EXCEPT !.meta = Merge(@, meta)])
    /\ UNCHANGED <<minted, interned, bound, owners>>

InterceptAll(c, ints) ==
    /\ May(c)
    /\ Made(Own(Nothing, ints, Nothing, c),
            [copied[c] EXCEPT !.conf = [n \in Keys |->
                IF n \in DOMAIN ints THEN Merge(@[n], ints[n]) ELSE @[n]]])
    /\ UNCHANGED <<minted, interned, bound, owners>>

\* An interned realm is held weakly: by the frames of the contexts kept and by
\* the bindings made in it.
Held(realm) ==
    \/ \E c \in Extant : realm \in Range(frames[c].iso)
    \/ \E key \in DOMAIN bound : key[2] = realm

Old(n, label) ==
    IF label # Null /\ <<n, label>> \in DOMAIN interned /\ Held(interned[<<n, label>>])
    THEN {interned[<<n, label>>]} ELSE {}

\* isolate with one declared name: isolated_realm mints, or finds, its realm.
Isolate(c, n, label) ==
    LET fresh == minted + 1
        realm == IF Old(n, label) = {} THEN fresh ELSE CHOOSE r \in Old(n, label) : TRUE
    IN /\ May(c)
       /\ minted' = IF Old(n, label) = {} THEN fresh ELSE minted
       /\ interned' = Merge(interned, [k \in {<<n, label>>} |-> realm])
       /\ Made(Own(Nothing, Nothing, [m \in {n} |-> realm], c),
               [copied[c] EXCEPT !.home[n] =
                   IF label = Null THEN <<Len(frames) + 1>> ELSE <<n, label>>])
       /\ UNCHANGED <<bound, owners>>

\* The last reference to a context without children goes.
Release(c) ==
    /\ c \in Extant \ {1}
    /\ \A d \in Extant : frames[d].parent # c
    /\ frames' = [frames EXCEPT ![c].kept = FALSE]
    /\ UNCHANGED <<minted, interned, bound, copied, owners>>

\* A service is provided where a context resolves its name, or withdrawn.
Bind(c, n, value) ==
    LET key == <<n, RealmUnder(c, n)>> IN
    /\ c \in Extant
    /\ key \notin DOMAIN bound /\ Cardinality(DOMAIN bound) < MaxBindings
    /\ bound' = Merge(bound, [k \in {key} |-> value])
    /\ owners' = Merge(owners, [k \in {key} |-> copied[c].home[n]])
    /\ UNCHANGED <<frames, minted, interned, copied>>

Retract(key) ==
    /\ key \in DOMAIN bound
    /\ bound' = Restrict(bound, DOMAIN bound \ {key})
    /\ owners' = Restrict(owners, DOMAIN owners \ {key})
    /\ UNCHANGED <<frames, minted, interned, copied>>

FramesNext ==
    \/ \E c \in Extant :
         \/ \E meta \in Metas : Extend(c, meta)
         \/ \E n \in Keys : \E entry \in Entries : InterceptAll(c, [m \in {n} |-> entry])
         \/ \E n \in Keys : \E label \in Labels \cup {Null} : Isolate(c, n, label)
         \/ Release(c)
         \/ \E n \in Keys, value \in Values : Bind(c, n, value)
    \/ \E key \in DOMAIN bound : Retract(key)

FramesSpec == FramesInit /\ [][FramesNext]_framesVars

-----------------------------------------------------------------------------
\* Properties

\* Walking is copying: what a name resolves to is what an eager copy of the frames
\* holds, a scoped None included, and only without one the service provided under
\* the same isolation of the name (Context._resolve, realm_for).
ResolvedAsCopied ==
    \A c \in Extant, n \in Keys :
        LET there == {k \in DOMAIN bound : k[1] = n /\ owners[k] = copied[c].home[n]} IN
        IF copied[c].meta[n] # Absent THEN Resolve(c, n) = copied[c].meta[n]
        ELSE IF there = {} THEN Resolve(c, n) = Absent
        ELSE \A k \in there : Resolve(c, n) = bound[k]

\* The configuration a service has for a context is its defaults overlaid by every
\* interception on the way down, outermost first, a null being a value
\* (effective_config, merge_interceptions).
ConfiguredAsCopied == \A c \in Extant, n \in Keys : Effective(c, n) = copied[c].conf[n]

\* Two contexts share a name's realm exactly if the same isolation reaches both, or
\* two with the same label, and an interned realm that went away comes back as a
\* new one everywhere at once (isolated_realm).
RealmsAsDeclared ==
    \A c, d \in Extant, n \in Keys :
        RealmUnder(c, n) = RealmUnder(d, n) <=> copied[c].home[n] = copied[d].home[n]

\* Frames are shared, and nobody can tell: every walk answers like a copy.
WalksAreCopies == ResolvedAsCopied /\ ConfiguredAsCopied /\ RealmsAsDeclared
=============================================================================
