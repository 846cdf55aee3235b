------------------------------ MODULE Layering ------------------------------
(***************************************************************************)
(* Config layering (layering.py): patches, layer by layer, folded into one *)
(* document of entries, with a record of who wrote each field.  The path   *)
(* of an entry is the sequence of the ids that lead to it.  One step folds *)
(* one patch; what the loader makes of the result is Loader.               *)
(***************************************************************************)
EXTENDS Naturals, Sequences

CONSTANTS
    Ids,       \* what an entry may be called in its group
    Base,      \* the document below all layers
    Patches,   \* [id, name, fields, insert]: id is a path, <<>> without one
    Sources,   \* the layers, in order
    MaxPatches,\* bound: patches folded
    AnyName    \* a patch that expects no name

VARIABLES
    entries,     \* path -> entry, a record of its fields; group says whether it is one
    provenance,  \* path -> field -> the layer that wrote it
    layer,       \* the index of the layer being folded
    folded,      \* the patches folded, each with its layer, for the properties
    failure      \* why the fold raised, or "none"

layeringVars == <<entries, provenance, layer, folded, failure>>

Fields == {"name", "config", "group"}
BaseSource == "<base>"

WayTo(p) == {SubSeq(p, 1, n) : n \in 1..Len(p)}
Parent(p) == SubSeq(p, 1, Len(p) - 1)
Over(f, g) == [p \in DOMAIN f \cup DOMAIN g |-> IF p \in DOMAIN f THEN f[p] ELSE g[p]]

\* A document as it is read: every entry in a group of the document.
Document(d) ==
    \A p \in DOMAIN d :
        /\ p \in Seq(Ids) /\ p # <<>> /\ d[p].group \in BOOLEAN
        /\ Len(p) > 1 => Parent(p) \in DOMAIN d /\ d[Parent(p)].group

\* Patch.__post_init__: the id and the rows of an entry are sealed.
LayeringConstants ==
    /\ Document(Base)
    /\ \A patch \in Patches :
         /\ patch.id \in Seq(Ids) /\ Document(patch.insert)
         /\ DOMAIN patch.fields \subseteq Fields \ {"group"}
    /\ Sources \in Seq({Sources[i] : i \in DOMAIN Sources})

\* _claim: the layer has written every field of every row.
Signed(rows, source) == [p \in rows |-> [f \in Fields |-> source]]

LayeringInit ==
    /\ entries = Base
    /\ provenance = Signed(DOMAIN Base, BaseSource)
    /\ layer = 1 /\ folded = <<>> /\ failure = "none"

Folding == failure = "none" /\ layer <= Len(Sources) /\ Len(folded) < MaxPatches

\* The inserted rows, at the paths they get.
Rows(patch) == {patch.id \o q : q \in DOMAIN patch.insert}
Inserted(patch, p) == patch.insert[SubSeq(p, Len(patch.id) + 1, Len(p))]

Target(patch) == patch.id \in DOMAIN entries

\* Why a patch is refused, the first reason in the code's order (_descend,
\* _rewrite, _insert).
Refusal(patch) ==
    LET way == WayTo(patch.id) \ {patch.id}
        lost == {p \in way : p \notin DOMAIN entries}
        blocked == {p \in way \cap DOMAIN entries : ~entries[p].group}
    IN IF blocked # {} THEN "not a group"
       ELSE IF patch.id # <<>> /\ (lost # {} \/ (~Target(patch))) THEN "undefined"
       ELSE IF patch.id # <<>> /\ patch.name # AnyName /\ entries[patch.id].name # patch.name
            THEN "another name"
       ELSE IF Rows(patch) # {} /\ patch.id # <<>> /\ ~entries[patch.id].group THEN "not a group"
       ELSE IF \E p \in Rows(patch) : Parent(p) = patch.id /\ p \in DOMAIN entries THEN "taken"
       ELSE "none"

\* Mutant: the rows inside an inserted group are nobody's.
ClaimTop(patch) == Signed({p \in Rows(patch) : Parent(p) = patch.id}, Sources[layer])

ClaimRows(patch) == Signed(Rows(patch), Sources[layer])

Replaced(patch) ==
    [f \in Fields |-> IF f \in DOMAIN patch.fields THEN patch.fields[f] ELSE entries[patch.id][f]]
Wrote(patch) ==
    DOMAIN patch.fields \cup (IF DOMAIN patch.insert # {} THEN {"group"} ELSE {})

\* _patch: fields are replaced whole, then rows are appended.
Apply(patch) ==
    LET rewritten == IF patch.id = <<>> THEN entries
                     ELSE [entries EXCEPT ![patch.id] = Replaced(patch)]
        written == IF patch.id = <<>> THEN provenance
                   ELSE [provenance EXCEPT ![patch.id] =
                           [f \in Fields |-> IF f \in Wrote(patch) THEN Sources[layer] ELSE @[f]]]
    IN /\ Folding /\ Refusal(patch) = "none"
       /\ entries' = Over([p \in Rows(patch) |-> Inserted(patch, p)], rewritten)
       /\ provenance' = Over(ClaimRows(patch), written)
       /\ folded' = Append(folded, [patch |-> patch, source |-> Sources[layer]])
       /\ UNCHANGED <<layer, failure>>

\* A patch that cannot be applied is an error, and there is no resolution.
Raise(patch) ==
    /\ Folding /\ Refusal(patch) # "none"
    /\ failure' = Refusal(patch)
    /\ UNCHANGED <<entries, provenance, layer, folded>>

NextLayer ==
    /\ Folding /\ layer < Len(Sources)
    /\ layer' = layer + 1
    /\ UNCHANGED <<entries, provenance, folded, failure>>

LayeringNext ==
    \/ \E patch \in Patches : Apply(patch) \/ Raise(patch)
    \/ NextLayer

LayeringSpec == LayeringInit /\ [][LayeringNext]_layeringVars

-----------------------------------------------------------------------------
\* Properties

WrittenBy(n, p, f) ==    \* the patch folded n-th wrote this field of this entry
    LET patch == folded[n].patch IN
    \/ p = patch.id /\ (f \in Wrote(patch))
    \/ p \in Rows(patch)

Value(n, p, f) ==
    LET patch == folded[n].patch IN
    IF p = patch.id THEN (IF f \in DOMAIN patch.fields THEN patch.fields[f] ELSE TRUE)
    ELSE Inserted(patch, p)[f]

\* The table of writers accounts for every field of every entry, inserted rows and
\* the rows in them included: its value is what the last patch that speaks of it
\* says, and that patch's layer is the one in the table (resolve, wrote).
Accounted ==
    /\ DOMAIN provenance = DOMAIN entries
    /\ \A p \in DOMAIN entries : \A f \in Fields :
         LET by == {n \in DOMAIN folded : WrittenBy(n, p, f)} IN
         IF by = {} THEN provenance[p][f] = BaseSource /\ entries[p][f] = Base[p][f]
         ELSE LET n == CHOOSE n \in by : \A k \in by : k <= n
              IN provenance[p][f] = folded[n].source /\ entries[p][f] = Value(n, p, f)

\* No patch takes an entry away, and none hides another: every entry of the base
\* and of every patch folded is there still, in a group, once (SEM-003).
NothingHidden ==
    /\ \A p \in DOMAIN entries : Len(p) > 1 => (Parent(p) \in DOMAIN entries /\ entries[Parent(p)].group)
    /\ DOMAIN Base \subseteq DOMAIN entries
    /\ \A n \in DOMAIN folded :
         /\ Rows(folded[n].patch) \cap DOMAIN Base = {}
         /\ \A k \in DOMAIN folded \ {n} : Rows(folded[n].patch) \cap Rows(folded[k].patch) = {}

\* The fold of the layers loses no entry and no author.
Layered == Accounted /\ NothingHidden
=============================================================================
